-------------------------------- MODULE TtlCache --------------------------------
(***************************************************************************)
(* The thread-safe TTL cache of app/services/cache.py, as used for systemd *)
(* unit states (app/services/system.py) and for the scanner list           *)
(* (app/services/scan.py).                                                 *)
(*                                                                         *)
(* Worker threads look a key up under the cache's lock, compute a missing  *)
(* value OUTSIDE the lock by probing the system, and store it under the    *)
(* lock again.  A thread that changes the system (`systemctl restart`, ... *)
(* of system._act) drops the key afterwards.  The probed object is a       *)
(* version number that grows with every change, so that "how old is what   *)
(* the cache serves" can be asked of any value it returns.                 *)
(***************************************************************************)
EXTENDS Integers

CONSTANTS
  Threads,     \* request and background threads of the panel
  Keys,        \* cache keys: one per systemd unit
  NoEntry,     \* "not in the dictionary"
  Ttl,         \* lifetime of an entry; zero or less disables the cache
  ProbeMax,    \* longest time from a probe's look at the system to its store
  MaxTime,     \* bound: how far the clock is followed
  MaxVersion   \* bound: how often a probed object changes

Versions == 0 .. MaxVersion

\* A stored value, when it was stored, and (history) when the system was
\* actually looked at and whether the key was dropped since that look.
Entry == [at : Nat, val : Versions, sampled : Nat, dirty : BOOLEAN]

ASSUME ConstantsAssumption ==
  /\ NoEntry \notin Entry
  /\ Ttl \in Int
  /\ ProbeMax \in Nat
  /\ MaxTime \in Nat
  /\ MaxVersion \in Nat

VARIABLES
  now,      \* time.monotonic()
  world,    \* current version of every probed object
  ended,    \* history: when a version of an object stopped being current
  store,    \* TTLCache._store
  th,       \* every thread's call in progress
  acked,    \* history: newest version whose mutation has dropped the key
  ret       \* history: what the last call of get_or_call returned

vars == <<now, world, ended, store, th, acked, ret>>

\* The call a thread is in: its key, the clock it read (t0), the value it
\* probed and when (sampled), whether the key was dropped since (dirty), and
\* the newest acknowledged mutation when the call began (after).
Call == [pc : {"idle", "lookup", "probe", "fill", "acted"}, key : Keys, t0 : Nat,
         val : Versions, sampled : Nat, dirty : BOOLEAN, after : Versions]

Return == [key : Keys, val : Versions, t0 : Nat, after : Versions, dirty : BOOLEAN]

\* A thread outside the cache; the fields of its last call are of no interest.
Idle(k) == [pc |-> "idle", key |-> k, t0 |-> 0, val |-> 0, sampled |-> 0,
            dirty |-> FALSE, after |-> 0]

\* The calling thread hands the value back to its caller.
Returns(t, val, dirty) ==
  /\ ret' = [key |-> th[t].key, val |-> val, t0 |-> th[t].t0, after |-> th[t].after,
             dirty |-> dirty]
  /\ th' = [th EXCEPT ![t] = Idle(th[t].key)]

-----------------------------------------------------------------------------
(* get_or_call *)

\* A caller enters; with the cache switched off it goes straight to the probe.
StartCall(t, k) ==
  /\ th[t].pc = "idle"
  /\ th' = [th EXCEPT ![t] =
              [pc |-> IF Ttl <= 0 THEN "probe" ELSE "lookup", key |-> k, t0 |-> now,
               val |-> 0, sampled |-> 0, dirty |-> FALSE, after |-> acked[k]]]
  /\ UNCHANGED <<now, world, ended, store, acked, ret>>

\* Mutant: an entry is still served when its lifetime is exactly over.
IsLiveAtExpiry(e, t0) == e # NoEntry /\ t0 - e.at <= Ttl

\* The entry exists and was young enough when the caller read the clock.
IsLive(e, t0) == e # NoEntry /\ t0 - e.at < Ttl

Hit(t) ==
  /\ th[t].pc = "lookup"
  /\ LET e == store[th[t].key]
     IN  /\ IsLive(e, th[t].t0)
         /\ Returns(t, e.val, e.dirty)
  /\ UNCHANGED <<now, world, ended, store, acked>>

Miss(t) ==
  /\ th[t].pc = "lookup"
  /\ ~IsLive(store[th[t].key], th[t].t0)
  /\ th' = [th EXCEPT ![t].pc = "probe"]
  /\ UNCHANGED <<now, world, ended, store, acked, ret>>

\* The producer looks at the system, outside the lock.
Probe(t) ==
  /\ th[t].pc = "probe"
  /\ th' = [th EXCEPT ![t] = [@ EXCEPT !.pc = "fill",
                                       !.val = world[th[t].key],
                                       !.sampled = now]]
  /\ UNCHANGED <<now, world, ended, store, acked, ret>>

\* Mutant: the entry is stamped as if it had just expired.
StampExpired == now - Ttl

\* The entry is stamped with the time of the store.
Stamp == now

\* The probe has finished: store its result with the time of the store.
Fill(t) ==
  /\ th[t].pc = "fill"
  /\ IF Ttl <= 0
     THEN UNCHANGED store
     ELSE store' = [store EXCEPT ![th[t].key] =
                      [at |-> Stamp, val |-> th[t].val, sampled |-> th[t].sampled,
                       dirty |-> th[t].dirty]]
  /\ Returns(t, th[t].val, th[t].dirty)
  /\ UNCHANGED <<now, world, ended, acked>>

-----------------------------------------------------------------------------
(* Mutations and invalidation *)

\* The object behind key k takes its next version.
NextVersion(k) ==
  /\ world[k] < MaxVersion
  /\ world' = [world EXCEPT ![k] = @ + 1]
  /\ ended' = [ended EXCEPT ![k][world[k]] = now]

\* system._act: the systemctl verb runs; it may fail and change nothing.
Act(t, k) ==
  /\ th[t].pc = "idle"
  /\ NextVersion(k) \/ UNCHANGED <<world, ended>>
  /\ th' = [th EXCEPT ![t] =
              [pc |-> "acted", key |-> k, t0 |-> 0, val |-> world'[k], sampled |-> 0,
               dirty |-> FALSE, after |-> 0]]
  /\ UNCHANGED <<now, store, acked, ret>>

\* Mutant: the key stays in the dictionary.
DropNothing(k) == store

\* TTLCache._store.pop(key, None)
Drop(k) == [store EXCEPT ![k] = NoEntry]

\* ... and then, still in system._act, the key is dropped.  Probes that have
\* looked but not stored yet are marked.
Invalidate(t) ==
  /\ th[t].pc = "acted"
  /\ LET k == th[t].key
     IN  /\ store' = Drop(k)
         /\ acked' = [acked EXCEPT ![k] = IF th[t].val > @ THEN th[t].val ELSE @]
         /\ th' = [u \in Threads |->
                     IF u = t THEN Idle(k)
                     ELSE [th[u] EXCEPT !.dirty = @ \/ (th[u].pc = "fill" /\ th[u].key = k)]]
  /\ UNCHANGED <<now, world, ended, ret>>

\* invalidate() without a key: the whole cache is dropped.
InvalidateAll ==
  /\ store' = [k \in Keys |-> NoEntry]
  /\ UNCHANGED <<now, world, ended, th, acked, ret>>

\* The object changes on its own: a unit dies, a plug is pulled.
Change(k) ==
  /\ NextVersion(k)
  /\ UNCHANGED <<now, store, th, acked, ret>>

\* Time passes.  shell.run kills a probe's command after its timeout, so no
\* thread keeps a value it has seen for longer than ProbeMax before storing it.
Tick ==
  /\ now < MaxTime
  /\ \A t \in Threads : th[t].pc = "fill" => now - th[t].sampled < ProbeMax
  /\ now' = now + 1
  /\ UNCHANGED <<world, ended, store, th, acked, ret>>

-----------------------------------------------------------------------------
Init ==
  /\ now = 0
  /\ world = [k \in Keys |-> 0]
  /\ ended = [k \in Keys |-> [v \in Versions |-> 0]]
  /\ store = [k \in Keys |-> NoEntry]
  /\ \E k \in Keys :
       /\ th = [t \in Threads |-> Idle(k)]
       /\ ret = [key |-> k, val |-> 0, t0 |-> 0, after |-> 0, dirty |-> FALSE]
  /\ acked = [k \in Keys |-> 0]

Next ==
  \/ \E t \in Threads, k \in Keys : StartCall(t, k) \/ Act(t, k)
  \/ \E t \in Threads : Hit(t) \/ Miss(t) \/ Probe(t) \/ Fill(t) \/ Invalidate(t)
  \/ \E k \in Keys : Change(k)
  \/ InvalidateAll
  \/ Tick

Spec == Init /\ [][Next]_vars

-----------------------------------------------------------------------------
(* Properties *)

\* The variables have their types.
TypeOK ==
  /\ now \in Nat
  /\ world \in [Keys -> Versions]
  /\ ended \in [Keys -> [Versions -> Nat]]
  /\ store \in [Keys -> Entry \cup {NoEntry}]
  /\ th \in [Threads -> Call]
  /\ acked \in [Keys -> Versions]
  /\ ret \in Return

\* "Memoize ... for ttl seconds": whatever a call returns was the true state of
\* its object no longer than the lifetime of an entry plus the duration of one
\* probe before the call, however probes, stores and drops interleave.  With
\* the cache switched off it was true after the call began.
BoundedStaleness ==
  \/ ret.val = world[ret.key]
  \/ ended[ret.key][ret.val] >= ret.t0
  \/ Ttl > 0 /\ ended[ret.key][ret.val] + Ttl + ProbeMax > ret.t0

\* A call that begins after a mutation has dropped its key returns a state from
\* before that mutation only if a probe that had already looked at the system
\* was still running when the key was dropped (and stored its value after).
StaleOnlyByOverlap == ret.val < ret.after => ret.dirty

=============================================================================
