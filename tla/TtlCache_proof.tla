----------------------------- MODULE TtlCache_proof -----------------------------
(***************************************************************************)
(* Proofs about TtlCache for every set of threads and keys, every Ttl and  *)
(* every ProbeMax: how stale a served value can be, and what is left of    *)
(* read-your-writes.  Neither property is inductive: they follow from what *)
(* holds of a value while it is carried by a thread and while it is in the *)
(* store.                                                                  *)
(***************************************************************************)
EXTENDS TtlCache, TLAPS

\* A value v of key k that was looked at at time s: either it is still current
\* or it was when s came, and it is not newer than the world.
SeenAt(k, v, s) ==
  /\ s <= now
  /\ v <= world[k]
  /\ v = world[k] \/ ended[k][v] >= s

\* The value a thread carries from its probe to its store.
Carried(t) ==
  th[t].pc = "fill" =>
    /\ SeenAt(th[t].key, th[t].val, th[t].sampled)
    /\ th[t].t0 <= th[t].sampled
    /\ now <= th[t].sampled + ProbeMax
    /\ th[t].val < acked[th[t].key] => th[t].dirty

\* What holds of every thread's call.
CallInv ==
  \A t \in Threads :
    /\ Carried(t)
    /\ th[t].t0 <= now
    /\ th[t].after <= acked[th[t].key]
    /\ th[t].pc = "acted" => th[t].val <= world[th[t].key]
    /\ th[t].pc = "lookup" => Ttl > 0

\* What holds of every stored entry.
StoreInv ==
  \A k \in Keys : store[k] # NoEntry =>
    /\ SeenAt(k, store[k].val, store[k].sampled)
    /\ store[k].at <= now
    /\ store[k].at <= store[k].sampled + ProbeMax
    /\ store[k].val < acked[k] => store[k].dirty

\* A mutation is acknowledged only once it has happened.
AckedInv == \A k \in Keys : acked[k] <= world[k]

\* What holds of the last value returned, besides the two properties.
RetInv == ret.t0 <= now /\ ret.val <= world[ret.key]

IInv ==
  /\ TypeOK
  /\ CallInv
  /\ StoreInv
  /\ AckedInv
  /\ RetInv
  /\ BoundedStaleness
  /\ StaleOnlyByOverlap

-----------------------------------------------------------------------------
(* Type correctness *)

\* A thread's record at rest is a call.
LEMMA IdleType == ASSUME NEW k \in Keys PROVE Idle(k) \in Call
BY ConstantsAssumption DEF Idle, Call, Versions

\* The initial state is well typed.
LEMMA TypeInit == Init => TypeOK
BY ConstantsAssumption DEF Init, TypeOK, Idle, Call, Return, Versions

\* Every step keeps the variables in their types.
LEMMA TypeStep == TypeOK /\ [Next]_vars => TypeOK'
<1> SUFFICES ASSUME TypeOK, [Next]_vars PROVE TypeOK'
    OBVIOUS
<1> USE ConstantsAssumption DEF TypeOK
<1>1. ASSUME NEW t \in Threads, NEW k \in Keys, StartCall(t, k) PROVE TypeOK'
  <2>1. 0 \in Versions /\ acked[k] \in Versions
      BY DEF Versions
  <2> DEFINE c == [pc |-> IF Ttl <= 0 THEN "probe" ELSE "lookup", key |-> k, t0 |-> now,
                   val |-> 0, sampled |-> 0, dirty |-> FALSE, after |-> acked[k]]
  <2>2. c \in Call
      BY <2>1 DEF Call
  <2>3. th' = [th EXCEPT ![t] = c]
      BY <1>1 DEF StartCall
  <2>4. th' \in [Threads -> Call]
      BY <2>2, <2>3
  <2>5. QED BY <1>1, <2>4 DEF StartCall
<1>0. ASSUME NEW k \in Keys, NextVersion(k)
      PROVE  world' \in [Keys -> Versions] /\ ended' \in [Keys -> [Versions -> Nat]]
  <2>1. world[k] \in Nat /\ world[k] + 1 \in Versions /\ world[k] \in Versions
      BY <1>0 DEF NextVersion, Versions
  <2>2. world' = [world EXCEPT ![k] = world[k] + 1]
      BY <1>0 DEF NextVersion
  <2>3. ended' = [ended EXCEPT ![k] = [ended[k] EXCEPT ![world[k]] = now]]
      BY <1>0 DEF NextVersion
  <2>4. [ended[k] EXCEPT ![world[k]] = now] \in [Versions -> Nat]
      BY <2>1
  <2>5. QED BY <2>1, <2>2, <2>3, <2>4
<1>2. ASSUME NEW t \in Threads, NEW k \in Keys, Act(t, k) PROVE TypeOK'
  <2>1. UNCHANGED <<now, store, acked, ret>>
      BY <1>2 DEF Act
  <2>2. world' \in [Keys -> Versions] /\ ended' \in [Keys -> [Versions -> Nat]]
      BY <1>0, <1>2 DEF Act
  <2>3. th' \in [Threads -> Call]
      BY <1>2, <2>2 DEF Act, Call, Idle, Versions
  <2>4. QED BY <2>1, <2>2, <2>3
<1>3. ASSUME NEW t \in Threads, NEW v \in Versions, NEW d \in BOOLEAN, Returns(t, v, d)
      PROVE  th' \in [Threads -> Call] /\ ret' \in Return
    BY <1>3, IdleType DEF Returns, Return, Call
<1>4. ASSUME NEW t \in Threads, Hit(t) PROVE TypeOK'
  <2>1. store[th[t].key] \in Entry
      BY <1>4 DEF Hit, IsLive, Call
  <2>2. store[th[t].key].val \in Versions /\ store[th[t].key].dirty \in BOOLEAN
      BY <2>1 DEF Entry
  <2>3. QED BY <1>3, <1>4, <2>2 DEF Hit
<1>5. ASSUME NEW t \in Threads, Miss(t) PROVE TypeOK'
  <2>1. [th[t] EXCEPT !.pc = "probe"] \in Call
      BY DEF Call
  <2>2. th' = [th EXCEPT ![t] = [th[t] EXCEPT !.pc = "probe"]]
      BY <1>5 DEF Miss
  <2>3. th' \in [Threads -> Call]
      BY <2>1, <2>2
  <2>4. QED BY <1>5, <2>3 DEF Miss
<1>6. ASSUME NEW t \in Threads, Probe(t) PROVE TypeOK'
  <2> DEFINE seen == [th[t] EXCEPT !.pc = "fill", !.val = world[th[t].key], !.sampled = now]
  <2>1. seen \in Call
      BY DEF Call
  <2>2. th' = [th EXCEPT ![t] = seen]
      BY <1>6 DEF Probe
  <2> HIDE DEF seen
  <2>3. th' \in [Threads -> Call]
      BY <2>1, <2>2
  <2>4. QED BY <1>6, <2>3 DEF Probe
<1>7. ASSUME NEW t \in Threads, Fill(t) PROVE TypeOK'
  <2>1. th[t].val \in Versions /\ th[t].dirty \in BOOLEAN /\ th[t].sampled \in Nat
      BY DEF Call
  <2>2. th' \in [Threads -> Call] /\ ret' \in Return
      BY <1>3, <1>7, <2>1 DEF Fill
  <2>3. store' \in [Keys -> Entry \cup {NoEntry}]
      BY <1>7, <2>1 DEF Fill, Stamp, Entry
  <2>4. QED BY <1>7, <2>2, <2>3 DEF Fill
<1>8. ASSUME NEW t \in Threads, Invalidate(t) PROVE TypeOK'
  <2>1. th[t].key \in Keys
      BY DEF Call
  <2>2. th' \in [Threads -> Call]
    <3> DEFINE k == th[t].key
    <3>1. ASSUME NEW u \in Threads
          PROVE [th[u] EXCEPT !.dirty = @ \/ (th[u].pc = "fill" /\ th[u].key = k)] \in Call
        BY DEF Call
    <3>2. QED BY <1>8, <2>1, <3>1, IdleType DEF Invalidate
  <2>3. store' \in [Keys -> Entry \cup {NoEntry}] /\ acked' \in [Keys -> Versions]
      BY <1>8, <2>1 DEF Invalidate, Drop, Call
  <2>4. QED BY <1>8, <2>2, <2>3 DEF Invalidate
<1>9. ASSUME NEW k \in Keys, Change(k) PROVE TypeOK'
    BY <1>0, <1>9 DEF Change
<1>10. CASE InvalidateAll
    BY <1>10 DEF InvalidateAll
<1>11. CASE Tick
    BY <1>11 DEF Tick
<1>12. CASE UNCHANGED vars
    BY <1>12 DEF vars
<1>13. QED
    BY <1>1, <1>2, <1>4, <1>5, <1>6, <1>7, <1>8, <1>9, <1>10, <1>11, <1>12 DEF Next

\* The variables always have their types.
THEOREM TypeCorrect == Spec => []TypeOK
<1>1. QED BY TypeInit, TypeStep, PTL DEF Spec

-----------------------------------------------------------------------------
(* The invariant behind the two properties *)

\* The initial states satisfy the invariant.
LEMMA IInvInit == Init => IInv
<1> SUFFICES ASSUME Init PROVE IInv
    OBVIOUS
<1>1. TypeOK
    BY TypeInit
<1>2. CallInv
  <2>1. PICK k \in Keys : th = [t \in Threads |-> Idle(k)]
      BY DEF Init
  <2>2. \A t \in Threads : th[t].pc = "idle" /\ th[t].key = k /\ th[t].t0 = 0 /\ th[t].after = 0
      BY <2>1 DEF Idle
  <2>3. now = 0 /\ acked[k] = 0
      BY DEF Init
  <2>4. ASSUME NEW t \in Threads
        PROVE  /\ Carried(t)
               /\ th[t].t0 <= now
               /\ th[t].after <= acked[th[t].key]
               /\ th[t].pc # "acted" /\ th[t].pc # "lookup"
    <3>1. th[t].pc = "idle" /\ th[t].key = k /\ th[t].t0 = 0 /\ th[t].after = 0
        BY <2>2
    <3>2. Carried(t)
        BY <3>1 DEF Carried
    <3>3. QED BY <2>3, <3>1, <3>2
  <2>5. QED BY <2>4 DEF CallInv
<1>3. StoreInv /\ AckedInv
    BY DEF Init, StoreInv, AckedInv
<1>4. RetInv /\ BoundedStaleness /\ StaleOnlyByOverlap
    BY DEF Init, RetInv, BoundedStaleness, StaleOnlyByOverlap
<1>5. QED BY <1>1, <1>2, <1>3, <1>4 DEF IInv

\* Versions are numbers.
LEMMA VersionsNat == \A v \in Versions : v \in Nat
BY ConstantsAssumption DEF Versions

\* A value that was seen stays seen when its object, or another, changes.
LEMMA SeenStable ==
  ASSUME TypeOK, NEW j \in Keys, NextVersion(j), now' = now,
         NEW k \in Keys, NEW v \in Versions, NEW s \in Nat, SeenAt(k, v, s)
  PROVE  s <= now' /\ v <= world'[k] /\ (v = world'[k] \/ ended'[k][v] >= s)
<1> USE DEF TypeOK, Versions
<1>1. world' = [world EXCEPT ![j] = world[j] + 1]
    BY DEF NextVersion
<1>2. ended' = [ended EXCEPT ![j] = [ended[j] EXCEPT ![world[j]] = now]]
    BY DEF NextVersion
<1>3. CASE j # k
    BY <1>1, <1>2, <1>3 DEF SeenAt
<1>4. CASE j = k
  <2>1. world'[k] = world[k] + 1 /\ ended'[k] = [ended[k] EXCEPT ![world[k]] = now]
      BY <1>1, <1>2, <1>4
  <2>2. ended[k] \in [Versions -> Nat] /\ world[k] \in Versions
      OBVIOUS
  <2>3. ended'[k][v] = IF v = world[k] THEN now ELSE ended[k][v]
      BY <2>1, <2>2
  <2>4. QED BY <2>1, <2>2, <2>3 DEF SeenAt
<1>5. QED BY <1>3, <1>4

\* A change of the world disturbs nothing that the invariant says of the
\* store, of the acknowledged mutations and of the last return.
LEMMA NextVersionIInv ==
  ASSUME IInv, NEW j \in Keys, NextVersion(j), TypeOK', UNCHANGED <<now, store, acked, ret>>
  PROVE  StoreInv' /\ AckedInv' /\ RetInv' /\ BoundedStaleness' /\ StaleOnlyByOverlap'
<1> USE DEF IInv
<1>1. world' = [world EXCEPT ![j] = world[j] + 1]
    BY DEF NextVersion
<1>2. \A k \in Keys : world[k] \in Nat /\ world'[k] \in Nat /\ world[k] <= world'[k]
  <2>1. ASSUME NEW k \in Keys PROVE world[k] \in Nat /\ world'[k] \in Nat
      BY VersionsNat DEF TypeOK
  <2>2. \A k \in Keys : world'[k] = IF k = j THEN world[k] + 1 ELSE world[k]
      BY <1>1 DEF TypeOK
  <2>3. QED BY <2>1, <2>2
<1>3. StoreInv'
  <2>1. ASSUME NEW k \in Keys, store[k] # NoEntry
        PROVE  /\ store[k].sampled <= now'
               /\ store[k].val <= world'[k]
               /\ store[k].val = world'[k] \/ ended'[k][store[k].val] >= store[k].sampled
    <3>1. store[k].val \in Versions /\ store[k].sampled \in Nat
        BY <2>1 DEF TypeOK, Entry
    <3>2. SeenAt(k, store[k].val, store[k].sampled)
        BY <2>1 DEF StoreInv
    <3>3. QED BY <3>1, <3>2, SeenStable
  <2>2. QED BY <2>1 DEF StoreInv, SeenAt
<1>4. AckedInv'
  <2>1. \A k \in Keys : acked[k] \in Nat
      BY ConstantsAssumption DEF TypeOK, Versions
  <2>2. QED BY <1>2, <2>1 DEF AckedInv
<1>5. RetInv' /\ BoundedStaleness'
  <2>1. ret.key \in Keys /\ ret.val \in Versions /\ ret.t0 \in Nat
      BY DEF TypeOK, Return
  <2>2. ended' = [ended EXCEPT ![j] = [ended[j] EXCEPT ![world[j]] = now]]
      BY DEF NextVersion
  <2>3. CASE ret.key # j
      BY <1>1, <2>1, <2>2, <2>3 DEF RetInv, BoundedStaleness, TypeOK
  <2>4. CASE ret.key = j
    <3>1. ended[j] \in [Versions -> Nat] /\ world[j] \in Versions
        BY DEF TypeOK
    <3>2. ended'[j] = [ended[j] EXCEPT ![world[j]] = now]
        BY <2>2 DEF TypeOK
    <3>3. ended'[j][ret.val] = IF ret.val = world[j] THEN now ELSE ended[j][ret.val]
        BY <2>1, <3>1, <3>2
    <3>4. BoundedStaleness'
      <4>1. CASE ret.val = world[j]
          BY <2>4, <3>3, <4>1 DEF BoundedStaleness, RetInv
      <4>2. CASE ret.val # world[j]
          BY <2>4, <3>3, <4>2 DEF BoundedStaleness
      <4>3. QED BY <4>1, <4>2
    <3>5. RetInv'
        BY <1>2, <2>1, <2>4 DEF RetInv, Versions
    <3>6. QED BY <3>4, <3>5
  <2>5. QED BY <2>3, <2>4
<1>6. StaleOnlyByOverlap'
    BY DEF StaleOnlyByOverlap
<1>7. QED BY <1>3, <1>4, <1>5, <1>6

\* What the invariant says of one thread, for the next state.
ThreadInv(t) ==
  /\ Carried(t)
  /\ th[t].t0 <= now
  /\ th[t].after <= acked[th[t].key]
  /\ th[t].pc = "acted" => th[t].val <= world[th[t].key]
  /\ th[t].pc = "lookup" => Ttl > 0

\* A thread that leaves the cache is back at rest.
LEMMA IdleThreadInv ==
  ASSUME IInv, TypeOK', NEW t \in Threads, NEW k \in Keys, th'[t] = Idle(k)
  PROVE  ThreadInv(t)'
<1>1. /\ th'[t].pc = "idle" /\ th'[t].key = k
      /\ th'[t].t0 = 0 /\ th'[t].after = 0
    BY DEF Idle
<1>2. now' \in Nat /\ acked'[k] \in Nat
    BY ConstantsAssumption DEF TypeOK, Versions
<1>3. QED BY <1>1, <1>2 DEF ThreadInv, Carried

\* A thread that takes no step keeps what holds of it when only other
\* threads, the store and the last return change.
LEMMA OtherThreadInv ==
  ASSUME IInv, NEW t \in Threads, th'[t] = th[t], UNCHANGED <<now, world, ended, acked>>
  PROVE  ThreadInv(t)'
BY DEF IInv, CallInv, ThreadInv, Carried, SeenAt

\* A return keeps the invariant if the value it hands back satisfies the two
\* properties.
LEMMA ReturnIInv ==
  ASSUME IInv, TypeOK', NEW t \in Threads, NEW v \in Versions, NEW d \in BOOLEAN,
         Returns(t, v, d), UNCHANGED <<now, world, ended, acked>>,
         NEW s \in Nat, SeenAt(th[t].key, v, s),
         s >= th[t].t0 \/ (Ttl > 0 /\ s + Ttl + ProbeMax > th[t].t0),
         v < acked[th[t].key] => d
  PROVE  CallInv' /\ AckedInv' /\ RetInv' /\ BoundedStaleness' /\ StaleOnlyByOverlap'
<1> DEFINE k == th[t].key
<1>1. /\ k \in Keys /\ th[t].t0 \in Nat /\ th[t].after \in Nat
      /\ v \in Nat /\ acked[k] \in Nat /\ world[k] \in Nat /\ ended[k][v] \in Nat
  <2>1. k \in Keys /\ th[t].t0 \in Nat /\ th[t].after \in Versions
      BY DEF IInv, TypeOK, Call
  <2>2. acked[k] \in Versions /\ world[k] \in Versions /\ ended[k] \in [Versions -> Nat]
      BY <2>1 DEF IInv, TypeOK
  <2>3. QED BY <2>1, <2>2, VersionsNat
<1>2. CallInv'
  <2>1. ASSUME NEW u \in Threads PROVE ThreadInv(u)'
    <3>1. CASE u = t
        BY <1>1, <3>1, IdleThreadInv DEF Returns, IInv, TypeOK
    <3>2. CASE u # t
      <4>1. th'[u] = th[u]
          BY <3>2 DEF Returns, IInv, TypeOK
      <4>2. QED BY <4>1, OtherThreadInv
    <3>3. QED BY <3>1, <3>2
  <2>2. QED BY <2>1 DEF CallInv, ThreadInv
<1>3. AckedInv'
    BY DEF IInv, AckedInv
<1>4. /\ ret'.key = k /\ ret'.val = v /\ ret'.t0 = th[t].t0
      /\ ret'.after = th[t].after /\ ret'.dirty = d
    BY DEF Returns
<1>5. th[t].t0 <= now /\ th[t].after <= acked[k]
    BY DEF IInv, CallInv
<1>6. v <= world[k] /\ (v = world[k] \/ ended[k][v] >= s)
    BY DEF SeenAt
<1>7. RetInv'
    BY <1>4, <1>5, <1>6 DEF RetInv
<1>8. BoundedStaleness'
  <2>1. CASE v = world[k]
      BY <1>4, <2>1 DEF BoundedStaleness
  <2>2. CASE v # world[k]
    <3>1. ended[k][v] >= s
        BY <1>6, <2>2
    <3>2. \/ ended[k][v] >= th[t].t0
          \/ Ttl > 0 /\ ended[k][v] + Ttl + ProbeMax > th[t].t0
        BY <1>1, <3>1, ConstantsAssumption
    <3>3. QED BY <1>4, <3>2 DEF BoundedStaleness
  <2>3. QED BY <2>1, <2>2
<1>9. StaleOnlyByOverlap'
  <2>1. v < th[t].after => d
      BY <1>1, <1>5
  <2>2. QED BY <1>4, <2>1 DEF StaleOnlyByOverlap
<1>10. QED BY <1>2, <1>3, <1>7, <1>8, <1>9

\* A step of one thread that touches neither world, store nor last return.
LEMMA LocalIInv ==
  ASSUME IInv, TypeOK', NEW t \in Threads, ThreadInv(t)',
         \A u \in Threads \ {t} : th'[u] = th[u],
         UNCHANGED <<now, world, ended, store, acked, ret>>
  PROVE  IInv'
<1>1. ASSUME NEW u \in Threads PROVE ThreadInv(u)'
    BY OtherThreadInv
<1>2. CallInv'
    BY <1>1 DEF CallInv, ThreadInv
<1>3. StoreInv' /\ AckedInv' /\ RetInv' /\ BoundedStaleness' /\ StaleOnlyByOverlap'
    BY DEF IInv, StoreInv, SeenAt, AckedInv, RetInv, BoundedStaleness, StaleOnlyByOverlap
<1>4. QED BY <1>2, <1>3 DEF IInv

\* A call begins: it remembers the newest acknowledged mutation of its key.
LEMMA StartCallIInv ==
  ASSUME IInv, TypeOK', NEW t \in Threads, NEW k \in Keys, StartCall(t, k)
  PROVE  IInv'
<1>1. /\ th'[t].pc = IF Ttl <= 0 THEN "probe" ELSE "lookup"
      /\ th'[t].key = k /\ th'[t].t0 = now /\ th'[t].after = acked[k]
      /\ UNCHANGED <<now, acked>>
      /\ \A u \in Threads \ {t} : th'[u] = th[u]
    BY DEF StartCall, IInv, TypeOK
<1>2. now \in Nat /\ acked[k] \in Nat
    BY VersionsNat DEF IInv, TypeOK
<1>3. th'[t].pc = "lookup" => Ttl > 0
    BY <1>1, ConstantsAssumption
<1>4. th'[t].pc # "fill" /\ th'[t].pc # "acted"
    BY <1>1
<1>5. ThreadInv(t)'
    BY <1>1, <1>2, <1>3, <1>4 DEF ThreadInv, Carried
<1>6. QED BY <1>1, <1>5, LocalIInv DEF StartCall

\* A miss only moves the thread on to its probe.
LEMMA MissIInv ==
  ASSUME IInv, TypeOK', NEW t \in Threads, Miss(t)
  PROVE  IInv'
<1>1. /\ th'[t].pc = "probe" /\ th'[t].key = th[t].key
      /\ th'[t].t0 = th[t].t0 /\ th'[t].after = th[t].after
      /\ UNCHANGED <<now, acked>>
      /\ \A u \in Threads \ {t} : th'[u] = th[u]
    BY DEF Miss, IInv, TypeOK, Call
<1>2. ThreadInv(t)'
    BY <1>1 DEF ThreadInv, Carried, IInv, CallInv
<1>3. QED BY <1>1, <1>2, LocalIInv DEF Miss

\* A probe sees the current version, which no acknowledged mutation is ahead of.
LEMMA ProbeIInv ==
  ASSUME IInv, TypeOK', NEW t \in Threads, Probe(t)
  PROVE  IInv'
<1>1. /\ th'[t].pc = "fill" /\ th'[t].key = th[t].key
      /\ th'[t].t0 = th[t].t0 /\ th'[t].after = th[t].after
      /\ th'[t].val = world[th[t].key] /\ th'[t].sampled = now
      /\ UNCHANGED <<now, world, ended, acked>>
      /\ \A u \in Threads \ {t} : th'[u] = th[u]
    BY DEF Probe, IInv, TypeOK, Call
<1>2. th[t].key \in Keys /\ th[t].t0 <= now /\ th[t].after <= acked[th[t].key]
    BY DEF IInv, CallInv, TypeOK, Call
<1>3. now \in Nat /\ world[th[t].key] \in Nat /\ acked[th[t].key] \in Nat
    BY <1>2, VersionsNat DEF IInv, TypeOK
<1>4. acked[th[t].key] <= world[th[t].key]
    BY <1>2 DEF IInv, AckedInv
<1>5. Carried(t)'
    BY <1>1, <1>2, <1>3, <1>4, ConstantsAssumption DEF Carried, SeenAt
<1>6. ThreadInv(t)'
    BY <1>1, <1>2, <1>5 DEF ThreadInv
<1>7. QED BY <1>1, <1>6, LocalIInv DEF Probe

\* A hit hands back a stored value.
LEMMA HitIInv ==
  ASSUME IInv, TypeOK', NEW t \in Threads, Hit(t)
  PROVE  IInv'
<1> DEFINE k == th[t].key  e == store[k]
<1>1. k \in Keys /\ th[t].t0 \in Nat
    BY DEF IInv, TypeOK, Call
<1>2. e # NoEntry /\ th[t].t0 - e.at < Ttl /\ Ttl > 0
    BY DEF Hit, IsLive, IInv, CallInv
<1>3. e \in Entry
    BY <1>1, <1>2 DEF IInv, TypeOK
<1>4. e.val \in Versions /\ e.dirty \in BOOLEAN /\ e.sampled \in Nat /\ e.at \in Nat
    BY <1>3 DEF Entry
<1>5. SeenAt(k, e.val, e.sampled) /\ e.at <= e.sampled + ProbeMax
      /\ (e.val < acked[k] => e.dirty)
    BY <1>1, <1>2 DEF IInv, StoreInv
<1>6. e.sampled + Ttl + ProbeMax > th[t].t0
    BY <1>1, <1>2, <1>4, <1>5, ConstantsAssumption
<1>7. Returns(t, e.val, e.dirty) /\ UNCHANGED <<now, world, ended, store, acked>>
    BY DEF Hit
<1>8. CallInv' /\ AckedInv' /\ RetInv' /\ BoundedStaleness' /\ StaleOnlyByOverlap'
    BY <1>2, <1>4, <1>5, <1>6, <1>7, ReturnIInv
<1>9. StoreInv'
    BY <1>7 DEF IInv, StoreInv, SeenAt
<1>10. QED BY <1>8, <1>9 DEF IInv

\* A probe that ends hands back, and stores, what it saw.
LEMMA FillIInv ==
  ASSUME IInv, TypeOK', NEW t \in Threads, Fill(t)
  PROVE  IInv'
<1> DEFINE k == th[t].key
<1>1. /\ k \in Keys /\ th[t].t0 \in Nat /\ th[t].val \in Versions
      /\ th[t].dirty \in BOOLEAN /\ th[t].sampled \in Nat
    BY DEF IInv, TypeOK, Call
<1>2. /\ SeenAt(k, th[t].val, th[t].sampled) /\ th[t].t0 <= th[t].sampled
      /\ now <= th[t].sampled + ProbeMax
      /\ th[t].val < acked[k] => th[t].dirty
    BY DEF Fill, IInv, CallInv, Carried
<1>3. Returns(t, th[t].val, th[t].dirty) /\ UNCHANGED <<now, world, ended, acked>>
    BY DEF Fill
<1>4. CallInv' /\ AckedInv' /\ RetInv' /\ BoundedStaleness' /\ StaleOnlyByOverlap'
    BY <1>1, <1>2, <1>3, ReturnIInv
<1>5. StoreInv'
  <2>1. CASE Ttl <= 0
      BY <1>3, <2>1 DEF Fill, IInv, StoreInv, SeenAt
  <2>2. CASE ~(Ttl <= 0)
    <3> DEFINE e == [at |-> now, val |-> th[t].val, sampled |-> th[t].sampled,
                     dirty |-> th[t].dirty]
    <3>1. store' = [store EXCEPT ![k] = e]
        BY <2>2 DEF Fill, Stamp
    <3>2. store'[k] = e /\ \A j \in Keys \ {k} : store'[j] = store[j]
        BY <1>1, <3>1 DEF IInv, TypeOK
    <3>3. now \in Nat
        BY DEF IInv, TypeOK
    <3>4. ASSUME NEW j \in Keys, store'[j] # NoEntry
          PROVE  /\ SeenAt(j, store[j].val, store[j].sampled)'
                 /\ store'[j].at <= now
                 /\ store'[j].at <= store'[j].sampled + ProbeMax
                 /\ store'[j].val < acked[j] => store'[j].dirty
      <4>1. CASE j = k
        <5>1. /\ store'[j].at = now /\ store'[j].val = th[t].val
              /\ store'[j].sampled = th[t].sampled /\ store'[j].dirty = th[t].dirty
            BY <3>2, <4>1
        <5>2. QED BY <1>2, <1>3, <3>3, <4>1, <5>1 DEF SeenAt
      <4>2. CASE j # k
        <5>1. store'[j] = store[j] /\ store[j] # NoEntry
            BY <3>2, <3>4, <4>2
        <5>2. QED BY <1>3, <5>1 DEF SeenAt, IInv, StoreInv
      <4>3. QED BY <4>1, <4>2
    <3>5. QED BY <1>3, <3>4 DEF StoreInv
  <2>3. QED BY <2>1, <2>2
<1>6. QED BY <1>4, <1>5 DEF IInv

\* Threads inside the cache are not disturbed by a change of the world.
LEMMA ChangedThreadInv ==
  ASSUME IInv, TypeOK', NEW j \in Keys, NextVersion(j), UNCHANGED <<now, acked>>,
         NEW u \in Threads, th'[u] = th[u]
  PROVE  ThreadInv(u)'
<1> DEFINE k == th[u].key
<1>1. k \in Keys /\ th[u].val \in Versions /\ th[u].sampled \in Nat
    BY DEF IInv, TypeOK, Call
<1>2. world[k] \in Nat /\ world'[k] \in Nat /\ world[k] <= world'[k]
  <2>1. world[k] \in Nat /\ world'[k] \in Nat
      BY <1>1, VersionsNat DEF IInv, TypeOK
  <2>2. world'[k] = IF k = j THEN world[k] + 1 ELSE world[k]
      BY <1>1 DEF NextVersion, IInv, TypeOK
  <2>3. QED BY <2>1, <2>2
<1>3. th[u].val \in Nat
    BY <1>1, VersionsNat
<1>4. /\ Carried(u) /\ th[u].t0 <= now /\ th[u].after <= acked[k]
      /\ th[u].pc = "acted" => th[u].val <= world[k]
      /\ th[u].pc = "lookup" => Ttl > 0
    BY DEF IInv, CallInv
<1>5. Carried(u)'
  <2>1. ASSUME th[u].pc = "fill"
        PROVE  SeenAt(k, th[u].val, th[u].sampled)
      BY <1>4, <2>1 DEF Carried
  <2>2. ASSUME th[u].pc = "fill"
        PROVE  /\ th[u].sampled <= now' /\ th[u].val <= world'[k]
               /\ th[u].val = world'[k] \/ ended'[k][th[u].val] >= th[u].sampled
      BY <1>1, <2>1, <2>2, SeenStable DEF IInv
  <2>3. QED BY <1>4, <2>2 DEF Carried, SeenAt
<1>6. QED BY <1>2, <1>3, <1>4, <1>5 DEF ThreadInv

\* The object changes on its own.
LEMMA ChangeIInv ==
  ASSUME IInv, TypeOK', NEW k \in Keys, Change(k)
  PROVE  IInv'
<1>1. NextVersion(k) /\ UNCHANGED <<now, store, th, acked, ret>>
    BY DEF Change
<1>2. CallInv'
    BY <1>1, ChangedThreadInv DEF CallInv, ThreadInv
<1>3. QED BY <1>1, <1>2, NextVersionIInv DEF IInv

\* A mutation changes the object, or fails; it is not acknowledged yet.
LEMMA ActIInv ==
  ASSUME IInv, TypeOK', NEW t \in Threads, NEW k \in Keys, Act(t, k)
  PROVE  IInv'
<1>1. /\ th'[t].pc = "acted" /\ th'[t].key = k /\ th'[t].val = world'[k]
      /\ th'[t].t0 = 0 /\ th'[t].after = 0
      /\ \A u \in Threads \ {t} : th'[u] = th[u]
      /\ UNCHANGED <<now, store, acked, ret>>
    BY DEF Act, IInv, TypeOK
<1>2. world'[k] \in Nat /\ now \in Nat /\ acked[k] \in Nat
    BY VersionsNat DEF IInv, TypeOK
<1>3. ThreadInv(t)'
    BY <1>1, <1>2 DEF ThreadInv, Carried
<1>4. CASE NextVersion(k)
  <2>1. ASSUME NEW u \in Threads PROVE ThreadInv(u)'
      BY <1>1, <1>3, <1>4, ChangedThreadInv
  <2>2. CallInv'
      BY <2>1 DEF CallInv, ThreadInv
  <2>3. QED BY <1>1, <1>4, <2>2, NextVersionIInv DEF IInv
<1>5. CASE UNCHANGED <<world, ended>>
    BY <1>1, <1>3, <1>5, LocalIInv
<1>6. QED BY <1>4, <1>5 DEF Act

\* The key is dropped and the mutation acknowledged: every probe that has
\* looked before is marked.
LEMMA InvalidateIInv ==
  ASSUME IInv, TypeOK', NEW t \in Threads, Invalidate(t)
  PROVE  IInv'
<1> DEFINE k == th[t].key
<1>1. k \in Keys /\ th[t].val \in Nat /\ th[t].val <= world[k]
  <2>1. k \in Keys /\ th[t].val \in Versions
      BY DEF IInv, TypeOK, Call
  <2>2. QED BY <2>1, VersionsNat DEF Invalidate, IInv, CallInv
<1>2. /\ store' = [store EXCEPT ![k] = NoEntry]
      /\ acked' = [acked EXCEPT ![k] = IF th[t].val > @ THEN th[t].val ELSE @]
      /\ UNCHANGED <<now, world, ended, ret>>
    BY DEF Invalidate, Drop
<1>3. \A j \in Keys : acked[j] \in Nat /\ acked'[j] \in Nat /\ world[j] \in Nat
    BY VersionsNat DEF IInv, TypeOK
<1>4. \A j \in Keys : acked[j] <= acked'[j] /\ (j # k => acked'[j] = acked[j])
    BY <1>1, <1>2, <1>3 DEF IInv, TypeOK
<1>5. AckedInv'
  <2>1. acked'[k] = acked[k] \/ acked'[k] = th[t].val
      BY <1>1, <1>2 DEF IInv, TypeOK
  <2>2. QED BY <1>1, <1>2, <1>4, <2>1 DEF IInv, AckedInv
<1>6. StoreInv'
  <2>1. store'[k] = NoEntry /\ \A j \in Keys \ {k} : store'[j] = store[j]
      BY <1>1, <1>2 DEF IInv, TypeOK
  <2>2. QED BY <1>2, <1>4, <2>1 DEF IInv, StoreInv, SeenAt
<1>7. ASSUME NEW u \in Threads PROVE ThreadInv(u)'
  <2>1. CASE u = t
    <3>1. th'[t] = Idle(k)
        BY DEF Invalidate, IInv, TypeOK
    <3>2. QED BY <1>1, <2>1, <3>1, IdleThreadInv
  <2>2. CASE u # t
    <3> DEFINE d == th[u].dirty \/ (th[u].pc = "fill" /\ th[u].key = k)
    <3>1. th'[u] = [th[u] EXCEPT !.dirty = d]
        BY <2>2 DEF Invalidate
    <3>2. /\ th'[u].pc = th[u].pc /\ th'[u].key = th[u].key /\ th'[u].t0 = th[u].t0
          /\ th'[u].val = th[u].val /\ th'[u].sampled = th[u].sampled
          /\ th'[u].after = th[u].after /\ th'[u].dirty = d
        BY <3>1 DEF IInv, TypeOK, Call
    <3>3. /\ Carried(u) /\ th[u].t0 <= now /\ th[u].after <= acked[th[u].key]
          /\ th[u].pc = "acted" => th[u].val <= world[th[u].key]
          /\ th[u].pc = "lookup" => Ttl > 0
        BY DEF IInv, CallInv
    <3>4. th[u].key \in Keys /\ th[u].after \in Nat
      <4>1. th[u].key \in Keys /\ th[u].after \in Versions
          BY DEF IInv, TypeOK, Call
      <4>2. QED BY <4>1, VersionsNat
    <3>5. Carried(u)'
        BY <1>2, <1>4, <3>2, <3>3, <3>4 DEF Carried, SeenAt
    <3>6. th[u].after <= acked'[th[u].key]
        BY <1>3, <1>4, <3>3, <3>4
    <3>7. QED BY <1>2, <3>2, <3>3, <3>5, <3>6 DEF ThreadInv
  <2>3. QED BY <2>1, <2>2
<1>8. CallInv'
    BY <1>7 DEF CallInv, ThreadInv
<1>9. RetInv' /\ BoundedStaleness' /\ StaleOnlyByOverlap'
    BY <1>2 DEF IInv, RetInv, BoundedStaleness, StaleOnlyByOverlap
<1>10. QED BY <1>5, <1>6, <1>8, <1>9 DEF IInv

\* Time passes: only the bound on the age of a carried value is at stake, and
\* Tick waits for a probe that is at its limit.
LEMMA TickIInv ==
  ASSUME IInv, TypeOK', Tick
  PROVE  IInv'
<1>1. now \in Nat /\ now' = now + 1 /\ UNCHANGED <<world, ended, store, th, acked, ret>>
    BY DEF Tick, IInv, TypeOK
<1>2. ASSUME NEW t \in Threads PROVE ThreadInv(t)'
  <2>1. /\ Carried(t) /\ th[t].t0 <= now /\ th[t].after <= acked[th[t].key]
        /\ th[t].pc = "acted" => th[t].val <= world[th[t].key]
        /\ th[t].pc = "lookup" => Ttl > 0
      BY DEF IInv, CallInv
  <2>2. th[t].t0 \in Nat /\ th[t].sampled \in Nat
      BY DEF IInv, TypeOK, Call
  <2>3. th[t].pc = "fill" => now - th[t].sampled < ProbeMax
      BY DEF Tick
  <2>4. Carried(t)'
      BY <1>1, <2>1, <2>2, <2>3, ConstantsAssumption DEF Carried, SeenAt
  <2>5. QED BY <1>1, <2>1, <2>2, <2>4 DEF ThreadInv
<1>3. CallInv'
    BY <1>2 DEF CallInv, ThreadInv
<1>4. StoreInv'
  <2>1. \A k \in Keys : store[k] # NoEntry => store[k].sampled \in Nat /\ store[k].at \in Nat
    <3>1. \A k \in Keys : store[k] # NoEntry => store[k] \in Entry
        BY DEF IInv, TypeOK
    <3>2. QED BY <3>1 DEF Entry
  <2>2. QED BY <1>1, <2>1 DEF IInv, StoreInv, SeenAt
<1>5. RetInv'
  <2>1. ret.t0 \in Nat
      BY DEF IInv, TypeOK, Return
  <2>2. QED BY <1>1, <2>1 DEF IInv, RetInv
<1>6. AckedInv' /\ BoundedStaleness' /\ StaleOnlyByOverlap'
    BY <1>1 DEF IInv, AckedInv, BoundedStaleness, StaleOnlyByOverlap
<1>7. QED BY <1>3, <1>4, <1>5, <1>6 DEF IInv

\* The invariant is inductive.
LEMMA IInvStep == IInv /\ [Next]_vars => IInv'
<1> SUFFICES ASSUME IInv, [Next]_vars PROVE IInv'
    OBVIOUS
<1>1. TypeOK'
    BY TypeStep DEF IInv
<1>2. CASE InvalidateAll
  <2>1. UNCHANGED <<now, world, ended, th, acked, ret>> /\ \A k \in Keys : store'[k] = NoEntry
      BY <1>2 DEF InvalidateAll
  <2>2. QED BY <1>1, <2>1 DEF IInv, CallInv, Carried, SeenAt, StoreInv, AckedInv, RetInv,
                              BoundedStaleness, StaleOnlyByOverlap
<1>3. CASE UNCHANGED vars
    BY <1>1, <1>3 DEF vars, IInv, CallInv, Carried, SeenAt, StoreInv, AckedInv, RetInv,
                      BoundedStaleness, StaleOnlyByOverlap
<1>4. QED
    BY <1>1, <1>2, <1>3, StartCallIInv, ActIInv, HitIInv, MissIInv, ProbeIInv, FillIInv,
       InvalidateIInv, ChangeIInv, TickIInv DEF Next

\* get_or_call: whatever a call returns was true no longer than the lifetime of
\* an entry plus one probe before the call began.
THEOREM Staleness == Spec => []BoundedStaleness
<1>1. IInv => BoundedStaleness
    BY DEF IInv
<1>2. QED BY <1>1, IInvInit, IInvStep, PTL DEF Spec

\* get_or_call against invalidate: only a probe that overlaps the invalidation
\* makes a later call return a state from before the mutation.
THEOREM OverlapOnly == Spec => []StaleOnlyByOverlap
<1>1. IInv => StaleOnlyByOverlap
    BY DEF IInv
<1>2. QED BY <1>1, IInvInit, IInvStep, PTL DEF Spec

=============================================================================
