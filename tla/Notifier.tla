---------------------------- MODULE Notifier ----------------------------
(***************************************************************************)
(* Events on their way to the endpoints: emit, the delivery pool, the      *)
(* health monitor (app/services/webhooks.py) and the process that reports  *)
(* scans by button (app/notify.py).                                        *)
(*                                                                         *)
(* emit reads the registry once and hands one delivery per endpoint to the *)
(* pool; the pool's threads take them in the order of the hand-over and    *)
(* post them, each for as long as its endpoint lets it wait.  The monitor  *)
(* runs on the event loop, other parts of the panel emit from their own    *)
(* threads, and the process delivers its event itself.  An event is known  *)
(* by its place in the log of all events.                                  *)
(***************************************************************************)
EXTENDS Naturals, Sequences, FiniteSets, SequencesExt

CONSTANTS
  Hooks,       \* the endpoints
  Wants,       \* by endpoint: the events it subscribes to
  Workers,     \* the threads of the pool (4 in the code)
  None,        \* nothing observed yet, nothing to do
  MaxChanges,  \* bound on changes of the health
  MaxOthers,   \* bound on events of the rest of the panel and of scans by button
  MaxEdits,    \* bound on changes of the registry
  MaxFaults,   \* bound on crashes
  MaxDisruptions \* bound on changes of the registry and crashes together

Healths == {"ok", "warn", "fail"}
Health  == {"health.degraded", "health.recovered"}
Keys    == Health \cup {"scan.completed"}

ASSUME WantsAssumption == Wants \in [Hooks -> SUBSET Keys]
ASSUME WorkersAssumption == IsFiniteSet(Workers) /\ Workers # {}
ASSUME NoneAssumption ==
  None \notin Healths \cup [hook : Hooks, id : Nat, n : Nat]
ASSUME NumbersAssumption ==
  {MaxChanges, MaxOthers, MaxEdits, MaxFaults, MaxDisruptions} \subseteq Nat

VARIABLES
  enabled,   \* the endpoints that are registered and switched on
  health,    \* the health of the host
  mon,       \* the health monitor: control state, its last and its new observation
  log,       \* the events so far
  emitting,  \* the calls of emit and emit_sync that are under way
  queue,     \* the deliveries nobody has taken
  busy,      \* what each thread of the pool is posting
  serial,    \* how many deliveries have been handed to the pool
  finished,  \* the ones that were posted, or lost in a crash
  got,       \* by endpoint: the events posted to it, in that order
  changes, others, edits, faults  \* how often the bounded things have happened

pool   == <<queue, busy, serial, finished>>
bounds == <<changes, others, edits, faults>>
vars   == <<enabled, health, mon, log, emitting, pool, got, bounds>>

------------------------------------------------------------------------
(* emit.                                                                   *)

\* The enabled endpoints that subscribe to the event, read in one go.
Targets(key) == {h \in enabled : key \in Wants[h]}

\* A call is over when no endpoint is left.
Pending(e) == IF e.rest = {} THEN {} ELSE {e}
Without(e, h) == (emitting \ {e}) \cup Pending([e EXCEPT !.rest = @ \ {h}])

\* An event gets its number and its targets; the baseline it is relative to is a
\* history field.
StartEmit(key, caller) ==
  /\ log' = Append(log, [key |-> key, to |-> Targets(key), since |-> mon.since])
  /\ emitting' = emitting \cup Pending([id |-> Len(log) + 1, rest |-> Targets(key),
                                         caller |-> caller])

Job == [hook : Hooks, id : Nat, n : Nat]

\* Mutant: the newest delivery goes first.
SubmitFirst(e, h) ==
  /\ e.caller # "cli" /\ h \in e.rest
  /\ serial' = serial + 1
  /\ queue' = <<[hook |-> h, id |-> e.id, n |-> serial']>> \o queue
  /\ emitting' = Without(e, h)
  /\ UNCHANGED <<enabled, health, mon, log, busy, finished, got, bounds>>

\* One submit of the loop over the targets.
Submit(e, h) ==
  /\ e.caller # "cli" /\ h \in e.rest
  /\ serial' = serial + 1
  /\ queue' = Append(queue, [hook |-> h, id |-> e.id, n |-> serial'])
  /\ emitting' = Without(e, h)
  /\ UNCHANGED <<enabled, health, mon, log, busy, finished, got, bounds>>

\* emit_sync posts by itself, one endpoint after the other.
DeliverInline(e, h) ==
  /\ e.caller = "cli" /\ h \in e.rest
  /\ got' = [got EXCEPT ![h] = Append(@, e.id)]
  /\ emitting' = Without(e, h)
  /\ UNCHANGED <<enabled, health, mon, log, pool, bounds>>

Emit(e) == \E h \in Hooks : Submit(e, h) \/ DeliverInline(e, h)

\* A request thread emits, or the notify process of a scan by button.
Other(caller) ==
  /\ others < MaxOthers /\ others' = others + 1
  /\ StartEmit("scan.completed", caller)
  /\ UNCHANGED <<enabled, health, mon, pool, got, changes, edits, faults>>

------------------------------------------------------------------------
(* The pool.                                                               *)

\* Mutant: the last delivery is the first one taken.
TakeLast(w) ==
  /\ busy[w] = None /\ queue # <<>>
  /\ busy' = [busy EXCEPT ![w] = Last(queue)]
  /\ queue' = Front(queue)
  /\ UNCHANGED <<enabled, health, mon, log, emitting, serial, finished, got, bounds>>

\* Mutant: the delivery stays in the queue.
TakeCopy(w) ==
  /\ busy[w] = None /\ queue # <<>>
  /\ busy' = [busy EXCEPT ![w] = Head(queue)]
  /\ UNCHANGED <<enabled, health, mon, log, emitting, queue, serial, finished, got, bounds>>

\* Mutant: the last delivery is left in the queue.
TakeAllButOne(w) ==
  /\ busy[w] = None /\ Len(queue) > 1
  /\ busy' = [busy EXCEPT ![w] = Head(queue)]
  /\ queue' = Tail(queue)
  /\ UNCHANGED <<enabled, health, mon, log, emitting, serial, finished, got, bounds>>

Take(w) ==
  /\ busy[w] = None /\ queue # <<>>
  /\ busy' = [busy EXCEPT ![w] = Head(queue)]
  /\ queue' = Tail(queue)
  /\ UNCHANGED <<enabled, health, mon, log, emitting, serial, finished, got, bounds>>

\* deliver answers, refuses the target or runs into its timeout: the thread is free,
\* and nothing is tried again.
Post(w) ==
  LET job == busy[w]
  IN  /\ job # None
      /\ busy' = [busy EXCEPT ![w] = None]
      /\ finished' = finished \cup {job.n}
      /\ \/ got' = [got EXCEPT ![job.hook] = Append(@, job.id)]
         \/ UNCHANGED got
      /\ UNCHANGED <<enabled, health, mon, log, emitting, queue, serial, bounds>>

------------------------------------------------------------------------
(* The health monitor.                                                     *)

\* An endpoint that wants one of the two events is enough to keep the monitor running.
HealthSubscriber == \E h \in enabled : Wants[h] \cap Health # {}

\* Mutant: an observation is kept only for somebody who still subscribes.
AsleepIfWanted ==
  [mon EXCEPT !.pc = "asleep", !.overall = None,
              !.previous = IF HealthSubscriber THEN mon.overall ELSE mon.previous]

\* since counts the baselines (history).
Asleep == [mon EXCEPT !.pc = "asleep", !.previous = mon.overall, !.overall = None]
Forgetting == [pc |-> "asleep", previous |-> None, overall |-> None,
               since |-> IF mon.previous = None THEN mon.since ELSE mon.since + 1]

\* note_health has returned when the pool has all deliveries.
Awake == mon.pc = "asleep" /\ \A e \in emitting : e.caller # "monitor"

\* Mutant: the checks are run for the baseline only.
WakeOnce ==
  /\ Awake
  /\ mon' = IF ~HealthSubscriber THEN Forgetting
            ELSE IF mon.previous = None THEN [mon EXCEPT !.pc = "checking"] ELSE mon
  /\ UNCHANGED <<enabled, health, log, emitting, pool, got, bounds>>

\* Without a subscriber the baseline is dropped, otherwise the checks are run.
Wake ==
  /\ Awake
  /\ mon' = IF HealthSubscriber THEN [mon EXCEPT !.pc = "checking"]
            ELSE Forgetting
  /\ UNCHANGED <<enabled, health, log, emitting, pool, got, bounds>>

RunChecks ==
  /\ mon.pc = "checking"
  /\ mon' = [mon EXCEPT !.pc = "noting", !.overall = health]
  /\ UNCHANGED <<enabled, health, log, emitting, pool, got, bounds>>

\* From ok to anything is a degradation, to ok a recovery; a move between warn and
\* fail is announced as a degradation again.
Event(overall, previous) ==
  IF overall = "ok" THEN "health.recovered" ELSE "health.degraded"

\* The first observation is the baseline.
Changed(overall, previous) == previous # None /\ overall # previous

NoteHealth ==
  /\ mon.pc = "noting"
  /\ IF Changed(mon.overall, mon.previous)
     THEN StartEmit(Event(mon.overall, mon.previous), "monitor")
     ELSE UNCHANGED <<log, emitting>>
  /\ mon' = Asleep
  /\ UNCHANGED <<enabled, health, pool, got, bounds>>

Monitor == Wake \/ RunChecks \/ NoteHealth

------------------------------------------------------------------------
(* The host and the operator.                                              *)

HealthChanges ==
  /\ changes < MaxChanges /\ changes' = changes + 1
  /\ health' \in Healths \ {health}
  /\ UNCHANGED <<enabled, mon, log, emitting, pool, got, others, edits, faults>>

Room == edits + faults < MaxDisruptions

\* An endpoint is added or switched on, deleted or switched off.
Toggle(h) ==
  /\ edits < MaxEdits /\ Room /\ edits' = edits + 1
  /\ enabled' = IF h \in enabled THEN enabled \ {h} ELSE enabled \cup {h}
  /\ UNCHANGED <<health, mon, log, emitting, pool, got, changes, others, faults>>

\* The panel dies with what its pool still holds; the notify process lives on.
Crash ==
  /\ faults < MaxFaults /\ Room /\ faults' = faults + 1
  /\ mon' = [Forgetting EXCEPT !.since = mon.since + 1]
  /\ emitting' = {e \in emitting : e.caller = "cli"}
  /\ queue' = <<>> /\ busy' = [w \in Workers |-> None]
  /\ finished' = 1..serial
  /\ UNCHANGED <<enabled, health, log, serial, got, changes, others, edits>>

------------------------------------------------------------------------
Init ==
  /\ enabled = Hooks /\ health = "ok"
  /\ mon = [pc |-> "asleep", previous |-> None, overall |-> None, since |-> 0]
  /\ log = <<>> /\ emitting = {}
  /\ queue = <<>> /\ busy = [w \in Workers |-> None]
  /\ serial = 0 /\ finished = {}
  /\ got = [h \in Hooks |-> <<>>]
  /\ changes = 0 /\ others = 0 /\ edits = 0 /\ faults = 0

Pool == \E w \in Workers : Take(w) \/ Post(w)

Next ==
  \/ \E e \in emitting : Emit(e)
  \/ \E caller \in {"panel", "cli"} : Other(caller)
  \/ Pool
  \/ Monitor
  \/ HealthChanges
  \/ \E h \in Hooks : Toggle(h)
  \/ Crash

\* Every thread goes on; a post ends with its timeout at the latest.
Fairness ==
  /\ WF_vars(\E e \in emitting : Emit(e))
  /\ \A w \in Workers : WF_vars(Take(w) \/ Post(w))
  /\ WF_vars(Monitor)

Spec == Init /\ [][Next]_vars /\ Fairness

------------------------------------------------------------------------
(* Properties.                                                             *)

\* The types of the variables; what waits is numbered in the order of the hand-over.
TypeOK ==
  /\ enabled \subseteq Hooks /\ health \in Healths
  /\ mon \in [pc : {"asleep", "checking", "noting"},
              previous : Healths \cup {None}, overall : Healths \cup {None},
              since : Nat]
  /\ log \in Seq([key : Keys, to : SUBSET Hooks, since : Nat])
  /\ emitting \subseteq [id : 1..Len(log), rest : SUBSET Hooks,
                         caller : {"monitor", "panel", "cli"}]
  /\ queue \in Seq(Job) /\ busy \in [Workers -> Job \cup {None}]
  /\ serial \in Nat /\ finished \subseteq 1..serial
  /\ got \in [Hooks -> Seq(1..Len(log))]
  /\ changes \in 0..MaxChanges /\ others \in 0..MaxOthers
  /\ edits \in 0..MaxEdits /\ faults \in 0..MaxFaults
  /\ \A i, j \in 1..Len(queue) : i < j => queue[i].n < queue[j].n

\* No endpoint gets an event twice, and none gets one it had not subscribed to when
\* the event was emitted, whatever is switched, taken and posted meanwhile.
PostedOnce ==
  \A h \in Hooks :
    /\ IsInjective(got[h])
    /\ \A i \in 1..Len(got[h]) : h \in log[got[h][i]].to

\* Deliveries overtake each other, but only as many as there are other threads: an
\* earlier one that is not done is in the hands of a thread.
Overtaken == {n \in (1..serial) \ finished : \E m \in finished : m > n}
BoundedOvertaking == Cardinality(Overtaken) < Cardinality(Workers)

\* What the monitor has announced last about the health since it took its baseline, to
\* whoever wants that event, agrees with its last observation: its last word is a
\* recovery exactly when it found the host well, whoever (un)subscribes meanwhile.
Said == {i \in 1..Len(log) : log[i].key \in Health /\ log[i].since = mon.since}
LastWordIsTrue ==
  Said # {} =>
    LET last == CHOOSE i \in Said : \A j \in Said : j <= i
    IN  /\ mon.previous # None
        /\ log[last].key = "health.recovered" <=> mon.previous = "ok"

\* The pool comes to rest: what it was given is posted, fails or is lost in a crash.
PoolDrains == []<>(finished = 1..serial)

\* A change of the health does not stay unnoticed while somebody wants to hear of it.
Unnoticed == mon.previous # health /\ HealthSubscriber
ChangeIsNoticed == []<>~Unnoticed
========================================================================
