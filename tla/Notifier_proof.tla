-------------------------- MODULE Notifier_proof --------------------------
(***************************************************************************)
(* Proofs about Notifier for every set of endpoints, every size of the     *)
(* pool and any number of events, edits and crashes: nothing is posted     *)
(* twice, deliveries are overtaken by as many as there are other threads,  *)
(* and what the monitor has said last is true.                             *)
(*                                                                         *)
(* The argument about the pool is about the jobs it holds, wherever they   *)
(* are: taking a delivery moves it but changes none of them.               *)
(***************************************************************************)
EXTENDS Notifier, SequenceTheorems, FiniteSetTheorems, TLAPS

\* The deliveries the pool holds, in its queue or in the hands of a thread.
Queued == {queue[i] : i \in 1..Len(queue)}
Taken  == {busy[w] : w \in Workers} \ {None}
Held   == Queued \cup Taken

\* What the pool holds was handed to it, for an event and an endpoint that asked for
\* it; whoever is still to be served by a call of emit asked for it as well.
OriginInv ==
  /\ \A j \in Held : /\ j.n \in 1..serial /\ j.id \in 1..Len(log)
                     /\ j.hook \in log[j.id].to
  /\ \A e \in emitting : e.rest \subseteq log[e.id].to
  /\ \A h \in Hooks : \A i \in 1..Len(got[h]) : h \in log[got[h][i]].to

\* An event on its way to an endpoint is in one place: in one call of emit, in one
\* delivery of the pool, or posted.
OnePlaceInv ==
  /\ \A d, e \in emitting : d.id = e.id => d = e
  /\ \A j, k \in Held : j.hook = k.hook /\ j.id = k.id => j = k
  /\ \A j \in Held, e \in emitting : j.id = e.id => j.hook \notin e.rest
  /\ \A j \in Held : \A i \in 1..Len(got[j.hook]) : got[j.hook][i] # j.id
  /\ \A e \in emitting : \A h \in e.rest : \A i \in 1..Len(got[h]) : got[h][i] # e.id
  /\ \A h \in Hooks : IsInjective(got[h])

\* Deliveries are taken in the order of their numbers: what waits is later than all
\* that was taken, each thread has one of its own, and what is not done is held.
OrderInv ==
  /\ \A i \in 1..Len(queue) : \A m \in finished : m < queue[i].n
  /\ \A i \in 1..Len(queue), w \in Workers : busy[w] # None => busy[w].n < queue[i].n
  /\ \A v, w \in Workers : busy[v] # None /\ busy[w] # None /\ v # w => busy[v].n # busy[w].n
  /\ \A n \in (1..serial) \ finished : \E j \in Held : j.n = n

\* There is always a thread that is behind nobody: the one that finished last has
\* taken a later delivery, or none.
InTime(w) == busy[w] # None => \A m \in finished : m < busy[w].n
FreeInv == \E w \in Workers : InTime(w)

\* The monitor's words: none is from a later baseline, the last one since the baseline
\* fits the last observation, and before the first observation there is none.
LastWordInv ==
  /\ \A i \in 1..Len(log) : log[i].since <= mon.since
  /\ mon.pc = "noting" => mon.overall # None
  /\ mon.previous = None => Said = {}
  /\ \A i \in Said : (\A j \in Said : j <= i) =>
       (log[i].key = "health.recovered" <=> mon.previous = "ok")

IInv ==
  /\ TypeOK
  /\ OriginInv
  /\ OnePlaceInv
  /\ OrderInv
  /\ FreeInv
  /\ LastWordInv

-----------------------------------------------------------------------------
(* The operators of the model *)

Callers == {"monitor", "panel", "cli"}
Entries == [key : Keys, to : SUBSET Hooks, since : Nat]
Calls   == [id : 1..Len(log), rest : SUBSET Hooks, caller : Callers]
Observer == [pc : {"asleep", "checking", "noting"},
             previous : Healths \cup {None}, overall : Healths \cup {None}, since : Nat]

\* No observation is none, and no delivery is.
LEMMA NoneIsNothing == None \notin Healths /\ None \notin Job
BY NoneAssumption DEF Healths, Job

\* The log has a length; what it says of an event has its type.
LEMMA LogType ==
  ASSUME TypeOK
  PROVE  /\ Len(log) \in Nat /\ log \in Seq(Entries)
         /\ \A i \in 1..Len(log) : log[i] \in Entries
BY LenProperties, ElementOfSeq DEF TypeOK, Entries

\* The queue has a length and holds deliveries.
LEMMA QueueType ==
  ASSUME TypeOK
  PROVE  /\ Len(queue) \in Nat /\ queue \in Seq(Job)
         /\ \A i \in 1..Len(queue) : queue[i] \in Job
BY LenProperties, ElementOfSeq DEF TypeOK

\* An event that is emitted is the next in the log, and its call serves its targets.
LEMMA Emitted ==
  ASSUME TypeOK, NEW key \in Keys, NEW caller \in Callers, StartEmit(key, caller)
  PROVE  /\ log' \in Seq(Entries) /\ Len(log') = Len(log) + 1
         /\ \A i \in 1..Len(log) : log'[i] = log[i]
         /\ log'[Len(log) + 1] = [key |-> key, to |-> Targets(key), since |-> mon.since]
         /\ Targets(key) \subseteq Hooks
         /\ \A e \in emitting' :
              \/ e \in emitting
              \/ e = [id |-> Len(log) + 1, rest |-> Targets(key), caller |-> caller]
<1> DEFINE entry == [key |-> key, to |-> Targets(key), since |-> mon.since]
<1>1. Targets(key) \subseteq Hooks
    BY DEF Targets, TypeOK
<1>2. entry \in Entries
    BY <1>1 DEF Entries, TypeOK
<1>3. log' = Append(log, entry)
    BY DEF StartEmit
<1> HIDE DEF entry
<1>4. /\ log' \in Seq(Entries) /\ Len(log') = Len(log) + 1
      /\ \A i \in 1..Len(log) : log'[i] = log[i]
      /\ log'[Len(log) + 1] = entry
    BY <1>2, <1>3, LogType, AppendProperties
<1>5. \A e \in emitting' :
        \/ e \in emitting
        \/ e = [id |-> Len(log) + 1, rest |-> Targets(key), caller |-> caller]
    BY DEF StartEmit, Pending
<1>6. QED BY <1>1, <1>4, <1>5 DEF entry

\* A call that has served an endpoint goes on with the others.
Further(e, h) == [e EXCEPT !.rest = @ \ {h}]

\* Once an endpoint is served, the call goes on with those that are left.
LEMMA Served ==
  ASSUME TypeOK, NEW e \in emitting, NEW h, NEW d \in Without(e, h)
  PROVE  \/ d \in emitting /\ d # e
         \/ d = Further(e, h) /\ d.id = e.id /\ d.rest = e.rest \ {h}
BY DEF Without, Pending, TypeOK, Further

\* Sequences of events of the log stay such when it grows.
LEMMA GotGrows ==
  ASSUME TypeOK, Len(log') \in Nat, Len(log) <= Len(log')
  PROVE  got \in [Hooks -> Seq(1..Len(log'))]
<1>1. 1..Len(log) \subseteq 1..Len(log')
    BY LogType
<1>2. \A h \in Hooks : got[h] \in Seq(1..Len(log'))
    BY <1>1, SeqMonotonic DEF TypeOK
<1>3. QED BY <1>2 DEF TypeOK

\* The event of a call is in the log; so are its endpoints.
LEMMA CallType ==
  ASSUME TypeOK, NEW e \in emitting
  PROVE  e.id \in 1..Len(log) /\ e.rest \subseteq Hooks /\ e.caller \in Callers
BY DEF TypeOK, Callers

-----------------------------------------------------------------------------
(* Type correctness *)

\* The initial state is well typed.
LEMMA TypeInit == Init => TypeOK
<1> SUFFICES ASSUME Init PROVE TypeOK
    OBVIOUS
<1> USE DEF Init
<1>1. /\ log \in Seq([key : Keys, to : SUBSET Hooks, since : Nat])
      /\ queue \in Seq(Job) /\ Len(queue) = 0
      /\ got \in [Hooks -> Seq(1..Len(log))]
    BY EmptySeq
<1>2. mon \in Observer
    BY DEF Observer
<1>3. QED BY <1>1, <1>2, NumbersAssumption DEF TypeOK, Observer, Healths

\* The part of TypeOK that is about events and who hears of them ...
EventsOK ==
  /\ log \in Seq(Entries)
  /\ emitting \subseteq Calls
  /\ got \in [Hooks -> Seq(1..Len(log))]
\* ... about the pool ...
PoolOK ==
  /\ queue \in Seq(Job) /\ busy \in [Workers -> Job \cup {None}]
  /\ serial \in Nat /\ finished \subseteq 1..serial
  /\ \A i, j \in 1..Len(queue) : i < j => queue[i].n < queue[j].n
\* ... and about the rest.
RestOK ==
  /\ enabled \subseteq Hooks /\ health \in Healths /\ mon \in Observer
  /\ changes \in 0..MaxChanges /\ others \in 0..MaxOthers
  /\ edits \in 0..MaxEdits /\ faults \in 0..MaxFaults

\* The types, in three parts that the steps disturb one at a time.
LEMMA TypeParts == TypeOK <=> EventsOK /\ PoolOK /\ RestOK
BY DEF TypeOK, EventsOK, PoolOK, RestOK, Entries, Calls, Callers, Observer

\* A new event keeps the types of what is about events.
LEMMA EventsEmitted ==
  ASSUME TypeOK, NEW key \in Keys, NEW caller \in Callers, StartEmit(key, caller),
         got' = got
  PROVE  EventsOK'
<1>1. Len(log) \in Nat /\ Len(log') = Len(log) + 1 /\ log' \in Seq(Entries)
    BY LogType, Emitted
<1>2. got' \in [Hooks -> Seq(1..Len(log'))]
    BY <1>1, GotGrows
<1>3. ASSUME NEW e \in emitting' PROVE e \in Calls'
  <2>1. CASE e \in emitting
    <3>1. e \in Calls
        BY <2>1, TypeParts DEF EventsOK
    <3>2. 1..Len(log) \subseteq 1..Len(log')
        BY <1>1
    <3>3. QED BY <3>1, <3>2 DEF Calls
  <2>2. CASE e = [id |-> Len(log) + 1, rest |-> Targets(key), caller |-> caller]
    <3>1. Len(log) + 1 \in 1..Len(log')
        BY <1>1
    <3>2. Targets(key) \subseteq Hooks
        BY Emitted
    <3>3. QED BY <2>2, <3>1, <3>2 DEF Calls
  <2>3. QED BY <2>1, <2>2, Emitted
<1>4. QED BY <1>1, <1>2, <1>3 DEF EventsOK

\* A call that serves an endpoint, too.
LEMMA EventsServed ==
  ASSUME TypeOK, NEW e \in emitting, NEW h \in Hooks, emitting' = Without(e, h), log' = log,
         \/ got' = got
         \/ got' = [got EXCEPT ![h] = Append(@, e.id)]
  PROVE  EventsOK'
<1>1. \A d \in emitting' : d \in Calls
  <2> SUFFICES ASSUME NEW d \in emitting' PROVE d \in Calls
      OBVIOUS
  <2>1. e \in Calls
      BY TypeParts DEF EventsOK
  <2>2. Further(e, h) \in Calls
      BY <2>1 DEF Calls, Further
  <2>3. QED BY <2>2, Served, TypeParts DEF EventsOK
<1>2. got' \in [Hooks -> Seq(1..Len(log))]
  <2>1. Append(got[h], e.id) \in Seq(1..Len(log))
    <3>1. got[h] \in Seq(1..Len(log)) /\ e.id \in 1..Len(log)
        BY CallType DEF TypeOK
    <3>2. QED BY <3>1, AppendProperties
  <2>2. QED BY <2>1 DEF TypeOK
<1>3. QED BY <1>1, <1>2, TypeParts DEF EventsOK, Calls

\* A delivery that is handed over waits behind the others.
LEMMA PoolSubmit ==
  ASSUME TypeOK, OriginInv, NEW e \in emitting, NEW h \in Hooks, Submit(e, h)
  PROVE  PoolOK'
<1> DEFINE job == [hook |-> h, id |-> e.id, n |-> serial']
<1>1. serial \in Nat /\ serial' = serial + 1 /\ queue' = Append(queue, job)
    BY DEF Submit, TypeOK
<1>2. job \in Job /\ job.n = serial + 1
    BY <1>1, CallType, LogType DEF Job
<1> HIDE DEF job
<1>3. /\ queue' \in Seq(Job) /\ Len(queue') = Len(queue) + 1
      /\ \A i \in 1..Len(queue) : queue'[i] = queue[i]
      /\ queue'[Len(queue) + 1] = job
    BY <1>1, <1>2, QueueType, AppendProperties
<1>4. \A i \in 1..Len(queue) : queue[i].n \in 1..serial
    BY DEF OriginInv, Held, Queued
<1>5. \A i, j \in 1..Len(queue') : i < j => queue'[i].n < queue'[j].n
  <2> SUFFICES ASSUME NEW i \in 1..Len(queue'), NEW j \in 1..Len(queue'), i < j
               PROVE  queue'[i].n < queue'[j].n
      OBVIOUS
  <2>1. i \in 1..Len(queue) /\ queue'[i] = queue[i] /\ queue[i].n \in 1..serial
      BY <1>3, <1>4, QueueType
  <2>2. CASE j \in 1..Len(queue)
      BY <1>3, <2>1, <2>2 DEF TypeOK
  <2>3. CASE j = Len(queue) + 1
      BY <1>1, <1>2, <1>3, <2>1, <2>3
  <2>4. QED BY <1>3, <2>2, <2>3, QueueType
<1>6. busy' = busy /\ finished' = finished
    BY DEF Submit
<1>7. QED BY <1>1, <1>3, <1>5, <1>6 DEF PoolOK, TypeOK

\* What a thread takes is the first, and the others keep their order.
LEMMA TakeFacts ==
  ASSUME TypeOK, NEW w \in Workers, Take(w)
  PROVE  /\ Len(queue) > 0 /\ busy' = [busy EXCEPT ![w] = queue[1]] /\ queue[1] \in Job
         /\ queue' \in Seq(Job) /\ Len(queue') = Len(queue) - 1
         /\ \A i \in 1..Len(queue') : queue'[i] = queue[i + 1]
<1>1. queue # <<>> /\ queue' = Tail(queue) /\ busy' = [busy EXCEPT ![w] = Head(queue)]
    BY DEF Take
<1>2. Len(queue) > 0 /\ Head(queue) = queue[1]
    BY <1>1, QueueType, EmptySeq
<1>3. QED BY <1>1, <1>2, QueueType, HeadTailProperties

\* A thread that takes a delivery keeps the pool's types.
LEMMA PoolTake == ASSUME TypeOK, NEW w \in Workers, Take(w) PROVE PoolOK'
<1>1. \A i, j \in 1..Len(queue') : i < j => queue'[i].n < queue'[j].n
  <2> SUFFICES ASSUME NEW i \in 1..Len(queue'), NEW j \in 1..Len(queue'), i < j
               PROVE  queue'[i].n < queue'[j].n
      OBVIOUS
  <2>1. /\ i + 1 \in 1..Len(queue) /\ j + 1 \in 1..Len(queue) /\ i + 1 < j + 1
        /\ queue'[i] = queue[i + 1] /\ queue'[j] = queue[j + 1]
      BY TakeFacts, QueueType
  <2>2. QED BY <2>1 DEF TypeOK
<1>2. busy' \in [Workers -> Job \cup {None}] /\ queue' \in Seq(Job)
    BY TakeFacts DEF TypeOK
<1>3. serial' = serial /\ finished' = finished
    BY DEF Take
<1>4. QED BY <1>1, <1>2, <1>3 DEF PoolOK, TypeOK

\* Every step keeps the variables in their types.
LEMMA TypeStep == TypeOK /\ OriginInv /\ [Next]_vars => TypeOK'
<1> SUFFICES ASSUME TypeOK, OriginInv, [Next]_vars PROVE EventsOK' /\ PoolOK' /\ RestOK'
    BY DEF TypeOK, EventsOK, PoolOK, RestOK, Entries, Calls, Callers, Observer
<1>0. EventsOK /\ PoolOK /\ RestOK
    BY TypeParts
<1>1. ASSUME NEW e \in emitting, NEW h \in Hooks, Submit(e, h)
      PROVE  EventsOK' /\ PoolOK' /\ RestOK'
  <2>1. EventsOK'
      BY <1>1, EventsServed DEF Submit
  <2>2. RestOK'
      BY <1>0, <1>1 DEF Submit, RestOK, bounds
  <2>3. QED BY <1>1, <2>1, <2>2, PoolSubmit
<1>2. ASSUME NEW e \in emitting, NEW h \in Hooks, DeliverInline(e, h)
      PROVE  EventsOK' /\ PoolOK' /\ RestOK'
  <2>1. EventsOK'
      BY <1>2, EventsServed DEF DeliverInline
  <2>2. PoolOK' /\ RestOK'
      BY <1>0, <1>2 DEF DeliverInline, PoolOK, RestOK, pool, bounds
  <2>3. QED BY <2>1, <2>2
<1>3. ASSUME NEW caller \in {"panel", "cli"}, Other(caller)
      PROVE  EventsOK' /\ PoolOK' /\ RestOK'
  <2>1. EventsOK'
      BY <1>3, EventsEmitted DEF Other, Keys, Callers
  <2>2. others' \in 0..MaxOthers
      BY <1>0, <1>3, NumbersAssumption DEF Other, RestOK
  <2>3. PoolOK' /\ RestOK'
      BY <1>0, <1>3, <2>2 DEF Other, PoolOK, RestOK, pool
  <2>4. QED BY <2>1, <2>3
<1>4. ASSUME NEW w \in Workers, Take(w) PROVE EventsOK' /\ PoolOK' /\ RestOK'
  <2>1. EventsOK' /\ RestOK'
      BY <1>0, <1>4 DEF Take, EventsOK, RestOK, Calls, bounds
  <2>2. QED BY <1>4, <2>1, PoolTake
<1>5. ASSUME NEW w \in Workers, Post(w) PROVE EventsOK' /\ PoolOK' /\ RestOK'
  <2> DEFINE job == busy[w]
  <2>1. job \in Held /\ job \in Job
      BY <1>5 DEF Post, Held, Taken, TypeOK
  <2>2. job.n \in 1..serial /\ job.id \in 1..Len(log) /\ job.hook \in Hooks
      BY <2>1 DEF OriginInv, Job
  <2>3. got' \in [Hooks -> Seq(1..Len(log))]
    <3>1. Append(got[job.hook], job.id) \in Seq(1..Len(log))
      <4>1. got[job.hook] \in Seq(1..Len(log))
          BY <2>2 DEF TypeOK
      <4> HIDE DEF job
      <4>2. QED BY <2>2, <4>1, AppendProperties
    <3>2. \/ got' = [got EXCEPT ![job.hook] = Append(@, job.id)]
          \/ got' = got
        BY <1>5 DEF Post
    <3> HIDE DEF job
    <3>3. QED BY <3>1, <3>2 DEF TypeOK
  <2>4. EventsOK'
      BY <1>0, <1>5, <2>3 DEF Post, EventsOK, Calls
  <2>5. PoolOK' /\ RestOK'
      BY <1>0, <1>5, <2>2 DEF Post, PoolOK, RestOK, bounds
  <2>6. QED BY <2>4, <2>5
<1>6. ASSUME Wake \/ RunChecks PROVE EventsOK' /\ PoolOK' /\ RestOK'
  <2>1. ASSUME RunChecks PROVE mon' \in Observer
    <3>1. [mon EXCEPT !.pc = "noting", !.overall = health] \in Observer
      <4>1. mon \in Observer /\ health \in Healths \cup {None}
          BY <1>0 DEF RestOK
      <4>2. QED BY <4>1, Zenon DEF Observer
    <3>2. QED BY <2>1, <3>1 DEF RunChecks
  <2>2. ASSUME Wake PROVE mon' \in Observer
    <3>1. [mon EXCEPT !.pc = "checking"] \in Observer /\ Forgetting \in Observer
        BY <1>0 DEF RestOK, Observer, Forgetting
    <3>2. QED BY <2>2, <3>1 DEF Wake
  <2>3. mon' \in Observer
      BY <1>6, <2>1, <2>2
  <2>4. QED
      BY <1>0, <1>6, <2>3 DEF Wake, RunChecks, EventsOK, Calls, PoolOK, RestOK, pool, bounds
<1>7. ASSUME NoteHealth PROVE EventsOK' /\ PoolOK' /\ RestOK'
  <2>1. mon' \in Observer
      BY <1>0, <1>7 DEF NoteHealth, Asleep, RestOK, Observer
  <2>2. Event(mon.overall, mon.previous) \in Keys
      BY DEF Event, Keys, Health
  <2>3. EventsOK'
    <3>1. CASE StartEmit(Event(mon.overall, mon.previous), "monitor")
        BY <1>7, <2>2, <3>1, EventsEmitted DEF NoteHealth, Callers
    <3>2. CASE UNCHANGED <<log, emitting>>
        BY <1>0, <1>7, <3>2 DEF NoteHealth, EventsOK, Calls
    <3>3. QED BY <1>7, <3>1, <3>2 DEF NoteHealth
  <2>4. QED
      BY <1>0, <1>7, <2>1, <2>3 DEF NoteHealth, PoolOK, RestOK, pool, bounds
<1>8. ASSUME HealthChanges PROVE EventsOK' /\ PoolOK' /\ RestOK'
  <2>1. changes' \in 0..MaxChanges
      BY <1>0, <1>8, NumbersAssumption DEF HealthChanges, RestOK
  <2>2. QED
      BY <1>0, <1>8, <2>1 DEF HealthChanges, EventsOK, Calls, PoolOK, RestOK, pool
<1>9. ASSUME NEW h \in Hooks, Toggle(h) PROVE EventsOK' /\ PoolOK' /\ RestOK'
  <2>1. edits' \in 0..MaxEdits
      BY <1>0, <1>9, NumbersAssumption DEF Toggle, RestOK
  <2>2. QED
      BY <1>0, <1>9, <2>1 DEF Toggle, EventsOK, Calls, PoolOK, RestOK, pool
<1>10. ASSUME Crash PROVE EventsOK' /\ PoolOK' /\ RestOK'
  <2>1. faults' \in 0..MaxFaults
      BY <1>0, <1>10, NumbersAssumption DEF Crash, RestOK
  <2>2. mon' \in Observer
      BY <1>0, <1>10 DEF Crash, Forgetting, RestOK, Observer
  <2>3. <<>> \in Seq(Job) /\ Len(<<>>) = 0
      BY EmptySeq
  <2>4. QED
      BY <1>0, <1>10, <2>1, <2>2, <2>3 DEF Crash, EventsOK, Calls, PoolOK, RestOK
<1>11. ASSUME UNCHANGED vars PROVE EventsOK' /\ PoolOK' /\ RestOK'
    BY <1>0, <1>11 DEF vars, EventsOK, Calls, PoolOK, RestOK, pool, bounds
<1>12. QED
    BY <1>1, <1>2, <1>3, <1>4, <1>5, <1>6, <1>7, <1>8, <1>9, <1>10, <1>11
    DEF Next, Emit, Pool, Monitor

-----------------------------------------------------------------------------
(* Where the deliveries are *)

\* What a call of emit hands over is the newest delivery.
LEMMA HeldSubmit ==
  ASSUME TypeOK, NEW e \in emitting, NEW h \in Hooks, Submit(e, h)
  PROVE  Held' = Held \cup {[hook |-> h, id |-> e.id, n |-> serial + 1]}
<1> DEFINE job == [hook |-> h, id |-> e.id, n |-> serial + 1]
<1>1. queue' = Append(queue, job) /\ busy' = busy
    BY DEF Submit
<1>2. job \in Job
    BY CallType, LogType DEF Job, TypeOK
<1> HIDE DEF job
<1>3. /\ Len(queue') = Len(queue) + 1 /\ queue'[Len(queue) + 1] = job
      /\ \A i \in 1..Len(queue) : queue'[i] = queue[i]
    BY <1>1, <1>2, QueueType, AppendProperties
<1>4. Queued' = Queued \cup {job}
  <2>1. Queued \cup {job} \subseteq Queued'
      BY <1>3, QueueType DEF Queued
  <2>2. ASSUME NEW i \in 1..Len(queue') PROVE queue'[i] \in Queued \cup {job}
    <3>1. i \in 1..Len(queue) \/ i = Len(queue) + 1
        BY <1>3, QueueType
    <3>2. QED BY <1>3, <3>1 DEF Queued
  <2>3. QED BY <2>1, <2>2 DEF Queued
<1>5. Held' = Held \cup {job}
    BY <1>1, <1>4 DEF Held, Taken
<1>6. QED BY <1>5 DEF job

\* Taking a delivery moves it.
LEMMA HeldTake == ASSUME TypeOK, NEW w \in Workers, Take(w) PROVE Held' = Held
<1>1. /\ Len(queue) \in Nat /\ Len(queue) > 0 /\ queue[1] # None
      /\ busy' = [busy EXCEPT ![w] = queue[1]]
      /\ Len(queue') = Len(queue) - 1 /\ \A i \in 1..Len(queue') : queue'[i] = queue[i + 1]
    BY TakeFacts, QueueType, NoneIsNothing
<1>2. Queued = {queue[1]} \cup Queued'
  <2>1. ASSUME NEW i \in 1..Len(queue) PROVE queue[i] \in {queue[1]} \cup Queued'
    <3>1. CASE i = 1
        BY <3>1
    <3>2. CASE i # 1
      <4>1. i - 1 \in 1..Len(queue') /\ queue'[i - 1] = queue[i]
          BY <1>1, <3>2
      <4>2. QED BY <4>1 DEF Queued
    <3>3. QED BY <3>1, <3>2
  <2>2. ASSUME NEW i \in 1..Len(queue') PROVE queue'[i] \in Queued
    <3>1. i + 1 \in 1..Len(queue) /\ queue'[i] = queue[i + 1]
        BY <1>1
    <3>2. QED BY <3>1 DEF Queued
  <2>3. queue[1] \in Queued
      BY <1>1 DEF Queued
  <2>4. QED BY <2>1, <2>2, <2>3 DEF Queued
<1>3. busy[w] = None /\ busy \in [Workers -> Job \cup {None}]
    BY DEF Take, TypeOK
<1>4. Taken' = Taken \cup {queue[1]}
  <2>1. ASSUME NEW v \in Workers, busy'[v] # None PROVE busy'[v] \in Taken \cup {queue[1]}
      BY <1>1, <1>3, <2>1 DEF Taken
  <2>2. ASSUME NEW v \in Workers, busy[v] # None PROVE busy[v] \in Taken'
      BY <1>1, <1>3, <2>2 DEF Taken
  <2>3. queue[1] \in Taken'
      BY <1>1, <1>3 DEF Taken
  <2>4. QED BY <2>1, <2>2, <2>3 DEF Taken
<1>5. QED BY <1>2, <1>4 DEF Held

\* A delivery that is posted is gone.
LEMMA HeldPost ==
  ASSUME TypeOK, OrderInv, NEW w \in Workers, Post(w)
  PROVE  busy[w] \in Held /\ busy[w] \in Job /\ Held' = Held \ {busy[w]}
<1>1. /\ busy \in [Workers -> Job \cup {None}] /\ busy[w] # None /\ queue' = queue
      /\ busy' = [busy EXCEPT ![w] = None]
    BY DEF TypeOK, Post
<1>2. busy[w] \in Job /\ busy[w].n \in Nat /\ busy[w] \in Taken
    BY <1>1 DEF Job, Taken
<1>3. busy[w] \notin Queued
    BY <1>1, <1>2 DEF OrderInv, Queued
<1>4. Taken' = Taken \ {busy[w]}
  <2>1. ASSUME NEW v \in Workers, v # w, busy[v] # None PROVE busy[v] # busy[w]
      BY <1>1, <2>1 DEF OrderInv
  <2>2. QED BY <1>1, <2>1 DEF Taken
<1>5. QED BY <1>1, <1>2, <1>3, <1>4 DEF Held, Queued

\* What is held are deliveries.
LEMMA HeldType == TypeOK => Held \subseteq Job
BY QueueType DEF TypeOK, Held, Queued, Taken

-----------------------------------------------------------------------------
(* What is sent was asked for *)

\* A step that leaves the events and the deliveries alone keeps what is said of them.
Same == UNCHANGED <<log, emitting, queue, busy, serial, finished, got>>

\* A step that leaves events and deliveries alone keeps where they come from,
LEMMA SameOrigin == OriginInv /\ Same => OriginInv'
BY DEF OriginInv, Same, Held, Queued, Taken

\* What is appended is the last; what was there stays.
LEMMA GotAppended ==
  ASSUME TypeOK, NEW h \in Hooks, NEW id \in 1..Len(log),
         got' = [got EXCEPT ![h] = Append(@, id)]
  PROVE  /\ Len(got[h]) \in Nat /\ Len(got'[h]) = Len(got[h]) + 1
         /\ got'[h][Len(got[h]) + 1] = id
         /\ \A i \in 1..Len(got[h]) : got'[h][i] = got[h][i]
         /\ \A k \in Hooks : k # h => got'[k] = got[k]
<1>1. got[h] \in Seq(1..Len(log)) /\ got'[h] = Append(got[h], id)
    BY DEF TypeOK
<1>2. \A k \in Hooks : k # h => got'[k] = got[k]
    BY DEF TypeOK
<1>3. QED BY <1>1, <1>2, AppendProperties, LenProperties

\* So whatever is true of all that was posted and of the new one stays true.
LEMMA OriginPosted ==
  ASSUME TypeOK, OriginInv, NEW h \in Hooks, NEW id \in 1..Len(log), h \in log[id].to,
         got' = [got EXCEPT ![h] = Append(@, id)], log' = log
  PROVE  \A k \in Hooks : \A i \in 1..Len(got'[k]) : k \in log'[got'[k][i]].to
<1> SUFFICES ASSUME NEW k \in Hooks, NEW i \in 1..Len(got'[k])
             PROVE  k \in log[got'[k][i]].to
    OBVIOUS
<1>1. CASE k # h
    BY <1>1, GotAppended DEF OriginInv
<1>2. CASE k = h /\ i \in 1..Len(got[h])
    BY <1>2, GotAppended DEF OriginInv
<1>3. CASE k = h /\ i = Len(got[h]) + 1
    BY <1>3, GotAppended
<1>4. QED BY <1>1, <1>2, <1>3, GotAppended

\* A new event is in the log for those it is sent to.
LEMMA OriginEmit ==
  ASSUME TypeOK, OriginInv, NEW key \in Keys, NEW caller \in Callers, StartEmit(key, caller),
         UNCHANGED <<queue, busy, serial, got>>
  PROVE  OriginInv'
<1>1. /\ Len(log) \in Nat /\ Len(log') = Len(log) + 1
      /\ \A i \in 1..Len(log) : log'[i] = log[i]
      /\ log'[Len(log) + 1] = [key |-> key, to |-> Targets(key), since |-> mon.since]
    BY LogType, Emitted
<1>2. \A j \in Held' : j.n \in 1..serial' /\ j.id \in 1..Len(log') /\ j.hook \in log'[j.id].to
  <2>1. Held' = Held
      BY DEF Held, Queued, Taken
  <2>2. QED BY <1>1, <2>1 DEF OriginInv
<1>3. ASSUME NEW e \in emitting' PROVE e.rest \subseteq log'[e.id].to
  <2>1. CASE e \in emitting
      BY <1>1, <2>1, CallType DEF OriginInv
  <2>2. CASE e = [id |-> Len(log) + 1, rest |-> Targets(key), caller |-> caller]
      BY <1>1, <2>2
  <2>3. QED BY <2>1, <2>2, Emitted
<1>4. \A h \in Hooks : \A i \in 1..Len(got'[h]) : h \in log'[got'[h][i]].to
  <2> SUFFICES ASSUME NEW h \in Hooks, NEW i \in 1..Len(got[h])
               PROVE  h \in log'[got[h][i]].to
      OBVIOUS
  <2>1. got[h][i] \in 1..Len(log)
    <3>1. got[h] \in Seq(1..Len(log))
        BY DEF TypeOK
    <3>2. QED BY <3>1, ElementOfSeq
  <2>2. QED BY <1>1, <2>1 DEF OriginInv
<1>5. QED BY <1>2, <1>3, <1>4 DEF OriginInv

\* Every step keeps the origins right.
LEMMA OriginStep == TypeOK /\ OriginInv /\ OrderInv /\ [Next]_vars => OriginInv'
<1> SUFFICES ASSUME TypeOK, OriginInv, OrderInv, [Next]_vars PROVE OriginInv'
    OBVIOUS
<1>1. ASSUME NEW e \in emitting, NEW h \in Hooks, Submit(e, h) PROVE OriginInv'
  <2>1. h \in e.rest /\ log' = log /\ got' = got /\ serial' = serial + 1 /\ serial \in Nat
      BY <1>1 DEF Submit, TypeOK
  <2>2. \A j \in Held' : j.n \in 1..serial' /\ j.id \in 1..Len(log') /\ j.hook \in log'[j.id].to
      BY <1>1, <2>1, HeldSubmit, CallType DEF OriginInv
  <2>3. \A d \in emitting' : d.rest \subseteq log'[d.id].to
      BY <1>1, <2>1, Served DEF OriginInv, Submit
  <2>4. QED BY <2>1, <2>2, <2>3 DEF OriginInv
<1>2. ASSUME NEW e \in emitting, NEW h \in Hooks, DeliverInline(e, h) PROVE OriginInv'
  <2>1. /\ h \in log[e.id].to /\ e.id \in 1..Len(log) /\ log' = log
        /\ got' = [got EXCEPT ![h] = Append(@, e.id)]
      BY <1>2, CallType DEF DeliverInline, OriginInv
  <2>2. Held' = Held /\ serial' = serial
      BY <1>2 DEF DeliverInline, pool, Held, Queued, Taken
  <2>3. \A d \in emitting' : d.rest \subseteq log'[d.id].to
      BY <1>2, <2>1, Served DEF OriginInv, DeliverInline
  <2>4. QED BY <2>1, <2>2, <2>3, OriginPosted DEF OriginInv
<1>3. ASSUME NEW caller \in {"panel", "cli"}, Other(caller) PROVE OriginInv'
    BY <1>3, OriginEmit DEF Other, Keys, Callers, pool
<1>4. ASSUME NEW w \in Workers, Take(w) PROVE OriginInv'
    BY <1>4, HeldTake DEF Take, OriginInv
<1>5. ASSUME NEW w \in Workers, Post(w) PROVE OriginInv'
  <2>1. /\ log' = log /\ emitting' = emitting /\ serial' = serial
        /\ Held' \subseteq Held
      BY <1>5, HeldPost DEF Post
  <2>2. \A h \in Hooks : \A i \in 1..Len(got'[h]) : h \in log'[got'[h][i]].to
    <3>1. CASE got' = got
        BY <2>1, <3>1 DEF OriginInv
    <3>2. CASE got' = [got EXCEPT ![busy[w].hook] = Append(@, busy[w].id)]
      <4>1. /\ busy[w].hook \in Hooks /\ busy[w].id \in 1..Len(log)
            /\ busy[w].hook \in log[busy[w].id].to
          BY <1>5, HeldPost DEF OriginInv, Job
      <4>2. QED BY <2>1, <3>2, <4>1, OriginPosted
    <3>3. QED BY <1>5, <3>1, <3>2 DEF Post
  <2>3. QED BY <2>1, <2>2 DEF OriginInv
<1>6. ASSUME NoteHealth PROVE OriginInv'
  <2>1. Event(mon.overall, mon.previous) \in Keys
      BY DEF Event, Keys, Health
  <2>2. CASE StartEmit(Event(mon.overall, mon.previous), "monitor")
      BY <1>6, <2>1, <2>2, OriginEmit DEF NoteHealth, Callers, pool
  <2>3. CASE UNCHANGED <<log, emitting>>
      BY <1>6, <2>3, SameOrigin DEF NoteHealth, Same, pool
  <2>4. QED BY <1>6, <2>2, <2>3 DEF NoteHealth
<1>7. ASSUME Crash PROVE OriginInv'
  <2>1. Held' = {}
    <3>1. Len(<<>>) = 0
        BY EmptySeq
    <3>2. QED BY <1>7, <3>1 DEF Crash, Held, Queued, Taken
  <2>2. QED BY <1>7, <2>1 DEF Crash, OriginInv
<1>8. ASSUME Wake \/ RunChecks \/ HealthChanges \/ (\E h \in Hooks : Toggle(h)) \/ UNCHANGED vars
      PROVE  OriginInv'
    BY <1>8, SameOrigin DEF Wake, RunChecks, HealthChanges, Toggle, vars, Same, pool
<1>9. QED
    BY <1>1, <1>2, <1>3, <1>4, <1>5, <1>6, <1>7, <1>8 DEF Next, Emit, Pool, Monitor

-----------------------------------------------------------------------------
(* An event is in one place *)

\* and that each is in one place.
LEMMA SameOnePlace == OnePlaceInv /\ Same => OnePlaceInv'
BY DEF OnePlaceInv, Same, Held, Queued, Taken

\* Injective is what has different elements at different places.
LEMMA Injective ==
  ASSUME NEW S, NEW s \in Seq(S)
  PROVE  IsInjective(s) <=> \A i, j \in 1..Len(s) : s[i] = s[j] => i = j
<1>1. DOMAIN s = 1..Len(s)
    BY LenProperties
<1>2. QED BY <1>1 DEF IsInjective

\* What was not posted before does not get a second place.
LEMMA PostedInjective ==
  ASSUME TypeOK, OnePlaceInv, NEW h \in Hooks, NEW id \in 1..Len(log),
         got' = [got EXCEPT ![h] = Append(@, id)],
         \A i \in 1..Len(got[h]) : got[h][i] # id
  PROVE  \A k \in Hooks : IsInjective(got'[k])
<1> SUFFICES ASSUME NEW k \in Hooks PROVE IsInjective(got'[k])
    OBVIOUS
<1>1. CASE k # h
    BY <1>1, GotAppended DEF OnePlaceInv
<1>2. CASE k = h
  <2>1. got[h] \in Seq(1..Len(log)) /\ got'[h] \in Seq(1..Len(log))
    <3>1. got[h] \in Seq(1..Len(log)) /\ got'[h] = Append(got[h], id)
        BY DEF TypeOK
    <3>2. Append(got[h], id) \in Seq(1..Len(log))
        BY <3>1, AppendProperties
    <3>3. QED BY <3>1, <3>2
  <2>2. \A i, j \in 1..Len(got[h]) : got[h][i] = got[h][j] => i = j
      BY <2>1, Injective DEF OnePlaceInv
  <2>3. ASSUME NEW i \in 1..Len(got'[h]), NEW j \in 1..Len(got'[h]), got'[h][i] = got'[h][j]
        PROVE  i = j
    <3>1. /\ Len(got[h]) \in Nat /\ Len(got'[h]) = Len(got[h]) + 1
          /\ got'[h][Len(got[h]) + 1] = id
          /\ \A l \in 1..Len(got[h]) : got'[h][l] = got[h][l]
        BY GotAppended
    <3>2. /\ i \in 1..Len(got[h]) \/ i = Len(got[h]) + 1
          /\ j \in 1..Len(got[h]) \/ j = Len(got[h]) + 1
        BY <3>1
    <3>3. QED BY <2>2, <2>3, <3>1, <3>2
  <2>4. QED BY <1>2, <2>1, <2>3, Injective
<1>3. QED BY <1>1, <1>2

\* The calls stay one per event when one of them has served an endpoint.
LEMMA OnePlaceCalls ==
  ASSUME TypeOK, OnePlaceInv, NEW e \in emitting, NEW h, emitting' = Without(e, h)
  PROVE  \A d, f \in emitting' : d.id = f.id => d = f
<1> SUFFICES ASSUME NEW d \in emitting', NEW f \in emitting', d.id = f.id PROVE d = f
    OBVIOUS
<1>1. \A g \in emitting : g.id = e.id => g = e
    BY DEF OnePlaceInv
<1>2. \A g \in emitting' : (g \in emitting /\ g # e) \/ (g = Further(e, h) /\ g.id = e.id)
  <2> SUFFICES ASSUME NEW g \in Without(e, h)
               PROVE  (g \in emitting /\ g # e) \/ (g = Further(e, h) /\ g.id = e.id)
      OBVIOUS
  <2>1. QED BY Served
<1>3. CASE d \in emitting /\ d # e
  <2>1. d.id # e.id
      BY <1>1, <1>3
  <2>2. f \in emitting
      BY <1>2, <2>1
  <2>3. QED BY <1>3, <2>2 DEF OnePlaceInv
<1>4. CASE d = Further(e, h) /\ d.id = e.id
  <2>1. f = Further(e, h)
      BY <1>1, <1>2, <1>4
  <2>2. QED BY <1>4, <2>1
<1>5. QED BY <1>2, <1>3, <1>4

\* A new event is nowhere yet.
LEMMA OnePlaceEmit ==
  ASSUME TypeOK, OriginInv, OnePlaceInv, NEW key \in Keys, NEW caller \in Callers,
         StartEmit(key, caller), UNCHANGED <<queue, busy, got>>
  PROVE  OnePlaceInv'
<1> DEFINE new == [id |-> Len(log) + 1, rest |-> Targets(key), caller |-> caller]
<1>1. Held' = Held
    BY DEF Held, Queued, Taken
<1>2. /\ Len(log) \in Nat
      /\ \A e \in emitting : e.id # Len(log) + 1
      /\ \A j \in Held : j.id # Len(log) + 1
    BY LogType, CallType DEF OriginInv
<1>3. \A h \in Hooks : \A i \in 1..Len(got[h]) : got[h][i] # Len(log) + 1
  <2> SUFFICES ASSUME NEW h \in Hooks, NEW i \in 1..Len(got[h])
               PROVE  got[h][i] # Len(log) + 1
      OBVIOUS
  <2>1. got[h] \in Seq(1..Len(log))
      BY DEF TypeOK
  <2>2. got[h][i] \in 1..Len(log)
      BY <2>1, ElementOfSeq
  <2>3. QED BY <1>2, <2>2
<1>4. /\ new.id = Len(log) + 1 /\ new.rest \subseteq Hooks
      /\ \A e \in emitting' : e \in emitting \/ e = new
    BY Emitted
<1> HIDE DEF new
<1>5. \A d, e \in emitting' : d.id = e.id => d = e
    BY <1>2, <1>4 DEF OnePlaceInv
<1>6. \A j \in Held', e \in emitting' : j.id = e.id => j.hook \notin e.rest
    BY <1>1, <1>2, <1>4 DEF OnePlaceInv
<1>7. \A e \in emitting' : \A h \in e.rest : \A i \in 1..Len(got'[h]) : got'[h][i] # e.id
    BY <1>3, <1>4 DEF OnePlaceInv
<1>8. QED BY <1>1, <1>5, <1>6, <1>7 DEF OnePlaceInv

\* From the call to the pool.
LEMMA OnePlaceSubmit ==
  ASSUME TypeOK, OnePlaceInv, NEW e \in emitting, NEW h \in Hooks, Submit(e, h)
  PROVE  OnePlaceInv'
<1> DEFINE job == [hook |-> h, id |-> e.id, n |-> serial + 1]
<1>1. h \in e.rest /\ emitting' = Without(e, h) /\ got' = got
    BY DEF Submit
<1>2. Held' = Held \cup {job} /\ job.hook = h /\ job.id = e.id
    BY HeldSubmit
<1> HIDE DEF job
<1>3. \A d, f \in emitting' : d.id = f.id => d = f
    BY <1>1, OnePlaceCalls
<1>4. \A k \in Held : k.id = e.id => k.hook # h
    BY <1>1 DEF OnePlaceInv
<1>5. \A j, k \in Held' : j.hook = k.hook /\ j.id = k.id => j = k
    BY <1>2, <1>4 DEF OnePlaceInv
<1>6. \A j \in Held', d \in emitting' : j.id = d.id => j.hook \notin d.rest
  <2> SUFFICES ASSUME NEW j \in Held', NEW d \in emitting', j.id = d.id
               PROVE  j.hook \notin d.rest
      OBVIOUS
  <2>1. CASE d \in emitting /\ d # e
      BY <1>2, <2>1 DEF OnePlaceInv
  <2>2. CASE d.id = e.id /\ d.rest = e.rest \ {h}
      BY <1>2, <2>2 DEF OnePlaceInv
  <2>3. QED BY <1>1, <2>1, <2>2, Served
<1>7. \A j \in Held' : \A i \in 1..Len(got'[j.hook]) : got'[j.hook][i] # j.id
    BY <1>1, <1>2 DEF OnePlaceInv
<1>8. \A d \in emitting' : \A k \in d.rest : \A i \in 1..Len(got'[k]) : got'[k][i] # d.id
    BY <1>1, Served DEF OnePlaceInv
<1>9. QED BY <1>1, <1>3, <1>5, <1>6, <1>7, <1>8 DEF OnePlaceInv

\* From the call to the endpoint.
LEMMA OnePlaceInline ==
  ASSUME TypeOK, OnePlaceInv, NEW e \in emitting, NEW h \in Hooks, DeliverInline(e, h)
  PROVE  OnePlaceInv'
<1>1. /\ h \in e.rest /\ e.id \in 1..Len(log) /\ emitting' = Without(e, h)
      /\ got' = [got EXCEPT ![h] = Append(@, e.id)]
    BY CallType DEF DeliverInline
<1>2. Held' = Held /\ Held \subseteq Job
    BY HeldType DEF DeliverInline, pool, Held, Queued, Taken
<1>3. \A d, f \in emitting' : d.id = f.id => d = f
    BY <1>1, OnePlaceCalls
<1>4. \A j \in Held', d \in emitting' : j.id = d.id => j.hook \notin d.rest
    BY <1>1, <1>2, Served DEF OnePlaceInv
<1>5. \A k \in Hooks : \A i \in 1..Len(got'[k]) :
        (got'[k][i] = e.id /\ k = h) \/ (i \in 1..Len(got[k]) /\ got'[k][i] = got[k][i])
  <2> SUFFICES ASSUME NEW k \in Hooks, NEW i \in 1..Len(got'[k])
               PROVE  (got'[k][i] = e.id /\ k = h) \/ (i \in 1..Len(got[k]) /\ got'[k][i] = got[k][i])
      OBVIOUS
  <2>1. QED BY <1>1, GotAppended
<1>6. \A j \in Held' : \A i \in 1..Len(got'[j.hook]) : got'[j.hook][i] # j.id
    BY <1>1, <1>2, <1>5 DEF OnePlaceInv, Job
<1>7. \A d \in emitting' : \A k \in d.rest : \A i \in 1..Len(got'[k]) : got'[k][i] # d.id
  <2> SUFFICES ASSUME NEW d \in emitting', NEW k \in d.rest, NEW i \in 1..Len(got'[k])
               PROVE  got'[k][i] # d.id
      OBVIOUS
  <2>1. CASE d \in emitting /\ d # e
    <3>1. d.id # e.id /\ k \in Hooks
        BY <2>1, CallType DEF OnePlaceInv
    <3>2. QED BY <1>5, <2>1, <3>1 DEF OnePlaceInv
  <2>2. CASE d.id = e.id /\ d.rest = e.rest \ {h}
    <3>1. k # h /\ k \in Hooks /\ k \in e.rest
        BY <2>2, CallType
    <3>2. QED BY <1>5, <2>2, <3>1 DEF OnePlaceInv
  <2>3. QED BY <1>1, <2>1, <2>2, Served
<1>8. \A k \in Hooks : IsInjective(got'[k])
    BY <1>1, PostedInjective DEF OnePlaceInv
<1>9. QED BY <1>2, <1>3, <1>4, <1>6, <1>7, <1>8 DEF OnePlaceInv

\* From the pool to the endpoint.
LEMMA OnePlacePost ==
  ASSUME TypeOK, OriginInv, OnePlaceInv, OrderInv, NEW w \in Workers, Post(w)
  PROVE  OnePlaceInv'
<1> DEFINE job == busy[w]
<1>1. /\ job \in Held /\ job \in Job /\ Held' = Held \ {job} /\ emitting' = emitting
      /\ \/ got' = [got EXCEPT ![job.hook] = Append(@, job.id)]
         \/ got' = got
    BY HeldPost DEF Post
<1>2. Held \subseteq Job /\ \A e \in emitting : e.rest \subseteq Hooks
    BY HeldType, CallType
<1> HIDE DEF job
<1>3. CASE got' = got
    BY <1>1, <1>3 DEF OnePlaceInv
<1>4. CASE got' = [got EXCEPT ![job.hook] = Append(@, job.id)]
  <2>1. job.hook \in Hooks /\ job.id \in 1..Len(log)
      BY <1>1 DEF OriginInv, Job
  <2>2. \A k \in Hooks : \A i \in 1..Len(got'[k]) :
          \/ got'[k][i] = job.id /\ k = job.hook
          \/ i \in 1..Len(got[k]) /\ got'[k][i] = got[k][i]
    <3> SUFFICES ASSUME NEW k \in Hooks, NEW i \in 1..Len(got'[k])
                 PROVE  \/ got'[k][i] = job.id /\ k = job.hook
                        \/ i \in 1..Len(got[k]) /\ got'[k][i] = got[k][i]
        OBVIOUS
    <3>1. QED BY <1>4, <2>1, GotAppended
  <2>3. ASSUME NEW j \in Held', NEW i \in 1..Len(got'[j.hook]) PROVE got'[j.hook][i] # j.id
    <3>1. j \in Held /\ j # job /\ j.hook \in Hooks
        BY <1>1, <1>2 DEF Job
    <3>2. CASE got'[j.hook][i] = job.id /\ j.hook = job.hook
        BY <1>1, <3>1, <3>2 DEF OnePlaceInv
    <3>3. CASE i \in 1..Len(got[j.hook]) /\ got'[j.hook][i] = got[j.hook][i]
        BY <3>1, <3>3 DEF OnePlaceInv
    <3>4. QED BY <2>2, <3>1, <3>2, <3>3
  <2>4. \A e \in emitting' : \A k \in e.rest : \A i \in 1..Len(got'[k]) : got'[k][i] # e.id
      BY <1>1, <1>2, <2>2 DEF OnePlaceInv
  <2>5. \A k \in Hooks : IsInjective(got'[k])
      BY <1>1, <1>4, <2>1, PostedInjective DEF OnePlaceInv
  <2>6. QED BY <1>1, <2>3, <2>4, <2>5 DEF OnePlaceInv
<1>5. QED BY <1>1, <1>3, <1>4

\* Every step keeps events in one place.
LEMMA OnePlaceStep ==
  TypeOK /\ OriginInv /\ OnePlaceInv /\ OrderInv /\ [Next]_vars => OnePlaceInv'
<1> SUFFICES ASSUME TypeOK, OriginInv, OnePlaceInv, OrderInv, [Next]_vars PROVE OnePlaceInv'
    OBVIOUS
<1>1. ASSUME NEW caller \in {"panel", "cli"}, Other(caller) PROVE OnePlaceInv'
    BY <1>1, OnePlaceEmit DEF Other, Keys, Callers, pool
<1>2. ASSUME NEW w \in Workers, Take(w) PROVE OnePlaceInv'
    BY <1>2, HeldTake DEF Take, OnePlaceInv
<1>3. ASSUME NoteHealth PROVE OnePlaceInv'
  <2>1. Event(mon.overall, mon.previous) \in Keys
      BY DEF Event, Keys, Health
  <2>2. CASE StartEmit(Event(mon.overall, mon.previous), "monitor")
      BY <1>3, <2>1, <2>2, OnePlaceEmit DEF NoteHealth, Callers, pool
  <2>3. CASE UNCHANGED <<log, emitting>>
      BY <1>3, <2>3, SameOnePlace DEF NoteHealth, Same, pool
  <2>4. QED BY <1>3, <2>2, <2>3 DEF NoteHealth
<1>4. ASSUME Crash PROVE OnePlaceInv'
  <2>1. Held' = {}
    <3>1. Len(<<>>) = 0
        BY EmptySeq
    <3>2. QED BY <1>4, <3>1 DEF Crash, Held, Queued, Taken
  <2>2. QED BY <1>4, <2>1 DEF Crash, OnePlaceInv
<1>5. ASSUME Wake \/ RunChecks \/ HealthChanges \/ (\E h \in Hooks : Toggle(h)) \/ UNCHANGED vars
      PROVE  OnePlaceInv'
    BY <1>5, SameOnePlace DEF Wake, RunChecks, HealthChanges, Toggle, vars, Same, pool
<1>6. QED
    BY <1>1, <1>2, <1>3, <1>4, <1>5, OnePlaceSubmit, OnePlaceInline, OnePlacePost
    DEF Next, Emit, Pool, Monitor

-----------------------------------------------------------------------------
(* The order of the deliveries *)

\* A new delivery is the last.
LEMMA OrderSubmit ==
  ASSUME TypeOK, OriginInv, OrderInv, FreeInv, NEW e \in emitting, NEW h \in Hooks, Submit(e, h)
  PROVE  OrderInv' /\ FreeInv'
<1> DEFINE job == [hook |-> h, id |-> e.id, n |-> serial + 1]
<1>1. /\ serial \in Nat /\ serial' = serial + 1 /\ finished \subseteq 1..serial
      /\ busy' = busy /\ finished' = finished /\ queue' = Append(queue, job)
    BY DEF Submit, TypeOK
<1>2. Held' = Held \cup {job} /\ job \in Job /\ job.n = serial + 1
    BY <1>1, HeldSubmit, CallType, LogType DEF Job
<1> HIDE DEF job
<1>3. /\ Len(queue) \in Nat /\ Len(queue') = Len(queue) + 1
      /\ queue'[Len(queue) + 1] = job
      /\ \A i \in 1..Len(queue) : queue'[i] = queue[i]
    BY <1>1, <1>2, QueueType, AppendProperties
<1>4. \A w \in Workers : busy[w] # None => busy[w].n \in 1..serial
    BY DEF OriginInv, Held, Taken
<1>5. ASSUME NEW i \in 1..Len(queue')
      PROVE  /\ \A m \in finished' : m < queue'[i].n
             /\ \A w \in Workers : busy'[w] # None => busy'[w].n < queue'[i].n
  <2>1. CASE i \in 1..Len(queue)
      BY <1>1, <1>3, <2>1 DEF OrderInv
  <2>2. CASE i = Len(queue) + 1
      BY <1>1, <1>2, <1>3, <1>4, <2>2
  <2>3. QED BY <1>3, <2>1, <2>2
<1>6. \A n \in (1..serial') \ finished' : \E j \in Held' : j.n = n
  <2> SUFFICES ASSUME NEW n \in (1..serial') \ finished' PROVE \E j \in Held' : j.n = n
      OBVIOUS
  <2>1. CASE n = serial + 1
      BY <1>2, <2>1
  <2>2. CASE n \in (1..serial) \ finished
      BY <1>2, <2>2 DEF OrderInv
  <2>3. QED BY <1>1, <2>1, <2>2
<1>7. QED BY <1>1, <1>5, <1>6 DEF OrderInv, FreeInv, InTime

\* What is taken is later than all that was taken, so the one who takes it is in time.
LEMMA OrderTake ==
  ASSUME TypeOK, OriginInv, OrderInv, FreeInv, NEW w \in Workers, Take(w)
  PROVE  OrderInv' /\ FreeInv'
<1>1. /\ Len(queue) \in Nat /\ Len(queue) > 0 /\ queue[1] \in Job /\ queue[1] # None
      /\ busy' = [busy EXCEPT ![w] = queue[1]] /\ busy \in [Workers -> Job \cup {None}]
      /\ Len(queue') = Len(queue) - 1 /\ \A i \in 1..Len(queue') : queue'[i] = queue[i + 1]
    BY TakeFacts, QueueType, NoneIsNothing DEF TypeOK
<1>2. Held' = Held /\ finished' = finished /\ serial' = serial
    BY HeldTake DEF Take
<1>3. \A i \in 1..Len(queue') : /\ i + 1 \in 1..Len(queue) /\ queue'[i] = queue[i + 1]
                               /\ queue[1].n < queue'[i].n
  <2> SUFFICES ASSUME NEW i \in 1..Len(queue')
               PROVE  /\ i + 1 \in 1..Len(queue) /\ queue'[i] = queue[i + 1]
                      /\ queue[1].n < queue'[i].n
      OBVIOUS
  <2>1. i + 1 \in 1..Len(queue) /\ 1 \in 1..Len(queue) /\ 1 < i + 1
      BY <1>1
  <2>2. queue'[i] = queue[i + 1]
      BY <1>1
  <2>3. \A k, j \in 1..Len(queue) : k < j => queue[k].n < queue[j].n
      BY DEF TypeOK
  <2>4. queue[1].n < queue[i + 1].n
      BY <2>1, <2>3
  <2>5. QED BY <2>1, <2>2, <2>4
<1>4. \A v \in Workers : busy[v] # None => busy[v].n \in Nat /\ busy[v].n < queue[1].n
    BY <1>1 DEF OrderInv, Job
<1>5. \A i \in 1..Len(queue') : \A m \in finished' : m < queue'[i].n
    BY <1>2, <1>3 DEF OrderInv
<1>6. ASSUME NEW i \in 1..Len(queue'), NEW v \in Workers, busy'[v] # None
      PROVE  busy'[v].n < queue'[i].n
  <2>1. CASE v = w
      BY <1>1, <1>3, <2>1
  <2>2. CASE v # w
      BY <1>1, <1>3, <1>6, <2>2 DEF OrderInv
  <2>3. QED BY <2>1, <2>2
<1>7. queue[1].n \in Nat
    BY <1>1 DEF Job
<1>8. ASSUME NEW u \in Workers, NEW v \in Workers, busy'[u] # None, busy'[v] # None, u # v
      PROVE  busy'[u].n # busy'[v].n
  <2>1. CASE u = w
      BY <1>1, <1>4, <1>7, <1>8, <2>1
  <2>2. CASE v = w
      BY <1>1, <1>4, <1>7, <1>8, <2>2
  <2>3. CASE u # w /\ v # w
      BY <1>1, <1>8, <2>3 DEF OrderInv
  <2>4. QED BY <2>1, <2>2, <2>3
<1>9. InTime(w)'
  <2>1. \A m \in finished : m < queue[1].n
      BY <1>1 DEF OrderInv
  <2>2. QED BY <1>1, <1>2, <2>1 DEF InTime
<1>10. OrderInv'
    BY <1>2, <1>5, <1>6, <1>8 DEF OrderInv
<1>11. QED BY <1>9, <1>10 DEF FreeInv

\* Who has posted is in time: it has nothing to do.
LEMMA OrderPost ==
  ASSUME TypeOK, OriginInv, OrderInv, NEW w \in Workers, Post(w)
  PROVE  OrderInv' /\ FreeInv'
<1>1. /\ busy \in [Workers -> Job \cup {None}] /\ busy[w] # None
      /\ busy' = [busy EXCEPT ![w] = None] /\ queue' = queue /\ serial' = serial
      /\ finished' = finished \cup {busy[w].n}
    BY DEF Post, TypeOK
<1>2. Held' = Held \ {busy[w]}
    BY HeldPost
<1>3. \A i \in 1..Len(queue') : \A m \in finished' : m < queue'[i].n
    BY <1>1 DEF OrderInv
<1>4. /\ \A i \in 1..Len(queue'), v \in Workers : busy'[v] # None => busy'[v].n < queue'[i].n
      /\ \A u, v \in Workers : busy'[u] # None /\ busy'[v] # None /\ u # v
                                => busy'[u].n # busy'[v].n
    BY <1>1 DEF OrderInv
<1>5. \A n \in (1..serial') \ finished' : \E j \in Held' : j.n = n
    BY <1>1, <1>2 DEF OrderInv
<1>6. InTime(w)'
    BY <1>1 DEF InTime
<1>7. QED BY <1>3, <1>4, <1>5, <1>6 DEF OrderInv, FreeInv

\* Every step keeps the order, and somebody in time.
LEMMA OrderStep ==
  TypeOK /\ OriginInv /\ OrderInv /\ FreeInv /\ [Next]_vars => OrderInv' /\ FreeInv'
<1> SUFFICES ASSUME TypeOK, OriginInv, OrderInv, FreeInv, [Next]_vars
             PROVE  OrderInv' /\ FreeInv'
    OBVIOUS
<1>1. ASSUME Crash PROVE OrderInv' /\ FreeInv'
  <2>1. queue' = <<>> /\ busy' = [w \in Workers |-> None] /\ finished' = 1..serial /\ serial' = serial
      BY <1>1 DEF Crash
  <2>2. Len(<<>>) = 0
      BY EmptySeq
  <2>3. OrderInv'
      BY <2>1, <2>2 DEF OrderInv
  <2>4. FreeInv'
      BY <2>1, WorkersAssumption DEF FreeInv, InTime
  <2>5. QED BY <2>3, <2>4
<1>2. ASSUME \/ Wake \/ RunChecks \/ HealthChanges \/ NoteHealth \/ UNCHANGED vars
             \/ \E h \in Hooks : Toggle(h)
             \/ \E e \in emitting, h \in Hooks : DeliverInline(e, h)
             \/ \E caller \in {"panel", "cli"} : Other(caller)
      PROVE  OrderInv' /\ FreeInv'
  <2>1. UNCHANGED <<queue, busy, serial, finished>>
      BY <1>2 DEF Wake, RunChecks, HealthChanges, NoteHealth, Toggle, DeliverInline, Other, vars, pool
  <2>2. QED BY <2>1 DEF OrderInv, FreeInv, InTime, Held, Queued, Taken
<1>3. QED
    BY <1>1, <1>2, OrderSubmit, OrderTake, OrderPost DEF Next, Emit, Pool, Monitor

-----------------------------------------------------------------------------
(* The monitor's last word *)

\* A new event is said since the baseline exactly when it is about the health.
LEMMA SaidEmitted ==
  ASSUME TypeOK, LastWordInv, NEW key \in Keys, NEW caller \in Callers, StartEmit(key, caller),
         mon'.since = mon.since
  PROVE  /\ \A i \in 1..Len(log') : log'[i].since <= mon'.since
         /\ Said' = Said \cup (IF key \in Health THEN {Len(log) + 1} ELSE {})
<1> DEFINE entry == [key |-> key, to |-> Targets(key), since |-> mon.since]
<1>1. /\ Len(log) \in Nat /\ Len(log') = Len(log) + 1
      /\ \A i \in 1..Len(log) : log'[i] = log[i]
      /\ log'[Len(log) + 1] = entry
    BY LogType, Emitted
<1>2. entry.key = key /\ entry.since = mon.since /\ mon.since \in Nat
    BY TypeParts DEF RestOK, Observer
<1> HIDE DEF entry
<1>3. ASSUME NEW i \in 1..Len(log') PROVE log'[i].since <= mon'.since
  <2>1. CASE i \in 1..Len(log)
      BY <1>1, <2>1 DEF LastWordInv
  <2>2. CASE i = Len(log) + 1
      BY <1>1, <1>2, <2>2
  <2>3. QED BY <1>1, <2>1, <2>2
<1>4. ASSUME NEW i \in 1..Len(log')
      PROVE  i \in Said' <=> i \in Said \/ (key \in Health /\ i = Len(log) + 1)
  <2>1. i \in Said' <=> log'[i].key \in Health /\ log'[i].since = mon'.since
      BY DEF Said
  <2>2. CASE i \in 1..Len(log)
    <3>1. i \in Said <=> log[i].key \in Health /\ log[i].since = mon.since
        BY <2>2 DEF Said
    <3>2. QED BY <1>1, <2>1, <2>2, <3>1
  <2>3. CASE i = Len(log) + 1
    <3>1. i \notin Said
        BY <1>1, <2>3 DEF Said
    <3>2. QED BY <1>1, <1>2, <2>1, <2>3, <3>1
  <2>4. QED BY <1>1, <2>2, <2>3
<1>5. Said \subseteq 1..Len(log) /\ Said' \subseteq 1..Len(log')
    BY DEF Said
<1>6. Said' = Said \cup (IF key \in Health THEN {Len(log) + 1} ELSE {})
  <2>1. \A i \in Said' : i \in Said \/ (key \in Health /\ i = Len(log) + 1)
      BY <1>4, <1>5
  <2>2. Said \subseteq Said'
      BY <1>1, <1>4, <1>5
  <2>3. key \in Health => Len(log) + 1 \in Said'
      BY <1>1, <1>4
  <2>4. QED BY <2>1, <2>2, <2>3
<1>7. QED BY <1>3, <1>6

\* Nothing has been said since a baseline that is new.
LEMMA NothingSaid ==
  ASSUME TypeOK, LastWordInv, log' = log, mon'.since \in Nat, mon'.since > mon.since,
         mon'.previous = None, mon'.pc = "asleep"
  PROVE  LastWordInv'
<1>1. mon.since \in Nat /\ \A i \in 1..Len(log) : log[i].since \in Nat /\ log[i].since <= mon.since
    BY LogType, TypeParts DEF RestOK, Observer, Entries, LastWordInv
<1>2. Said' = {}
    BY <1>1 DEF Said
<1>3. QED BY <1>1, <1>2 DEF LastWordInv

\* The monitor announces what it has seen.
LEMMA LastWordNote == TypeOK /\ LastWordInv /\ NoteHealth => LastWordInv'
<1> SUFFICES ASSUME TypeOK, LastWordInv, NoteHealth PROVE LastWordInv'
    OBVIOUS
<1> DEFINE key == Event(mon.overall, mon.previous)
<1>1. /\ mon \in Observer /\ mon.overall # None
      /\ mon'.pc = "asleep" /\ mon'.previous = mon.overall /\ mon'.since = mon.since
  <2>1. mon \in Observer /\ mon.overall # None /\ mon' = Asleep
      BY TypeParts DEF RestOK, LastWordInv, NoteHealth
  <2>2. QED BY <2>1 DEF Asleep, Observer
<1>2. /\ key \in Keys /\ key \in Health
      /\ key = "health.recovered" <=> mon.overall = "ok"
    BY DEF Event, Keys, Health
<1>3. CASE Changed(mon.overall, mon.previous)
  <2>1. StartEmit(key, "monitor")
      BY <1>3 DEF NoteHealth
  <2> HIDE DEF key
  <2>2. /\ \A i \in 1..Len(log') : log'[i].since <= mon'.since
        /\ Said' = Said \cup {Len(log) + 1}
      BY <1>1, <1>2, <2>1, SaidEmitted DEF Callers
  <2>3. /\ Len(log) \in Nat
        /\ log'[Len(log) + 1] = [key |-> key, to |-> Targets(key), since |-> mon.since]
      BY <1>2, <2>1, Emitted, LogType DEF Callers
  <2>4. \A i \in Said' : (\A j \in Said' : j <= i) => i = Len(log) + 1
      BY <2>2, <2>3 DEF Said
  <2>5. log'[Len(log) + 1].key = key
      BY <2>3
  <2>6. QED BY <1>1, <1>2, <2>2, <2>4, <2>5 DEF LastWordInv
<1>4. CASE ~Changed(mon.overall, mon.previous)
  <2>1. log' = log
      BY <1>4 DEF NoteHealth
  <2>2. Said' = Said
      BY <1>1, <2>1 DEF Said
  <2>3. mon.previous = None \/ mon.overall = mon.previous
      BY <1>4 DEF Changed
  <2>4. QED BY <1>1, <2>1, <2>2, <2>3 DEF LastWordInv
<1>5. QED BY <1>3, <1>4

\* Every step keeps the last word true.
LEMMA LastWordStep == TypeOK /\ LastWordInv /\ [Next]_vars => LastWordInv'
<1> SUFFICES ASSUME TypeOK, LastWordInv, [Next]_vars PROVE LastWordInv'
    OBVIOUS
<1>0. mon \in Observer /\ mon.since \in Nat /\ health \in Healths
    BY TypeParts DEF RestOK, Observer
<1>1. ASSUME UNCHANGED <<log, mon>> PROVE LastWordInv'
    BY <1>1 DEF LastWordInv, Said
<1>2. ASSUME NEW caller \in {"panel", "cli"}, Other(caller) PROVE LastWordInv'
  <2>1. StartEmit("scan.completed", caller) /\ mon' = mon
      BY <1>2 DEF Other
  <2>2. "scan.completed" \in Keys /\ "scan.completed" \notin Health /\ caller \in Callers
      BY DEF Keys, Callers, Health
  <2>3. /\ \A i \in 1..Len(log') : log'[i].since <= mon'.since
        /\ Said' = Said
      BY <2>1, <2>2, SaidEmitted
  <2>4. /\ Said \subseteq 1..Len(log) /\ \A i \in 1..Len(log) : log'[i] = log[i]
      BY <2>1, <2>2, Emitted DEF Said
  <2>5. QED BY <2>1, <2>3, <2>4 DEF LastWordInv
<1>3. ASSUME Wake PROVE LastWordInv'
  <2>1. CASE mon' = [mon EXCEPT !.pc = "checking"]
    <3>1. /\ mon'.pc = "checking" /\ mon'.previous = mon.previous /\ mon'.since = mon.since
          /\ log' = log
        BY <1>0, <1>3, <2>1 DEF Wake, Observer
    <3>2. QED BY <3>1 DEF LastWordInv, Said
  <2>2. CASE mon' = Forgetting
    <3>1. /\ mon'.pc = "asleep" /\ mon'.previous = None /\ log' = log
          /\ mon'.since = IF mon.previous = None THEN mon.since ELSE mon.since + 1
        BY <1>3, <2>2 DEF Wake, Forgetting
    <3>2. CASE mon.previous = None
        BY <3>1, <3>2 DEF LastWordInv, Said
    <3>3. CASE mon.previous # None
        BY <1>0, <3>1, <3>3, NothingSaid
    <3>4. QED BY <3>2, <3>3
  <2>3. QED BY <1>3, <2>1, <2>2 DEF Wake
<1>4. ASSUME RunChecks PROVE LastWordInv'
  <2>1. mon' = [mon EXCEPT !.pc = "noting", !.overall = health] /\ log' = log
      BY <1>4 DEF RunChecks
  <2>2. mon'.previous = mon.previous /\ mon'.since = mon.since /\ mon'.overall # None
      BY <1>0, <2>1, NoneIsNothing DEF Observer
  <2>3. QED BY <2>1, <2>2 DEF LastWordInv, Said
<1>5. ASSUME Crash PROVE LastWordInv'
  <2>1. mon'.pc = "asleep" /\ mon'.previous = None /\ log' = log /\ mon'.since = mon.since + 1
      BY <1>5 DEF Crash, Forgetting
  <2>2. QED BY <1>0, <2>1, NothingSaid
<1>6. ASSUME \/ Pool \/ HealthChanges \/ (\E h \in Hooks : Toggle(h)) \/ UNCHANGED vars
             \/ \E e \in emitting : Emit(e)
      PROVE  UNCHANGED <<log, mon>>
    BY <1>6 DEF Pool, Take, Post, HealthChanges, Toggle, Emit, Submit, DeliverInline, vars
<1>7. QED
    BY <1>1, <1>2, <1>3, <1>4, <1>5, <1>6, LastWordNote DEF Next, Monitor

-----------------------------------------------------------------------------
(* The theorems *)

\* The initial state satisfies the invariant,
LEMMA IInvInit == Init => IInv
<1> SUFFICES ASSUME Init PROVE IInv
    OBVIOUS
<1>1. Len(<<>>) = 0 /\ \A x : x \notin 1..0
    BY EmptySeq
<1>2. Held = {}
    BY <1>1 DEF Init, Held, Queued, Taken
<1>3. OriginInv
    BY <1>1, <1>2 DEF Init, OriginInv
<1>4. OnePlaceInv
  <2>1. IsInjective(<<>>)
      BY <1>1, EmptySeq, Injective
  <2>2. QED BY <1>1, <1>2, <2>1 DEF Init, OnePlaceInv
<1>5. OrderInv /\ FreeInv
    BY <1>1, WorkersAssumption DEF Init, OrderInv, FreeInv, InTime
<1>6. LastWordInv
    BY <1>1 DEF Init, LastWordInv, Said
<1>7. QED BY <1>3, <1>4, <1>5, <1>6, TypeInit DEF IInv

\* and every step keeps it.
LEMMA IInvStep == IInv /\ [Next]_vars => IInv'
BY TypeStep, OriginStep, OnePlaceStep, OrderStep, LastWordStep DEF IInv

\* The invariant of the proofs holds in every state.
THEOREM Inductive == Spec => []IInv
BY IInvInit, IInvStep, PTL DEF Spec

\* The variables keep their types, and what waits its order.
THEOREM TypeCorrect == Spec => []TypeOK
<1>1. IInv => TypeOK
    BY DEF IInv
<1>2. QED BY <1>1, Inductive, PTL

\* Nobody gets an event twice, or one he did not ask for.
THEOREM OnePost == Spec => []PostedOnce
<1>1. IInv => PostedOnce
    BY DEF IInv, OriginInv, OnePlaceInv, PostedOnce
<1>2. QED BY <1>1, Inductive, PTL

\* As many deliveries are overtaken as there are other threads, at the most: each of
\* them is in the hands of a thread, and never in those of the one that is in time.
THEOREM FewOvertaken == Spec => []BoundedOvertaking
<1>1. IInv => BoundedOvertaking
  <2> SUFFICES ASSUME IInv PROVE Cardinality(Overtaken) < Cardinality(Workers)
      BY DEF BoundedOvertaking
  <2> USE DEF IInv
  <2>1. PICK w0 \in Workers : InTime(w0)
      BY DEF FreeInv
  <2> DEFINE Other1(n) == CHOOSE w \in Workers : busy[w] # None /\ busy[w].n = n
             f == [n \in Overtaken |-> Other1(n)]
  <2>2. ASSUME NEW n \in Overtaken
        PROVE  Other1(n) \in Workers \ {w0} /\ busy[Other1(n)].n = n
    <3>1. PICK m \in finished : m > n
        BY DEF Overtaken
    <3>2. n \in (1..serial) \ finished /\ n \in Nat /\ m \in Nat
        BY DEF Overtaken, TypeOK
    <3>3. PICK j \in Held : j.n = n
        BY <3>2 DEF OrderInv
    <3>4. j \notin Queued
        BY <3>1, <3>2, <3>3 DEF OrderInv, Queued
    <3>5. \E w \in Workers : busy[w] # None /\ busy[w].n = n
        BY <3>3, <3>4 DEF Held, Taken
    <3>6. Other1(n) \in Workers /\ busy[Other1(n)] # None /\ busy[Other1(n)].n = n
        BY <3>5
    <3>7. ~(busy[w0] # None /\ busy[w0].n = n)
        BY <2>1, <3>1, <3>2 DEF InTime
    <3>8. QED BY <3>6, <3>7
  <2>3. f \in Injection(Overtaken, Workers \ {w0})
    <3>1. f \in [Overtaken -> Workers \ {w0}]
        BY <2>2
    <3>2. \A m, n \in Overtaken : f[m] = f[n] => m = n
        BY <2>2
    <3>3. QED BY <3>1, <3>2 DEF Injection, IsInjective
  <2>4. /\ IsFiniteSet(Workers \ {w0})
        /\ Cardinality(Workers \ {w0}) = Cardinality(Workers) - 1
        /\ Cardinality(Workers) \in Nat
    BY WorkersAssumption, FS_RemoveElement, FS_CardinalityType
  <2>5. /\ IsFiniteSet(Overtaken)
        /\ Cardinality(Overtaken) <= Cardinality(Workers \ {w0})
      BY <2>3, <2>4, FS_Injection
  <2>6. QED BY <2>4, <2>5, FS_CardinalityType
<1>2. QED BY <1>1, Inductive, PTL

\* A set of numbers that is not empty has a least element.
LEMMA Least ==
  ASSUME NEW T \in SUBSET Nat, T # {}
  PROVE  \E n \in T : \A m \in T : n <= m
<1>1. \E n \in T : \A m \in T : ~(<<m, n>> \in OpToRel(<, Nat))
    BY NatLessThanWellFounded, WFMin
<1>2. \E n \in T : \A m \in T : ~(m < n)
    BY <1>1 DEF OpToRel
<1>3. QED BY <1>2

\* So one that is bounded has a greatest.
LEMMA Greatest ==
  ASSUME NEW N \in Nat, NEW T \in SUBSET (1..N), T # {}
  PROVE  \E n \in T : \A m \in T : m <= n
<1> DEFINE Bounds == {n \in Nat : \A m \in T : m <= n}
<1>1. N \in Bounds
    OBVIOUS
<1>2. PICK n \in Bounds : \A m \in Bounds : n <= m
    BY <1>1, Least
<1>3. n \in T
  <2>1. SUFFICES ASSUME n \notin T PROVE FALSE
      OBVIOUS
  <2>2. n - 1 \in Bounds
    <3>1. \A m \in T : m \in 1..N /\ m <= n /\ m # n
        BY <1>2, <2>1
    <3>2. n \in Nat /\ n >= 1
      <4>1. PICK m \in T : TRUE
          OBVIOUS
      <4>2. m \in Nat /\ m >= 1 /\ m <= n /\ n \in Nat
          BY <1>2, <3>1, <4>1
      <4>3. QED BY <4>2
    <3>3. n - 1 \in Nat /\ \A m \in T : m <= n - 1
        BY <3>1, <3>2
    <3>4. QED BY <3>3
  <2>3. QED BY <1>2, <2>2
<1>4. QED BY <1>2, <1>3

\* What the monitor has said last is true of what it has seen last.
THEOREM TrueWords == Spec => []LastWordIsTrue
<1>1. IInv => LastWordIsTrue
  <2> SUFFICES ASSUME IInv, Said # {}, NEW last,
                      last = CHOOSE i \in Said : \A j \in Said : j <= i
               PROVE  /\ mon.previous # None
                      /\ log[last].key = "health.recovered" <=> mon.previous = "ok"
      BY DEF LastWordIsTrue
  <2>1. Len(log) \in Nat /\ Said \subseteq 1..Len(log)
      BY LogType DEF IInv, Said
  <2>2. \E i \in Said : \A j \in Said : j <= i
      BY <2>1, Greatest
  <2>3. last \in Said /\ \A j \in Said : j <= last
      BY <2>2
  <2>4. QED BY <2>3 DEF IInv, LastWordInv
<1>2. QED BY <1>1, Inductive, PTL
===========================================================================
