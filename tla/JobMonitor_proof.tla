---------------------------- MODULE JobMonitor_proof ----------------------------
(***************************************************************************)
(* Proofs about JobMonitor for every number of jobs, restarts and changes  *)
(* of the registry: no duplicates and no replay as long as lpstat does not *)
(* fail, and the order of the two events of a job in any case.             *)
(*                                                                         *)
(* The properties are not inductive as they stand.  What carries them is   *)
(* the relation between the events that went out (or are about to), the    *)
(* sets in the monitor's state and the status of the jobs at cupsd: a job  *)
(* that was announced is still remembered, or it has left cupsd's history  *)
(* and is not in the half-finished poll either.                            *)
(***************************************************************************)
EXTENDS JobMonitor, TLAPS

Submitted == "print.submitted"
Completed == "print.completed"

\* The event of job j was handed out, or the running sweep is about to.
Announced(e, j) == dispatched[e][j] > 0 \/ <<e, j>> \in outbox

\* Announced jobs are known to cupsd, completed ones are finished there.
AnnouncedIsReal ==
  \A j \in Jobs :
    /\ Announced(Submitted, j) => cups[j] # "none"
    /\ Announced(Completed, j) => cups[j] \in {"done", "gone"}

\* While a sweep is between its two polls, an announced job is in the first
\* listing or has finished, so that the second listing has it.  No first listing
\* is kept outside that window.
PollCovers ==
  /\ \A j \in active : cups[j] # "none"
  /\ pc # "polled" => active = {}
  /\ pc = "polled" => \A j \in Jobs :
       Announced(Submitted, j) => j \in active \/ cups[j] \in {"done", "gone"}

\* The state remembers every announced job until cupsd forgets it.
Remembered ==
  state.started => \A j \in Jobs :
    /\ Announced(Submitted, j) =>
         j \in state.submitted \/ (cups[j] = "gone" /\ j \notin active)
    /\ Announced(Completed, j) => j \in state.completed \/ cups[j] = "gone"

\* An event is pending only before it is dispatched, and only in a started state.
PendingOnce ==
  /\ outbox # {} => state.started
  /\ \A e \in Events, j \in Jobs : <<e, j>> \in outbox => dispatched[e][j] = 0

\* Jobs of the old history stay adopted, and are never pending.
OldStaysOld ==
  \A j \in old :
    /\ cups[j] \in {"done", "gone"}
    /\ j \notin active
    /\ \A e \in Events : <<e, j>> \notin outbox
    /\ state.started => (j \in state.submitted /\ j \in state.completed) \/ cups[j] = "gone"

IInv ==
  /\ TypeOK
  /\ AnnouncedIsReal
  /\ PollCovers
  /\ Remembered
  /\ PendingOnce
  /\ OldStaysOld
  /\ AtMostOnce

-----------------------------------------------------------------------------
(* Type correctness *)

\* The initial state is well typed.
LEMMA TypeInit == Init => TypeOK
BY ConstantsAssumption DEF Init, TypeOK, FreshState, Done, Events

\* Every step keeps the variables in their types.
LEMMA TypeStep == TypeOK /\ [Next]_vars => TypeOK'
<1> SUFFICES ASSUME TypeOK, [Next]_vars PROVE TypeOK'
    OBVIOUS
<1> USE ConstantsAssumption DEF TypeOK, envVars, history, bounds
<1>1. ASSUME NEW j \in Jobs, Submit(j) PROVE TypeOK'
    BY <1>1 DEF Submit
<1>2. ASSUME NEW j \in Jobs, Finish(j) PROVE TypeOK'
    BY <1>2 DEF Finish
<1>3. ASSUME NEW j \in Jobs, AgeOut(j) PROVE TypeOK'
    BY <1>3 DEF AgeOut
<1>4. CASE EditEndpoints
    BY <1>4 DEF EditEndpoints
<1>5. CASE Restart
    BY <1>5 DEF Restart, FreshState, Done
<1>6. CASE DropBaseline
    BY <1>6 DEF DropBaseline, FreshState, Done
<1>7. CASE PollActive
    BY <1>7 DEF PollActive, ListJobs, Active
<1>8. CASE Sweep
  <2>1. PICK completed \in ListJobs(Done) : TakeBaseline(completed) \/ Diff(completed)
      BY <1>8 DEF Sweep
  <2>2. completed \in SUBSET Jobs
      BY <2>1 DEF ListJobs, Done
  <2>3. CASE TakeBaseline(completed)
      BY <1>8, <2>2, <2>3 DEF Sweep, TakeBaseline, BaselineState
  <2>4. CASE Diff(completed)
      BY <1>8, <2>2, <2>4 DEF Sweep, Diff, NewEvents, Events
  <2>5. QED BY <2>1, <2>3, <2>4
<1>9. ASSUME NEW e \in Events \X Jobs, Emit(e) PROVE TypeOK'
    BY <1>9 DEF Emit
<1>10. CASE UNCHANGED vars
    BY <1>10 DEF vars
<1>11. QED
    BY <1>1, <1>2, <1>3, <1>4, <1>5, <1>6, <1>7, <1>8, <1>9, <1>10
    DEF Next, CupsStep, Monitor

\* The variables always have their types, whether or not lpstat is reliable.
THEOREM TypeCorrect == Spec => []TypeOK
<1>1. QED BY TypeInit, TypeStep, PTL DEF Spec

-----------------------------------------------------------------------------
(* At most once, and no replay *)

\* The inductive invariant holds initially.
LEMMA IInvInit == Init => IInv
<1> SUFFICES ASSUME Init PROVE IInv
    OBVIOUS
<1>1. TypeOK
    BY TypeInit
<1>2. AtMostOnce
    BY DEF Init, AtMostOnce
<1>3. AnnouncedIsReal /\ PollCovers /\ Remembered /\ PendingOnce
    BY DEF Init, AnnouncedIsReal, PollCovers, Remembered, PendingOnce, Announced,
           FreshState, Events, Submitted, Completed
<1>4. OldStaysOld
    BY DEF Init, OldStaysOld, Done, FreshState
<1>5. QED BY <1>1, <1>2, <1>3, <1>4 DEF IInv

\* A step of cupsd moves a job forward; everything announced stays accounted for.
LEMMA CupsStepIInv == IInv /\ CupsStep => IInv'
<1> SUFFICES ASSUME IInv, NEW j \in Jobs, Submit(j) \/ Finish(j) \/ AgeOut(j)
             PROVE IInv'
    BY DEF CupsStep
<1> USE DEF IInv, envVars, history, bounds
<1>1. TypeOK'
    BY TypeStep DEF Next, CupsStep
<1>2. UNCHANGED <<pc, active, state, outbox, dispatched, old>>
    BY DEF Submit, Finish, AgeOut
<1>3. \A i \in Jobs :
        /\ cups[i] # "none" => cups'[i] # "none"
        /\ cups[i] \in {"done", "gone"} => cups'[i] \in {"done", "gone"}
        /\ cups[i] = "gone" => cups'[i] = "gone"
  <2>1. CASE Submit(j)
      BY <2>1 DEF Submit, TypeOK
  <2>2. CASE Finish(j)
      BY <2>2 DEF Finish, TypeOK
  <2>3. CASE AgeOut(j)
      BY <2>3 DEF AgeOut, TypeOK
  <2>4. QED BY <2>1, <2>2, <2>3
<1>4. \A e, i : Announced(e, i)' <=> Announced(e, i)
    BY <1>2 DEF Announced
<1>5. AnnouncedIsReal'
    BY <1>3, <1>4 DEF AnnouncedIsReal
<1>6. PollCovers'
    BY <1>2, <1>3, <1>4 DEF PollCovers, TypeOK
<1>7. Remembered'
    BY <1>2, <1>3, <1>4 DEF Remembered
<1>8. PendingOnce'
    BY <1>2 DEF PendingOnce
<1>9. OldStaysOld'
    BY <1>2, <1>3 DEF OldStaysOld, TypeOK
<1>10. AtMostOnce'
    BY <1>2 DEF AtMostOnce
<1>11. QED BY <1>1, <1>5, <1>6, <1>7, <1>8, <1>9, <1>10

\* Forgetting the state, in a restart or for want of a subscriber, leaves the
\* monitor without a baseline, and so without anything it could report.
LEMMA ForgetIInv ==
  IInv /\ (Restart \/ DropBaseline \/ EditEndpoints) => IInv'
<1> SUFFICES ASSUME IInv, Restart \/ DropBaseline \/ EditEndpoints PROVE IInv'
    OBVIOUS
<1> USE DEF IInv, envVars, history, bounds
<1>1. TypeOK'
    BY TypeStep DEF Next, Monitor
<1>2. UNCHANGED <<cups, dispatched>> /\ outbox' \subseteq outbox
    BY DEF Restart, DropBaseline, EditEndpoints
<1>3. \A e, j : Announced(e, j)' => Announced(e, j)
    BY <1>2 DEF Announced
<1>4. AnnouncedIsReal'
    BY <1>2, <1>3 DEF AnnouncedIsReal
<1>5. AtMostOnce'
    BY <1>2 DEF AtMostOnce
<1>6. CASE EditEndpoints
  <2>1. UNCHANGED <<cups, pc, active, state, outbox, dispatched, old>>
      BY <1>6 DEF EditEndpoints
  <2>2. QED
      BY <1>1, <1>4, <1>5, <2>1
      DEF PollCovers, Remembered, PendingOnce, OldStaysOld, Announced
<1>7. CASE Restart \/ DropBaseline
  <2>1. /\ pc' = "idle" /\ state' = FreshState /\ old' = old \cup Done
        /\ active' \subseteq active /\ outbox' = {}
      BY <1>7 DEF Restart, DropBaseline, TypeOK
  <2>2. \A j \in Done : j \notin active'
    <3>1. CASE Restart
        BY <3>1 DEF Restart
    <3>2. CASE DropBaseline
        BY <3>2 DEF DropBaseline, TypeOK, PollCovers
    <3>3. QED BY <1>7, <3>1, <3>2
  <2>3. PollCovers'
      BY <1>2, <2>1, <1>7 DEF PollCovers, Restart, DropBaseline
  <2>4. Remembered' /\ PendingOnce'
      BY <2>1 DEF Remembered, PendingOnce, FreshState
  <2>5. OldStaysOld'
      BY <1>2, <2>1, <2>2 DEF OldStaysOld, FreshState, Done
  <2>6. QED BY <1>1, <1>4, <1>5, <2>3, <2>4, <2>5
<1>8. QED BY <1>6, <1>7

\* The first poll lists every announced job that has not finished.
LEMMA PollActiveIInv == ~PollMayFail /\ IInv /\ PollActive => IInv'
<1> SUFFICES ASSUME ~PollMayFail, IInv, PollActive PROVE IInv'
    OBVIOUS
<1> USE DEF IInv, envVars, history, bounds
<1>1. TypeOK'
    BY TypeStep DEF Next, Monitor
<1>2. /\ pc = "idle" /\ pc' = "polled" /\ active' = Active
      /\ UNCHANGED <<cups, state, outbox, dispatched, old>>
    BY DEF PollActive, ListJobs
<1>3. \A j \in Active : cups[j] = "active" /\ j \in Jobs
    BY DEF Active
<1>4. PollCovers'
    BY <1>2 DEF PollCovers, AnnouncedIsReal, Announced, Active, TypeOK
<1>5. Remembered'
    BY <1>2, <1>3 DEF Remembered, Announced
<1>6. OldStaysOld'
    BY <1>2, <1>3 DEF OldStaysOld
<1>7. AnnouncedIsReal' /\ PendingOnce' /\ AtMostOnce'
    BY <1>2 DEF AnnouncedIsReal, PendingOnce, AtMostOnce, Announced
<1>8. QED BY <1>1, <1>4, <1>5, <1>6, <1>7

\* The second poll and the diff: what is reported now was never announced, and
\* what was announced is either in one of the listings or gone from cupsd.
LEMMA SweepIInv == ~PollMayFail /\ IInv /\ Sweep => IInv'
<1> SUFFICES ASSUME ~PollMayFail, IInv, Sweep PROVE IInv'
    OBVIOUS
<1> USE DEF IInv, envVars, history, bounds
<1>1. TypeOK'
    BY TypeStep DEF Next, Monitor
<1>2. /\ pc = "polled" /\ active' = {} /\ pc' # "polled"
      /\ UNCHANGED <<cups, dispatched, old>>
    BY DEF Sweep, TakeBaseline, Diff
<1>3. outbox = {}
    BY <1>2 DEF TypeOK
<1>4. TakeBaseline(Done) \/ Diff(Done)
    BY DEF Sweep, ListJobs
<1>5. \A e \in Events, j \in Jobs : Announced(e, j) <=> dispatched[e][j] > 0
    BY <1>3 DEF Announced
<1>6. AtMostOnce'
    BY <1>2 DEF AtMostOnce
<1>7. CASE TakeBaseline(Done)
  <2>1. /\ outbox' = {} /\ state'.started
        /\ state'.submitted = active \cup Done /\ state'.completed = Done
      BY <1>7 DEF TakeBaseline, BaselineState
  <2>2. \A e, j : Announced(e, j)' <=> dispatched[e][j] > 0
      BY <1>2, <2>1 DEF Announced
  <2>3. AnnouncedIsReal' /\ PollCovers' /\ PendingOnce'
      BY <1>2, <1>5, <2>1, <2>2
      DEF AnnouncedIsReal, PollCovers, PendingOnce, Submitted, Completed, Events
  <2>4. Remembered'
      BY <1>2, <1>5, <2>1, <2>2
      DEF Remembered, AnnouncedIsReal, PollCovers, Done, Submitted, Completed, Events
  <2>5. OldStaysOld'
      BY <1>2, <2>1 DEF OldStaysOld, Done, TypeOK
  <2>6. QED BY <1>1, <1>6, <2>3, <2>4, <2>5
<1>8. CASE Diff(Done)
  <2> DEFINE allIds == active \cup Done
  <2>1. state.started /\ state'.started
      BY <1>8 DEF Diff, TypeOK
  <2>2. state'.submitted = allIds /\ state'.completed = Done
      BY <1>8 DEF Diff, TypeOK
  <2>3. \A e, j : <<e, j>> \in outbox' =>
          \/ e = Submitted /\ j \in allIds \ state.submitted
          \/ e = Completed /\ j \in Done \ state.completed
      BY <1>8 DEF Diff, NewEvents, Submitted, Completed
  <2>4. \A j \in Done : j \in Jobs /\ cups[j] = "done"
      BY DEF Done
  <2>5. \A j \in allIds : j \in Jobs /\ cups[j] # "none" /\ (cups[j] = "gone" => j \in active)
      BY <2>4 DEF PollCovers, TypeOK
  <2>6. \A e \in Events, j \in Jobs : <<e, j>> \in outbox' => dispatched[e][j] = 0
    <3> SUFFICES ASSUME NEW e \in Events, NEW j \in Jobs, <<e, j>> \in outbox',
                        dispatched[e][j] # 0
                 PROVE  FALSE
        OBVIOUS
    <3>1. dispatched[e][j] \in Nat
        BY DEF TypeOK
    <3>2. Announced(e, j)
        BY <1>5, <3>1
    <3>3. QED BY <2>1, <2>3, <2>4, <2>5, <3>2 DEF Remembered
  <2>7. PendingOnce'
      BY <1>2, <2>1, <2>6 DEF PendingOnce
  <2>8. AnnouncedIsReal'
    <3> SUFFICES ASSUME NEW j \in Jobs
                 PROVE /\ Announced(Submitted, j)' => cups[j] # "none"
                       /\ Announced(Completed, j)' => cups[j] \in {"done", "gone"}
        BY <1>2 DEF AnnouncedIsReal
    <3>1. Announced(Submitted, j)' => Announced(Submitted, j) \/ j \in allIds
        BY <1>2, <2>3 DEF Announced, Submitted, Completed
    <3>2. Announced(Completed, j)' => Announced(Completed, j) \/ j \in Done
        BY <1>2, <2>3 DEF Announced, Submitted, Completed
    <3>3. QED BY <2>4, <2>5, <3>1, <3>2 DEF AnnouncedIsReal
  <2>9. Remembered'
    <3> SUFFICES ASSUME NEW j \in Jobs
                 PROVE /\ Announced(Submitted, j)' => j \in allIds \/ cups[j] = "gone"
                       /\ Announced(Completed, j)' => j \in Done \/ cups[j] = "gone"
        BY <1>2, <2>2 DEF Remembered
    <3>1. Announced(Submitted, j)' => Announced(Submitted, j) \/ j \in allIds
        BY <1>2, <2>3 DEF Announced, Submitted, Completed
    <3>2. Announced(Completed, j)' => Announced(Completed, j) \/ j \in Done
        BY <1>2, <2>3 DEF Announced, Submitted, Completed
    <3>3. Announced(Submitted, j) => j \in active \/ cups[j] \in {"done", "gone"}
        BY <1>2 DEF PollCovers
    <3>4. Announced(Completed, j) => cups[j] \in {"done", "gone"}
        BY DEF AnnouncedIsReal
    <3>5. QED BY <3>1, <3>2, <3>3, <3>4 DEF Done
  <2>10. PollCovers'
      BY <1>2 DEF PollCovers
  <2>11. OldStaysOld'
    <3> SUFFICES ASSUME NEW j \in old
                 PROVE /\ cups[j] \in {"done", "gone"}
                       /\ \A e \in Events : <<e, j>> \notin outbox'
                       /\ (j \in allIds /\ j \in Done) \/ cups[j] = "gone"
        BY <1>2, <2>2 DEF OldStaysOld
    <3>1. j \in Jobs /\ cups[j] \in {"done", "gone"} /\ j \notin active
        BY DEF OldStaysOld, TypeOK
    <3>2. (j \in state.submitted /\ j \in state.completed) \/ cups[j] = "gone"
        BY <2>1 DEF OldStaysOld
    <3>3. cups[j] = "gone" => j \notin allIds
        BY <2>4, <3>1
    <3>4. \A e \in Events : <<e, j>> \notin outbox'
        BY <2>3, <3>2, <3>3
    <3>5. QED BY <3>1, <3>4 DEF Done
  <2>12. QED BY <1>1, <1>6, <2>7, <2>8, <2>9, <2>10, <2>11
<1>9. QED BY <1>4, <1>7, <1>8

\* Emitting moves one event from pending to dispatched.
LEMMA EmitIInv == ASSUME NEW e \in Events \X Jobs, IInv, Emit(e) PROVE IInv'
<1> USE DEF IInv, envVars, history, bounds
<1>1. TypeOK'
    BY TypeStep DEF Next, Monitor
<1>2. PICK k \in Events, i \in Jobs : e = <<k, i>>
    OBVIOUS
<1>3. /\ e \in outbox /\ outbox' = outbox \ {e} /\ pc = "emit" /\ pc' # "polled"
      /\ UNCHANGED <<cups, active, state, old>>
    BY DEF Emit
<1>4. dispatched[k][i] = 0
    BY <1>2, <1>3 DEF PendingOnce
<1>5. dispatched' = dispatched \/ dispatched' = [dispatched EXCEPT ![k][i] = @ + 1]
    BY <1>2 DEF Emit
<1>6. \A f \in Events, j \in Jobs :
        dispatched'[f][j] = dispatched[f][j] \/ (f = k /\ j = i /\ dispatched'[f][j] = 1)
    BY <1>4, <1>5 DEF TypeOK
<1>7. \A f \in Events, j \in Jobs : Announced(f, j)' => Announced(f, j)
    BY <1>2, <1>3, <1>6 DEF Announced
<1>8. AtMostOnce'
    BY <1>6 DEF AtMostOnce
<1>9. AnnouncedIsReal'
    BY <1>3, <1>7 DEF AnnouncedIsReal, Events, Submitted, Completed
<1>10. PollCovers'
    BY <1>3 DEF PollCovers
<1>11. Remembered'
    BY <1>3, <1>7 DEF Remembered, Events, Submitted, Completed
<1>12. PendingOnce'
    BY <1>2, <1>3, <1>6 DEF PendingOnce
<1>13. OldStaysOld'
    BY <1>3 DEF OldStaysOld
<1>14. QED BY <1>1, <1>8, <1>9, <1>10, <1>11, <1>12, <1>13

\* Every step keeps the inductive invariant when lpstat is reliable.
LEMMA IInvStep == ~PollMayFail /\ IInv /\ [Next]_vars => IInv'
<1> SUFFICES ASSUME ~PollMayFail, IInv, [Next]_vars PROVE IInv'
    OBVIOUS
<1>1. CASE UNCHANGED vars
    BY <1>1 DEF vars, IInv, TypeOK, AnnouncedIsReal, PollCovers, Remembered,
                PendingOnce, OldStaysOld, AtMostOnce, Announced, Done, Active
<1>2. CASE Next
    BY <1>2, CupsStepIInv, ForgetIInv, PollActiveIInv, SweepIInv, EmitIInv
    DEF Next, Monitor
<1>3. QED BY <1>1, <1>2

\* With a reliable lpstat no event of any job goes out twice, whatever the
\* number of jobs, restarts and changes of the registry.
THEOREM NoDuplicates == ASSUME ~PollMayFail PROVE Spec => []AtMostOnce
<1>1. Init => IInv
    BY IInvInit
<1>2. IInv /\ [Next]_vars => IInv'
    BY IInvStep
<1>3. IInv => AtMostOnce
    BY DEF IInv
<1>4. QED BY <1>1, <1>2, <1>3, PTL DEF Spec

\* With a reliable lpstat the job history found at a start is never replayed.
THEOREM HistoryStaysQuiet == ASSUME ~PollMayFail PROVE Spec => NoReplay
<1>1. Init => IInv
    BY IInvInit
<1>2. IInv /\ [Next]_vars => IInv'
    BY IInvStep
<1>3. IInv /\ [Next]_vars =>
        [\A e \in Events, j \in old : dispatched'[e][j] = dispatched[e][j]]_vars
  <2> SUFFICES ASSUME IInv, Next, NEW e \in Events, NEW j \in old
               PROVE  dispatched'[e][j] = dispatched[e][j]
      BY DEF vars
  <2>1. CASE UNCHANGED dispatched
      BY <2>1
  <2>2. ASSUME NEW f \in Events \X Jobs, Emit(f)
        PROVE  dispatched'[e][j] = dispatched[e][j]
    <3>1. PICK k \in Events, i \in Jobs : f = <<k, i>>
        OBVIOUS
    <3>2. <<k, i>> \in outbox
        BY <2>2, <3>1 DEF Emit
    <3>3. i # j
        BY <3>2 DEF IInv, OldStaysOld
    <3>4. QED BY <2>2, <3>1, <3>3 DEF Emit, IInv, TypeOK
  <2>3. QED
      BY <2>1, <2>2
      DEF Next, CupsStep, Monitor, Submit, Finish, AgeOut, EditEndpoints, Restart,
          DropBaseline, PollActive, Sweep, history
<1>4. QED BY <1>1, <1>2, <1>3, PTL DEF Spec, NoReplay

-----------------------------------------------------------------------------
(* The order of the two events of a job.  Here lpstat may fail.  *)

\* A job counts as completed only when it has finished; it is then in no first
\* listing, which is kept between the two polls only.
FinishedFirst ==
  \A j \in Jobs :
    /\ Announced(Completed, j) \/ j \in state.completed =>
         cups[j] \in {"done", "gone"} /\ j \notin active
    /\ <<Completed, j>> \in outbox => j \in state.completed
    /\ j \in active => pc = "polled" /\ cups[j] # "none"

\* No completion goes out before the submission, and a job that the state knows as
\* submitted but not as completed has one submission more than completions.
InOrder(j) ==
  /\ dispatched[Completed][j] <= dispatched[Submitted][j]
  /\ <<Completed, j>> \in outbox \/ j \in state.submitted \ state.completed =>
       \/ dispatched[Completed][j] < dispatched[Submitted][j]
       \/ <<Submitted, j>> \in outbox

\* A baseline adopted the job, or nobody wanted its submission.
Excused(j) == j \in baseline.submitted \/ <<Submitted, j>> \in unheard

OrderInv == \A j \in Jobs : InOrder(j) \/ Excused(j)

OInv == TypeOK /\ FinishedFirst /\ OrderInv

\* Everything but a sweep and an event that goes out.
LEMMA QuietStepOInv ==
  ASSUME OInv, CupsStep \/ EditEndpoints \/ Restart \/ DropBaseline \/ PollActive
               \/ UNCHANGED vars
  PROVE  OInv'
<1> USE DEF OInv, envVars, history, bounds
<1>1. TypeOK'
    BY TypeStep DEF Next, Monitor
<1>2. /\ UNCHANGED <<dispatched, unheard, baseline>>
      /\ \/ state' = state /\ outbox' = outbox
         \/ state' = FreshState /\ outbox' \subseteq outbox /\ outbox' = {}
  <2>1. CASE CupsStep
      BY <2>1 DEF CupsStep, Submit, Finish, AgeOut
  <2>2. CASE EditEndpoints
      BY <2>2 DEF EditEndpoints, TypeOK
  <2>3. CASE Restart
      BY <2>3 DEF Restart
  <2>4. CASE DropBaseline
      BY <2>4 DEF DropBaseline, TypeOK
  <2>5. CASE PollActive
      BY <2>5 DEF PollActive
  <2>6. CASE UNCHANGED vars
      BY <2>6 DEF vars
  <2>7. QED BY <2>1, <2>2, <2>3, <2>4, <2>5, <2>6
<1>3. OrderInv'
  <2>1. SUFFICES ASSUME NEW j \in Jobs, ~Excused(j)'
                 PROVE  InOrder(j)'
      BY DEF OrderInv
  <2>2. InOrder(j)
      BY <1>2, <2>1 DEF OrderInv, Excused
  <2>3. CASE state' = state /\ outbox' = outbox
      BY <1>2, <2>2, <2>3 DEF InOrder
  <2>4. CASE state' = FreshState /\ outbox' = {}
    <3>1. j \notin state'.submitted /\ <<Completed, j>> \notin outbox'
        BY <2>4 DEF FreshState
    <3>2. dispatched'[Completed][j] <= dispatched'[Submitted][j]
        BY <1>2, <2>2 DEF InOrder
    <3>3. QED BY <3>1, <3>2 DEF InOrder
  <2>5. QED BY <1>2, <2>3, <2>4
<1>4. FinishedFirst'
  <2>1. CASE CupsStep
    <3>1. \A i \in Jobs :
            /\ cups[i] \in {"done", "gone"} => cups'[i] \in {"done", "gone"}
            /\ cups[i] # "none" => cups'[i] # "none"
        BY <2>1 DEF CupsStep, Submit, Finish, AgeOut, TypeOK
    <3>2. UNCHANGED <<pc, active, state, outbox, dispatched>>
        BY <2>1 DEF CupsStep, Submit, Finish, AgeOut
    <3>3. QED BY <3>1, <3>2 DEF FinishedFirst, Announced
  <2>2. CASE EditEndpoints \/ UNCHANGED vars
      BY <2>2 DEF EditEndpoints, vars, FinishedFirst, Announced
  <2>3. CASE Restart \/ DropBaseline
    <3>1. /\ UNCHANGED <<cups, dispatched>> /\ state' = FreshState /\ outbox' = {}
          /\ active' = {} \/ (active' = active /\ pc' = pc)
        BY <2>3, <1>2 DEF Restart, DropBaseline, TypeOK
    <3>2. QED BY <3>1 DEF FinishedFirst, Announced, FreshState
  <2>4. CASE PollActive
    <3>1. /\ UNCHANGED <<cups, dispatched, state, outbox>> /\ pc' = "polled"
          /\ active' \subseteq Active
        BY <2>4 DEF PollActive, ListJobs
    <3>2. \A j \in Active : cups[j] = "active"
        BY DEF Active
    <3>3. QED BY <3>1, <3>2 DEF FinishedFirst, Announced
  <2>5. QED BY <2>1, <2>2, <2>3, <2>4
<1>5. QED BY <1>1, <1>3, <1>4

\* A sweep reports the completion of a job it did not know together with the
\* submission, or finds in its state that the submission went out.
LEMMA SweepOInv == OInv /\ Sweep => OInv'
<1> SUFFICES ASSUME OInv, Sweep PROVE OInv'
    OBVIOUS
<1> USE DEF OInv, envVars, history, bounds
<1>1. TypeOK'
    BY TypeStep DEF Next, Monitor
<1>2. /\ pc = "polled" /\ active' = {} /\ outbox = {}
      /\ UNCHANGED <<cups, dispatched, unheard>>
    BY DEF Sweep, TypeOK
<1>3. PICK completed \in ListJobs(Done) : TakeBaseline(completed) \/ Diff(completed)
    BY DEF Sweep
<1>4. completed \subseteq Done /\ \A j \in Done : j \in Jobs /\ cups[j] = "done"
    BY <1>3 DEF ListJobs, Done
<1>5. CASE TakeBaseline(completed)
  <2>1. /\ state'.submitted = active \cup completed /\ state'.completed = completed
        /\ outbox' = {}
        /\ baseline'.submitted = baseline.submitted \cup active \cup completed
      BY <1>5 DEF TakeBaseline, BaselineState
  <2>2. FinishedFirst'
      BY <1>2, <1>4, <2>1 DEF FinishedFirst, Announced
  <2>3. OrderInv'
      BY <1>2, <2>1 DEF OrderInv, InOrder, Excused
  <2>4. QED BY <1>1, <2>2, <2>3
<1>6. CASE Diff(completed)
  <2>1. /\ state'.submitted = active \cup completed /\ state'.completed = completed
        /\ baseline' = baseline
        /\ outbox' = NewEvents(completed)
      BY <1>6 DEF Diff, TypeOK
  <2>2. \A j : /\ <<Submitted, j>> \in outbox' <=> j \in (active \cup completed) \ state.submitted
               /\ <<Completed, j>> \in outbox' <=> j \in completed \ state.completed
      BY <2>1 DEF NewEvents, Submitted, Completed
  <2>3. FinishedFirst'
      BY <1>2, <1>4, <2>1, <2>2 DEF FinishedFirst, Announced
  <2>4. ASSUME NEW j \in Jobs, ~Excused(j)
        PROVE  InOrder(j)'
    <3>1. /\ dispatched[Completed][j] <= dispatched[Submitted][j]
          /\ j \in state.submitted \ state.completed =>
               dispatched[Completed][j] < dispatched[Submitted][j]
        BY <1>2, <2>4 DEF OrderInv, InOrder
    <3>2. j \in active => j \notin state.completed
        BY DEF FinishedFirst
    <3>3. <<Completed, j>> \in outbox' \/ j \in state'.submitted \ state'.completed =>
            j \in active \cup completed /\ j \notin state.completed
        BY <2>1, <2>2, <3>2
    <3>4. QED BY <1>2, <2>2, <3>1, <3>3 DEF InOrder
  <2>5. OrderInv'
      BY <1>2, <2>1, <2>4 DEF OrderInv, Excused
  <2>6. QED BY <1>1, <2>3, <2>5
<1>7. QED BY <1>3, <1>5, <1>6

\* A completion goes out when the submission of its job is no longer pending.
LEMMA EmitOInv == ASSUME NEW e \in Events \X Jobs, OInv, Emit(e) PROVE OInv'
<1> USE DEF OInv, envVars, history, bounds
<1>1. TypeOK'
    BY TypeStep DEF Next, Monitor
<1>2. PICK k \in Events, i \in Jobs : e = <<k, i>>
    OBVIOUS
<1>3. /\ e \in outbox /\ outbox' = outbox \ {e} /\ pc = "emit" /\ pc' # "polled"
      /\ UNCHANGED <<cups, active, state, baseline>>
      /\ \A f \in outbox \ {e} : Precedes(e, f)
    BY DEF Emit
<1>4. /\ dispatched' = IF Heard(k) THEN [dispatched EXCEPT ![k][i] = @ + 1] ELSE dispatched
      /\ unheard' = IF Heard(k) THEN unheard ELSE unheard \cup {<<k, i>>}
    BY <1>2 DEF Emit
<1>5. \A f \in Events, j \in Jobs :
        /\ dispatched[f][j] \in Nat
        /\ ~(f = k /\ j = i) => dispatched'[f][j] = dispatched[f][j]
        /\ f = k /\ j = i => dispatched'[f][j] = IF Heard(k) THEN dispatched[f][j] + 1
                                                            ELSE dispatched[f][j]
    BY <1>4 DEF TypeOK
<1>6. ASSUME NEW j \in Jobs, ~Excused(j)'
      PROVE  ~Excused(j) /\ (j = i /\ k = Submitted => Heard(k))
    BY <1>3, <1>4, <1>6 DEF Excused
<1>e. Completed \in Events /\ Submitted \in Events /\ Completed # Submitted
    BY DEF Events, Completed, Submitted
<1>7. \A j \in Jobs : Announced(Completed, j)' => Announced(Completed, j)
  <2> SUFFICES ASSUME NEW j \in Jobs, Announced(Completed, j)'
               PROVE  Announced(Completed, j)
      OBVIOUS
  <2>1. CASE Completed = k /\ j = i
      BY <2>1, <1>2, <1>3 DEF Announced
  <2>2. CASE ~(Completed = k /\ j = i)
      BY <2>2, <1>3, <1>5, <1>e DEF Announced
  <2>3. QED BY <2>1, <2>2
<1>8. FinishedFirst'
  <2>1. active = {}
      BY <1>3 DEF FinishedFirst, TypeOK
  <2>2. QED BY <1>3, <1>7, <2>1 DEF FinishedFirst
<1>9. ASSUME NEW j \in Jobs, InOrder(j), ~Excused(j)'
      PROVE  InOrder(j)'
  <2>1. CASE j # i
      BY <2>1, <1>2, <1>3, <1>5, <1>9, <1>e DEF InOrder
  <2>2. CASE j = i /\ k = Submitted
    <3>1. /\ dispatched'[Submitted][j] = dispatched[Submitted][j] + 1
          /\ dispatched'[Completed][j] = dispatched[Completed][j]
          /\ dispatched[Submitted][j] \in Nat /\ dispatched[Completed][j] \in Nat
        BY <2>2, <1>5, <1>6, <1>9, <1>e
    <3>2. QED BY <3>1, <1>9 DEF InOrder
  <2>3. CASE j = i /\ k = Completed
    <3>1. <<Submitted, j>> \notin outbox
      <4>1. <<Submitted, j>> \in outbox => Precedes(<<Completed, j>>, <<Submitted, j>>)
          BY <2>3, <1>2, <1>3, <1>e
      <4>2. ~Precedes(<<Completed, j>>, <<Submitted, j>>)
          BY DEF Precedes, Completed, Submitted
      <4>3. QED BY <4>1, <4>2
    <3>2. <<Completed, j>> \in outbox /\ <<Completed, j>> \notin outbox'
        BY <2>3, <1>2, <1>3
    <3>3. j \notin state.submitted \ state.completed
        BY <3>2 DEF FinishedFirst
    <3>4. dispatched[Completed][j] < dispatched[Submitted][j]
        BY <3>1, <3>2, <1>9 DEF InOrder
    <3>5. /\ dispatched'[Completed][j] <= dispatched[Completed][j] + 1
          /\ dispatched'[Completed][j] \in Nat
          /\ dispatched'[Submitted][j] = dispatched[Submitted][j]
          /\ dispatched[Submitted][j] \in Nat /\ dispatched[Completed][j] \in Nat
        BY <2>3, <1>5, <1>e
    <3>6. QED BY <1>3, <3>2, <3>3, <3>4, <3>5 DEF InOrder
  <2>4. QED BY <2>1, <2>2, <2>3, <1>e DEF Events, Submitted, Completed
<1>10. OrderInv'
    BY <1>6, <1>9 DEF OrderInv
<1>11. QED BY <1>1, <1>8, <1>10

\* The completion of a job is announced after its submission, unless a baseline adopted
\* the job or no endpoint wanted the submission when it was emitted: at every failure of
\* lpstat, every restart of the panel and every change of the registry.
THEOREM SubmittedFirst == Spec => []CompletedAfterSubmitted
<1>1. Init => OInv
  <2> SUFFICES ASSUME Init PROVE OInv
      OBVIOUS
  <2>1. TypeOK
      BY TypeInit
  <2>2. FinishedFirst
      BY DEF Init, FinishedFirst, Announced, FreshState, Events, Completed
  <2>3. OrderInv
      BY DEF Init, OrderInv, InOrder, FreshState, Events, Completed, Submitted
  <2>4. QED BY <2>1, <2>2, <2>3 DEF OInv
<1>2. OInv /\ [Next]_vars => OInv'
    BY QuietStepOInv, SweepOInv, EmitOInv DEF Next, Monitor
<1>3. OInv => CompletedAfterSubmitted
  <2> SUFFICES ASSUME OInv, NEW j \in Jobs,
                      dispatched[Completed][j] > dispatched[Submitted][j]
               PROVE  Excused(j)
      BY DEF CompletedAfterSubmitted, Excused, Completed, Submitted
  <2>1. dispatched[Completed][j] \in Nat /\ dispatched[Submitted][j] \in Nat
      BY DEF OInv, TypeOK, Events, Completed, Submitted
  <2>2. InOrder(j) \/ Excused(j)
      BY DEF OInv, OrderInv
  <2>3. ~InOrder(j)
      BY <2>1 DEF InOrder
  <2>4. QED BY <2>2, <2>3
<1>4. QED BY <1>1, <1>2, <1>3, PTL DEF Spec

=============================================================================
