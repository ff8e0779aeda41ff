------------------------------- MODULE JobMonitor -------------------------------
(***************************************************************************)
(* The print-job monitor of app/services/jobmon.py.  cupsd owns the jobs;  *)
(* the monitor polls `lpstat` on an interval, once for the active and once *)
(* for the completed jobs, diffs the two lists against what it has already *)
(* reported and emits print.submitted / print.completed webhooks.          *)
(*                                                                         *)
(* The two polls are separate calls on worker threads, so cupsd moves      *)
(* between them; the diff and the state update happen in one step of the   *)
(* event loop; the events it returns are then emitted one after the other, *)
(* each against the endpoints registered at that moment.  The panel may be *)
(* restarted between any two of these steps and loses all of this state.   *)
(***************************************************************************)
EXTENDS Naturals

CONSTANTS
  NumJobs,       \* CUPS numbers its jobs 1, 2, ..., NumJobs
  PollMayFail,   \* whether lpstat may fail or time out (cupsd restarting)
  MaxRestarts,   \* bound: restarts of the panel
  MaxEdits       \* bound: changes of the registry of endpoints

ASSUME ConstantsAssumption ==
  /\ NumJobs \in Nat
  /\ PollMayFail \in BOOLEAN
  /\ MaxRestarts \in Nat
  /\ MaxEdits \in Nat

VARIABLES
  cups,        \* status of every job at the print server
  wanted,      \* the print events that some enabled endpoint wants
  pc,          \* where the monitor's loop stands
  active,      \* result of the first poll of this sweep
  state,       \* jobmon.State: what has already been reported
  outbox,      \* events of the last diff that are still to be emitted
  dispatched,  \* history: how often an event was handed to the delivery pool
  unheard,     \* history: the events that were emitted when no endpoint wanted them
  baseline,    \* history: the jobs the baseline sweeps adopted
  old,         \* history: jobs already finished when the monitor (re)started
  restarts,    \* bound counters
  edits

vars == <<cups, wanted, pc, active, state, outbox, dispatched, unheard, baseline,
          old, restarts, edits>>
envVars == <<cups, wanted>>
history == <<dispatched, unheard, baseline, old>>
bounds  == <<restarts, edits>>

Jobs == 1 .. NumJobs
Events == {"print.submitted", "print.completed"}
Active == {j \in Jobs : cups[j] = "active"}
Done   == {j \in Jobs : cups[j] = "done"}

\* The empty State: nothing reported and no baseline taken yet.
FreshState == [submitted |-> {}, completed |-> {}, started |-> FALSE]

\* cups.list_jobs: the listing of the jobs in S; a command that fails or times
\* out is an empty listing, not an error.
ListJobs(S) == {S} \cup {T \in {{}} : PollMayFail}

-----------------------------------------------------------------------------
(* cupsd and the operator *)

\* The print server accepts its next job.
Submit(j) ==
  /\ cups[j] = "none"
  /\ \A i \in 1 .. j - 1 : cups[i] # "none"
  /\ cups' = [cups EXCEPT ![j] = "active"]
  /\ UNCHANGED <<wanted, pc, active, state, outbox, history, bounds>>

\* A job leaves the queue: printed, cancelled or aborted.
Finish(j) ==
  /\ cups[j] = "active"
  /\ cups' = [cups EXCEPT ![j] = "done"]
  /\ UNCHANGED <<wanted, pc, active, state, outbox, history, bounds>>

\* cupsd drops a finished job from its history.
AgeOut(j) ==
  /\ cups[j] = "done"
  /\ cups' = [cups EXCEPT ![j] = "gone"]
  /\ UNCHANGED <<wanted, pc, active, state, outbox, history, bounds>>

\* The operator adds or enables an endpoint, or deletes or disables one: more events
\* are wanted, or fewer.
EditEndpoints ==
  /\ edits < MaxEdits
  /\ edits' = edits + 1
  /\ wanted' \in SUBSET Events \ {wanted}
  /\ wanted \subseteq wanted' \/ wanted' \subseteq wanted
  /\ UNCHANGED <<cups, pc, active, state, outbox, history, restarts>>

\* Mutant: events that were pending survive the restart.
RestartKeepsOutbox ==
  /\ restarts < MaxRestarts
  /\ restarts' = restarts + 1
  /\ pc' = "idle"
  /\ active' = {}
  /\ state' = FreshState
  /\ old' = old \cup Done
  /\ UNCHANGED <<envVars, outbox, dispatched, unheard, baseline, edits>>

\* The panel's process ends and starts again.
Restart ==
  /\ restarts < MaxRestarts
  /\ restarts' = restarts + 1
  /\ pc' = "idle"
  /\ active' = {}
  /\ state' = FreshState
  /\ outbox' = {}
  /\ old' = old \cup Done
  /\ UNCHANGED <<envVars, dispatched, unheard, baseline, edits>>

-----------------------------------------------------------------------------
(* background_loop and sweep *)

\* Mutant: the loop asks for one of the events only.
HasSubscriberOfSubmitted == "print.submitted" \in wanted

\* webhooks.has_subscriber(PRINT_EVENTS): some enabled endpoint wants one of them.
HasSubscriber == wanted # {}

\* Nobody wants either event: the loop drops its baseline.
DropBaseline ==
  /\ pc = "idle"
  /\ ~HasSubscriber
  /\ state' = FreshState
  /\ old' = old \cup Done
  /\ UNCHANGED <<envVars, pc, active, outbox, dispatched, unheard, baseline, bounds>>

\* First poll of a sweep: `lpstat -o`, the active jobs.
PollActive ==
  /\ pc = "idle"
  /\ HasSubscriber
  /\ active' \in ListJobs(Active)
  /\ pc' = "polled"
  /\ UNCHANGED <<envVars, state, outbox, history, bounds>>

\* Mutant: a baseline that adopts too little.
BaselineWithoutHistory(completed) ==
  [submitted |-> active, completed |-> {}, started |-> TRUE]

\* The state after the first sweep: every listed job counts as reported.
BaselineState(completed) ==
  [submitted |-> active \cup completed, completed |-> completed, started |-> TRUE]

TakeBaseline(completed) ==
  /\ ~state.started
  /\ state' = BaselineState(completed)
  /\ baseline' = [submitted |-> baseline.submitted \cup active \cup completed,
                  completed |-> baseline.completed \cup completed]
  /\ outbox' = {}
  /\ pc' = "idle"

\* Mutant: a job so quick that only the second listing has it is not submitted.
NewEventsOfActive(completed) ==
  ({"print.submitted"} \X (active \ state.submitted))
    \cup ({"print.completed"} \X (completed \ state.completed))

\* What a later sweep reports: listed jobs, and completed ones, it has not yet.
NewEvents(completed) ==
  ({"print.submitted"} \X ((active \cup completed) \ state.submitted))
    \cup ({"print.completed"} \X (completed \ state.completed))

\* A later sweep reports what is new and forgets the jobs no longer listed.
Diff(completed) ==
  /\ state.started
  /\ outbox' = NewEvents(completed)
  /\ LET allIds == active \cup completed
     IN  state' = [state EXCEPT !.submitted = (@ \cup allIds) \cap allIds,
                                !.completed = (@ \cup completed) \cap completed]
  /\ pc' = IF outbox' = {} THEN "idle" ELSE "emit"
  /\ UNCHANGED baseline

\* Second poll, `lpstat -W completed -o`, and the diff against the state.
Sweep ==
  /\ pc = "polled"
  /\ \E completed \in ListJobs(Done) : TakeBaseline(completed) \/ Diff(completed)
  /\ active' = {}
  /\ UNCHANGED <<envVars, dispatched, unheard, old, bounds>>

\* Events are emitted submissions first, each kind in job-number order.
Precedes(e, f) ==
  IF e[1] = f[1] THEN e[2] < f[2] ELSE e[1] = "print.submitted"

\* Webhook.wants: some endpoint that is enabled now wants this very event.
Heard(key) == key \in wanted

\* webhooks.emit: the endpoints that want the event now get it.  The event counts as
\* reported whether or not there is one.
Emit(e) ==
  /\ pc = "emit"
  /\ e \in outbox
  /\ \A f \in outbox \ {e} : Precedes(e, f)
  /\ outbox' = outbox \ {e}
  /\ pc' = IF outbox = {e} THEN "idle" ELSE "emit"
  /\ dispatched' = IF Heard(e[1])
                   THEN [dispatched EXCEPT ![e[1]][e[2]] = @ + 1]
                   ELSE dispatched
  /\ unheard' = IF Heard(e[1]) THEN unheard ELSE unheard \cup {e}
  /\ UNCHANGED <<envVars, active, state, baseline, old, bounds>>

-----------------------------------------------------------------------------
\* The monitor starts on a box that may already have a job history.
Init ==
  /\ cups \in [Jobs -> {"none", "active", "done"}]
  /\ \A i, j \in Jobs : i < j /\ cups[i] = "none" => cups[j] = "none"
  /\ wanted \in SUBSET Events
  /\ pc = "idle"
  /\ active = {}
  /\ state = FreshState
  /\ outbox = {}
  /\ dispatched = [e \in Events |-> [j \in Jobs |-> 0]]
  /\ unheard = {}
  /\ baseline = [submitted |-> {}, completed |-> {}]
  /\ old = Done
  /\ restarts = 0
  /\ edits = 0

CupsStep == \E j \in Jobs : Submit(j) \/ Finish(j) \/ AgeOut(j)

Monitor ==
  \/ DropBaseline
  \/ PollActive
  \/ Sweep
  \/ \E e \in Events \X Jobs : Emit(e)

Next == CupsStep \/ EditEndpoints \/ Restart \/ Monitor

\* The loop catches every exception and sleeps a bounded time, so it always
\* takes its next step; nothing obliges cupsd, the operator or a restart.
Spec == Init /\ [][Next]_vars /\ WF_vars(Monitor)

-----------------------------------------------------------------------------
(* Properties *)

\* The variables have their types, and events are pending only while emitting.
TypeOK ==
  /\ cups \in [Jobs -> {"none", "active", "done", "gone"}]
  /\ wanted \in SUBSET Events
  /\ pc \in {"idle", "polled", "emit"}
  /\ active \in SUBSET Jobs
  /\ state \in [submitted : SUBSET Jobs, completed : SUBSET Jobs, started : BOOLEAN]
  /\ outbox \in SUBSET (Events \X Jobs)
  /\ dispatched \in [Events -> [Jobs -> Nat]]
  /\ unheard \in SUBSET (Events \X Jobs)
  /\ baseline \in [submitted : SUBSET Jobs, completed : SUBSET Jobs]
  /\ old \in SUBSET Jobs
  /\ restarts \in Nat
  /\ edits \in Nat
  /\ pc # "emit" => outbox = {}

\* "each job fires each event at most once" (jobmon.State): across restarts of
\* the panel and changes of the registry no event of a job goes out twice.
AtMostOnce ==
  \A e \in Events, j \in Jobs : dispatched[e][j] <= 1

\* "a restart never replays the existing job history" (module docstring): a job
\* that was already finished when the monitor started, or while no endpoint wanted a
\* print event, is not announced later.  Events the running sweep had already
\* computed when the last endpoint vanished are not a replay: they are dropped.
NoReplay ==
  [][\A e \in Events, j \in old : dispatched'[e][j] = dispatched[e][j]]_vars

\* A completion is announced only for a job whose submission was announced first,
\* unless a baseline adopted the job or no endpoint wanted submissions when its turn
\* came: emit asks for each event who wants it, and the loop polls for endpoints that
\* want completions only.  Polls that fail, restarts of the panel and changes of the
\* registry alone do not make the submission go missing.
CompletedAfterSubmitted ==
  \A j \in Jobs :
    dispatched["print.completed"][j] > dispatched["print.submitted"][j]
    => j \in baseline.submitted \/ <<"print.submitted", j>> \in unheard

\* As long as some endpoint wants either print event, every job cupsd lists is, after a
\* while, announced as submitted, adopted by a baseline or aged out of the history, or
\* its turn came when no endpoint wanted submissions.
EverySubmissionReported ==
  \A j \in Jobs :
    cups[j] \in {"active", "done"} ~>
      \/ dispatched["print.submitted"][j] > 0
      \/ j \in baseline.submitted
      \/ cups[j] = "gone"
      \/ <<"print.submitted", j>> \in unheard
      \/ wanted = {}

\* As long as some endpoint wants either print event, every job that finishes is, after
\* a while, announced as completed, unless a baseline found it finished, it ages out
\* first or no endpoint wanted completions when its turn came.
EveryCompletionReported ==
  \A j \in Jobs :
    cups[j] = "done" ~>
      \/ dispatched["print.completed"][j] > 0
      \/ j \in baseline.completed
      \/ cups[j] = "gone"
      \/ <<"print.completed", j>> \in unheard
      \/ wanted = {}

=============================================================================
