--------------------------------- MODULE Station --------------------------------
(***************************************************************************)
(* Who starts and stops the station's systemd units: the function switches *)
(* of the System page (routes/system_routes.py, services/features.py), the *)
(* self-repair (services/repair.py, with the checks of services/health.py  *)
(* it acts on) and the restart buttons, all working through the cached     *)
(* unit states of services/system.py while units die and the panel itself  *)
(* is restarted.                                                           *)
(*                                                                         *)
(* The switch handler runs on the event loop; repair runs live in worker   *)
(* threads, so their steps interleave with the handler's.  A read of a     *)
(* unit's state is one step here; what two overlapping probes of one key   *)
(* can do to each other is TtlCache's subject.                             *)
(***************************************************************************)
EXTENDS FiniteSets, Integers

CONSTANTS
  Installed,     \* the units this host has
  Pick,          \* the scan-button handler scripts/install.sh chose
  Repairers,     \* the background sweep and every press of "Run self-repair"
  Background,    \* the background sweep, started when self_repair_enabled
  NoUnit,        \* scan_button_target's None
  CallsMayFail,  \* a systemctl or lpstat call may fail or run into its timeout
  MaxFaults,     \* bound: deaths, crashes, reboots, timeouts, manual restarts
  MaxToggles,    \* bound: saved changes of the function switches
  MaxDisruptions \* bound: both of them together

Functions == {"printers", "scans"}
Units == {"cups", "scanbd", "listen"}

\* health.SCAN_BUTTON_SERVICES
Handlers == {"scanbd", "listen"}

ASSUME StationAssumption ==
  /\ Installed \subseteq Units
  /\ Pick \in Handlers
  /\ Background \in Repairers
  /\ NoUnit \notin Units
  /\ CallsMayFail \in BOOLEAN
  /\ MaxFaults \in Nat /\ MaxToggles \in Nat /\ MaxDisruptions \in Nat

\* FEATURE_SERVICES: the function a unit belongs to.
Owner(u) == IF u = "cups" THEN "printers" ELSE "scans"

\* Mutant: of a function's units only the first is visited.
FirstUnitsOf(fs) == {u \in {"cups", "scanbd"} : Owner(u) \in fs}

UnitsOf(fs) == {u \in Units : Owner(u) \in fs}

\* The order in which apply_services visits units and scan_button_target
\* prefers handlers.
First(us) == IF "cups" \in us THEN "cups" ELSE IF "scanbd" \in us THEN "scanbd" ELSE "listen"

\* ServiceState: known is FALSE for the statuses "not-installed" and "unknown".
State == [known : BOOLEAN, active : BOOLEAN, enabled : BOOLEAN]
Unknown == [known |-> FALSE, active |-> FALSE, enabled |-> FALSE]

\* A cache entry, or none.
Slot == {{}} \cup {{s} : s \in State}

\* The checks whose repairs start or enable units, in the order of a report.
Checks == {"service", "cups", "scanbutton"}

\* Mutant: every check is gated by the scanning switch.
GatedByScanning(c) == "scans"

\* The function whose switch silences a check.
CheckOwner(c) == IF c = "scanbutton" THEN "scans" ELSE "printers"

VARIABLES
  feat,     \* features.json: which functions are on
  unit,     \* systemd: is a unit active, is it enabled on boot
  cached,   \* system._service_cache: no or one state per unit
  toggle,   \* save_features: units still to visit, and the step at the current one
  run,      \* every repairer's run
  faults,   \* how many faults happened
  toggles,  \* how many switches were saved
  \* history:
  excused,  \* functions whose last switch was disturbed (see OffMeansStopped)
  misread,  \* units a probe has failed on
  handled   \* handlers somebody chose to start or stop: a switch, a button

vars == <<feat, unit, cached, toggle, run, faults, toggles, excused, misread, handled>>

\* A repair run: the switches it has read, the checks it still evaluates, the
\* failed ones it still repairs, and the unit of the repair_service call it is
\* in, if any, with the state the call has read.
InService == {"service", "restart", "enable"}

Run ==
  {x \in [pc : {"idle", "printers", "scans", "checks", "fix"} \cup InService,
          on : SUBSET Functions, checking : SUBSET Checks, todo : SUBSET Checks,
          unit : Units \cup {NoUnit}, seen : State] :
     x.pc \in InService => x.unit # NoUnit}

IdleRun == [pc |-> "idle", on |-> {}, checking |-> {}, todo |-> {},
            unit |-> NoUnit, seen |-> Unknown]

IdleToggle == [work |-> {}, step |-> "idle"]

-----------------------------------------------------------------------------
(* systemd and its cached view *)

Probe(u) ==
  IF u \in Installed
  THEN [known |-> TRUE, active |-> unit[u].active, enabled |-> unit[u].enabled]
  ELSE Unknown

\* A probe is is-active and is-enabled.  If the first times out the state is unknown,
\* if only the second does the unit is known and looks disabled.
Misreadings(u) == {Unknown, [Probe(u) EXCEPT !.enabled = FALSE]}

\* service_state of the units us yields s: from the cache, or by a probe that
\* may time out; either way the cache holds it afterwards.
Reads(us, s) ==
  LET failed == {u \in us : cached[u] = {} /\ s[u] # Probe(u)}
  IN  /\ \A u \in us : \/ s[u] \in cached[u]
                       \/ cached[u] = {} /\ s[u] = Probe(u)
                       \/ cached[u] = {} /\ s[u] \in Misreadings(u) /\ CallsMayFail
      /\ faults + Cardinality(failed) <= MaxFaults
      /\ faults + toggles + Cardinality(failed) <= MaxDisruptions
      /\ faults' = faults + Cardinality(failed)
      /\ misread' = misread \cup failed
      /\ cached' = [u \in Units |-> IF u \in us THEN {s[u]} ELSE cached[u]]

\* The unit runs now; Conflicts= stops the other scan-button handler.
Up(u) ==
  [v \in Units |->
     IF v = u THEN [active |-> TRUE, enabled |-> unit[v].enabled]
     ELSE IF {u, v} = Handlers THEN [active |-> FALSE, enabled |-> unit[v].enabled]
     ELSE unit[v]]

SetActive(u, b) == [unit EXCEPT ![u] = [active |-> b, enabled |-> @.enabled]]

\* Mutant: the unit is not enabled by the verb.
EnableDoesNotStick(u, b) == unit

SetEnabled(u, b) == [unit EXCEPT ![u] = [active |-> @.active, enabled |-> b]]

\* The bound on faults and switches together leaves room for one more.
Room == faults + toggles < MaxDisruptions

Fault ==
  /\ faults < MaxFaults /\ Room
  /\ faults' = faults + 1

\* system._act: the verb leaves the units as us, and u's entry is dropped.
Act(u, us) ==
  /\ unit' = IF u \in Installed THEN us ELSE unit
  /\ cached' = [cached EXCEPT ![u] = {}]

-----------------------------------------------------------------------------
(* The function switches *)

\* A run in progress that has read f as on and may still act on it.
ActsOn(r, f) == run[r].pc # "idle" /\ f \in run[r].on

\* POST /features: the new switches are saved; a function whose switch changed
\* has its units visited.  A repair run that still works from the old switches
\* disturbs it.
SaveFeatures(on) ==
  LET changed == {f \in Functions : feat[f] # (f \in on)}
  IN  /\ toggle.step = "idle"
      /\ toggles < MaxToggles /\ Room
      /\ changed # {}
      /\ feat' = [f \in Functions |-> f \in on]
      /\ toggle' = [work |-> UnitsOf(changed), step |-> "read"]
      /\ toggles' = toggles + 1
      /\ excused' = (excused \ changed)
                    \cup {f \in changed \ on : \E r \in Repairers : ActsOn(r, f)}
      /\ handled' = IF "scans" \in changed THEN Handlers ELSE handled
      /\ UNCHANGED <<unit, cached, run, faults, misread>>

\* The unit apply_services is at.
Current == First(toggle.work)

\* Mutant: the handler goes on reading after the last unit.
NextUnitKeepsReading == [work |-> toggle.work \ {Current}, step |-> "read"]

\* The loop of apply_services moves on to the next unit.
NextUnit ==
  IF toggle.work = {Current} THEN IdleToggle
  ELSE [work |-> toggle.work \ {Current}, step |-> "read"]

\* apply_services skips a unit that is not there, or whose state is unknown.
VisitUnit ==
  /\ toggle.step = "read"
  /\ \E s \in [{Current} -> State] :
       /\ Reads({Current}, s)
       /\ IF s[Current].known
          THEN toggle' = [toggle EXCEPT !.step = "boot"] /\ UNCHANGED excused
          ELSE /\ toggle' = NextUnit
               /\ excused' = excused \cup {Owner(u) : u \in {Current} \cap Installed}
  /\ UNCHANGED <<feat, unit, run, toggles, handled>>

\* enable_service or disable_service: the switches cannot have changed since
\* they were saved, the handler has not returned to the event loop.
SwitchBoot ==
  /\ toggle.step = "boot"
  /\ Act(Current, SetEnabled(Current, feat[Owner(Current)]))
  /\ toggle' = [toggle EXCEPT !.step = "now"]
  /\ UNCHANGED <<feat, run, faults, toggles, excused, misread, handled>>

\* start_service or stop_service.
SwitchNow ==
  /\ toggle.step = "now"
  /\ Act(Current, IF feat[Owner(Current)] THEN Up(Current) ELSE SetActive(Current, FALSE))
  /\ toggle' = NextUnit
  /\ UNCHANGED <<feat, run, faults, toggles, excused, misread, handled>>

\* Either verb fails and changes nothing; the loop goes on all the same.
SwitchFails ==
  /\ toggle.step \in {"boot", "now"}
  /\ CallsMayFail /\ Fault
  /\ Act(Current, unit)
  /\ toggle' = IF toggle.step = "boot" THEN [toggle EXCEPT !.step = "now"] ELSE NextUnit
  /\ excused' = excused \cup {Owner(Current)}
  /\ UNCHANGED <<feat, run, toggles, misread, handled>>

Toggle == VisitUnit \/ SwitchBoot \/ SwitchNow \/ SwitchFails

-----------------------------------------------------------------------------
(* Self-repair *)

\* The event loop is busy while the switch handler runs: no request and no
\* background sweep gets past an await.
LoopFree == toggle.step = "idle"

\* Run r goes on as new.
Goes(r, new) == run' = [run EXCEPT ![r] = new]

\* run_checks begins and reads the two switches, one after the other.
BeginRun(r) ==
  /\ run[r].pc = "idle"
  /\ LoopFree
  /\ Goes(r, [run[r] EXCEPT !.pc = "printers"])
  /\ UNCHANGED <<feat, unit, cached, toggle, faults, toggles, excused, misread, handled>>

ReadSwitch(r) ==
  /\ run[r].pc \in Functions
  /\ LET f == run[r].pc
         on == IF feat[f] THEN run[r].on \cup {f} ELSE run[r].on
         checks == {c \in Checks : CheckOwner(c) \in on}
     IN  IF f = "printers"
         THEN Goes(r, [run[r] EXCEPT !.on = on, !.pc = "scans"])
         ELSE Goes(r, [run[r] EXCEPT !.on = on, !.pc = "checks", !.checking = checks])
  /\ UNCHANGED <<feat, unit, cached, toggle, faults, toggles, excused, misread, handled>>

\* Mutant: the handlers are told apart by nothing but their order.
TargetIsFirst(s) ==
  LET there == {u \in Handlers : s[u].known}
  IN  IF there = {} THEN NoUnit ELSE First(there)

\* Mutant: a handler that is merely enabled is not looked for.
TargetIsActive(s) ==
  LET active == {u \in Handlers : s[u].active}
  IN  IF active = {} THEN NoUnit ELSE First(active)

\* scan_button_target: the active handler, else the enabled one, else the only
\* one there is.
Target(s) ==
  LET there == {u \in Handlers : s[u].known}
      active == {u \in there : s[u].active}
      enabled == {u \in there : s[u].enabled}
  IN  IF active # {} THEN First(active)
      ELSE IF enabled # {} THEN First(enabled)
      ELSE IF Cardinality(there) = 1 THEN First(there)
      ELSE NoUnit

\* check_scan_button finds something that repair can act on.
HandlerMissing(s) ==
  LET there == {u \in Handlers : s[u].known}
      active == {u \in there : s[u].active}
  IN  IF active # {} THEN ~s[First(active)].enabled
      ELSE Target(s) # NoUnit

\* check_cups runs lpstat -r, which answers "not running" or, in a timeout,
\* not at all.
SchedulerSilent ==
  /\ "cups" \in Installed
  /\ \/ ~unit["cups"].active /\ UNCHANGED <<faults, misread>>
     \/ /\ unit["cups"].active /\ CallsMayFail /\ faults < MaxFaults /\ Room
        /\ faults' = faults + 1
        /\ misread' = misread \cup {"cups"}
  /\ UNCHANGED cached

SchedulerAnswers ==
  /\ "cups" \in Installed => unit["cups"].active
  /\ UNCHANGED <<faults, misread, cached>>

\* The check c of the states s ends in a repairable warning or failure.
Repairable(c, s) ==
  CASE c = "service" -> s["cups"].known /\ (~s["cups"].active \/ ~s["cups"].enabled)
    [] c = "scanbutton" -> HandlerMissing(s)

\* One of the concurrent checks of run_checks ends.
Check(r, c) ==
  /\ run[r].pc = "checks"
  /\ c \in run[r].checking
  /\ \E bad \in BOOLEAN :
       /\ IF c = "cups"
          THEN IF bad THEN SchedulerSilent ELSE SchedulerAnswers
          ELSE LET us == IF c = "service" THEN {"cups"} ELSE Handlers
               IN  \E s \in [us -> State] : Reads(us, s) /\ bad = Repairable(c, s)
       /\ Goes(r, [run[r] EXCEPT !.checking = @ \ {c},
                                 !.todo = IF bad THEN @ \cup {c} ELSE @])
  /\ UNCHANGED <<feat, unit, toggle, toggles, excused, handled>>

\* The report is complete.  The background sweep awaits it on the event loop
\* and hands it to a second thread; the button goes straight on.
ReportReady(r) ==
  /\ run[r].pc = "checks"
  /\ run[r].checking = {}
  /\ r = Background => LoopFree
  /\ Goes(r, IF run[r].todo = {} THEN IdleRun ELSE [run[r] EXCEPT !.pc = "fix"])
  /\ UNCHANGED <<feat, unit, cached, toggle, faults, toggles, excused, misread, handled>>

\* The next entry of the report is c.
IsNext(r, c) ==
  /\ run[r].pc = "fix"
  /\ c \in run[r].todo
  /\ c = "cups" => "service" \notin run[r].todo
  /\ c = "scanbutton" => run[r].todo = {c}

\* run[r] after its work on one entry of the report.
Resume(r) ==
  [run[r] EXCEPT !.pc = "fix", !.unit = NoUnit, !.seen = Unknown]

\* _dispatch "service:cups": repair_service("cups") begins.
DispatchService(r) ==
  /\ IsNext(r, "service")
  /\ Goes(r, [run[r] EXCEPT !.pc = "service", !.unit = "cups", !.todo = @ \ {"service"}])
  /\ UNCHANGED <<feat, unit, cached, toggle, faults, toggles, excused, misread, handled>>

\* repair_cups restarts the scheduler without looking.
RepairCups(r) ==
  /\ IsNext(r, "cups")
  /\ Act("cups", Up("cups"))
  /\ Goes(r, [run[r] EXCEPT !.todo = @ \ {"cups"}])
  /\ UNCHANGED <<feat, toggle, faults, toggles, excused, misread, handled>>

\* repair_scan_button asks again for the handler to repair.
DispatchScanButton(r) ==
  /\ IsNext(r, "scanbutton")
  /\ \E s \in [Handlers -> State] :
       /\ Reads(Handlers, s)
       /\ IF Target(s) = NoUnit
          THEN Goes(r, [run[r] EXCEPT !.todo = {}])
          ELSE Goes(r, [run[r] EXCEPT !.todo = {}, !.pc = "service", !.unit = Target(s)])
  /\ UNCHANGED <<feat, unit, toggle, toggles, excused, handled>>

\* repair_service reads the state its two verbs depend on.
RepairService(r) ==
  LET u == run[r].unit
  IN  /\ run[r].pc = "service"
      /\ \E s \in [{u} -> State] :
           /\ Reads({u}, s)
           /\ IF ~s[u].known \/ (s[u].active /\ s[u].enabled) THEN Goes(r, Resume(r))
              ELSE IF s[u].active THEN Goes(r, [run[r] EXCEPT !.pc = "enable", !.seen = s[u]])
              ELSE Goes(r, [run[r] EXCEPT !.pc = "restart", !.seen = s[u]])
      /\ UNCHANGED <<feat, unit, toggle, toggles, excused, handled>>

\* After its restart a unit is also enabled, if it was not.
AfterRestart(r) ==
  IF run[r].seen.enabled THEN Resume(r) ELSE [run[r] EXCEPT !.pc = "enable"]

RestartUnit(r) ==
  LET u == run[r].unit
  IN  /\ run[r].pc = "restart"
      /\ Act(u, Up(u))
      /\ Goes(r, AfterRestart(r))
      /\ UNCHANGED <<feat, toggle, faults, toggles, excused, misread, handled>>

EnableUnit(r) ==
  LET u == run[r].unit
  IN  /\ run[r].pc = "enable"
      /\ Act(u, SetEnabled(u, TRUE))
      /\ Goes(r, Resume(r))
      /\ UNCHANGED <<feat, toggle, faults, toggles, excused, misread, handled>>

\* A verb of the repair fails and changes nothing; the run goes on.
RepairFails(r) ==
  /\ CallsMayFail /\ Fault
  /\ \/ /\ IsNext(r, "cups")
        /\ Act("cups", unit)
        /\ Goes(r, [run[r] EXCEPT !.todo = @ \ {"cups"}])
     \/ /\ run[r].pc = "restart"
        /\ Act(run[r].unit, unit)
        /\ Goes(r, AfterRestart(r))
     \/ /\ run[r].pc = "enable"
        /\ Act(run[r].unit, unit)
        /\ Goes(r, Resume(r))
  /\ UNCHANGED <<feat, toggle, toggles, excused, misread, handled>>

\* Every entry is done.  (run then reads the states once more for its answer:
\* that is a Look.)
EndRun(r) ==
  /\ run[r].pc = "fix"
  /\ run[r].todo = {}
  /\ Goes(r, IdleRun)
  /\ UNCHANGED <<feat, unit, cached, toggle, faults, toggles, excused, misread, handled>>

Repair(r) ==
  \/ BeginRun(r) \/ ReadSwitch(r) \/ ReportReady(r) \/ EndRun(r)
  \/ \E c \in Checks : Check(r, c)
  \/ DispatchService(r) \/ RepairCups(r) \/ DispatchScanButton(r)
  \/ RepairService(r) \/ RestartUnit(r) \/ EnableUnit(r) \/ RepairFails(r)

-----------------------------------------------------------------------------
(* Everything else that happens to the station *)

\* A page, the dashboard's poll or a check looks at a unit.
Look(u) ==
  /\ cached[u] = {}
  /\ \E s \in [{u} -> State] : Reads({u}, s)
  /\ UNCHANGED <<feat, unit, toggle, run, toggles, excused, handled>>

\* The entry of u outlives service_cache_ttl.
Expire(u) ==
  /\ cached[u] # {}
  /\ cached' = [cached EXCEPT ![u] = {}]
  /\ UNCHANGED <<feat, unit, toggle, run, faults, toggles, excused, misread, handled>>

Die(u) ==
  /\ Fault
  /\ unit[u].active
  /\ unit' = SetActive(u, FALSE)
  /\ UNCHANGED <<feat, cached, toggle, run, toggles, excused, misread, handled>>

\* POST /services/{name}/restart, whatever the function switches say.
RestartButton(u) ==
  /\ Fault
  /\ u \in Installed
  /\ Act(u, Up(u))
  /\ excused' = excused \cup {Owner(u)}
  /\ handled' = handled \cup ({u} \cap Handlers)
  /\ UNCHANGED <<feat, toggle, run, toggles, misread>>

\* The panel's process ends and systemd starts it again: what it was doing is
\* forgotten, and nothing resumes it.
PanelRestarts ==
  /\ run' = [r \in Repairers |-> IdleRun]
  /\ toggle' = IdleToggle
  /\ cached' = [u \in Units |-> {}]
  /\ excused' = excused \cup {Owner(u) : u \in toggle.work}
  /\ UNCHANGED <<feat, toggles, misread, handled>>

Crash ==
  /\ Fault
  /\ PanelRestarts
  /\ UNCHANGED unit

\* Enabled units start; of two enabled handlers one wins.
Reboot ==
  /\ Fault
  /\ PanelRestarts
  /\ \E up \in SUBSET {u \in Units : unit[u].enabled} :
       /\ ~(Handlers \subseteq up)
       /\ \A u \in Units : unit[u].enabled => u \in up \/ (u \in Handlers /\ up \cap Handlers # {})
       /\ unit' = [u \in Units |-> [active |-> u \in up, enabled |-> unit[u].enabled]]

-----------------------------------------------------------------------------
Init ==
  /\ feat = [f \in Functions |-> TRUE]
  /\ unit = [u \in Units |->
       LET up == u \in Installed /\ (u \in Handlers => u = Pick)
       IN  [active |-> up, enabled |-> up]]
  /\ cached = [u \in Units |-> {}]
  /\ toggle = IdleToggle
  /\ run = [r \in Repairers |-> IdleRun]
  /\ faults = 0 /\ toggles = 0
  /\ excused = {} /\ misread = {} /\ handled = {}

Next ==
  \/ \E on \in SUBSET Functions : SaveFeatures(on)
  \/ Toggle
  \/ \E r \in Repairers : Repair(r)
  \/ \E u \in Units : Look(u) \/ Expire(u) \/ Die(u) \/ RestartButton(u)
  \/ Crash
  \/ Reboot

\* The switch handler and the background sweep keep going, and entries expire;
\* nobody has to press a button or look at a page.
Fairness ==
  /\ WF_vars(Toggle)
  /\ WF_vars(Repair(Background))
  /\ \A u \in Units : WF_vars(Expire(u))

Spec == Init /\ [][Next]_vars

FairSpec == Spec /\ Fairness

-----------------------------------------------------------------------------
(* Properties *)

\* The variables have their types, and the handler's step says whether there
\* is a unit left to visit.
TypeOK ==
  /\ feat \in [Functions -> BOOLEAN]
  /\ unit \in [Units -> [active : BOOLEAN, enabled : BOOLEAN]]
  /\ cached \in [Units -> Slot]
  /\ toggle \in [work : SUBSET Units, step : {"idle", "read", "boot", "now"}]
  /\ toggle.step = "idle" <=> toggle.work = {}
  /\ run \in [Repairers -> Run]
  /\ faults \in 0 .. MaxFaults /\ toggles \in 0 .. MaxToggles
  /\ excused \subseteq Functions
  /\ misread \subseteq Units /\ handled \subseteq Handlers

\* f is switched off, and the handler is done with it.
IsOff(f) == ~feat[f] /\ toggle.step = "idle"

\* "A function switched off has its units stopped and disabled on boot", and
\* they stay so, whatever dies, reboots and is repaired, unless the switch was
\* disturbed: by a repair run that had read the old switch, by a restart of the
\* panel in the middle, by a unit whose state could not be read or whose verb
\* failed, or by somebody's restart button.
OffMeansStopped ==
  \A f \in Functions \ excused : IsOff(f) =>
    \A u \in Units : Owner(u) = f => ~unit[u].active /\ ~unit[u].enabled

\* The same without the excuses.
OffStaysStopped ==
  \A f \in Functions : IsOff(f) =>
    \A u \in Units : Owner(u) = f => ~unit[u].active /\ ~unit[u].enabled

\* "we check that one handler is up rather than flagging the intentionally-idle
\* one": as long as nobody switches scanning or presses a restart button,
\* self-repair keeps its hands off the handler the installer left idle, unless
\* a probe of the other one has failed.
IdleHandlerLeftAlone ==
  \A u \in Handlers \ {Pick} :
    Pick \in Installed \ misread /\ u \notin handled => ~unit[u].active /\ ~unit[u].enabled

\* The background sweep brings CUPS back whenever printing is on.
PrintingRepaired ==
  feat["printers"] /\ ~unit["cups"].active ~> unit["cups"].active \/ ~feat["printers"]

\* ... and a scan-button handler whenever scanning is on and there is one that
\* is meant to run.
HandlerUp == \E u \in Handlers : unit[u].active
HandlerMeant == feat["scans"] /\ \E u \in Handlers : unit[u].enabled
ScanButtonRepaired == HandlerMeant /\ ~HandlerUp ~> HandlerUp \/ ~HandlerMeant

\* Once nothing new breaks and nobody switches functions, repair comes to rest:
\* no two repairs, or a repair and the conflict between the two handlers, undo
\* each other forever.
RepairSettles ==
  <>[][\A r \in Repairers : ~RepairCups(r) /\ ~RestartUnit(r) /\ ~EnableUnit(r)]_vars

=============================================================================
