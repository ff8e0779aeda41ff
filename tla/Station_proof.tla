----------------------------- MODULE Station_proof ------------------------------
(***************************************************************************)
(* Proofs about Station for every host, every set of concurrent repair     *)
(* runs and any number of faults and switches: the variables keep their    *)
(* types, a function that was switched off undisturbed stays off, and the  *)
(* idle one of the two scan-button handlers is left alone.                 *)
(***************************************************************************)
EXTENDS Station, FiniteSetTheorems, TLAPS

UnitState == [active : BOOLEAN, enabled : BOOLEAN]
UnitStates == [Units -> UnitState]

-----------------------------------------------------------------------------
(* The operators of the model *)

\* The first of some units is one of them.
LEMMA FirstIn == ASSUME NEW us \in SUBSET Units, us # {} PROVE First(us) \in us
BY DEF First, Units

\* The first of any set is a unit.
LEMMA FirstUnit == ASSUME NEW us PROVE First(us) \in Units
BY DEF First, Units

\* The repair target is a handler, if there is one.
LEMMA TargetHandler ==
  ASSUME NEW s \in [Handlers -> State], Target(s) # NoUnit
  PROVE  Target(s) \in Units /\ Owner(Target(s)) = "scans"
<1>1. ASSUME NEW us \in SUBSET Handlers
      PROVE  First(us) \in Units /\ Owner(First(us)) = "scans"
    BY DEF First, Units, Handlers, Owner
<1>2. QED BY <1>1 DEF Target

\* There are finitely many units.
LEMMA UnitsFinite == IsFiniteSet(Units)
<1>1. IsFiniteSet({"cups"})
    BY FS_Singleton
<1>2. IsFiniteSet({"cups"} \cup {"scanbd"})
    BY <1>1, FS_AddElement
<1>3. IsFiniteSet(({"cups"} \cup {"scanbd"}) \cup {"listen"})
    BY <1>2, FS_AddElement
<1>4. Units = ({"cups"} \cup {"scanbd"}) \cup {"listen"}
    BY DEF Units
<1>5. QED BY <1>3, <1>4

\* Reading unit states keeps the cache, the faults and the history in range.
LEMMA ReadsType ==
  ASSUME TypeOK, NEW us \in SUBSET Units, NEW s \in [us -> State], Reads(us, s)
  PROVE  /\ cached' \in [Units -> Slot]
         /\ faults' \in 0 .. MaxFaults
         /\ misread' \in SUBSET Units
<1> DEFINE failed == {u \in us : cached[u] = {} /\ s[u] # Probe(u)}
<1>1. faults' = faults + Cardinality(failed) /\ faults + Cardinality(failed) <= MaxFaults
      /\ misread' = misread \cup failed
    BY DEF Reads
<1>2. IsFiniteSet(failed) /\ failed \subseteq Units
    BY UnitsFinite, FS_Subset
<1>3. Cardinality(failed) \in Nat
    BY <1>2, FS_CardinalityType
<1>4. faults' \in 0 .. MaxFaults /\ misread' \in SUBSET Units
  <2> HIDE DEF failed
  <2>1. QED BY <1>1, <1>2, <1>3, StationAssumption DEF TypeOK
<1>5. cached' \in [Units -> Slot]
  <2>1. cached' = [u \in Units |-> IF u \in us THEN {s[u]} ELSE cached[u]]
      BY DEF Reads
  <2>2. \A u \in us : {s[u]} \in Slot
      BY DEF Slot
  <2>3. QED BY <2>1, <2>2 DEF TypeOK
<1>6. QED BY <1>4, <1>5

\* The effects of the verbs on the units are unit states.
LEMMA EffectType ==
  ASSUME TypeOK, NEW u \in Units, NEW b \in BOOLEAN
  PROVE  Up(u) \in UnitStates /\ SetActive(u, b) \in UnitStates /\ SetEnabled(u, b) \in UnitStates
<1>1. \A v \in Units : unit[v].active \in BOOLEAN /\ unit[v].enabled \in BOOLEAN /\ unit[v] \in UnitState
    BY DEF TypeOK, UnitState
<1>2. Up(u) \in UnitStates
    BY <1>1 DEF Up, UnitStates, UnitState
<1>3. unit \in UnitStates
    BY DEF TypeOK, UnitStates, UnitState
<1>4. SetActive(u, b) \in UnitStates
    BY <1>1, <1>3 DEF SetActive, UnitStates, UnitState
<1>5. SetEnabled(u, b) \in UnitStates
    BY <1>1, <1>3 DEF SetEnabled, UnitStates, UnitState
<1>6. QED BY <1>2, <1>4, <1>5

\* A verb keeps units and cache in their types.
LEMMA ActType ==
  ASSUME TypeOK, NEW u \in Units, NEW us \in UnitStates, Act(u, us)
  PROVE  unit' \in UnitStates /\ cached' \in [Units -> Slot]
<1>1. {} \in Slot
    BY DEF Slot
<1>2. unit \in UnitStates
    BY DEF TypeOK, UnitStates, UnitState
<1>3. unit' \in UnitStates
    BY <1>2 DEF Act
<1>4. cached' \in [Units -> Slot]
    BY <1>1 DEF Act, TypeOK
<1>5. QED BY <1>3, <1>4

\* A verb that fails does so too.
LEMMA FailType ==
  ASSUME TypeOK, NEW u \in Units, Act(u, unit), Fault
  PROVE  /\ unit' \in UnitStates /\ cached' \in [Units -> Slot]
         /\ faults' \in 0 .. MaxFaults
<1>1. unit \in UnitStates
    BY DEF TypeOK, UnitStates, UnitState
<1>2. faults' \in 0 .. MaxFaults
    BY StationAssumption DEF Fault, TypeOK
<1>3. QED BY <1>1, <1>2, ActType

\* A repairer at rest, and one that resumes its report, have typed records.
LEMMA RunTypes ==
  /\ IdleRun \in Run
  /\ \A r \in Repairers : run[r] \in Run => Resume(r) \in Run
<1>1. Unknown \in State
    BY DEF Unknown, State
<1>2. IdleRun \in Run
    BY <1>1 DEF IdleRun, Run, InService
<1>3. ASSUME NEW r \in Repairers, run[r] \in Run PROVE Resume(r) \in Run
    BY <1>1, <1>3 DEF Resume, Run, InService
<1>4. QED BY <1>2, <1>3

-----------------------------------------------------------------------------
(* Type correctness *)

\* The initial state is well typed.
LEMMA TypeInit == Init => TypeOK
<1> SUFFICES ASSUME Init PROVE TypeOK
    OBVIOUS
<1>1. IdleRun \in Run
    BY RunTypes
<1>2. {} \in Slot
    BY DEF Slot
<1>3. unit \in [Units -> [active : BOOLEAN, enabled : BOOLEAN]]
    BY DEF Init
<1>4. QED BY <1>1, <1>2, <1>3, StationAssumption DEF Init, TypeOK, IdleToggle

\* A run that goes on as a typed record stays typed.
LEMMA GoesType ==
  ASSUME TypeOK, NEW r \in Repairers, NEW new \in Run, Goes(r, new)
  PROVE  run' \in [Repairers -> Run]
BY DEF TypeOK, Goes

\* NextUnit is a state of the handler, and it is at rest exactly when no unit
\* is left.
LEMMA NextUnitType ==
  ASSUME TypeOK
  PROVE  /\ NextUnit \in [work : SUBSET Units, step : {"idle", "read", "boot", "now"}]
         /\ NextUnit.work = toggle.work \ {Current}
         /\ toggle.step # "idle" => (NextUnit.step = "idle" <=> NextUnit.work = {})
         /\ NextUnit.step # "now" /\ NextUnit.step # "boot"
<1>1. toggle.work \in SUBSET Units /\ (toggle.step = "idle" <=> toggle.work = {})
    BY DEF TypeOK
<1>2. CASE toggle.work = {Current}
    BY <1>1, <1>2 DEF NextUnit, IdleToggle
<1>3. CASE toggle.work # {Current}
  <2>1. NextUnit = [work |-> toggle.work \ {Current}, step |-> "read"]
      BY <1>3 DEF NextUnit
  <2>2. toggle.step # "idle" => toggle.work \ {Current} # {}
      BY <1>1, <1>3
  <2>3. QED BY <1>1, <2>1, <2>2
<1>4. QED BY <1>2, <1>3

\* The steps of the switch handler keep the types.
LEMMA ToggleType == ASSUME TypeOK, Toggle PROVE TypeOK'
<1>1. Current \in Units
    BY FirstUnit DEF Current
<1>2. CASE VisitUnit
  <2>1. PICK s \in [{Current} -> State] :
          /\ Reads({Current}, s)
          /\ IF s[Current].known
             THEN toggle' = [toggle EXCEPT !.step = "boot"] /\ UNCHANGED excused
             ELSE /\ toggle' = NextUnit
                  /\ excused' = excused \cup {Owner(u) : u \in {Current} \cap Installed}
      BY <1>2 DEF VisitUnit
  <2>2. /\ cached' \in [Units -> Slot] /\ faults' \in 0 .. MaxFaults
        /\ misread' \in SUBSET Units
      BY <1>1, <2>1, ReadsType
  <2>3. excused' \subseteq Functions
      BY <2>1 DEF TypeOK, Owner, Functions
  <2>4. /\ toggle' \in [work : SUBSET Units, step : {"idle", "read", "boot", "now"}]
        /\ toggle'.step = "idle" <=> toggle'.work = {}
      BY <1>2, <2>1, NextUnitType DEF TypeOK, VisitUnit
  <2>5. QED BY <1>2, <2>2, <2>3, <2>4 DEF VisitUnit, TypeOK
<1>3. CASE SwitchBoot
  <2>1. feat[Owner(Current)] \in BOOLEAN
      BY DEF TypeOK, Owner, Functions
  <2>2. unit' \in UnitStates /\ cached' \in [Units -> Slot]
      BY <1>1, <1>3, <2>1, EffectType, ActType DEF SwitchBoot
  <2>3. /\ toggle' \in [work : SUBSET Units, step : {"idle", "read", "boot", "now"}]
        /\ toggle'.step = "idle" <=> toggle'.work = {}
      BY <1>3 DEF TypeOK, SwitchBoot
  <2>4. QED BY <1>3, <2>2, <2>3 DEF SwitchBoot, TypeOK, UnitStates, UnitState
<1>4. CASE SwitchNow
  <2>1. unit' \in UnitStates /\ cached' \in [Units -> Slot]
    <3> DEFINE us == IF feat[Owner(Current)] THEN Up(Current) ELSE SetActive(Current, FALSE)
    <3>1. us \in UnitStates
        BY <1>1, EffectType
    <3>2. Act(Current, us)
        BY <1>4 DEF SwitchNow
    <3> HIDE DEF us
    <3>3. QED BY <1>1, <3>1, <3>2, ActType
  <2>2. /\ toggle' \in [work : SUBSET Units, step : {"idle", "read", "boot", "now"}]
        /\ toggle'.step = "idle" <=> toggle'.work = {}
      BY <1>4, NextUnitType DEF TypeOK, SwitchNow
  <2>3. QED BY <1>4, <2>1, <2>2 DEF SwitchNow, TypeOK, UnitStates, UnitState
<1>5. CASE SwitchFails
  <2>1. /\ unit' \in UnitStates /\ cached' \in [Units -> Slot]
        /\ faults' \in 0 .. MaxFaults
      BY <1>1, <1>5, FailType DEF SwitchFails
  <2>2. /\ toggle' \in [work : SUBSET Units, step : {"idle", "read", "boot", "now"}]
        /\ toggle'.step = "idle" <=> toggle'.work = {}
      BY <1>5, NextUnitType DEF TypeOK, SwitchFails
  <2>3. excused' \subseteq Functions
      BY <1>5 DEF SwitchFails, TypeOK, Owner, Functions
  <2>4. QED BY <1>5, <2>1, <2>2, <2>3 DEF SwitchFails, TypeOK, UnitStates, UnitState
<1>6. QED BY <1>2, <1>3, <1>4, <1>5 DEF Toggle

\* The fields of a run have their types.
LEMMA RunFields ==
  ASSUME TypeOK, NEW r \in Repairers
  PROVE  /\ run[r] \in Run
         /\ run[r].on \in SUBSET Functions
         /\ run[r].checking \in SUBSET Checks /\ run[r].todo \in SUBSET Checks
         /\ run[r].unit \in Units \cup {NoUnit} /\ run[r].seen \in State
         /\ run[r].pc \in InService => run[r].unit \in Units
BY DEF TypeOK, Run

\* A repair step that only moves its run on keeps the types if the new record
\* has its own.
LEMMA MoveOnType ==
  ASSUME TypeOK, NEW r \in Repairers, NEW new \in Run, Goes(r, new),
         UNCHANGED <<feat, unit, cached, toggle, faults, toggles, excused, misread, handled>>
  PROVE  TypeOK'
BY GoesType DEF TypeOK

\* The repair steps that read nothing keep the types.
LEMMA MoveType ==
  ASSUME TypeOK, NEW r \in Repairers,
         BeginRun(r) \/ ReadSwitch(r) \/ ReportReady(r) \/ DispatchService(r) \/ EndRun(r)
  PROVE  TypeOK'
<1> USE RunFields
<1>1. CASE BeginRun(r)
  <2>1. [run[r] EXCEPT !.pc = "printers"] \in Run
      BY DEF Run, InService
  <2>2. QED BY <1>1, <2>1, MoveOnType DEF BeginRun
<1>2. CASE ReadSwitch(r)
  <2> DEFINE f == run[r].pc
             on == IF feat[f] THEN run[r].on \cup {f} ELSE run[r].on
             checks == {c \in Checks : CheckOwner(c) \in on}
  <2>1. f \in Functions
      BY <1>2 DEF ReadSwitch
  <2>2. on \in SUBSET Functions /\ checks \in SUBSET Checks
      BY <2>1
  <2>3. \/ Goes(r, [run[r] EXCEPT !.on = on, !.pc = "scans"])
        \/ Goes(r, [run[r] EXCEPT !.on = on, !.pc = "checks", !.checking = checks])
      BY <1>2 DEF ReadSwitch
  <2> HIDE DEF on, checks
  <2>4. /\ [run[r] EXCEPT !.on = on, !.pc = "scans"] \in Run
        /\ [run[r] EXCEPT !.on = on, !.pc = "checks", !.checking = checks] \in Run
      BY <2>2 DEF Run, InService
  <2>5. QED BY <1>2, <2>3, <2>4, MoveOnType DEF ReadSwitch
<1>3. CASE ReportReady(r)
  <2>1. [run[r] EXCEPT !.pc = "fix"] \in Run
      BY DEF Run, InService
  <2>2. QED BY <1>3, <2>1, MoveOnType, RunTypes DEF ReportReady
<1>4. CASE DispatchService(r)
  <2>1. [run[r] EXCEPT !.pc = "service", !.unit = "cups", !.todo = @ \ {"service"}] \in Run
      BY StationAssumption DEF Run, Units, InService
  <2>2. QED BY <1>4, <2>1, MoveOnType DEF DispatchService
<1>5. CASE EndRun(r)
    BY <1>5, RunTypes, MoveOnType DEF EndRun
<1>6. QED BY <1>1, <1>2, <1>3, <1>4, <1>5

\* A check keeps the types.
LEMMA CheckType ==
  ASSUME TypeOK, NEW r \in Repairers, NEW c \in Checks, Check(r, c)
  PROVE  TypeOK'
<1>1. PICK bad \in BOOLEAN :
        /\ IF c = "cups"
           THEN IF bad THEN SchedulerSilent ELSE SchedulerAnswers
           ELSE LET us == IF c = "service" THEN {"cups"} ELSE Handlers
                IN  \E s \in [us -> State] : Reads(us, s) /\ bad = Repairable(c, s)
        /\ Goes(r, [run[r] EXCEPT !.checking = @ \ {c},
                                  !.todo = IF bad THEN @ \cup {c} ELSE @])
    BY DEF Check
<1>2. /\ cached' \in [Units -> Slot] /\ faults' \in 0 .. MaxFaults
      /\ misread' \in SUBSET Units
  <2>1. CASE c = "cups"
      BY <1>1, <2>1, StationAssumption DEF SchedulerSilent, SchedulerAnswers, TypeOK, Units
  <2>2. CASE c # "cups"
    <3> DEFINE us == IF c = "service" THEN {"cups"} ELSE Handlers
    <3>1. us \in SUBSET Units
        BY DEF Units, Handlers
    <3>2. \E s \in [us -> State] : Reads(us, s)
        BY <1>1, <2>2
    <3> HIDE DEF us
    <3>3. QED BY <3>1, <3>2, ReadsType
  <2>3. QED BY <2>1, <2>2
<1>3. run' \in [Repairers -> Run]
  <2>1. [run[r] EXCEPT !.checking = @ \ {c}, !.todo = IF bad THEN @ \cup {c} ELSE @] \in Run
      BY RunFields DEF Run, InService
  <2>2. QED BY <1>1, <2>1, GoesType
<1>4. QED BY <1>2, <1>3 DEF Check, TypeOK

\* The repair steps that read unit states keep the types.
LEMMA LookingType ==
  ASSUME TypeOK, NEW r \in Repairers, DispatchScanButton(r) \/ RepairService(r)
  PROVE  TypeOK'
<1> USE RunFields
<1>1. CASE DispatchScanButton(r)
  <2>1. PICK s \in [Handlers -> State] :
          /\ Reads(Handlers, s)
          /\ IF Target(s) = NoUnit
             THEN Goes(r, [run[r] EXCEPT !.todo = {}])
             ELSE Goes(r, [run[r] EXCEPT !.todo = {}, !.pc = "service", !.unit = Target(s)])
      BY <1>1 DEF DispatchScanButton
  <2>2. Handlers \in SUBSET Units
      BY DEF Handlers, Units
  <2>3. /\ cached' \in [Units -> Slot] /\ faults' \in 0 .. MaxFaults
        /\ misread' \in SUBSET Units
      BY <2>1, <2>2, ReadsType
  <2>4. [run[r] EXCEPT !.todo = {}] \in Run
      BY DEF Run, InService
  <2>5. ASSUME Target(s) # NoUnit
        PROVE  [run[r] EXCEPT !.todo = {}, !.pc = "service", !.unit = Target(s)] \in Run
    <3>1. Target(s) \in Units
        BY <2>5, TargetHandler
    <3>2. QED BY <2>5, <3>1 DEF Run, InService
  <2>6. run' \in [Repairers -> Run]
      BY <2>1, <2>4, <2>5, GoesType
  <2>7. QED BY <1>1, <2>3, <2>6 DEF DispatchScanButton, TypeOK
<1>2. CASE RepairService(r)
  <2> DEFINE u == run[r].unit
  <2>1. PICK s \in [{u} -> State] :
          /\ Reads({u}, s)
          /\ IF ~s[u].known \/ (s[u].active /\ s[u].enabled) THEN Goes(r, Resume(r))
             ELSE IF s[u].active THEN Goes(r, [run[r] EXCEPT !.pc = "enable", !.seen = s[u]])
             ELSE Goes(r, [run[r] EXCEPT !.pc = "restart", !.seen = s[u]])
      BY <1>2 DEF RepairService
  <2>2. u \in Units
      BY <1>2 DEF RepairService, InService
  <2>3. /\ cached' \in [Units -> Slot] /\ faults' \in 0 .. MaxFaults
        /\ misread' \in SUBSET Units
      BY <2>1, <2>2, ReadsType
  <2>4. s[u] \in State
      BY <2>1
  <2>5. [run[r] EXCEPT !.pc = "enable", !.seen = s[u]] \in Run
      BY <2>2, <2>4, StationAssumption DEF Run, InService
  <2>6. [run[r] EXCEPT !.pc = "restart", !.seen = s[u]] \in Run
      BY <2>2, <2>4, StationAssumption DEF Run, InService
  <2>7. run' \in [Repairers -> Run]
      BY <2>1, <2>5, <2>6, RunTypes, GoesType
  <2>8. QED BY <1>2, <2>3, <2>7 DEF RepairService, TypeOK
<1>3. QED BY <1>1, <1>2

\* The repair steps that run a verb keep the types.
LEMMA VerbType ==
  ASSUME TypeOK, NEW r \in Repairers,
         RepairCups(r) \/ RestartUnit(r) \/ EnableUnit(r) \/ RepairFails(r)
  PROVE  TypeOK'
<1> USE RunFields
<1>0. /\ [run[r] EXCEPT !.todo = @ \ {"cups"}] \in Run
      /\ run[r].unit \in Units => AfterRestart(r) \in Run
  <2>1. [run[r] EXCEPT !.todo = @ \ {"cups"}] \in Run
      BY DEF Run, InService
  <2>2. run[r].unit \in Units => [run[r] EXCEPT !.pc = "enable"] \in Run
      BY StationAssumption DEF Run, InService
  <2>3. QED BY <2>1, <2>2, RunTypes DEF AfterRestart
<1>1. CASE RepairCups(r)
  <2>1. "cups" \in Units
      BY DEF Units
  <2>2. unit' \in UnitStates /\ cached' \in [Units -> Slot]
      BY <1>1, <2>1, EffectType, ActType DEF RepairCups
  <2>3. run' \in [Repairers -> Run]
      BY <1>0, <1>1, GoesType DEF RepairCups
  <2>4. QED BY <1>1, <2>2, <2>3 DEF RepairCups, TypeOK, UnitStates, UnitState
<1>2. CASE RestartUnit(r)
  <2>1. run[r].unit \in Units
      BY <1>2 DEF RestartUnit, InService
  <2>2. unit' \in UnitStates /\ cached' \in [Units -> Slot]
      BY <1>2, <2>1, EffectType, ActType DEF RestartUnit
  <2>3. run' \in [Repairers -> Run]
      BY <1>0, <1>2, <2>1, GoesType DEF RestartUnit
  <2>4. QED BY <1>2, <2>2, <2>3 DEF RestartUnit, TypeOK, UnitStates, UnitState
<1>3. CASE EnableUnit(r)
  <2>1. run[r].unit \in Units
      BY <1>3 DEF EnableUnit, InService
  <2>2. unit' \in UnitStates /\ cached' \in [Units -> Slot]
      BY <1>3, <2>1, EffectType, ActType DEF EnableUnit
  <2>3. run' \in [Repairers -> Run]
      BY <1>3, RunTypes, GoesType DEF EnableUnit
  <2>4. QED BY <1>3, <2>2, <2>3 DEF EnableUnit, TypeOK, UnitStates, UnitState
<1>4. CASE RepairFails(r)
  <2>1. PICK u \in Units, new \in Run : Act(u, unit) /\ Goes(r, new)
    <3>1. "cups" \in Units /\ (run[r].pc \in {"restart", "enable"} => run[r].unit \in Units)
        BY DEF Units, InService
    <3>2. Resume(r) \in Run
        BY RunTypes
    <3>3. QED BY <1>0, <1>4, <3>1, <3>2 DEF RepairFails
  <2>2. /\ unit' \in UnitStates /\ cached' \in [Units -> Slot]
        /\ faults' \in 0 .. MaxFaults
      BY <1>4, <2>1, FailType DEF RepairFails
  <2>3. run' \in [Repairers -> Run]
      BY <2>1, GoesType
  <2>4. QED BY <1>4, <2>2, <2>3 DEF RepairFails, TypeOK, UnitStates, UnitState
<1>5. QED BY <1>1, <1>2, <1>3, <1>4

\* A new switch setting keeps the types.
LEMMA SaveType == ASSUME TypeOK, NEW on \in SUBSET Functions, SaveFeatures(on) PROVE TypeOK'
<1> DEFINE changed == {f \in Functions : feat[f] # (f \in on)}
<1>1. /\ toggle.step = "idle" /\ toggles < MaxToggles /\ changed # {}
      /\ feat' = [f \in Functions |-> f \in on]
      /\ toggle' = [work |-> UnitsOf(changed), step |-> "read"]
      /\ toggles' = toggles + 1
      /\ excused' = (excused \ changed)
                    \cup {f \in changed \ on : \E r \in Repairers : ActsOn(r, f)}
      /\ handled' = IF "scans" \in changed THEN Handlers ELSE handled
      /\ UNCHANGED <<unit, cached, run, faults, misread>>
    BY DEF SaveFeatures
<1>2. UnitsOf(changed) \in SUBSET Units /\ UnitsOf(changed) # {}
  <2>1. PICK f \in changed : TRUE
      BY <1>1
  <2>2. \E u \in Units : Owner(u) = f
      BY <2>1 DEF Owner, Units, Functions
  <2>3. QED BY <2>1, <2>2 DEF UnitsOf
<1>3. toggles' \in 0 .. MaxToggles
    BY <1>1, StationAssumption DEF TypeOK
<1>4. excused' \subseteq Functions /\ handled' \subseteq Handlers
    BY <1>1 DEF TypeOK
<1> HIDE DEF changed
<1>5. QED BY <1>1, <1>2, <1>3, <1>4 DEF TypeOK

\* What happens to the units and the panel from outside keeps the types.
LEMMA OutsideType ==
  ASSUME TypeOK,
         \/ \E u \in Units : Look(u) \/ Expire(u) \/ Die(u) \/ RestartButton(u)
         \/ Crash \/ Reboot
  PROVE  TypeOK'
<1>0. Fault => faults' \in 0 .. MaxFaults
    BY StationAssumption DEF Fault, TypeOK
<1>1. ASSUME NEW u \in Units, Look(u) PROVE TypeOK'
  <2>1. PICK s \in [{u} -> State] : Reads({u}, s)
      BY <1>1 DEF Look
  <2>2. /\ cached' \in [Units -> Slot] /\ faults' \in 0 .. MaxFaults
        /\ misread' \in SUBSET Units
      BY <2>1, ReadsType
  <2>3. QED BY <1>1, <2>2 DEF Look, TypeOK
<1>2. ASSUME NEW u \in Units, Expire(u) PROVE TypeOK'
  <2>1. {} \in Slot
      BY DEF Slot
  <2>2. QED BY <1>2, <2>1 DEF Expire, TypeOK
<1>3. ASSUME NEW u \in Units, Die(u) PROVE TypeOK'
  <2>1. unit' \in UnitStates
      BY <1>3, EffectType DEF Die
  <2>2. QED BY <1>0, <1>3, <2>1 DEF Die, TypeOK, UnitStates, UnitState
<1>4. ASSUME NEW u \in Units, RestartButton(u) PROVE TypeOK'
  <2>1. unit' \in UnitStates /\ cached' \in [Units -> Slot]
      BY <1>4, EffectType, ActType DEF RestartButton
  <2>2. excused' \subseteq Functions /\ handled' \subseteq Handlers
      BY <1>4 DEF RestartButton, TypeOK, Owner, Functions
  <2>3. QED BY <1>0, <1>4, <2>1, <2>2 DEF RestartButton, TypeOK, UnitStates, UnitState
<1>5. ASSUME PanelRestarts, Fault, unit' \in UnitStates PROVE TypeOK'
  <2>1. {} \in Slot
      BY DEF Slot
  <2>2. run' \in [Repairers -> Run] /\ cached' \in [Units -> Slot]
      BY <1>5, <2>1, RunTypes DEF PanelRestarts
  <2>3. excused' \subseteq Functions
      BY <1>5 DEF PanelRestarts, TypeOK, Owner, Functions
  <2>4. QED BY <1>0, <1>5, <2>2, <2>3 DEF PanelRestarts, Fault, TypeOK, UnitStates, UnitState, IdleToggle
<1>6. CASE Crash
  <2>1. unit' \in UnitStates
      BY <1>6 DEF Crash, TypeOK, UnitStates, UnitState
  <2>2. QED BY <1>5, <1>6, <2>1 DEF Crash
<1>7. CASE Reboot
  <2>1. unit' \in UnitStates
      BY <1>7 DEF Reboot, TypeOK, UnitStates, UnitState
  <2>2. QED BY <1>5, <1>7, <2>1 DEF Reboot
<1>8. QED BY <1>1, <1>2, <1>3, <1>4, <1>6, <1>7

\* Every step keeps the types.
LEMMA TypeStep == TypeOK /\ [Next]_vars => TypeOK'
<1> SUFFICES ASSUME TypeOK, [Next]_vars PROVE TypeOK'
    OBVIOUS
<1>1. ASSUME NEW r \in Repairers, Repair(r) PROVE TypeOK'
    BY <1>1, MoveType, CheckType, LookingType, VerbType DEF Repair
<1>2. CASE UNCHANGED vars
    BY <1>2 DEF vars, TypeOK
<1>3. QED BY <1>1, <1>2, SaveType, ToggleType, OutsideType DEF Next

\* The variables always have their types.
THEOREM TypeCorrect == Spec => []TypeOK
<1>1. QED BY TypeInit, TypeStep, PTL DEF Spec

-----------------------------------------------------------------------------
(* A function that was switched off stays off *)

Down(u) == ~unit[u].active /\ ~unit[u].enabled

\* A unit this host does not have is never up.
AbsentDown == \A u \in Units \ Installed : Down(u)

\* A repair run works only on what it has read as on, and that was switched off
\* since only at the price of an excuse.
RunInv ==
  \A r \in Repairers :
    /\ run[r].pc = "idle" => run[r].on = {}
    /\ \A f \in run[r].on : feat[f] \/ f \in excused
    /\ \A c \in run[r].checking \cup run[r].todo : CheckOwner(c) \in run[r].on
    /\ run[r].pc \in InService => Owner(run[r].unit) \in run[r].on

\* The units of a function that is off are down, or the handler has still to
\* visit them; the one it is about to stop is disabled already.
ToggleInv ==
  \A u \in Units : ~feat[Owner(u)] /\ Owner(u) \notin excused =>
    /\ u \in toggle.work \/ Down(u)
    /\ u = Current /\ toggle.step = "now" => ~unit[u].enabled

IInv == TypeOK /\ AbsentDown /\ RunInv /\ ToggleInv

\* The initial state satisfies the invariant.
LEMMA IInvInit == Init => IInv
<1> SUFFICES ASSUME Init PROVE IInv
    OBVIOUS
<1>1. TypeOK
    BY TypeInit
<1>2. AbsentDown
    BY DEF Init, AbsentDown, Down
<1>3. \A f \in Functions : feat[f]
    BY DEF Init
<1>4. ToggleInv
    BY <1>3 DEF ToggleInv, Owner, Functions
<1>5. RunInv
    BY <1>3 DEF Init, RunInv, IdleRun, InService
<1>6. QED BY <1>1, <1>2, <1>4, <1>5 DEF IInv

\* A step does not start or enable v.
Lower(v) ==
  /\ unit'[v].active => unit[v].active
  /\ unit'[v].enabled => unit[v].enabled

\* v belongs to a function that was switched off undisturbed.
Calm(v) == ~feat[Owner(v)] /\ Owner(v) \notin excused

\* A step that starts and enables no unit of an undisturbed function, and none
\* that is not there, keeps what the invariant says of the units.
LEMMA LowerInv ==
  ASSUME IInv, UNCHANGED <<feat, toggle>>, excused \subseteq excused',
         \A v \in Units : Calm(v) \/ v \notin Installed => Lower(v)
  PROVE  AbsentDown' /\ ToggleInv'
<1>1. AbsentDown'
    BY DEF IInv, AbsentDown, Down, Lower
<1>2. Current' = Current
    BY DEF Current
<1>3. ToggleInv'
    BY <1>2 DEF IInv, ToggleInv, Down, Lower, Calm
<1>4. QED BY <1>1, <1>3

\* What the invariant asks of a run.
RunGood(x) ==
  /\ x.pc = "idle" => x.on = {}
  /\ \A f \in x.on : feat[f] \/ f \in excused
  /\ \A c \in x.checking \cup x.todo : CheckOwner(c) \in x.on
  /\ x.pc \in InService => Owner(x.unit) \in x.on

\* A run that goes on as a good one keeps the invariant of the runs.
LEMMA GoesInv ==
  ASSUME IInv, NEW r \in Repairers, NEW new, Goes(r, new), RunGood(new),
         UNCHANGED <<feat, excused>>
  PROVE  RunInv'
<1>1. \A q \in Repairers : run'[q] = IF q = r THEN new ELSE run[q]
    BY DEF Goes, IInv, TypeOK
<1>2. \A q \in Repairers : RunGood(run[q])
    BY DEF IInv, RunInv, RunGood
<1>3. \A q \in Repairers : RunGood(run'[q])
    BY <1>1, <1>2
<1>4. QED BY <1>3 DEF RunInv, RunGood

\* Runs at rest are good, and so are those that go back to their report.
LEMMA GoodRuns ==
  ASSUME IInv
  PROVE  RunGood(IdleRun) /\ \A r \in Repairers : RunGood(run[r]) /\ RunGood(Resume(r))
<1>1. RunGood(IdleRun)
    BY DEF RunGood, IdleRun, InService
<1>2. ASSUME NEW r \in Repairers PROVE RunGood(run[r]) /\ RunGood(Resume(r))
  <2>1. RunGood(run[r])
      BY DEF IInv, RunInv, RunGood
  <2>2. /\ Resume(r).pc = "fix" /\ Resume(r).on = run[r].on
        /\ Resume(r).checking = run[r].checking /\ Resume(r).todo = run[r].todo
      BY DEF Resume, IInv, TypeOK, Run
  <2>3. QED BY <2>1, <2>2 DEF RunGood, InService
<1>3. QED BY <1>1, <1>2

\* What the invariant says survives a step that changes neither units nor
\* switches nor excuses.
LEMMA StillInv ==
  ASSUME IInv, UNCHANGED <<feat, unit, toggle, excused>>
  PROVE  AbsentDown' /\ ToggleInv'
BY LowerInv DEF Lower

\* The repair steps that read nothing keep the invariant.
LEMMA MoveInv ==
  ASSUME IInv, TypeOK', NEW r \in Repairers,
         BeginRun(r) \/ ReadSwitch(r) \/ ReportReady(r) \/ DispatchService(r) \/ EndRun(r)
  PROVE  IInv'
<1>0. run[r] \in Run /\ RunGood(run[r]) /\ RunGood(IdleRun)
    BY GoodRuns DEF IInv, TypeOK
<1>1. AbsentDown' /\ ToggleInv'
    BY StillInv DEF BeginRun, ReadSwitch, ReportReady, DispatchService, EndRun
<1>2. UNCHANGED <<feat, excused>>
    BY DEF BeginRun, ReadSwitch, ReportReady, DispatchService, EndRun
<1>3. CASE BeginRun(r)
  <2>1. RunGood([run[r] EXCEPT !.pc = "printers"])
      BY <1>0 DEF RunGood, InService, Run, BeginRun
  <2>2. RunInv'
      BY <1>2, <1>3, <2>1, GoesInv DEF BeginRun
  <2>3. QED BY <1>1, <2>2 DEF IInv
<1>4. CASE ReadSwitch(r)
  <2> DEFINE f == run[r].pc
             on == IF feat[f] THEN run[r].on \cup {f} ELSE run[r].on
             checks == {c \in Checks : CheckOwner(c) \in on}
  <2>1. \/ f = "printers" /\ Goes(r, [run[r] EXCEPT !.on = on, !.pc = "scans"])
        \/ Goes(r, [run[r] EXCEPT !.on = on, !.pc = "checks", !.checking = checks])
      BY <1>4 DEF ReadSwitch
  <2>2. /\ \A g \in on : feat[g] \/ g \in excused
        /\ run[r].on \subseteq on
        /\ \A c \in checks : CheckOwner(c) \in on
      BY <1>0 DEF RunGood
  <2> HIDE DEF on, checks
  <2>3. RunGood([run[r] EXCEPT !.on = on, !.pc = "scans"])
      BY <1>0, <2>2 DEF RunGood, InService, Run
  <2>4. RunGood([run[r] EXCEPT !.on = on, !.pc = "checks", !.checking = checks])
      BY <1>0, <2>2 DEF RunGood, InService, Run
  <2>5. RunInv'
      BY <1>2, <2>1, <2>3, <2>4, GoesInv
  <2>6. QED BY <1>1, <2>5 DEF IInv
<1>5. CASE ReportReady(r)
  <2>1. RunGood([run[r] EXCEPT !.pc = "fix"])
      BY <1>0 DEF RunGood, InService, Run
  <2>2. RunInv'
      BY <1>0, <1>2, <1>5, <2>1, GoesInv DEF ReportReady
  <2>3. QED BY <1>1, <2>2 DEF IInv
<1>6. CASE DispatchService(r)
  <2>1. "printers" \in run[r].on
    <3>1. "service" \in run[r].todo
        BY <1>6 DEF DispatchService, IsNext
    <3>2. CheckOwner("service") = "printers"
        BY DEF CheckOwner
    <3>3. QED BY <1>0, <3>1, <3>2 DEF RunGood
  <2>2. Owner("cups") = "printers"
      BY DEF Owner
  <2>3. RunGood([run[r] EXCEPT !.pc = "service", !.unit = "cups", !.todo = @ \ {"service"}])
      BY <1>0, <2>1, <2>2 DEF RunGood, InService, Run
  <2>4. RunInv'
      BY <1>2, <1>6, <2>3, GoesInv DEF DispatchService
  <2>5. QED BY <1>1, <2>4 DEF IInv
<1>7. CASE EndRun(r)
  <2>1. RunInv'
      BY <1>0, <1>2, <1>7, GoesInv DEF EndRun
  <2>2. QED BY <1>1, <2>1 DEF IInv
<1>8. QED BY <1>3, <1>4, <1>5, <1>6, <1>7

\* The checks and the repair steps that read unit states keep the invariant.
LEMMA LookingInv ==
  ASSUME IInv, TypeOK', NEW r \in Repairers,
         (\E c \in Checks : Check(r, c)) \/ DispatchScanButton(r) \/ RepairService(r)
  PROVE  IInv'
<1>0. run[r] \in Run /\ RunGood(run[r]) /\ RunGood(Resume(r))
    BY GoodRuns DEF IInv, TypeOK
<1>1. UNCHANGED <<feat, unit, toggle, excused>>
    BY DEF Check, DispatchScanButton, RepairService
<1>2. AbsentDown' /\ ToggleInv'
    BY <1>1, StillInv
<1>3. ASSUME NEW c \in Checks, Check(r, c) PROVE RunInv'
  <2>1. PICK bad \in BOOLEAN : Goes(r, [run[r] EXCEPT !.checking = @ \ {c},
                                          !.todo = IF bad THEN @ \cup {c} ELSE @])
      BY <1>3 DEF Check
  <2>2. c \in run[r].checking /\ run[r].pc = "checks"
      BY <1>3 DEF Check
  <2>3. RunGood([run[r] EXCEPT !.checking = @ \ {c}, !.todo = IF bad THEN @ \cup {c} ELSE @])
      BY <1>0, <2>2 DEF RunGood, InService, Run
  <2>4. QED BY <1>1, <2>1, <2>3, GoesInv
<1>4. CASE DispatchScanButton(r)
  <2>1. PICK s \in [Handlers -> State] :
          IF Target(s) = NoUnit
          THEN Goes(r, [run[r] EXCEPT !.todo = {}])
          ELSE Goes(r, [run[r] EXCEPT !.todo = {}, !.pc = "service", !.unit = Target(s)])
      BY <1>4 DEF DispatchScanButton
  <2>2. "scans" \in run[r].on /\ run[r].pc = "fix"
    <3>1. "scanbutton" \in run[r].todo /\ run[r].pc = "fix"
        BY <1>4 DEF DispatchScanButton, IsNext
    <3>2. CheckOwner("scanbutton") = "scans"
        BY DEF CheckOwner
    <3>3. QED BY <1>0, <3>1, <3>2 DEF RunGood
  <2>3. RunGood([run[r] EXCEPT !.todo = {}])
      BY <1>0, <2>2 DEF RunGood, InService, Run
  <2>4. ASSUME Target(s) # NoUnit
        PROVE  RunGood([run[r] EXCEPT !.todo = {}, !.pc = "service", !.unit = Target(s)])
    <3>1. Owner(Target(s)) = "scans"
        BY <2>4, TargetHandler
    <3>2. QED BY <1>0, <2>2, <3>1 DEF RunGood, InService, Run
  <2>5. RunInv'
      BY <1>1, <2>1, <2>3, <2>4, GoesInv
  <2>6. QED BY <1>2, <2>5 DEF IInv
<1>5. CASE RepairService(r)
  <2>1. PICK x \in State :
          \/ Goes(r, Resume(r))
          \/ Goes(r, [run[r] EXCEPT !.pc = "enable", !.seen = x])
          \/ Goes(r, [run[r] EXCEPT !.pc = "restart", !.seen = x])
    <3> DEFINE u == run[r].unit
    <3>1. PICK s \in [{u} -> State] :
            IF ~s[u].known \/ (s[u].active /\ s[u].enabled) THEN Goes(r, Resume(r))
            ELSE IF s[u].active THEN Goes(r, [run[r] EXCEPT !.pc = "enable", !.seen = s[u]])
            ELSE Goes(r, [run[r] EXCEPT !.pc = "restart", !.seen = s[u]])
        BY <1>5 DEF RepairService
    <3>2. s[u] \in State
        BY <3>1
    <3>3. QED BY <3>1, <3>2
  <2>2. Owner(run[r].unit) \in run[r].on
      BY <1>0, <1>5 DEF RepairService, RunGood, InService
  <2>3. RunGood([run[r] EXCEPT !.pc = "enable", !.seen = x])
      BY <1>0, <2>2 DEF RunGood, InService, Run
  <2>4. RunGood([run[r] EXCEPT !.pc = "restart", !.seen = x])
      BY <1>0, <2>2 DEF RunGood, InService, Run
  <2>5. RunInv'
      BY <1>0, <1>1, <2>1, <2>3, <2>4, GoesInv
  <2>6. QED BY <1>2, <2>5 DEF IInv
<1>6. QED BY <1>2, <1>3, <1>4, <1>5 DEF IInv

\* A verb on a unit of a function that is on, or excused, starts and enables no
\* unit of an undisturbed function: a start stops at most the other handler.
LEMMA ActLower ==
  ASSUME IInv, NEW u \in Units, ~Calm(u), NEW b \in BOOLEAN,
         Act(u, Up(u)) \/ Act(u, SetEnabled(u, b)) \/ Act(u, SetActive(u, b))
  PROVE  \A v \in Units : Calm(v) \/ v \notin Installed => Lower(v)
<1> SUFFICES ASSUME NEW v \in Units, Calm(v) \/ v \notin Installed PROVE Lower(v)
    OBVIOUS
<1>1. CASE u \notin Installed
    BY <1>1 DEF Act, Lower
<1>2. CASE u \in Installed
  <2>1. v # u
      BY <1>2
  <2>2. unit' = Up(u) \/ unit' = SetEnabled(u, b) \/ unit' = SetActive(u, b)
      BY <1>2 DEF Act
  <2>3. unit' = Up(u) => Lower(v)
      BY <2>1 DEF Up, Lower
  <2>4. unit' = SetEnabled(u, b) \/ unit' = SetActive(u, b) => unit'[v] = unit[v]
      BY <2>1 DEF SetEnabled, SetActive, IInv, TypeOK
  <2>5. QED BY <2>2, <2>3, <2>4 DEF Lower
<1>3. QED BY <1>1, <1>2

\* The repair steps that run a verb keep the invariant: they touch only units
\* of a function the run has read as on.
LEMMA VerbInv ==
  ASSUME IInv, TypeOK', NEW r \in Repairers,
         RepairCups(r) \/ RestartUnit(r) \/ EnableUnit(r) \/ RepairFails(r)
  PROVE  IInv'
<1>0. run[r] \in Run /\ RunGood(run[r]) /\ RunGood(Resume(r))
    BY GoodRuns DEF IInv, TypeOK
<1>1. UNCHANGED <<feat, toggle, excused>>
    BY DEF RepairCups, RestartUnit, EnableUnit, RepairFails
<1>2. ASSUME NEW u \in Units, Owner(u) \in run[r].on PROVE ~Calm(u)
    BY <1>0, <1>2 DEF RunGood, Calm
<1>3. /\ RunGood([run[r] EXCEPT !.todo = @ \ {"cups"}])
      /\ run[r].pc = "restart" => RunGood(AfterRestart(r))
  <2>1. RunGood([run[r] EXCEPT !.todo = @ \ {"cups"}])
      BY <1>0 DEF RunGood, InService, Run
  <2>2. run[r].pc = "restart" => RunGood([run[r] EXCEPT !.pc = "enable"])
      BY <1>0 DEF RunGood, InService, Run
  <2>3. QED BY <1>0, <2>1, <2>2 DEF AfterRestart
<1>4. CASE RepairCups(r)
  <2>1. "cups" \in Units /\ ~Calm("cups")
    <3>1. "cups" \in run[r].todo
        BY <1>4 DEF RepairCups, IsNext
    <3>2. CheckOwner("cups") = "printers" /\ Owner("cups") = "printers" /\ "cups" \in Units
        BY DEF CheckOwner, Owner, Units
    <3>3. Owner("cups") \in run[r].on
        BY <1>0, <3>1, <3>2 DEF RunGood
    <3>4. QED BY <1>2, <3>2, <3>3
  <2>2. AbsentDown' /\ ToggleInv'
    <3>1. Act("cups", Up("cups"))
        BY <1>4 DEF RepairCups
    <3>2. QED BY <1>1, <2>1, <3>1, ActLower, LowerInv
  <2>3. RunInv'
      BY <1>1, <1>4, <1>3, GoesInv DEF RepairCups
  <2>4. QED BY <2>2, <2>3 DEF IInv
<1>5. CASE RestartUnit(r)
  <2>1. run[r].unit \in Units /\ Owner(run[r].unit) \in run[r].on
      BY <1>0, <1>5 DEF RestartUnit, RunGood, InService, Run
  <2>2. AbsentDown' /\ ToggleInv'
    <3>1. Act(run[r].unit, Up(run[r].unit))
        BY <1>5 DEF RestartUnit
    <3>2. QED BY <1>1, <1>2, <2>1, <3>1, ActLower, LowerInv
  <2>3. RunInv'
      BY <1>1, <1>5, <1>3, GoesInv DEF RestartUnit
  <2>4. QED BY <2>2, <2>3 DEF IInv
<1>6. CASE EnableUnit(r)
  <2>1. run[r].unit \in Units /\ Owner(run[r].unit) \in run[r].on
      BY <1>0, <1>6 DEF EnableUnit, RunGood, InService, Run
  <2>2. AbsentDown' /\ ToggleInv'
    <3>1. Act(run[r].unit, SetEnabled(run[r].unit, TRUE))
        BY <1>6 DEF EnableUnit
    <3>2. QED BY <1>1, <1>2, <2>1, <3>1, ActLower, LowerInv
  <2>3. RunInv'
      BY <1>0, <1>1, <1>6, GoesInv DEF EnableUnit
  <2>4. QED BY <2>2, <2>3 DEF IInv
<1>7. CASE RepairFails(r)
  <2>1. unit' = unit
      BY <1>7 DEF RepairFails, Act
  <2>2. AbsentDown' /\ ToggleInv'
      BY <1>1, <2>1, StillInv
  <2>3. RunInv'
      BY <1>0, <1>1, <1>3, <1>7, GoesInv DEF RepairFails
  <2>4. QED BY <2>2, <2>3 DEF IInv
<1>8. QED BY <1>4, <1>5, <1>6, <1>7

\* The invariant of the runs survives a step that leaves runs and switches
\* alone and withdraws no excuse.
LEMMA RunsKept ==
  ASSUME IInv, UNCHANGED <<feat, run>>, excused \subseteq excused'
  PROVE  RunInv'
BY DEF IInv, RunInv

\* The switch handler keeps the invariant: it drops a unit from its list only
\* when the unit is down, or at the price of an excuse.
LEMMA ToggleStepInv == ASSUME IInv, TypeOK', Toggle PROVE IInv'
<1>0. Current \in Units
    BY FirstUnit DEF Current
<1>1. CASE VisitUnit
  <2>1. UNCHANGED <<feat, unit, run>>
      BY <1>1 DEF VisitUnit
  <2>2. \/ toggle' = [toggle EXCEPT !.step = "boot"] /\ UNCHANGED excused
        \/ /\ toggle' = NextUnit
           /\ excused' = excused \cup {Owner(u) : u \in {Current} \cap Installed}
      BY <1>1 DEF VisitUnit
  <2>3. RunInv'
      BY <2>1, <2>2, RunsKept
  <2>4. AbsentDown'
      BY <2>1 DEF IInv, AbsentDown, Down
  <2>5. toggle'.step # "now"
      BY <2>2, NextUnitType DEF IInv, TypeOK
  <2>6. ASSUME NEW u \in Units, ~feat[Owner(u)], Owner(u) \notin excused'
        PROVE  u \in toggle'.work \/ Down(u)
    <3>1. Owner(u) \notin excused
        BY <2>2, <2>6
    <3>2. u \in toggle.work \/ Down(u)
        BY <2>6, <3>1 DEF IInv, ToggleInv
    <3>3. CASE toggle' = [toggle EXCEPT !.step = "boot"]
        BY <3>2, <3>3 DEF IInv, TypeOK
    <3>4. CASE /\ toggle' = NextUnit
               /\ excused' = excused \cup {Owner(v) : v \in {Current} \cap Installed}
      <4>1. toggle'.work = toggle.work \ {Current}
          BY <3>4, NextUnitType DEF IInv
      <4>2. CASE u = Current
        <5>1. u \notin Installed
            BY <2>6, <3>4, <4>2
        <5>2. QED BY <5>1 DEF IInv, AbsentDown
      <4>3. CASE u # Current
          BY <3>2, <4>1, <4>3
      <4>4. QED BY <4>2, <4>3
    <3>5. QED BY <2>2, <3>3, <3>4
  <2>7. ToggleInv'
      BY <2>1, <2>5, <2>6 DEF ToggleInv, Down
  <2>8. QED BY <2>3, <2>4, <2>7 DEF IInv
<1>2. CASE SwitchBoot
  <2> DEFINE b == feat[Owner(Current)]
  <2>1. /\ Act(Current, SetEnabled(Current, b))
        /\ toggle' = [toggle EXCEPT !.step = "now"]
        /\ UNCHANGED <<feat, run, excused>>
      BY <1>2 DEF SwitchBoot
  <2>2. toggle'.work = toggle.work /\ Current' = Current
      BY <2>1 DEF IInv, TypeOK, Current
  <2>3. unit' = unit \/ unit' = SetEnabled(Current, b)
      BY <2>1 DEF Act
  <2>4. \A v \in Units \ {Current} : unit'[v] = unit[v]
      BY <2>3 DEF SetEnabled, IInv, TypeOK
  <2>5. unit'[Current].active = unit[Current].active
    <3>1. unit' = SetEnabled(Current, b) => unit'[Current].active = unit[Current].active
        BY <1>0 DEF SetEnabled, IInv, TypeOK
    <3>2. QED BY <2>3, <3>1
  <2>6. ~b => ~unit'[Current].enabled
    <3>1. CASE Current \in Installed
      <4>1. unit' = SetEnabled(Current, b)
          BY <2>1, <3>1 DEF Act
      <4>2. unit'[Current].enabled = b
          BY <1>0, <4>1 DEF SetEnabled, IInv, TypeOK
      <4>3. QED BY <4>2
    <3>2. CASE Current \notin Installed
        BY <1>0, <2>1, <3>2 DEF Act, IInv, AbsentDown, Down
    <3>3. QED BY <3>1, <3>2
  <2>7. AbsentDown'
    <3>1. ASSUME NEW v \in Units \ Installed PROVE unit'[v] = unit[v]
      <4>1. CASE v = Current
          BY <2>1, <3>1, <4>1 DEF Act
      <4>2. CASE v # Current
          BY <2>4, <4>2
      <4>3. QED BY <4>1, <4>2
    <3>2. QED BY <3>1 DEF IInv, AbsentDown, Down
  <2>8. RunInv'
      BY <2>1, RunsKept
  <2>9. ASSUME NEW u \in Units, ~feat[Owner(u)], Owner(u) \notin excused
        PROVE  /\ u \in toggle.work \/ (~unit'[u].active /\ ~unit'[u].enabled)
               /\ u = Current => ~unit'[u].enabled
    <3>1. u \in toggle.work \/ Down(u)
        BY <2>9 DEF IInv, ToggleInv
    <3>2. CASE u = Current
        BY <2>5, <2>6, <2>9, <3>1, <3>2 DEF Down
    <3>3. CASE u # Current
        BY <2>4, <3>1, <3>3 DEF Down
    <3>4. QED BY <3>2, <3>3
  <2>10. ToggleInv'
      BY <2>1, <2>2, <2>9 DEF ToggleInv, Down
  <2>11. QED BY <2>7, <2>8, <2>10 DEF IInv
<1>3. CASE SwitchNow
  <2>1. /\ Act(Current, IF feat[Owner(Current)] THEN Up(Current) ELSE SetActive(Current, FALSE))
        /\ toggle' = NextUnit /\ toggle.step = "now"
        /\ UNCHANGED <<feat, run, excused>>
      BY <1>3 DEF SwitchNow
  <2>2. toggle'.work = toggle.work \ {Current} /\ toggle'.step # "now"
      BY <2>1, NextUnitType DEF IInv
  <2>3. \A v \in Units : Calm(v) \/ v \notin Installed => Lower(v)
    <3>1. CASE feat[Owner(Current)]
      <4>1. Act(Current, Up(Current)) /\ ~Calm(Current)
          BY <2>1, <3>1 DEF Calm
      <4>2. QED BY <1>0, <4>1, ActLower
    <3>2. CASE ~feat[Owner(Current)]
      <4>1. unit' = unit \/ unit' = SetActive(Current, FALSE)
          BY <2>1, <3>2 DEF Act
      <4>2. unit' = SetActive(Current, FALSE) => \A v \in Units : Lower(v)
          BY <1>0 DEF SetActive, Lower, IInv, TypeOK
      <4>3. unit' = unit => \A v \in Units : Lower(v)
          BY DEF Lower
      <4>4. QED BY <4>1, <4>2, <4>3
    <3>3. QED BY <3>1, <3>2
  <2>4. AbsentDown'
      BY <2>3 DEF IInv, AbsentDown, Down, Lower
  <2>5. RunInv'
      BY <2>1, RunsKept
  <2>6. ASSUME NEW u \in Units, ~feat[Owner(u)], Owner(u) \notin excused
        PROVE  u \in toggle.work \ {Current} \/ (~unit'[u].active /\ ~unit'[u].enabled)
    <3>1. Lower(u) /\ (u \in toggle.work \/ Down(u))
        BY <2>3, <2>6 DEF IInv, ToggleInv, Calm
    <3>2. CASE u # Current
        BY <3>1, <3>2 DEF Down, Lower
    <3>3. CASE u = Current
      <4>1. ~unit[u].enabled
          BY <2>1, <2>6, <3>3 DEF IInv, ToggleInv
      <4>2. CASE u \in Installed
        <5>1. unit' = SetActive(u, FALSE)
            BY <2>1, <2>6, <3>3, <4>2 DEF Act
        <5>2. ~unit'[u].active
            BY <5>1 DEF SetActive, IInv, TypeOK
        <5>3. QED BY <3>1, <4>1, <5>2 DEF Lower
      <4>3. CASE u \notin Installed
          BY <3>1, <4>1, <4>3 DEF Lower, IInv, AbsentDown, Down
      <4>4. QED BY <4>2, <4>3
    <3>4. QED BY <3>2, <3>3
  <2>7. ToggleInv'
      BY <2>1, <2>2, <2>6 DEF ToggleInv, Down
  <2>8. QED BY <2>4, <2>5, <2>7 DEF IInv
<1>4. CASE SwitchFails
  <2>1. /\ UNCHANGED <<feat, run, unit>> /\ excused' = excused \cup {Owner(Current)}
        /\ toggle'.work = toggle.work \/ toggle'.work = toggle.work \ {Current}
      BY <1>4, NextUnitType DEF SwitchFails, Act, IInv, TypeOK
  <2>2. RunInv' /\ AbsentDown'
      BY <2>1, RunsKept DEF IInv, AbsentDown, Down
  <2>3. ASSUME NEW u \in Units, ~feat[Owner(u)], Owner(u) \notin excused'
        PROVE  u \in toggle'.work \/ Down(u)
    <3>1. Owner(u) \notin excused /\ u # Current
        BY <2>1, <2>3
    <3>2. u \in toggle.work \/ Down(u)
        BY <2>3, <3>1 DEF IInv, ToggleInv
    <3>3. QED BY <2>1, <3>1, <3>2
  <2>4. ASSUME NEW u \in Units, ~feat[Owner(u)], Owner(u) \notin excused',
               u = Current', toggle'.step = "now"
        PROVE  ~unit[u].enabled
    <3>1. toggle' = [toggle EXCEPT !.step = "now"]
        BY <1>4, <2>4, NextUnitType DEF SwitchFails, IInv
    <3>2. Current' = Current
        BY <3>1 DEF Current, IInv, TypeOK
    <3>3. QED BY <2>1, <2>4, <3>2
  <2>5. ToggleInv'
      BY <2>1, <2>3, <2>4 DEF ToggleInv, Down
  <2>6. QED BY <2>2, <2>5 DEF IInv
<1>5. QED BY <1>1, <1>2, <1>3, <1>4 DEF Toggle

\* Saving the switches keeps the invariant: the units of a function that goes
\* off are on the handler's list, and a run that still acts on it is an excuse.
LEMMA SaveInv ==
  ASSUME IInv, TypeOK', NEW on \in SUBSET Functions, SaveFeatures(on)
  PROVE  IInv'
<1> DEFINE changed == {f \in Functions : feat[f] # (f \in on)}
<1>1. /\ toggle.step = "idle"
      /\ feat' = [f \in Functions |-> f \in on]
      /\ toggle' = [work |-> UnitsOf(changed), step |-> "read"]
      /\ excused' = (excused \ changed)
                    \cup {f \in changed \ on : \E r \in Repairers : ActsOn(r, f)}
      /\ UNCHANGED <<unit, run>>
    BY DEF SaveFeatures
<1>2. AbsentDown'
    BY <1>1 DEF IInv, AbsentDown, Down
<1>3. RunInv'
  <2>1. ASSUME NEW r \in Repairers, NEW f \in run[r].on
        PROVE  feat'[f] \/ f \in excused'
    <3>1. f \in Functions /\ feat[f] \in BOOLEAN
        BY RunFields DEF IInv, TypeOK
    <3>2. ActsOn(r, f) /\ (feat[f] \/ f \in excused)
        BY <2>1 DEF ActsOn, IInv, RunInv
    <3>3. feat'[f] = (f \in on)
        BY <1>1, <3>1
    <3>4. CASE f \in changed
        BY <1>1, <3>2, <3>3, <3>4
    <3>5. CASE f \notin changed
        BY <1>1, <3>1, <3>2, <3>3, <3>5
    <3>6. QED BY <3>4, <3>5
  <2>2. QED BY <1>1, <2>1 DEF IInv, RunInv
<1>4. ASSUME NEW u \in Units, ~feat'[Owner(u)], Owner(u) \notin excused'
      PROVE  u \in toggle'.work \/ Down(u)
  <2>1. Owner(u) \in Functions /\ feat[Owner(u)] \in BOOLEAN
      BY DEF Owner, Functions, IInv, TypeOK
  <2>2. CASE Owner(u) \in changed
      BY <1>1, <2>2 DEF UnitsOf
  <2>3. CASE Owner(u) \notin changed
    <3>1. ~feat[Owner(u)] /\ Owner(u) \notin excused
        BY <1>1, <1>4, <2>1, <2>3
    <3>2. u \in toggle.work \/ Down(u)
        BY <3>1 DEF IInv, ToggleInv
    <3>3. QED BY <1>1, <3>2 DEF IInv, TypeOK
  <2>4. QED BY <2>2, <2>3
<1>5. ToggleInv'
  <2>1. toggle'.step # "now" /\ unit' = unit
      BY <1>1
  <2> HIDE DEF changed
  <2>2. QED BY <1>4, <2>1 DEF ToggleInv, Down
<1>6. QED BY <1>2, <1>3, <1>5 DEF IInv

\* A restart of the panel excuses the functions it leaves half switched, and
\* forgets every run.
LEMMA PanelRestartsInv ==
  ASSUME IInv, TypeOK', PanelRestarts, \A v \in Units : Down(v) => ~unit'[v].active /\ ~unit'[v].enabled
  PROVE  IInv'
<1>1. /\ run' = [r \in Repairers |-> IdleRun] /\ toggle' = IdleToggle
      /\ excused' = excused \cup {Owner(u) : u \in toggle.work} /\ feat' = feat
    BY DEF PanelRestarts
<1>2. RunInv'
    BY <1>1 DEF RunInv, IdleRun, InService
<1>3. AbsentDown'
    BY DEF IInv, AbsentDown, Down
<1>4. ASSUME NEW u \in Units, ~feat[Owner(u)], Owner(u) \notin excused'
      PROVE  Down(u)
    BY <1>1, <1>4 DEF IInv, ToggleInv
<1>5. toggle'.step # "now"
    BY <1>1 DEF IdleToggle
<1>6. ToggleInv'
    BY <1>1, <1>4, <1>5 DEF ToggleInv, Down
<1>7. QED BY <1>2, <1>3, <1>6 DEF IInv

\* What happens from outside keeps the invariant: a reboot starts only what is
\* enabled, a restart button is an excuse.
LEMMA OutsideInv ==
  ASSUME IInv, TypeOK',
         \/ \E u \in Units : Look(u) \/ Expire(u) \/ Die(u) \/ RestartButton(u)
         \/ Crash \/ Reboot
  PROVE  IInv'
<1>1. ASSUME NEW u \in Units, Look(u) \/ Expire(u) PROVE IInv'
  <2>1. UNCHANGED <<feat, unit, toggle, excused, run>>
      BY <1>1 DEF Look, Expire
  <2>2. QED BY <2>1, StillInv, RunsKept DEF IInv
<1>2. ASSUME NEW u \in Units, Die(u) PROVE IInv'
  <2>1. UNCHANGED <<feat, toggle, excused, run>> /\ unit' = SetActive(u, FALSE)
      BY <1>2 DEF Die
  <2>2. \A v \in Units : Lower(v)
      BY <2>1 DEF SetActive, Lower, IInv, TypeOK
  <2>3. QED BY <2>1, <2>2, LowerInv, RunsKept DEF IInv
<1>3. ASSUME NEW u \in Units, RestartButton(u) PROVE IInv'
  <2>1. /\ UNCHANGED <<feat, toggle, run>> /\ excused' = excused \cup {Owner(u)}
        /\ u \in Installed /\ unit' = Up(u)
      BY <1>3 DEF RestartButton, Act
  <2>2. \A v \in Units : v # u => Lower(v)
      BY <2>1 DEF Up, Lower
  <2>3. RunInv'
      BY <2>1, RunsKept
  <2>4. AbsentDown'
      BY <2>1, <2>2 DEF IInv, AbsentDown, Down, Lower
  <2>5. Current' = Current
      BY <2>1 DEF Current
  <2>6. ToggleInv'
      BY <2>1, <2>2, <2>5 DEF IInv, ToggleInv, Down, Lower
  <2>7. QED BY <2>3, <2>4, <2>6 DEF IInv
<1>4. CASE Crash
    BY <1>4, PanelRestartsInv DEF Crash, Down
<1>5. CASE Reboot
  <2>1. PICK up \in SUBSET {u \in Units : unit[u].enabled} :
          unit' = [u \in Units |-> [active |-> u \in up, enabled |-> unit[u].enabled]]
      BY <1>5 DEF Reboot
  <2>2. \A v \in Units : Down(v) => ~unit'[v].active /\ ~unit'[v].enabled
      BY <2>1 DEF Down
  <2>3. QED BY <1>5, <2>2, PanelRestartsInv DEF Reboot
<1>6. QED BY <1>1, <1>2, <1>3, <1>4, <1>5

\* The invariant is inductive.
LEMMA IInvStep == IInv /\ [Next]_vars => IInv'
<1> SUFFICES ASSUME IInv, [Next]_vars PROVE IInv'
    OBVIOUS
<1>1. TypeOK'
    BY TypeStep DEF IInv
<1>2. ASSUME NEW r \in Repairers, Repair(r) PROVE IInv'
    BY <1>1, <1>2, MoveInv, LookingInv, VerbInv DEF Repair
<1>3. CASE UNCHANGED vars
  <2>1. UNCHANGED <<feat, unit, toggle, excused, run>>
      BY <1>3 DEF vars
  <2>2. QED BY <1>1, <2>1, StillInv, RunsKept DEF IInv
<1>4. QED BY <1>1, <1>2, <1>3, SaveInv, ToggleStepInv, OutsideInv DEF Next

\* apply_services: a function that was switched off without one of the named
\* disturbances has its units stopped and disabled, and no repair run, death,
\* reboot or restart of the panel brings them back.
THEOREM OffHolds == Spec => []OffMeansStopped
<1>1. IInv => OffMeansStopped
  <2> SUFFICES ASSUME IInv, NEW f \in Functions \ excused, IsOff(f),
                      NEW u \in Units, Owner(u) = f
               PROVE  ~unit[u].active /\ ~unit[u].enabled
      BY DEF OffMeansStopped
  <2>1. toggle.work = {}
      BY DEF IInv, TypeOK, IsOff
  <2>2. QED BY <2>1 DEF IInv, ToggleInv, IsOff, Down
<1>2. QED BY <1>1, IInvInit, IInvStep, PTL DEF Spec

-----------------------------------------------------------------------------
(* Self-repair leaves the idle handler alone *)

\* Nobody has chosen to start or stop u, and no probe of the installer's pick has
\* failed.
Spared(u) == Pick \in Installed \ misread /\ u \notin handled

\* u is down, and the pick is meant to run.
UnitsSay(u) == ~unit[u].active /\ ~unit[u].enabled /\ unit[Pick].enabled

\* The cache says no different, however old it is.
CacheSays(u) ==
  /\ \A s \in cached[Pick] : s.known /\ s.enabled
  /\ \A s \in cached[u] : ~s.active /\ ~s.enabled

\* Neither the switch handler nor a repair run is about to touch u.
NobodyAt(u) ==
  /\ toggle.work \cap Handlers = {}
  /\ \A r \in Repairers : run[r].pc \in InService => run[r].unit # u

Untouched(u) == UnitsSay(u) /\ CacheSays(u) /\ NobodyAt(u)

IdleInv == TypeOK /\ \A u \in Handlers \ {Pick} : Spared(u) => Untouched(u)

\* Nothing is known against the handler that is to be left alone after a step,
\* and so nothing was before it.
LEMMA StillSpared ==
  ASSUME TypeOK, [Next]_vars, NEW u \in Handlers, Spared(u)'
  PROVE  Spared(u)
<1>1. misread \subseteq misread'
  <2>1. ASSUME NEW us, NEW s, Reads(us, s) PROVE misread \subseteq misread'
      BY <2>1 DEF Reads
  <2>2. CASE Toggle
      BY <2>1, <2>2 DEF Toggle, VisitUnit, SwitchBoot, SwitchNow, SwitchFails
  <2>3. ASSUME NEW r \in Repairers, Repair(r) PROVE misread \subseteq misread'
    <3>1. ASSUME NEW c \in Checks, Check(r, c) PROVE misread \subseteq misread'
      <4>1. \/ SchedulerSilent \/ SchedulerAnswers
            \/ \E us \in {{"cups"}, Handlers} : \E s \in [us -> State] : Reads(us, s)
          BY <3>1 DEF Check
      <4>2. QED BY <2>1, <4>1 DEF SchedulerSilent, SchedulerAnswers
    <3>2. CASE DispatchScanButton(r) \/ RepairService(r)
        BY <2>1, <3>2 DEF DispatchScanButton, RepairService
    <3>3. QED BY <2>3, <3>1, <3>2
              DEF Repair, BeginRun, ReadSwitch, ReportReady, EndRun, DispatchService,
                  RepairCups, RestartUnit, EnableUnit, RepairFails
  <2>4. ASSUME NEW v \in Units, Look(v) PROVE misread \subseteq misread'
      BY <2>1, <2>4 DEF Look
  <2>5. QED BY <2>2, <2>3, <2>4
            DEF Next, SaveFeatures, Expire, Die, RestartButton, Crash, Reboot,
                PanelRestarts, vars
<1>2. handled \subseteq handled'
  <2>1. CASE Toggle
      BY <2>1 DEF Toggle, VisitUnit, SwitchBoot, SwitchNow, SwitchFails
  <2>2. ASSUME NEW r \in Repairers, Repair(r) PROVE handled \subseteq handled'
      BY <2>2 DEF Repair, BeginRun, ReadSwitch, ReportReady, EndRun, DispatchService,
                  RepairCups, RestartUnit, EnableUnit, RepairFails, Check,
                  DispatchScanButton, RepairService
  <2>3. ASSUME NEW on \in SUBSET Functions, SaveFeatures(on) PROVE handled \subseteq handled'
      BY <2>3 DEF SaveFeatures, TypeOK
  <2>4. QED BY <2>1, <2>2, <2>3
            DEF Next, Look, Expire, Die, RestartButton, Crash, Reboot, PanelRestarts, vars
<1>3. QED BY <1>1, <1>2 DEF Spared

\* What is read of the two handlers is what they are, and the cache remembers it.
LEMMA ReadsSay ==
  ASSUME TypeOK, NEW u \in Handlers \ {Pick}, UnitsSay(u), CacheSays(u),
         Pick \in Installed \ misread',
         NEW us \in SUBSET Units, NEW s \in [us -> State], Reads(us, s)
  PROVE  /\ Pick \in us => s[Pick].known /\ s[Pick].enabled
         /\ u \in us => ~s[u].active /\ ~s[u].enabled
<1>1. \A v \in us : \/ s[v] \in cached[v]
                    \/ cached[v] = {} /\ s[v] = Probe(v)
                    \/ cached[v] = {} /\ s[v] \in Misreadings(v)
    BY DEF Reads
<1>2. ASSUME Pick \in us PROVE s[Pick].known /\ s[Pick].enabled
  <2>1. Probe(Pick).known /\ Probe(Pick).enabled
      BY DEF Probe, UnitsSay
  <2>2. cached[Pick] = {} => s[Pick] = Probe(Pick)
      BY <1>2 DEF Reads
  <2>3. CASE s[Pick] \in cached[Pick]
      BY <2>3 DEF CacheSays
  <2>4. CASE s[Pick] = Probe(Pick)
      BY <2>1, <2>4
  <2>5. QED BY <1>1, <1>2, <2>2, <2>3, <2>4
<1>3. ASSUME u \in us PROVE ~s[u].active /\ ~s[u].enabled
  <2>1. ~Probe(u).active /\ ~Probe(u).enabled
      BY DEF Probe, UnitsSay, Unknown
  <2>2. CASE s[u] \in cached[u]
      BY <2>2 DEF CacheSays
  <2>3. CASE s[u] = Probe(u)
      BY <2>1, <2>3
  <2>4. CASE s[u] \in Misreadings(u)
    <3>1. CASE s[u] = Unknown
        BY <3>1 DEF Unknown
    <3>2. CASE s[u] = [Probe(u) EXCEPT !.enabled = FALSE]
        BY <2>1, <3>2 DEF Probe, Unknown
    <3>3. QED BY <2>4, <3>1, <3>2 DEF Misreadings
  <2>5. QED BY <1>1, <1>3, <2>2, <2>3, <2>4
<1>4. QED BY <1>2, <1>3

\* The cache says no different after it was read.
LEMMA ReadsKeep ==
  ASSUME TypeOK, NEW u \in Handlers \ {Pick}, UnitsSay(u), CacheSays(u),
         Pick \in Installed \ misread',
         NEW us \in SUBSET Units, NEW s \in [us -> State], Reads(us, s)
  PROVE  CacheSays(u)'
<1>1. cached' = [v \in Units |-> IF v \in us THEN {s[v]} ELSE cached[v]]
    BY DEF Reads
<1>2. u \in Units /\ Pick \in Units
    BY StationAssumption DEF Handlers, Units
<1>3. \A t \in cached'[Pick] : t.known /\ t.enabled
  <2>1. CASE Pick \in us
    <3>1. cached'[Pick] = {s[Pick]}
        BY <1>1, <1>2, <2>1
    <3>2. QED BY <2>1, <3>1, ReadsSay
  <2>2. CASE Pick \notin us
    <3>1. cached'[Pick] = cached[Pick]
        BY <1>1, <1>2, <2>2
    <3>2. QED BY <3>1 DEF CacheSays
  <2>3. QED BY <2>1, <2>2
<1>4. \A t \in cached'[u] : ~t.active /\ ~t.enabled
  <2>1. CASE u \in us
    <3>1. cached'[u] = {s[u]}
        BY <1>1, <1>2, <2>1
    <3>2. QED BY <2>1, <3>1, ReadsSay
  <2>2. CASE u \notin us
    <3>1. cached'[u] = cached[u]
        BY <1>1, <1>2, <2>2
    <3>2. QED BY <3>1 DEF CacheSays
  <2>3. QED BY <2>1, <2>2
<1>5. QED BY <1>3, <1>4 DEF CacheSays

\* A cache that forgets says nothing new.
LEMMA ForgetKeeps ==
  ASSUME NEW u \in Handlers \ {Pick}, CacheSays(u),
         \A v \in Units : cached'[v] \subseteq cached[v]
  PROVE  CacheSays(u)'
<1>1. u \in Units /\ Pick \in Units
    BY StationAssumption DEF Handlers, Units
<1>2. QED BY <1>1 DEF CacheSays

\* A verb drops an entry.
LEMMA ActForgets ==
  ASSUME TypeOK, NEW v \in Units, NEW us, Act(v, us)
  PROVE  \A w \in Units : cached'[w] \subseteq cached[w]
BY DEF Act, TypeOK

\* To start a unit that is not u, to enable it, or to stop it leaves u down and
\* the pick enabled.
LEMMA EffectSays ==
  ASSUME TypeOK, NEW u \in Handlers \ {Pick}, UnitsSay(u), NEW v \in Units, v # u
  PROVE  /\ unit' = Up(v) => UnitsSay(u)'
         /\ unit' = SetActive(v, FALSE) => UnitsSay(u)'
         /\ unit' = SetEnabled(v, TRUE) => UnitsSay(u)'
         /\ v \notin Handlers => \A b \in BOOLEAN : unit' = SetEnabled(v, b) => UnitsSay(u)'
<1>1. u \in Units /\ Pick \in Units /\ Pick \in Handlers
    BY StationAssumption DEF Handlers, Units
<1>2. ASSUME unit' = Up(v) PROVE UnitsSay(u)'
  <2>1. unit'[u] = unit[u] \/ (~unit'[u].active /\ unit'[u].enabled = unit[u].enabled)
      BY <1>1, <1>2 DEF Up
  <2>2. unit'[Pick].enabled = unit[Pick].enabled
      BY <1>1, <1>2 DEF Up
  <2>3. QED BY <2>1, <2>2 DEF UnitsSay
<1>3. ASSUME unit' = SetActive(v, FALSE) PROVE UnitsSay(u)'
    BY <1>1, <1>3 DEF SetActive, UnitsSay, TypeOK
<1>4. ASSUME unit' = SetEnabled(v, TRUE) PROVE UnitsSay(u)'
    BY <1>1, <1>4 DEF SetEnabled, UnitsSay, TypeOK
<1>5. ASSUME v \notin Handlers, NEW b \in BOOLEAN, unit' = SetEnabled(v, b) PROVE UnitsSay(u)'
    BY <1>1, <1>5 DEF SetEnabled, UnitsSay, TypeOK
<1>6. QED BY <1>2, <1>3, <1>4, <1>5

\* scan_button_target sees the pick enabled and the other handler idle: it takes
\* the pick.
LEMMA TargetIsPick ==
  ASSUME NEW u \in Handlers \ {Pick}, NEW s \in [Handlers -> State],
         s[Pick].known, s[Pick].enabled, ~s[u].active, ~s[u].enabled
  PROVE  Target(s) = Pick
<1>1. Handlers = {u, Pick} /\ Pick \in {"scanbd", "listen"}
    BY StationAssumption DEF Handlers
<1> DEFINE there == {v \in Handlers : s[v].known}
           active == {v \in there : s[v].active}
           enabled == {v \in there : s[v].enabled}
<1>2. enabled = {Pick} /\ active \in {{}, {Pick}}
    BY <1>1
<1>3. First({Pick}) = Pick
    BY <1>1 DEF First
<1>4. Target(s) = IF active # {} THEN First(active)
                  ELSE IF enabled # {} THEN First(enabled)
                  ELSE IF Cardinality(there) = 1 THEN First(there)
                  ELSE NoUnit
    BY DEF Target
<1> HIDE DEF active, enabled, there
<1>5. QED BY <1>2, <1>3, <1>4

\* A run that goes on elsewhere than at u leaves u alone.
LEMMA GoesAway ==
  ASSUME TypeOK, NEW u \in Handlers, NobodyAt(u), NEW r \in Repairers, NEW new, Goes(r, new),
         new.pc \in InService => new.unit # u, toggle' = toggle
  PROVE  NobodyAt(u)'
<1>1. ASSUME NEW q \in Repairers, run'[q].pc \in InService PROVE run'[q].unit # u
  <2>1. CASE q = r
    <3>1. run'[q] = new
        BY <2>1 DEF Goes, TypeOK
    <3>2. QED BY <1>1, <3>1
  <2>2. CASE q # r
    <3>1. run'[q] = run[q]
        BY <2>2 DEF Goes, TypeOK
    <3>2. QED BY <1>1, <3>1 DEF NobodyAt
  <2>3. QED BY <2>1, <2>2
<1>2. QED BY <1>1 DEF NobodyAt

\* The unit the switch handler is at is CUPS.
LEMMA CurrentIsCups ==
  ASSUME TypeOK, toggle.step # "idle", toggle.work \cap Handlers = {}
  PROVE  Current = "cups" /\ Current \notin Handlers
<1>1. toggle.work \in SUBSET Units /\ toggle.work # {}
    BY DEF TypeOK
<1>2. Current \in toggle.work
    BY <1>1, FirstIn DEF Current
<1>3. QED BY <1>1, <1>2 DEF Units, Handlers

\* The switch handler, at work on printing, keeps its hands off.
LEMMA ToggleSpares ==
  ASSUME TypeOK, NEW u \in Handlers \ {Pick}, Untouched(u), Toggle, Spared(u)'
  PROVE  Untouched(u)'
<1>0. u \in Units
    BY DEF Handlers, Units
<1>1. Current = "cups" /\ Current \notin Handlers /\ Current \in Units /\ Current # u
  <2>1. toggle.step # "idle"
      BY DEF Toggle, VisitUnit, SwitchBoot, SwitchNow, SwitchFails
  <2>2. QED BY <2>1, CurrentIsCups, FirstUnit DEF Untouched, NobodyAt, Current
<1>2. NobodyAt(u)'
  <2>1. run' = run
      BY DEF Toggle, VisitUnit, SwitchBoot, SwitchNow, SwitchFails
  <2>2. toggle'.work \subseteq toggle.work
    <3>1. \/ toggle' = [toggle EXCEPT !.step = "boot"]
          \/ toggle' = [toggle EXCEPT !.step = "now"]
          \/ toggle' = NextUnit
        BY DEF Toggle, VisitUnit, SwitchBoot, SwitchNow, SwitchFails
    <3>2. QED BY <3>1, NextUnitType DEF TypeOK
  <2>3. QED BY <2>1, <2>2 DEF Untouched, NobodyAt
<1>3. CASE VisitUnit
  <2>1. PICK s \in [{Current} -> State] : Reads({Current}, s)
      BY <1>3 DEF VisitUnit
  <2>2. CacheSays(u)'
      BY <1>1, <2>1, ReadsKeep DEF Untouched, Spared
  <2>3. UnitsSay(u)'
      BY <1>3 DEF VisitUnit, Untouched, UnitsSay
  <2>4. QED BY <1>2, <2>2, <2>3 DEF Untouched
<1>4. CASE SwitchBoot \/ SwitchNow \/ SwitchFails
  <2>1. /\ \E us : Act(Current, us)
        /\ \/ unit' = unit
           \/ \E b \in BOOLEAN : unit' = SetEnabled(Current, b)
           \/ unit' = Up(Current)
           \/ unit' = SetActive(Current, FALSE)
    <3>1. feat[Owner(Current)] \in BOOLEAN
        BY DEF TypeOK, Owner, Functions
    <3>2. QED BY <1>4, <3>1 DEF SwitchBoot, SwitchNow, SwitchFails, Act
  <2>2. CacheSays(u)'
      BY <1>1, <2>1, ActForgets, ForgetKeeps DEF Untouched
  <2>3. UnitsSay(u)'
    <3>1. CASE unit' = unit
        BY <3>1 DEF Untouched, UnitsSay
    <3>2. CASE unit' # unit
        BY <1>1, <2>1, <3>2, EffectSays DEF Untouched
    <3>3. QED BY <3>1, <3>2
  <2>4. QED BY <1>2, <2>2, <2>3 DEF Untouched
<1>5. QED BY <1>3, <1>4 DEF Toggle

\* A repair run keeps its hands off.
LEMMA RepairSpares ==
  ASSUME TypeOK, NEW u \in Handlers \ {Pick}, Untouched(u),
         NEW r \in Repairers, Repair(r), Spared(u)'
  PROVE  Untouched(u)'
<1>0. u \in Units /\ u # "cups" /\ Pick \in Units /\ UnitsSay(u) /\ CacheSays(u) /\ NobodyAt(u)
    BY StationAssumption DEF Handlers, Units, Untouched
<1>u. run[r].pc \in InService => run[r].unit \in Units \ {u}
    BY <1>0, RunFields DEF NobodyAt
<1>1. CASE BeginRun(r) \/ ReadSwitch(r) \/ ReportReady(r) \/ EndRun(r) \/ DispatchService(r)
  <2>1. UNCHANGED <<unit, cached, toggle>>
      BY <1>1 DEF BeginRun, ReadSwitch, ReportReady, EndRun, DispatchService
  <2>2. UnitsSay(u)' /\ CacheSays(u)'
      BY <1>0, <2>1 DEF UnitsSay, CacheSays
  <2>3. PICK new : Goes(r, new) /\ (new.pc \in InService => new.unit # u)
    <3>1. CASE BeginRun(r)
      <4>1. [run[r] EXCEPT !.pc = "printers"].pc \notin InService
          BY RunFields DEF Run, InService
      <4>2. QED BY <3>1, <4>1 DEF BeginRun
    <3>2. CASE ReadSwitch(r)
      <4>1. PICK new : /\ Goes(r, new)
                       /\ \E on, checks :
                            \/ new = [run[r] EXCEPT !.on = on, !.pc = "scans"]
                            \/ new = [run[r] EXCEPT !.on = on, !.pc = "checks", !.checking = checks]
          BY <3>2 DEF ReadSwitch
      <4>2. new.pc \notin InService
          BY <4>1, RunFields DEF Run, InService
      <4>3. QED BY <4>1, <4>2
    <3>3. CASE ReportReady(r)
      <4>1. IdleRun.pc \notin InService /\ [run[r] EXCEPT !.pc = "fix"].pc \notin InService
          BY RunFields DEF Run, InService, IdleRun
      <4>2. QED BY <3>3, <4>1 DEF ReportReady
    <3>4. CASE EndRun(r)
      <4>1. IdleRun.pc \notin InService
          BY DEF InService, IdleRun
      <4>2. QED BY <3>4, <4>1 DEF EndRun
    <3>5. CASE DispatchService(r)
      <4>1. [run[r] EXCEPT !.pc = "service", !.unit = "cups", !.todo = @ \ {"service"}].unit = "cups"
          BY RunFields DEF Run
      <4>2. QED BY <1>0, <3>5, <4>1 DEF DispatchService
    <3>6. QED BY <1>1, <3>1, <3>2, <3>3, <3>4, <3>5
  <2>4. NobodyAt(u)'
      BY <1>0, <2>1, <2>3, GoesAway
  <2>5. QED BY <2>2, <2>4 DEF Untouched
<1>2. ASSUME NEW c \in Checks, Check(r, c) PROVE Untouched(u)'
  <2>1. PICK bad \in BOOLEAN :
          /\ IF c = "cups"
             THEN IF bad THEN SchedulerSilent ELSE SchedulerAnswers
             ELSE LET us == IF c = "service" THEN {"cups"} ELSE Handlers
                  IN  \E s \in [us -> State] : Reads(us, s) /\ bad = Repairable(c, s)
          /\ Goes(r, [run[r] EXCEPT !.checking = @ \ {c},
                                    !.todo = IF bad THEN @ \cup {c} ELSE @])
      BY <1>2 DEF Check
  <2>2. CacheSays(u)'
    <3>1. CASE c = "cups"
      <4>1. cached' = cached
          BY <2>1, <3>1 DEF SchedulerSilent, SchedulerAnswers
      <4>2. QED BY <1>0, <4>1 DEF CacheSays
    <3>2. CASE c # "cups"
      <4> DEFINE us == IF c = "service" THEN {"cups"} ELSE Handlers
      <4>1. us \in SUBSET Units
          BY DEF Units, Handlers
      <4>2. PICK s \in [us -> State] : Reads(us, s)
          BY <2>1, <3>2
      <4> HIDE DEF us
      <4>3. QED BY <1>0, <4>1, <4>2, ReadsKeep DEF Spared
    <3>3. QED BY <3>1, <3>2
  <2>3. UnitsSay(u)' /\ toggle' = toggle
      BY <1>0, <1>2 DEF Check, UnitsSay
  <2>4. NobodyAt(u)'
    <3> DEFINE new == [run[r] EXCEPT !.checking = @ \ {c},
                                     !.todo = IF bad THEN @ \cup {c} ELSE @]
    <3>1. new.pc = run[r].pc /\ new.pc \notin InService
        BY <1>2, RunFields DEF Check, Run, InService
    <3>2. Goes(r, new)
        BY <2>1
    <3> HIDE DEF new
    <3>3. QED BY <1>0, <2>3, <3>1, <3>2, GoesAway
  <2>5. QED BY <2>2, <2>3, <2>4 DEF Untouched
<1>3. CASE DispatchScanButton(r)
  <2>1. PICK s \in [Handlers -> State] :
          /\ Reads(Handlers, s)
          /\ IF Target(s) = NoUnit
             THEN Goes(r, [run[r] EXCEPT !.todo = {}])
             ELSE Goes(r, [run[r] EXCEPT !.todo = {}, !.pc = "service", !.unit = Target(s)])
      BY <1>3 DEF DispatchScanButton
  <2>2. Handlers \in SUBSET Units
      BY DEF Handlers, Units
  <2>3. s[Pick].known /\ s[Pick].enabled /\ ~s[u].active /\ ~s[u].enabled
      BY <1>0, <2>1, <2>2, ReadsSay, StationAssumption DEF Spared
  <2>4. Target(s) = Pick
      BY <2>3, TargetIsPick
  <2>5. Goes(r, [run[r] EXCEPT !.todo = {}, !.pc = "service", !.unit = Pick])
      BY <1>0, <2>1, <2>4, StationAssumption
  <2>6. [run[r] EXCEPT !.todo = {}, !.pc = "service", !.unit = Pick].unit = Pick
      BY RunFields DEF Run
  <2>7. UnitsSay(u)' /\ toggle' = toggle
      BY <1>0, <1>3 DEF DispatchScanButton, UnitsSay
  <2>8. NobodyAt(u)'
      BY <1>0, <2>5, <2>6, <2>7, GoesAway
  <2>9. CacheSays(u)'
      BY <1>0, <2>1, <2>2, ReadsKeep DEF Spared
  <2>10. QED BY <2>7, <2>8, <2>9 DEF Untouched
<1>4. CASE RepairService(r)
  <2> DEFINE v == run[r].unit
  <2>1. PICK s \in [{v} -> State] :
          /\ Reads({v}, s)
          /\ IF ~s[v].known \/ (s[v].active /\ s[v].enabled) THEN Goes(r, Resume(r))
             ELSE IF s[v].active THEN Goes(r, [run[r] EXCEPT !.pc = "enable", !.seen = s[v]])
             ELSE Goes(r, [run[r] EXCEPT !.pc = "restart", !.seen = s[v]])
      BY <1>4 DEF RepairService
  <2>2. v \in Units \ {u}
      BY <1>4, <1>u DEF RepairService, InService
  <2>3. CacheSays(u)'
      BY <1>0, <2>1, <2>2, ReadsKeep DEF Spared
  <2>4. UnitsSay(u)' /\ toggle' = toggle
      BY <1>0, <1>4 DEF RepairService, UnitsSay
  <2>5. PICK new : Goes(r, new) /\ new.unit # u
    <3>1. Resume(r).unit = NoUnit /\ NoUnit # u
        BY <1>0, RunFields, StationAssumption DEF Resume, Run
    <3>2. /\ [run[r] EXCEPT !.pc = "enable", !.seen = s[v]].unit = v
          /\ [run[r] EXCEPT !.pc = "restart", !.seen = s[v]].unit = v
        BY RunFields DEF Run
    <3>3. QED BY <2>1, <2>2, <3>1, <3>2
  <2>6. NobodyAt(u)'
      BY <1>0, <2>4, <2>5, GoesAway
  <2>7. QED BY <2>3, <2>4, <2>6 DEF Untouched
<1>5. CASE RepairCups(r) \/ RestartUnit(r) \/ EnableUnit(r) \/ RepairFails(r)
  <2>1. PICK v \in Units \ {u} :
          /\ \E us : Act(v, us)
          /\ unit' = unit \/ unit' = Up(v) \/ unit' = SetEnabled(v, TRUE)
    <3>1. "cups" \in Units \ {u}
        BY <1>0 DEF Units
    <3>2. run[r].pc \in {"restart", "enable"} => run[r].unit \in Units \ {u}
        BY <1>u DEF InService
    <3>3. CASE RepairCups(r)
        BY <3>1, <3>3 DEF RepairCups, Act
    <3>4. CASE RestartUnit(r)
        BY <3>2, <3>4 DEF RestartUnit, Act
    <3>5. CASE EnableUnit(r)
        BY <3>2, <3>5 DEF EnableUnit, Act
    <3>6. CASE RepairFails(r)
        BY <3>1, <3>2, <3>6 DEF RepairFails, Act
    <3>7. QED BY <1>5, <3>3, <3>4, <3>5, <3>6
  <2>2. CacheSays(u)'
      BY <1>0, <2>1, ActForgets, ForgetKeeps
  <2>3. UnitsSay(u)'
    <3>1. CASE unit' = unit
        BY <1>0, <3>1 DEF UnitsSay
    <3>2. CASE unit' # unit
        BY <1>0, <2>1, <3>2, EffectSays
    <3>3. QED BY <3>1, <3>2
  <2>4. PICK new : Goes(r, new) /\ (new.pc \in InService => new.unit # u)
    <3>1. Resume(r).unit = NoUnit /\ NoUnit # u
        BY <1>0, RunFields, StationAssumption DEF Resume, Run
    <3>2. ASSUME run[r].pc = "restart" PROVE AfterRestart(r).unit # u
      <4>1. run[r].unit # u
          BY <3>2, <1>u DEF InService
      <4>2. [run[r] EXCEPT !.pc = "enable"].unit = run[r].unit
          BY RunFields DEF Run
      <4>3. QED BY <3>1, <4>1, <4>2 DEF AfterRestart
    <3>3. ASSUME run[r].pc = "fix"
          PROVE  [run[r] EXCEPT !.todo = @ \ {"cups"}].pc \notin InService
        BY <3>3, RunFields DEF Run, InService
    <3>4. CASE RepairCups(r)
        BY <3>3, <3>4 DEF RepairCups, IsNext
    <3>5. CASE RestartUnit(r)
        BY <3>2, <3>5 DEF RestartUnit
    <3>6. CASE EnableUnit(r)
        BY <3>1, <3>6 DEF EnableUnit
    <3>7. CASE RepairFails(r)
        BY <3>1, <3>2, <3>3, <3>7 DEF RepairFails, IsNext
    <3>8. QED BY <1>5, <3>4, <3>5, <3>6, <3>7
  <2>5. NobodyAt(u)'
    <3>1. toggle' = toggle
        BY <1>5 DEF RepairCups, RestartUnit, EnableUnit, RepairFails
    <3>2. QED BY <1>0, <2>4, <3>1, GoesAway
  <2>6. QED BY <2>2, <2>3, <2>5 DEF Untouched
<1>6. QED BY <1>1, <1>2, <1>3, <1>4, <1>5 DEF Repair

\* So does whatever happens from outside: a reboot starts nothing that is disabled.
LEMMA OutsideSpares ==
  ASSUME TypeOK, NEW u \in Handlers \ {Pick}, Untouched(u), Spared(u)',
         \/ \E v \in Units : Look(v) \/ Expire(v) \/ Die(v) \/ RestartButton(v)
         \/ Crash \/ Reboot
  PROVE  Untouched(u)'
<1>0. u \in Units /\ Pick \in Units /\ UnitsSay(u) /\ CacheSays(u) /\ NobodyAt(u)
    BY StationAssumption DEF Handlers, Units, Untouched
<1>1. ASSUME NEW v \in Units, Look(v) \/ Expire(v) \/ Die(v) \/ RestartButton(v)
      PROVE  Untouched(u)'
  <2>1. NobodyAt(u)'
      BY <1>0, <1>1 DEF Look, Expire, Die, RestartButton, NobodyAt
  <2>2. CASE Look(v)
    <3>1. PICK s \in [{v} -> State] : Reads({v}, s)
        BY <2>2 DEF Look
    <3>2. CacheSays(u)'
        BY <1>0, <3>1, ReadsKeep DEF Spared
    <3>3. UnitsSay(u)'
        BY <1>0, <2>2 DEF Look, UnitsSay
    <3>4. QED BY <2>1, <3>2, <3>3 DEF Untouched
  <2>3. CASE Expire(v)
    <3>1. \A w \in Units : cached'[w] \subseteq cached[w]
        BY <2>3 DEF Expire, TypeOK
    <3>2. CacheSays(u)'
        BY <1>0, <3>1, ForgetKeeps
    <3>3. UnitsSay(u)'
        BY <1>0, <2>3 DEF Expire, UnitsSay
    <3>4. QED BY <2>1, <3>2, <3>3 DEF Untouched
  <2>4. CASE Die(v)
    <3>1. v # u
        BY <1>0, <2>4 DEF Die, UnitsSay
    <3>2. UnitsSay(u)'
        BY <1>0, <2>4, <3>1, EffectSays DEF Die
    <3>3. CacheSays(u)'
        BY <1>0, <2>4 DEF Die, CacheSays
    <3>4. QED BY <2>1, <3>2, <3>3 DEF Untouched
  <2>5. CASE RestartButton(v)
    <3>1. v # u
        BY <2>5 DEF RestartButton, Spared
    <3>2. UnitsSay(u)'
        BY <1>0, <2>5, <3>1, EffectSays DEF RestartButton, Act
    <3>3. CacheSays(u)'
        BY <1>0, <2>5, ActForgets, ForgetKeeps DEF RestartButton
    <3>4. QED BY <2>1, <3>2, <3>3 DEF Untouched
  <2>6. QED BY <1>1, <2>2, <2>3, <2>4, <2>5
<1>2. ASSUME PanelRestarts, UnitsSay(u)' PROVE Untouched(u)'
  <2>1. NobodyAt(u)'
      BY <1>2 DEF PanelRestarts, NobodyAt, IdleToggle, IdleRun, InService
  <2>2. CacheSays(u)'
      BY <1>0, <1>2 DEF PanelRestarts, CacheSays
  <2>3. QED BY <1>2, <2>1, <2>2 DEF Untouched
<1>3. CASE Crash
    BY <1>0, <1>2, <1>3 DEF Crash, UnitsSay
<1>4. CASE Reboot
  <2>1. PICK up \in SUBSET {v \in Units : unit[v].enabled} :
          unit' = [v \in Units |-> [active |-> v \in up, enabled |-> unit[v].enabled]]
      BY <1>4 DEF Reboot
  <2>2. UnitsSay(u)'
      BY <1>0, <2>1 DEF UnitsSay
  <2>3. QED BY <1>2, <1>4, <2>2 DEF Reboot
<1>5. QED BY <1>1, <1>3, <1>4

\* As long as nobody switches scanning or presses a restart button, and no probe of
\* the handler that the installer chose fails, self-repair keeps its hands off the
\* other one: whatever dies, reboots or is answered from an old cache entry.
THEOREM IdleStaysIdle == Spec => []IdleHandlerLeftAlone
<1>1. Init => IdleInv
  <2> SUFFICES ASSUME Init, NEW u \in Handlers \ {Pick}, Spared(u) PROVE Untouched(u)
      BY TypeInit DEF IdleInv
  <2>1. u \in Units /\ Pick \in Units
      BY StationAssumption DEF Handlers, Units
  <2>2. UnitsSay(u)
      BY <2>1 DEF Init, UnitsSay, Spared
  <2>3. CacheSays(u)
      BY <2>1 DEF Init, CacheSays
  <2>4. NobodyAt(u)
      BY DEF Init, NobodyAt, IdleToggle, IdleRun, InService
  <2>5. QED BY <2>2, <2>3, <2>4 DEF Untouched
<1>2. IdleInv /\ [Next]_vars => IdleInv'
  <2> SUFFICES ASSUME IdleInv, [Next]_vars PROVE IdleInv'
      OBVIOUS
  <2>1. TypeOK'
      BY TypeStep DEF IdleInv
  <2>2. ASSUME NEW u \in Handlers \ {Pick}, Spared(u)' PROVE Untouched(u)'
    <3>1. TypeOK /\ Untouched(u)
        BY <2>2, StillSpared DEF IdleInv
    <3>2. ASSUME NEW on \in SUBSET Functions, SaveFeatures(on) PROVE Untouched(u)'
      <4> DEFINE changed == {f \in Functions : feat[f] # (f \in on)}
      <4>1. "scans" \notin changed
          BY <2>2, <3>2 DEF SaveFeatures, Spared
      <4>2. toggle'.work = UnitsOf(changed) /\ UNCHANGED <<unit, cached, run>>
          BY <3>2 DEF SaveFeatures
      <4>3. \A v \in Handlers : Owner(v) = "scans"
          BY DEF Handlers, Owner
      <4>4. toggle'.work \cap Handlers = {}
          BY <4>1, <4>2, <4>3 DEF UnitsOf
      <4>5. QED BY <3>1, <4>2, <4>4 DEF Untouched, UnitsSay, CacheSays, NobodyAt
    <3>3. CASE UNCHANGED vars
        BY <3>1, <3>3 DEF vars, Untouched, UnitsSay, CacheSays, NobodyAt
    <3>4. QED BY <2>2, <3>1, <3>2, <3>3, ToggleSpares, RepairSpares, OutsideSpares DEF Next
  <2>3. QED BY <2>1, <2>2 DEF IdleInv
<1>3. IdleInv => IdleHandlerLeftAlone
    BY DEF IdleInv, IdleHandlerLeftAlone, Spared, Untouched, UnitsSay
<1>4. QED BY <1>1, <1>2, <1>3, PTL DEF Spec

=============================================================================
