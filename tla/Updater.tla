---------------------------- MODULE Updater ----------------------------
(***************************************************************************)
(* The updater of the panel: app/services/updater.py with the routes that  *)
(* drive it and the parts of update.sh and install.sh that replace the     *)
(* running program.                                                        *)
(*                                                                         *)
(* A check is four steps that other threads interleave with: it loads the  *)
(* state file, asks GitHub, announces what is new and saves the file; the  *)
(* background loop then installs what its own check returned.  Checks run  *)
(* in the loop and in request threads (the button).  The preferences are   *)
(* kept in the same file and saved by another handler.  An update runs in  *)
(* a transient systemd unit, outlives the panel and restarts it.           *)
(*                                                                         *)
(* A save of the state file is one step here; module StateFile looks       *)
(* inside it.  A release tag is a record: the numbers of X.Y.Z-beta.N and  *)
(* the pre-release flag GitHub keeps for it.                               *)
(***************************************************************************)
EXTENDS Naturals, Sequences, SequencesExt

CONSTANTS
  Catalogue,  \* the releases the project may make
  Installed,  \* the release on the box at first
  Buttons,    \* request threads that may run a check
  None,       \* no release
  MaxEdits,   \* bound on changes of the preferences and the switch
  MaxMarks,   \* bound on releases marked [failed] or withdrawn
  MaxFaults   \* bound on failing calls and restarts

ASSUME CatalogueAssumption ==
  /\ "loop" \notin Buttons /\ None \notin Catalogue \cup {Installed}
  /\ \A r \in Catalogue \cup {Installed} :
       /\ r.core \in Nat \X Nat \X Nat /\ r.beta \in Nat
       /\ r.prerelease \in BOOLEAN
ASSUME BoundAssumption == {MaxEdits, MaxMarks, MaxFaults} \subseteq Nat

VARIABLES
  feed,      \* the releases GitHub lists, newest publication first
  failed,    \* the ones that carry the [failed] marker
  file,      \* updater.json: channel, auto-update and the cached candidate
  updates,   \* is the function "updates" switched on
  version,   \* the running program (__version__)
  disk,      \* the program in /opt/prntbtlr
  unit,      \* the transient unit prntbtlr-update: what it installs, or None
  deployed,  \* has that unit replaced the program on disk
  check,     \* the checks in progress, one record per thread
  edits, marks, faults, \* how often the bounded things have happened
  wanted,    \* history: the preferences that were saved last
  lost,      \* history: that save overlapped a check
  heard,     \* history: the release the endpoints know to be on offer
  quiet,     \* history: the last check ran alone and was saved
  repeated,  \* history: a release was announced again though all was quiet
  torn       \* history: an update has failed after it had replaced the program, and no
             \* check has run alone since the running and the installed one agree again

environment == <<feed, failed, marks>>
installer   == <<version, disk, unit, deployed, torn>>
prefs       == <<wanted, lost>>
news        == <<heard, quiet, repeated>>
vars == <<environment, file, updates, installer, check, edits, faults, prefs, news>>

Channels == {"stable", "beta"}
Loop     == "loop"
Checkers == Buttons \cup {Loop}
Releases == Catalogue \cup {Installed}

------------------------------------------------------------------------
(* Versions and release selection.  beta = 0 stands for a tag without the  *)
(* -beta part.                                                             *)

\* Mutant: a beta sorts after the release it leads to.
KeyOfText(r) == r.core \o <<0, r.beta>>
\* The key parse_version gives a tag: a stable release ranks above its betas.
Key(r) == r.core \o (IF r.beta = 0 THEN <<1, 0>> ELSE <<0, r.beta>>)

\* Python compares the keys as tuples.
Newer(r, s) == \E i \in 1..5 : /\ Key(r)[i] > Key(s)[i]
                               /\ \A j \in 1..(i - 1) : Key(r)[j] = Key(s)[j]

\* The filters of the loop over the releases.
Usable(r, channel) == r \notin failed /\ (r.prerelease => channel = "beta")

\* One turn of that loop: the first of the newest is kept.
Better(r, best, channel) ==
  IF Usable(r, channel) /\ (best = None \/ Newer(r, best)) THEN r ELSE best

PickLatest(channel) ==
  FoldLeft(LAMBDA best, r : Better(r, best, channel), None, feed)

\* Mutant: the pick is taken as it is.
AnyCandidate(channel) == PickLatest(channel)
\* What a check puts into the file: the pick, if it beats the running program.
Candidate(channel) ==
  LET latest == PickLatest(channel)
  IN  IF latest # None /\ Newer(latest, version) THEN latest ELSE None

------------------------------------------------------------------------
State == [channel : Channels, auto : BOOLEAN, available : Catalogue \cup {None}]
FreshState == [channel |-> "stable", auto |-> FALSE, available |-> None]

Phases == {"idle", "loaded", "fetched", "act"}
IdleCheck == [pc |-> "idle", st |-> FreshState, alone |-> FALSE, moved |-> FALSE]
InFlight(c) == check[c].pc # "idle"
Busy == \E c \in Checkers : InFlight(c)

\* Somebody else touches what the checks in flight have read.
Disturb(chk) == [c \in Checkers |->
  IF chk[c].pc = "idle" THEN chk[c] ELSE [chk[c] EXCEPT !.alone = FALSE]]
Move(chk) == [c \in Checkers |->
  IF chk[c].pc = "idle" THEN chk[c]
  ELSE [chk[c] EXCEPT !.alone = FALSE, !.moved = TRUE]]

Fault == faults < MaxFaults /\ faults' = faults + 1

------------------------------------------------------------------------
(* GitHub.                                                                 *)

Publish(r) ==
  /\ r \notin ToSet(feed)
  /\ feed' = <<r>> \o feed
  /\ UNCHANGED <<failed, marks, file, updates, installer, check, edits, faults,
                 prefs, news>>

MarkFailed(r) ==
  /\ marks < MaxMarks /\ marks' = marks + 1
  /\ r \in ToSet(feed) \ failed
  /\ failed' = failed \cup {r}
  /\ UNCHANGED <<feed, file, updates, installer, check, edits, faults, prefs, news>>

------------------------------------------------------------------------
(* A check.                                                                *)

Load(c) ==
  /\ ~InFlight(c)
  /\ updates
  /\ check' = [Disturb(check) EXCEPT ![c] =
       [pc |-> "loaded", st |-> file, alone |-> ~Busy /\ unit = None,
        moved |-> FALSE]]
  /\ quiet' = (quiet /\ ~Busy)
  /\ UNCHANGED <<environment, file, updates, installer, edits, faults, prefs,
                 heard, repeated>>

\* Mutant: every check announces what it has found.
AnnounceAlways(new, old) ==
  IF new # None THEN /\ heard' = new
                     /\ repeated' = (repeated \/ (quiet /\ heard = new))
  ELSE UNCHANGED <<heard, repeated>>
\* The webhook fires only for another tag than the file held.
Announce(new, old) ==
  IF new # None /\ new # old
  THEN /\ heard' = new
       /\ repeated' = (repeated \/ (quiet /\ heard = new))
  ELSE UNCHANGED <<heard, repeated>>

Fetch(c) ==
  /\ check[c].pc = "loaded"
  /\ LET st  == check[c].st
         new == Candidate(st.channel)
     IN  /\ check' = [check EXCEPT ![c].pc = "fetched", ![c].st.available = new]
         /\ Announce(new, st.available)
  /\ UNCHANGED <<environment, file, updates, installer, edits, faults, prefs, quiet>>

\* The network fails: the candidate of the last check stays.
FetchFails(c) ==
  /\ check[c].pc = "loaded"
  /\ Fault
  /\ check' = [check EXCEPT ![c].pc = "fetched", ![c].alone = @ /\ quiet /\ ~torn]
  /\ UNCHANGED <<environment, file, updates, installer, edits, prefs, news>>

\* Mutant: a button's thread goes on as well.
AfterSaveAct(c) == [check EXCEPT ![c].pc = "act"]
\* The loop goes on with what its check returned; a button's thread is done.
AfterSave(c) ==
  IF c = Loop THEN [check EXCEPT ![c].pc = "act"]
              ELSE [check EXCEPT ![c] = IdleCheck]

Save(c) ==
  /\ check[c].pc = "fetched"
  /\ file' = check[c].st
  /\ check' = AfterSave(c)
  /\ quiet' = check[c].alone
  /\ heard' = check[c].st.available
  /\ torn' = IF check[c].alone THEN disk # version ELSE torn
  /\ UNCHANGED <<environment, updates, version, disk, unit, deployed, edits, faults, prefs,
                 repeated>>

\* A failed save is logged and the result used all the same.
SaveFails(c) ==
  /\ check[c].pc = "fetched"
  /\ Fault
  /\ check' = AfterSave(c)
  /\ quiet' = FALSE
  /\ UNCHANGED <<environment, file, updates, installer, edits, prefs, heard, repeated>>

Check(c) == Load(c) \/ Fetch(c) \/ FetchFails(c) \/ Save(c) \/ SaveFails(c)

------------------------------------------------------------------------
(* Updates.                                                                *)

\* start_update: systemd-run refuses while the unit of that name is running, and
\* may fail for another reason.  The process that is then started beside the
\* panel shares its sandbox, where /opt is read-only, and installs nothing; the
\* caller is told that the update has started.
StartUpdate(r) ==
  \/ /\ unit = None
     /\ unit' = r /\ deployed' = FALSE
     /\ UNCHANGED faults
  \/ /\ unit # None
     /\ UNCHANGED <<unit, deployed, faults>>
  \/ Fault /\ UNCHANGED <<unit, deployed>>

\* Mutant: auto-update is decided by the release alone.
WantsNewer(st) == st.available # None /\ Newer(st.available, version)
\* The loop installs what its own check returned if its own copy of the
\* preferences asks for it.
Wants(st) == st.available # None /\ Newer(st.available, version) /\ st.auto

AutoUpdate ==
  /\ check[Loop].pc = "act" /\ Wants(check[Loop].st)
  /\ StartUpdate(check[Loop].st.available)
  /\ check' = [Disturb(check) EXCEPT ![Loop] = IdleCheck]
  /\ UNCHANGED <<environment, file, updates, version, disk, torn, edits, prefs, news>>

NotifyOnly ==
  /\ check[Loop].pc = "act" /\ ~Wants(check[Loop].st)
  /\ check' = [check EXCEPT ![Loop] = IdleCheck]
  /\ UNCHANGED <<environment, file, updates, installer, edits, faults, prefs, news>>

\* The button of the page posts the tag the page showed.
Apply(r) ==
  /\ updates
  /\ file.available = r
  /\ StartUpdate(r)
  /\ check' = Disturb(check)
  /\ UNCHANGED <<environment, file, updates, version, disk, torn, edits, prefs, news>>

\* The panel's process ends; its threads and their checks end with it.
PanelRestarts ==
  /\ version' = disk
  /\ check' = [c \in Checkers |-> IdleCheck]
  /\ quiet' = (quiet /\ ~Busy)

\* install.sh replaces the program.
Deploy ==
  /\ unit # None /\ ~deployed
  /\ disk' = unit /\ deployed' = TRUE
  /\ UNCHANGED <<environment, file, updates, version, unit, torn, check, edits, faults,
                 prefs, news>>

\* ... and restarts the panel.
Finish ==
  /\ unit # None /\ deployed
  /\ PanelRestarts
  /\ unit' = None /\ deployed' = FALSE
  /\ UNCHANGED <<environment, file, updates, disk, torn, edits, faults, prefs, heard,
                 repeated>>

\* A command of update.sh or install.sh fails; set -e ends the script.
UpdateFails ==
  /\ unit # None
  /\ Fault
  /\ unit' = None /\ deployed' = FALSE
  /\ torn' = (torn \/ deployed)
  /\ UNCHANGED <<environment, file, updates, version, disk, check, edits, prefs, news>>

Crash ==
  /\ Fault
  /\ PanelRestarts
  /\ UNCHANGED <<environment, file, updates, disk, unit, deployed, torn, edits, prefs,
                 heard, repeated>>

------------------------------------------------------------------------
(* The operator.                                                           *)

\* Mutant: the cached candidate stays when the channel changes.
SavePrefsOnly(channel, auto) ==
  /\ edits < MaxEdits /\ edits' = edits + 1
  /\ updates
  /\ file' = [file EXCEPT !.channel = channel, !.auto = auto]
  /\ wanted' = [channel |-> channel, auto |-> auto]
  /\ lost' = Busy
  /\ check' = Move(check)
  /\ UNCHANGED <<environment, updates, installer, faults, news>>
\* save_prefs: another channel drops the cached candidate.
SavePrefs(channel, auto) ==
  /\ edits < MaxEdits /\ edits' = edits + 1
  /\ updates
  /\ file' = [channel |-> channel, auto |-> auto,
              available |-> IF file.channel = channel THEN file.available ELSE None]
  /\ wanted' = [channel |-> channel, auto |-> auto]
  /\ lost' = Busy
  /\ check' = Move(check)
  /\ quiet' = (quiet /\ ~Busy)
  /\ heard' = file'.available
  /\ UNCHANGED <<environment, updates, installer, faults, repeated>>

Switch ==
  /\ edits < MaxEdits /\ edits' = edits + 1
  /\ updates' = ~updates
  /\ check' = Move(check)
  /\ UNCHANGED <<environment, file, installer, faults, prefs, news>>

------------------------------------------------------------------------
Init ==
  /\ feed = <<>> /\ failed = {} /\ marks = 0
  /\ wanted \in [channel : Channels, auto : BOOLEAN] /\ lost = FALSE
  /\ file = [channel |-> wanted.channel, auto |-> wanted.auto, available |-> None]
  /\ updates = TRUE
  /\ version = Installed /\ disk = Installed /\ unit = None /\ deployed = FALSE
  /\ torn = FALSE
  /\ check = [c \in Checkers |-> IdleCheck]
  /\ edits = 0 /\ faults = 0
  /\ heard = None /\ quiet = TRUE /\ repeated = FALSE

Install == Deploy \/ Finish \/ UpdateFails

Next ==
  \/ \E r \in Catalogue : Publish(r) \/ MarkFailed(r) \/ Apply(r)
  \/ \E c \in Checkers : Check(c)
  \/ AutoUpdate \/ NotifyOnly
  \/ Install \/ Crash
  \/ \E channel \in Channels, auto \in BOOLEAN : SavePrefs(channel, auto)
  \/ Switch

Spec == Init /\ [][Next]_vars

------------------------------------------------------------------------
(* Properties.                                                             *)

CheckRecord == [pc : Phases, st : State, alone : BOOLEAN, moved : BOOLEAN]

\* The types of the variables; only the loop acts on a check, and a deployed
\* update belongs to a running unit.
TypeOK ==
  /\ feed \in Seq(Catalogue) /\ failed \subseteq Catalogue
  /\ file \in State /\ updates \in BOOLEAN
  /\ version \in Releases /\ disk \in Releases
  /\ unit \in Catalogue \cup {None} /\ {deployed, torn} \subseteq BOOLEAN
  /\ check \in [Checkers -> CheckRecord]
  /\ edits \in 0..MaxEdits /\ marks \in 0..MaxMarks /\ faults \in 0..MaxFaults
  /\ wanted \in [channel : Channels, auto : BOOLEAN] /\ lost \in BOOLEAN
  /\ heard \in Catalogue \cup {None} /\ quiet \in BOOLEAN /\ repeated \in BOOLEAN
  /\ \A b \in Buttons : check[b].pc # "act"
  /\ deployed => unit # None /\ disk = unit

\* The order of releases by their numbers: X.Y.Z decides, then a release stands
\* above its betas, then the number of the beta.
Precedes(r, s) ==
  \/ \E i \in 1..3 : r.core[i] < s.core[i] /\ \A j \in 1..(i - 1) : r.core[j] = s.core[j]
  \/ r.core = s.core /\ r.beta # 0 /\ (s.beta = 0 \/ r.beta < s.beta)

\* pick_latest returns a release of the feed that the channel may have and that
\* was not marked as failed, none of those is later, and it finds one if there is
\* one: keys and the loop over the feed compute the maximum of the order of
\* releases, for every order of publication.
PickIsNewest ==
  \A channel \in Channels :
    LET allowed == {r \in ToSet(feed) : Usable(r, channel)}
        best    == PickLatest(channel)
    IN  IF allowed = {} THEN best = None
        ELSE best \in allowed /\ \A r \in allowed : ~Precedes(best, r)

\* Preferences that no check was in the middle of survive every later check: what
\* the file says is what the operator saved, and the candidate in it is one the
\* channel may have.
PrefsHold ==
  ~lost => /\ file.channel = wanted.channel /\ file.auto = wanted.auto
           /\ file.available # None =>
                (file.available.prerelease => wanted.channel = "beta")

\* While checks run alone and are saved, nobody hears of the same release twice
\* without another state in between.
AnnouncedOnce == ~repeated

\* After a check that ran alone, with no update under way, the page does not offer
\* a release older than the running program; updates, restarts and failing checks
\* keep it so.  An update that fails after it has replaced the program spoils this:
\* a check sees the program that is still running, and the next start another one;
\* the first check that runs alone after that start mends it.
OfferNotOlder ==
  quiet /\ ~torn /\ file.available # None => ~Precedes(file.available, version)

\* The loop starts an update by itself only with auto-update and the function
\* switched on, to a newer release of the operator's channel, unless the operator
\* changed one of them while the check was under way or a check has undone it.
Starts == /\ check[Loop].pc = "act" /\ check'[Loop].pc = "idle"
          /\ unit = None /\ unit' # None
AutoUpdateIsWanted ==
  [][Starts => \/ check[Loop].moved \/ lost
               \/ /\ updates /\ wanted.auto
                  /\ unit'.prerelease => wanted.channel = "beta"
                  /\ Precedes(version, unit')]_vars
========================================================================
