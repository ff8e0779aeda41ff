-------------------------- MODULE ScanPublish --------------------------
(***************************************************************************)
(* How a scan becomes a PDF in the shared folder: scan_now of              *)
(* app/services/scan.py, run by the request threads of the panel, and      *)
(* scripts/scan2pdf.sh, run when a button of the scanner is pressed.       *)
(*                                                                         *)
(* Both name their files by the second in which they start, work on hidden *)
(* intermediates and rename the finished PDF into place.  They share the   *)
(* folder, the visible names and the scanner, which serves one scanimage   *)
(* at a time.  A scan is known by who makes it and its second.             *)
(*                                                                         *)
(* Contents are abstracted to what tells a good file from a bad one: who   *)
(* has it open for writing, whether writers have been at it together, and  *)
(* the scan it shows once it is whole.                                     *)
(***************************************************************************)
EXTENDS Naturals, FiniteSets

CONSTANTS
  Threads,      \* the panel's request threads
  None,         \* no file, nobody, no scan
  Attempts,     \* attempts of the script (4 in the code)
  MaxTime,      \* bound on the clock
  MaxScans,     \* bound on scans from the browser
  MaxFaults     \* bound on crashes, kills and failing commands

ASSUME ThreadsAssumption == "script" \notin Threads /\ "orphan" \notin Threads
ASSUME NumbersAssumption ==
  Attempts \in Nat \ {0} /\ {MaxTime, MaxScans, MaxFaults} \subseteq Nat

VARIABLES
  now,      \* the clock, in seconds
  device,   \* who has the scanner
  tiff,     \* .prntbtlr_<second>.tiff, by second
  part,     \* .prntbtlr_<second>.pdf.part
  ocr,      \* .prntbtlr_<second>.pdf.part.ocr
  spart,    \* .scan_<second>.pdf.part of the script
  final,    \* scan_<second>.pdf
  req,      \* the request threads
  script,   \* the script, when it runs
  scans, faults, \* how often the bounded things have happened
  began,    \* history: how many scans were begun in each second
  killed    \* history: a process was killed in the middle of a scan

share == <<tiff, part, ocr, spart, final>>
scanvars == <<now, device, share, req, script, scans, faults, began, killed>>

Script  == "script"
Actors  == Threads \cup {Script}
Seconds == 0..MaxTime
Scans   == Actors \X Seconds

------------------------------------------------------------------------
(* Files.                                                                  *)

File == [open : SUBSET Actors, mixed : BOOLEAN, whole : Scans \cup {None}]

ASSUME NoneAssumption ==
  None \notin File \cup Actors \cup Scans \cup Seconds \cup {"orphan"}

\* Opening for writing creates or truncates; who has the file open writes on.
Opened(f, a) ==
  IF f = None THEN [open |-> {a}, mixed |-> FALSE, whole |-> None]
  ELSE [open |-> f.open \cup {a}, mixed |-> f.open \ {a} # {}, whole |-> None]

\* The last write of actor a, which has written scan s (None: garbage).  A file
\* that lost its name in the meantime is gone; a renamed one is found by its owner.
Written(f, a, s) ==
  IF f = None \/ a \notin f.open THEN f
  ELSE [open |-> f.open \ {a}, mixed |-> f.mixed,
        whole |-> IF f.mixed \/ f.open # {a} THEN None ELSE s]

Shows(f) == IF f = None THEN None ELSE f.whole
Unlink(dir, s) == [dir EXCEPT ![s] = None]

Fault == faults < MaxFaults /\ faults' = faults + 1

------------------------------------------------------------------------
(* A scan from the browser: scan_now.                                      *)

IdleReq == [pc |-> "idle", ts |-> 0, copy |-> None]
Goes(t, pc) == req' = [req EXCEPT ![t].pc = pc]
Ends(t) == req' = [req EXCEPT ![t] = IdleReq]

\* The names are fixed and the file is opened that scanimage will fill.
Begin(t) ==
  /\ req[t].pc = "idle"
  /\ scans < MaxScans /\ scans' = scans + 1
  /\ req' = [req EXCEPT ![t].pc = "opened", ![t].ts = now]
  /\ tiff' = [tiff EXCEPT ![now] = Opened(@, t)]
  /\ began' = [began EXCEPT ![now].browser = @ + 1]
  /\ UNCHANGED <<now, device, part, ocr, spart, final, script, faults, killed>>

StartScan(t) ==
  /\ req[t].pc = "opened"
  /\ device = None
  /\ device' = t
  /\ req' = [req EXCEPT ![t].pc = "scanning"]
  /\ UNCHANGED <<now, share, script, scans, faults, began, killed>>

\* Mutant: what the failing scan has made stays.
DeviceBusyKeepsTiff(t) ==
  /\ req[t].pc = "opened"
  /\ device # None
  /\ Ends(t)
  /\ UNCHANGED <<now, device, share, script, scans, faults, began, killed>>

\* scanimage finds the scanner taken: the file of that name is removed.
DeviceBusy(t) ==
  /\ req[t].pc = "opened"
  /\ device # None
  /\ tiff' = Unlink(tiff, req[t].ts)
  /\ Ends(t)
  /\ UNCHANGED <<now, device, part, ocr, spart, final, script, scans, faults, began, killed>>

\* Mutant: the scanner is not given back.
EndScanKeepsDevice(t) ==
  /\ req[t].pc = "scanning"
  /\ tiff' = [tiff EXCEPT ![req[t].ts] = Written(@, t, <<t, req[t].ts>>)]
  /\ Goes(t, "scanned")
  /\ UNCHANGED <<now, device, part, ocr, spart, final, script, scans, faults, began, killed>>

EndScan(t) ==
  /\ req[t].pc = "scanning"
  /\ device' = None
  /\ tiff' = [tiff EXCEPT ![req[t].ts] = Written(@, t, <<t, req[t].ts>>)]
  /\ Goes(t, "scanned")
  /\ UNCHANGED <<now, part, ocr, spart, final, script, scans, faults, began, killed>>

\* scanimage fails or runs into the timeout, which kills it.
ScanFails(t) ==
  /\ req[t].pc = "scanning"
  /\ Fault
  /\ device' = None
  /\ tiff' = Unlink(tiff, req[t].ts)
  /\ Ends(t)
  /\ UNCHANGED <<now, part, ocr, spart, final, script, scans, began, killed>>

\* img2pdf (or convert) opens its output ...
StartConvert(t) ==
  /\ req[t].pc = "scanned"
  /\ part' = [part EXCEPT ![req[t].ts] = Opened(@, t)]
  /\ Goes(t, "converting")
  /\ UNCHANGED <<now, device, tiff, ocr, spart, final, script, scans, faults, began, killed>>

\* ... and fills it with the page, if the TIFF is one.
EndConvert(t) ==
  LET s == req[t].ts
      page == Shows(tiff[s])
  IN  /\ req[t].pc = "converting"
      /\ page # None
      /\ part' = [part EXCEPT ![s] = Written(@, t, page)]
      /\ final' = [final EXCEPT ![s] = Written(@, t, page)]
      /\ tiff' = Unlink(tiff, s)
      /\ Goes(t, "converted")
      /\ UNCHANGED <<now, device, ocr, spart, script, scans, faults, began, killed>>

ConvertFails(t) ==
  /\ req[t].pc = "converting"
  /\ IF Shows(tiff[req[t].ts]) = None THEN UNCHANGED faults ELSE Fault
  /\ final' = [final EXCEPT ![req[t].ts] = Written(@, t, None)]
  /\ tiff' = Unlink(tiff, req[t].ts) /\ part' = Unlink(part, req[t].ts)
  /\ Ends(t)
  /\ UNCHANGED <<now, device, ocr, spart, script, scans, began, killed>>

\* If it was asked for, ocrmypdf reads the part, which must be a PDF ...
StartOcr(t) ==
  LET s == req[t].ts
  IN  /\ req[t].pc = "converted" /\ Shows(part[s]) # None
      /\ ocr' = [ocr EXCEPT ![s] = Opened(@, t)]
      /\ req' = [req EXCEPT ![t].pc = "ocr", ![t].copy = Shows(part[s])]
      /\ UNCHANGED <<now, device, tiff, part, spart, final, script, scans, faults, began,
                     killed>>

\* ... and its searchable copy replaces the part, if it still has its name.
EndOcr(t) ==
  LET s == req[t].ts
  IN  /\ req[t].pc = "ocr"
      /\ part' = [part EXCEPT ![s] =
           Written(IF ocr[s] = None THEN @ ELSE ocr[s], t, req[t].copy)]
      /\ ocr' = Unlink(ocr, s)
      /\ final' = [final EXCEPT ![s] = Written(@, t, req[t].copy)]
      /\ req' = [req EXCEPT ![t].pc = "searchable", ![t].copy = None]
      /\ UNCHANGED <<now, device, tiff, spart, script, scans, faults, began, killed>>

OcrFails(t) ==
  LET s == req[t].ts
  IN  /\ req[t].pc = "ocr"
      /\ Fault
      /\ part' = [part EXCEPT ![s] = Written(@, t, None)]
      /\ ocr' = Unlink(ocr, s)
      /\ final' = [final EXCEPT ![s] = Written(@, t, None)]
      /\ req' = [req EXCEPT ![t].pc = "searchable", ![t].copy = None]
      /\ UNCHANGED <<now, device, tiff, spart, script, scans, began, killed>>

\* With or without a text layer, the part becomes the PDF.  Without a part the
\* handler raises.
Publish(t) ==
  LET s == req[t].ts
  IN  /\ req[t].pc \in {"converted", "searchable"}
      /\ IF part[s] = None THEN UNCHANGED <<part, final>>
         ELSE /\ final' = [final EXCEPT ![s] = part[s]]
              /\ part' = Unlink(part, s)
      /\ Ends(t)
      /\ UNCHANGED <<now, device, tiff, ocr, spart, script, scans, faults, began, killed>>

Browser(t) ==
  \/ Begin(t) \/ StartScan(t) \/ DeviceBusy(t) \/ EndScan(t)
  \/ ScanFails(t) \/ StartConvert(t) \/ EndConvert(t) \/ ConvertFails(t)
  \/ StartOcr(t) \/ EndOcr(t) \/ OcrFails(t) \/ Publish(t)

\* The library lists what has a visible name.
Library == {s \in Seconds : final[s] # None}

\* Its delete button.
Delete(s) ==
  /\ s \in Library
  /\ final' = Unlink(final, s)
  /\ UNCHANGED <<now, device, tiff, part, ocr, spart, req, script, scans, faults, began,
                 killed>>

\* The panel dies; systemd ends the scanimage it had started.
PanelCrash ==
  /\ Fault
  /\ killed' = TRUE
  /\ req' = [t \in Threads |-> IdleReq]
  /\ device' = IF device \in Threads THEN None ELSE device
  /\ UNCHANGED <<now, share, script, scans, began>>

------------------------------------------------------------------------
(* A scan by button: scan2pdf.sh.  Its pages and its PDF are in a private   *)
(* directory; pages are known by the scanimage that wrote them.             *)

IdleScript == [pc |-> "idle", ts |-> 0, attempt |-> 0,
               pages |-> {}, pdf |-> {}]
Runs == script.pc # "idle"
Page(source) == <<script.attempt, source>>

ScriptStarts ==
  /\ ~Runs
  /\ script' = [IdleScript EXCEPT !.pc = "feeder", !.ts = now, !.attempt = 1]
  /\ began' = [began EXCEPT ![now].button = @ + 1]
  /\ UNCHANGED <<now, device, share, req, scans, faults, killed>>

\* scanimage takes the scanner, for the feeder or for the glass.
TakesDevice ==
  /\ script.pc \in {"feeder", "glass"} /\ device = None
  /\ device' = Script
  /\ script' = [script EXCEPT !.pc = IF @ = "feeder" THEN "feeding" ELSE "copying"]
  /\ UNCHANGED <<now, share, req, scans, faults, began, killed>>

Feeds ==
  /\ script.pc = "feeding"
  /\ device' = None
  /\ script' = [script EXCEPT !.pc = "build", !.pages = @ \cup {Page("feeder")}]
  /\ UNCHANGED <<now, share, req, scans, faults, began, killed>>

\* Mutant: the glass adds to what the feeder has left.
FeederLeavesPages ==
  /\ script.pc = "feeding" /\ device' = None
  /\ script' = [script EXCEPT !.pc = "glass", !.pages = {Page("feeder")}]
  /\ UNCHANGED <<now, share, req, scans, faults, began, killed>>

\* The feeder is empty, jams after some pages, or the scanner is taken.  The pages
\* it has left are removed before the glass is tried.
FeederFails ==
  /\ \/ script.pc = "feeding" /\ device' = None
     \/ script.pc = "feeder" /\ device # None /\ UNCHANGED device
  /\ script' = [script EXCEPT !.pc = "glass", !.pages = {}]
  /\ UNCHANGED <<now, share, req, scans, faults, began, killed>>

Copies ==
  /\ script.pc = "copying"
  /\ device' = None
  /\ script' = [script EXCEPT !.pc = "build", !.pages = @ \cup {Page("glass")}]
  /\ UNCHANGED <<now, share, req, scans, faults, began, killed>>

\* No usable page, or no PDF from it: all is removed and tried again, or given up.
Retry ==
  IF script.attempt = Attempts THEN script' = IdleScript
  ELSE script' = [script EXCEPT !.pc = "feeder", !.attempt = @ + 1,
                                !.pages = {}, !.pdf = {}]

GlassFails ==
  /\ \/ script.pc = "copying" /\ Fault /\ device' = None
     \/ script.pc = "glass" /\ device # None /\ UNCHANGED <<device, faults>>
  /\ Retry
  /\ UNCHANGED <<now, share, req, scans, began, killed>>

Build ==
  /\ script.pc = "build"
  /\ script' = [script EXCEPT !.pc = "built", !.pdf = script.pages]
  /\ UNCHANGED <<now, device, share, req, scans, faults, began, killed>>

BuildFails ==
  /\ script.pc = "build"
  /\ Fault
  /\ Retry
  /\ UNCHANGED <<now, device, share, req, scans, began, killed>>

\* Mutant: the PDF is copied to its visible name.
StartCopyInPlace ==
  /\ script.pc = "built"
  /\ final' = [final EXCEPT ![script.ts] = Opened(@, Script)]
  /\ script' = [script EXCEPT !.pc = "saving"]
  /\ UNCHANGED <<now, device, tiff, part, ocr, spart, req, scans, faults, began, killed>>

\* The PDF, with a text layer or without, is copied into the share ...
StartCopy ==
  /\ script.pc = "built"
  /\ spart' = [spart EXCEPT ![script.ts] = Opened(@, Script)]
  /\ script' = [script EXCEPT !.pc = "saving"]
  /\ UNCHANGED <<now, device, tiff, part, ocr, final, req, scans, faults, began, killed>>

EndCopy ==
  /\ script.pc = "saving"
  /\ spart' = [spart EXCEPT ![script.ts] = Written(@, Script, <<Script, script.ts>>)]
  /\ script' = [script EXCEPT !.pc = "saved"]
  /\ UNCHANGED <<now, device, tiff, part, ocr, final, req, scans, faults, began, killed>>

\* ... or cannot: the trap removes it.
CopyFails ==
  /\ script.pc \in {"saving", "saved"}
  /\ Fault
  /\ spart' = Unlink(spart, script.ts)
  /\ script' = IdleScript
  /\ UNCHANGED <<now, device, tiff, part, ocr, final, req, scans, began, killed>>

\* Mutant: the PDF goes by another second than the one the script began in.
MoveToNow ==
  /\ script.pc = "saved"
  /\ final' = [final EXCEPT ![now] = spart[script.ts]]
  /\ spart' = Unlink(spart, script.ts)
  /\ script' = IdleScript
  /\ UNCHANGED <<now, device, tiff, part, ocr, req, scans, faults, began, killed>>

\* ... and renamed; then the endpoints are told.
Move ==
  /\ script.pc = "saved"
  /\ final' = [final EXCEPT ![script.ts] = spart[script.ts]]
  /\ spart' = Unlink(spart, script.ts)
  /\ script' = IdleScript
  /\ UNCHANGED <<now, device, tiff, part, ocr, req, scans, faults, began, killed>>

ScriptSteps ==
  \/ TakesDevice \/ Feeds \/ FeederFails \/ Copies \/ GlassFails
  \/ Build \/ BuildFails \/ StartCopy \/ EndCopy \/ CopyFails \/ Move

\* Whoever started the script gives up on it and kills the shell: the trap does not
\* run, and the scanimage it had started goes on without it.
KillScript ==
  /\ Runs
  /\ Fault
  /\ killed' = TRUE
  /\ script' = IdleScript
  /\ device' = IF device = Script THEN "orphan" ELSE device
  /\ UNCHANGED <<now, share, req, scans, began>>

OrphanEnds ==
  /\ device = "orphan"
  /\ device' = None
  /\ UNCHANGED <<now, share, req, script, scans, faults, began, killed>>

------------------------------------------------------------------------
Tick ==
  /\ now < MaxTime
  /\ now' = now + 1
  /\ UNCHANGED <<device, share, req, script, scans, faults, began, killed>>

ScanInit ==
  /\ now = 0 /\ device = None
  /\ tiff = [s \in Seconds |-> None] /\ part = [s \in Seconds |-> None]
  /\ ocr = [s \in Seconds |-> None]
  /\ spart = [s \in Seconds |-> None] /\ final = [s \in Seconds |-> None]
  /\ req = [t \in Threads |-> IdleReq] /\ script = IdleScript
  /\ scans = 0 /\ faults = 0
  /\ began = [s \in Seconds |-> [browser |-> 0, button |-> 0]] /\ killed = FALSE

\* Everything but the start and the end of the script by its caller.
ScanSteps ==
  \/ \E t \in Threads : Browser(t)
  \/ \E s \in Seconds : Delete(s)
  \/ ScriptSteps \/ PanelCrash \/ OrphanEnds \/ Tick

------------------------------------------------------------------------
(* Properties.                                                             *)

ReqRecord == [pc : {"idle", "opened", "scanning", "scanned", "converting",
                    "converted", "ocr", "searchable"},
              ts : Seconds, copy : Scans \cup {None}]
Pages == (1..Attempts) \X {"feeder", "glass"}
ScriptRecord ==
  [pc : {"idle", "feeder", "feeding", "glass", "copying", "build", "built",
         "saving", "saved"},
   ts : Seconds, attempt : 0..Attempts,
   pages : SUBSET Pages, pdf : SUBSET Pages]
Folder == [Seconds -> File \cup {None}]

\* The types of the variables; who scans has the scanner, and only that one.
ScanTypeOK ==
  /\ now \in Seconds /\ device \in Actors \cup {None, "orphan"}
  /\ {tiff, part, ocr, spart, final} \subseteq Folder
  /\ req \in [Threads -> ReqRecord] /\ script \in ScriptRecord
  /\ scans \in 0..MaxScans /\ faults \in 0..MaxFaults /\ killed \in BOOLEAN
  /\ began \in [Seconds -> [browser : 0..MaxScans, button : Nat]]
  /\ \A t \in Threads : req[t].pc = "scanning" <=> device = t
  /\ script.pc \in {"feeding", "copying"} <=> device = Script

\* Whoever looks into the folder sees finished PDFs only, whatever fails and
\* whatever is killed; two scans from the browser in one second are the exception,
\* a scan from the browser and one by button in one second are not.
LibraryShowsWholePdfs ==
  \A s \in Library :
    \/ final[s].open = {} /\ final[s].whole # None
    \/ began[s].browser > 1

\* A scan in the library is not replaced by another one, unless they were begun in
\* the same second.
NothingOverwritten ==
  [][\A s \in Seconds :
       final[s] # None /\ final'[s] # None /\ final'[s] # final[s]
         => began[s].browser + began[s].button > 1]_final

\* When nobody scans, the share holds no intermediate file, however the scans ended
\* and even if they shared their names; only a kill leaves some behind.
NoLeftovers ==
  (\A t \in Threads : req[t].pc = "idle") /\ ~Runs /\ ~killed =>
    \A s \in Seconds : \A dir \in {tiff, part, ocr, spart} : dir[s] = None

\* The pages of a PDF by button come from one run of scanimage: pages of a feeder
\* that failed or of an earlier attempt never get into it, and it has one.
PagesFromOneRun == script.pc \in {"built", "saving", "saved"} =>
                     Cardinality(script.pdf) = 1
========================================================================
