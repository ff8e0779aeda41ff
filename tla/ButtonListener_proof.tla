---------------------- MODULE ButtonListener_proof ----------------------
(***************************************************************************)
(* Proofs about ButtonListener and ScanPublish, for every set of request   *)
(* threads and every bound: the types of the variables, that a press of    *)
(* the button starts one scan at most, that a PDF by button has the pages  *)
(* of one run, and what the shared folder shows, loses and keeps.          *)
(***************************************************************************)
EXTENDS ButtonListener, SequenceTheorems, FiniteSetTheorems, TLAPS

------------------------------------------------------------------------
(* The inductive invariant.                                                *)

\* What the types need beyond TypeOK: a running script is at its first attempt or a
\* later one, and no second has begun more scans than there were.
CountInv ==
  /\ Runs => script.attempt \in 1..Attempts
  /\ \A s \in Seconds : began[s].browser <= scans

\* The clock has passed the second of the last script, and that was the last one in
\* which a script was begun; who is at work was begun in its second.
BegunInv ==
  /\ lis.last # None => lis.last <= now
  /\ \A s \in Seconds : began[s].button > 0 => lis.last # None /\ s <= lis.last
  /\ Runs => began[script.ts].button > 0
  /\ \A t \in Threads : req[t].pc # "idle" => began[req[t].ts].browser > 0

\* There are no pages until scanimage has made one.
PagesInv ==
  /\ script.pc \in {"feeder", "feeding", "glass", "copying"} => script.pages = {}
  /\ script.pc = "build" => Cardinality(script.pages) = 1
  /\ PagesFromOneRun

\* The press whose script is about to start or has been started.
Spent(k) == fired[k] > 0 \/ (lis.pc = "settle" /\ lis.press = k)

\* The packets of a press stand together; those of a press that was acted on stand
\* in front of every other, so that the packet that arms comes after them.
PacketInv ==
  /\ \A i \in 1..Len(packets) : packets[i] <= presses
  /\ \A i, m, j \in 1..Len(packets) :
       i <= m /\ m <= j /\ packets[i] = packets[j] /\ packets[i] # Released
         => packets[m] = packets[i]
  /\ \A k \in Presses : Spent(k) =>
       /\ k <= presses
       /\ \A i, j \in 1..Len(packets) : packets[i] = k /\ j <= i => packets[j] = k

\* A listener that is armed has left the packets of every spent press behind.
PressInv ==
  /\ button <= presses
  /\ lis.pc = "find" => ~lis.armed
  /\ lis.pc = "settle" => lis.press \in Presses /\ fired[lis.press] = 0
  /\ lis.pc = "reading" /\ lis.armed =>
       \A k \in Presses : Spent(k) => \A i \in 1..Len(packets) : packets[i] # k
  /\ NoPhantomScan

AtWork(t, s) == req[t].pc # "idle" /\ req[t].ts = s
Good(f)      == f # None /\ f.open = {} /\ f.whole # None
Fresh(a)     == [open |-> {a}, mixed |-> FALSE, whole |-> None]

\* What the scan of t, alone in its second s, has made so far.
Progress(t, s) ==
  /\ req[t].pc \in {"opened", "scanning"} => tiff[s] = Fresh(t)
  /\ req[t].pc \in {"scanned", "converting"} => Good(tiff[s])
  /\ req[t].pc \in {"opened", "scanning", "scanned"} => part[s] = None
  /\ req[t].pc = "converting" => part[s] = Fresh(t)
  /\ req[t].pc \in {"converted", "ocr", "searchable"} => Good(part[s])
  /\ req[t].pc # "ocr" => ocr[s] = None
  /\ req[t].pc = "ocr" => ocr[s] = Fresh(t) /\ req[t].copy # None

\* A second in which no scan was begun from the browser has no file of one; in a
\* second with one scan its thread is alone with the files.
LoneInv ==
  \A s \in Seconds : began[s].browser <= 1 =>
    /\ began[s].browser = 0 => tiff[s] = None /\ part[s] = None /\ ocr[s] = None
    /\ \A t, u \in Threads : AtWork(t, s) /\ AtWork(u, s) => t = u
    /\ \A t \in Threads : AtWork(t, s) => Progress(t, s)
    /\ final[s] # None => Good(final[s])

\* The file of the script is its own.
CopyInv ==
  /\ \A s \in Seconds : began[s].button = 0 => spart[s] = None
  /\ script.pc = "saving" => spart[script.ts] = Fresh(Script)
  /\ script.pc = "saved" => Good(spart[script.ts])
  /\ Runs /\ script.pc \notin {"saving", "saved"} => spart[script.ts] = None

\* In a second with one scan nothing is in the library before that scan is over.
FreeInv ==
  \A s \in Seconds :
    /\ began[s].browser + began[s].button = 0 => final[s] = None
    /\ began[s].browser + began[s].button = 1 =>
         /\ \A t \in Threads : AtWork(t, s) => final[s] = None
         /\ Runs /\ script.ts = s => final[s] = None

\* Unless something was killed, every intermediate file has somebody who is going
\* to rename it or to remove it.
OwnerInv ==
  ~killed => \A s \in Seconds :
    /\ tiff[s] # None => \E t \in Threads :
         AtWork(t, s) /\ req[t].pc \in {"opened", "scanning", "scanned", "converting"}
    /\ part[s] # None => \E t \in Threads :
         AtWork(t, s) /\ req[t].pc \in {"converting", "converted", "ocr", "searchable"}
    /\ ocr[s] # None => \E t \in Threads : AtWork(t, s) /\ req[t].pc = "ocr"
    /\ spart[s] # None => script.pc \in {"saving", "saved"} /\ script.ts = s

TypeInv == TypeOK /\ CountInv
ScanInv == LoneInv /\ CopyInv /\ FreeInv /\ OwnerInv
IInv == TypeInv /\ BegunInv /\ PagesInv /\ PacketInv /\ PressInv /\ ScanInv

------------------------------------------------------------------------
(* Files.                                                                  *)

\* A record with the fields of a file is a file.
LEMMA FileRecord ==
  ASSUME NEW o \in SUBSET Actors, NEW m \in BOOLEAN, NEW w \in Scans \cup {None}
  PROVE  /\ [open |-> o, mixed |-> m, whole |-> w] \in File
         /\ [open |-> o, mixed |-> m, whole |-> w] # None
  <1>1. [open |-> o, mixed |-> m, whole |-> w] \in File
    BY Zenon DEF File
  <1> QED BY <1>1, NoneAssumption

\* So is one just created,
LEMMA FreshFile ==
  ASSUME NEW a \in Actors
  PROVE  Fresh(a) \in File /\ Fresh(a) # None
  <1>1. {a} \in SUBSET Actors /\ FALSE \in BOOLEAN /\ None \in Scans \cup {None}
    OBVIOUS
  <1> QED BY <1>1, FileRecord, Zenon DEF Fresh

\* one that was opened,
LEMMA OpenedFile ==
  ASSUME NEW f \in File \cup {None}, NEW a \in Actors
  PROVE  /\ Opened(f, a) \in File
         /\ Opened(f, a) # None
         /\ f = None => Opened(f, a) = Fresh(a)
  <1>1. CASE f = None
    <2>1. Opened(f, a) = Fresh(a)
      BY <1>1 DEF Opened, Fresh
    <2> QED BY <2>1, FreshFile
  <1>2. CASE f # None
    <2>1. f.open \cup {a} \in SUBSET Actors
      BY <1>2 DEF File
    <2>2. Opened(f, a) = [open |-> f.open \cup {a}, mixed |-> f.open \ {a} # {}, whole |-> None]
      BY <1>2 DEF Opened
    <2>3. (f.open \ {a} # {}) \in BOOLEAN /\ None \in Scans \cup {None}
      OBVIOUS
    <2> QED BY <1>2, <2>1, <2>2, <2>3, FileRecord, Zenon
  <1> QED BY <1>1, <1>2

\* and one that was written; a whole file without writers stays as it is.
LEMMA WrittenFile ==
  ASSUME NEW f \in File \cup {None}, NEW a \in Actors, NEW w \in Scans \cup {None}
  PROVE  /\ Written(f, a, w) \in File \cup {None}
         /\ Written(f, a, w) = None <=> f = None
         /\ Good(f) => Written(f, a, w) = f
         /\ f = Fresh(a) /\ w # None => Good(Written(f, a, w))
  <1>1. CASE f = None
    BY <1>1, FreshFile DEF Written, Good
  <1>2. CASE f # None
    <2>1. f \in File
      BY <1>2
    <2>2. Written(f, a, w) \in File
      BY <2>1, <1>2 DEF Written, File
    <2>3. Good(f) => Written(f, a, w) = f
      BY <1>2 DEF Written, Good
    <2>4. f = Fresh(a) /\ w # None => Good(Written(f, a, w))
      <3> SUFFICES ASSUME f = Fresh(a), w # None
                   PROVE  Good(Written(f, a, w))
        OBVIOUS
      <3>1. f.open = {a} /\ f.mixed = FALSE
        BY DEF Fresh
      <3>2. Written(f, a, w) = [open |-> {a} \ {a}, mixed |-> FALSE, whole |-> w]
        BY <1>2, <3>1 DEF Written
      <3>3. Written(f, a, w) # None
        BY <2>2, NoneAssumption
      <3>4. Written(f, a, w).open = {} /\ Written(f, a, w).whole = w
        BY <3>2
      <3> QED BY <3>3, <3>4 DEF Good
    <2> QED BY <1>2, <2>2, <2>3, <2>4, NoneAssumption
  <1> QED BY <1>1, <1>2

\* What a file shows is a scan or nothing.
LEMMA ShownScan ==
  ASSUME NEW f \in File \cup {None}
  PROVE  /\ Shows(f) \in Scans \cup {None}
         /\ Good(f) => Shows(f) # None
  BY NoneAssumption DEF Shows, File, Good

------------------------------------------------------------------------
(* What the steps of a request thread have in common.                      *)

ReqStates == {"idle", "opened", "scanning", "scanned", "converting",
              "converted", "ocr", "searchable"}

\* A new record of one request is the only change.
LEMMA ReqChange ==
  ASSUME req \in [Threads -> ReqRecord], NEW t \in Threads, NEW r \in ReqRecord,
         req' = [req EXCEPT ![t] = r]
  PROVE  /\ req' \in [Threads -> ReqRecord]
         /\ req'[t] = r
         /\ \A u \in Threads \ {t} : req'[u] = req[u]
  OBVIOUS

\* The fields of a request have their types.
LEMMA ReqFields ==
  ASSUME NEW r \in ReqRecord
  PROVE  r.pc \in ReqStates /\ r.ts \in Seconds /\ r.copy \in Scans \cup {None}
  BY DEF ReqRecord, ReqStates

\* A request that moves on keeps its second and its copy, and the others everything.
LEMMA ReqGoes ==
  ASSUME req \in [Threads -> ReqRecord], NEW t \in Threads, NEW p \in ReqStates,
         Goes(t, p)
  PROVE  /\ req' \in [Threads -> ReqRecord]
         /\ req'[t].pc = p /\ req'[t].ts = req[t].ts /\ req'[t].copy = req[t].copy
         /\ \A u \in Threads \ {t} : req'[u] = req[u]
  <1> DEFINE r == [req[t] EXCEPT !.pc = p]
  <1>1. req[t] \in ReqRecord
    OBVIOUS
  <1>2. r \in ReqRecord
    BY <1>1, Zenon DEF ReqRecord, ReqStates
  <1>3. r.pc = p /\ r.ts = req[t].ts /\ r.copy = req[t].copy
    BY <1>1 DEF ReqRecord
  <1>4. req' = [req EXCEPT ![t] = r]
    BY DEF Goes
  <1> HIDE DEF r
  <1> QED BY <1>2, <1>3, <1>4, ReqChange

\* A scan from the browser begins.
LEMMA ReqBegins ==
  ASSUME req \in [Threads -> ReqRecord], NEW t \in Threads, now \in Seconds,
         req' = [req EXCEPT ![t].pc = "opened", ![t].ts = now]
  PROVE  /\ req' \in [Threads -> ReqRecord]
         /\ req'[t].pc = "opened" /\ req'[t].ts = now
         /\ \A u \in Threads \ {t} : req'[u] = req[u]
  <1> DEFINE r == [req[t] EXCEPT !.pc = "opened", !.ts = now]
  <1>1. req[t] \in ReqRecord
    OBVIOUS
  <1>2. r \in ReqRecord
    BY <1>1, Zenon DEF ReqRecord
  <1>3. r.pc = "opened" /\ r.ts = now
    BY <1>1 DEF ReqRecord
  <1>4. req' = [req EXCEPT ![t] = r]
    OBVIOUS
  <1> HIDE DEF r
  <1> QED BY <1>2, <1>3, <1>4, ReqChange

\* A request moves on with another copy of its page.
Hands(t, p, c) == req' = [req EXCEPT ![t].pc = p, ![t].copy = c]

\* ocrmypdf has the page, or has done with it.
LEMMA ReqCopies ==
  ASSUME req \in [Threads -> ReqRecord], NEW t \in Threads, NEW p \in ReqStates,
         NEW c \in Scans \cup {None}, Hands(t, p, c)
  PROVE  /\ req' \in [Threads -> ReqRecord]
         /\ req'[t].pc = p /\ req'[t].ts = req[t].ts /\ req'[t].copy = c
         /\ \A u \in Threads \ {t} : req'[u] = req[u]
  <1> DEFINE r == [req[t] EXCEPT !.pc = p, !.copy = c]
  <1>1. req[t] \in ReqRecord
    OBVIOUS
  <1>2. r \in ReqRecord
    BY <1>1, Zenon DEF ReqRecord, ReqStates
  <1>3. r.pc = p /\ r.ts = req[t].ts /\ r.copy = c
    BY <1>1 DEF ReqRecord
  <1>4. req' = [req EXCEPT ![t] = r]
    BY DEF Hands
  <1> HIDE DEF r
  <1> QED BY <1>2, <1>3, <1>4, ReqChange

\* A request that ends leaves the others alone.
LEMMA ReqEnds ==
  ASSUME req \in [Threads -> ReqRecord], NEW t \in Threads, Ends(t)
  PROVE  /\ req' \in [Threads -> ReqRecord]
         /\ req'[t].pc = "idle"
         /\ \A u \in Threads \ {t} : req'[u] = req[u]
  <1>1. IdleReq \in ReqRecord /\ IdleReq.pc = "idle"
    BY NumbersAssumption DEF IdleReq, ReqRecord, Seconds
  <1>2. req' = [req EXCEPT ![t] = IdleReq]
    BY DEF Ends
  <1> HIDE DEF IdleReq
  <1> QED BY <1>1, <1>2, ReqChange

\* The second whose files thread t works on.
SecondOf(t) == IF req[t].pc = "idle" THEN now ELSE req[t].ts

\* Nothing happens to the files of another second.
TouchesOnly(s) ==
  \A r \in Seconds \ {s} :
    /\ tiff'[r] = tiff[r] /\ part'[r] = part[r] /\ ocr'[r] = ocr[r]
    /\ final'[r] = final[r] /\ began'[r] = began[r]

FoldersStay == {tiff', part', ocr', spart', final'} \subseteq Folder

\* What the type invariant says, one variable at a time.
LEMMA Types ==
  ASSUME TypeInv
  PROVE  /\ now \in Seconds
         /\ tiff \in Folder /\ part \in Folder /\ ocr \in Folder
         /\ spart \in Folder /\ final \in Folder
         /\ req \in [Threads -> ReqRecord] /\ script \in ScriptRecord
         /\ scans \in 0..MaxScans /\ faults \in 0..MaxFaults
         /\ began \in [Seconds -> [browser : 0..MaxScans, button : Nat]]
         /\ \A t \in Threads : /\ req[t] \in ReqRecord
                               /\ req[t].ts \in Seconds /\ SecondOf(t) \in Seconds
                               /\ req[t].copy \in Scans \cup {None}
  <1>1. ScanTypeOK
    BY DEF TypeInv, TypeOK
  <1>2. \A t \in Threads : req[t] \in ReqRecord
    BY <1>1 DEF ScanTypeOK
  <1>3. now \in Seconds
    BY <1>1 DEF ScanTypeOK
  <1>4. \A t \in Threads : req[t].ts \in Seconds /\ req[t].copy \in Scans \cup {None}
    BY <1>2, ReqFields
  <1>5. \A t \in Threads : SecondOf(t) \in Seconds
    BY <1>3, <1>4 DEF SecondOf
  <1> QED BY <1>1, <1>2, <1>3, <1>4, <1>5 DEF ScanTypeOK

\* A name of the folder has a file or none.
LEMMA FileAt ==
  ASSUME NEW dir \in Folder, NEW s \in Seconds
  PROVE  dir[s] \in File \cup {None}
  BY DEF Folder

Turns(t, from, to)      == req[t].pc = from /\ req'[t].pc = to
Files(s, ti, pa, oc, fi) == tiff'[s] = ti /\ part'[s] = pa /\ ocr'[s] = oc /\ final'[s] = fi

\* What a step of thread t does to itself, the scanner and the files of its second.
Effect(t, s) ==
  \/ /\ Turns(t, "idle", "opened") /\ device' = device
     /\ Files(s, Opened(tiff[s], t), part[s], ocr[s], final[s])
  \/ /\ Turns(t, "opened", "scanning") /\ device = None /\ device' = t
     /\ Files(s, tiff[s], part[s], ocr[s], final[s])
  \/ /\ Turns(t, "opened", "idle") /\ device' = device
     /\ Files(s, None, part[s], ocr[s], final[s])
  \/ /\ Turns(t, "scanning", "scanned") /\ device' = None
     /\ Files(s, Written(tiff[s], t, <<t, s>>), part[s], ocr[s], final[s])
  \/ /\ Turns(t, "scanning", "idle") /\ device' = None
     /\ Files(s, None, part[s], ocr[s], final[s])
  \/ /\ Turns(t, "scanned", "converting") /\ device' = device
     /\ Files(s, tiff[s], Opened(part[s], t), ocr[s], final[s])
  \/ /\ Turns(t, "converting", "converted") /\ device' = device /\ Shows(tiff[s]) # None
     /\ Files(s, None, Written(part[s], t, Shows(tiff[s])), ocr[s],
              Written(final[s], t, Shows(tiff[s])))
  \/ /\ Turns(t, "converting", "idle") /\ device' = device
     /\ Files(s, None, None, ocr[s], Written(final[s], t, None))
  \/ /\ Turns(t, "converted", "ocr") /\ device' = device
     /\ req'[t].copy = Shows(part[s]) /\ Shows(part[s]) # None
     /\ Files(s, tiff[s], part[s], Opened(ocr[s], t), final[s])
  \/ /\ Turns(t, "ocr", "searchable") /\ device' = device
     /\ \/ Files(s, tiff[s], Written(IF ocr[s] = None THEN part[s] ELSE ocr[s], t, req[t].copy),
                 None, Written(final[s], t, req[t].copy))
        \/ Files(s, tiff[s], Written(part[s], t, None), None, Written(final[s], t, None))
  \/ /\ req[t].pc \in {"converted", "searchable"} /\ req'[t].pc = "idle" /\ device' = device
     /\ Files(s, tiff[s], None, ocr[s], IF part[s] = None THEN final[s] ELSE part[s])

\* A step of thread t stays in its second, leaves the other threads and the script
\* alone and keeps the files what they are.
StaysInSecond(t) ==
  /\ now' = now /\ script' = script /\ spart' = spart /\ killed' = killed
  /\ FoldersStay /\ TouchesOnly(SecondOf(t))
  /\ req' \in [Threads -> ReqRecord]
  /\ \A u \in Threads \ {t} : req'[u] = req[u]
  /\ req'[t].pc # "idle" => req'[t].ts = SecondOf(t)
  /\ req[t].pc # "idle" => began' = began /\ scans' = scans
  /\ req[t].pc = "idle" => /\ began' = [began EXCEPT ![now].browser = @ + 1]
                           /\ scans < MaxScans /\ scans' = scans + 1
  /\ faults' \in 0..MaxFaults
  /\ Effect(t, SecondOf(t))

\* A step of scan_now touches the names of its own second only.
LEMMA BrowserStays ==
  ASSUME TypeInv, NEW t \in Threads, Browser(t)
  PROVE  StaysInSecond(t)
  <1> DEFINE s == SecondOf(t)
  <1>t. /\ s \in Seconds /\ now \in Seconds /\ t \in Actors
        /\ tiff \in Folder /\ part \in Folder /\ ocr \in Folder
        /\ spart \in Folder /\ final \in Folder
        /\ req \in [Threads -> ReqRecord] /\ req[t] \in ReqRecord
    BY Types DEF Actors
  <1>f. /\ tiff[s] \in File \cup {None} /\ part[s] \in File \cup {None}
        /\ ocr[s] \in File \cup {None} /\ final[s] \in File \cup {None}
    BY <1>t, FileAt
  <1>s. req[t].pc # "idle" => s = req[t].ts
    BY DEF SecondOf
  <1>c. req[t].copy \in Scans \cup {None} /\ <<t, s>> \in Scans /\ None \in Scans \cup {None}
    BY <1>t, Types DEF Scans
  <1>p. ReqStates = {"idle", "opened", "scanning", "scanned", "converting",
                     "converted", "ocr", "searchable"}
    BY DEF ReqStates
  <1> HIDE DEF s
  <1>1. CASE Begin(t)
    <2>1. s = now
      BY <1>1 DEF Begin, s, SecondOf
    <2>2. Opened(tiff[s], t) \in File \cup {None}
      BY <1>t, <1>f, OpenedFile
    <2>3. /\ tiff' \in Folder /\ tiff'[s] = Opened(tiff[s], t)
          /\ \A r \in Seconds \ {s} : tiff'[r] = tiff[r]
      <3>1. tiff' = [tiff EXCEPT ![s] = Opened(tiff[s], t)]
        BY <1>1, <2>1 DEF Begin
      <3> QED BY <3>1, <1>t, <2>2 DEF Folder
    <2>4. \A r \in Seconds \ {s} : began'[r] = began[r]
      BY <1>1, <2>1, Types DEF Begin
    <2>7. /\ req' \in [Threads -> ReqRecord] /\ req'[t].ts = s /\ req'[t].pc = "opened"
          /\ \A u \in Threads \ {t} : req'[u] = req[u]
      BY <1>1, <1>t, <2>1, ReqBegins DEF Begin
    <2>e. Effect(t, s)
      BY <1>1, <1>t, <2>3, <2>4, <2>7 DEF Begin, Effect, Turns, Files
    <2>f. faults' \in 0..MaxFaults
      BY <1>1, Types DEF Begin, Fault
    <2> QED BY <1>1, <1>t, <2>3, <2>4, <2>7, <2>e, <2>f DEF Begin, StaysInSecond, FoldersStay, TouchesOnly, s
  <1>2. CASE StartScan(t)
    <2>1. s = req[t].ts /\ req[t].pc # "idle"
      BY <1>2, <1>s DEF StartScan
    <2>2. /\ req' \in [Threads -> ReqRecord] /\ req'[t].ts = s /\ req'[t].pc = "scanning"
          /\ \A u \in Threads \ {t} : req'[u] = req[u]
      BY <1>2, <1>t, <1>p, <2>1, ReqGoes DEF StartScan, Goes
    <2>e. Effect(t, s)
      BY <1>2, <1>t, <2>1, <2>2 DEF StartScan, Goes, share, Effect, Turns, Files
    <2>f. faults' \in 0..MaxFaults
      BY <1>2, Types DEF StartScan, Fault
    <2> QED BY <1>2, <1>t, <2>1, <2>2, <2>e, <2>f DEF StartScan, StaysInSecond, FoldersStay, TouchesOnly, share, s
  <1>3. CASE DeviceBusy(t)
    <2>1. s = req[t].ts /\ req[t].pc # "idle"
      BY <1>3, <1>s DEF DeviceBusy
    <2>2. /\ req' \in [Threads -> ReqRecord] /\ req'[t].pc = "idle"
          /\ \A u \in Threads \ {t} : req'[u] = req[u]
      BY <1>3, <1>t, ReqEnds DEF DeviceBusy
    <2>3. /\ tiff' \in Folder /\ tiff'[s] = None
          /\ \A r \in Seconds \ {s} : tiff'[r] = tiff[r]
      <3>1. tiff' = [tiff EXCEPT ![s] = None]
        BY <1>3, <2>1 DEF DeviceBusy, Unlink
      <3> QED BY <3>1, <1>t DEF Folder
    <2>e. Effect(t, s)
      BY <1>3, <1>t, <2>1, <2>2, <2>3 DEF DeviceBusy, Goes, share, Effect, Turns, Files
    <2>f. faults' \in 0..MaxFaults
      BY <1>3, Types DEF DeviceBusy, Fault
    <2> QED BY <1>3, <1>t, <2>1, <2>2, <2>3, <2>e, <2>f DEF DeviceBusy, StaysInSecond, FoldersStay, TouchesOnly, share, s
  <1>4. CASE EndScan(t)
    <2>1. s = req[t].ts /\ req[t].pc # "idle"
      BY <1>4, <1>s DEF EndScan
    <2>2. /\ req' \in [Threads -> ReqRecord] /\ req'[t].ts = s /\ req'[t].pc = "scanned"
          /\ \A u \in Threads \ {t} : req'[u] = req[u]
      BY <1>4, <1>t, <1>p, <2>1, ReqGoes DEF EndScan
    <2>3. Written(tiff[s], t, <<t, s>>) \in File \cup {None}
      BY <1>t, <1>f, <1>c, WrittenFile
    <2>4. /\ tiff' \in Folder /\ tiff'[s] = Written(tiff[s], t, <<t, s>>)
          /\ \A r \in Seconds \ {s} : tiff'[r] = tiff[r]
      <3>1. tiff' = [tiff EXCEPT ![s] = Written(tiff[s], t, <<t, s>>)]
        BY <1>4, <2>1 DEF EndScan
      <3> QED BY <3>1, <1>t, <2>3 DEF Folder
    <2>e. Effect(t, s)
      BY <1>4, <1>t, <2>1, <2>2, <2>4 DEF EndScan, Goes, share, Effect, Turns, Files
    <2>f. faults' \in 0..MaxFaults
      BY <1>4, Types DEF EndScan, Fault
    <2> QED BY <1>4, <1>t, <2>1, <2>2, <2>4, <2>e, <2>f DEF EndScan, StaysInSecond, FoldersStay, TouchesOnly, share, s
  <1>5. CASE ScanFails(t)
    <2>1. s = req[t].ts /\ req[t].pc # "idle"
      BY <1>5, <1>s DEF ScanFails
    <2>2. /\ req' \in [Threads -> ReqRecord] /\ req'[t].pc = "idle"
          /\ \A u \in Threads \ {t} : req'[u] = req[u]
      BY <1>5, <1>t, ReqEnds DEF ScanFails
    <2>3. /\ tiff' \in Folder /\ tiff'[s] = None
          /\ \A r \in Seconds \ {s} : tiff'[r] = tiff[r]
      <3>1. tiff' = [tiff EXCEPT ![s] = None]
        BY <1>5, <2>1 DEF ScanFails, Unlink
      <3> QED BY <3>1, <1>t DEF Folder
    <2>e. Effect(t, s)
      BY <1>5, <1>t, <2>1, <2>2, <2>3 DEF ScanFails, Goes, share, Effect, Turns, Files
    <2>f. faults' \in 0..MaxFaults
      BY <1>5, Types, NumbersAssumption DEF ScanFails, Fault
    <2> QED BY <1>5, <1>t, <2>1, <2>2, <2>3, <2>e, <2>f DEF ScanFails, StaysInSecond, FoldersStay, TouchesOnly, share, s
  <1>6. CASE StartConvert(t)
    <2>1. s = req[t].ts /\ req[t].pc # "idle"
      BY <1>6, <1>s DEF StartConvert
    <2>2. /\ req' \in [Threads -> ReqRecord] /\ req'[t].ts = s /\ req'[t].pc = "converting"
          /\ \A u \in Threads \ {t} : req'[u] = req[u]
      BY <1>6, <1>t, <1>p, <2>1, ReqGoes DEF StartConvert
    <2>3. Opened(part[s], t) \in File \cup {None}
      BY <1>t, <1>f, OpenedFile
    <2>4. /\ part' \in Folder /\ part'[s] = Opened(part[s], t)
          /\ \A r \in Seconds \ {s} : part'[r] = part[r]
      <3>1. part' = [part EXCEPT ![s] = Opened(part[s], t)]
        BY <1>6, <2>1 DEF StartConvert
      <3> QED BY <3>1, <1>t, <2>3 DEF Folder
    <2>e. Effect(t, s)
      BY <1>6, <1>t, <2>1, <2>2, <2>4 DEF StartConvert, Effect, Turns, Files
    <2>f. faults' \in 0..MaxFaults
      BY <1>6, Types DEF StartConvert, Fault
    <2> QED BY <1>6, <1>t, <2>1, <2>2, <2>4, <2>e, <2>f DEF StartConvert, StaysInSecond, FoldersStay, TouchesOnly, share, s
  <1>7. CASE EndConvert(t)
    <2>1. s = req[t].ts /\ req[t].pc # "idle"
      BY <1>7, <1>s DEF EndConvert
    <2>2. /\ req' \in [Threads -> ReqRecord] /\ req'[t].ts = s /\ req'[t].pc = "converted"
          /\ \A u \in Threads \ {t} : req'[u] = req[u]
      BY <1>7, <1>t, <1>p, <2>1, ReqGoes DEF EndConvert
    <2>3. Shows(tiff[s]) \in Scans \cup {None}
      BY <1>f, ShownScan
    <2>4. Written(part[s], t, Shows(tiff[s])) \in File \cup {None}
      BY <1>t, <1>f, <1>c, <2>3, WrittenFile
    <2>5. /\ part' \in Folder /\ part'[s] = Written(part[s], t, Shows(tiff[s]))
          /\ \A r \in Seconds \ {s} : part'[r] = part[r]
      <3>1. part' = [part EXCEPT ![s] = Written(part[s], t, Shows(tiff[s]))]
        BY <1>7, <2>1 DEF EndConvert
      <3> QED BY <3>1, <1>t, <2>4 DEF Folder
    <2>6. Written(final[s], t, Shows(tiff[s])) \in File \cup {None}
      BY <1>t, <1>f, <1>c, <2>3, WrittenFile
    <2>7. /\ final' \in Folder /\ final'[s] = Written(final[s], t, Shows(tiff[s]))
          /\ \A r \in Seconds \ {s} : final'[r] = final[r]
      <3>1. final' = [final EXCEPT ![s] = Written(final[s], t, Shows(tiff[s]))]
        BY <1>7, <2>1 DEF EndConvert
      <3> QED BY <3>1, <1>t, <2>6 DEF Folder
    <2>8. /\ tiff' \in Folder /\ tiff'[s] = None
          /\ \A r \in Seconds \ {s} : tiff'[r] = tiff[r]
      <3>1. tiff' = [tiff EXCEPT ![s] = None]
        BY <1>7, <2>1 DEF EndConvert, Unlink
      <3> QED BY <3>1, <1>t DEF Folder
    <2>e. Effect(t, s)
      BY <1>7, <1>t, <2>1, <2>2, <2>5, <2>7, <2>8 DEF EndConvert, Effect, Turns, Files
    <2>f. faults' \in 0..MaxFaults
      BY <1>7, Types DEF EndConvert, Fault
    <2> QED BY <1>7, <1>t, <2>1, <2>2, <2>5, <2>7, <2>8, <2>e, <2>f DEF EndConvert, StaysInSecond, FoldersStay, TouchesOnly, share, s
  <1>8. CASE ConvertFails(t)
    <2>1. s = req[t].ts /\ req[t].pc # "idle"
      BY <1>8, <1>s DEF ConvertFails
    <2>2. /\ req' \in [Threads -> ReqRecord] /\ req'[t].pc = "idle"
          /\ \A u \in Threads \ {t} : req'[u] = req[u]
      BY <1>8, <1>t, ReqEnds DEF ConvertFails
    <2>3. Written(final[s], t, None) \in File \cup {None}
      BY <1>t, <1>f, <1>c, WrittenFile
    <2>4. /\ final' \in Folder /\ final'[s] = Written(final[s], t, None)
          /\ \A r \in Seconds \ {s} : final'[r] = final[r]
      <3>1. final' = [final EXCEPT ![s] = Written(final[s], t, None)]
        BY <1>8, <2>1 DEF ConvertFails
      <3> QED BY <3>1, <1>t, <2>3 DEF Folder
    <2>5. /\ tiff' \in Folder /\ tiff'[s] = None
          /\ \A r \in Seconds \ {s} : tiff'[r] = tiff[r]
      <3>1. tiff' = [tiff EXCEPT ![s] = None]
        BY <1>8, <2>1 DEF ConvertFails, Unlink
      <3> QED BY <3>1, <1>t DEF Folder
    <2>6. /\ part' \in Folder /\ part'[s] = None
          /\ \A r \in Seconds \ {s} : part'[r] = part[r]
      <3>1. part' = [part EXCEPT ![s] = None]
        BY <1>8, <2>1 DEF ConvertFails, Unlink
      <3> QED BY <3>1, <1>t DEF Folder
    <2>e. Effect(t, s)
      BY <1>8, <1>t, <2>1, <2>2, <2>4, <2>5, <2>6 DEF ConvertFails, Effect, Turns, Files
    <2>f. faults' \in 0..MaxFaults
      BY <1>8, Types, NumbersAssumption DEF ConvertFails, Fault
    <2> QED BY <1>8, <1>t, <2>1, <2>2, <2>4, <2>5, <2>6, <2>e, <2>f DEF ConvertFails, StaysInSecond, FoldersStay, TouchesOnly, share, s
  <1>9. CASE StartOcr(t)
    <2>1. s = req[t].ts /\ req[t].pc # "idle"
      BY <1>9, <1>s DEF StartOcr
    <2>2. Shows(part[s]) \in Scans \cup {None}
      BY <1>f, ShownScan
    <2>3. Opened(ocr[s], t) \in File \cup {None}
      BY <1>t, <1>f, OpenedFile
    <2>4. /\ ocr' \in Folder /\ ocr'[s] = Opened(ocr[s], t)
          /\ \A r \in Seconds \ {s} : ocr'[r] = ocr[r]
      <3>1. ocr' = [ocr EXCEPT ![s] = Opened(ocr[s], t)]
        BY <1>9, <2>1 DEF StartOcr
      <3> QED BY <3>1, <1>t, <2>3 DEF Folder
    <2>7. /\ req' \in [Threads -> ReqRecord] /\ req'[t].ts = s /\ req'[t].pc = "ocr" /\ req'[t].copy = Shows(part[s])
          /\ \A u \in Threads \ {t} : req'[u] = req[u]
      <3>1. Hands(t, "ocr", Shows(part[s]))
        BY <1>9, <2>1 DEF StartOcr, Hands
      <3> QED BY <3>1, <1>t, <1>p, <2>1, <2>2, ReqCopies
    <2>e. Effect(t, s)
      BY <1>9, <1>t, <2>1, <2>4, <2>7 DEF StartOcr, Effect, Turns, Files
    <2>f. faults' \in 0..MaxFaults
      BY <1>9, Types DEF StartOcr, Fault
    <2> QED BY <1>9, <1>t, <2>1, <2>4, <2>7, <2>e, <2>f DEF StartOcr, StaysInSecond, FoldersStay, TouchesOnly, s
  <1>10. CASE EndOcr(t)
    <2> DEFINE f == IF ocr[s] = None THEN part[s] ELSE ocr[s]
    <2>1. s = req[t].ts /\ req[t].pc # "idle"
      BY <1>10, <1>s DEF EndOcr
    <2>2. f \in File \cup {None}
      BY <1>f
    <2>3. /\ Written(f, t, req[t].copy) \in File \cup {None}
          /\ Written(final[s], t, req[t].copy) \in File \cup {None}
      BY <1>t, <1>f, <1>c, <2>2, WrittenFile
    <2>4. /\ part' \in Folder /\ part'[s] = Written(f, t, req[t].copy)
          /\ \A r \in Seconds \ {s} : part'[r] = part[r]
      <3>1. part' = [part EXCEPT ![s] = Written(f, t, req[t].copy)]
        BY <1>10, <2>1 DEF EndOcr
      <3> QED BY <3>1, <1>t, <2>3 DEF Folder
    <2>5. /\ final' \in Folder /\ final'[s] = Written(final[s], t, req[t].copy)
          /\ \A r \in Seconds \ {s} : final'[r] = final[r]
      <3>1. final' = [final EXCEPT ![s] = Written(final[s], t, req[t].copy)]
        BY <1>10, <2>1 DEF EndOcr
      <3> QED BY <3>1, <1>t, <2>3 DEF Folder
    <2>6. /\ ocr' \in Folder /\ ocr'[s] = None
          /\ \A r \in Seconds \ {s} : ocr'[r] = ocr[r]
      <3>1. ocr' = [ocr EXCEPT ![s] = None]
        BY <1>10, <2>1 DEF EndOcr, Unlink
      <3> QED BY <3>1, <1>t DEF Folder
    <2>9. /\ req' \in [Threads -> ReqRecord] /\ req'[t].ts = s /\ req'[t].pc = "searchable"
          /\ \A u \in Threads \ {t} : req'[u] = req[u]
      <3>1. Hands(t, "searchable", None)
        BY <1>10 DEF EndOcr, Hands
      <3> QED BY <3>1, <1>t, <1>c, <1>p, <2>1, ReqCopies
    <2>e. Effect(t, s)
      BY <1>10, <1>t, <2>1, <2>4, <2>5, <2>6, <2>9 DEF EndOcr, Effect, Turns, Files
    <2>f. faults' \in 0..MaxFaults
      BY <1>10, Types DEF EndOcr, Fault
    <2> QED BY <1>10, <1>t, <2>1, <2>4, <2>5, <2>6, <2>9, <2>e, <2>f
            DEF EndOcr, StaysInSecond, FoldersStay, TouchesOnly, s
  <1>11. CASE OcrFails(t)
    <2> DEFINE f == part[s]
    <2>1. s = req[t].ts /\ req[t].pc # "idle"
      BY <1>11, <1>s DEF OcrFails
    <2>2. f \in File \cup {None}
      BY <1>f
    <2>3. /\ Written(f, t, None) \in File \cup {None}
          /\ Written(final[s], t, None) \in File \cup {None}
      BY <1>t, <1>f, <1>c, <2>2, WrittenFile
    <2>4. /\ part' \in Folder /\ part'[s] = Written(f, t, None)
          /\ \A r \in Seconds \ {s} : part'[r] = part[r]
      <3>1. part' = [part EXCEPT ![s] = Written(f, t, None)]
        BY <1>11, <2>1 DEF OcrFails
      <3> QED BY <3>1, <1>t, <2>3 DEF Folder
    <2>5. /\ final' \in Folder /\ final'[s] = Written(final[s], t, None)
          /\ \A r \in Seconds \ {s} : final'[r] = final[r]
      <3>1. final' = [final EXCEPT ![s] = Written(final[s], t, None)]
        BY <1>11, <2>1 DEF OcrFails
      <3> QED BY <3>1, <1>t, <2>3 DEF Folder
    <2>6. /\ ocr' \in Folder /\ ocr'[s] = None
          /\ \A r \in Seconds \ {s} : ocr'[r] = ocr[r]
      <3>1. ocr' = [ocr EXCEPT ![s] = None]
        BY <1>11, <2>1 DEF OcrFails, Unlink
      <3> QED BY <3>1, <1>t DEF Folder
    <2>9. /\ req' \in [Threads -> ReqRecord] /\ req'[t].ts = s /\ req'[t].pc = "searchable"
          /\ \A u \in Threads \ {t} : req'[u] = req[u]
      <3>1. Hands(t, "searchable", None)
        BY <1>11 DEF OcrFails, Hands
      <3> QED BY <3>1, <1>t, <1>c, <1>p, <2>1, ReqCopies
    <2>e. Effect(t, s)
      BY <1>11, <1>t, <2>1, <2>4, <2>5, <2>6, <2>9 DEF OcrFails, Effect, Turns, Files
    <2>f. faults' \in 0..MaxFaults
      BY <1>11, Types, NumbersAssumption DEF OcrFails, Fault
    <2> QED BY <1>11, <1>t, <2>1, <2>4, <2>5, <2>6, <2>9, <2>e, <2>f
            DEF OcrFails, StaysInSecond, FoldersStay, TouchesOnly, s
  <1>12. CASE Publish(t)
    <2>1. s = req[t].ts /\ req[t].pc # "idle"
      BY <1>12, <1>s DEF Publish
    <2>2. /\ req' \in [Threads -> ReqRecord] /\ req'[t].pc = "idle"
          /\ \A u \in Threads \ {t} : req'[u] = req[u]
      BY <1>12, <1>t, ReqEnds DEF Publish
    <2>3. /\ part' \in Folder /\ part'[s] = None
          /\ \A r \in Seconds \ {s} : part'[r] = part[r]
      <3>1. CASE part[s] = None
        BY <3>1, <1>12, <1>t, <2>1 DEF Publish
      <3>2. CASE part[s] # None
        <4>1. part' = [part EXCEPT ![s] = None]
          BY <3>2, <1>12, <2>1 DEF Publish, Unlink
        <4> QED BY <3>2, <4>1, <1>t, <1>f DEF Folder
      <3> QED BY <3>1, <3>2
    <2>4. /\ final' \in Folder /\ final'[s] = (IF part[s] = None THEN final[s] ELSE part[s])
          /\ \A r \in Seconds \ {s} : final'[r] = final[r]
      <3>1. CASE part[s] = None
        BY <3>1, <1>12, <1>t, <2>1 DEF Publish
      <3>2. CASE part[s] # None
        <4>1. final' = [final EXCEPT ![s] = part[s]]
          BY <3>2, <1>12, <2>1 DEF Publish, Unlink
        <4> QED BY <3>2, <4>1, <1>t, <1>f DEF Folder
      <3> QED BY <3>1, <3>2
    <2>e. Effect(t, s)
      BY <1>12, <1>t, <2>1, <2>2, <2>3, <2>4 DEF Publish, Effect, Turns, Files
    <2>f. faults' \in 0..MaxFaults
      BY <1>12, Types DEF Publish, Fault
    <2> QED BY <1>12, <1>t, <2>1, <2>2, <2>3, <2>4, <2>e, <2>f
            DEF Publish, StaysInSecond, FoldersStay, TouchesOnly, s
  <1> QED BY <1>1, <1>2, <1>3, <1>4, <1>5, <1>6, <1>7, <1>8, <1>9, <1>10, <1>11, <1>12
          DEF Browser

\* The steps of scan_now keep the types,
LEMMA BrowserTypes ==
  ASSUME TypeInv, NEW t \in Threads, Browser(t)
  PROVE  ScanTypeOK' /\ CountInv'
  <1> DEFINE s == SecondOf(t)
  <1>1. StaysInSecond(t)
    BY BrowserStays
  <1>2. Effect(t, s)
    BY <1>1 DEF StaysInSecond
  <1> HIDE DEF s
  <1>3. ScanTypeOK /\ CountInv
    BY DEF TypeInv, TypeOK
  <1>4. /\ device' \in Actors \cup {None, "orphan"}
        /\ \A u \in Threads : req'[u].pc = "scanning" <=> device' = u
        /\ script.pc \in {"feeding", "copying"} <=> device' = Script
    <2>0. \A u \in Threads : u # t => req'[u] = req[u]
      BY <1>1 DEF StaysInSecond
    <2>1. \/ device = None /\ device' = t /\ req'[t].pc = "scanning"
          \/ req[t].pc = "scanning" /\ device' = None /\ req'[t].pc # "scanning"
          \/ req[t].pc # "scanning" /\ device' = device /\ req'[t].pc # "scanning"
      BY <1>2 DEF Effect, Turns
    <2>2. None \notin Threads /\ None # Script /\ Script \notin Threads
      BY NoneAssumption, ThreadsAssumption DEF Actors, Script
    <2>3. /\ device \in Actors \cup {None, "orphan"} /\ Threads \subseteq Actors
          /\ \A u \in Threads : req[u].pc = "scanning" <=> device = u
          /\ script.pc \in {"feeding", "copying"} <=> device = Script
      BY <1>3 DEF ScanTypeOK, Actors
    <2>4. CASE device = None /\ device' = t /\ req'[t].pc = "scanning"
      BY <2>0, <2>2, <2>3, <2>4
    <2>5. CASE req[t].pc = "scanning" /\ device' = None /\ req'[t].pc # "scanning"
      BY <2>0, <2>2, <2>3, <2>5
    <2>6. CASE req[t].pc # "scanning" /\ device' = device /\ req'[t].pc # "scanning"
      BY <2>0, <2>2, <2>3, <2>6
    <2> QED BY <2>1, <2>4, <2>5, <2>6
  <1>5. /\ began' \in [Seconds -> [browser : 0..MaxScans, button : Nat]]
        /\ scans' \in 0..MaxScans
        /\ \A r \in Seconds : began'[r].browser <= scans'
    <2>0. /\ began \in [Seconds -> [browser : 0..MaxScans, button : Nat]]
          /\ scans \in 0..MaxScans /\ now \in Seconds
      BY Types
    <2>1. \A r \in Seconds : began[r].browser <= scans
      BY <1>3 DEF CountInv
    <2>2. CASE req[t].pc # "idle"
      BY <2>0, <2>1, <2>2, <1>1 DEF StaysInSecond
    <2>3. CASE req[t].pc = "idle"
      <3> DEFINE b == [began[now] EXCEPT !.browser = @ + 1]
      <3>1. began' = [began EXCEPT ![now] = b] /\ scans < MaxScans /\ scans' = scans + 1
        BY <2>3, <1>1 DEF StaysInSecond
      <3>2. b.browser = began[now].browser + 1
        BY <2>0
      <3>3. b \in [browser : 0..MaxScans, button : Nat] /\ b.browser <= scans + 1
        BY <2>0, <2>1, <3>1, NumbersAssumption
      <3> HIDE DEF b
      <3>4. began' \in [Seconds -> [browser : 0..MaxScans, button : Nat]]
        BY <2>0, <3>1, <3>3
      <3>5. scans' \in 0..MaxScans
        BY <2>0, <3>1, NumbersAssumption
      <3>6. \A r \in Seconds : began'[r].browser <= scans'
        BY <2>0, <2>1, <3>1, <3>3, NumbersAssumption
      <3> QED BY <3>4, <3>5, <3>6
    <2> QED BY <2>2, <2>3
  <1>6. killed' \in BOOLEAN /\ now' \in Seconds /\ script' \in ScriptRecord /\ script' = script
    BY <1>1, <1>3 DEF StaysInSecond, ScanTypeOK
  <1> QED BY <1>1, <1>3, <1>4, <1>5, <1>6
          DEF ScanTypeOK, CountInv, StaysInSecond, FoldersStay, Runs

\* what a request that is alone in its second has made so far,
LEMMA BrowserLone ==
  ASSUME TypeInv, BegunInv, LoneInv, NEW t \in Threads, Browser(t)
  PROVE  LoneInv'
  <1> DEFINE z == SecondOf(t)
  <1>1. StaysInSecond(t)
    BY BrowserStays
  <1>2. /\ \A u \in Threads : u # t => req'[u] = req[u]
        /\ req'[t].pc # "idle" => req'[t].ts = z
        /\ TouchesOnly(z) /\ Effect(t, z) /\ z \in Seconds
        /\ req[t].pc # "idle" => req[t].ts = z /\ began' = began
        /\ req[t].pc = "idle" => began' = [began EXCEPT ![z].browser = @ + 1]
    BY <1>1, Types DEF StaysInSecond, SecondOf
  <1> HIDE DEF z
  <1> SUFFICES ASSUME NEW s \in Seconds, began'[s].browser <= 1
               PROVE  /\ began'[s].browser = 0 => tiff'[s] = None /\ part'[s] = None /\ ocr'[s] = None
                      /\ \A v, u \in Threads : AtWork(v, s)' /\ AtWork(u, s)' => v = u
                      /\ \A u \in Threads : AtWork(u, s)' => Progress(u, s)'
                      /\ final'[s] # None => Good(final'[s])
    BY DEF LoneInv, Good
  <1>3. CASE s # z
    <2>1. /\ tiff'[s] = tiff[s] /\ part'[s] = part[s] /\ ocr'[s] = ocr[s]
          /\ final'[s] = final[s] /\ began'[s] = began[s]
      BY <1>2, <1>3 DEF TouchesOnly
    <2>2. \A u \in Threads : AtWork(u, s)' => AtWork(u, s) /\ req'[u] = req[u]
      BY <1>2, <1>3 DEF AtWork
    <2> QED BY <2>1, <2>2 DEF LoneInv, Progress, Good, Fresh
  <1>4. CASE s = z /\ req[t].pc = "idle"
    <2>0. began \in [Seconds -> [browser : 0..MaxScans, button : Nat]]
      BY Types
    <2>1. began'[s].browser = began[s].browser + 1 /\ began[s].browser \in Nat
      BY <1>2, <1>4, <2>0
    <2>2. began[s].browser = 0 /\ began'[s].browser = 1
      BY <2>1
    <2>3. /\ tiff[s] = None /\ part[s] = None /\ ocr[s] = None
          /\ final[s] # None => Good(final[s])
      BY <2>2 DEF LoneInv
    <2>4. \A u \in Threads : ~AtWork(u, s)
      BY <2>2 DEF BegunInv, AtWork
    <2>5. \A u \in Threads : AtWork(u, s)' => u = t
      BY <1>2, <2>4 DEF AtWork
    <2>6. req'[t].pc = "opened" /\ Files(s, Opened(None, t), None, None, final[s])
      BY <1>2, <1>4, <2>3 DEF Effect, Turns
    <2>7. Opened(None, t) = Fresh(t)
      BY OpenedFile DEF Actors
    <2>8. Progress(t, s)'
      BY <2>6, <2>7 DEF Progress, Files, Fresh
    <2> QED BY <2>2, <2>3, <2>5, <2>6, <2>8 DEF Files
  <1>5. CASE s = z /\ req[t].pc # "idle"
    <2>1. AtWork(t, s) /\ began'[s] = began[s]
      BY <1>2, <1>5 DEF AtWork
    <2>2. \A u \in Threads : AtWork(u, s) => u = t
      BY <2>1 DEF LoneInv
    <2>3. Progress(t, s) /\ (final[s] # None => Good(final[s]))
      BY <2>1 DEF LoneInv
    <2>4. \A u \in Threads : AtWork(u, s)' => u = t
      BY <1>2, <2>2 DEF AtWork
    <2>5. began[s].browser # 0
      BY <2>1, Types DEF BegunInv, AtWork
    <2>6. final[s] \in File \cup {None} /\ part[s] \in File \cup {None} /\ t \in Actors /\ tiff[s] \in File \cup {None}
      BY Types, FileAt DEF Actors
    <2>7. \A w \in Scans \cup {None} : Written(final[s], t, w) = final[s]
      BY <2>3, <2>6, WrittenFile
    <2>8. Effect(t, s)
      BY <1>2, <1>5
    <2>9. Progress(t, s)' /\ (final'[s] # None => Good(final'[s]))
      <3>1. /\ <<t, s>> \in Scans /\ None \in Scans \cup {None} /\ req[t].copy \in Scans \cup {None}
            /\ <<t, s>> # None /\ Shows(tiff[s]) \in Scans \cup {None}
        BY <2>6, Types, ShownScan, NoneAssumption DEF Scans
      <3>2. Fresh(t) \in File \cup {None} /\ Fresh(t) # None
        BY <2>6, FreshFile
      <3>3. \A w \in Scans \cup {None} : w # None => Good(Written(Fresh(t), t, w))
        BY <2>6, <3>2, WrittenFile
      <3>4. Opened(None, t) = Fresh(t)
        BY <2>6, OpenedFile
      <3>5. Good(part[s]) => Written(part[s], t, None) = part[s]
        BY <2>6, <3>1, WrittenFile
      <3> USE DEF Progress, Turns, Files
      <3>6. CASE Turns(t, "opened", "scanning") /\ Files(s, tiff[s], part[s], ocr[s], final[s])
        BY <3>6, <2>3, <2>7, <3>1, <3>2, <3>3, <3>4, <3>5 DEF Good
      <3>7. CASE Turns(t, "opened", "idle") /\ Files(s, None, part[s], ocr[s], final[s])
        BY <3>7, <2>3, <2>7, <3>1, <3>2, <3>3, <3>4, <3>5 DEF Good
      <3>8. CASE Turns(t, "scanning", "scanned")
               /\ Files(s, Written(tiff[s], t, <<t, s>>), part[s], ocr[s], final[s])
        BY <3>8, <2>3, <2>7, <3>1, <3>2, <3>3, <3>4, <3>5 DEF Good
      <3>9. CASE Turns(t, "scanning", "idle") /\ Files(s, None, part[s], ocr[s], final[s])
        BY <3>9, <2>3, <2>7, <3>1, <3>2, <3>3, <3>4, <3>5 DEF Good
      <3>10. CASE Turns(t, "scanned", "converting")
               /\ Files(s, tiff[s], Opened(part[s], t), ocr[s], final[s])
        BY <3>10, <2>3, <2>7, <3>1, <3>2, <3>3, <3>4, <3>5 DEF Good
      <3>11. CASE Turns(t, "converting", "converted") /\ Shows(tiff[s]) # None
               /\ Files(s, None, Written(part[s], t, Shows(tiff[s])), ocr[s],
                        Written(final[s], t, Shows(tiff[s])))
        BY <3>11, <2>3, <2>7, <3>1, <3>2, <3>3, <3>4, <3>5 DEF Good
      <3>12. CASE Turns(t, "converting", "idle") /\ Files(s, None, None, ocr[s], Written(final[s], t, None))
        BY <3>12, <2>3, <2>7, <3>1, <3>2, <3>3, <3>4, <3>5 DEF Good
      <3>13. CASE Turns(t, "converted", "ocr") /\ req'[t].copy = Shows(part[s]) /\ Shows(part[s]) # None
               /\ Files(s, tiff[s], part[s], Opened(ocr[s], t), final[s])
        BY <3>13, <2>3, <2>7, <3>1, <3>2, <3>3, <3>4, <3>5 DEF Good
      <3>14. CASE Turns(t, "ocr", "searchable")
               /\ Files(s, tiff[s], Written(IF ocr[s] = None THEN part[s] ELSE ocr[s], t, req[t].copy),
                        None, Written(final[s], t, req[t].copy))
        BY <3>14, <2>3, <2>7, <3>1, <3>2, <3>3, <3>4, <3>5 DEF Good
      <3>15. CASE Turns(t, "ocr", "searchable")
               /\ Files(s, tiff[s], Written(part[s], t, None), None, Written(final[s], t, None))
        BY <3>15, <2>3, <2>7, <3>1, <3>2, <3>3, <3>4, <3>5 DEF Good
      <3>16. CASE req[t].pc \in {"converted", "searchable"} /\ req'[t].pc = "idle"
               /\ Files(s, tiff[s], None, ocr[s], IF part[s] = None THEN final[s] ELSE part[s])
        BY <3>16, <2>3, <2>7, <3>1, <3>2, <3>3, <3>4, <3>5 DEF Good
      <3> QED BY <2>8, <1>5, <3>6, <3>7, <3>8, <3>9, <3>10, <3>11, <3>12, <3>13, <3>14, <3>15, <3>16 DEF Effect
    <2> QED BY <2>1, <2>4, <2>5, <2>9
  <1> QED BY <1>3, <1>4, <1>5

\* What the proofs about a step of thread t start from.
LEMMA BrowserFrame ==
  ASSUME TypeInv, NEW t \in Threads, Browser(t)
  PROVE  LET z == SecondOf(t)
         IN  /\ z \in Seconds /\ TouchesOnly(z) /\ Effect(t, z)
             /\ \A u \in Threads : u # t => req'[u] = req[u]
             /\ req'[t].pc # "idle" => req'[t].ts = z
             /\ req[t].pc # "idle" => req[t].ts = z /\ began' = began
             /\ req[t].pc = "idle" => began' = [began EXCEPT ![z].browser = @ + 1]
             /\ UNCHANGED <<now, script, spart, killed>>
  BY BrowserStays, Types DEF StaysInSecond, SecondOf

\* the names nobody has used,
LEMMA BrowserFree ==
  ASSUME TypeInv, BegunInv, LoneInv, FreeInv, NEW t \in Threads, Browser(t)
  PROVE  FreeInv'
  <1> DEFINE z == SecondOf(t)
  <1>2. /\ z \in Seconds /\ TouchesOnly(z) /\ Effect(t, z)
        /\ \A u \in Threads : u # t => req'[u] = req[u]
        /\ req'[t].pc # "idle" => req'[t].ts = z
        /\ req[t].pc # "idle" => req[t].ts = z /\ began' = began
        /\ req[t].pc = "idle" => began' = [began EXCEPT ![z].browser = @ + 1]
        /\ script' = script
    BY BrowserFrame
  <1> HIDE DEF z
  <1>0. \A s \in Seconds : began[s].browser \in Nat /\ began[s].button \in Nat
    BY Types
  <1>1. \A s \in Seconds : \A u \in Threads : AtWork(u, s) => began[s].browser > 0
    BY DEF BegunInv, AtWork
  <1>r. \A s \in Seconds : Runs /\ script.ts = s => began[s].button > 0
    BY DEF BegunInv
  <1> SUFFICES ASSUME NEW s \in Seconds
               PROVE  /\ began'[s].browser + began'[s].button = 0 => final'[s] = None
                      /\ began'[s].browser + began'[s].button = 1 =>
                           /\ \A u \in Threads : AtWork(u, s)' => final'[s] = None
                           /\ Runs' /\ script'.ts = s => final'[s] = None
    BY DEF FreeInv
  <1>3. CASE s # z
    <2>1. final'[s] = final[s] /\ began'[s] = began[s]
      BY <1>2, <1>3 DEF TouchesOnly
    <2>2. \A u \in Threads : AtWork(u, s)' => AtWork(u, s)
      BY <1>2, <1>3 DEF AtWork
    <2> QED BY <1>2, <2>1, <2>2 DEF FreeInv, Runs
  <1>4. CASE s = z /\ req[t].pc = "idle"
    <2>1. /\ began'[s].browser = began[s].browser + 1 /\ began'[s].button = began[s].button
      BY <1>2, <1>4, Types
    <2>2. final'[s] = final[s]
      BY <1>2, <1>4 DEF Effect, Turns, Files
    <2>3. began'[s].browser + began'[s].button = 1 => final[s] = None
      BY <1>0, <2>1 DEF FreeInv
    <2> QED BY <1>0, <2>1, <2>2, <2>3
  <1>5. CASE s = z /\ req[t].pc # "idle"
    <2>1. AtWork(t, s) /\ began' = began /\ began[s].browser > 0
      BY <1>1, <1>2, <1>5 DEF AtWork
    <2> SUFFICES ASSUME began[s].browser + began[s].button = 1
                 PROVE  /\ \A u \in Threads : AtWork(u, s)' => final'[s] = None
                        /\ Runs' /\ script'.ts = s => final'[s] = None
      BY <1>0, <2>1
    <2>2. final[s] = None
      BY <2>1 DEF FreeInv
    <2>3. began[s].browser <= 1 /\ ~(began[s].button > 0)
      BY <1>0, <2>1
    <2>4. \A u \in Threads : AtWork(u, s) => u = t
      BY <2>1, <2>3 DEF LoneInv
    <2>5. \A w : Written(None, t, w) = None
      BY DEF Written
    <2>6. final'[s] = None \/ req'[t].pc = "idle"
      BY <1>2, <1>5, <2>2, <2>5 DEF Effect, Turns, Files
    <2>7. \A u \in Threads : AtWork(u, s)' => u = t
      BY <1>2, <2>4 DEF AtWork
    <2>8. ~(Runs' /\ script'.ts = s)
      BY <1>2, <1>r, <2>3 DEF Runs
    <2> QED BY <2>6, <2>7, <2>8 DEF AtWork
  <1> QED BY <1>3, <1>4, <1>5

\* who owns the intermediate files,
LEMMA BrowserOwner ==
  ASSUME TypeInv, OwnerInv, NEW t \in Threads, Browser(t)
  PROVE  OwnerInv'
  <1> DEFINE z == SecondOf(t)
             A == {"opened", "scanning", "scanned", "converting"}
             B == {"converting", "converted", "ocr", "searchable"}
  <1>2. /\ z \in Seconds /\ TouchesOnly(z) /\ Effect(t, z)
        /\ \A u \in Threads : u # t => req'[u] = req[u]
        /\ req'[t].pc # "idle" => req'[t].ts = z
        /\ req[t].pc # "idle" => req[t].ts = z
        /\ script' = script /\ spart' = spart /\ killed' = killed
    BY BrowserFrame
  <1> HIDE DEF z
  <1> SUFFICES ASSUME ~killed, NEW s \in Seconds
               PROVE  /\ tiff'[s] # None => \E u \in Threads : AtWork(u, s)' /\ req'[u].pc \in A
                      /\ part'[s] # None => \E u \in Threads : AtWork(u, s)' /\ req'[u].pc \in B
                      /\ ocr'[s] # None => \E u \in Threads : AtWork(u, s)' /\ req'[u].pc = "ocr"
                      /\ spart'[s] # None => script'.pc \in {"saving", "saved"} /\ script'.ts = s
    BY <1>2 DEF OwnerInv
  <1>0. /\ tiff[s] # None => \E u \in Threads : AtWork(u, s) /\ req[u].pc \in A
        /\ part[s] # None => \E u \in Threads : AtWork(u, s) /\ req[u].pc \in B
        /\ ocr[s] # None => \E u \in Threads : AtWork(u, s) /\ req[u].pc = "ocr"
        /\ spart[s] # None => script.pc \in {"saving", "saved"} /\ script.ts = s
    BY DEF OwnerInv
  <1>3. CASE s # z
    <2>1. tiff'[s] = tiff[s] /\ part'[s] = part[s] /\ ocr'[s] = ocr[s]
      BY <1>2, <1>3 DEF TouchesOnly
    <2>2. \A u \in Threads : AtWork(u, s) => AtWork(u, s)' /\ req'[u] = req[u]
      BY <1>2, <1>3 DEF AtWork
    <2> QED BY <1>0, <1>2, <2>1, <2>2
  <1>4. CASE s = z
    <2>1. \A u \in Threads : AtWork(u, s) /\ u # t => AtWork(u, s)' /\ req'[u] = req[u]
      BY <1>2 DEF AtWork
    <2>2. req'[t].pc # "idle" => AtWork(t, s)'
      BY <1>2, <1>4 DEF AtWork
    <2>3. Effect(t, s)
      BY <1>2, <1>4
    <2>4. /\ tiff[s] \in File \cup {None} /\ part[s] \in File \cup {None}
          /\ t \in Actors /\ req[t].copy \in Scans \cup {None} /\ <<t, s>> \in Scans
          /\ Shows(tiff[s]) \in Scans \cup {None} /\ None \in Scans \cup {None}
      BY Types, FileAt, ShownScan DEF Actors, Scans
    <2>w. \A f \in File \cup {None}, w \in Scans \cup {None} :
            Written(f, t, w) = None <=> f = None
      BY <2>4, WrittenFile
    <2>5. /\ Written(tiff[s], t, <<t, s>>) = None <=> tiff[s] = None
          /\ Written(part[s], t, Shows(tiff[s])) = None <=> part[s] = None
          /\ Written(part[s], t, None) = None <=> part[s] = None
      BY <2>4, <2>w
    <2>6. /\ req[t].pc \in A => req'[t].pc \in A \/ tiff'[s] = None
          /\ tiff'[s] # None => tiff[s] # None \/ req'[t].pc \in A
      BY <2>3, <2>5 DEF Effect, Turns, Files
    <2>7. /\ req[t].pc \in B => req'[t].pc \in B \/ part'[s] = None
          /\ part'[s] # None => part[s] # None \/ req'[t].pc \in B
      BY <2>3, <2>5 DEF Effect, Turns, Files
    <2>8. /\ req[t].pc = "ocr" => req'[t].pc = "ocr" \/ ocr'[s] = None
          /\ ocr'[s] # None => ocr[s] # None \/ req'[t].pc = "ocr"
      BY <2>3 DEF Effect, Turns, Files
    <2>a. tiff'[s] # None => \E u \in Threads : AtWork(u, s)' /\ req'[u].pc \in A
      BY <1>0, <2>1, <2>2, <2>6
    <2>b. part'[s] # None => \E u \in Threads : AtWork(u, s)' /\ req'[u].pc \in B
      BY <1>0, <2>1, <2>2, <2>7
    <2>c. ocr'[s] # None => \E u \in Threads : AtWork(u, s)' /\ req'[u].pc = "ocr"
      BY <1>0, <2>1, <2>2, <2>8
    <2> QED BY <1>0, <1>2, <2>a, <2>b, <2>c
  <1> QED BY <1>3, <1>4

\* and the seconds in which something was begun.
LEMMA BrowserBegun ==
  ASSUME TypeInv, BegunInv, NEW t \in Threads, Browser(t), lis' = lis
  PROVE  BegunInv'
  <1> DEFINE z == SecondOf(t)
  <1>2. /\ z \in Seconds /\ TouchesOnly(z)
        /\ \A u \in Threads : u # t => req'[u] = req[u]
        /\ req'[t].pc # "idle" => req'[t].ts = z
        /\ req[t].pc # "idle" => req[t].ts = z /\ began' = began
        /\ req[t].pc = "idle" => began' = [began EXCEPT ![z].browser = @ + 1]
        /\ script' = script /\ now' = now
    BY BrowserFrame
  <1> HIDE DEF z
  <1>3. /\ began \in [Seconds -> [browser : 0..MaxScans, button : Nat]]
        /\ \A u \in Threads : req[u].ts \in Seconds
        /\ script.ts \in Seconds
    BY Types DEF ScriptRecord
  <1>4. \A s \in Seconds : began'[s].button = began[s].button
    BY <1>2, <1>3
  <1>5. /\ \A s \in Seconds : began[s].browser > 0 => began'[s].browser > 0
        /\ began'[z].browser > 0
    <2>1. CASE req[t].pc = "idle"
      BY <1>2, <1>3, <2>1
    <2>2. CASE req[t].pc # "idle"
      BY <1>2, <1>3, <2>2 DEF BegunInv
    <2> QED BY <2>1, <2>2
  <1>6. \A u \in Threads : req'[u].pc # "idle" => began'[req'[u].ts].browser > 0
    BY <1>2, <1>3, <1>5 DEF BegunInv
  <1> QED BY <1>2, <1>3, <1>4, <1>6 DEF BegunInv, Runs

------------------------------------------------------------------------
(* The script.                                                             *)

ScriptStates == {"idle", "feeder", "feeding", "glass", "copying", "build", "built",
                 "saving", "saved"}

\* The fields of the script's record have their types.
LEMMA ScriptFields ==
  ASSUME NEW r \in ScriptRecord
  PROVE  /\ r.pc \in ScriptStates /\ r.ts \in Seconds /\ r.attempt \in 0..Attempts
         /\ r.pages \in SUBSET Pages /\ r.pdf \in SUBSET Pages
  BY DEF ScriptRecord, ScriptStates

\* The script moves on,
LEMMA ScriptGoes ==
  ASSUME script \in ScriptRecord, NEW p \in ScriptStates,
         script' = [script EXCEPT !.pc = p]
  PROVE  /\ script' \in ScriptRecord /\ script'.pc = p /\ script'.ts = script.ts
         /\ script'.attempt = script.attempt
         /\ script'.pages = script.pages /\ script'.pdf = script.pdf
  <1>1. script' \in ScriptRecord
    BY Zenon DEF ScriptRecord, ScriptStates
  <1> QED BY <1>1 DEF ScriptRecord

\* it gets other pages,
LEMMA ScriptPages ==
  ASSUME script \in ScriptRecord, NEW p \in ScriptStates, NEW P \in SUBSET Pages,
         script' = [script EXCEPT !.pc = p, !.pages = P]
  PROVE  /\ script' \in ScriptRecord /\ script'.pc = p /\ script'.ts = script.ts
         /\ script'.attempt = script.attempt
         /\ script'.pages = P /\ script'.pdf = script.pdf
  <1>1. script' \in ScriptRecord
    BY Zenon DEF ScriptRecord, ScriptStates
  <1> QED BY <1>1 DEF ScriptRecord

\* it assembles other pages,
LEMMA ScriptPdf ==
  ASSUME script \in ScriptRecord, NEW p \in ScriptStates, NEW P \in SUBSET Pages,
         script' = [script EXCEPT !.pc = p, !.pdf = P]
  PROVE  /\ script' \in ScriptRecord /\ script'.pc = p /\ script'.ts = script.ts
         /\ script'.attempt = script.attempt
         /\ script'.pages = script.pages /\ script'.pdf = P
  <1>1. script' \in ScriptRecord
    BY Zenon DEF ScriptRecord, ScriptStates
  <1> QED BY <1>1 DEF ScriptRecord

\* and at rest it has none.
LEMMA ScriptIdle ==
  /\ IdleScript \in ScriptRecord
  /\ IdleScript.pc = "idle" /\ IdleScript.pages = {} /\ IdleScript.pdf = {}
  BY NumbersAssumption DEF IdleScript, ScriptRecord, Seconds

\* All is tried again from the feeder, or given up.
LEMMA ScriptRetries ==
  ASSUME script \in ScriptRecord, script.attempt \in 1..Attempts, Retry
  PROVE  /\ script' \in ScriptRecord
         /\ \/ script'.pc = "idle"
            \/ /\ script'.pc = "feeder" /\ script'.ts = script.ts
               /\ script'.attempt \in 1..Attempts
               /\ script'.pages = {} /\ script'.pdf = {}
  <1>1. CASE script.attempt = Attempts
    BY <1>1, ScriptIdle DEF Retry
  <1>2. CASE script.attempt # Attempts
    <2> DEFINE a == script.attempt + 1
    <2>1. script' = [script EXCEPT !.pc = "feeder", !.attempt = a, !.pages = {}, !.pdf = {}]
      BY <1>2 DEF Retry
    <2>2. a \in 1..Attempts /\ a \in 0..Attempts
      BY <1>2, NumbersAssumption
    <2> HIDE DEF a
    <2>3. {} \in SUBSET Pages
      OBVIOUS
    <2>4. script' \in ScriptRecord
      BY <2>1, <2>2, <2>3, Zenon DEF ScriptRecord
    <2> QED BY <2>1, <2>2, <2>4 DEF ScriptRecord
  <1> QED BY <1>1, <1>2

\* What a step of the script, or its end by its caller, does not touch.
ScriptFrame ==
  /\ UNCHANGED <<now, tiff, part, ocr, req, scans, began>>
  /\ Runs /\ (script'.pc # "idle" => script'.ts = script.ts)

\* What it does to its own file and to the library.
ScriptEffect ==
  LET z == script.ts IN
  \/ /\ {script.pc, script'.pc} \cap {"saving", "saved"} = {}
     /\ spart' = spart /\ final' = final
  \/ /\ script.pc = "built" /\ script'.pc = "saving"
     /\ spart' = [spart EXCEPT ![z] = Opened(@, Script)] /\ final' = final
  \/ /\ script.pc = "saving" /\ script'.pc = "saved"
     /\ spart' = [spart EXCEPT ![z] = Written(@, Script, <<Script, z>>)] /\ final' = final
  \/ /\ script.pc \in {"saving", "saved"} /\ script'.pc = "idle"
     /\ spart' = [spart EXCEPT ![z] = None] /\ final' = final
  \/ /\ script.pc = "saved" /\ script'.pc = "idle"
     /\ spart' = [spart EXCEPT ![z] = None]
     /\ final' = [final EXCEPT ![z] = spart[z]]
  \/ /\ script'.pc = "idle" /\ killed'
     /\ spart' = spart /\ final' = final

\* What a step of the script does to itself and to the scanner.
ScriptKeeps ==
  /\ script' \in ScriptRecord
  /\ script'.pc # "idle" => script'.attempt \in 1..Attempts
  /\ PagesInv' /\ faults' \in 0..MaxFaults
  /\ \/ device = None /\ device' = Script /\ script'.pc \in {"feeding", "copying"}
     \/ /\ script.pc \in {"feeding", "copying"} /\ device' = None
        /\ script'.pc \notin {"feeding", "copying"}
     \/ /\ script.pc \notin {"feeding", "copying"} /\ device' = device
        /\ script'.pc \notin {"feeding", "copying"}

\* The steps of scan2pdf.sh touch the names of its own second only.
LEMMA ScriptStays ==
  ASSUME TypeInv, PagesInv, ScriptSteps
  PROVE  ScriptFrame /\ ScriptEffect /\ ScriptKeeps /\ killed' = killed
  <1> DEFINE Goal == ScriptFrame /\ ScriptEffect /\ ScriptKeeps /\ killed' = killed
  <1>t. script \in ScriptRecord /\ faults \in 0..MaxFaults
    BY Types
  <1>a. script.pc # "idle" => script.attempt \in 1..Attempts
    BY DEF TypeInv, CountInv, Runs
  <1>f. /\ script.pages \in SUBSET Pages /\ script.pdf \in SUBSET Pages
        /\ script.ts \in Seconds /\ {} \in SUBSET Pages
    BY <1>t, ScriptFields
  <1>p. /\ script.pc \in {"feeder", "feeding", "glass", "copying"} => script.pages = {}
        /\ script.pc = "build" => Cardinality(script.pages) = 1
        /\ script.pc \in {"built", "saving", "saved"} => Cardinality(script.pdf) = 1
    BY DEF PagesInv, PagesFromOneRun
  <1>s. ScriptStates = {"idle", "feeder", "feeding", "glass", "copying", "build", "built",
                        "saving", "saved"}
    BY DEF ScriptStates
  <1>g. ASSUME NEW src \in {"feeder", "glass"}, script.pc \in {"feeding", "copying"}
        PROVE  /\ script.pages \cup {Page(src)} \in SUBSET Pages
               /\ Cardinality(script.pages \cup {Page(src)}) = 1
    <2>1. script.attempt \in 1..Attempts /\ script.pages = {}
      BY <1>g, <1>a, <1>p
    <2>2. Page(src) \in Pages /\ script.pages \cup {Page(src)} = {Page(src)}
      BY <2>1, <1>g DEF Page, Pages
    <2> QED BY <2>2, FS_Singleton
  <1> USE DEF share
  <1>1. CASE TakesDevice
    <2> DEFINE p == IF script.pc = "feeder" THEN "feeding" ELSE "copying"
    <2>1. script' = [script EXCEPT !.pc = p] /\ p \in ScriptStates
      BY <1>1, <1>s DEF TakesDevice
    <2>2. /\ script' \in ScriptRecord /\ script'.pc = p /\ script'.ts = script.ts
          /\ script'.attempt = script.attempt
          /\ script'.pages = script.pages /\ script'.pdf = script.pdf
      BY <1>t, <2>1, ScriptGoes
    <2> QED BY <1>1, <1>t, <1>a, <1>p, <2>2
            DEF TakesDevice, ScriptFrame, ScriptEffect, ScriptKeeps, PagesInv, PagesFromOneRun, Runs
  <1>2. CASE Feeds
    <2> DEFINE P == script.pages \cup {Page("feeder")}
    <2>1. P \in SUBSET Pages /\ Cardinality(P) = 1
      BY <1>2, <1>g DEF Feeds
    <2> HIDE DEF P
    <2>2. /\ script' \in ScriptRecord /\ script'.pc = "build" /\ script'.ts = script.ts
          /\ script'.attempt = script.attempt /\ Cardinality(script'.pages) = 1
      <3>1. script' = [script EXCEPT !.pc = "build", !.pages = P]
        BY <1>2 DEF Feeds, P
      <3> QED BY <3>1, <1>t, <1>s, <2>1, ScriptPages
    <2> QED BY <1>2, <1>t, <1>a, <1>p, <2>2
            DEF Feeds, ScriptFrame, ScriptEffect, ScriptKeeps, PagesInv, PagesFromOneRun, Runs
  <1>4. CASE Copies
    <2> DEFINE P == script.pages \cup {Page("glass")}
    <2>1. P \in SUBSET Pages /\ Cardinality(P) = 1
      BY <1>4, <1>g DEF Copies
    <2> HIDE DEF P
    <2>2. /\ script' \in ScriptRecord /\ script'.pc = "build" /\ script'.ts = script.ts
          /\ script'.attempt = script.attempt /\ Cardinality(script'.pages) = 1
      <3>1. script' = [script EXCEPT !.pc = "build", !.pages = P]
        BY <1>4 DEF Copies, P
      <3> QED BY <3>1, <1>t, <1>s, <2>1, ScriptPages
    <2> QED BY <1>4, <1>t, <1>a, <1>p, <2>2
            DEF Copies, ScriptFrame, ScriptEffect, ScriptKeeps, PagesInv, PagesFromOneRun, Runs
  <1>3. CASE FeederFails
    <2>2. /\ script' \in ScriptRecord /\ script'.pc = "glass" /\ script'.ts = script.ts
          /\ script'.attempt = script.attempt /\ script'.pages = {}
      BY <1>3, <1>t, <1>s, <1>f, ScriptPages DEF FeederFails
    <2> QED BY <1>3, <1>t, <1>a, <1>p, <2>2
            DEF FeederFails, ScriptFrame, ScriptEffect, ScriptKeeps, PagesInv, PagesFromOneRun, Runs
  <1>5. CASE GlassFails
    <2>2. /\ script' \in ScriptRecord
          /\ \/ script'.pc = "idle"
             \/ /\ script'.pc = "feeder" /\ script'.ts = script.ts
                /\ script'.attempt \in 1..Attempts /\ script'.pages = {}
      BY <1>5, <1>t, <1>a, ScriptRetries DEF GlassFails
    <2> QED BY <1>5, <1>t, <1>a, <1>p, <2>2, NumbersAssumption
            DEF GlassFails, ScriptFrame, ScriptEffect, ScriptKeeps, PagesInv, PagesFromOneRun, Runs, Fault
  <1>6. CASE Build
    <2>2. /\ script' \in ScriptRecord /\ script'.pc = "built" /\ script'.ts = script.ts
          /\ script'.attempt = script.attempt /\ script'.pdf = script.pages
      <3> DEFINE P == script.pages
      <3>1. script' = [script EXCEPT !.pc = "built", !.pdf = P] /\ P \in SUBSET Pages
        BY <1>6, <1>f DEF Build
      <3>2. P = script.pages
        OBVIOUS
      <3> HIDE DEF P
      <3>3. script'.pdf = P /\ script' \in ScriptRecord /\ script'.pc = "built"
            /\ script'.ts = script.ts /\ script'.attempt = script.attempt
        BY <3>1, <1>t, <1>s, ScriptPdf
      <3> QED BY <3>2, <3>3
    <2> QED BY <1>6, <1>t, <1>a, <1>p, <2>2
            DEF Build, ScriptFrame, ScriptEffect, ScriptKeeps, PagesInv, PagesFromOneRun, Runs
  <1>7. CASE BuildFails
    <2>2. /\ script' \in ScriptRecord
          /\ \/ script'.pc = "idle"
             \/ /\ script'.pc = "feeder" /\ script'.ts = script.ts
                /\ script'.attempt \in 1..Attempts /\ script'.pages = {}
      BY <1>7, <1>t, <1>a, ScriptRetries DEF BuildFails
    <2> QED BY <1>7, <1>t, <1>a, <1>p, <2>2, NumbersAssumption
            DEF BuildFails, ScriptFrame, ScriptEffect, ScriptKeeps, PagesInv, PagesFromOneRun, Runs, Fault
  <1>8. CASE StartCopy
    <2>2. /\ script' \in ScriptRecord /\ script'.pc = "saving" /\ script'.ts = script.ts
          /\ script'.attempt = script.attempt /\ script'.pdf = script.pdf
      BY <1>8, <1>t, <1>s, ScriptGoes DEF StartCopy
    <2> QED BY <1>8, <1>t, <1>a, <1>p, <2>2
            DEF StartCopy, ScriptFrame, ScriptEffect, ScriptKeeps, PagesInv, PagesFromOneRun, Runs
  <1>9. CASE EndCopy
    <2>2. /\ script' \in ScriptRecord /\ script'.pc = "saved" /\ script'.ts = script.ts
          /\ script'.attempt = script.attempt /\ script'.pdf = script.pdf
      BY <1>9, <1>t, <1>s, ScriptGoes DEF EndCopy
    <2> QED BY <1>9, <1>t, <1>a, <1>p, <2>2
            DEF EndCopy, ScriptFrame, ScriptEffect, ScriptKeeps, PagesInv, PagesFromOneRun, Runs
  <1>10. CASE CopyFails
    <2>2. script' \in ScriptRecord /\ script'.pc = "idle"
      BY <1>10, ScriptIdle DEF CopyFails
    <2> QED BY <1>10, <1>t, <1>a, <1>p, <2>2, NumbersAssumption
            DEF CopyFails, ScriptFrame, ScriptEffect, ScriptKeeps, PagesInv, PagesFromOneRun, Runs, Fault, Unlink
  <1>11. CASE Move
    <2>2. script' \in ScriptRecord /\ script'.pc = "idle"
      BY <1>11, ScriptIdle DEF Move
    <2> QED BY <1>11, <1>t, <1>a, <1>p, <2>2
            DEF Move, ScriptFrame, ScriptEffect, ScriptKeeps, PagesInv, PagesFromOneRun, Runs, Unlink
  <1> QED BY <1>1, <1>2, <1>3, <1>4, <1>5, <1>6, <1>7, <1>8, <1>9, <1>10, <1>11
          DEF ScriptSteps

\* Killing the script touches no file and leaves it at rest.
LEMMA KillStays ==
  ASSUME TypeInv, KillScript
  PROVE  /\ ScriptFrame /\ ScriptEffect /\ PagesInv' /\ ScanTypeOK' /\ CountInv'
         /\ killed' /\ ~Runs'
  <1>1. ScanTypeOK /\ CountInv
    BY DEF TypeInv, TypeOK
  <1>2. script' \in ScriptRecord /\ script'.pc = "idle" /\ killed' = TRUE
    BY ScriptIdle DEF KillScript
  <1>3. faults' \in 0..MaxFaults
    BY <1>1, NumbersAssumption DEF KillScript, Fault, ScanTypeOK
  <1>4. /\ device' \in Actors \cup {None, "orphan"} /\ device' # Script
        /\ \A t \in Threads : device' = t <=> device = t
    <2>1. "orphan" \notin Threads /\ Script \notin Threads /\ Script # "orphan"
      BY ThreadsAssumption DEF Script
    <2>2. device' = IF device = Script THEN "orphan" ELSE device
      BY DEF KillScript
    <2> QED BY <1>1, <2>1, <2>2 DEF ScanTypeOK
  <1>5. PagesInv'
    BY <1>2 DEF PagesInv, PagesFromOneRun
  <1>6. ScanTypeOK' /\ CountInv'
    BY <1>1, <1>2, <1>3, <1>4 DEF KillScript, ScanTypeOK, CountInv, Runs, share
  <1>7. ScriptFrame /\ ScriptEffect
    BY <1>2 DEF KillScript, ScriptFrame, ScriptEffect, Runs, share
  <1> QED BY <1>2, <1>5, <1>6, <1>7 DEF Runs

\* The steps of the script keep the types,
LEMMA ScriptTypes ==
  ASSUME TypeInv, PagesInv, ScriptSteps
  PROVE  ScanTypeOK' /\ CountInv'
  <1>1. ScanTypeOK /\ CountInv
    BY DEF TypeInv, TypeOK
  <1>2. ScriptFrame /\ ScriptEffect /\ ScriptKeeps /\ killed' = killed
    BY ScriptStays
  <1>3. spart' \in Folder /\ final' \in Folder
    <2> DEFINE z == script.ts
    <2>1. spart \in Folder /\ final \in Folder /\ z \in Seconds /\ Script \in Actors
      BY Types, ScriptFields DEF Actors
    <2>2. <<Script, z>> \in Scans /\ spart[z] \in File \cup {None}
      BY <2>1, FileAt DEF Scans
    <2>3. /\ Opened(spart[z], Script) \in File \cup {None}
          /\ Written(spart[z], Script, <<Script, z>>) \in File \cup {None}
      BY <2>1, <2>2, OpenedFile, WrittenFile
    <2> HIDE DEF z
    <2>4. \/ spart' = spart \/ spart' = [spart EXCEPT ![z] = Opened(spart[z], Script)]
          \/ spart' = [spart EXCEPT ![z] = Written(spart[z], Script, <<Script, z>>)]
          \/ spart' = [spart EXCEPT ![z] = None]
      BY <1>2 DEF ScriptEffect, z
    <2>5. final' = final \/ final' = [final EXCEPT ![z] = spart[z]]
      BY <1>2 DEF ScriptEffect, z
    <2>6. spart' \in Folder
      BY <2>1, <2>3, <2>4 DEF Folder
    <2>7. final' \in Folder
      BY <2>1, <2>2, <2>5 DEF Folder
    <2> QED BY <2>6, <2>7
  <1>4. /\ device' \in Actors \cup {None, "orphan"}
        /\ \A t \in Threads : device' = t <=> device = t
        /\ script'.pc \in {"feeding", "copying"} <=> device' = Script
    <2>1. Script \notin Threads /\ None \notin Threads /\ None # Script /\ Script \in Actors
      BY ThreadsAssumption, NoneAssumption DEF Actors, Script
    <2>2. /\ device \in Actors \cup {None, "orphan"}
          /\ script.pc \in {"feeding", "copying"} <=> device = Script
      BY <1>1 DEF ScanTypeOK
    <2> QED BY <1>2, <2>1, <2>2 DEF ScriptKeeps
  <1> QED BY <1>1, <1>2, <1>3, <1>4
          DEF ScanTypeOK, CountInv, ScriptFrame, ScriptKeeps, Runs

\* what it has copied to the share,
LEMMA ScriptCopy ==
  ASSUME TypeInv, BegunInv, CopyInv, ScriptFrame, ScriptEffect
  PROVE  CopyInv'
  <1> DEFINE z == script.ts
  <1>1. /\ spart \in Folder /\ z \in Seconds /\ Script \in Actors
        /\ spart[z] \in File \cup {None}
    BY Types, ScriptFields, FileAt DEF Actors
  <1>2. /\ began' = began /\ Runs
        /\ script'.pc # "idle" => script'.ts = z
    BY DEF ScriptFrame
  <1>3. began[z].button > 0
    BY <1>2 DEF BegunInv
  <1>4. /\ \A s \in Seconds : began[s].button = 0 => spart[s] = None
        /\ script.pc = "saving" => spart[z] = Fresh(Script)
        /\ script.pc = "saved" => Good(spart[z])
        /\ script.pc \notin {"saving", "saved"} => spart[z] = None
    BY <1>2 DEF CopyInv
  <1>5. \A s \in Seconds : s # z => spart'[s] = spart[s]
    BY <1>1 DEF ScriptEffect, Folder
  <1>6. \A s \in Seconds : began'[s].button = 0 => spart'[s] = None
    BY <1>2, <1>3, <1>4, <1>5
  <1>7. /\ script'.pc = "saving" => spart'[z] = Fresh(Script)
        /\ script'.pc = "saved" => Good(spart'[z])
        /\ script'.pc # "idle" /\ script'.pc \notin {"saving", "saved"} => spart'[z] = None
    <2>1. <<Script, z>> \in Scans /\ <<Script, z>> # None
      BY <1>1, NoneAssumption DEF Scans
    <2>2. Opened(None, Script) = Fresh(Script)
      BY <1>1, OpenedFile
    <2>3. Good(Written(Fresh(Script), Script, <<Script, z>>))
      BY <1>1, <2>1, FreshFile, WrittenFile
    <2> HIDE DEF z
    <2>4. CASE {script.pc, script'.pc} \cap {"saving", "saved"} = {} /\ spart' = spart
      BY <1>4, <2>4
    <2>5. CASE /\ script.pc = "built" /\ script'.pc = "saving"
               /\ spart' = [spart EXCEPT ![z] = Opened(@, Script)]
      BY <1>1, <1>4, <2>2, <2>5 DEF Folder
    <2>6. CASE /\ script.pc = "saving" /\ script'.pc = "saved"
               /\ spart' = [spart EXCEPT ![z] = Written(@, Script, <<Script, z>>)]
      BY <1>1, <1>4, <2>3, <2>6 DEF Folder
    <2>7. CASE script'.pc = "idle"
      BY <2>7
    <2> QED BY <2>4, <2>5, <2>6, <2>7 DEF ScriptEffect, z
  <1> QED BY <1>2, <1>6, <1>7 DEF CopyInv, Runs, Good, Fresh

\* what the requests have made that are alone in their second,
LEMMA ScriptLone ==
  ASSUME TypeInv, CopyInv, LoneInv, ScriptFrame, ScriptEffect
  PROVE  LoneInv'
  <1>1. UNCHANGED <<tiff, part, ocr, req, began>>
    BY DEF ScriptFrame
  <1>2. final \in Folder /\ script.ts \in Seconds
    BY Types, ScriptFields
  <1>3. \A s \in Seconds : final'[s] = final[s] \/ Good(final'[s])
    BY <1>2 DEF ScriptEffect, CopyInv, Folder
  <1> QED BY <1>1, <1>3 DEF LoneInv, AtWork, Progress, Good, Fresh

\* the names nobody has used,
LEMMA ScriptFree ==
  ASSUME TypeInv, BegunInv, FreeInv, ScriptFrame, ScriptEffect
  PROVE  FreeInv'
  <1> DEFINE z == script.ts
  <1>1. /\ final \in Folder /\ z \in Seconds
        /\ \A s \in Seconds : began[s].browser \in Nat /\ began[s].button \in Nat
    BY Types, ScriptFields
  <1>2. /\ req' = req /\ began' = began /\ Runs
        /\ script'.pc # "idle" => script'.ts = z
    BY DEF ScriptFrame
  <1>3. \A s \in Seconds : \A t \in Threads : AtWork(t, s) => began[s].browser > 0
    BY DEF BegunInv, AtWork
  <1>4. began[z].button > 0
    BY <1>2 DEF BegunInv
  <1> HIDE DEF z
  <1>5. \A s \in Seconds : final'[s] = final[s] \/ (s = z /\ script'.pc = "idle")
    BY <1>1 DEF ScriptEffect, Folder, z
  <1> SUFFICES ASSUME NEW s \in Seconds
               PROVE  /\ began[s].browser + began[s].button = 0 => final'[s] = None
                      /\ began[s].browser + began[s].button = 1 =>
                           /\ \A t \in Threads : AtWork(t, s) => final'[s] = None
                           /\ script'.pc # "idle" /\ script'.ts = s => final'[s] = None
    BY <1>2 DEF FreeInv, AtWork, Runs
  <1>6. CASE final'[s] = final[s]
    BY <1>2, <1>6 DEF FreeInv, z
  <1>7. CASE s = z /\ script'.pc = "idle"
    BY <1>1, <1>3, <1>4, <1>7
  <1> QED BY <1>5, <1>6, <1>7

\* who owns the intermediate files,
LEMMA ScriptOwner ==
  ASSUME TypeInv, OwnerInv, ScriptFrame, ScriptEffect, killed => killed'
  PROVE  OwnerInv'
  <1> SUFFICES ASSUME ~killed'
               PROVE  OwnerInv'
    BY DEF OwnerInv
  <1>1. UNCHANGED <<tiff, part, ocr, req>> /\ ~killed
    BY DEF ScriptFrame
  <1>2. spart \in Folder /\ script.ts \in Seconds
    BY Types, ScriptFields
  <1>3. \A s \in Seconds : spart[s] # None => script.pc \in {"saving", "saved"} /\ script.ts = s
    BY <1>1 DEF OwnerInv
  <1>4. \A s \in Seconds : spart'[s] # None =>
          script'.pc \in {"saving", "saved"} /\ script'.ts = s
    BY <1>2, <1>3 DEF ScriptEffect, ScriptFrame, Folder
  <1> QED BY <1>1, <1>4 DEF OwnerInv, AtWork

\* and the seconds in which something was begun.
LEMMA ScriptBegun ==
  ASSUME BegunInv, ScriptFrame, lis'.last = lis.last
  PROVE  BegunInv'
  BY DEF BegunInv, ScriptFrame, Runs

------------------------------------------------------------------------
(* The other steps.                                                        *)

\* Whoever is not a thread or the script leaves files, requests and script alone.
LEMMA FilesStay ==
  ASSUME ScanInv, UNCHANGED <<share, req, script, began, killed>>
  PROVE  ScanInv'
  <1>1. LoneInv'
    BY DEF ScanInv, LoneInv, AtWork, Progress, Good, Fresh, share
  <1>2. CopyInv'
    BY DEF ScanInv, CopyInv, Runs, Good, Fresh, share
  <1>3. FreeInv'
    BY DEF ScanInv, FreeInv, AtWork, Runs, share
  <1>4. OwnerInv'
    BY DEF ScanInv, OwnerInv, AtWork, share
  <1> QED BY <1>1, <1>2, <1>3, <1>4 DEF ScanInv

\* Deleting a scan from the library keeps the invariant of the scans,
LEMMA DeleteStays ==
  ASSUME TypeInv, BegunInv, ScanInv, NEW s \in Seconds, Delete(s), lis' = lis
  PROVE  ScanTypeOK' /\ CountInv' /\ BegunInv' /\ ScanInv' /\ script' = script
  <1>1. final \in Folder /\ final' = [final EXCEPT ![s] = None]
    BY Types DEF Delete, Unlink
  <1>2. final' \in Folder /\ \A r \in Seconds : final'[r] = final[r] \/ final'[r] = None
    BY <1>1 DEF Folder
  <1>3. /\ UNCHANGED <<now, device, tiff, part, ocr, spart, req, script>>
        /\ UNCHANGED <<scans, faults, began, killed>>
    BY DEF Delete
  <1>4. ScanTypeOK /\ CountInv
    BY DEF TypeInv, TypeOK
  <1>5. ScanTypeOK' /\ CountInv'
    BY <1>2, <1>3, <1>4 DEF ScanTypeOK, CountInv, Runs
  <1>6. BegunInv'
    BY <1>3 DEF BegunInv, Runs
  <1>7. LoneInv'
    BY <1>2, <1>3 DEF ScanInv, LoneInv, AtWork, Progress, Good, Fresh
  <1>8. CopyInv'
    BY <1>3 DEF ScanInv, CopyInv, Runs, Good, Fresh
  <1>9. FreeInv'
    BY <1>2, <1>3 DEF ScanInv, FreeInv, AtWork, Runs
  <1>10. OwnerInv'
    BY <1>3 DEF ScanInv, OwnerInv, AtWork
  <1> QED BY <1>3, <1>5, <1>6, <1>7, <1>8, <1>9, <1>10 DEF ScanInv

\* so does a crash of the panel in the middle of its requests,
LEMMA CrashStays ==
  ASSUME TypeInv, BegunInv, ScanInv, PanelCrash, lis' = lis
  PROVE  ScanTypeOK' /\ CountInv' /\ BegunInv' /\ ScanInv' /\ script' = script
  <1>1. IdleReq \in ReqRecord /\ IdleReq.pc = "idle"
    BY NumbersAssumption DEF IdleReq, ReqRecord, Seconds
  <1>2. /\ req' \in [Threads -> ReqRecord]
        /\ \A t \in Threads : req'[t].pc = "idle"
    BY <1>1 DEF PanelCrash
  <1>3. /\ UNCHANGED <<now, tiff, part, ocr, spart, final, script, scans, began>>
        /\ killed' = TRUE
    BY DEF PanelCrash, share
  <1>4. ScanTypeOK /\ CountInv
    BY DEF TypeInv, TypeOK
  <1>5. faults' \in 0..MaxFaults
    BY <1>4, NumbersAssumption DEF PanelCrash, Fault, ScanTypeOK
  <1>6. /\ device' \in Actors \cup {None, "orphan"} /\ device' \notin Threads
        /\ device' = Script <=> device = Script
    <2>1. device' = IF device \in Threads THEN None ELSE device
      BY DEF PanelCrash
    <2> QED BY <1>4, <2>1, ThreadsAssumption, NoneAssumption DEF ScanTypeOK, Actors, Script
  <1>7. ScanTypeOK' /\ CountInv'
    BY <1>2, <1>3, <1>4, <1>5, <1>6 DEF ScanTypeOK, CountInv, Runs
  <1>8. \A t \in Threads : \A s \in Seconds : ~AtWork(t, s)'
    BY <1>2 DEF AtWork
  <1>9. BegunInv'
    BY <1>2, <1>3 DEF BegunInv, Runs
  <1>10. LoneInv'
    BY <1>3, <1>8 DEF ScanInv, LoneInv, Good
  <1>11. CopyInv'
    BY <1>3 DEF ScanInv, CopyInv, Runs, Good, Fresh
  <1>12. FreeInv'
    BY <1>3, <1>8 DEF ScanInv, FreeInv, Runs
  <1>13. OwnerInv'
    BY <1>3 DEF OwnerInv
  <1> QED BY <1>3, <1>7, <1>9, <1>10, <1>11, <1>12, <1>13 DEF ScanInv

\* so does an orphaned scanimage that ends,
LEMMA OrphanStays ==
  ASSUME TypeInv, BegunInv, ScanInv, OrphanEnds, lis' = lis
  PROVE  ScanTypeOK' /\ CountInv' /\ BegunInv' /\ ScanInv' /\ script' = script
  <1>1. "orphan" \notin Threads /\ None \notin Threads /\ Script # "orphan" /\ None # Script
    BY ThreadsAssumption, NoneAssumption DEF Actors, Script
  <1>2. ScanTypeOK /\ CountInv
    BY DEF TypeInv, TypeOK
  <1>3. ScanTypeOK' /\ CountInv'
    BY <1>1, <1>2 DEF OrphanEnds, ScanTypeOK, CountInv, Runs, share
  <1>4. BegunInv'
    BY DEF OrphanEnds, BegunInv, Runs
  <1> QED BY <1>3, <1>4, FilesStay DEF OrphanEnds

\* and so does the clock.
LEMMA TickStays ==
  ASSUME TypeInv, BegunInv, ScanInv, Tick, lis' = lis, lis.last \in Seconds \cup {None}
  PROVE  ScanTypeOK' /\ CountInv' /\ BegunInv' /\ ScanInv' /\ script' = script
  <1>1. ScanTypeOK /\ CountInv
    BY DEF TypeInv, TypeOK
  <1>2. now' = now + 1 /\ now \in Seconds /\ now < MaxTime
    BY Types DEF Tick
  <1>3. now' \in Seconds /\ now <= now'
    BY <1>2, NumbersAssumption DEF Seconds
  <1>4. ScanTypeOK' /\ CountInv'
    BY <1>1, <1>3 DEF Tick, ScanTypeOK, CountInv, Runs, share
  <1>5. lis.last # None => lis.last <= now'
    BY <1>2, <1>3, NumbersAssumption DEF BegunInv, Seconds
  <1>6. BegunInv'
    BY <1>5 DEF Tick, BegunInv, Runs
  <1> QED BY <1>4, <1>6, FilesStay DEF Tick

\* A script is started in a second in which none was before.
LEMMA StartStays ==
  ASSUME TypeInv, BegunInv, ScanInv, ScriptStarts, now # lis.last, lis'.last = now,
         lis.last \in Seconds \cup {None}
  PROVE  ScanTypeOK' /\ CountInv' /\ BegunInv' /\ ScanInv' /\ PagesInv'
  <1>1. ScanTypeOK /\ CountInv
    BY DEF TypeInv, TypeOK
  <1>2. /\ UNCHANGED <<now, device, tiff, part, ocr, spart, final, req, scans, faults, killed>>
        /\ ~Runs
    BY DEF ScriptStarts, share
  <1>3. now \in Seconds /\ began \in [Seconds -> [browser : 0..MaxScans, button : Nat]]
    BY Types
  <1>4. /\ script' \in ScriptRecord /\ script'.pc = "feeder" /\ script'.ts = now
        /\ script'.attempt = 1 /\ script'.pages = {}
    <2> DEFINE r == [IdleScript EXCEPT !.pc = "feeder", !.ts = now, !.attempt = 1]
    <2>1. 1 \in 0..Attempts
      BY NumbersAssumption
    <2>2. r \in ScriptRecord
      BY <2>1, <1>3, ScriptIdle, Zenon DEF ScriptRecord
    <2>3. r.pc = "feeder" /\ r.ts = now /\ r.attempt = 1 /\ r.pages = {}
      BY DEF IdleScript
    <2>4. script' = r
      BY DEF ScriptStarts
    <2> HIDE DEF r
    <2> QED BY <2>2, <2>3, <2>4
  <1>5. /\ began' \in [Seconds -> [browser : 0..MaxScans, button : Nat]]
        /\ \A s \in Seconds : began'[s].browser = began[s].browser
        /\ \A s \in Seconds : s # now => began'[s].button = began[s].button
        /\ began'[now].button = began[now].button + 1
    <2> DEFINE b == [began[now] EXCEPT !.button = @ + 1]
    <2>1. began' = [began EXCEPT ![now] = b]
      BY DEF ScriptStarts
    <2>2. /\ b \in [browser : 0..MaxScans, button : Nat]
          /\ b.browser = began[now].browser /\ b.button = began[now].button + 1
      BY <1>3
    <2> HIDE DEF b
    <2> QED BY <1>3, <2>1, <2>2
  <1>6. began[now].button = 0
    <2>1. began[now].button > 0 => lis.last # None /\ now <= lis.last
      BY <1>3 DEF BegunInv
    <2>2. lis.last # None => lis.last <= now
      BY DEF BegunInv
    <2> QED BY <1>3, <2>1, <2>2 DEF Seconds
  <1>7. ScanTypeOK'
    <2>1. script.pc \notin {"feeding", "copying"} /\ script'.pc \notin {"feeding", "copying"}
      BY <1>2, <1>4 DEF Runs
    <2> QED BY <1>1, <1>2, <1>4, <1>5, <2>1 DEF ScanTypeOK
  <1>8. CountInv'
    BY <1>1, <1>2, <1>4, <1>5, NumbersAssumption DEF CountInv, Runs
  <1>9. BegunInv'
    <2>1. lis'.last # None /\ lis'.last <= now'
      BY <1>2, <1>3, NoneAssumption DEF Seconds
    <2>2. \A s \in Seconds : began'[s].button > 0 => s <= now
      <3> SUFFICES ASSUME NEW s \in Seconds, began'[s].button > 0, s # now
                   PROVE  s <= now
        BY <1>3 DEF Seconds
      <3>1. lis.last # None /\ s <= lis.last /\ lis.last <= now
        BY <1>5 DEF BegunInv
      <3> QED BY <1>3, <3>1 DEF Seconds
    <2>3. began'[now].button > 0
      BY <1>3, <1>5
    <2>4. \A t \in Threads : req'[t].pc # "idle" => began'[req'[t].ts].browser > 0
      BY <1>2, <1>5, Types DEF BegunInv
    <2> QED BY <1>4, <2>1, <2>2, <2>3, <2>4 DEF BegunInv
  <1>10. PagesInv'
    BY <1>4 DEF PagesInv, PagesFromOneRun
  <1>11. LoneInv'
    BY <1>2, <1>5 DEF ScanInv, LoneInv, AtWork, Progress, Good, Fresh
  <1>12. CopyInv'
    <2>1. spart[now] = None
      BY <1>3, <1>6 DEF ScanInv, CopyInv
    <2>2. \A s \in Seconds : began'[s].button = 0 => began[s].button = 0
      BY <1>3, <1>5
    <2> QED BY <1>2, <1>4, <2>1, <2>2 DEF ScanInv, CopyInv
  <1>13. FreeInv'
    <2>0. \A s \in Seconds : began[s].browser \in Nat /\ began[s].button \in Nat
      BY <1>3
    <2>1. ASSUME NEW s \in Seconds, s # now
          PROVE  began'[s].browser = began[s].browser /\ began'[s].button = began[s].button
      BY <2>1, <1>5
    <2>2. /\ began'[now].browser + began'[now].button # 0
          /\ began'[now].browser + began'[now].button = 1 => final[now] = None
      <3>1. began[now].browser + began[now].button = 0 => final[now] = None
        BY <1>3 DEF ScanInv, FreeInv
      <3>2. began'[now].browser = began[now].browser /\ began'[now].button = 1
        BY <1>3, <1>5, <1>6
      <3> QED BY <1>3, <1>6, <2>0, <3>1, <3>2
    <2>3. ASSUME NEW s \in Seconds
          PROVE  /\ began'[s].browser + began'[s].button = 0 => final'[s] = None
                 /\ began'[s].browser + began'[s].button = 1 =>
                      /\ \A t \in Threads : AtWork(t, s)' => final'[s] = None
                      /\ Runs' /\ script'.ts = s => final'[s] = None
      <3>1. CASE s = now
        BY <3>1, <2>2, <1>2
      <3>2. CASE s # now
        BY <3>2, <2>1, <1>2, <1>4 DEF ScanInv, FreeInv, AtWork
      <3> QED BY <3>1, <3>2
    <2> QED BY <2>3 DEF FreeInv
  <1>14. OwnerInv'
    <2>1. ~killed => \A s \in Seconds : spart[s] = None
      BY <1>2 DEF ScanInv, OwnerInv, Runs
    <2> QED BY <1>2, <2>1 DEF ScanInv, OwnerInv, AtWork
  <1> QED BY <1>7, <1>8, <1>9, <1>10, <1>11, <1>12, <1>13, <1>14 DEF ScanInv

------------------------------------------------------------------------
(* Packets.                                                                *)

\* The types of the button, its packets and the listener.
ButtonTypeOK ==
  /\ plugged \in BOOLEAN /\ button \in 0..MaxPresses /\ presses \in 0..MaxPresses
  /\ packets \in Seq(0..MaxPresses)
  /\ lis \in [pc : {"find", "reading", "settle", "waiting"}, armed : BOOLEAN,
              press : 0..MaxPresses, last : Seconds \cup {None}]
  /\ fired \in [Presses -> Nat]

\* What the types say of the packets and the presses.
LEMMA PacketTypes ==
  ASSUME ButtonTypeOK
  PROVE  /\ Len(packets) \in Nat /\ presses \in Nat /\ button \in Nat
         /\ \A i \in 1..Len(packets) : packets[i] \in Nat /\ packets[i] \in 0..MaxPresses
         /\ Presses \subseteq Nat /\ Released \notin Presses /\ Released \in Nat
         /\ \A k \in Presses : fired[k] \in Nat
  <1>1. packets \in Seq(0..MaxPresses)
    BY DEF ButtonTypeOK
  <1>2. /\ Len(packets) \in Nat
        /\ \A i \in 1..Len(packets) : packets[i] \in 0..MaxPresses
    BY <1>1, LenProperties, ElementOfSeq
  <1> QED BY <1>2, PressesAssumption DEF ButtonTypeOK, Presses, Released

\* Reading a packet.
LEMMA TailIs ==
  ASSUME ButtonTypeOK, packets # <<>>, packets' = Tail(packets)
  PROVE  /\ packets' \in Seq(0..MaxPresses)
         /\ Len(packets) \in Nat \ {0} /\ Len(packets') = Len(packets) - 1
         /\ \A i \in 1..Len(packets') : packets'[i] = packets[i + 1]
         /\ Head(packets) = packets[1]
  BY HeadTailProperties DEF ButtonTypeOK

\* A packet is added at the end.
LEMMA AppendIs ==
  ASSUME ButtonTypeOK, NEW x \in 0..MaxPresses, packets' = Append(packets, x)
  PROVE  /\ packets' \in Seq(0..MaxPresses)
         /\ Len(packets') = Len(packets) + 1
         /\ \A i \in 1..Len(packets) : packets'[i] = packets[i]
         /\ packets'[Len(packets) + 1] = x
  BY AppendProperties DEF ButtonTypeOK

\* Two equal packets arrive behind the others.
LEMMA PairIs ==
  ASSUME ButtonTypeOK, NEW x \in 0..MaxPresses, packets' = packets \o <<x, x>>
  PROVE  /\ packets' \in Seq(0..MaxPresses)
         /\ Len(packets') = Len(packets) + 2
         /\ \A i \in 1..Len(packets) : packets'[i] = packets[i]
         /\ packets'[Len(packets) + 1] = x /\ packets'[Len(packets) + 2] = x
  <1>1. packets \in Seq(0..MaxPresses) /\ <<x, x>> \in Seq(0..MaxPresses) /\ Len(<<x, x>>) = 2
    BY DEF ButtonTypeOK
  <1>2. Len(packets) \in Nat
    BY <1>1, LenProperties
  <1>3. /\ packets' \in Seq(0..MaxPresses) /\ Len(packets') = Len(packets) + 2
        /\ \A i \in 1..(Len(packets) + 2) :
             packets'[i] = IF i <= Len(packets) THEN packets[i] ELSE <<x, x>>[i - Len(packets)]
    BY <1>1, ConcatProperties
  <1>4. packets'[Len(packets) + 1] = <<x, x>>[1] /\ packets'[Len(packets) + 2] = <<x, x>>[2]
    BY <1>2, <1>3
  <1> QED BY <1>2, <1>3, <1>4

\* A press adds its packets behind those of the earlier ones.
LEMMA PressStays ==
  ASSUME ButtonTypeOK, PacketInv, PressInv, Press
  PROVE  ButtonTypeOK' /\ PacketInv' /\ PressInv'
  <1> DEFINE p == presses + 1
             n == Len(packets)
  <1>1. /\ button' = p /\ presses' = p /\ presses < MaxPresses
        /\ packets' = packets \o <<p, p>> /\ UNCHANGED <<plugged, lis, fired>>
    BY DEF Press
  <1>2. p \in 0..MaxPresses
    BY <1>1, PacketTypes, PressesAssumption DEF ButtonTypeOK
  <1>3. /\ packets' \in Seq(0..MaxPresses) /\ Len(packets') = n + 2
        /\ \A i \in 1..n : packets'[i] = packets[i]
        /\ packets'[n + 1] = p /\ packets'[n + 2] = p
    BY <1>1, <1>2, PairIs
  <1>4. n \in Nat /\ presses \in Nat
    BY PacketTypes
  <1>5. \A i \in 1..n : packets[i] \in Nat /\ packets[i] <= presses
    BY PacketTypes DEF PacketInv
  <1>6. \A k \in Presses : Spent(k)' <=> Spent(k)
    BY <1>1 DEF Spent
  <1>7. \A k \in Presses : Spent(k) => k <= presses /\ k \in Nat
    BY PacketTypes DEF PacketInv
  <1> HIDE DEF n
  <1>8. \A i \in 1..Len(packets') : i \in 1..n \/ (i > n /\ packets'[i] = p)
    <2> SUFFICES ASSUME NEW i \in 1..Len(packets'), i \notin 1..n
                 PROVE  i > n /\ packets'[i] = p
      OBVIOUS
    <2>1. i = n + 1 \/ i = n + 2
      BY <1>3, <1>4
    <2> QED BY <2>1, <1>3, <1>4
  <1>9. ButtonTypeOK'
    BY <1>1, <1>2, <1>3 DEF ButtonTypeOK
  <1>10. \A i \in 1..Len(packets') : packets'[i] <= p
    BY <1>3, <1>4, <1>5, <1>8
  <1>11. \A i, m, j \in 1..Len(packets') :
           i <= m /\ m <= j /\ packets'[i] = packets'[j] /\ packets'[i] # Released
             => packets'[m] = packets'[i]
    <2> SUFFICES ASSUME NEW i \in 1..Len(packets'), NEW m \in 1..Len(packets'),
                        NEW j \in 1..Len(packets'), i <= m, m <= j,
                        packets'[i] = packets'[j], packets'[i] # Released
                 PROVE  packets'[m] = packets'[i]
      OBVIOUS
    <2>1. CASE j \in 1..n
      <3>1. i \in 1..n /\ m \in 1..n
        BY <2>1, <1>4
      <3> QED BY <2>1, <3>1, <1>3 DEF PacketInv, n
    <2>2. CASE j > n /\ packets'[j] = p
      <3>1. i \notin 1..n
        BY <2>2, <1>3, <1>4, <1>5
      <3>2. m \notin 1..n
        BY <3>1, <1>4
      <3> QED BY <3>1, <3>2, <1>8
    <2> QED BY <2>1, <2>2, <1>8
  <1>12. ASSUME NEW k \in Presses, Spent(k)
         PROVE  /\ k <= p
                /\ \A i, j \in 1..Len(packets') : packets'[i] = k /\ j <= i => packets'[j] = k
    <2>1. k <= presses /\ k \in Nat
      BY <1>12, <1>7
    <2> SUFFICES ASSUME NEW i \in 1..Len(packets'), NEW j \in 1..Len(packets'),
                        packets'[i] = k, j <= i
                 PROVE  packets'[j] = k
      BY <2>1, <1>4
    <2>2. i \in 1..n
      BY <2>1, <1>4, <1>8
    <2>3. j \in 1..n
      BY <2>2, <1>4
    <2> QED BY <1>12, <2>2, <2>3, <1>3 DEF PacketInv, n
  <1>13. PacketInv'
    BY <1>1, <1>6, <1>10, <1>11, <1>12 DEF PacketInv
  <1>14. lis.pc = "reading" /\ lis.armed =>
           \A k \in Presses : Spent(k) => \A i \in 1..Len(packets') : packets'[i] # k
    <2> SUFFICES ASSUME lis.pc = "reading", lis.armed, NEW k \in Presses, Spent(k),
                        NEW i \in 1..Len(packets')
                 PROVE  packets'[i] # k
      OBVIOUS
    <2>1. CASE i \in 1..n
      BY <2>1, <1>3 DEF PressInv, n
    <2>2. CASE packets'[i] = p
      BY <2>2, <1>4, <1>7
    <2> QED BY <2>1, <2>2, <1>8
  <1>15. PressInv'
    BY <1>1, <1>4, <1>6, <1>14 DEF PressInv, NoPhantomScan
  <1> QED BY <1>9, <1>13, <1>15

\* A packet that reports a released button, at the end, changes nothing for a press.
LEMMA ReleasedStays ==
  ASSUME ButtonTypeOK, PacketInv, PressInv, packets' = Append(packets, Released),
         button' = Released, UNCHANGED <<plugged, presses, lis, fired>>
  PROVE  ButtonTypeOK' /\ PacketInv' /\ PressInv'
  <1> DEFINE n == Len(packets)
  <1>1. Released \in 0..MaxPresses
    BY PressesAssumption DEF Released
  <1>2. /\ packets' \in Seq(0..MaxPresses) /\ Len(packets') = n + 1
        /\ \A i \in 1..n : packets'[i] = packets[i]
        /\ packets'[n + 1] = Released
    BY <1>1, AppendIs
  <1>3. n \in Nat /\ presses \in Nat /\ Released \notin Presses /\ Released = 0
    BY PacketTypes DEF Released
  <1>4. \A k \in Presses : Spent(k)' <=> Spent(k)
    BY DEF Spent
  <1> HIDE DEF n
  <1>5. \A i \in 1..Len(packets') : i \in 1..n \/ (i = n + 1 /\ packets'[i] = Released)
    BY <1>2, <1>3
  <1>6. ButtonTypeOK'
    BY <1>1, <1>2 DEF ButtonTypeOK
  <1>7. \A i \in 1..Len(packets') : packets'[i] <= presses
    BY <1>2, <1>3, <1>5 DEF PacketInv, n
  <1>8. \A i, m, j \in 1..Len(packets') :
          i <= m /\ m <= j /\ packets'[i] = packets'[j] /\ packets'[i] # Released
            => packets'[m] = packets'[i]
    <2> SUFFICES ASSUME NEW i \in 1..Len(packets'), NEW m \in 1..Len(packets'),
                        NEW j \in 1..Len(packets'), i <= m, m <= j,
                        packets'[i] = packets'[j], packets'[i] # Released
                 PROVE  packets'[m] = packets'[i]
      OBVIOUS
    <2>1. j \in 1..n
      BY <1>5
    <2>2. i \in 1..n /\ m \in 1..n
      BY <2>1, <1>3
    <2> QED BY <2>1, <2>2, <1>2 DEF PacketInv, n
  <1>9. ASSUME NEW k \in Presses, Spent(k)
        PROVE  /\ k <= presses
               /\ \A i, j \in 1..Len(packets') : packets'[i] = k /\ j <= i => packets'[j] = k
    <2>1. k <= presses
      BY <1>9 DEF PacketInv
    <2> SUFFICES ASSUME NEW i \in 1..Len(packets'), NEW j \in 1..Len(packets'),
                        packets'[i] = k, j <= i
                 PROVE  packets'[j] = k
      BY <2>1
    <2>2. i \in 1..n
      BY <1>3, <1>5
    <2>3. j \in 1..n
      BY <2>2, <1>3
    <2> QED BY <1>9, <2>2, <2>3, <1>2 DEF PacketInv, n
  <1>10. PacketInv'
    BY <1>4, <1>7, <1>8, <1>9 DEF PacketInv
  <1>11. lis.pc = "reading" /\ lis.armed =>
           \A k \in Presses : Spent(k) => \A i \in 1..Len(packets') : packets'[i] # k
    BY <1>2, <1>3, <1>5 DEF PressInv, n
  <1>12. PressInv'
    BY <1>3, <1>4, <1>11 DEF PressInv, NoPhantomScan
  <1> QED BY <1>6, <1>10, <1>12

\* Nothing is left to read.
LEMMA EmptiedStays ==
  ASSUME ButtonTypeOK, PacketInv, PressInv, packets' = <<>>, plugged' \in BOOLEAN,
         button' = Released, UNCHANGED <<presses, lis, fired>>
  PROVE  ButtonTypeOK' /\ PacketInv' /\ PressInv'
  <1>1. packets' \in Seq(0..MaxPresses) /\ Len(packets') = 0
    OBVIOUS
  <1>2. Released \in 0..MaxPresses /\ Released <= presses
    BY PacketTypes, PressesAssumption DEF Released
  <1>3. \A k \in Presses : Spent(k)' <=> Spent(k)
    BY DEF Spent
  <1>4. ButtonTypeOK'
    BY <1>1, <1>2 DEF ButtonTypeOK
  <1>5. PacketInv'
    BY <1>1, <1>3 DEF PacketInv
  <1>6. PressInv'
    BY <1>1, <1>2, <1>3 DEF PressInv, NoPhantomScan
  <1> QED BY <1>4, <1>5, <1>6

LisStates == {"find", "reading", "settle", "waiting"}

\* The fields of the listener's record have their types.
LEMMA LisFields ==
  ASSUME ButtonTypeOK
  PROVE  /\ lis.pc \in LisStates /\ lis.armed \in BOOLEAN /\ lis.press \in 0..MaxPresses
         /\ lis.last \in Seconds \cup {None}
  BY DEF ButtonTypeOK, LisStates

\* The listener discovers the scanner again: no press is forgotten that has fired.
LEMMA LostStays ==
  ASSUME ButtonTypeOK, PacketInv, PressInv, lis' = Lost, UNCHANGED <<usb, fired>>
  PROVE  ButtonTypeOK' /\ PacketInv' /\ PressInv' /\ lis'.pc = "find" /\ lis'.last = lis.last
  <1>1. /\ lis' \in [pc : {"find", "reading", "settle", "waiting"}, armed : BOOLEAN,
                     press : 0..MaxPresses, last : Seconds \cup {None}]
    <2>1. Released \in 0..MaxPresses
      BY PressesAssumption DEF Released
    <2> QED BY <2>1, Zenon DEF Lost, ButtonTypeOK
  <1>2. lis'.pc = "find" /\ lis'.armed = FALSE /\ lis'.last = lis.last
    BY DEF Lost, ButtonTypeOK
  <1>3. \A k \in Presses : Spent(k)' => Spent(k)
    BY <1>2 DEF Spent
  <1>4. ButtonTypeOK'
    BY <1>1 DEF ButtonTypeOK, usb
  <1>5. PacketInv'
    BY <1>3 DEF PacketInv, usb
  <1>6. PressInv'
    BY <1>2 DEF PressInv, NoPhantomScan, usb
  <1> QED BY <1>2, <1>4, <1>5, <1>6

\* Attaching to the scanner disarms, whatever packets still wait.
LEMMA FindStays ==
  ASSUME ButtonTypeOK, PacketInv, PressInv, Find
  PROVE  ButtonTypeOK' /\ PacketInv' /\ PressInv' /\ lis'.last = lis.last
  <1>1. lis' = [lis EXCEPT !.pc = "reading", !.armed = FALSE] /\ UNCHANGED <<usb, fired>>
    BY DEF Find, Attached
  <1>2. /\ lis' \in [pc : {"find", "reading", "settle", "waiting"}, armed : BOOLEAN,
                     press : 0..MaxPresses, last : Seconds \cup {None}]
    BY <1>1, Zenon DEF ButtonTypeOK
  <1>3. lis'.pc = "reading" /\ lis'.armed = FALSE /\ lis'.last = lis.last
    BY <1>1 DEF ButtonTypeOK
  <1>4. \A k \in Presses : Spent(k)' => Spent(k)
    BY <1>1, <1>3 DEF Spent
  <1>5. ButtonTypeOK'
    BY <1>1, <1>2 DEF ButtonTypeOK, usb
  <1>6. PacketInv'
    BY <1>1, <1>4 DEF PacketInv, usb
  <1>7. PressInv'
    BY <1>1, <1>3 DEF PressInv, NoPhantomScan, usb
  <1> QED BY <1>3, <1>5, <1>6, <1>7

\* A packet is read that fires nothing.
LEMMA ReadAheadStays ==
  ASSUME ButtonTypeOK, PacketInv, PressInv, ReadAhead
  PROVE  ButtonTypeOK' /\ PacketInv' /\ PressInv' /\ lis'.last = lis.last
  <1> DEFINE n == Len(packets)
             a == lis.armed \/ Head(packets) = Released
  <1>1. /\ lis.pc = "reading" /\ packets # <<>> /\ packets' = Tail(packets)
        /\ lis' = [lis EXCEPT !.armed = a]
        /\ UNCHANGED <<plugged, button, presses, fired>>
    BY DEF ReadAhead
  <1>2. /\ packets' \in Seq(0..MaxPresses)
        /\ n \in Nat \ {0} /\ Len(packets') = n - 1
        /\ \A i \in 1..Len(packets') : packets'[i] = packets[i + 1]
        /\ Head(packets) = packets[1]
    BY <1>1, TailIs
  <1>3. a \in BOOLEAN
    OBVIOUS
  <1> HIDE DEF a, n
  <1>4. /\ lis' \in [pc : {"find", "reading", "settle", "waiting"}, armed : BOOLEAN,
                     press : 0..MaxPresses, last : Seconds \cup {None}]
    BY <1>1, <1>3, Zenon DEF ButtonTypeOK
  <1>5. lis'.pc = "reading" /\ (lis'.armed <=> a) /\ lis'.last = lis.last
    BY <1>1, <1>3 DEF ButtonTypeOK
  <1>6. \A k \in Presses : Spent(k)' <=> Spent(k)
    BY <1>1, <1>5 DEF Spent
  <1>7. \A i \in 1..Len(packets') : i + 1 \in 1..n /\ packets'[i] = packets[i + 1]
    BY <1>2
  <1>8. ButtonTypeOK'
    BY <1>1, <1>2, <1>4 DEF ButtonTypeOK
  <1>9. PacketInv'
    <2>1. \A i \in 1..Len(packets') : packets'[i] <= presses
      BY <1>7 DEF PacketInv, n
    <2>2. \A i, m, j \in 1..Len(packets') :
            i <= m /\ m <= j /\ packets'[i] = packets'[j] /\ packets'[i] # Released
              => packets'[m] = packets'[i]
      <3> SUFFICES ASSUME NEW i \in 1..Len(packets'), NEW m \in 1..Len(packets'),
                          NEW j \in 1..Len(packets'), i <= m, m <= j,
                          packets'[i] = packets'[j], packets'[i] # Released
                   PROVE  packets'[m] = packets'[i]
        OBVIOUS
      <3>1. i + 1 <= m + 1 /\ m + 1 <= j + 1
        BY <1>2
      <3>2. packets[m + 1] = packets[i + 1]
        BY <3>1, <1>7 DEF PacketInv, n
      <3> QED BY <3>2, <1>7
    <2>3. ASSUME NEW k \in Presses, Spent(k)
          PROVE  /\ k <= presses
                 /\ \A i, j \in 1..Len(packets') : packets'[i] = k /\ j <= i => packets'[j] = k
      <3> SUFFICES ASSUME NEW i \in 1..Len(packets'), NEW j \in 1..Len(packets'),
                          packets'[i] = k, j <= i
                   PROVE  packets'[j] = k
        BY <2>3 DEF PacketInv
      <3>1. j + 1 <= i + 1
        BY <1>2
      <3> QED BY <2>3, <3>1, <1>7 DEF PacketInv, n
    <2> QED BY <1>1, <1>6, <2>1, <2>2, <2>3 DEF PacketInv
  <1>10. ASSUME a, NEW k \in Presses, Spent(k), NEW i \in 1..Len(packets')
         PROVE  packets'[i] # k
    <2>1. CASE lis.armed
      BY <2>1, <1>1, <1>7, <1>10 DEF PressInv, n
    <2>2. CASE Head(packets) = Released
      <3>1. 1 \in 1..n /\ 1 <= i + 1
        BY <1>2
      <3>2. packets[i + 1] = k => packets[1] = k
        BY <3>1, <1>7, <1>10 DEF PacketInv, n
      <3> QED BY <2>2, <3>2, <1>2, <1>7, PacketTypes
    <2> QED BY <1>10, <2>1, <2>2 DEF a
  <1>11. PressInv'
    BY <1>1, <1>5, <1>6, <1>10 DEF PressInv, NoPhantomScan
  <1> QED BY <1>5, <1>8, <1>9, <1>11

\* The press that counts has fired nothing yet.
LEMMA ReadPressStays ==
  ASSUME ButtonTypeOK, PacketInv, PressInv, ReadPress
  PROVE  ButtonTypeOK' /\ PacketInv' /\ PressInv' /\ lis'.last = lis.last
  <1> DEFINE n == Len(packets)
             h == Head(packets)
  <1>1. /\ lis.pc = "reading" /\ lis.armed /\ packets # <<>> /\ h # Released
        /\ packets' = Tail(packets) \/ packets' = <<>>
        /\ lis' = [lis EXCEPT !.pc = "settle", !.press = h]
        /\ UNCHANGED <<plugged, button, presses, fired>>
    BY DEF ReadPress
  <1>2. /\ n \in Nat \ {0} /\ h = packets[1]
        /\ packets' \in Seq(0..MaxPresses)
        /\ \A i \in 1..Len(packets') : i + 1 \in 1..n /\ packets'[i] = packets[i + 1]
    <2>1. n \in Nat \ {0} /\ h = packets[1]
      BY <1>1, HeadTailProperties DEF ButtonTypeOK
    <2>2. CASE packets' = Tail(packets)
      BY <1>1, <2>2, TailIs
    <2>3. CASE packets' = <<>>
      BY <2>1, <2>3
    <2> QED BY <1>1, <2>1, <2>2, <2>3
  <1>3. /\ 1 \in 1..n /\ h \in 0..MaxPresses /\ h \in Presses
    BY <1>1, <1>2, PacketTypes DEF Presses, Released
  <1>4. h <= presses
    BY <1>2, <1>3 DEF PacketInv, n
  <1>5. ~Spent(h) /\ fired[h] = 0
    <2>1. ~Spent(h)
      BY <1>1, <1>2, <1>3 DEF PressInv, n
    <2> QED BY <2>1, <1>3, PacketTypes DEF Spent
  <1> HIDE DEF h, n
  <1>6. /\ lis' \in [pc : {"find", "reading", "settle", "waiting"}, armed : BOOLEAN,
                     press : 0..MaxPresses, last : Seconds \cup {None}]
    BY <1>1, <1>3, Zenon DEF ButtonTypeOK
  <1>7. lis'.pc = "settle" /\ lis'.press = h /\ lis'.last = lis.last
    BY <1>1 DEF ButtonTypeOK
  <1>8. \A k \in Presses : Spent(k)' => Spent(k) \/ k = h
    BY <1>1, <1>7 DEF Spent
  <1>9. ButtonTypeOK'
    BY <1>1, <1>2, <1>6 DEF ButtonTypeOK
  <1>m. ASSUME NEW i \in 1..Len(packets'), NEW m \in 1..Len(packets'),
               NEW j \in 1..Len(packets'), i <= m, m <= j,
               packets'[i] = packets'[j], packets'[i] # Released
        PROVE  packets'[m] = packets'[i]
    <2>1. i + 1 <= m + 1 /\ m + 1 <= j + 1
      BY <1>m, <1>2
    <2>2. packets[m + 1] = packets[i + 1]
      BY <2>1, <1>2, <1>m DEF PacketInv, n
    <2> QED BY <2>2, <1>2
  <1>k. ASSUME NEW k \in Presses, Spent(k)'
        PROVE  /\ k <= presses
               /\ \A i, j \in 1..Len(packets') : packets'[i] = k /\ j <= i => packets'[j] = k
    <2>1. CASE k = h
      <3> SUFFICES ASSUME NEW i \in 1..Len(packets'), NEW j \in 1..Len(packets'),
                          packets'[i] = k, j <= i
                   PROVE  packets'[j] = k
        BY <2>1, <1>4
      <3>1. 1 <= j + 1 /\ j + 1 <= i + 1
        OBVIOUS
      <3>2. i + 1 \in 1..n /\ j + 1 \in 1..n /\ packets[1] = h /\ packets[i + 1] = h
        BY <2>1, <1>2
      <3>3. \A l \in 1..n : 1 <= l /\ l <= i + 1 => packets[l] = packets[1]
        <4> DEFINE e == i + 1
        <4>1. e \in 1..n /\ packets[e] = packets[1] /\ packets[1] # Released
          BY <3>2, <1>1
        <4> HIDE DEF e
        <4>2. \A l \in 1..n : 1 <= l /\ l <= e => packets[l] = packets[1]
          BY <4>1, <1>3 DEF PacketInv, n
        <4> QED BY <4>2 DEF e
      <3>4. packets[j + 1] = packets[1]
        BY <3>1, <3>2, <3>3
      <3> QED BY <2>1, <3>2, <3>4, <1>2
    <2>2. CASE Spent(k)
      <3>1. k <= presses
        BY <2>2 DEF PacketInv
      <3>2. \A i \in 1..Len(packets') : packets'[i] # k
        BY <2>2, <1>1, <1>2 DEF PressInv, n
      <3> QED BY <3>1, <3>2
    <2> QED BY <1>k, <1>8, <2>1, <2>2
  <1>10. PacketInv'
    <2>1. \A i \in 1..Len(packets') : packets'[i] <= presses
      BY <1>2 DEF PacketInv, n
    <2> QED BY <1>1, <2>1, <1>m, <1>k DEF PacketInv
  <1>11. PressInv'
    BY <1>1, <1>3, <1>5, <1>7 DEF PressInv, NoPhantomScan
  <1> QED BY <1>7, <1>9, <1>10, <1>11

\* The script is started for the press.
LEMMA FiredStays ==
  ASSUME ButtonTypeOK, PacketInv, PressInv, RunScan, now \in Seconds
  PROVE  ButtonTypeOK' /\ PacketInv' /\ PressInv' /\ lis'.last = now /\ lis'.pc = "waiting"
  <1> DEFINE p == lis.press
  <1>1. /\ lis.pc = "settle" /\ lis' = [lis EXCEPT !.pc = "waiting", !.last = now]
        /\ fired' = [fired EXCEPT ![p] = @ + 1] /\ UNCHANGED usb
    BY DEF RunScan
  <1>2. p \in Presses /\ fired[p] = 0
    BY <1>1 DEF PressInv
  <1> HIDE DEF p
  <1>3. /\ lis' \in [pc : {"find", "reading", "settle", "waiting"}, armed : BOOLEAN,
                     press : 0..MaxPresses, last : Seconds \cup {None}]
    <2>1. now \in Seconds \cup {None}
      OBVIOUS
    <2> QED BY <1>1, <2>1, Zenon DEF ButtonTypeOK
  <1>4. lis'.pc = "waiting" /\ lis'.last = now
    BY <1>1 DEF ButtonTypeOK
  <1>5. fired' \in [Presses -> Nat] /\ fired'[p] = 1
        /\ \A k \in Presses : k # p => fired'[k] = fired[k]
    BY <1>1, <1>2 DEF ButtonTypeOK
  <1>6. \A k \in Presses : Spent(k)' => Spent(k)
    BY <1>1, <1>4, <1>5 DEF Spent, p
  <1>7. ButtonTypeOK'
    BY <1>1, <1>3, <1>5 DEF ButtonTypeOK, usb
  <1>8. PacketInv'
    BY <1>1, <1>6 DEF PacketInv, usb
  <1>9. PressInv'
    BY <1>1, <1>4, <1>5 DEF PressInv, NoPhantomScan, usb
  <1> QED BY <1>4, <1>7, <1>8, <1>9

------------------------------------------------------------------------
(* Every step.                                                             *)

\* The conjuncts of the invariant, apart.
LEMMA Parts ==
  IInv <=> /\ ScanTypeOK /\ CountInv /\ ButtonTypeOK /\ (Runs => lis.pc = "waiting")
           /\ BegunInv /\ PagesInv /\ PacketInv /\ PressInv /\ ScanInv
  BY DEF IInv, TypeInv, TypeOK, ButtonTypeOK

\* The steps of the two scans, which the listener does not see.
LEMMA ScanStep ==
  ASSUME IInv, ScanSteps, UNCHANGED <<usb, lis, fired>>
  PROVE  IInv'
  <1>1. /\ TypeInv /\ ButtonTypeOK /\ (Runs => lis.pc = "waiting")
        /\ BegunInv /\ PagesInv /\ PacketInv /\ PressInv
        /\ ScanInv /\ LoneInv /\ CopyInv /\ FreeInv /\ OwnerInv
    BY Parts DEF IInv, ScanInv
  <1>2. ButtonTypeOK' /\ PacketInv' /\ PressInv'
    BY <1>1 DEF ButtonTypeOK, PacketInv, PressInv, NoPhantomScan, Spent, usb
  <1>3. lis' = lis /\ lis.last \in Seconds \cup {None}
    BY <1>1, LisFields
  <1> DEFINE Goal == /\ ScanTypeOK' /\ CountInv' /\ BegunInv' /\ PagesInv' /\ ScanInv'
                     /\ Runs' => Runs
  <1>4. ASSUME NEW t \in Threads, Browser(t)
        PROVE  Goal
    <2>1. ScanTypeOK' /\ CountInv'
      BY <1>1, <1>4, BrowserTypes
    <2>2. LoneInv' /\ FreeInv' /\ OwnerInv' /\ BegunInv'
      BY <1>1, <1>3, <1>4, BrowserLone, BrowserFree, BrowserOwner, BrowserBegun
    <2>3. script' = script /\ spart' = spart
      BY <1>1, <1>4, BrowserStays DEF StaysInSecond
    <2>4. \A s \in Seconds : began'[s].button = began[s].button
      <3>1. /\ began \in [Seconds -> [browser : 0..MaxScans, button : Nat]]
            /\ now \in Seconds
        BY <1>1, Types
      <3>2. began' = began \/ began' = [began EXCEPT ![now].browser = @ + 1]
        BY <1>1, <1>4, BrowserStays DEF StaysInSecond
      <3> QED BY <3>1, <3>2
    <2>5. CopyInv'
      BY <1>1, <2>3, <2>4 DEF CopyInv, Runs, Good, Fresh
    <2>6. PagesInv' /\ (Runs' => Runs)
      BY <1>1, <2>3 DEF PagesInv, PagesFromOneRun, Runs
    <2> QED BY <2>1, <2>2, <2>5, <2>6 DEF ScanInv
  <1>5. ASSUME ScriptSteps PROVE Goal
    <2>1. ScriptFrame /\ ScriptEffect /\ ScriptKeeps /\ killed' = killed
      BY <1>1, <1>5, ScriptStays
    <2>2. ScanTypeOK' /\ CountInv'
      BY <1>1, <1>5, ScriptTypes
    <2>3. LoneInv' /\ CopyInv' /\ FreeInv' /\ OwnerInv' /\ BegunInv'
      BY <1>1, <1>3, <2>1, ScriptLone, ScriptCopy, ScriptFree, ScriptOwner, ScriptBegun
    <2>4. PagesInv' /\ Runs
      BY <2>1 DEF ScriptKeeps, ScriptFrame
    <2> QED BY <2>2, <2>3, <2>4 DEF ScanInv
  <1>6. ASSUME ScanTypeOK' /\ CountInv' /\ BegunInv' /\ ScanInv' /\ script' = script
        PROVE  Goal
    BY <1>1, <1>6 DEF PagesInv, PagesFromOneRun, Runs
  <1>7. ASSUME NEW s \in Seconds, Delete(s)
        PROVE  Goal
    BY <1>1, <1>3, <1>6, <1>7, DeleteStays
  <1>8. ASSUME PanelCrash PROVE Goal
    BY <1>1, <1>3, <1>6, <1>8, CrashStays
  <1>9. ASSUME OrphanEnds PROVE Goal
    BY <1>1, <1>3, <1>6, <1>9, OrphanStays
  <1>10. ASSUME Tick PROVE Goal
    BY <1>1, <1>3, <1>6, <1>10, TickStays
  <1>11. Goal
    BY <1>4, <1>5, <1>7, <1>8, <1>9, <1>10 DEF ScanSteps
  <1> HIDE DEF Goal
  <1>12. Runs' => lis'.pc = "waiting"
    BY <1>1, <1>3, <1>11 DEF Goal
  <1>13. ScanTypeOK' /\ CountInv' /\ BegunInv' /\ PagesInv' /\ ScanInv'
    BY <1>11 DEF Goal
  <1> QED BY <1>2, <1>12, <1>13 DEF IInv, TypeInv, TypeOK, ButtonTypeOK

\* The scanner and the listener, where they start and end no script.
LEMMA ListenStep ==
  ASSUME IInv, Scanner \/ Find \/ ReadError \/ ReadAhead \/ ReadPress \/ ScanEnds
  PROVE  IInv'
  <1>1. /\ ScanTypeOK /\ CountInv /\ ButtonTypeOK /\ (Runs => lis.pc = "waiting")
        /\ BegunInv /\ PagesInv /\ PacketInv /\ PressInv /\ ScanInv
    BY Parts
  <1>2. /\ UNCHANGED <<now, device, share, req, script, scans, began, killed>>
        /\ faults' = faults \/ Fault
    BY DEF Scanner, Press, Release, ReportIdle, Unplug, PlugIn, Find, ReadError, ReadAhead,
           ReadPress, ScanEnds, scanvars
  <1>3. faults' \in 0..MaxFaults
    BY <1>1, <1>2, NumbersAssumption DEF Fault, ScanTypeOK
  <1>4. ScanTypeOK' /\ CountInv' /\ PagesInv'
    BY <1>1, <1>2, <1>3 DEF ScanTypeOK, CountInv, PagesInv, PagesFromOneRun, Runs, share
  <1>5. ScanInv'
    BY <1>1, <1>2, FilesStay
  <1>6. /\ ButtonTypeOK' /\ PacketInv' /\ PressInv' /\ lis'.last = lis.last
        /\ Runs => lis'.pc = "waiting"
    <2>0. lis.pc = "waiting" => ~(lis.pc = "find") /\ ~(lis.pc = "reading")
      OBVIOUS
    <2>1. CASE Press
      BY <1>1, <2>1, PressStays DEF Press
    <2>2. CASE Release
      BY <1>1, <2>2, ReleasedStays DEF Release
    <2>3. CASE ReportIdle
      <3>1. packets' = Append(packets, Released) /\ button' = Released
        BY <2>3 DEF ReportIdle
      <3> QED BY <1>1, <2>3, <3>1, ReleasedStays DEF ReportIdle
    <2>4. CASE Unplug
      BY <1>1, <2>4, EmptiedStays DEF Unplug
    <2>5. CASE PlugIn
      BY <1>1, <2>5 DEF PlugIn, ButtonTypeOK, PacketInv, PressInv, NoPhantomScan, Spent
    <2>6. CASE Find
      BY <1>1, <2>0, <2>6, FindStays DEF Find
    <2>7. CASE ReadError
      BY <1>1, <2>0, <2>7, LostStays DEF ReadError
    <2>8. CASE ReadAhead
      BY <1>1, <2>0, <2>8, ReadAheadStays DEF ReadAhead
    <2>9. CASE ReadPress
      BY <1>1, <2>0, <2>9, ReadPressStays DEF ReadPress
    <2>10. CASE ScanEnds
      BY <1>1, <2>10, LostStays DEF ScanEnds
    <2> QED BY <2>1, <2>2, <2>3, <2>4, <2>5, <2>6, <2>7, <2>8, <2>9, <2>10 DEF Scanner
  <1>7. BegunInv'
    BY <1>1, <1>2, <1>6 DEF BegunInv, Runs
  <1>8. Runs' => lis'.pc = "waiting"
    BY <1>2, <1>6 DEF Runs
  <1> QED BY <1>4, <1>5, <1>6, <1>7, <1>8 DEF IInv, TypeInv, TypeOK, ButtonTypeOK

\* Starting the script keeps the invariant: the pauses put it into a second of its own.
LEMMA RunStep ==
  ASSUME IInv, RunScan
  PROVE  IInv'
  <1>1. /\ TypeInv /\ ButtonTypeOK /\ BegunInv /\ PacketInv /\ PressInv /\ ScanInv
    BY Parts DEF IInv
  <1>2. now \in Seconds /\ lis.last \in Seconds \cup {None}
    BY <1>1, Types, LisFields
  <1>3. /\ ButtonTypeOK' /\ PacketInv' /\ PressInv' /\ lis'.last = now
        /\ lis'.pc = "waiting"
    BY <1>1, <1>2, FiredStays
  <1>4. ScriptStarts /\ now # lis.last
    BY DEF RunScan
  <1>5. ScanTypeOK' /\ CountInv' /\ BegunInv' /\ ScanInv' /\ PagesInv'
    BY <1>1, <1>2, <1>3, <1>4, StartStays
  <1> QED BY <1>3, <1>5 DEF IInv, TypeInv, TypeOK, ButtonTypeOK

\* So does the timeout that kills it.
LEMMA TimeoutStep ==
  ASSUME IInv, TimedOut
  PROVE  IInv'
  <1>1. /\ TypeInv /\ ButtonTypeOK /\ BegunInv /\ PagesInv /\ PacketInv /\ PressInv
        /\ LoneInv /\ CopyInv /\ FreeInv /\ OwnerInv
    BY Parts DEF IInv, ScanInv
  <1>2. KillScript /\ lis' = Lost /\ UNCHANGED <<usb, fired>>
    BY DEF TimedOut
  <1>3. /\ ScriptFrame /\ ScriptEffect /\ PagesInv' /\ ScanTypeOK' /\ CountInv'
        /\ killed' /\ ~Runs'
    BY <1>1, <1>2, KillStays
  <1>4. ButtonTypeOK' /\ PacketInv' /\ PressInv' /\ lis'.last = lis.last
    BY <1>1, <1>2, LostStays
  <1>5. LoneInv' /\ CopyInv' /\ FreeInv' /\ OwnerInv' /\ BegunInv'
    BY <1>1, <1>3, <1>4, ScriptLone, ScriptCopy, ScriptFree, ScriptOwner, ScriptBegun
  <1> QED BY <1>3, <1>4, <1>5 DEF IInv, TypeInv, TypeOK, ButtonTypeOK, ScanInv

\* The initial state satisfies the invariant.
LEMMA Initial ==
  ASSUME Init
  PROVE  IInv
  <1>1. 0 \in Seconds /\ None \notin Threads /\ None # Script
    BY NumbersAssumption, NoneAssumption DEF Seconds, Actors
  <1>2. IdleReq \in ReqRecord /\ IdleReq.pc = "idle"
    BY <1>1 DEF IdleReq, ReqRecord
  <1>3. [s \in Seconds |-> None] \in Folder
    BY DEF Folder
  <1>4. began \in [Seconds -> [browser : 0..MaxScans, button : Nat]]
        /\ \A s \in Seconds : began[s].browser = 0 /\ began[s].button = 0
    BY NumbersAssumption DEF Init, ScanInit
  <1>5. /\ script \in ScriptRecord /\ script.pc = "idle"
        /\ req \in [Threads -> ReqRecord] /\ \A t \in Threads : req[t].pc = "idle"
    BY <1>2, ScriptIdle DEF Init, ScanInit
  <1>6. ScanTypeOK
    <2>1. {tiff, part, ocr, spart, final} \subseteq Folder /\ now \in Seconds
      BY <1>1, <1>3 DEF Init, ScanInit
    <2>2. scans \in 0..MaxScans /\ faults \in 0..MaxFaults
      BY NumbersAssumption DEF Init, ScanInit
    <2>4. killed \in BOOLEAN
      BY DEF Init, ScanInit
    <2>3. device = None
      BY DEF Init, ScanInit
    <2> QED BY <1>1, <1>4, <1>5, <2>1, <2>2, <2>3, <2>4 DEF ScanTypeOK
  <1>7. CountInv
    BY <1>4, <1>5 DEF Init, ScanInit, CountInv, Runs
  <1>8. /\ lis \in [pc : {"find", "reading", "settle", "waiting"}, armed : BOOLEAN,
                    press : 0..MaxPresses, last : Seconds \cup {None}]
        /\ lis.pc = "find" /\ lis.armed = FALSE /\ lis.last = None
    BY PressesAssumption DEF Init, Released
  <1>9. ButtonTypeOK
    BY <1>8, PressesAssumption DEF Init, ButtonTypeOK, Released
  <1>10. BegunInv
    BY <1>4, <1>5, <1>8 DEF BegunInv, Runs
  <1>11. PagesInv
    BY <1>5 DEF PagesInv, PagesFromOneRun
  <1>12. packets = <<>> /\ Len(packets) = 0 /\ \A k \in Presses : ~Spent(k) /\ fired[k] = 0
    BY <1>8 DEF Init, Spent
  <1>13. PacketInv
    BY <1>12 DEF PacketInv
  <1>14. PressInv
    BY <1>8, <1>12 DEF Init, PressInv, NoPhantomScan, Released
  <1>15. \A t \in Threads : \A s \in Seconds : ~AtWork(t, s)
    BY <1>5 DEF AtWork
  <1>16. \A s \in Seconds : /\ tiff[s] = None /\ part[s] = None /\ ocr[s] = None
                            /\ spart[s] = None /\ final[s] = None
    BY DEF Init, ScanInit
  <1>17. ScanInv
    BY <1>5, <1>15, <1>16 DEF ScanInv, LoneInv, CopyInv, FreeInv, OwnerInv, Runs
  <1> QED BY <1>6, <1>7, <1>9, <1>10, <1>11, <1>13, <1>14, <1>17, <1>5, Parts DEF Runs

\* A step that changes nothing keeps it.
LEMMA Stutter ==
  ASSUME IInv, UNCHANGED vars
  PROVE  IInv'
  <1>1. UNCHANGED scanvars /\ UNCHANGED usb /\ lis' = lis /\ fired' = fired
    BY DEF vars
  <1>2. TypeInv'
    BY <1>1 DEF IInv, TypeInv, TypeOK, ScanTypeOK, CountInv, Runs, scanvars, share, usb
  <1>3. BegunInv' /\ PagesInv'
    BY <1>1 DEF IInv, BegunInv, PagesInv, PagesFromOneRun, Runs, scanvars
  <1>4. PacketInv' /\ PressInv'
    BY <1>1 DEF IInv, PacketInv, PressInv, NoPhantomScan, Spent, usb
  <1>5. ScanInv'
    BY <1>1, FilesStay DEF IInv, scanvars
  <1> QED BY <1>2, <1>3, <1>4, <1>5 DEF IInv

\* The invariant holds in every state of the scans and of the listener.
THEOREM Inductive == Spec => []IInv
  <1>1. Init => IInv
    BY Initial
  <1>2. IInv /\ [Next]_vars => IInv'
    <2> SUFFICES ASSUME IInv, [Next]_vars
                 PROVE  IInv'
      OBVIOUS
    <2>1. CASE ScanSteps /\ UNCHANGED <<usb, lis, fired>>
      BY <2>1, ScanStep
    <2>2. CASE Scanner \/ Find \/ ReadError \/ ReadAhead \/ ReadPress \/ ScanEnds
      BY <2>2, ListenStep
    <2>3. CASE RunScan
      BY <2>3, RunStep
    <2>4. CASE TimedOut
      BY <2>4, TimeoutStep
    <2>5. CASE UNCHANGED vars
      BY <2>5, Stutter
    <2> QED BY <2>1, <2>2, <2>3, <2>4, <2>5 DEF Next, Listen
  <1> QED BY <1>1, <1>2, PTL DEF Spec

\* The types of the variables; the script runs only while the listener waits for it.
THEOREM TypeCorrect == Spec => []TypeOK
  <1>1. IInv => TypeOK
    BY DEF IInv, TypeInv
  <1> QED BY <1>1, Inductive, PTL

\* However often the scanner tells of a press, and whatever is unplugged, killed or
\* scanned meanwhile, scan-listen.py starts one scan for it at most.
THEOREM OneScanPerPress == Spec => []NoPhantomScan
  <1>1. IInv => NoPhantomScan
    BY DEF IInv, PressInv
  <1> QED BY <1>1, Inductive, PTL

\* scan2pdf.sh makes its PDF of the pages of one run of scanimage.
THEOREM PagesOfOneRun == Spec => []PagesFromOneRun
  <1>1. IInv => PagesFromOneRun
    BY DEF IInv, PagesInv
  <1> QED BY <1>1, Inductive, PTL

\* What has a visible name in the shared folder is a finished PDF, but for two scans
\* from the browser in one second.
THEOREM WholePdfs == Spec => []LibraryShowsWholePdfs
  <1>1. IInv => LibraryShowsWholePdfs
    <2> SUFFICES ASSUME IInv, NEW s \in Library, ~(began[s].browser > 1)
                 PROVE  final[s].open = {} /\ final[s].whole # None
      BY DEF LibraryShowsWholePdfs
    <2>1. s \in Seconds /\ final[s] # None
      BY DEF Library
    <2>2. began[s].browser <= 1
      BY <2>1, Types DEF IInv
    <2> QED BY <2>1, <2>2 DEF IInv, ScanInv, LoneInv, Good
  <1> QED BY <1>1, Inductive, PTL

\* When nobody scans and nothing was killed, no intermediate file is left.
THEOREM ShareIsClean == Spec => []NoLeftovers
  <1>1. IInv => NoLeftovers
    <2> SUFFICES ASSUME IInv, \A t \in Threads : req[t].pc = "idle", ~Runs, ~killed,
                        NEW s \in Seconds
                 PROVE  tiff[s] = None /\ part[s] = None /\ ocr[s] = None /\ spart[s] = None
      BY DEF NoLeftovers
    <2>1. \A t \in Threads : ~AtWork(t, s)
      BY DEF AtWork
    <2> QED BY <2>1 DEF IInv, ScanInv, OwnerInv, Runs
  <1> QED BY <1>1, Inductive, PTL

\* The step that gives a second its visible file: nothing was there before, unless a
\* second scan was begun in it.
Replaces(s) == final[s] # None /\ final'[s] # None /\ final'[s] # final[s]

\* A request replaces a scan only in a second in which two were begun,
LEMMA BrowserReplaces ==
  ASSUME TypeInv, BegunInv, FreeInv, NEW t \in Threads, Browser(t),
         NEW s \in Seconds, Replaces(s)
  PROVE  began[s].browser + began[s].button > 1
  <1> DEFINE z == SecondOf(t)
  <1>1. /\ z \in Seconds /\ TouchesOnly(z) /\ Effect(t, z)
        /\ req[t].pc # "idle" => req[t].ts = z
    BY BrowserFrame
  <1> HIDE DEF z
  <1>2. s = z
    BY <1>1 DEF TouchesOnly, Replaces
  <1>3. req[t].pc # "idle"
    BY <1>1, <1>2 DEF Effect, Turns, Files, Replaces
  <1>4. AtWork(t, s)
    BY <1>1, <1>2, <1>3 DEF AtWork
  <1>5. began[s].browser > 0 /\ began[s].browser \in Nat /\ began[s].button \in Nat
    BY <1>4, Types DEF AtWork, BegunInv
  <1>6. began[s].browser + began[s].button # 1
    BY <1>4 DEF FreeInv, Replaces
  <1> QED BY <1>5, <1>6

\* and so does the script.
LEMMA ScriptReplaces ==
  ASSUME TypeInv, BegunInv, FreeInv, ScriptFrame, ScriptEffect,
         NEW s \in Seconds, Replaces(s)
  PROVE  began[s].browser + began[s].button > 1
  <1>1. final \in Folder /\ script.ts \in Seconds /\ Runs
    BY Types, ScriptFields DEF ScriptFrame
  <1>2. s = script.ts
    BY <1>1 DEF ScriptEffect, Folder, Replaces
  <1>3. began[s].button > 0 /\ began[s].browser \in Nat /\ began[s].button \in Nat
    BY <1>1, <1>2, Types DEF BegunInv
  <1>4. began[s].browser + began[s].button # 1
    BY <1>1, <1>2 DEF FreeInv, Replaces
  <1> QED BY <1>3, <1>4

\* A scan in the library is replaced by another one only if both were begun in the
\* same second.
THEOREM ScansAreKept == Spec => NothingOverwritten
  <1>1. ASSUME IInv, [Next]_vars, NEW s \in Seconds, Replaces(s)
        PROVE  began[s].browser + began[s].button > 1
    <2>1. TypeInv /\ BegunInv /\ PagesInv /\ FreeInv
      BY <1>1 DEF IInv, ScanInv
    <2>2. ASSUME NEW t \in Threads, Browser(t)
          PROVE  began[s].browser + began[s].button > 1
      BY <1>1, <2>1, <2>2, BrowserReplaces
    <2>3. CASE ScriptSteps \/ KillScript
      BY <1>1, <2>1, <2>3, ScriptStays, KillStays, ScriptReplaces
    <2>4. ASSUME NEW r \in Seconds, Delete(r)
          PROVE  ~Replaces(s)
      <3>1. final \in Folder /\ final' = [final EXCEPT ![r] = None]
        BY <2>1, <2>4, Types DEF Delete, Unlink
      <3> QED BY <3>1 DEF Replaces, Folder
    <2>5. CASE final' = final
      BY <1>1, <2>5 DEF Replaces
    <2>6. PanelCrash \/ OrphanEnds \/ Tick \/ Scanner \/ UNCHANGED vars => final' = final
      BY DEF PanelCrash, OrphanEnds, Tick, Scanner, Press, Release, ReportIdle, Unplug,
             PlugIn, vars, scanvars, share
    <2>7. Listen => final' = final \/ KillScript
      BY DEF Listen, Find, ReadError, ReadAhead, ReadPress, RunScan, ScriptStarts, ScanEnds,
             TimedOut, scanvars, share
    <2> QED BY <1>1, <2>2, <2>3, <2>4, <2>5, <2>6, <2>7 DEF Next, ScanSteps
  <1>2. IInv /\ [Next]_vars =>
          [\A s \in Seconds :
             final[s] # None /\ final'[s] # None /\ final'[s] # final[s]
               => began[s].browser + began[s].button > 1]_final
    BY <1>1 DEF Replaces
  <1> QED BY <1>2, Inductive, PTL DEF Spec, NothingOverwritten
========================================================================
