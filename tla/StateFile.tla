-------------------------------- MODULE StateFile -------------------------------
(***************************************************************************)
(* The JSON state files under /etc/prntbtlr: app/services/statefile.py as  *)
(* its callers use it, which load a file, change what it says and save it  *)
(* again (features.save, webhooks.add_webhook, delete_webhook and          *)
(* set_enabled, updater.save_prefs and check_for_update).                  *)
(*                                                                         *)
(* A save writes a temporary file and renames it into place.  Nothing is   *)
(* locked and the temporary name is the same for every save, so the model  *)
(* is one of directory entries and inodes: opening the temporary name may  *)
(* truncate an inode that somebody else is about to rename, or to write.   *)
(***************************************************************************)
EXTENDS Naturals

CONSTANTS
  Savers,    \* threads of the panel that edit the file
  Readers,   \* whoever loads it: requests, loops, the notifier's process
  Docs,      \* what a file may say
  Blank,     \* what a missing or unreadable file is taken to say
  Edits,     \* the changes: functions from documents to documents
  Inodes,    \* files on the disk
  NoInode,   \* a name without a file
  Empty,     \* contents of a truncated file
  Torn,      \* contents no parser accepts: half a write, two writes on one another
  MaxEdits,  \* bound: edits that begin
  MaxFaults  \* bound: crashes of the panel and failing calls

Unreadable == {Empty, Torn}

ASSUME StateFileAssumption ==
  /\ Blank \in Docs
  /\ Edits \subseteq [Docs -> Docs]
  /\ NoInode \notin Inodes
  /\ Docs \cap Unreadable = {} /\ Empty # Torn
  /\ MaxEdits \in Nat /\ MaxFaults \in Nat

VARIABLES
  path,     \* the inode the file's name stands for
  tmp,      \* the inode the temporary name stands for
  data,     \* contents of every inode
  sv,       \* every saver's edit in progress
  rd,       \* every reader's load in progress, and what it got last
  up,       \* the panel is running
  edits,    \* bound counters
  faults,
  crowded,  \* history: savers whose edit has overlapped another one
  tainted   \* history: edits have overlapped, and none alone was saved since

vars == <<path, tmp, data, sv, rd, up, edits, faults, crowded, tainted>>

\* An edit reads the file through fd, then has the document to save, whose
\* temporary file it writes through fd.
Saver == [pc : {"idle", "reading", "open", "write", "chmod", "replace"},
          fd : Inodes \cup {NoInode}, doc : Docs]

Reader == [pc : {"idle", "reading"}, fd : Inodes \cup {NoInode}, got : Docs]

IdleSaver == [pc |-> "idle", fd |-> NoInode, doc |-> Blank]

Busy == {w \in Savers : sv[w].pc # "idle"}

\* What a load through i yields: OSError and ValueError are an empty document.
Load(i) == IF i \in Inodes /\ data[i] \in Docs THEN data[i] ELSE Blank

\* Inodes no name and no open file refers to.
Free ==
  Inodes \ ({path, tmp} \cup {sv[w].fd : w \in Savers} \cup {rd[r].fd : r \in Readers})

\* Saver w goes on as new, or is through with its edit.
Goes(w, new) == sv' = [sv EXCEPT ![w] = new]

Ends(w) ==
  /\ Goes(w, IdleSaver)
  /\ crowded' = crowded \ {w}

-----------------------------------------------------------------------------
(* Reading *)

\* open(path) and json.load: the reader keeps the inode it has opened.
OpenToRead(r) ==
  /\ rd[r].pc = "idle"
  /\ rd' = [rd EXCEPT ![r] = [@ EXCEPT !.pc = "reading", !.fd = path]]
  /\ UNCHANGED <<path, tmp, data, sv, up, edits, faults, crowded, tainted>>

Read(r) ==
  /\ rd[r].pc = "reading"
  /\ rd' = [rd EXCEPT ![r] = [pc |-> "idle", fd |-> NoInode, got |-> Load(rd[r].fd)]]
  /\ UNCHANGED <<path, tmp, data, sv, up, edits, faults, crowded, tainted>>

-----------------------------------------------------------------------------
(* Editing: load, change, save_json *)

\* An edit begins by opening the file (none, if its name has no inode); it
\* overlaps the ones in progress.
Begin(w) ==
  /\ up
  /\ edits < MaxEdits
  /\ edits' = edits + 1
  /\ sv[w].pc = "idle"
  /\ Goes(w, [pc |-> "reading", fd |-> path, doc |-> Blank])
  /\ crowded' = IF Busy = {} THEN crowded ELSE crowded \cup Busy \cup {w}
  /\ tainted' = (tainted \/ Busy # {})
  /\ UNCHANGED <<path, tmp, data, rd, up, faults>>

\* It reads and changes the document.  An edit without effect may skip the
\* save: an endpoint to delete or to toggle that is not there.
Change(w) ==
  /\ sv[w].pc = "reading"
  /\ \E f \in Edits :
       LET old == Load(sv[w].fd)
       IN  \/ /\ Goes(w, [pc |-> "open", fd |-> NoInode, doc |-> f[old]])
              /\ UNCHANGED crowded
           \/ /\ f[old] = old
              /\ Ends(w)
  /\ UNCHANGED <<path, tmp, data, rd, up, edits, faults, tainted>>

\* Mutant: a temporary file that is there is opened as it is.
KeepsContents(i) == data

\* O_TRUNC
Truncate(i) == [data EXCEPT ![i] = Empty]

\* os.open(tmp, O_CREAT | O_TRUNC): a file left there, or being written there,
\* is truncated; else a new one is made.
OpenTmp(w) ==
  /\ sv[w].pc = "open"
  /\ \E i \in IF tmp = NoInode THEN Free ELSE {tmp} :
       /\ tmp' = i
       /\ data' = IF tmp = NoInode THEN [data EXCEPT ![i] = Empty] ELSE Truncate(i)
       /\ Goes(w, [sv[w] EXCEPT !.pc = "write", !.fd = i])
  /\ UNCHANGED <<path, rd, up, edits, faults, crowded, tainted>>

\* fh.write and close: from the start of the file, over whatever somebody else
\* has written there.
Write(w) ==
  /\ sv[w].pc = "write"
  /\ \E c \in {sv[w].doc} \cup {Torn} :
       /\ c = Torn => data[sv[w].fd] # Empty
       /\ data' = [data EXCEPT ![sv[w].fd] = c]
  /\ Goes(w, [sv[w] EXCEPT !.pc = "chmod"])
  /\ UNCHANGED <<path, tmp, rd, up, edits, faults, crowded, tainted>>

\* The disk is full: the edit ends in an error and leaves its temporary file.
WriteFails(w) ==
  /\ faults < MaxFaults
  /\ faults' = faults + 1
  /\ sv[w].pc = "write"
  /\ data' = [data EXCEPT ![sv[w].fd] = Torn]
  /\ Ends(w)
  /\ UNCHANGED <<path, tmp, rd, up, edits, tainted>>

\* os.chmod(tmp): by name, and the name may have gone.
Chmod(w) ==
  /\ sv[w].pc = "chmod"
  /\ tmp # NoInode
  /\ Goes(w, [sv[w] EXCEPT !.pc = "replace"])
  /\ UNCHANGED <<path, tmp, data, rd, up, edits, faults, crowded, tainted>>

\* Mutant: the file gets the temporary one's inode, which keeps its name too.
ReplaceByLink(w) ==
  /\ sv[w].pc = "replace"
  /\ tmp # NoInode
  /\ path' = tmp
  /\ Ends(w)
  /\ tainted' = (tainted /\ w \in crowded)
  /\ UNCHANGED <<tmp, data, rd, up, edits, faults>>

\* tmp.replace(path): whatever the temporary name stands for is published now.
Replace(w) ==
  /\ sv[w].pc = "replace"
  /\ tmp # NoInode
  /\ path' = tmp
  /\ tmp' = NoInode
  /\ Ends(w)
  /\ tainted' = (tainted /\ w \in crowded)
  /\ UNCHANGED <<data, rd, up, edits, faults>>

\* os.open, chmod or rename fails: another save has renamed the temporary file,
\* or the directory cannot be written.
CallFails(w) ==
  /\ sv[w].pc \in {"open", "chmod", "replace"}
  /\ \/ sv[w].pc # "open" /\ tmp = NoInode /\ UNCHANGED faults
     \/ faults < MaxFaults /\ faults' = faults + 1
  /\ Ends(w)
  /\ UNCHANGED <<path, tmp, data, rd, up, edits, tainted>>

EditStep(w) ==
  \/ Begin(w) \/ Change(w) \/ OpenTmp(w) \/ Write(w) \/ WriteFails(w)
  \/ Chmod(w) \/ Replace(w) \/ CallFails(w)

-----------------------------------------------------------------------------
\* The panel's process ends, in the middle of whatever its threads were doing.
Crash ==
  /\ up
  /\ faults < MaxFaults
  /\ faults' = faults + 1
  /\ up' = FALSE
  /\ sv' = [w \in Savers |-> IdleSaver]
  /\ crowded' = {}
  /\ UNCHANGED <<path, tmp, data, rd, edits, tainted>>

Restart ==
  /\ ~up
  /\ up' = TRUE
  /\ UNCHANGED <<path, tmp, data, sv, rd, edits, faults, crowded, tainted>>

\* A file that was saved before, or none yet; no temporary file.
Init ==
  /\ path \in Inodes \cup {NoInode}
  /\ tmp = NoInode
  /\ data \in [Inodes -> Docs \cup {Empty}]
  /\ \A i \in Inodes : data[i] = Empty <=> i # path
  /\ sv = [w \in Savers |-> IdleSaver]
  /\ rd = [r \in Readers |-> [pc |-> "idle", fd |-> NoInode, got |-> Blank]]
  /\ up = TRUE
  /\ edits = 0 /\ faults = 0
  /\ crowded = {} /\ tainted = FALSE

Next ==
  \/ \E r \in Readers : OpenToRead(r) \/ Read(r)
  \/ \E w \in Savers : EditStep(w)
  \/ Crash
  \/ Restart

Spec == Init /\ [][Next]_vars

-----------------------------------------------------------------------------
(* Properties *)

\* The variables have their types; the file and the temporary file are never the
\* same one, and only busy savers overlap.
TypeOK ==
  /\ path \in Inodes \cup {NoInode}
  /\ tmp \in Inodes \cup {NoInode}
  /\ data \in [Inodes -> Docs \cup Unreadable]
  /\ sv \in [Savers -> Saver]
  /\ rd \in [Readers -> Reader]
  /\ up \in BOOLEAN
  /\ edits \in Nat /\ faults \in Nat
  /\ crowded \subseteq Busy
  /\ tainted \in BOOLEAN
  /\ tmp # NoInode => tmp # path
  /\ \A w \in Savers : sv[w].pc = "write" => sv[w].fd \in Inodes

\* What a reader is told: while it has the file open, what it will read there.
Out(r) == IF rd[r].pc = "reading" THEN Load(rd[r].fd) ELSE rd[r].got

\* The state file implements a document that is edited and read in one step
\* ("a crash must never leave a half-written file behind"), whatever crashes
\* and failing writes leave behind, as long as no two edits overlap; and one
\* edit on its own settles it again after some have.
Document ==
  INSTANCE SharedDocument WITH doc <- Load(path),
                               out <- [r \in Readers |-> Out(r)],
                               disturbed <- tainted
DocumentSpec == Document!Spec

\* What was saved without overlap is a whole document, after crashes and failed
\* writes too: no load mistakes the file for an empty one.
WholeWhenUndisturbed == ~tainted /\ path # NoInode => data[path] \in Docs

\* "a crash must never leave a half-written file behind" (statefile.py:4-5).
CrashLeavesNoHalfFile == ~up /\ path # NoInode => data[path] \in Docs

=============================================================================
