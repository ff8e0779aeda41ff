---------------------------- MODULE StateFile_proof -----------------------------
(***************************************************************************)
(* Proofs about StateFile for any number of savers, readers and inodes,    *)
(* any documents and edits, and any number of crashes and failing writes:  *)
(* the state file implements the shared document.                          *)
(*                                                                         *)
(* What carries the refinement is that a saver whose edit has overlapped   *)
(* no other one is the only busy one, so that the temporary name and the   *)
(* contents behind it are its own, and what it saves was made from what    *)
(* the file still says.                                                    *)
(***************************************************************************)
EXTENDS StateFile, TLAPS

\* Savers that are busy together know it, and the history does too.
Overlaps ==
  /\ \A v \in Busy, w \in Busy : v # w => w \in crowded
  /\ crowded # {} => tainted

\* No reader has the temporary file open.
ReadersApart == \A r \in Readers : rd[r].fd = tmp => tmp = NoInode

\* An edit on its own, at every step of load, change and save.
OnTrack(w) ==
  /\ sv[w].pc = "reading" => sv[w].fd = path
  /\ sv[w].pc = "write" => sv[w].fd = tmp /\ data[tmp] = Empty
  /\ sv[w].pc \in {"chmod", "replace"} => tmp # NoInode /\ data[tmp] = sv[w].doc
  /\ sv[w].pc \in {"open", "write", "chmod", "replace"} =>
       \E f \in Edits : sv[w].doc = f[Load(path)]

IInv ==
  /\ TypeOK
  /\ Overlaps
  /\ ReadersApart
  /\ \A w \in Busy \ crowded : OnTrack(w)
  /\ WholeWhenUndisturbed

-----------------------------------------------------------------------------
(* Types *)

\* A load yields a document, whatever the file contains.
LEMMA LoadType == ASSUME NEW i PROVE Load(i) \in Docs
BY StateFileAssumption DEF Load

\* What an edit makes of a document is a document.
LEMMA EditType == ASSUME NEW f \in Edits, NEW d \in Docs PROVE f[d] \in Docs
BY StateFileAssumption

\* Initially the variables have their types.
LEMMA InitType == Init => TypeOK
<1> SUFFICES ASSUME Init PROVE TypeOK
    OBVIOUS
<1>1. data \in [Inodes -> Docs \cup Unreadable]
    BY DEF Init, Unreadable
<1>2. sv \in [Savers -> Saver] /\ rd \in [Readers -> Reader]
    BY StateFileAssumption DEF Init, Saver, Reader, IdleSaver
<1>3. \A w \in Savers : sv[w].pc = "idle"
    BY DEF Init, IdleSaver
<1>4. QED BY <1>1, <1>2, <1>3 DEF Init, TypeOK

\* A saver that goes on to a state of its type leaves the savers in theirs.
LEMMA GoesType ==
  ASSUME TypeOK, NEW w \in Savers, NEW new \in Saver, Goes(w, new)
  PROVE  /\ sv' \in [Savers -> Saver]
         /\ sv'[w] = new
         /\ \A v \in Savers \ {w} : sv'[v] = sv[v]
BY DEF TypeOK, Goes

\* A saver that is through is idle, and no longer crowded.
LEMMA EndsType ==
  ASSUME TypeOK, NEW w \in Savers, Ends(w)
  PROVE  /\ sv' \in [Savers -> Saver]
         /\ sv'[w] = IdleSaver
         /\ \A v \in Savers \ {w} : sv'[v] = sv[v]
         /\ crowded' \subseteq Busy'
         /\ Busy' = Busy \ {w}
<1>1. IdleSaver \in Saver
    BY StateFileAssumption DEF Saver, IdleSaver
<1>2. /\ sv' \in [Savers -> Saver]
      /\ sv'[w] = IdleSaver
      /\ \A v \in Savers \ {w} : sv'[v] = sv[v]
    BY <1>1, GoesType DEF Ends
<1>3. Busy' = Busy \ {w}
    BY <1>2 DEF Busy, IdleSaver
<1>4. QED BY <1>2, <1>3 DEF Ends, TypeOK

-----------------------------------------------------------------------------
(* What an edit on its own can rely on *)

\* Nobody else is busy.
LEMMA Alone ==
  ASSUME Overlaps, NEW w \in Busy \ crowded, NEW v \in Busy
  PROVE  v = w
BY DEF Overlaps

\* With the names, the files and its own record unchanged, it stays on track.
LEMMA StaysOnTrack ==
  ASSUME NEW w \in Savers, OnTrack(w),
         path' = path, tmp' = tmp, data' = data, sv'[w] = sv[w]
  PROVE  OnTrack(w)'
BY DEF OnTrack, Load

-----------------------------------------------------------------------------
(* Every step preserves the invariant *)

\* The initial state satisfies the invariant.
LEMMA InitIInv == Init => IInv
<1> SUFFICES ASSUME Init PROVE IInv
    OBVIOUS
<1>1. TypeOK
    BY InitType
<1>2. Busy = {} /\ crowded = {}
    BY DEF Init, Busy, IdleSaver
<1>3. ReadersApart
    BY DEF Init, ReadersApart
<1>4. WholeWhenUndisturbed
  <2>1. path # NoInode => path \in Inodes /\ data[path] # Empty /\ data[path] \in Docs \cup {Empty}
      BY DEF Init
  <2>2. QED BY <2>1 DEF WholeWhenUndisturbed
<1>5. QED BY <1>1, <1>2, <1>3, <1>4 DEF IInv, Overlaps

\* Loading touches nothing but the reader.
LEMMA ReaderStep ==
  ASSUME IInv, NEW r \in Readers, OpenToRead(r) \/ Read(r)
  PROVE  IInv'
<1>1. /\ UNCHANGED <<path, tmp, data, sv, up, edits, faults, crowded, tainted>>
      /\ Busy' = Busy
    BY DEF OpenToRead, Read, Busy
<1>2. rd' \in [Readers -> Reader]
  <2>1. NoInode \in Inodes \cup {NoInode} /\ path \in Inodes \cup {NoInode}
      BY DEF IInv, TypeOK
  <2>2. CASE OpenToRead(r)
      BY <2>1, <2>2 DEF OpenToRead, IInv, TypeOK, Reader
  <2>3. CASE Read(r)
      BY <2>1, <2>3, LoadType DEF Read, IInv, TypeOK, Reader
  <2>4. QED BY <2>2, <2>3
<1>3. TypeOK'
    BY <1>1, <1>2 DEF IInv, TypeOK
<1>4. ReadersApart'
  <2>1. tmp # NoInode => tmp # path
      BY DEF IInv, TypeOK
  <2>2. \A q \in Readers : rd'[q].fd \in {rd[q].fd, path, NoInode}
    <3>1. rd \in [Readers -> Reader]
        BY DEF IInv, TypeOK
    <3>2. rd'[r].fd \in {path, NoInode}
      <4>1. CASE OpenToRead(r)
          BY <3>1, <4>1 DEF OpenToRead, Reader
      <4>2. CASE Read(r)
          BY <3>1, <4>2 DEF Read
      <4>3. QED BY <4>1, <4>2
    <3>3. \A q \in Readers \ {r} : rd'[q] = rd[q]
        BY <3>1 DEF OpenToRead, Read
    <3>4. QED BY <3>2, <3>3
  <2>3. QED BY <1>1, <2>1, <2>2 DEF ReadersApart, IInv
<1>5. \A w \in (Busy \ crowded)' : OnTrack(w)'
    BY <1>1, StaysOnTrack DEF IInv, Busy
<1>6. Overlaps' /\ WholeWhenUndisturbed'
    BY <1>1 DEF IInv, Overlaps, WholeWhenUndisturbed
<1>7. QED BY <1>3, <1>4, <1>5, <1>6 DEF IInv

\* An edit that begins is crowded with all that are in progress, or alone.
LEMMA BeginStep ==
  ASSUME IInv, NEW w \in Savers, Begin(w)
  PROVE  IInv'
<1> DEFINE new == [pc |-> "reading", fd |-> path, doc |-> Blank]
<1>1. UNCHANGED <<path, tmp, data, rd, up, faults>> /\ edits' = edits + 1
    BY DEF Begin
<1>2. new \in Saver
    BY StateFileAssumption DEF Saver, IInv, TypeOK
<1>3. /\ sv' \in [Savers -> Saver] /\ sv'[w] = new
      /\ \A v \in Savers \ {w} : sv'[v] = sv[v]
    BY <1>2, GoesType DEF Begin, IInv
<1>4. Busy' = Busy \cup {w} /\ w \notin Busy
    BY <1>3 DEF Busy, Begin
<1>5. crowded' = (IF Busy = {} THEN crowded ELSE crowded \cup Busy \cup {w})
      /\ tainted' = (tainted \/ Busy # {})
    BY DEF Begin
<1>6. TypeOK'
  <2>1. crowded' \subseteq Busy' /\ tainted' \in BOOLEAN /\ edits' \in Nat
      BY <1>1, <1>4, <1>5 DEF IInv, TypeOK
  <2>2. \A v \in Savers : sv'[v].pc = "write" => sv'[v].fd \in Inodes
      BY <1>3 DEF IInv, TypeOK
  <2>3. QED BY <1>1, <1>3, <2>1, <2>2 DEF IInv, TypeOK
<1>7. Overlaps'
  <2>1. crowded \subseteq Busy
      BY DEF IInv, TypeOK
  <2>2. QED BY <1>4, <1>5, <2>1 DEF IInv, Overlaps
<1>8. ReadersApart' /\ WholeWhenUndisturbed'
    BY <1>1, <1>5 DEF IInv, ReadersApart, WholeWhenUndisturbed
<1>9. \A v \in (Busy \ crowded)' : OnTrack(v)'
  <2> SUFFICES ASSUME NEW v \in (Busy \ crowded)' PROVE OnTrack(v)'
      OBVIOUS
  <2>1. v = w
      BY <1>4, <1>5
  <2>2. QED BY <1>1, <1>3, <2>1 DEF OnTrack
<1>10. QED BY <1>6, <1>7, <1>8, <1>9 DEF IInv

\* An edit that ends leaves the others as they were.
LEMMA EndsOverlaps ==
  ASSUME IInv, NEW w \in Savers, Ends(w), crowded' # {} => tainted'
  PROVE  Overlaps'
BY EndsType DEF IInv, Overlaps, Ends

\* The change is made from what the file says, if nobody else is busy.
LEMMA ChangeStep ==
  ASSUME IInv, NEW w \in Savers, Change(w)
  PROVE  IInv'
<1> USE DEF IInv
<1>1. UNCHANGED <<path, tmp, data, rd, up, edits, faults, tainted>> /\ w \in Busy
    BY DEF Change, Busy
<1>2. ReadersApart' /\ WholeWhenUndisturbed'
    BY <1>1 DEF ReadersApart, WholeWhenUndisturbed
<1>3. ASSUME NEW f \in Edits,
             Goes(w, [pc |-> "open", fd |-> NoInode, doc |-> f[Load(sv[w].fd)]]),
             UNCHANGED crowded
      PROVE  IInv'
  <2> DEFINE new == [pc |-> "open", fd |-> NoInode, doc |-> f[Load(sv[w].fd)]]
  <2>1. new \in Saver
      BY LoadType, EditType DEF Saver
  <2>2. /\ sv' \in [Savers -> Saver] /\ sv'[w] = new
        /\ \A v \in Savers \ {w} : sv'[v] = sv[v]
      BY <1>3, <2>1, GoesType
  <2>3. Busy' = Busy
      BY <1>1, <2>2 DEF Busy
  <2>4. TypeOK'
      BY <1>1, <1>3, <2>2, <2>3 DEF TypeOK
  <2>5. Overlaps'
      BY <1>1, <1>3, <2>3 DEF Overlaps
  <2>6. ASSUME NEW v \in Busy \ crowded PROVE OnTrack(v)'
    <3>1. v = w
        BY <1>1, <2>6, Alone
    <3>2. sv[w].fd = path
        BY <2>6, <3>1 DEF OnTrack, Change
    <3>3. Load(path)' = Load(path)
        BY <1>1 DEF Load
    <3>4. QED BY <2>2, <3>1, <3>2, <3>3 DEF OnTrack
  <2>7. QED BY <1>2, <1>3, <2>3, <2>4, <2>5, <2>6
<1>4. ASSUME Ends(w) PROVE IInv'
  <2>1. TypeOK'
    <3>1. \A v \in Savers : sv'[v].pc = "write" => sv'[v].fd \in Inodes
        BY <1>4, EndsType DEF TypeOK, IdleSaver
    <3>2. QED BY <1>1, <1>4, <3>1, EndsType DEF TypeOK
  <2>2. Overlaps'
      BY <1>1, <1>4, EndsOverlaps DEF Ends, Overlaps
  <2>3. ASSUME NEW v \in (Busy \ crowded)' PROVE OnTrack(v)'
    <3>1. v \in Busy \ crowded /\ v # w
        BY <1>4, <2>3, EndsType DEF Ends
    <3>2. QED BY <1>1, <3>1, Alone
  <2>4. QED BY <1>2, <2>1, <2>2, <2>3
<1>5. QED
  <2>1. PICK f \in Edits :
          \/ Goes(w, [pc |-> "open", fd |-> NoInode, doc |-> f[Load(sv[w].fd)]])
               /\ UNCHANGED crowded
          \/ Ends(w)
      BY DEF Change
  <2>2. QED BY <1>3, <1>4, <2>1

\* The temporary file is a file of the edit's own.
LEMMA OpenTmpStep ==
  ASSUME IInv, NEW w \in Savers, OpenTmp(w)
  PROVE  IInv'
<1> USE DEF IInv
<1>1. UNCHANGED <<path, rd, up, edits, faults, crowded, tainted>> /\ w \in Busy
    BY DEF OpenTmp, Busy
<1>2. PICK i \in IF tmp = NoInode THEN Free ELSE {tmp} :
        /\ tmp' = i
        /\ data' = [data EXCEPT ![i] = Empty]
        /\ Goes(w, [sv[w] EXCEPT !.pc = "write", !.fd = i])
    BY DEF OpenTmp, Truncate
<1>3. i \in Inodes /\ i # path /\ i # NoInode
      /\ \A r \in Readers : rd[r].fd # i
    BY <1>2, StateFileAssumption DEF TypeOK, Free, ReadersApart
<1>4. /\ data' \in [Inodes -> Docs \cup Unreadable]
      /\ data'[i] = Empty
      /\ \A j \in Inodes \ {i} : data'[j] = data[j]
    BY <1>2, <1>3 DEF TypeOK, Unreadable
<1> DEFINE new == [sv[w] EXCEPT !.pc = "write", !.fd = i]
<1>5. new \in Saver /\ new.pc = "write" /\ new.fd = i /\ new.doc = sv[w].doc
    BY <1>3 DEF Saver, TypeOK
<1>6. /\ sv' \in [Savers -> Saver] /\ sv'[w] = new
      /\ \A v \in Savers \ {w} : sv'[v] = sv[v]
    BY <1>2, <1>5, GoesType
<1>7. Busy' = Busy
    BY <1>1, <1>5, <1>6 DEF Busy
<1>8. TypeOK'
  <2>1. \A v \in Savers : sv'[v].pc = "write" => sv'[v].fd \in Inodes
      BY <1>3, <1>5, <1>6 DEF TypeOK
  <2>2. tmp' \in Inodes \cup {NoInode} /\ (tmp' # NoInode => tmp' # path')
      BY <1>1, <1>2, <1>3
  <2>3. QED BY <1>1, <1>4, <1>6, <1>7, <2>1, <2>2 DEF TypeOK
<1>9. Overlaps' /\ ReadersApart'
    BY <1>1, <1>2, <1>3, <1>7 DEF Overlaps, ReadersApart
<1>10. WholeWhenUndisturbed'
    BY <1>1, <1>3, <1>4 DEF WholeWhenUndisturbed, TypeOK
<1>11. ASSUME NEW v \in Busy \ crowded PROVE OnTrack(v)'
  <2>1. v = w
      BY <1>1, <1>11, Alone
  <2>2. Load(path)' = Load(path)
      BY <1>1, <1>3, <1>4 DEF Load
  <2>3. PICK f \in Edits : sv[w].doc = f[Load(path)]
      BY <1>11, <2>1 DEF OnTrack, OpenTmp
  <2>4. sv'[w].pc = "write" /\ sv'[w].fd = tmp' /\ data'[tmp'] = Empty
      BY <1>2, <1>4, <1>5, <1>6
  <2>5. sv'[w].doc = f[Load(path)']
      BY <1>5, <1>6, <2>2, <2>3
  <2>6. QED BY <2>1, <2>4, <2>5 DEF OnTrack
<1>12. QED BY <1>1, <1>7, <1>8, <1>9, <1>10, <1>11

\* Writing to the open temporary file reaches neither the file nor a reader,
\* unless edits overlap.
LEMMA WritesApart ==
  ASSUME IInv, ~tainted, NEW w \in Savers, sv[w].pc = "write"
  PROVE  sv[w].fd = tmp /\ tmp # path /\ tmp \in Inodes /\ \A r \in Readers : rd[r].fd # tmp
<1>1. w \in Busy \ crowded
    BY DEF Busy, IInv, Overlaps
<1>2. sv[w].fd = tmp
    BY <1>1 DEF IInv, OnTrack
<1>3. tmp \in Inodes /\ tmp # NoInode
    BY <1>2, StateFileAssumption DEF IInv, TypeOK
<1>4. QED BY <1>2, <1>3 DEF IInv, TypeOK, ReadersApart

\* What is written keeps the types, and a whole file whole.
LEMMA WriteData ==
  ASSUME IInv, NEW w \in Savers, sv[w].pc = "write",
         NEW c \in Docs \cup {Torn}, data' = [data EXCEPT ![sv[w].fd] = c],
         UNCHANGED <<path, tainted>>
  PROVE  /\ data' \in [Inodes -> Docs \cup Unreadable]
         /\ data'[sv[w].fd] = c
         /\ WholeWhenUndisturbed'
<1>1. sv[w].fd \in Inodes
    BY DEF IInv, TypeOK
<1>2. data' \in [Inodes -> Docs \cup Unreadable] /\ data'[sv[w].fd] = c
    BY <1>1 DEF IInv, TypeOK, Unreadable
<1>3. ASSUME ~tainted PROVE \A j \in Inodes \ {tmp} : data'[j] = data[j]
    BY <1>3, WritesApart DEF IInv, TypeOK
<1>4. WholeWhenUndisturbed'
  <2> SUFFICES ASSUME ~tainted, path # NoInode PROVE data'[path] \in Docs
      BY DEF WholeWhenUndisturbed
  <2>1. path \in Inodes \ {tmp}
      BY WritesApart DEF IInv, TypeOK
  <2>2. QED BY <1>3, <2>1 DEF IInv, WholeWhenUndisturbed
<1>5. QED BY <1>2, <1>4

\* An edit on its own writes its document to an empty file.
LEMMA WriteStep ==
  ASSUME IInv, NEW w \in Savers, Write(w)
  PROVE  IInv'
<1>1. UNCHANGED <<path, tmp, rd, up, edits, faults, crowded, tainted>>
      /\ w \in Busy /\ sv[w].pc = "write"
    BY DEF Write, Busy
<1>2. PICK c \in {sv[w].doc} \cup {Torn} :
        /\ c = Torn => data[sv[w].fd] # Empty
        /\ data' = [data EXCEPT ![sv[w].fd] = c]
    BY DEF Write
<1>3. c \in Docs \cup {Torn}
    BY <1>2 DEF IInv, TypeOK, Saver
<1>4. data' \in [Inodes -> Docs \cup Unreadable] /\ data'[sv[w].fd] = c /\ WholeWhenUndisturbed'
    BY <1>1, <1>2, <1>3, WriteData
<1> DEFINE new == [sv[w] EXCEPT !.pc = "chmod"]
<1>5. new \in Saver /\ new.pc = "chmod" /\ new.fd = sv[w].fd /\ new.doc = sv[w].doc
    BY DEF Saver, IInv, TypeOK
<1>6. /\ sv' \in [Savers -> Saver] /\ sv'[w] = new
      /\ \A v \in Savers \ {w} : sv'[v] = sv[v]
    BY <1>5, GoesType DEF Write, IInv
<1>7. Busy' = Busy
    BY <1>1, <1>5, <1>6 DEF Busy
<1>8. TypeOK'
  <2>1. \A v \in Savers : sv'[v].pc = "write" => sv'[v].fd \in Inodes
      BY <1>5, <1>6 DEF IInv, TypeOK
  <2>2. QED BY <1>1, <1>4, <1>6, <1>7, <2>1 DEF IInv, TypeOK
<1>9. Overlaps' /\ ReadersApart'
    BY <1>1, <1>7 DEF IInv, Overlaps, ReadersApart
<1>10. ASSUME NEW v \in Busy \ crowded PROVE OnTrack(v)'
  <2>1. v = w
      BY <1>1, <1>10, Alone DEF IInv
  <2>2. sv[w].fd = tmp /\ data[tmp] = Empty
        /\ \E f \in Edits : sv[w].doc = f[Load(path)]
      BY <1>1, <1>10, <2>1 DEF OnTrack, IInv
  <2>3. c = sv[w].doc
      BY <1>2, <2>2
  <2>4. tmp \in Inodes /\ tmp # path /\ tmp # NoInode
      BY <1>1, <2>2, StateFileAssumption DEF IInv, TypeOK
  <2>5. Load(path)' = Load(path)
      BY <1>1, <1>2, <2>2, <2>4 DEF Load, IInv, TypeOK
  <2>6. sv'[w].pc = "chmod" /\ tmp' # NoInode /\ data'[tmp'] = sv'[w].doc
      BY <1>1, <1>4, <1>5, <1>6, <2>2, <2>3, <2>4
  <2>7. \E f \in Edits : sv'[w].doc = f[Load(path)']
      BY <1>5, <1>6, <2>2, <2>5
  <2>8. QED BY <2>1, <2>6, <2>7 DEF OnTrack
<1>11. QED BY <1>1, <1>4, <1>7, <1>8, <1>9, <1>10 DEF IInv

\* A write that fails leaves a torn temporary file, which nobody publishes.
LEMMA WriteFailsStep ==
  ASSUME IInv, NEW w \in Savers, WriteFails(w)
  PROVE  IInv'
<1>1. /\ UNCHANGED <<path, tmp, rd, up, edits, tainted>>
      /\ faults' = faults + 1
      /\ w \in Busy /\ sv[w].pc = "write"
      /\ Ends(w)
      /\ data' = [data EXCEPT ![sv[w].fd] = Torn]
    BY DEF WriteFails, Busy
<1>2. data' \in [Inodes -> Docs \cup Unreadable] /\ WholeWhenUndisturbed'
    BY <1>1, WriteData
<1>3. TypeOK'
  <2>1. \A v \in Savers : sv'[v].pc = "write" => sv'[v].fd \in Inodes
      BY <1>1, EndsType DEF IInv, TypeOK, IdleSaver
  <2>2. QED BY <1>1, <1>2, <2>1, EndsType DEF IInv, TypeOK
<1>4. Overlaps'
    BY <1>1, EndsOverlaps DEF IInv, Ends, Overlaps
<1>5. ReadersApart'
    BY <1>1 DEF IInv, ReadersApart
<1>6. ASSUME NEW v \in (Busy \ crowded)' PROVE OnTrack(v)'
  <2>1. v \in Busy \ crowded /\ v # w
      BY <1>1, <1>6, EndsType DEF Ends, IInv
  <2>2. QED BY <1>1, <2>1, Alone DEF IInv
<1>7. QED BY <1>2, <1>3, <1>4, <1>5, <1>6 DEF IInv

\* The mode of the temporary file is no part of the state.
LEMMA ChmodStep ==
  ASSUME IInv, NEW w \in Savers, Chmod(w)
  PROVE  IInv'
<1> DEFINE new == [sv[w] EXCEPT !.pc = "replace"]
<1>1. UNCHANGED <<path, tmp, data, rd, up, edits, faults, crowded, tainted>>
      /\ w \in Busy /\ sv[w].pc = "chmod" /\ tmp # NoInode
    BY DEF Chmod, Busy
<1>2. new \in Saver /\ new.pc = "replace" /\ new.doc = sv[w].doc
    BY DEF Saver, IInv, TypeOK
<1>3. /\ sv' \in [Savers -> Saver] /\ sv'[w] = new
      /\ \A v \in Savers \ {w} : sv'[v] = sv[v]
    BY <1>2, GoesType DEF Chmod, IInv
<1>4. Busy' = Busy
    BY <1>1, <1>2, <1>3 DEF Busy
<1>5. TypeOK'
  <2>1. \A v \in Savers : sv'[v].pc = "write" => sv'[v].fd \in Inodes
      BY <1>2, <1>3 DEF IInv, TypeOK
  <2>2. QED BY <1>1, <1>3, <1>4, <2>1 DEF IInv, TypeOK
<1>6. Overlaps' /\ ReadersApart' /\ WholeWhenUndisturbed'
    BY <1>1, <1>4 DEF IInv, Overlaps, ReadersApart, WholeWhenUndisturbed
<1>7. ASSUME NEW v \in Busy \ crowded PROVE OnTrack(v)'
  <2>1. v = w
      BY <1>1, <1>7, Alone DEF IInv
  <2>2. data[tmp] = sv[w].doc /\ \E f \in Edits : sv[w].doc = f[Load(path)]
      BY <1>1, <1>7, <2>1 DEF IInv, OnTrack
  <2>3. Load(path)' = Load(path)
      BY <1>1 DEF Load
  <2>4. QED BY <1>1, <1>2, <1>3, <2>1, <2>2, <2>3 DEF OnTrack
<1>8. QED BY <1>1, <1>4, <1>5, <1>6, <1>7 DEF IInv

\* A rename by an edit on its own publishes that edit's document.
LEMMA ReplaceStep ==
  ASSUME IInv, NEW w \in Savers, Replace(w)
  PROVE  IInv'
<1>1. /\ path' = tmp /\ tmp' = NoInode /\ tmp # NoInode
      /\ UNCHANGED <<data, rd, up, edits, faults>>
      /\ tainted' = (tainted /\ w \in crowded)
      /\ w \in Busy /\ sv[w].pc = "replace"
      /\ Ends(w)
    BY DEF Replace, Busy
<1>2. w \notin crowded => Busy \ {w} = {} /\ data[tmp] \in Docs
  <2>1. sv[w].doc \in Docs
      BY DEF IInv, TypeOK, Saver
  <2>2. QED BY <1>1, <2>1, Alone DEF IInv, OnTrack
<1>3. TypeOK'
  <2>1. \A v \in Savers : sv'[v].pc = "write" => sv'[v].fd \in Inodes
      BY <1>1, EndsType DEF IInv, TypeOK, IdleSaver
  <2>2. tainted' \in BOOLEAN
      BY <1>1
  <2>3. QED BY <1>1, <2>1, <2>2, EndsType DEF IInv, TypeOK
<1>4. Overlaps'
  <2>1. crowded' # {} => w \in crowded /\ tainted
    <3>1. crowded' \subseteq Busy \ {w} /\ crowded' \subseteq crowded
        BY <1>1, EndsType DEF Ends, IInv
    <3>2. QED BY <1>2, <3>1 DEF IInv, Overlaps
  <2>2. QED BY <1>1, <2>1, EndsOverlaps
<1>5. ReadersApart'
    BY <1>1 DEF ReadersApart
<1>6. WholeWhenUndisturbed'
  <2>1. w \in crowded => tainted
      BY DEF IInv, Overlaps
  <2>2. QED BY <1>1, <1>2, <2>1 DEF WholeWhenUndisturbed
<1>7. ASSUME NEW v \in (Busy \ crowded)' PROVE OnTrack(v)'
  <2>1. v \in Busy \ crowded /\ v # w
      BY <1>1, <1>7, EndsType DEF Ends, IInv
  <2>2. QED BY <1>1, <2>1, Alone DEF IInv
<1>8. QED BY <1>3, <1>4, <1>5, <1>6, <1>7 DEF IInv

\* An edit whose call fails ends without effect.
LEMMA CallFailsStep ==
  ASSUME IInv, NEW w \in Savers, CallFails(w)
  PROVE  IInv'
<1>1. /\ UNCHANGED <<path, tmp, data, rd, up, edits, tainted>>
      /\ faults' \in {faults, faults + 1}
      /\ w \in Busy
      /\ Ends(w)
    BY DEF CallFails, Busy
<1>2. TypeOK'
  <2>1. \A v \in Savers : sv'[v].pc = "write" => sv'[v].fd \in Inodes
      BY <1>1, EndsType DEF IInv, TypeOK, IdleSaver
  <2>2. QED BY <1>1, <2>1, EndsType DEF IInv, TypeOK
<1>3. Overlaps'
    BY <1>1, EndsOverlaps DEF IInv, Ends, Overlaps
<1>4. ReadersApart' /\ WholeWhenUndisturbed'
    BY <1>1 DEF IInv, ReadersApart, WholeWhenUndisturbed
<1>5. ASSUME NEW v \in (Busy \ crowded)' PROVE OnTrack(v)'
  <2>1. v \in Busy \ crowded /\ v # w
      BY <1>1, <1>5, EndsType DEF Ends, IInv
  <2>2. QED BY <1>1, <2>1, Alone DEF IInv
<1>6. QED BY <1>2, <1>3, <1>4, <1>5 DEF IInv

\* A crash leaves the names and the files, and no edit.
LEMMA CrashStep ==
  ASSUME IInv, Crash \/ Restart
  PROVE  IInv'
<1>1. CASE Crash
  <2>1. /\ UNCHANGED <<path, tmp, data, rd, edits, tainted>>
        /\ faults' = faults + 1 /\ up' = FALSE /\ crowded' = {}
        /\ sv' = [w \in Savers |-> IdleSaver]
      BY <1>1 DEF Crash
  <2>2. sv' \in [Savers -> Saver] /\ \A w \in Savers : sv'[w].pc = "idle"
      BY <2>1, StateFileAssumption DEF Saver, IdleSaver
  <2>3. Busy' = {}
      BY <2>2 DEF Busy
  <2>4. TypeOK'
    <3>1. crowded' \subseteq Busy' /\ up' \in BOOLEAN
        BY <2>1
    <3>2. faults' \in Nat
        BY <2>1 DEF IInv, TypeOK
    <3>3. QED BY <2>1, <2>2, <3>1, <3>2 DEF IInv, TypeOK
  <2>5. Overlaps' /\ ReadersApart' /\ WholeWhenUndisturbed'
      BY <2>1, <2>3 DEF IInv, Overlaps, ReadersApart, WholeWhenUndisturbed
  <2>6. \A w \in (Busy \ crowded)' : OnTrack(w)'
      BY <2>3
  <2>7. QED BY <2>4, <2>5, <2>6 DEF IInv
<1>2. CASE Restart
  <2>1. UNCHANGED <<path, tmp, data, sv, rd, edits, faults, crowded, tainted>> /\ up' = TRUE
      BY <1>2 DEF Restart
  <2>2. Busy' = Busy
      BY <2>1 DEF Busy
  <2>3. TypeOK'
      BY <2>1, <2>2 DEF IInv, TypeOK
  <2>4. Overlaps' /\ ReadersApart' /\ WholeWhenUndisturbed'
      BY <2>1, <2>2 DEF IInv, Overlaps, ReadersApart, WholeWhenUndisturbed
  <2>5. \A w \in Busy \ crowded : OnTrack(w)'
      BY <2>1, StaysOnTrack DEF IInv, Busy
  <2>6. QED BY <2>1, <2>2, <2>3, <2>4, <2>5 DEF IInv
<1>3. QED BY <1>1, <1>2

\* Every step keeps the invariant.
LEMMA NextIInv == IInv /\ [Next]_vars => IInv'
<1> SUFFICES ASSUME IInv, [Next]_vars PROVE IInv'
    OBVIOUS
<1>1. CASE \E r \in Readers : OpenToRead(r) \/ Read(r)
    BY <1>1, ReaderStep
<1>2. CASE \E w \in Savers : EditStep(w)
    BY <1>2, BeginStep, ChangeStep, OpenTmpStep, WriteStep, WriteFailsStep, ChmodStep,
       ReplaceStep, CallFailsStep DEF EditStep
<1>3. CASE Crash \/ Restart
    BY <1>3, CrashStep
<1>4. CASE UNCHANGED vars
  <2>1. Busy' = Busy
      BY <1>4 DEF vars, Busy
  <2>2. TypeOK'
      BY <1>4, <2>1 DEF vars, IInv, TypeOK
  <2>3. Overlaps' /\ ReadersApart' /\ WholeWhenUndisturbed'
      BY <1>4, <2>1 DEF vars, IInv, Overlaps, ReadersApart, WholeWhenUndisturbed
  <2>4. UNCHANGED <<path, tmp, data, sv, crowded>>
      BY <1>4 DEF vars
  <2>5. \A w \in Busy \ crowded : OnTrack(w)'
      BY <2>4, StaysOnTrack DEF IInv, Busy
  <2>6. QED BY <2>1, <2>2, <2>3, <2>4, <2>5 DEF IInv
<1>5. QED BY <1>1, <1>2, <1>3, <1>4 DEF Next

-----------------------------------------------------------------------------
(* The state file implements the shared document *)

\* An initial state of the files is one of the document.
LEMMA InitDocument == Init => Document!Init
<1> SUFFICES ASSUME Init PROVE Document!Init
    OBVIOUS
<1>1. Load(path) \in Docs
    BY LoadType
<1>2. \A r \in Readers : Out(r) = Blank
    BY DEF Init, Out
<1>3. QED BY <1>1, <1>2 DEF Document!Init, Init

\* While edits overlap, every step disturbs the document.
LEMMA Disturbs ==
  ASSUME IInv', tainted'
  PROVE  Document!Next
<1>1. Load(path)' \in Docs
    BY StateFileAssumption DEF Load
<1>2. \A r \in Readers : Out(r)' \in Docs
    BY <1>1, StateFileAssumption DEF IInv, TypeOK, Reader, Out, Load
<1>3. Document!Disturb
    BY <1>1, <1>2 DEF Document!Disturb
<1>4. QED BY <1>3 DEF Document!Next

\* A step that changes neither the file nor what readers are told is no step of
\* the document.
LEMMA Stutters ==
  ASSUME Load(path)' = Load(path), \A r \in Readers : Out(r)' = Out(r), tainted' = tainted
  PROVE  UNCHANGED Document!vars
BY DEF Document!vars

\* Changing another file's contents is invisible.
LEMMA Unseen ==
  ASSUME IInv, NEW i \in Inodes, NEW c, data' = [data EXCEPT ![i] = c],
         i # path, \A r \in Readers : rd[r].fd # i,
         UNCHANGED <<path, rd, tainted>>
  PROVE  UNCHANGED Document!vars
<1>1. \A j \in Inodes \ {i} : data'[j] = data[j]
    BY DEF IInv, TypeOK
<1>2. Load(path)' = Load(path)
    BY <1>1 DEF Load
<1>3. \A r \in Readers : Out(r)' = Out(r)
    BY <1>1 DEF Out, Load
<1>4. QED BY <1>2, <1>3, Stutters

\* A load takes effect when the file is opened.
LEMMA ReaderDocument ==
  ASSUME IInv, ~tainted, NEW r \in Readers, OpenToRead(r) \/ Read(r)
  PROVE  [Document!Next]_(Document!vars)
<1>1. UNCHANGED <<path, data, tainted>>
    BY DEF OpenToRead, Read
<1>2. Load(path)' = Load(path)
    BY <1>1 DEF Load
<1>3. \A q \in Readers \ {r} : Out(q)' = Out(q)
  <2>1. \A q \in Readers \ {r} : rd'[q] = rd[q]
      BY DEF OpenToRead, Read, IInv, TypeOK
  <2>2. QED BY <1>1, <2>1 DEF Out, Load
<1>4. CASE OpenToRead(r)
  <2>1. rd'[r].pc = "reading" /\ rd'[r].fd = path
      BY <1>4 DEF OpenToRead, IInv, TypeOK, Reader
  <2>2. Out(r)' = Load(path)
      BY <1>1, <2>1 DEF Out, Load
  <2>3. Document!Read(r)
      BY <1>1, <1>2, <1>3, <2>2 DEF Document!Read
  <2>4. QED BY <2>3 DEF Document!Next
<1>5. CASE Read(r)
  <2>1. rd[r].pc = "reading" /\ rd'[r].pc = "idle" /\ rd'[r].got = Load(rd[r].fd)
      BY <1>5 DEF Read, IInv, TypeOK
  <2>2. Out(r)' = Out(r)
      BY <2>1 DEF Out
  <2>3. QED BY <1>1, <1>2, <1>3, <2>2, Stutters
<1>6. QED BY <1>4, <1>5

\* An edit takes effect when its temporary file is renamed.
LEMMA ReplaceDocument ==
  ASSUME IInv, NEW w \in Savers, Replace(w), ~tainted'
  PROVE  Document!Next
<1>1. /\ sv[w].pc = "replace" /\ path' = tmp /\ tmp \in Inodes
      /\ UNCHANGED <<data, rd>>
      /\ tainted' = (tainted /\ w \in crowded)
    BY DEF Replace, IInv, TypeOK
<1>2. w \in Busy \ crowded
    BY <1>1 DEF IInv, Overlaps, Busy
<1>3. data[tmp] = sv[w].doc /\ \E f \in Edits : sv[w].doc = f[Load(path)]
    BY <1>1, <1>2 DEF IInv, OnTrack
<1>4. Load(path)' = sv[w].doc
    BY <1>1, <1>3 DEF Load, IInv, TypeOK, Saver
<1>5. \A r \in Readers : Out(r)' = Out(r)
    BY <1>1 DEF Out, Load
<1>6. CASE tainted
    BY <1>3, <1>4, <1>5, <1>6 DEF Document!Settle, Document!Next
<1>7. CASE ~tainted
  <2>1. tainted' = tainted
      BY <1>1, <1>7 DEF IInv, TypeOK
  <2>2. Document!Edit
      BY <1>3, <1>4, <1>5, <1>7, <2>1 DEF Document!Edit
  <2>3. QED BY <2>2 DEF Document!Next
<1>8. QED BY <1>6, <1>7

\* The steps of an edit before its rename do not show.
LEMMA EditDocument ==
  ASSUME IInv, ~tainted, tainted' = tainted, NEW w \in Savers, EditStep(w)
  PROVE  [Document!Next]_(Document!vars)
<1>1. ASSUME UNCHANGED <<path, data, rd, tainted>> PROVE UNCHANGED Document!vars
  <2>1. Load(path)' = Load(path) /\ \A r \in Readers : Out(r)' = Out(r)
      BY <1>1 DEF Load, Out
  <2>2. QED BY <1>1, <2>1, Stutters
<1>2. CASE Begin(w)
    BY <1>1, <1>2 DEF Begin
<1>3. CASE Change(w)
    BY <1>1, <1>3 DEF Change
<1>4. CASE OpenTmp(w)
  <2>1. PICK i \in IF tmp = NoInode THEN Free ELSE {tmp} : data' = [data EXCEPT ![i] = Empty]
      BY <1>4 DEF OpenTmp, Truncate
  <2>2. i \in Inodes /\ i # path /\ \A r \in Readers : rd[r].fd # i
      BY <2>1 DEF IInv, TypeOK, Free, ReadersApart
  <2>3. QED BY <1>4, <2>1, <2>2, Unseen DEF OpenTmp
<1>5. CASE Write(w) \/ WriteFails(w)
  <2>1. PICK c : data' = [data EXCEPT ![sv[w].fd] = c]
      BY <1>5 DEF Write, WriteFails
  <2>2. sv[w].pc = "write" /\ UNCHANGED <<path, rd, tainted>>
      BY <1>5 DEF Write, WriteFails
  <2>3. sv[w].fd = tmp /\ tmp # path /\ tmp \in Inodes /\ \A r \in Readers : rd[r].fd # tmp
      BY <2>2, WritesApart
  <2>4. QED BY <2>1, <2>2, <2>3, Unseen
<1>6. CASE Chmod(w) \/ CallFails(w)
    BY <1>1, <1>6 DEF Chmod, CallFails
<1>7. CASE Replace(w)
    BY <1>7, ReplaceDocument
<1>8. QED BY <1>2, <1>3, <1>4, <1>5, <1>6, <1>7 DEF EditStep

\* Every step of the state file is a step of the document, or changes nothing
\* of it.
LEMMA NextDocument ==
  ASSUME IInv, IInv', [Next]_vars
  PROVE  [Document!Next]_(Document!vars)
<1>1. CASE tainted'
    BY <1>1, Disturbs
<1>2. CASE ~tainted'
  <2>1. ASSUME UNCHANGED <<path, data, rd, tainted>> PROVE UNCHANGED Document!vars
    <3>1. Load(path)' = Load(path) /\ \A r \in Readers : Out(r)' = Out(r)
        BY <2>1 DEF Load, Out
    <3>2. QED BY <2>1, <3>1, Stutters
  <2>2. CASE \E r \in Readers : OpenToRead(r) \/ Read(r)
    <3>1. ~tainted
        BY <1>2, <2>2 DEF OpenToRead, Read
    <3>2. QED BY <2>2, <3>1, ReaderDocument
  <2>3. CASE \E w \in Savers : EditStep(w)
    <3>1. PICK w \in Savers : EditStep(w)
        BY <2>3
    <3>2. CASE Replace(w)
        BY <1>2, <3>2, ReplaceDocument
    <3>3. CASE ~Replace(w)
      <4>1. ~tainted
          BY <1>2, <3>1, <3>3 DEF EditStep, Begin, Change, OpenTmp, Write, WriteFails,
                                  Chmod, CallFails
      <4>2. tainted' = tainted
          BY <1>2, <4>1 DEF IInv, TypeOK
      <4>3. QED BY <3>1, <4>1, <4>2, EditDocument
    <3>4. QED BY <3>2, <3>3
  <2>4. CASE Crash \/ Restart
      BY <2>1, <2>4 DEF Crash, Restart
  <2>5. CASE UNCHANGED vars
      BY <2>1, <2>5 DEF vars
  <2>6. QED BY <2>2, <2>3, <2>4, <2>5 DEF Next
<1>3. QED BY <1>1, <1>2

-----------------------------------------------------------------------------
(* The theorems *)

\* The invariant of the proofs holds in every state.
THEOREM Inductive == Spec => []IInv
BY InitIInv, NextIInv, PTL DEF Spec

\* The variables of StateFile keep their types, and the file and the temporary
\* file are never the same one, for any number of savers and readers.
THEOREM TypeCorrect == Spec => []TypeOK
<1>1. IInv => TypeOK
    BY DEF IInv
<1>2. QED BY <1>1, Inductive, PTL

\* What save_json leaves after edits without overlap is a whole document, however
\* often the panel crashes or a write fails.
THEOREM WholeFile == Spec => []WholeWhenUndisturbed
<1>1. IInv => WholeWhenUndisturbed
    BY DEF IInv
<1>2. QED BY <1>1, Inductive, PTL

\* Loading, changing and saving the state file implements a document that is
\* edited and read in one step each, as long as no two edits overlap.
THEOREM Implements == Spec => DocumentSpec
<1>1. IInv /\ IInv' /\ [Next]_vars => [Document!Next]_(Document!vars)
    BY NextDocument
<1>2. QED BY <1>1, InitDocument, Inductive, PTL DEF Spec, DocumentSpec, Document!Spec
=============================================================================
