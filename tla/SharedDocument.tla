----------------------------- MODULE SharedDocument -----------------------------
(***************************************************************************)
(* What the state files of PrntBtlr promise (app/services/statefile.py):   *)
(* a document that is edited and read in one step each, as long as no two  *)
(* edits overlap.  Overlapping edits disturb it: anything may be lost then *)
(* and readers may see anything, until an edit that overlaps no other one  *)
(* settles it again.                                                       *)
(***************************************************************************)
CONSTANTS
  Docs,     \* what a file may say
  Blank,    \* what a missing or unreadable file is taken to say
  Edits,    \* the changes: functions from documents to documents
  Readers   \* who looks at the file

VARIABLES
  doc,        \* the document
  out,        \* what every reader was told last
  disturbed   \* edits have overlapped, and none has settled the document since

vars == <<doc, out, disturbed>>

Init ==
  /\ doc \in Docs
  /\ out = [r \in Readers |-> Blank]
  /\ disturbed = FALSE

\* An edit takes the document from what it said to what it says now.
Edit ==
  /\ ~disturbed
  /\ \E f \in Edits : doc' = f[doc]
  /\ UNCHANGED <<out, disturbed>>

Read(r) ==
  /\ ~disturbed
  /\ out' = [out EXCEPT ![r] = doc]
  /\ UNCHANGED <<doc, disturbed>>

Disturb ==
  /\ disturbed' = TRUE
  /\ doc' \in Docs
  /\ out' \in [Readers -> Docs]

\* An edit that overlaps no other one builds on whatever is left.
Settle ==
  /\ disturbed
  /\ disturbed' = FALSE
  /\ \E f \in Edits : doc' = f[doc]
  /\ UNCHANGED out

Next == Edit \/ (\E r \in Readers : Read(r)) \/ Disturb \/ Settle

Spec == Init /\ [][Next]_vars
=============================================================================
