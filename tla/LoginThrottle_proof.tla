----------------------- MODULE LoginThrottle_proof -----------------------
(***************************************************************************)
(* Proofs about LoginThrottle for every set of clients, every pool of      *)
(* threads and every lockout, limit and delay the assumptions allow: the   *)
(* lock holds, nobody is refused without cause, and guesses are bounded.   *)
(* None of it is inductive: what the throttle will answer depends on how   *)
(* its entries relate to the failures that were really noted, and on the   *)
(* threads that are between their check and their note.                    *)
(***************************************************************************)
EXTENDS LoginThrottle, FiniteSetTheorems, TLAPS

\* A thread that has read the clock gets the lock within Delay.
ClockInv ==
  \A t \in Threads : login[t].pc = "noting" =>
    /\ login[t].clock <= now
    /\ now <= login[t].clock + Delay

\* Whoever checks or notes does it for a client.
ClientInv ==
  \A t \in Threads : login[t].pc \in {"checking", "noting"} => login[t].client \in Clients

\* The entry of a client and what really happened: the entry counts all failures
\* that no long silence separates and no others, and its time is off by a delay at
\* most; without an entry the last failure is long ago.
EntryInv(c) ==
  LET r == record[c]
      e == table[c]
  IN  /\ r.last <= now /\ r.start <= now
      /\ r.recent <= r.failures
      /\ e # None => /\ r.recent <= e.failures /\ e.failures <= r.failures
                     /\ e.last <= r.last /\ r.last <= e.last + Delay
      /\ e = None => r.recent = 0 \/ now + Delay > r.last + Forget

\* The threads with a guess of client c that is not noted yet.
Guessing(c) == {t \in Threads : login[t].client = c /\ login[t].pc \in {"checking", "noting"}}

\* A client's guesses since its lockout ended are all in the hands of threads, or one
\* has been noted and locks the client out again, or the next lockout is over.
GuessInv(c) ==
  LET r == record[c]
  IN  /\ r.guesses > 0 => r.recent >= MaxFailures
      /\ \/ r.guesses <= Cardinality(Guessing(c))
         \/ /\ r.guesses <= Cardinality(Threads)
            /\ \/ table[c] # None /\ r.start <= table[c].last + Delay
               \/ now + Delay >= r.start + Lockout

IInv ==
  /\ TypeOK
  /\ ClockInv
  /\ ClientInv
  /\ \A c \in Clients : EntryInv(c) /\ GuessInv(c)

-----------------------------------------------------------------------------
(* The operators of the model *)

Table   == [Clients -> Entry \cup {None}]
Records == [failures : Nat, recent : Nat, last : Times, start : Times, guesses : Nat]
Logins  == [pc : {"idle", "refused", "checking", "noting"},
            client : Clients \cup {None}, clock : Times]

\* No entry is an entry.
LEMMA NoneIsNoEntry == None \notin Entry
BY NoneAssumption DEF Entry, Times

\* The numbers are numbers.
LEMMA Numbers ==
  /\ MaxFailures \in Nat /\ Lockout \in Nat /\ Forget \in Nat /\ Limit \in Nat
  /\ Delay \in Nat /\ MaxTime \in Nat /\ MaxRestarts \in Nat
  /\ MaxFailures > 0 /\ Lockout <= Forget /\ Delay <= Lockout
BY NumbersAssumption

\* A failure is counted and its time noted.
LEMMA FailedType ==
  ASSUME NEW e \in Entry \cup {None}, NEW clock \in Times
  PROVE  /\ Failed(e, clock) \in Entry /\ Failed(e, clock) # None
         /\ Failed(e, clock).last = clock
         /\ e = None => Failed(e, clock).failures = 1
         /\ e # None => Failed(e, clock).failures = e.failures + 1
BY NoneIsNoEntry DEF Failed, Entry

\* Pruning takes entries out whose last failure is long ago, and does nothing else.
LEMMA PruneKeeps ==
  ASSUME NEW tb \in Table, NEW clock \in Times
  PROVE  /\ Prune(tb, clock) \in Table
         /\ \A c \in Clients :
              \/ Prune(tb, clock)[c] = tb[c]
              \/ /\ Prune(tb, clock)[c] = None /\ tb[c] # None
                 /\ tb[c].last + Forget < clock
<1>1. \A c \in Clients : tb[c] # None => tb[c].last \in Nat
    BY DEF Table, Entry, Times
<1>2. QED
    BY <1>1, Numbers DEF Prune, Table, Times

\* A guess of a client in the next record.
LEMMA GuessType ==
  ASSUME NEW r \in Records, now \in Times
  PROVE  /\ Guess(r) \in Records
         /\ Guess(r).failures = r.failures /\ Guess(r).recent = r.recent
         /\ Guess(r).last = r.last
         /\ \/ r.recent < MaxFailures /\ Guess(r) = r
            \/ /\ r.recent >= MaxFailures /\ r.guesses > 0 /\ now + Delay < r.start + Lockout
               /\ Guess(r).guesses = r.guesses + 1 /\ Guess(r).start = r.start
            \/ r.recent >= MaxFailures /\ Guess(r).guesses = 1 /\ Guess(r).start = now
<1>1. CASE r.recent < MaxFailures
    BY <1>1, Numbers DEF Guess, Records
<1>2. CASE r.recent >= MaxFailures /\ r.guesses > 0 /\ now + Delay < r.start + Lockout
  <2>1. Guess(r) = [r EXCEPT !.guesses = @ + 1]
      BY <1>2, Numbers DEF Guess, Records
  <2>2. QED BY <1>2, <2>1 DEF Records
<1>3. CASE r.recent >= MaxFailures /\ ~(r.guesses > 0 /\ now + Delay < r.start + Lockout)
  <2>1. Guess(r) = [r EXCEPT !.start = now, !.guesses = 1]
      BY <1>3, Numbers DEF Guess, Records
  <2>2. /\ r.failures \in Nat /\ r.recent \in Nat /\ r.last \in Times
        /\ r = [failures |-> r.failures, recent |-> r.recent, last |-> r.last,
                start |-> r.start, guesses |-> r.guesses]
      BY DEF Records
  <2>3. Guess(r) = [failures |-> r.failures, recent |-> r.recent, last |-> r.last,
                    start |-> now, guesses |-> 1]
      BY <2>1, <2>2
  <2>4. QED BY <1>3, <2>2, <2>3 DEF Records
<1>4. QED
    BY <1>1, <1>2, <1>3, Numbers DEF Records

\* A failure in the record: after a long silence it is the first one again.
Afresh(r, clock) == [Clean EXCEPT !.failures = r.failures + 1, !.recent = 1, !.last = clock]
Another(r, clock) ==
  [r EXCEPT !.failures = @ + 1, !.recent = @ + 1, !.last = Later(@, clock)]

\* The record of a client after one more failure.
LEMMA RecordType ==
  ASSUME NEW r \in Records, NEW clock \in Times
  PROVE  /\ Afresh(r, clock) \in Records /\ Another(r, clock) \in Records
         /\ Afresh(r, clock).failures = r.failures + 1 /\ Afresh(r, clock).recent = 1
         /\ Afresh(r, clock).last = clock /\ Afresh(r, clock).start = 0
         /\ Afresh(r, clock).guesses = 0
         /\ Another(r, clock).failures = r.failures + 1
         /\ Another(r, clock).recent = r.recent + 1
         /\ Another(r, clock).last = Later(r.last, clock)
         /\ Another(r, clock).start = r.start /\ Another(r, clock).guesses = r.guesses
<1>1. /\ r.failures + 1 \in Nat /\ r.recent + 1 \in Nat
      /\ Later(r.last, clock) \in Times
      /\ 0 \in Times /\ 0 \in Nat /\ 1 \in Nat
    BY Numbers DEF Later, Records, Times
<1>2. Clean \in Records
    BY <1>1, Zenon DEF Clean, Records
<1>3. Afresh(r, clock) \in Records
    BY <1>1, <1>2, Zenon DEF Afresh, Records
<1>4. Another(r, clock) \in Records
    BY <1>1, Zenon DEF Another, Records
<1>5. /\ Afresh(r, clock).failures = r.failures + 1 /\ Afresh(r, clock).recent = 1
      /\ Afresh(r, clock).last = clock /\ Afresh(r, clock).start = 0
      /\ Afresh(r, clock).guesses = 0
    BY DEF Afresh, Clean
<1>6. /\ Another(r, clock).failures = r.failures + 1
      /\ Another(r, clock).recent = r.recent + 1
      /\ Another(r, clock).last = Later(r.last, clock)
      /\ Another(r, clock).start = r.start /\ Another(r, clock).guesses = r.guesses
    BY DEF Another, Records
<1>7. QED BY <1>3, <1>4, <1>5, <1>6

-----------------------------------------------------------------------------
(* Type correctness *)

\* The initial state is well typed.
LEMMA TypeInit == Init => TypeOK
BY Numbers DEF Init, TypeOK, Idle, Clean, Times

\* A thread goes on to another typed record.
LEMMA LoginChange ==
  ASSUME TypeOK, NEW t \in Threads, NEW l \in Logins, login' = [login EXCEPT ![t] = l]
  PROVE  login' \in [Threads -> Logins]
<1>1. login \in [Threads -> Logins]
    BY DEF TypeOK, Logins
<1>2. QED BY <1>1

\* Every step keeps the variables in their types.
LEMMA TypeStep == TypeOK /\ ClientInv /\ [Next]_vars => TypeOK'
<1> SUFFICES ASSUME TypeOK, ClientInv, [Next]_vars PROVE TypeOK'
    OBVIOUS
<1> USE DEF TypeOK
<1>0. Idle \in Logins /\ Clean \in Records /\ 0 \in Times
    BY Numbers DEF Idle, Clean, Logins, Records, Times
<1>1. ASSUME NEW t \in Threads, NEW c \in Clients, Refuse(t, c) PROVE TypeOK'
    BY <1>0, <1>1 DEF Refuse
<1>2. ASSUME NEW t \in Threads, NEW c \in Clients, Admit(t, c) PROVE TypeOK'
  <2>1. Guess(record[c]) \in Records
      BY GuessType DEF Records
  <2>2. QED BY <1>0, <1>2, <2>1 DEF Admit, Records
<1>3. ASSUME NEW t \in Threads, Answered(t) PROVE TypeOK'
    BY <1>0, <1>3 DEF Answered, Logins
<1>4. ASSUME NEW t \in Threads, Succeeds(t) PROVE TypeOK'
    BY <1>0, <1>4 DEF Succeeds, Logins, Records
<1>5. ASSUME NEW t \in Threads, Fails(t) PROVE TypeOK'
  <2> DEFINE l == [login[t] EXCEPT !.pc = "noting", !.clock = now]
  <2>1. l \in Logins
      BY DEF Logins
  <2>2. login' = [login EXCEPT ![t] = l]
      BY <1>5 DEF Fails
  <2> HIDE DEF l
  <2>3. login' \in [Threads -> Logins]
      BY <2>1, <2>2, LoginChange
  <2>4. QED BY <1>5, <2>3 DEF Fails
<1>6. ASSUME NEW t \in Threads, NoteFailure(t) PROVE TypeOK'
  <2> DEFINE c     == login[t].client
             clock == login[t].clock
             r     == record[c]
             tb    == [table EXCEPT ![c] = Failed(@, clock)]
  <2>1. c \in Clients /\ clock \in Times
      BY <1>6 DEF NoteFailure, ClientInv
  <2>2. tb \in Table
      BY <2>1, FailedType DEF Table
  <2>3. table' \in Table
    <3>1. table' = Prune(tb, clock)
        BY <1>6 DEF NoteFailure
    <3> HIDE DEF tb, clock
    <3>2. QED BY <3>1, <2>1, <2>2, PruneKeeps
  <2> r \in Records
      BY <2>1 DEF Records
  <2>4. Afresh(r, clock) \in Records /\ Another(r, clock) \in Records
      BY <2>1, RecordType
  <2>5. record' = [record EXCEPT ![c] = IF clock + 2 * Delay > r.last + Forget
                                        THEN Afresh(r, clock) ELSE Another(r, clock)]
      BY <1>6, <2>1 DEF NoteFailure, Afresh, Another
  <2>6. record' \in [Clients -> Records]
    <3> HIDE DEF r, clock, c
    <3>1. QED BY <2>4, <2>5 DEF Records
  <2>7. QED BY <1>0, <1>6, <2>3, <2>6 DEF NoteFailure, Table, Records, Logins
<1>7. CASE Tick
    BY <1>7, Numbers DEF Tick, Times
<1>8. CASE Restart
    BY <1>0, <1>8, Numbers DEF Restart, Records, Logins
<1>9. CASE UNCHANGED vars
    BY <1>9 DEF vars
<1>10. QED
    BY <1>1, <1>2, <1>3, <1>4, <1>5, <1>6, <1>7, <1>8, <1>9 DEF Next

-----------------------------------------------------------------------------
(* What a noted failure does *)

\* The client that failed has an entry with the time of its failure afterwards, which
\* counts one more; of the others an old entry may go.
LEMMA Noted ==
  ASSUME TypeOK, ClientInv, NEW t \in Threads, NoteFailure(t), NEW d \in Clients
  PROVE  LET c     == login[t].client
             clock == login[t].clock
             r     == record[c]
         IN  /\ c \in Clients /\ clock \in Times
             /\ d = c => /\ table'[d] # None /\ table'[d].last = clock
                         /\ table[d] = None => table'[d].failures = 1
                         /\ table[d] # None => table'[d].failures = table[d].failures + 1
                         /\ \/ /\ clock + 2 * Delay > r.last + Forget
                               /\ record'[d] = Afresh(r, clock)
                            \/ /\ clock + 2 * Delay <= r.last + Forget
                               /\ record'[d] = Another(r, clock)
             /\ d # c => /\ record'[d] = record[d]
                         /\ \/ table'[d] = table[d]
                            \/ /\ table'[d] = None /\ table[d] # None
                               /\ table[d].last + Forget < clock
<1> DEFINE c     == login[t].client
           clock == login[t].clock
           r     == record[c]
           tb    == [table EXCEPT ![c] = Failed(@, clock)]
<1>1. c \in Clients /\ clock \in Times /\ r \in Records
    BY DEF NoteFailure, ClientInv, TypeOK, Records
<1>2. /\ Failed(table[c], clock) \in Entry /\ Failed(table[c], clock) # None
      /\ Failed(table[c], clock).last = clock
      /\ table[c] = None => Failed(table[c], clock).failures = 1
      /\ table[c] # None => Failed(table[c], clock).failures = table[c].failures + 1
  <2> HIDE DEF c, clock
  <2>1. table[c] \in Entry \cup {None}
      BY <1>1 DEF TypeOK
  <2>2. QED BY <1>1, <2>1, FailedType
<1>3. /\ tb \in Table /\ tb[c] = Failed(table[c], clock)
      /\ d # c => tb[d] = table[d]
    BY <1>1, <1>2 DEF Table, TypeOK
<1>4. /\ table' = Prune(tb, clock)
      /\ record' = [record EXCEPT ![c] = IF clock + 2 * Delay > r.last + Forget
                                         THEN Afresh(r, clock) ELSE Another(r, clock)]
    BY <1>1 DEF NoteFailure, Afresh, Another
<1>5. \/ table'[d] = tb[d]
      \/ table'[d] = None /\ tb[d] # None /\ tb[d].last + Forget < clock
  <2> HIDE DEF tb, clock
  <2>1. QED BY <1>1, <1>3, <1>4, PruneKeeps
<1>6. ASSUME d = c
      PROVE  /\ table'[d] = Failed(table[c], clock)
             /\ \/ /\ clock + 2 * Delay > r.last + Forget
                   /\ record'[d] = Afresh(r, clock)
                \/ /\ clock + 2 * Delay <= r.last + Forget
                   /\ record'[d] = Another(r, clock)
  <2>1. r.last \in Nat /\ clock \in Nat
      BY <1>1, Numbers DEF Records, Times
  <2> HIDE DEF r, tb, clock
  <2>2. tb[d] = Failed(table[c], clock)
      BY <1>3, <1>6
  <2>3. ~(tb[d].last + Forget < clock)
      BY <1>2, <2>1, <2>2, Numbers
  <2>4. table'[d] = Failed(table[c], clock)
      BY <1>5, <2>2, <2>3
  <2>5. record'[d] = IF clock + 2 * Delay > r.last + Forget
                     THEN Afresh(r, clock) ELSE Another(r, clock)
      BY <1>1, <1>4, <1>6 DEF TypeOK
  <2>6. QED BY <2>1, <2>4, <2>5, Numbers
<1>7. ASSUME d # c
      PROVE  /\ record'[d] = record[d]
             /\ \/ table'[d] = table[d]
                \/ table'[d] = None /\ table[d] # None /\ table[d].last + Forget < clock
  <2>1. record'[d] = record[d]
      BY <1>1, <1>4, <1>7 DEF TypeOK
  <2>2. QED BY <1>3, <1>5, <1>7, <2>1
<1> HIDE DEF c, clock, r, tb
<1>8. /\ c \in Clients /\ clock \in Times
      /\ d = c => /\ table'[d] # None /\ table'[d].last = clock
                  /\ table[d] = None => table'[d].failures = 1
                  /\ table[d] # None => table'[d].failures = table[d].failures + 1
                  /\ \/ /\ clock + 2 * Delay > r.last + Forget
                        /\ record'[d] = Afresh(r, clock)
                     \/ /\ clock + 2 * Delay <= r.last + Forget
                        /\ record'[d] = Another(r, clock)
      /\ d # c => /\ record'[d] = record[d]
                  /\ \/ table'[d] = table[d]
                     \/ /\ table'[d] = None /\ table[d] # None
                        /\ table[d].last + Forget < clock
    BY <1>1, <1>2, <1>6, <1>7
<1>9. QED BY <1>8 DEF c, clock, r

-----------------------------------------------------------------------------
(* The threads *)

\* Threads that are about to note a failure are on time.
LEMMA ClockStep == TypeOK /\ ClockInv /\ [Next]_vars => ClockInv'
<1> SUFFICES ASSUME TypeOK, ClockInv, [Next]_vars,
                    NEW u \in Threads, login'[u].pc = "noting"
             PROVE  login'[u].clock <= now' /\ now' <= login'[u].clock + Delay
    BY DEF ClockInv
<1> USE DEF TypeOK, ClockInv
<1>1. now \in Nat /\ Delay \in Nat
    BY Numbers DEF Times
<1>2. ASSUME NEW t \in Threads, NEW c \in Clients, Refuse(t, c) \/ Admit(t, c)
      PROVE  login'[u] = login[u] /\ now' = now
    BY <1>2 DEF Refuse, Admit
<1>3. ASSUME NEW t \in Threads, Answered(t) \/ Succeeds(t) \/ NoteFailure(t)
      PROVE  login'[u] = login[u] /\ now' = now
    BY <1>3 DEF Answered, Succeeds, NoteFailure, Idle
<1>4. ASSUME NEW t \in Threads, Fails(t)
      PROVE  login'[u].clock <= now' /\ now' <= login'[u].clock + Delay
    BY <1>1, <1>4 DEF Fails
<1>5. ASSUME Tick
      PROVE  login'[u].clock <= now' /\ now' <= login'[u].clock + Delay
  <2>1. login'[u] = login[u] /\ now' = now + 1 /\ now < login[u].clock + Delay
      BY <1>5 DEF Tick
  <2>2. login[u].clock \in Nat
      BY DEF Times
  <2>3. QED BY <1>1, <2>1, <2>2
<1>6. ASSUME Restart PROVE FALSE
    BY <1>6 DEF Restart, Idle
<1>7. ASSUME UNCHANGED vars PROVE login'[u] = login[u] /\ now' = now
    BY <1>7 DEF vars
<1>8. QED
    BY <1>2, <1>3, <1>4, <1>5, <1>6, <1>7 DEF Next

\* Whoever checks or notes keeps its client.
LEMMA ClientStep == TypeOK /\ ClientInv /\ [Next]_vars => ClientInv'
<1> SUFFICES ASSUME TypeOK, ClientInv, [Next]_vars,
                    NEW u \in Threads, login'[u].pc \in {"checking", "noting"}
             PROVE  login'[u].client \in Clients
    BY DEF ClientInv
<1> USE DEF TypeOK, ClientInv
<1>1. ASSUME NEW t \in Threads, NEW c \in Clients, Refuse(t, c) \/ Admit(t, c)
      PROVE  login'[u].client \in Clients
    BY <1>1 DEF Refuse, Admit
<1>2. ASSUME NEW t \in Threads,
             Answered(t) \/ Succeeds(t) \/ Fails(t) \/ NoteFailure(t)
      PROVE  login'[u].client \in Clients
    BY <1>2 DEF Answered, Succeeds, Fails, NoteFailure, Idle
<1>3. ASSUME Restart PROVE FALSE
    BY <1>3 DEF Restart, Idle
<1>4. ASSUME Tick \/ UNCHANGED vars PROVE login' = login
    BY <1>4 DEF Tick, vars
<1>5. QED BY <1>1, <1>2, <1>3, <1>4 DEF Next

-----------------------------------------------------------------------------
(* The entries *)

\* The numbers in the record and the entry of a client.
LEMMA Fields ==
  ASSUME TypeOK, NEW d \in Clients
  PROVE  /\ record[d] \in Records
         /\ record[d].last \in Nat /\ record[d].start \in Nat /\ record[d].recent \in Nat
         /\ record[d].failures \in Nat /\ record[d].guesses \in Nat
         /\ table[d] # None => /\ table[d].last \in Nat
                               /\ table[d].failures \in Nat \ {0}
         /\ now \in Nat
<1>1. record[d] \in Records /\ table[d] \in Entry \cup {None} /\ now \in Times
    BY DEF TypeOK, Records
<1>2. Times \subseteq Nat
    BY Numbers DEF Times
<1>3. QED BY <1>1, <1>2 DEF Records, Entry

\* Noting a failure keeps entries and records together: an entry that is too old to be
\* kept belongs to a client whose next failure starts its record afresh.
LEMMA EntryNoted ==
  ASSUME TypeOK, ClientInv, ClockInv, NEW t \in Threads, NoteFailure(t),
         NEW d \in Clients, EntryInv(d)
  PROVE  EntryInv(d)'
<1> DEFINE c     == login[t].client
           clock == login[t].clock
<1>1. clock \in Nat /\ clock <= now /\ now <= clock + Delay /\ now' = now
    BY Numbers DEF ClockInv, NoteFailure, TypeOK, Times
<1>2. clock \in Times
    BY DEF TypeOK
<1> HIDE DEF c, clock
<1>3. ASSUME d = c PROVE EntryInv(d)'
  <2>1. /\ table'[d] # None /\ table'[d].last = clock
        /\ table[d] = None => table'[d].failures = 1
        /\ table[d] # None => table'[d].failures = table[d].failures + 1
        /\ \/ /\ clock + 2 * Delay > record[d].last + Forget
              /\ record'[d] = Afresh(record[d], clock)
           \/ /\ clock + 2 * Delay <= record[d].last + Forget
              /\ record'[d] = Another(record[d], clock)
      BY <1>3, Noted DEF c, clock
  <2>2. CASE record'[d] = Afresh(record[d], clock)
    <3>1. /\ record'[d].failures = record[d].failures + 1 /\ record'[d].recent = 1
          /\ record'[d].last = clock /\ record'[d].start = 0
        BY <1>2, <2>2, Fields, RecordType
    <3>2. QED BY <1>1, <2>1, <3>1, Fields, Numbers DEF EntryInv
  <2>3. CASE /\ clock + 2 * Delay <= record[d].last + Forget
             /\ record'[d] = Another(record[d], clock)
    <3>1. /\ record'[d].failures = record[d].failures + 1
          /\ record'[d].recent = record[d].recent + 1
          /\ record'[d].last = Later(record[d].last, clock)
          /\ record'[d].start = record[d].start
        BY <1>2, <2>3, Fields, RecordType
    <3>2. table[d] = None => record[d].recent = 0
        BY <1>1, <2>3, Fields, Numbers DEF EntryInv
    <3>3. QED BY <1>1, <2>1, <3>1, <3>2, Fields, Numbers DEF EntryInv, Later
  <2>4. QED BY <2>1, <2>2, <2>3
<1>4. ASSUME d # c PROVE EntryInv(d)'
  <2>1. /\ record'[d] = record[d]
        /\ \/ table'[d] = table[d]
           \/ table'[d] = None /\ table[d] # None /\ table[d].last + Forget < clock
      BY <1>4, Noted DEF c, clock
  <2>2. CASE table'[d] = table[d]
      BY <1>1, <2>1, <2>2 DEF EntryInv
  <2>3. CASE table'[d] = None /\ table[d] # None /\ table[d].last + Forget < clock
      BY <1>1, <2>1, <2>3, Fields, Numbers DEF EntryInv
  <2>4. QED BY <2>1, <2>2, <2>3
<1>5. QED BY <1>3, <1>4

\* So does every other step.
LEMMA EntryStep ==
  ASSUME TypeOK, ClientInv, ClockInv, [Next]_vars, NEW d \in Clients, EntryInv(d)
  PROVE  EntryInv(d)'
<1> USE DEF EntryInv
<1>1. ASSUME NEW t \in Threads, NEW c \in Clients, Refuse(t, c) PROVE EntryInv(d)'
    BY <1>1 DEF Refuse
<1>2. ASSUME NEW t \in Threads, NEW c \in Clients, Admit(t, c) PROVE EntryInv(d)'
  <2>1. now' = now /\ table' = table
        /\ record'[d] = IF d = c THEN Guess(record[d]) ELSE record[d]
      BY <1>2 DEF Admit, TypeOK
  <2>2. CASE record'[d] = Guess(record[d])
    <3>1. /\ record'[d].failures = record[d].failures
          /\ record'[d].recent = record[d].recent /\ record'[d].last = record[d].last
          /\ record'[d].start = record[d].start \/ record'[d].start = now
        BY <2>2, Fields, GuessType DEF TypeOK
    <3>2. QED BY <2>1, <3>1, Fields
  <2>3. CASE record'[d] = record[d]
      BY <2>1, <2>3
  <2>4. QED BY <2>1, <2>2, <2>3
<1>3. ASSUME NEW t \in Threads, Answered(t) PROVE EntryInv(d)'
    BY <1>3 DEF Answered
<1>4. ASSUME NEW t \in Threads, Succeeds(t) PROVE EntryInv(d)'
  <2>1. /\ now' = now
        /\ \/ table'[d] = table[d] /\ record'[d] = record[d]
           \/ table'[d] = None /\ record'[d] = Clean
      BY <1>4 DEF Succeeds, TypeOK
  <2>2. QED BY <2>1, Fields DEF Clean
<1>5. ASSUME NEW t \in Threads, Fails(t) PROVE EntryInv(d)'
    BY <1>5 DEF Fails
<1>6. ASSUME NEW t \in Threads, NoteFailure(t) PROVE EntryInv(d)'
    BY <1>6, EntryNoted
<1>7. ASSUME Tick PROVE EntryInv(d)'
  <2>1. now' = now + 1 /\ table' = table /\ record' = record
      BY <1>7 DEF Tick
  <2>2. QED BY <2>1, Fields, Numbers
<1>8. ASSUME Restart PROVE EntryInv(d)'
  <2>1. now' = now /\ table'[d] = None /\ record'[d] = Clean
      BY <1>8 DEF Restart
  <2>2. QED BY <2>1, Fields DEF Clean
<1>9. ASSUME UNCHANGED vars PROVE EntryInv(d)'
    BY <1>9 DEF vars
<1>10. QED
    BY <1>1, <1>2, <1>3, <1>4, <1>5, <1>6, <1>7, <1>8, <1>9 DEF Next

-----------------------------------------------------------------------------
(* The guesses *)

\* The threads with a guess are finitely many, at most all of them.
LEMMA GuessingFinite ==
  ASSUME NEW c
  PROVE  /\ IsFiniteSet(Guessing(c)) /\ Cardinality(Guessing(c)) \in Nat
         /\ Cardinality(Threads) \in Nat
         /\ Cardinality(Guessing(c)) <= Cardinality(Threads)
<1>1. Guessing(c) \in SUBSET Threads
    BY DEF Guessing
<1>2. QED BY <1>1, ThreadsAssumption, FS_Subset, FS_CardinalityType

\* A client without guesses satisfies the invariant.
LEMMA NoGuess ==
  ASSUME NEW d \in Clients, record'[d].guesses = 0, IsFiniteSet(Guessing(d)')
  PROVE  GuessInv(d)'
<1>1. Cardinality(Guessing(d)') \in Nat
    BY FS_CardinalityType
<1>2. QED BY <1>1 DEF GuessInv

\* An admitted guess is in the hands of its thread.  After one that was noted there is
\* none before the lockout is over: the entry still blocks.
LEMMA GuessAdmitted ==
  ASSUME TypeOK, NEW t \in Threads, NEW c \in Clients, Admit(t, c),
         NEW d \in Clients, EntryInv(d), GuessInv(d)
  PROVE  GuessInv(d)'
<1>1. now' = now /\ table' = table /\ login[t].pc = "idle" /\ ~Blocked(c)
      /\ login' = [login EXCEPT ![t] = [pc |-> "checking", client |-> c, clock |-> 0]]
      /\ record'[d] = IF d = c THEN Guess(record[d]) ELSE record[d]
    BY DEF Admit, TypeOK
<1>2. CASE d # c
  <2>1. Guessing(d)' = Guessing(d)
      BY <1>1, <1>2 DEF Guessing, TypeOK
  <2>2. record'[d] = record[d]
      BY <1>1, <1>2
  <2>3. QED BY <1>1, <2>1, <2>2 DEF GuessInv
<1>3. CASE d = c
  <2>1. Guessing(d)' = Guessing(d) \cup {t} /\ t \notin Guessing(d)
      BY <1>1, <1>3 DEF Guessing, TypeOK
  <2>2. Cardinality(Guessing(d)') = Cardinality(Guessing(d)) + 1
      BY <2>1, GuessingFinite, FS_AddElement
  <2>3. record'[d] = Guess(record[d])
      BY <1>1, <1>3
  <2>4. record'[d].recent = record[d].recent
      BY <2>3, Fields, GuessType DEF TypeOK
  <2>5. CASE record[d].recent < MaxFailures /\ record'[d] = record[d]
    <3>1. record[d].guesses = 0
        BY <2>5, Fields, Numbers DEF GuessInv
    <3>2. QED BY <2>2, <2>5, <3>1, GuessingFinite DEF GuessInv
  <2>6. CASE /\ record[d].recent >= MaxFailures /\ record[d].guesses > 0
             /\ now + Delay < record[d].start + Lockout
             /\ record'[d].guesses = record[d].guesses + 1
             /\ record'[d].start = record[d].start
    <3>1. ~(table[d] # None /\ record[d].start <= table[d].last + Delay)
      <4>1. SUFFICES ASSUME table[d] # None, record[d].start <= table[d].last + Delay
                     PROVE  FALSE
          OBVIOUS
      <4>2. table[d].failures >= MaxFailures /\ table[d].last \in Nat
          BY <2>6, <4>1, Fields, Numbers DEF EntryInv
      <4>3. now - table[d].last < Lockout
          BY <2>6, <4>1, <4>2, Fields, Numbers
      <4>4. QED BY <1>1, <1>3, <4>1, <4>2, <4>3 DEF Blocked
    <3>2. record[d].guesses <= Cardinality(Guessing(d))
        BY <2>6, <3>1, Fields, Numbers DEF GuessInv
    <3>3. QED BY <2>2, <2>4, <2>6, <3>2, Fields, GuessingFinite DEF GuessInv
  <2>7. CASE /\ record[d].recent >= MaxFailures
             /\ record'[d].guesses = 1 /\ record'[d].start = now
      BY <2>2, <2>4, <2>7, GuessingFinite DEF GuessInv
  <2>8. QED
      BY <2>3, <2>5, <2>6, <2>7, Fields, GuessType DEF TypeOK
<1>4. QED BY <1>2, <1>3

\* A noted guess blocks, or its client starts afresh; an entry that is pruned blocked
\* until after the next lockout.
LEMMA GuessNoted ==
  ASSUME TypeOK, ClientInv, ClockInv, NEW t \in Threads, NoteFailure(t),
         NEW d \in Clients, EntryInv(d), GuessInv(d)
  PROVE  GuessInv(d)'
<1> DEFINE c     == login[t].client
           clock == login[t].clock
<1>1. /\ clock \in Nat /\ clock <= now /\ now <= clock + Delay /\ now' = now
      /\ login' = [login EXCEPT ![t] = Idle]
    BY Numbers DEF ClockInv, NoteFailure, TypeOK, Times
<1>2. clock \in Times
    BY DEF TypeOK
<1>3. d # c => Guessing(d)' = Guessing(d)
    BY <1>1 DEF Guessing, Idle, TypeOK
<1>4. IsFiniteSet(Guessing(d)')
  <2>1. Guessing(d)' \in SUBSET Threads
      BY DEF Guessing
  <2>2. QED BY <2>1, ThreadsAssumption, FS_Subset
<1>5. record[d].guesses <= Cardinality(Threads)
    BY Fields, GuessingFinite DEF GuessInv
<1> HIDE DEF c, clock
<1>6. CASE d = c
  <2>1. /\ table'[d] # None /\ table'[d].last = clock
        /\ \/ record'[d] = Afresh(record[d], clock)
           \/ record'[d] = Another(record[d], clock)
      BY <1>6, Noted DEF c, clock
  <2>2. CASE record'[d] = Afresh(record[d], clock)
      BY <1>2, <1>4, <2>2, Fields, RecordType, NoGuess
  <2>3. CASE record'[d] = Another(record[d], clock)
    <3>1. /\ record'[d].recent = record[d].recent + 1
          /\ record'[d].start = record[d].start
          /\ record'[d].guesses = record[d].guesses
        BY <1>2, <2>3, Fields, RecordType
    <3>2. record[d].start <= clock + Delay
        BY <1>1, Fields, Numbers DEF EntryInv
    <3>3. QED BY <1>5, <2>1, <3>1, <3>2, Fields, Numbers DEF GuessInv
  <2>4. QED BY <2>1, <2>2, <2>3
<1>7. CASE d # c
  <2>1. /\ record'[d] = record[d]
        /\ \/ table'[d] = table[d]
           \/ table'[d] = None /\ table[d] # None /\ table[d].last + Forget < clock
      BY <1>7, Noted DEF c, clock
  <2>2. CASE table'[d] = table[d]
      BY <1>1, <1>3, <1>7, <2>1, <2>2 DEF GuessInv
  <2>3. CASE table'[d] = None /\ table[d] # None /\ table[d].last + Forget < clock
    <3>1. ASSUME record[d].start <= table[d].last + Delay
          PROVE  now + Delay >= record[d].start + Lockout
        BY <1>1, <2>3, <3>1, Fields, Numbers
    <3>2. QED BY <1>1, <1>3, <1>7, <2>1, <3>1 DEF GuessInv
  <2>4. QED BY <2>1, <2>2, <2>3
<1>8. QED BY <1>6, <1>7

\* So does every other step.
LEMMA GuessStep ==
  ASSUME TypeOK, ClientInv, ClockInv, [Next]_vars,
         NEW d \in Clients, EntryInv(d), GuessInv(d)
  PROVE  GuessInv(d)'
<1>1. ASSUME NEW t \in Threads, NEW c \in Clients, Refuse(t, c) PROVE GuessInv(d)'
  <2>1. Guessing(d)' = Guessing(d)
      BY <1>1 DEF Refuse, Guessing, TypeOK
  <2>2. QED BY <1>1, <2>1 DEF Refuse, GuessInv
<1>2. ASSUME NEW t \in Threads, NEW c \in Clients, Admit(t, c) PROVE GuessInv(d)'
    BY <1>2, GuessAdmitted
<1>3. ASSUME NEW t \in Threads, Answered(t) PROVE GuessInv(d)'
  <2>1. Guessing(d)' = Guessing(d)
      BY <1>3 DEF Answered, Guessing, TypeOK, Idle
  <2>2. QED BY <1>3, <2>1 DEF Answered, GuessInv
<1>4. ASSUME NEW t \in Threads, Succeeds(t) PROVE GuessInv(d)'
  <2>1. CASE d = login[t].client
    <3>1. record'[d].guesses = 0
        BY <1>4, <2>1 DEF Succeeds, TypeOK, Clean
    <3>2. IsFiniteSet(Guessing(d)')
      <4>1. Guessing(d)' \in SUBSET Threads
          BY DEF Guessing
      <4>2. QED BY <4>1, ThreadsAssumption, FS_Subset
    <3>3. QED BY <3>1, <3>2, NoGuess
  <2>2. CASE d # login[t].client
    <3>1. Guessing(d)' = Guessing(d)
        BY <1>4, <2>2 DEF Succeeds, Guessing, TypeOK, Idle
    <3>2. now' = now /\ table'[d] = table[d] /\ record'[d] = record[d]
        BY <1>4, <2>2 DEF Succeeds, TypeOK
    <3>3. QED BY <3>1, <3>2 DEF GuessInv
  <2>3. QED BY <2>1, <2>2
<1>5. ASSUME NEW t \in Threads, Fails(t) PROVE GuessInv(d)'
  <2>1. Guessing(d)' = Guessing(d)
      BY <1>5 DEF Fails, Guessing, TypeOK
  <2>2. QED BY <1>5, <2>1 DEF Fails, GuessInv
<1>6. ASSUME NEW t \in Threads, NoteFailure(t) PROVE GuessInv(d)'
    BY <1>6, GuessNoted
<1>7. ASSUME Tick PROVE GuessInv(d)'
  <2>1. now' = now + 1 /\ table' = table /\ record' = record /\ login' = login
      BY <1>7 DEF Tick
  <2>2. Guessing(d)' = Guessing(d)
      BY <2>1 DEF Guessing
  <2>3. QED BY <2>1, <2>2, Fields, Numbers DEF GuessInv
<1>8. ASSUME Restart PROVE GuessInv(d)'
  <2>1. record'[d].guesses = 0
      BY <1>8 DEF Restart, Clean
  <2>2. IsFiniteSet(Guessing(d)')
    <3>1. Guessing(d)' \in SUBSET Threads
        BY DEF Guessing
    <3>2. QED BY <3>1, ThreadsAssumption, FS_Subset
  <2>3. QED BY <2>1, <2>2, NoGuess
<1>9. ASSUME UNCHANGED vars PROVE GuessInv(d)'
  <2>1. Guessing(d)' = Guessing(d)
      BY <1>9 DEF vars, Guessing
  <2>2. QED BY <1>9, <2>1 DEF vars, GuessInv
<1>10. QED
    BY <1>1, <1>2, <1>3, <1>4, <1>5, <1>6, <1>7, <1>8, <1>9 DEF Next

-----------------------------------------------------------------------------
(* The theorems *)

\* The invariant holds initially ...
LEMMA IInvInit == Init => IInv
<1> SUFFICES ASSUME Init PROVE IInv
    OBVIOUS
<1>1. TypeOK
    BY TypeInit
<1>2. ClockInv /\ ClientInv
    BY DEF Init, ClockInv, ClientInv, Idle
<1>3. ASSUME NEW c \in Clients PROVE EntryInv(c) /\ GuessInv(c)
  <2>1. record[c] = Clean /\ table[c] = None /\ now = 0
      BY DEF Init
  <2>2. QED BY <2>1, GuessingFinite, Numbers DEF EntryInv, GuessInv, Clean
<1>4. QED BY <1>1, <1>2, <1>3 DEF IInv

\* ... and is kept by every step.
LEMMA IInvStep == IInv /\ [Next]_vars => IInv'
<1> SUFFICES ASSUME IInv, [Next]_vars PROVE IInv'
    OBVIOUS
<1> USE DEF IInv
<1>1. TypeOK' /\ ClockInv' /\ ClientInv'
    BY TypeStep, ClockStep, ClientStep
<1>2. ASSUME NEW d \in Clients PROVE EntryInv(d)' /\ GuessInv(d)'
    BY EntryStep, GuessStep
<1>3. QED BY <1>1, <1>2

\* The invariant of the proofs holds in every state: what an entry says is true of the
\* failures that were noted, and guesses in progress are counted.
THEOREM Inductive == Spec => []IInv
BY IInvInit, IInvStep, PTL DEF Spec

\* The throttle's table, its clocks and the threads' records keep their types: an entry
\* has counted at least one failure, and its time is one of the clock's.
THEOREM TypeCorrect == Spec => []TypeOK
<1>1. IInv => TypeOK
    BY DEF IInv
<1>2. QED BY <1>1, Inductive, PTL

\* After a lockout a client has no more guesses in a lockout than there are threads.
THEOREM FewGuesses == Spec => []GuessesBounded
<1>1. IInv => GuessesBounded
  <2> SUFFICES ASSUME IInv, NEW c \in Clients
               PROVE  record[c].guesses <= Cardinality(Threads)
      BY DEF GuessesBounded
  <2>1. QED BY Fields, GuessingFinite DEF IInv, GuessInv
<1>2. QED BY <1>1, Inductive, PTL

\* A client that has failed too often in a row is not let in before its lockout is over.
THEOREM LockedOut == Spec => LockHolds
<1>1. IInv /\ [Next]_vars =>
        [\A c \in Clients :
           Admits(c) => \/ record[c].recent < MaxFailures
                        \/ now + Delay >= record[c].last + Lockout]_vars
  <2> SUFFICES ASSUME IInv, NEW c \in Clients, NEW t \in Threads, Admit(t, c),
                      ~(record[c].recent < MaxFailures)
               PROVE  now + Delay >= record[c].last + Lockout
      BY DEF Admits
  <2>1. EntryInv(c) /\ TypeOK /\ ~Blocked(c)
      BY DEF IInv, Admit
  <2>2. CASE table[c] = None
      BY <2>1, <2>2, Fields, Numbers DEF EntryInv
  <2>3. CASE table[c] # None
      BY <2>1, <2>3, Fields, Numbers DEF EntryInv, Blocked
  <2>4. QED BY <2>2, <2>3
<1>2. QED BY <1>1, Inductive, PTL DEF Spec, LockHolds

\* Whoever is refused has failed that often himself, less than a lockout ago.
THEOREM Deserved == Spec => RefusedForCause
<1>1. IInv /\ [Next]_vars =>
        [\A c \in Clients :
           Refuses(c) => /\ record[c].failures >= MaxFailures
                         /\ now < record[c].last + Lockout]_vars
  <2> SUFFICES ASSUME IInv, NEW c \in Clients, NEW t \in Threads, Refuse(t, c)
               PROVE  /\ record[c].failures >= MaxFailures
                      /\ now < record[c].last + Lockout
      BY DEF Refuses
  <2>1. EntryInv(c) /\ TypeOK /\ Blocked(c)
      BY DEF IInv, Refuse
  <2>2. QED BY <2>1, Fields, Numbers DEF EntryInv, Blocked
<1>2. QED BY <1>1, Inductive, PTL DEF Spec, RefusedForCause
==========================================================================
