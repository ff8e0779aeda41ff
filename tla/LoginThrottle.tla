------------------------- MODULE LoginThrottle -------------------------
(***************************************************************************)
(* The brake on the login form: LoginThrottle of app/auth.py and the       *)
(* handler that uses it, app/routes/auth.py.                               *)
(*                                                                         *)
(* A request thread asks the throttle, compares the credentials and then   *)
(* notes the outcome; each of the three takes the lock for itself, and the *)
(* clock of a failure is read before its lock is taken.  The table forgets *)
(* clients that have been silent for long when it grows past its limit.    *)
(***************************************************************************)
EXTENDS Naturals, FiniteSets

CONSTANTS
  Clients,      \* the addresses logins come from
  Threads,      \* the request threads
  None,         \* no entry, nobody
  MaxFailures,  \* consecutive failures that lock a client out (5 in the code)
  Lockout,      \* for how long (60 seconds)
  Forget,       \* silence after which an entry may go (an hour, or the lockout)
  Limit,        \* entries from which on the table is pruned (256)
  Delay,        \* how long a thread may wait for the lock
  MaxTime,      \* bound on the clock
  MaxRestarts   \* bound on restarts of the panel

ASSUME NumbersAssumption ==
  /\ {MaxFailures, Lockout, Forget, Limit, Delay, MaxTime, MaxRestarts} \subseteq Nat
  /\ MaxFailures > 0 /\ Lockout <= Forget /\ Delay <= Lockout
ASSUME NoneAssumption == None \notin Clients \cup [failures : Nat, last : Nat]
ASSUME ThreadsAssumption == IsFiniteSet(Threads)

VARIABLES
  now,       \* the monotonic clock
  table,     \* by client: consecutive failures and the time of the last, or None
  login,     \* what each thread is doing
  restarts,  \* how often the panel was restarted
  record     \* history: a client's failures since its last success, the ones that
             \* no long silence separates, the latest, and its guesses since then

vars == <<now, table, login, restarts, record>>

Times == 0..MaxTime
Idle  == [pc |-> "idle", client |-> None, clock |-> 0]
Clean == [failures |-> 0, recent |-> 0, last |-> 0, start |-> 0, guesses |-> 0]

------------------------------------------------------------------------
(* The throttle.                                                           *)

\* retry_after is not 0.
Blocked(c) ==
  /\ table[c] # None /\ table[c].failures >= MaxFailures
  /\ now - table[c].last < Lockout

Size(t) == Cardinality({c \in Clients : t[c] # None})

\* Mutant: pruning keeps the clients of this second only.
PruneAll(t, clock) ==
  IF Size(t) > Limit
  THEN [c \in Clients |-> IF t[c] # None /\ t[c].last >= clock THEN t[c] ELSE None]
  ELSE t

\* Above the limit the entries go whose last failure is long ago.
Prune(t, clock) ==
  IF Size(t) > Limit
  THEN [c \in Clients |-> IF t[c] # None /\ t[c].last + Forget >= clock THEN t[c]
                          ELSE None]
  ELSE t

\* Mutant: the first failure is not counted.
FailedFromZero(entry, clock) ==
  [failures |-> IF entry = None THEN 0 ELSE entry.failures + 1, last |-> clock]

\* Mutant: the clock is not restarted.
FailedLongAgo(entry, clock) ==
  [failures |-> IF entry = None THEN 1 ELSE entry.failures + 1,
   last |-> IF entry = None THEN clock ELSE entry.last]

Failed(entry, clock) ==
  [failures |-> IF entry = None THEN 1 ELSE entry.failures + 1, last |-> clock]

------------------------------------------------------------------------
(* login_submit.                                                           *)

\* A blocked client is answered without a look at its credentials.
Refuse(t, c) ==
  /\ login[t].pc = "idle"
  /\ Blocked(c)
  /\ login' = [login EXCEPT ![t] = [pc |-> "refused", client |-> c, clock |-> 0]]
  /\ UNCHANGED <<now, table, restarts, record>>

Answered(t) ==
  /\ login[t].pc = "refused"
  /\ login' = [login EXCEPT ![t] = Idle]
  /\ UNCHANGED <<now, table, restarts, record>>

\* A client that has been locked out counts its guesses (history): the ones that
\* are less than a lockout apart from the first of them.
Guess(r) ==
  IF r.recent < MaxFailures THEN r
  ELSE IF r.guesses > 0 /\ now + Delay < r.start + Lockout
       THEN [r EXCEPT !.guesses = @ + 1]
       ELSE [r EXCEPT !.start = now, !.guesses = 1]

Admit(t, c) ==
  /\ login[t].pc = "idle"
  /\ ~Blocked(c)
  /\ login' = [login EXCEPT ![t] = [pc |-> "checking", client |-> c, clock |-> 0]]
  /\ record' = [record EXCEPT ![c] = Guess(@)]
  /\ UNCHANGED <<now, table, restarts>>

\* Mutant: the slate is not cleared.
SucceedsOnly(t) ==
  LET c == login[t].client
  IN  /\ login[t].pc = "checking"
      /\ record' = [record EXCEPT ![c] = Clean]
      /\ login' = [login EXCEPT ![t] = Idle]
      /\ UNCHANGED <<now, table, restarts>>

\* The right credentials: note_success.
Succeeds(t) ==
  LET c == login[t].client
  IN  /\ login[t].pc = "checking"
      /\ table' = [table EXCEPT ![c] = None]
      /\ record' = [record EXCEPT ![c] = Clean]
      /\ login' = [login EXCEPT ![t] = Idle]
      /\ UNCHANGED <<now, restarts>>

\* The wrong ones: note_failure reads the clock ...
Fails(t) ==
  /\ login[t].pc = "checking"
  /\ login' = [login EXCEPT ![t].pc = "noting", ![t].clock = now]
  /\ UNCHANGED <<now, table, restarts, record>>

Later(a, b) == IF a > b THEN a ELSE b

\* ... and takes the lock.
NoteFailure(t) ==
  LET c     == login[t].client
      clock == login[t].clock
      r     == record[c]
  IN  /\ login[t].pc = "noting"
      /\ table' = Prune([table EXCEPT ![c] = Failed(@, clock)], clock)
      /\ record' = [record EXCEPT ![c] =
           IF clock + 2 * Delay > r.last + Forget
           THEN [Clean EXCEPT !.failures = r.failures + 1, !.recent = 1, !.last = clock]
           ELSE [r EXCEPT !.failures = @ + 1, !.recent = @ + 1, !.last = Later(@, clock)]]
      /\ login' = [login EXCEPT ![t] = Idle]
      /\ UNCHANGED <<now, restarts>>

\* A thread gets the lock within Delay.
Tick ==
  /\ now < MaxTime
  /\ \A t \in Threads : login[t].pc = "noting" => now < login[t].clock + Delay
  /\ now' = now + 1
  /\ UNCHANGED <<table, login, restarts, record>>

\* The table is in memory only: a restart forgives everything.
Restart ==
  /\ restarts < MaxRestarts /\ restarts' = restarts + 1
  /\ table' = [c \in Clients |-> None]
  /\ record' = [c \in Clients |-> Clean]
  /\ login' = [t \in Threads |-> Idle]
  /\ UNCHANGED now

Init ==
  /\ now = 0 /\ restarts = 0
  /\ table = [c \in Clients |-> None] /\ record = [c \in Clients |-> Clean]
  /\ login = [t \in Threads |-> Idle]

Next ==
  \/ \E t \in Threads :
       \/ \E c \in Clients : Refuse(t, c) \/ Admit(t, c)
       \/ Answered(t) \/ Succeeds(t) \/ Fails(t) \/ NoteFailure(t)
  \/ Tick \/ Restart

Spec == Init /\ [][Next]_vars

------------------------------------------------------------------------
(* Properties.                                                             *)

Entry == [failures : Nat \ {0}, last : Times]

\* The types of the variables.
TypeOK ==
  /\ now \in Times /\ restarts \in 0..MaxRestarts
  /\ table \in [Clients -> Entry \cup {None}]
  /\ record \in [Clients -> [failures : Nat, recent : Nat, last : Times,
                           start : Times, guesses : Nat]]
  /\ login \in [Threads -> [pc : {"idle", "refused", "checking", "noting"},
                            client : Clients \cup {None}, clock : Times]]

Admits(c)  == \E t \in Threads : Admit(t, c)
Refuses(c) == \E t \in Threads : Refuse(t, c)

\* A client that has failed too often in a row, never silent for long, waits for the
\* lockout after its last failure, whoever else fails meanwhile, and however the
\* table is pruned; a thread that was late with an earlier failure may shorten the
\* wait by its delay.
LockHolds ==
  [][\A c \in Clients :
       Admits(c) => \/ record[c].recent < MaxFailures
                    \/ now + Delay >= record[c].last + Lockout]_vars

\* No client is refused for what others did, and none longer than for the lockout.
RefusedForCause ==
  [][\A c \in Clients :
       Refuses(c) => /\ record[c].failures >= MaxFailures
                     /\ now < record[c].last + Lockout]_vars

\* A client that has been locked out has as many guesses in a lockout as there are
\* threads to check them, one each before the first is noted, and not one more.
GuessesBounded == \A c \in Clients : record[c].guesses <= Cardinality(Threads)
========================================================================
