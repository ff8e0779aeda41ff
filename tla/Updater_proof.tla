-------------------------- MODULE Updater_proof --------------------------
(***************************************************************************)
(* Proofs about Updater for every catalogue of releases, any number of     *)
(* request threads and any number of edits, faults and releases marked as  *)
(* failed: which release is picked, that preferences hold, that nothing is *)
(* announced twice or offered though it is older, and what the loop        *)
(* installs by itself.                                                     *)
(*                                                                         *)
(* The order of releases comes first: the keys of parse_version compute    *)
(* it, and the loop over the releases its maximum.                         *)
(***************************************************************************)
EXTENDS Updater, SequenceTheorems, FiniteSetTheorems, TLAPS

\* A candidate fits the channel it is kept with.
Fits(st) == st.available # None /\ st.available.prerelease => st.channel = "beta"

\* Nobody is in the middle of a check that could undo the preferences.
PrefsInv ==
  /\ Fits(file) /\ \A c \in Checkers : Fits(check[c].st)
  /\ ~lost =>
       /\ file.channel = wanted.channel /\ file.auto = wanted.auto
       /\ \A c \in Checkers : InFlight(c) =>
            check[c].st.channel = wanted.channel /\ check[c].st.auto = wanted.auto

\* A check nobody has touched began with the function switched on.
MovedInv == \A c \in Checkers : InFlight(c) /\ ~check[c].moved => updates

\* A check that runs alone is the only one, and no update is under way.
AloneInv ==
  \A c \in Checkers : check[c].alone =>
    InFlight(c) /\ unit = None /\ \A d \in Checkers : InFlight(d) => d = c

\* When all is quiet there is at most one check, and what the file offers is what the
\* endpoints know, except between the announcement and the save.
QuietInv ==
  /\ ~repeated
  /\ quiet =>
       /\ \A c, d \in Checkers : InFlight(c) /\ InFlight(d) => c = d
       /\ \A c \in Checkers : check[c].pc \in {"loaded", "act"} =>
            check[c].st.available = file.available
       /\ (\A c \in Checkers : check[c].pc # "fetched") => heard = file.available

\* What is offered is not older than any program that runs or will run, unless an
\* update has torn the two apart; nor is what a check that runs alone has found.
NotOlder(st) ==
  st.available # None =>
    /\ ~Precedes(st.available, version) /\ ~Precedes(st.available, disk)
    /\ unit # None => ~Precedes(st.available, unit)
OfferInv ==
  /\ ~torn => /\ deployed \/ disk = version
              /\ quiet => NotOlder(file)
  /\ \A c \in Checkers :
       check[c].alone /\ check[c].pc = "fetched" /\ disk = version => NotOlder(check[c].st)

IInv ==
  /\ TypeOK
  /\ PrefsInv
  /\ MovedInv
  /\ AloneInv
  /\ QuietInv
  /\ OfferInv

-----------------------------------------------------------------------------
(* The order of releases *)

\* The three numbers of a tag.
LEMMA CoreType ==
  ASSUME NEW c \in Nat \X Nat \X Nat
  PROVE  c \in Seq(Nat) /\ Len(c) = 3 /\ c[1] \in Nat /\ c[2] \in Nat /\ c[3] \in Nat
<1>1. c = <<c[1], c[2], c[3]>> /\ c[1] \in Nat /\ c[2] \in Nat /\ c[3] \in Nat
    OBVIOUS
<1>2. <<c[1], c[2], c[3]>> \in Seq(Nat) /\ Len(<<c[1], c[2], c[3]>>) = 3
    BY <1>1
<1>3. QED BY <1>1, <1>2

\* What the key has behind them.
Rank(r) == IF r.beta = 0 THEN <<1, 0>> ELSE <<0, r.beta>>
\* The five places of a key.
LEMMA KeyFields ==
  ASSUME NEW r \in Releases
  PROVE  /\ \A i \in 1..3 : Key(r)[i] = r.core[i] /\ r.core[i] \in Nat
         /\ Key(r)[4] = (IF r.beta = 0 THEN 1 ELSE 0)
         /\ Key(r)[5] = r.beta /\ r.beta \in Nat
<1>1. r.core \in Nat \X Nat \X Nat /\ r.beta \in Nat
    BY CatalogueAssumption DEF Releases
<1>2. r.core \in Seq(Nat) /\ Len(r.core) = 3 /\ \A i \in 1..3 : r.core[i] \in Nat
    BY <1>1, CoreType
<1>3. Rank(r) \in Seq(Nat) /\ Len(Rank(r)) = 2 /\ Rank(r)[1] = (IF r.beta = 0 THEN 1 ELSE 0)
      /\ Rank(r)[2] = r.beta
    BY <1>1 DEF Rank
<1>4. Key(r) = r.core \o Rank(r)
    BY DEF Key, Rank
<1>5. \A i \in 1..5 : Key(r)[i] = IF i <= 3 THEN r.core[i] ELSE Rank(r)[i - 3]
  <2>1. \A i \in 1..(Len(r.core) + Len(Rank(r))) :
          (r.core \o Rank(r))[i] = IF i <= Len(r.core) THEN r.core[i] ELSE Rank(r)[i - Len(r.core)]
      BY <1>2, <1>3, ConcatProperties
  <2>2. Len(r.core) + Len(Rank(r)) = 5 /\ Len(r.core) = 3
      BY <1>2, <1>3
  <2>3. QED BY <1>4, <2>1, <2>2
<1>6. QED BY <1>1, <1>2, <1>3, <1>5

\* Comparing keys compares releases.
LEMMA Order ==
  ASSUME NEW r \in Releases, NEW s \in Releases
  PROVE  Newer(s, r) <=> Precedes(r, s)
<1>1. \A i \in 1..3 : /\ Key(r)[i] = r.core[i] /\ r.core[i] \in Nat
                      /\ Key(s)[i] = s.core[i] /\ s.core[i] \in Nat
    BY KeyFields
<1>2. /\ Key(r)[4] = (IF r.beta = 0 THEN 1 ELSE 0) /\ Key(s)[4] = (IF s.beta = 0 THEN 1 ELSE 0)
      /\ Key(r)[5] = r.beta /\ r.beta \in Nat /\ Key(s)[5] = s.beta /\ s.beta \in Nat
    BY KeyFields
<1>3. Newer(s, r) <=>
        \/ \E i \in 1..3 : r.core[i] < s.core[i] /\ \A j \in 1..(i - 1) : r.core[j] = s.core[j]
        \/ /\ \A i \in 1..3 : r.core[i] = s.core[i]
           /\ \/ Key(s)[4] > Key(r)[4]
              \/ Key(s)[4] = Key(r)[4] /\ Key(s)[5] > Key(r)[5]
    BY <1>1 DEF Newer
<1>4. r.core = s.core <=> \A i \in 1..3 : r.core[i] = s.core[i]
  <2>1. /\ r.core \in Seq(Nat) /\ Len(r.core) = 3
        /\ s.core \in Seq(Nat) /\ Len(s.core) = 3
      BY CoreType, CatalogueAssumption DEF Releases
  <2>2. QED BY <2>1, SeqEqual
<1>5. QED BY <1>2, <1>3, <1>4 DEF Precedes

\* The comparison is a strict order.
LEMMA Transitive ==
  ASSUME NEW r \in Releases, NEW s \in Releases, NEW t \in Releases
  PROVE  /\ ~Newer(r, r)
         /\ Newer(r, s) /\ Newer(s, t) => Newer(r, t)
<1>1. \A i \in 1..5 : Key(r)[i] \in Nat /\ Key(s)[i] \in Nat /\ Key(t)[i] \in Nat
    BY KeyFields
<1>2. QED BY <1>1 DEF Newer

-----------------------------------------------------------------------------
(* The newest release of the feed *)

\* A set of numbers that is not empty has a least element ...
LEMMA Least ==
  ASSUME NEW T \in SUBSET Nat, T # {}
  PROVE  \E n \in T : \A m \in T : n <= m
<1>1. \E n \in T : \A m \in T : ~(<<m, n>> \in OpToRel(<, Nat))
    BY NatLessThanWellFounded, WFMin
<1>2. \E n \in T : \A m \in T : ~(m < n)
    BY <1>1 DEF OpToRel
<1>3. QED BY <1>2

\* ... so one that has 0 and with each number the next has all of them.
LEMMA Induction ==
  ASSUME NEW T, 0 \in T, \A n \in Nat : n \in T => n + 1 \in T
  PROVE  Nat \subseteq T
<1> SUFFICES ASSUME Nat \ T # {} PROVE FALSE
    OBVIOUS
<1>1. PICK n \in Nat \ T : \A m \in Nat \ T : n <= m
    BY Least
<1>2. n # 0 /\ n \in Nat
    BY <1>1
<1>3. n - 1 \in Nat /\ ~(n <= n - 1)
    BY <1>2
<1>4. n - 1 \in T
    BY <1>1, <1>3
<1>5. (n - 1) + 1 \in T
    BY <1>3, <1>4
<1>6. QED BY <1>1, <1>2, <1>5

\* The fold over the feed, as a function of the places it has seen.
Turn(h, s, channel) ==
  IF s = {} THEN None ELSE Better(feed[Max(s)], h[s \ {Max(s)}], channel)

\* The place it looks at next is the last.
LEMMA MaxOf ==
  ASSUME NEW n \in Nat, NEW s \in SUBSET (1..(n + 1)), n + 1 \in s
  PROVE  Max(s) = n + 1
<1>1. \A y \in s : n + 1 >= y
    OBVIOUS
<1>2. Max(s) \in s /\ \A y \in s : Max(s) >= y
    BY <1>1 DEF Max
<1>3. Max(s) \in 1..(n + 1) /\ Max(s) >= n + 1
    BY <1>2
<1>4. QED BY <1>3

\* There is such a function: one more place extends it.
LEMMA Iter ==
  ASSUME NEW channel, NEW N \in Nat
  PROVE  \E h : h = [s \in SUBSET (1..N) |-> Turn(h, s, channel)]
<1> DEFINE Has(n) == \E h : h = [s \in SUBSET (1..n) |-> Turn(h, s, channel)]
           T == {n \in Nat : Has(n)}
<1>1. 0 \in T
  <2>1. 1..0 = {}
      OBVIOUS
  <2> DEFINE h == [s \in SUBSET (1..0) |-> None]
  <2>2. \A s \in SUBSET (1..0) : s = {}
      BY <2>1
  <2>3. h = [s \in SUBSET (1..0) |-> Turn(h, s, channel)]
      BY <2>2 DEF Turn
  <2>4. QED BY <2>3
<1>2. ASSUME NEW n \in Nat, n \in T PROVE n + 1 \in T
  <2>1. PICK h : h = [s \in SUBSET (1..n) |-> Turn(h, s, channel)]
      BY <1>2
  <2> DEFINE g == [s \in SUBSET (1..(n + 1)) |->
                     IF s \in SUBSET (1..n) THEN h[s] ELSE Turn(h, s, channel)]
  <2>2. ASSUME NEW s \in SUBSET (1..(n + 1)) PROVE g[s] = Turn(g, s, channel)
    <3>1. CASE s \in SUBSET (1..n) /\ s # {}
      <4>1. s \ {Max(s)} \in SUBSET (1..n) /\ s \ {Max(s)} \in SUBSET (1..(n + 1))
          BY <3>1
      <4>2. g[s \ {Max(s)}] = h[s \ {Max(s)}]
          BY <4>1
      <4>3. g[s] = h[s] /\ h[s] = Turn(h, s, channel)
          BY <2>1, <3>1
      <4> HIDE DEF g
      <4>4. QED BY <4>2, <4>3 DEF Turn
    <3>2. CASE s = {}
      <4>1. s \in SUBSET (1..n)
          BY <3>2
      <4>2. g[s] = h[s] /\ h[s] = Turn(h, s, channel)
          BY <2>1, <4>1
      <4> HIDE DEF g
      <4>3. QED BY <3>2, <4>2 DEF Turn
    <3>3. CASE s \notin SUBSET (1..n)
      <4>1. n + 1 \in s
          BY <3>3
      <4>2. Max(s) = n + 1
          BY <4>1, MaxOf
      <4>3. s \ {Max(s)} \in SUBSET (1..n) /\ s \ {Max(s)} \in SUBSET (1..(n + 1))
          BY <4>2
      <4>4. g[s \ {Max(s)}] = h[s \ {Max(s)}]
          BY <4>3
      <4>5. g[s] = Turn(h, s, channel)
          BY <3>3
      <4> HIDE DEF g
      <4>6. QED BY <4>1, <4>4, <4>5 DEF Turn
    <3>4. QED BY <3>1, <3>2, <3>3
  <2>3. DOMAIN g = SUBSET (1..(n + 1)) /\ g = [s \in DOMAIN g |-> g[s]]
      OBVIOUS
  <2> HIDE DEF g
  <2>4. g = [s \in SUBSET (1..(n + 1)) |-> Turn(g, s, channel)]
      BY <2>2, <2>3
  <2>5. QED BY <2>4
<1> HIDE DEF T
<1>3. N \in T
    BY <1>1, <1>2, Induction
<1>4. QED BY <1>3 DEF T

\* So pick_latest is what it says of the whole feed.
LEMMA PickUnfolds ==
  ASSUME NEW channel, feed \in Seq(Catalogue)
  PROVE  \E h : /\ h = [s \in SUBSET (1..Len(feed)) |-> Turn(h, s, channel)]
               /\ PickLatest(channel) = h[1..Len(feed)]
<1>1. Len(feed) \in Nat /\ DOMAIN feed = 1..Len(feed)
    BY LenProperties
<1>2. \E h : h = [s \in SUBSET (1..Len(feed)) |-> Turn(h, s, channel)]
    BY <1>1, Iter
<1> DEFINE it == CHOOSE h : h = [s \in SUBSET (1..Len(feed)) |-> Turn(h, s, channel)]
<1>3. it = [s \in SUBSET (1..Len(feed)) |-> Turn(it, s, channel)]
    BY <1>2
<1>4. PickLatest(channel) = it[1..Len(feed)]
    BY <1>1 DEF PickLatest, FoldLeft, MapThenFoldSet, Turn
<1> HIDE DEF it
<1>5. QED BY <1>3, <1>4

\* What may be picked from the first n releases, and what is the best of a set.
Allowed(channel, n) == {feed[i] : i \in {j \in 1..n : Usable(feed[j], channel)}}
Best(v, A) ==
  IF A = {} THEN v = None ELSE v \in A /\ \A r \in A : ~Newer(r, v)

\* A turn of the loop keeps the best.
LEMMA BetterKeeps ==
  ASSUME NEW channel, NEW A \in SUBSET Releases, NEW r \in Releases, NEW v, Best(v, A)
  PROVE  Best(Better(r, v, channel), IF Usable(r, channel) THEN A \cup {r} ELSE A)
<1>0. None \notin Releases
    BY CatalogueAssumption DEF Releases
<1>1. CASE ~Usable(r, channel)
    BY <1>1 DEF Better
<1>2. CASE Usable(r, channel) /\ A = {}
    BY <1>2, Transitive DEF Better, Best
<1>3. CASE Usable(r, channel) /\ A # {}
  <2>1. v \in A /\ v \in Releases /\ v # None /\ \A s \in A : ~Newer(s, v)
      BY <1>0, <1>3 DEF Best
  <2>2. CASE Newer(r, v)
    <3>1. Better(r, v, channel) = r
        BY <1>3, <2>2 DEF Better
    <3>2. \A s \in A : ~Newer(s, r)
        BY <2>1, <2>2, Transitive
    <3>3. ~Newer(r, r)
        BY Transitive
    <3>4. QED BY <1>3, <3>1, <3>2, <3>3 DEF Best
  <2>3. CASE ~Newer(r, v)
    <3>1. Better(r, v, channel) = v
        BY <2>1, <2>3 DEF Better
    <3>2. QED BY <1>3, <2>1, <2>3, <3>1 DEF Best
  <2>4. QED BY <2>2, <2>3
<1>4. QED BY <1>1, <1>2, <1>3

\* The loop ends with the best of the feed.
LEMMA PickIsBest ==
  ASSUME NEW channel, feed \in Seq(Catalogue)
  PROVE  Best(PickLatest(channel), {r \in ToSet(feed) : Usable(r, channel)})
<1>1. Len(feed) \in Nat /\ DOMAIN feed = 1..Len(feed) /\ \A i \in 1..Len(feed) : feed[i] \in Catalogue
    BY LenProperties, ElementOfSeq
<1>2. PICK h : /\ h = [s \in SUBSET (1..Len(feed)) |-> Turn(h, s, channel)]
               /\ PickLatest(channel) = h[1..Len(feed)]
    BY PickUnfolds
<1> DEFINE T == {n \in Nat : n <= Len(feed) => Best(h[1..n], Allowed(channel, n))}
<1>3. 0 \in T
  <2>1. 1..0 = {} /\ {} \in SUBSET (1..Len(feed))
      BY <1>1
  <2>2. h[{}] = None
      BY <1>2, <2>1 DEF Turn
  <2>3. QED BY <2>1, <2>2 DEF Best, Allowed
<1>4. ASSUME NEW n \in Nat, n \in T PROVE n + 1 \in T
  <2> SUFFICES ASSUME n + 1 <= Len(feed) PROVE Best(h[1..(n + 1)], Allowed(channel, n + 1))
      OBVIOUS
  <2>1. Best(h[1..n], Allowed(channel, n))
      BY <1>1, <1>4
  <2>2. /\ n + 1 \in 1..(n + 1) /\ 1..(n + 1) \in SUBSET (1..Len(feed))
        /\ (1..(n + 1)) \ {n + 1} = 1..n /\ n + 1 \in 1..Len(feed)
      BY <1>1
  <2>3. Max(1..(n + 1)) = n + 1
      BY <2>2, MaxOf
  <2>4. h[1..(n + 1)] = Better(feed[n + 1], h[1..n], channel)
    <3>1. h[1..(n + 1)] = Turn(h, 1..(n + 1), channel)
        BY <1>2, <2>2
    <3>2. 1..(n + 1) # {}
        BY <2>2
    <3>3. QED BY <2>2, <2>3, <3>1, <3>2 DEF Turn
  <2>5. Allowed(channel, n + 1) = IF Usable(feed[n + 1], channel)
          THEN Allowed(channel, n) \cup {feed[n + 1]} ELSE Allowed(channel, n)
    <3>1. 1..(n + 1) = (1..n) \cup {n + 1}
        BY <2>2
    <3>2. QED BY <3>1 DEF Allowed
  <2>6. feed[n + 1] \in Releases /\ Allowed(channel, n) \subseteq Releases
      BY <1>1, <2>2 DEF Releases, Allowed
  <2>7. QED BY <2>1, <2>4, <2>5, <2>6, BetterKeeps
<1> HIDE DEF T
<1>5. Len(feed) \in T
    BY <1>1, <1>3, <1>4, Induction
<1>6. Best(h[1..Len(feed)], Allowed(channel, Len(feed)))
    BY <1>1, <1>5 DEF T
<1>7. Allowed(channel, Len(feed)) = {r \in ToSet(feed) : Usable(r, channel)}
    BY <1>1 DEF Allowed, ToSet
<1>8. QED BY <1>2, <1>6, <1>7

\* What a check may put into the file.
LEMMA CandidateFacts ==
  ASSUME TypeOK, NEW channel \in Channels
  PROVE  /\ Candidate(channel) \in Catalogue \cup {None}
         /\ Candidate(channel) # None =>
              /\ Candidate(channel).prerelease => channel = "beta"
              /\ ~Precedes(Candidate(channel), version)
<1> DEFINE latest == PickLatest(channel)
           A == {r \in ToSet(feed) : Usable(r, channel)}
<1>1. feed \in Seq(Catalogue) /\ version \in Releases
    BY DEF TypeOK
<1>2. Best(latest, A)
    BY <1>1, PickIsBest
<1>3. ToSet(feed) \subseteq Catalogue
    BY <1>1, LenProperties, ElementOfSeq DEF ToSet
<1>4. latest = None \/ (latest \in Catalogue /\ Usable(latest, channel))
    BY <1>2, <1>3 DEF Best
<1>5. latest # None /\ Newer(latest, version) => ~Precedes(latest, version)
    BY <1>1, <1>4, Order, Transitive DEF Releases
<1> HIDE DEF latest
<1>6. Candidate(channel) = IF latest # None /\ Newer(latest, version) THEN latest ELSE None
    BY DEF Candidate, latest
<1>7. QED BY <1>4, <1>5, <1>6 DEF Usable

-----------------------------------------------------------------------------
(* What a step does to the checks *)

ChecksOK(chk) == chk \in [Checkers -> CheckRecord] /\ \A b \in Buttons : chk[b].pc # "act"

\* A check that somebody has disturbed goes on, but not alone.
Goes(chk, d) == chk[d].pc = check[d].pc /\ chk[d].st = check[d].st
GoesOn(chk, d) == Goes(chk, d) /\ chk[d].moved = check[d].moved /\ ~chk[d].alone

\* A thread that does not check has a typed record.
LEMMA IdleType == IdleCheck \in CheckRecord
BY DEF IdleCheck, CheckRecord, Phases, FreshState, State, Channels

\* An edit disturbs the checks in progress and changes nothing else of them.
LEMMA Disturbed ==
  ASSUME TypeOK, AloneInv
  PROVE  ChecksOK(Disturb(check)) /\ \A d \in Checkers : GoesOn(Disturb(check), d)
<1>1. ASSUME NEW d \in Checkers
      PROVE  /\ Disturb(check)[d] \in CheckRecord
             /\ GoesOn(Disturb(check), d)
  <2>1. check[d] \in CheckRecord
      BY DEF TypeOK
  <2>2. CASE check[d].pc = "idle"
      BY <2>1, <2>2 DEF Disturb, AloneInv, InFlight, GoesOn, Goes
  <2>3. CASE check[d].pc # "idle"
    <3>1. Disturb(check)[d] = [check[d] EXCEPT !.alone = FALSE]
        BY <2>3 DEF Disturb
    <3>2. QED BY <2>1, <3>1 DEF CheckRecord, GoesOn, Goes
  <2>4. QED BY <2>2, <2>3
<1>2. \A b \in Buttons : Disturb(check)[b].pc # "act"
    BY <1>1 DEF GoesOn, Goes, TypeOK, Checkers
<1>3. QED BY <1>1, <1>2 DEF ChecksOK, Disturb

\* So does one whose preferences were changed, and it is marked.
LEMMA Moved ==
  ASSUME TypeOK, AloneInv
  PROVE  /\ ChecksOK(Move(check))
         /\ \A d \in Checkers : /\ Goes(Move(check), d) /\ ~Move(check)[d].alone
                                /\ InFlight(d) => Move(check)[d].moved
<1>1. ASSUME NEW d \in Checkers
      PROVE  /\ Move(check)[d] \in CheckRecord
             /\ Goes(Move(check), d) /\ ~Move(check)[d].alone
             /\ InFlight(d) => Move(check)[d].moved
  <2>1. check[d] \in CheckRecord
      BY DEF TypeOK
  <2>2. CASE check[d].pc = "idle"
      BY <2>1, <2>2 DEF Move, AloneInv, InFlight, Goes
  <2>3. CASE check[d].pc # "idle"
    <3>1. Move(check)[d] = [check[d] EXCEPT !.alone = FALSE, !.moved = TRUE]
        BY <2>3 DEF Move
    <3>2. [check[d] EXCEPT !.alone = FALSE, !.moved = TRUE] \in CheckRecord
        BY <2>1, Zenon DEF CheckRecord
    <3>3. QED BY <2>1, <3>1, <3>2 DEF CheckRecord, Goes
  <2>4. QED BY <2>2, <2>3
<1>2. \A b \in Buttons : Move(check)[b].pc # "act"
    BY <1>1 DEF Goes, TypeOK, Checkers
<1>3. QED BY <1>1, <1>2 DEF ChecksOK, Move

\* A check begins.
LEMMA Loaded ==
  ASSUME TypeOK, AloneInv, NEW c \in Checkers, Load(c)
  PROVE  /\ ChecksOK(check') /\ check'[c].pc = "loaded" /\ check'[c].st = file
         /\ check'[c].alone => ~Busy /\ unit = None
         /\ \A d \in Checkers : d # c => GoesOn(check', d)
<1> DEFINE new == [pc |-> "loaded", st |-> file, alone |-> ~Busy /\ unit = None, moved |-> FALSE]
<1>1. check' = [Disturb(check) EXCEPT ![c] = new]
    BY DEF Load
<1>2. new \in CheckRecord
    BY DEF CheckRecord, Phases, TypeOK
<1>3. new.pc = "loaded" /\ new.st = file /\ (new.alone => ~Busy /\ unit = None)
    OBVIOUS
<1> HIDE DEF new
<1>4. ChecksOK(Disturb(check)) /\ \A d \in Checkers : GoesOn(Disturb(check), d)
    BY Disturbed
<1>5. check'[c] = new /\ \A d \in Checkers : d # c => check'[d] = Disturb(check)[d]
    BY <1>1, <1>4 DEF ChecksOK
<1>6. check' \in [Checkers -> CheckRecord]
    BY <1>1, <1>2, <1>4 DEF ChecksOK
<1>7. ChecksOK(check')
    BY <1>3, <1>4, <1>5, <1>6 DEF ChecksOK, Checkers
<1>8. QED BY <1>3, <1>4, <1>5, <1>7 DEF GoesOn, Goes

\* It has the answer.
LEMMA Fetched ==
  ASSUME TypeOK, NEW c \in Checkers, Fetch(c)
  PROVE  /\ ChecksOK(check') /\ check'[c].pc = "fetched"
         /\ check'[c].st.channel = check[c].st.channel /\ check'[c].st.auto = check[c].st.auto
         /\ check'[c].st.available = Candidate(check[c].st.channel)
         /\ check'[c].alone = check[c].alone /\ check'[c].moved = check[c].moved
         /\ \A d \in Checkers : d # c => check'[d] = check[d]
<1> DEFINE new == Candidate(check[c].st.channel)
           st  == [check[c].st EXCEPT !.available = new]
           chk == [check[c] EXCEPT !.pc = "fetched", !.st = st]
<1>1. check[c] \in CheckRecord /\ check[c].st \in State /\ check[c].st.channel \in Channels
    BY DEF TypeOK, CheckRecord, State
<1>2. new \in Catalogue \cup {None}
    BY <1>1, CandidateFacts
<1>3. check' = [check EXCEPT ![c].pc = "fetched", ![c].st.available = new]
    BY DEF Fetch
<1> HIDE DEF new
<1>4. /\ st \in State /\ st.channel = check[c].st.channel /\ st.auto = check[c].st.auto
      /\ st.available = new
    BY <1>1, <1>2 DEF State
<1>5. check' = [check EXCEPT ![c] = chk]
    BY <1>1, <1>3 DEF TypeOK, CheckRecord
<1> HIDE DEF st
<1>6. chk \in CheckRecord
  <2>1. "fetched" \in Phases
      BY DEF Phases
  <2>2. QED BY <1>1, <1>4, <2>1, Zenon DEF CheckRecord
<1>7. chk.pc = "fetched" /\ chk.st = st /\ chk.alone = check[c].alone /\ chk.moved = check[c].moved
    BY <1>1 DEF CheckRecord
<1> HIDE DEF chk
<1>8. check'[c] = chk /\ \A d \in Checkers : d # c => check'[d] = check[d]
    BY <1>5 DEF TypeOK
<1>9. ChecksOK(check')
    BY <1>5, <1>6, <1>7, <1>8 DEF ChecksOK, TypeOK, Checkers
<1>10. QED BY <1>4, <1>7, <1>8, <1>9 DEF new

\* It has none: the state it has loaded stays.
LEMMA NotFetched ==
  ASSUME TypeOK, NEW c \in Checkers, FetchFails(c)
  PROVE  /\ ChecksOK(check') /\ check'[c].pc = "fetched" /\ check'[c].st = check[c].st
         /\ check'[c].alone => check[c].alone /\ quiet /\ ~torn
         /\ check'[c].moved = check[c].moved
         /\ \A d \in Checkers : d # c => check'[d] = check[d]
<1> DEFINE alone == check[c].alone /\ quiet /\ ~torn
           chk == [check[c] EXCEPT !.pc = "fetched", !.alone = alone]
<1>1. check[c] \in CheckRecord /\ alone \in BOOLEAN
    BY DEF TypeOK, CheckRecord
<1>2. check' = [check EXCEPT ![c] = chk]
    BY <1>1 DEF FetchFails, TypeOK, CheckRecord
<1>3. alone => check[c].alone /\ quiet /\ ~torn
    OBVIOUS
<1> HIDE DEF alone
<1>4. chk \in CheckRecord
  <2>1. "fetched" \in Phases
      BY DEF Phases
  <2>2. QED BY <1>1, <2>1, Zenon DEF CheckRecord
<1>5. chk.pc = "fetched" /\ chk.st = check[c].st /\ chk.alone = alone /\ chk.moved = check[c].moved
    BY <1>1 DEF CheckRecord
<1> HIDE DEF chk
<1>6. check'[c] = chk /\ \A d \in Checkers : d # c => check'[d] = check[d]
    BY <1>2 DEF TypeOK
<1>7. ChecksOK(check')
    BY <1>2, <1>4, <1>5, <1>6 DEF ChecksOK, TypeOK, Checkers
<1>8. QED BY <1>3, <1>5, <1>6, <1>7

\* It is over, except for what the loop does with it.
LEMMA Saved ==
  ASSUME TypeOK, "loop" \notin Buttons, NEW c \in Checkers, check' = AfterSave(c)
  PROVE  /\ ChecksOK(check')
         /\ \/ check'[c] = IdleCheck
            \/ /\ c = Loop /\ check'[c].pc = "act" /\ check'[c].st = check[c].st
               /\ check'[c].alone = check[c].alone /\ check'[c].moved = check[c].moved
         /\ \A d \in Checkers : d # c => check'[d] = check[d]
<1>1. check[c] \in CheckRecord /\ IdleCheck \in CheckRecord
    BY IdleType DEF TypeOK
<1>2. CASE c = Loop
  <2> DEFINE chk == [check[c] EXCEPT !.pc = "act"]
  <2>1. check' = [check EXCEPT ![c] = chk]
      BY <1>2 DEF AfterSave
  <2>2. /\ chk \in CheckRecord /\ chk.pc = "act" /\ chk.st = check[c].st
        /\ chk.alone = check[c].alone /\ chk.moved = check[c].moved
      BY <1>1 DEF CheckRecord, Phases
  <2> HIDE DEF chk
  <2>3. check'[c] = chk /\ \A d \in Checkers : d # c => check'[d] = check[d]
      BY <2>1 DEF TypeOK
  <2>4. ChecksOK(check')
      BY <1>2, <2>1, <2>2, <2>3 DEF ChecksOK, TypeOK, Checkers, Loop
  <2>5. QED BY <1>2, <2>2, <2>3, <2>4
<1>3. CASE c # Loop
  <2>1. check' = [check EXCEPT ![c] = IdleCheck]
      BY <1>3 DEF AfterSave
  <2>2. check'[c] = IdleCheck /\ \A d \in Checkers : d # c => check'[d] = check[d]
      BY <2>1 DEF TypeOK
  <2>3. IdleCheck.pc # "act"
      BY DEF IdleCheck
  <2>4. ChecksOK(check')
      BY <1>1, <2>1, <2>2, <2>3 DEF ChecksOK, TypeOK, Checkers
  <2>5. QED BY <2>2, <2>4
<1>4. QED BY <1>2, <1>3

\* A record of a check that is over.
LEMMA Idle ==
  /\ IdleCheck.pc = "idle" /\ ~IdleCheck.alone /\ IdleCheck.st = FreshState
  /\ FreshState.available = None
BY DEF IdleCheck, FreshState

\* The loop's check is put away; other ones may have been disturbed before.
LEMMA PutAway ==
  ASSUME NEW chk, ChecksOK(chk), check' = [chk EXCEPT ![Loop] = IdleCheck]
  PROVE  /\ ChecksOK(check') /\ check'[Loop] = IdleCheck
         /\ \A d \in Checkers : d # Loop => check'[d] = chk[d]
<1>1. check'[Loop] = IdleCheck /\ \A d \in Checkers : d # Loop => check'[d] = chk[d]
    BY DEF ChecksOK, Checkers
<1>2. check' \in [Checkers -> CheckRecord]
    BY IdleType DEF ChecksOK
<1>3. QED BY <1>1, <1>2, Idle DEF ChecksOK, Checkers

\* All checks are put away.
LEMMA AllIdle ==
  ASSUME check' = [c \in Checkers |-> IdleCheck]
  PROVE  ChecksOK(check') /\ \A c \in Checkers : check'[c] = IdleCheck
BY Idle, IdleType DEF ChecksOK, Checkers

-----------------------------------------------------------------------------
(* The invariant, action by action *)

\* The initial state satisfies the invariant.
LEMMA IInvInit == Init => IInv
<1> SUFFICES ASSUME Init PROVE IInv
    OBVIOUS
<1> USE DEF Init
<1>1. \A c \in Checkers : check[c] = IdleCheck
    OBVIOUS
<1>2. file \in State /\ file.available = None /\ file.channel = wanted.channel /\ file.auto = wanted.auto
    BY DEF State
<1>3. TypeOK
  <2>1. ChecksOK(check)
      BY Idle, IdleType DEF ChecksOK, Checkers
  <2>2. feed \in Seq(Catalogue)
      BY EmptySeq
  <2>3. edits \in 0..MaxEdits /\ marks \in 0..MaxMarks /\ faults \in 0..MaxFaults
      BY BoundAssumption
  <2>4. QED BY <1>2, <2>1, <2>2, <2>3 DEF TypeOK, ChecksOK, Releases
<1>4. PrefsInv
    BY <1>1, <1>2, Idle DEF PrefsInv, Fits, InFlight
<1>5. MovedInv /\ AloneInv /\ QuietInv
    BY <1>1, <1>2, Idle DEF MovedInv, AloneInv, QuietInv, InFlight
<1>6. OfferInv
    BY <1>1, <1>2, Idle DEF OfferInv, NotOlder
<1>7. QED BY <1>3, <1>4, <1>5, <1>6 DEF IInv

\* A check begins.
LEMMA LoadStep == ASSUME IInv, NEW c \in Checkers, Load(c) PROVE IInv'
<1> USE DEF IInv
<1>1. /\ ChecksOK(check') /\ check'[c].pc = "loaded" /\ check'[c].st = file
      /\ check'[c].alone => ~Busy /\ unit = None
      /\ \A d \in Checkers : d # c => GoesOn(check', d)
    BY Loaded
<1>2. /\ ~InFlight(c) /\ updates /\ quiet' = (quiet /\ ~Busy)
      /\ UNCHANGED <<environment, file, updates, installer, edits, faults, prefs, heard, repeated>>
    BY DEF Load
<1>3. TypeOK'
    BY <1>1, <1>2 DEF TypeOK, ChecksOK, environment, installer, prefs
<1>4. PrefsInv'
    BY <1>1, <1>2 DEF PrefsInv, Fits, InFlight, GoesOn, Goes, prefs
<1>5. MovedInv'
    BY <1>1, <1>2 DEF MovedInv, InFlight, GoesOn, Goes
<1>6. AloneInv'
    BY <1>1, <1>2 DEF AloneInv, InFlight, GoesOn, Goes, Busy, installer
<1>7. QuietInv'
    BY <1>1, <1>2 DEF QuietInv, InFlight, GoesOn, Goes, Busy
<1>8. OfferInv'
    BY <1>1, <1>2 DEF OfferInv, NotOlder, GoesOn, Goes, installer
<1>9. QED BY <1>3, <1>4, <1>5, <1>6, <1>7, <1>8

\* It has the answer.
LEMMA FetchStep == ASSUME IInv, NEW c \in Checkers, Fetch(c) PROVE IInv'
<1> USE DEF IInv
<1> DEFINE new == Candidate(check[c].st.channel)
<1>1. /\ ChecksOK(check') /\ check'[c].pc = "fetched"
      /\ check'[c].st.channel = check[c].st.channel /\ check'[c].st.auto = check[c].st.auto
      /\ check'[c].st.available = new
      /\ check'[c].alone = check[c].alone /\ check'[c].moved = check[c].moved
      /\ \A d \in Checkers : d # c => check'[d] = check[d]
    BY Fetched
<1>2. /\ check[c].pc = "loaded" /\ Announce(new, check[c].st.available)
      /\ UNCHANGED <<environment, file, updates, installer, edits, faults, prefs, quiet>>
    BY DEF Fetch
<1>3. check[c].st.channel \in Channels
    BY DEF TypeOK, CheckRecord, State
<1>4. /\ new \in Catalogue \cup {None}
      /\ new # None => /\ new.prerelease => check[c].st.channel = "beta"
                       /\ ~Precedes(new, version)
    BY <1>3, CandidateFacts
<1> HIDE DEF new
<1>5. TypeOK'
  <2>1. heard' \in Catalogue \cup {None} /\ repeated' \in BOOLEAN
      BY <1>2, <1>4 DEF Announce, TypeOK
  <2>2. QED BY <1>1, <1>2, <2>1 DEF TypeOK, ChecksOK, environment, installer, prefs
<1>6. PrefsInv'
    BY <1>1, <1>2, <1>4 DEF PrefsInv, Fits, InFlight, prefs
<1>7. MovedInv'
    BY <1>1, <1>2 DEF MovedInv, InFlight
<1>8. AloneInv'
    BY <1>1, <1>2 DEF AloneInv, InFlight, installer
<1>9. QuietInv'
  <2>1. ~repeated'
    <3>1. quiet => heard = check[c].st.available
      <4>1. quiet => \A d \in Checkers : check[d].pc # "fetched"
          BY <1>2 DEF QuietInv, InFlight
      <4>2. QED BY <1>2, <4>1 DEF QuietInv
    <3>2. QED BY <1>2, <3>1 DEF Announce, QuietInv
  <2>2. QED BY <1>1, <1>2, <2>1 DEF QuietInv, InFlight
<1>10. OfferInv'
  <2>1. ASSUME disk = version, check[c].alone PROVE NotOlder(check[c].st)'
    <3>1. unit = None /\ disk = version /\ UNCHANGED <<version, disk, unit>>
        BY <1>2, <2>1 DEF AloneInv, OfferInv, TypeOK, installer
    <3>2. QED BY <1>1, <1>4, <3>1 DEF NotOlder
  <2>2. QED BY <1>1, <1>2, <2>1 DEF OfferInv, NotOlder, installer
<1>11. QED BY <1>5, <1>6, <1>7, <1>8, <1>9, <1>10

\* A fault is counted.
LEMMA FaultCounted == ASSUME TypeOK, Fault PROVE faults' \in 0..MaxFaults
BY BoundAssumption DEF TypeOK, Fault

\* GitHub does not answer.
LEMMA FetchFailsStep == ASSUME IInv, NEW c \in Checkers, FetchFails(c) PROVE IInv'
<1> USE DEF IInv
<1>1. /\ ChecksOK(check') /\ check'[c].pc = "fetched" /\ check'[c].st = check[c].st
      /\ check'[c].alone => check[c].alone /\ quiet /\ ~torn
      /\ check'[c].moved = check[c].moved
      /\ \A d \in Checkers : d # c => check'[d] = check[d]
    BY NotFetched
<1>2. /\ check[c].pc = "loaded" /\ Fault
      /\ UNCHANGED <<environment, file, updates, installer, edits, prefs, news>>
    BY DEF FetchFails
<1>3. TypeOK'
    BY <1>1, <1>2, FaultCounted DEF TypeOK, ChecksOK, environment, installer, prefs, news
<1>4. PrefsInv'
    BY <1>1, <1>2 DEF PrefsInv, Fits, InFlight, prefs
<1>5. MovedInv'
    BY <1>1, <1>2 DEF MovedInv, InFlight
<1>6. AloneInv'
    BY <1>1, <1>2 DEF AloneInv, InFlight, installer
<1>7. QuietInv'
    BY <1>1, <1>2 DEF QuietInv, InFlight, news
<1>8. OfferInv'
  <2>1. check'[c].alone => NotOlder(check[c].st)'
    <3>1. quiet => check[c].st.available = file.available
        BY <1>2 DEF QuietInv
    <3>2. QED BY <1>1, <1>2, <3>1 DEF OfferInv, NotOlder, installer
  <2>2. QED BY <1>1, <1>2, <2>1 DEF OfferInv, NotOlder, installer, news
<1>9. QED BY <1>3, <1>4, <1>5, <1>6, <1>7, <1>8

\* The result is saved.
LEMMA SaveStep == ASSUME IInv, NEW c \in Checkers, Save(c) PROVE IInv'
<1> USE DEF IInv
<1>1. /\ ChecksOK(check')
      /\ \/ check'[c] = IdleCheck
         \/ /\ c = Loop /\ check'[c].pc = "act" /\ check'[c].st = check[c].st
            /\ check'[c].alone = check[c].alone /\ check'[c].moved = check[c].moved
      /\ \A d \in Checkers : d # c => check'[d] = check[d]
    BY Saved, CatalogueAssumption DEF Save
<1>2. /\ check[c].pc = "fetched" /\ file' = check[c].st /\ quiet' = check[c].alone
      /\ heard' = check[c].st.available
      /\ torn' = IF check[c].alone THEN disk # version ELSE torn
      /\ UNCHANGED <<environment, updates, version, disk, unit, deployed, edits, faults, prefs,
                     repeated>>
    BY DEF Save
<1>3. /\ check[c].st \in State /\ check[c].alone \in BOOLEAN /\ heard' \in Catalogue \cup {None}
      /\ torn' \in BOOLEAN
    BY <1>2 DEF TypeOK, CheckRecord, State
<1>4. TypeOK'
    BY <1>1, <1>2, <1>3 DEF TypeOK, ChecksOK, environment, prefs
<1>5. PrefsInv'
    BY <1>1, <1>2, Idle DEF PrefsInv, Fits, InFlight, prefs
<1>6. MovedInv'
    BY <1>1, <1>2, Idle DEF MovedInv, InFlight
<1>7. AloneInv'
    BY <1>1, <1>2, Idle DEF AloneInv, InFlight
<1>8. QuietInv'
    BY <1>1, <1>2, Idle DEF QuietInv, InFlight, AloneInv
<1>9. OfferInv'
    BY <1>1, <1>2, Idle DEF OfferInv, NotOlder
<1>10. QED BY <1>4, <1>5, <1>6, <1>7, <1>8, <1>9

\* The result is not saved, but used.
LEMMA SaveFailsStep == ASSUME IInv, NEW c \in Checkers, SaveFails(c) PROVE IInv'
<1> USE DEF IInv
<1>1. /\ ChecksOK(check')
      /\ \/ check'[c] = IdleCheck
         \/ /\ c = Loop /\ check'[c].pc = "act" /\ check'[c].st = check[c].st
            /\ check'[c].alone = check[c].alone /\ check'[c].moved = check[c].moved
      /\ \A d \in Checkers : d # c => check'[d] = check[d]
    BY Saved, CatalogueAssumption DEF SaveFails
<1>2. /\ check[c].pc = "fetched" /\ quiet' = FALSE /\ Fault
      /\ UNCHANGED <<environment, file, updates, installer, edits, prefs, heard, repeated>>
    BY DEF SaveFails
<1>3. TypeOK'
    BY <1>1, <1>2, FaultCounted DEF TypeOK, ChecksOK, environment, installer, prefs
<1>4. PrefsInv'
    BY <1>1, <1>2, Idle DEF PrefsInv, Fits, InFlight, prefs
<1>5. MovedInv'
    BY <1>1, <1>2, Idle DEF MovedInv, InFlight
<1>6. AloneInv'
    BY <1>1, <1>2, Idle DEF AloneInv, InFlight, installer
<1>7. QuietInv' /\ OfferInv'
    BY <1>1, <1>2, Idle DEF QuietInv, OfferInv, NotOlder, installer
<1>8. QED BY <1>3, <1>4, <1>5, <1>6, <1>7

\* An update starts, or nothing happens.
LEMMA Started ==
  ASSUME TypeOK, NEW r \in Catalogue, StartUpdate(r)
  PROVE  /\ faults' \in 0..MaxFaults
         /\ \/ unit = None /\ unit' = r /\ r # None /\ deployed' = FALSE /\ deployed = FALSE
            \/ unit' = unit /\ deployed' = deployed
<1>1. faults' \in 0..MaxFaults
    BY FaultCounted DEF StartUpdate, TypeOK
<1>2. r # None /\ (unit = None => deployed = FALSE)
    BY CatalogueAssumption DEF TypeOK
<1>3. QED BY <1>1, <1>2 DEF StartUpdate

\* The loop installs what its check returned.
LEMMA AutoUpdateStep == ASSUME IInv, AutoUpdate PROVE IInv'
<1> USE DEF IInv
<1> DEFINE r == check[Loop].st.available
<1>1. /\ check[Loop].pc = "act" /\ Loop \in Checkers
      /\ Wants(check[Loop].st) /\ StartUpdate(r)
      /\ UNCHANGED <<environment, file, updates, version, disk, torn, edits, prefs, news>>
    BY DEF AutoUpdate, Checkers
<1>2. r \in Catalogue
    BY <1>1 DEF Wants, TypeOK, CheckRecord, State
<1>3. /\ ChecksOK(check') /\ check'[Loop] = IdleCheck
      /\ \A d \in Checkers : d # Loop => GoesOn(check', d)
  <2>1. ChecksOK(Disturb(check)) /\ \A d \in Checkers : GoesOn(Disturb(check), d)
      BY Disturbed
  <2>2. check' = [Disturb(check) EXCEPT ![Loop] = IdleCheck]
      BY DEF AutoUpdate
  <2>3. /\ ChecksOK(check') /\ check'[Loop] = IdleCheck
        /\ \A d \in Checkers : d # Loop => check'[d] = Disturb(check)[d]
      BY <2>1, <2>2, PutAway
  <2>4. ASSUME NEW d \in Checkers, d # Loop PROVE GoesOn(check', d)
    <3>1. check'[d] = Disturb(check)[d] /\ GoesOn(Disturb(check), d)
        BY <2>1, <2>3, <2>4
    <3>2. QED BY <3>1 DEF GoesOn, Goes
  <2>5. QED BY <2>3, <2>4
<1>4. quiet => r = file.available
    BY <1>1 DEF QuietInv
<1> HIDE DEF r
<1>5. /\ faults' \in 0..MaxFaults
      /\ \/ unit = None /\ unit' = r /\ r # None /\ deployed' = FALSE /\ deployed = FALSE
         \/ unit' = unit /\ deployed' = deployed
    BY <1>1, <1>2, Started DEF r
<1>6. TypeOK'
  <2>1. /\ unit' \in Catalogue \cup {None} /\ deployed' \in BOOLEAN
        /\ deployed' => unit' # None /\ disk' = unit'
    <3>1. unit' \in Catalogue \cup {None}
        BY <1>2, <1>5 DEF TypeOK
    <3>2. deployed' \in BOOLEAN
        BY <1>5 DEF TypeOK
    <3>3. deployed' => unit' # None /\ disk' = unit'
        BY <1>1, <1>5 DEF TypeOK
    <3>4. QED BY <3>1, <3>2, <3>3
  <2>2. QED BY <1>1, <1>3, <1>5, <2>1 DEF TypeOK, ChecksOK, environment, prefs, news
<1>7. PrefsInv'
    BY <1>1, <1>3, Idle DEF PrefsInv, Fits, InFlight, GoesOn, Goes, prefs
<1>8. MovedInv'
    BY <1>1, <1>3, Idle DEF MovedInv, InFlight, GoesOn, Goes
<1>9. AloneInv'
    BY <1>3, Idle DEF AloneInv, GoesOn
<1>10. QuietInv'
    BY <1>1, <1>3, Idle DEF QuietInv, InFlight, GoesOn, Goes, news
<1>11. OfferInv'
  <2>1. ~torn /\ quiet => NotOlder(file)'
    <3>1. ASSUME ~torn, quiet, unit' = r, r = file.available, file.available # None
          PROVE  ~Precedes(file.available, r)
      <4>1. r \in Releases
          BY <1>2 DEF Releases
      <4>2. QED BY <3>1, <4>1, Order, Transitive
    <3>2. QED BY <1>1, <1>4, <1>5, <3>1 DEF OfferInv, NotOlder
  <2>2. QED BY <1>1, <1>3, <1>5, <2>1, Idle DEF OfferInv, GoesOn, news
<1>12. QED BY <1>6, <1>7, <1>8, <1>9, <1>10, <1>11

\* The button does.
LEMMA ApplyStep == ASSUME IInv, NEW r \in Catalogue, Apply(r) PROVE IInv'
<1> USE DEF IInv
<1>1. /\ r = file.available /\ StartUpdate(r) /\ check' = Disturb(check)
      /\ UNCHANGED <<environment, file, updates, version, disk, torn, edits, prefs, news>>
    BY DEF Apply
<1>2. /\ faults' \in 0..MaxFaults
      /\ \/ unit = None /\ unit' = r /\ r # None /\ deployed' = FALSE /\ deployed = FALSE
         \/ unit' = unit /\ deployed' = deployed
    BY <1>1, Started
<1>3. ChecksOK(check') /\ \A d \in Checkers : GoesOn(check', d)
    BY <1>1, Disturbed
<1>4. TypeOK'
  <2>1. /\ unit' \in Catalogue \cup {None} /\ deployed' \in BOOLEAN
        /\ deployed' => unit' # None /\ disk' = unit'
    <3>1. unit' \in Catalogue \cup {None}
        BY <1>2 DEF TypeOK
    <3>2. deployed' \in BOOLEAN
        BY <1>2 DEF TypeOK
    <3>3. deployed' => unit' # None /\ disk' = unit'
        BY <1>1, <1>2 DEF TypeOK
    <3>4. QED BY <3>1, <3>2, <3>3
  <2>2. QED BY <1>1, <1>2, <1>3, <2>1 DEF TypeOK, ChecksOK, environment, prefs, news
<1>5. PrefsInv'
    BY <1>1, <1>3 DEF PrefsInv, Fits, InFlight, GoesOn, Goes, prefs
<1>6. MovedInv'
    BY <1>1, <1>3 DEF MovedInv, InFlight, GoesOn, Goes
<1>7. AloneInv'
    BY <1>3 DEF AloneInv, GoesOn
<1>8. QuietInv'
    BY <1>1, <1>3 DEF QuietInv, InFlight, GoesOn, Goes, news
<1>9. OfferInv'
  <2>1. ~Precedes(r, r)
      BY Order, Transitive DEF Releases
  <2>2. ~torn /\ quiet => NotOlder(file)'
      BY <1>1, <1>2, <2>1 DEF OfferInv, NotOlder
  <2>3. QED BY <1>1, <1>2, <1>3, <2>2 DEF OfferInv, GoesOn, news
<1>10. QED BY <1>4, <1>5, <1>6, <1>7, <1>8, <1>9

\* The loop only notifies.
LEMMA NotifyOnlyStep == ASSUME IInv, NotifyOnly PROVE IInv'
<1> USE DEF IInv
<1>1. /\ check[Loop].pc = "act" /\ Loop \in Checkers
      /\ UNCHANGED <<environment, file, updates, installer, edits, faults, prefs, news>>
    BY DEF NotifyOnly, Checkers
<1>2. /\ ChecksOK(check') /\ check'[Loop] = IdleCheck
      /\ \A d \in Checkers : d # Loop => check'[d] = check[d]
  <2>1. ChecksOK(check) /\ check' = [check EXCEPT ![Loop] = IdleCheck]
      BY DEF NotifyOnly, TypeOK, ChecksOK
  <2>2. QED BY <2>1, PutAway
<1>3. TypeOK'
    BY <1>1, <1>2 DEF TypeOK, ChecksOK, environment, installer, prefs, news
<1>4. PrefsInv'
    BY <1>1, <1>2, Idle DEF PrefsInv, Fits, InFlight, prefs
<1>5. MovedInv' /\ AloneInv'
    BY <1>1, <1>2, Idle DEF MovedInv, AloneInv, InFlight, installer
<1>6. QuietInv'
    BY <1>1, <1>2, Idle DEF QuietInv, InFlight, news
<1>7. OfferInv'
    BY <1>1, <1>2, Idle DEF OfferInv, NotOlder, installer, news
<1>8. QED BY <1>3, <1>4, <1>5, <1>6, <1>7

\* The program on disk is replaced.
LEMMA DeployStep == ASSUME IInv, Deploy PROVE IInv'
<1> USE DEF IInv
<1>1. /\ unit # None /\ disk' = unit /\ deployed' = TRUE
      /\ UNCHANGED <<environment, file, updates, version, unit, torn, check, edits, faults,
                     prefs, news>>
    BY DEF Deploy
<1>2. TypeOK'
    BY <1>1 DEF TypeOK, environment, prefs, news, Releases
<1>3. PrefsInv' /\ MovedInv' /\ QuietInv'
    BY <1>1 DEF PrefsInv, MovedInv, QuietInv, InFlight, prefs, news
<1>4. AloneInv'
    BY <1>1 DEF AloneInv, InFlight
<1>5. OfferInv'
    BY <1>1 DEF OfferInv, NotOlder, AloneInv, news
<1>6. QED BY <1>2, <1>3, <1>4, <1>5

\* The panel restarts: there are no checks, and all is as quiet as it was if none was cut off.
LEMMA Restarted ==
  ASSUME IInv, PanelRestarts, UNCHANGED <<file, updates, prefs, heard, repeated>>
  PROVE  /\ ChecksOK(check') /\ \A c \in Checkers : check'[c] = IdleCheck
         /\ PrefsInv' /\ MovedInv' /\ AloneInv' /\ QuietInv'
<1> USE DEF IInv
<1>1. ChecksOK(check') /\ \A c \in Checkers : check'[c] = IdleCheck
    BY AllIdle DEF PanelRestarts
<1>2. PrefsInv' /\ MovedInv' /\ AloneInv'
    BY <1>1, Idle DEF PrefsInv, MovedInv, AloneInv, Fits, InFlight, prefs
<1>3. QuietInv'
  <2>1. quiet' => quiet /\ \A c \in Checkers : check[c].pc # "fetched"
      BY DEF PanelRestarts, Busy, InFlight
  <2>2. QED BY <1>1, <2>1, Idle DEF QuietInv, InFlight
<1>4. QED BY <1>1, <1>2, <1>3

\* install.sh restarts it at the end of an update.
LEMMA FinishStep == ASSUME IInv, Finish PROVE IInv'
<1> USE DEF IInv
<1>1. /\ version' = disk /\ unit' = None /\ deployed' = FALSE
      /\ quiet' = (quiet /\ ~Busy)
      /\ UNCHANGED <<environment, file, updates, disk, torn, edits, faults, prefs, heard, repeated>>
    BY DEF Finish, PanelRestarts
<1>2. /\ ChecksOK(check') /\ \A c \in Checkers : check'[c] = IdleCheck
      /\ PrefsInv' /\ MovedInv' /\ AloneInv' /\ QuietInv'
    BY <1>1, Restarted DEF Finish
<1>3. TypeOK'
    BY <1>1, <1>2 DEF TypeOK, ChecksOK, environment, prefs
<1>4. OfferInv'
    BY <1>1, <1>2, Idle DEF OfferInv, NotOlder
<1>5. QED BY <1>2, <1>3, <1>4

\* It is killed, and started again.
LEMMA CrashStep == ASSUME IInv, Crash PROVE IInv'
<1> USE DEF IInv
<1>1. /\ version' = disk /\ quiet' = (quiet /\ ~Busy) /\ Fault
      /\ UNCHANGED <<environment, file, updates, disk, unit, deployed, torn, edits, prefs, heard,
                     repeated>>
    BY DEF Crash, PanelRestarts
<1>2. /\ ChecksOK(check') /\ \A c \in Checkers : check'[c] = IdleCheck
      /\ PrefsInv' /\ MovedInv' /\ AloneInv' /\ QuietInv'
    BY <1>1, Restarted DEF Crash
<1>3. TypeOK'
    BY <1>1, <1>2, FaultCounted DEF TypeOK, ChecksOK, environment, prefs
<1>4. OfferInv'
    BY <1>1, <1>2, Idle DEF OfferInv, NotOlder
<1>5. QED BY <1>2, <1>3, <1>4

\* An update fails.
LEMMA UpdateFailsStep == ASSUME IInv, UpdateFails PROVE IInv'
<1> USE DEF IInv
<1>1. /\ unit # None /\ unit' = None /\ deployed' = FALSE /\ torn' = (torn \/ deployed) /\ Fault
      /\ UNCHANGED <<environment, file, updates, version, disk, check, edits, prefs, news>>
    BY DEF UpdateFails
<1>2. TypeOK'
    BY <1>1, FaultCounted DEF TypeOK, environment, prefs, news
<1>3. PrefsInv' /\ MovedInv' /\ QuietInv'
    BY <1>1 DEF PrefsInv, MovedInv, QuietInv, InFlight, prefs, news
<1>4. AloneInv'
    BY <1>1 DEF AloneInv, InFlight
<1>5. OfferInv'
    BY <1>1 DEF OfferInv, NotOlder, news
<1>6. QED BY <1>2, <1>3, <1>4, <1>5

\* The operator changes the preferences.
LEMMA SavePrefsStep ==
  ASSUME IInv, NEW channel \in Channels, NEW auto \in BOOLEAN, SavePrefs(channel, auto)
  PROVE  IInv'
<1> USE DEF IInv
<1> DEFINE kept == IF file.channel = channel THEN file.available ELSE None
<1>1. /\ edits < MaxEdits /\ edits' = edits + 1
      /\ file' = [channel |-> channel, auto |-> auto, available |-> kept]
      /\ wanted' = [channel |-> channel, auto |-> auto] /\ lost' = Busy
      /\ check' = Move(check) /\ quiet' = (quiet /\ ~Busy) /\ heard' = file'.available
      /\ UNCHANGED <<environment, updates, installer, faults, repeated>> /\ updates
    BY DEF SavePrefs
<1>2. /\ ChecksOK(check')
      /\ \A d \in Checkers : /\ Goes(check', d) /\ ~check'[d].alone
                             /\ InFlight(d) => check'[d].moved
    BY <1>1, Moved
<1>3. /\ kept \in Catalogue \cup {None}
      /\ kept = None \/ kept = file.available
      /\ kept # None /\ kept.prerelease => channel = "beta"
    BY DEF TypeOK, State, PrefsInv, Fits
<1> HIDE DEF kept
<1>4. file'.channel = channel /\ file'.auto = auto /\ file'.available = kept /\ file' \in State
  <2>1. [channel |-> channel, auto |-> auto, available |-> kept] \in State
      BY <1>3 DEF State
  <2>2. QED BY <1>1, <2>1
<1>5. TypeOK'
  <2>1. edits' \in 0..MaxEdits
      BY <1>1, BoundAssumption DEF TypeOK
  <2>2. lost' \in BOOLEAN /\ quiet' \in BOOLEAN
      BY <1>1 DEF Busy, InFlight
  <2>3. wanted' \in [channel : Channels, auto : BOOLEAN]
      BY <1>1
  <2>4. QED BY <1>1, <1>2, <1>3, <1>4, <2>1, <2>2, <2>3 DEF TypeOK, ChecksOK, environment, installer
<1>6. PrefsInv'
  <2>1. Fits(file)'
      BY <1>3, <1>4 DEF Fits
  <2>2. \A c \in Checkers : Fits(check[c].st)'
      BY <1>2 DEF Fits, PrefsInv, Goes
  <2>3. ~lost' => \A c \in Checkers : ~InFlight(c)'
      BY <1>1, <1>2 DEF Busy, InFlight, Goes
  <2>4. wanted'.channel = channel /\ wanted'.auto = auto
      BY <1>1
  <2>5. QED BY <1>4, <2>1, <2>2, <2>3, <2>4 DEF PrefsInv
<1>7. MovedInv'
    BY <1>1 DEF MovedInv
<1>8. AloneInv'
    BY <1>2 DEF AloneInv
<1>9. QuietInv'
  <2>1. quiet' => quiet /\ \A c \in Checkers : check'[c].pc = "idle"
      BY <1>1, <1>2 DEF Busy, InFlight, Goes
  <2>2. QED BY <1>1, <2>1 DEF QuietInv, InFlight
<1>10. OfferInv'
    BY <1>1, <1>2, <1>3, <1>4 DEF OfferInv, NotOlder, installer
<1>11. QED BY <1>5, <1>6, <1>7, <1>8, <1>9, <1>10

\* The operator switches the function.
LEMMA SwitchStep == ASSUME IInv, Switch PROVE IInv'
<1> USE DEF IInv
<1>1. /\ edits < MaxEdits /\ edits' = edits + 1 /\ updates' = ~updates /\ check' = Move(check)
      /\ UNCHANGED <<environment, file, installer, faults, prefs, news>>
    BY DEF Switch
<1>2. /\ ChecksOK(check')
      /\ \A d \in Checkers : /\ Goes(check', d) /\ ~check'[d].alone
                             /\ InFlight(d) => check'[d].moved
    BY <1>1, Moved
<1>3. TypeOK'
  <2>1. edits' \in 0..MaxEdits /\ updates' \in BOOLEAN
      BY <1>1, BoundAssumption DEF TypeOK
  <2>2. QED BY <1>1, <1>2, <2>1 DEF TypeOK, ChecksOK, environment, installer, prefs, news
<1>4. PrefsInv'
    BY <1>1, <1>2 DEF PrefsInv, Fits, InFlight, Goes, prefs
<1>5. MovedInv'
    BY <1>2 DEF MovedInv, InFlight, Goes
<1>6. AloneInv'
    BY <1>2 DEF AloneInv
<1>7. QuietInv'
    BY <1>1, <1>2 DEF QuietInv, InFlight, Goes, news
<1>8. OfferInv'
    BY <1>1, <1>2 DEF OfferInv, NotOlder, installer, news
<1>9. QED BY <1>3, <1>4, <1>5, <1>6, <1>7, <1>8

\* GitHub's list changes.
LEMMA FeedStep == ASSUME IInv, NEW r \in Catalogue, Publish(r) \/ MarkFailed(r) PROVE IInv'
<1> USE DEF IInv
<1>1. UNCHANGED <<file, updates, installer, check, edits, faults, prefs, news>>
    BY DEF Publish, MarkFailed
<1>2. feed' \in Seq(Catalogue) /\ failed' \subseteq Catalogue /\ marks' \in 0..MaxMarks
  <2>1. CASE Publish(r)
    <3>1. feed' = <<r>> \o feed /\ UNCHANGED <<failed, marks>>
        BY <2>1 DEF Publish
    <3>2. <<r>> \in Seq(Catalogue) /\ feed \in Seq(Catalogue)
        BY DEF TypeOK
    <3>3. QED BY <3>1, <3>2, ConcatProperties DEF TypeOK
  <2>2. CASE MarkFailed(r)
      BY <2>2, BoundAssumption DEF MarkFailed, TypeOK
  <2>3. QED BY <2>1, <2>2
<1>3. TypeOK'
    BY <1>1, <1>2 DEF TypeOK, installer, prefs, news
<1>4. PrefsInv' /\ MovedInv' /\ AloneInv' /\ QuietInv' /\ OfferInv'
    BY <1>1 DEF PrefsInv, MovedInv, AloneInv, QuietInv, OfferInv, NotOlder, InFlight,
                installer, prefs, news
<1>5. QED BY <1>3, <1>4

\* Every step keeps the invariant.
LEMMA IInvStep == IInv /\ [Next]_vars => IInv'
<1> SUFFICES ASSUME IInv, [Next]_vars PROVE IInv'
    OBVIOUS
<1>1. ASSUME UNCHANGED vars PROVE IInv'
    BY <1>1 DEF vars, IInv, TypeOK, PrefsInv, MovedInv, AloneInv, QuietInv, OfferInv, NotOlder,
                InFlight, environment, installer, prefs, news
<1>2. QED
    BY <1>1, LoadStep, FetchStep, FetchFailsStep, SaveStep, SaveFailsStep, AutoUpdateStep,
       NotifyOnlyStep, ApplyStep, DeployStep, FinishStep, UpdateFailsStep, CrashStep,
       SavePrefsStep, SwitchStep, FeedStep
    DEF Next, Check, Install

-----------------------------------------------------------------------------
(* The theorems *)

\* The invariant of the proofs holds in every state.
THEOREM Inductive == Spec => []IInv
BY IInvInit, IInvStep, PTL DEF Spec

\* The variables keep their types.
THEOREM TypeCorrect == Spec => []TypeOK
<1>1. IInv => TypeOK
    BY DEF IInv
<1>2. QED BY <1>1, Inductive, PTL

\* pick_latest returns a release of the feed that the channel may have and that was not
\* marked as failed, none of those is later, and it finds one if there is one.
THEOREM NewestIsPicked == Spec => []PickIsNewest
<1>1. TypeOK => PickIsNewest
  <2> SUFFICES ASSUME TypeOK, NEW channel \in Channels, NEW allowed,
                      allowed = {r \in ToSet(feed) : Usable(r, channel)},
                      NEW best, best = PickLatest(channel)
               PROVE  IF allowed = {} THEN best = None
                      ELSE best \in allowed /\ \A r \in allowed : ~Precedes(best, r)
      BY DEF PickIsNewest
  <2>1. Best(best, allowed)
      BY PickIsBest DEF TypeOK
  <2>2. allowed \subseteq Releases
      BY LenProperties, ElementOfSeq DEF TypeOK, ToSet, Releases
  <2>3. QED BY <2>1, <2>2, Order DEF Best
<1>2. QED BY <1>1, TypeCorrect, PTL

\* What the operator saved while nobody was checking survives every later check.
THEOREM PreferencesHold == Spec => []PrefsHold
<1>1. IInv => PrefsHold
    BY DEF IInv, PrefsInv, Fits, PrefsHold
<1>2. QED BY <1>1, Inductive, PTL

\* When all is quiet no release is announced twice.
THEOREM NoRepetition == Spec => []AnnouncedOnce
<1>1. IInv => AnnouncedOnce
    BY DEF IInv, QuietInv, AnnouncedOnce
<1>2. QED BY <1>1, Inductive, PTL

\* The page offers nothing older than the running program, unless an update was torn
\* and no check has run alone since.
THEOREM NothingOlder == Spec => []OfferNotOlder
<1>1. IInv => OfferNotOlder
    BY DEF IInv, OfferInv, NotOlder, OfferNotOlder
<1>2. QED BY <1>1, Inductive, PTL

\* The loop installs by itself only what the operator wants.
THEOREM OnlyWanted == Spec => AutoUpdateIsWanted
<1>1. IInv /\ [Next]_vars =>
        [Starts => \/ check[Loop].moved \/ lost
                   \/ /\ updates /\ wanted.auto
                      /\ unit'.prerelease => wanted.channel = "beta"
                      /\ Precedes(version, unit')]_vars
  <2> SUFFICES ASSUME IInv, Next, Starts, ~check[Loop].moved, ~lost
               PROVE  /\ updates /\ wanted.auto
                      /\ unit'.prerelease => wanted.channel = "beta"
                      /\ Precedes(version, unit')
      OBVIOUS
  <2> USE DEF IInv
  <2>1. AutoUpdate
    <3>1. unit = None /\ unit' # None /\ check[Loop].pc = "act" /\ check'[Loop].pc = "idle"
        BY DEF Starts
    <3>2. ~(Install \/ Crash \/ NotifyOnly \/ Switch)
        BY <3>1 DEF Install, Deploy, Finish, UpdateFails, Crash, NotifyOnly, Switch, installer
    <3>3. \A channel \in Channels, auto \in BOOLEAN : ~SavePrefs(channel, auto)
        BY <3>1 DEF SavePrefs, installer
    <3>4. \A c \in Checkers : ~Check(c)
        BY <3>1 DEF Check, Load, Fetch, FetchFails, Save, SaveFails, installer
    <3>5. \A r \in Catalogue : ~(Publish(r) \/ MarkFailed(r))
        BY <3>1 DEF Publish, MarkFailed, installer
    <3>6. \A r \in Catalogue : ~Apply(r)
      <4>1. \A r \in Catalogue : Apply(r) => check'[Loop].pc = check[Loop].pc
          BY Disturbed DEF Apply, GoesOn, Goes, Checkers
      <4>2. QED BY <3>1, <4>1
    <3>7. QED BY <3>2, <3>3, <3>4, <3>5, <3>6 DEF Next
  <2>2. /\ Wants(check[Loop].st) /\ InFlight(Loop) /\ Loop \in Checkers
        /\ unit' = check[Loop].st.available
      BY <2>1 DEF AutoUpdate, Starts, StartUpdate, InFlight, Checkers
  <2>3. updates
      BY <2>2 DEF MovedInv
  <2>4. /\ check[Loop].st.channel = wanted.channel /\ check[Loop].st.auto = wanted.auto
        /\ Fits(check[Loop].st)
      BY <2>2 DEF PrefsInv
  <2>5. Precedes(version, unit')
    <3>1. unit' \in Releases /\ version \in Releases /\ Newer(unit', version)
        BY <2>2 DEF Wants, TypeOK, CheckRecord, State, Releases
    <3>2. QED BY <3>1, Order
  <2>6. QED BY <2>2, <2>3, <2>4, <2>5 DEF Wants, Fits
<1>2. QED BY <1>1, Inductive, PTL DEF Spec, AutoUpdateIsWanted
==========================================================================
