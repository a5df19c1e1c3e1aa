--------------------------- MODULE PresenceProofs ---------------------------
(***************************************************************************)
(* Theorems about Presence for any clients, listeners, events and          *)
(* capacities.                                                             *)
(***************************************************************************)
EXTENDS Presence, VoiceLoop, FiniteSetTheorems, FunctionTheorems, TLAPS

\* What x adds to a count of members of E.
One(x, E) == IF x \in E THEN 1 ELSE 0

\* How often members of E occur in a sequence, and how many hold one.
Count(E, s) == Cardinality({i \in DOMAIN s : s[i] \in E})
Holders(E, S, f) == Cardinality({x \in S : f[x] \in E})

\* Where accepted events can be.
Load(E) ==
  Count(E, queue) + Count(E, outbox) + Count(E, spoken)
    + Holders(E, Submitters, putting) + Holders(E, Listeners, poll)

\* Of any set of events no more are on their way or spoken than were accepted.
Conserved == \A E \in SUBSET Ids : Load(E) <= Count(E, log)

\* What is remembered is the end of the log.
SeenIsEnd ==
  /\ Len(seen) = IF Len(log) < SeenMax THEN Len(log) ELSE SeenMax
  /\ \A i \in 1..Len(seen) : seen[i] = log[Len(log) - Len(seen) + i]

\* The watcher has noted what it reported last, unless it is about to.
NotesReport ==
  /\ putting[Watcher] = None /\ changes # <<>> => previous = Last(changes)
  /\ putting[Watcher] # None => changes # <<>>

\* The inductive invariant.
IInv == TypeOK /\ Conserved /\ SeenIsEnd /\ AcceptedOnce /\ NotesReport /\ ReportsAlternate

-----------------------------------------------------------------------------
(* Counting                                                                *)

\* A bounded sequence is a short sequence.
LEMMA Bounded ==
  ASSUME NEW S, NEW n \in Nat
  PROVE  \A s : s \in BoundedSeq(S, n) <=> s \in Seq(S) /\ Len(s) <= n
<1>1. ASSUME NEW s, s \in BoundedSeq(S, n) PROVE s \in Seq(S) /\ Len(s) <= n
  BY <1>1 DEF BoundedSeq, SeqOf
<1>2. ASSUME NEW s \in Seq(S), Len(s) <= n PROVE s \in BoundedSeq(S, n)
  <2>1. Len(s) \in 0..n /\ s \in [1..Len(s) -> S]
    BY <1>2
  <2>2. QED
    BY <2>1 DEF BoundedSeq, SeqOf
<1>3. QED
  BY <1>1, <1>2

\* A count is a number.
LEMMA CountNat ==
  ASSUME NEW S, NEW s \in Seq(S), NEW E
  PROVE  /\ IsFiniteSet({i \in DOMAIN s : s[i] \in E})
         /\ Count(E, s) \in Nat
<1>1. IsFiniteSet(1..Len(s))
  BY FS_Interval
<1>2. {i \in DOMAIN s : s[i] \in E} \in SUBSET (1..Len(s))
  OBVIOUS
<1>3. IsFiniteSet({i \in DOMAIN s : s[i] \in E})
  BY <1>1, <1>2, FS_Subset
<1>4. QED
  BY <1>3, FS_CardinalityType DEF Count

\* All of a sequence is its length.
LEMMA CountAll ==
  ASSUME NEW S, NEW s \in Seq(S)
  PROVE  Count(S, s) = Len(s)
<1>1. {i \in DOMAIN s : s[i] \in S} = 1..Len(s)
  OBVIOUS
<1>2. Cardinality(1..Len(s)) = Len(s)
  <2>1. Len(s) \in Nat /\ 1 \in Int /\ Len(s) \in Int
    OBVIOUS
  <2>2. Cardinality(1..Len(s)) = IF 1 > Len(s) THEN 0 ELSE Len(s) - 1 + 1
    BY <2>1, FS_Interval
  <2>3. QED
    BY <2>1, <2>2
<1>3. QED
  BY <1>1, <1>2 DEF Count

\* Nothing counts in an empty sequence.
LEMMA CountEmpty ==
  ASSUME NEW E
  PROVE  Count(E, <<>>) = 0
<1>1. {i \in DOMAIN <<>> : <<>>[i] \in E} = {}
  OBVIOUS
<1>2. QED
  BY <1>1, FS_EmptySet DEF Count

\* An element more.
LEMMA CountAppend ==
  ASSUME NEW S, NEW s \in Seq(S), NEW x \in S, NEW E
  PROVE  Count(E, Append(s, x)) = Count(E, s) + One(x, E)
<1> DEFINE H == {i \in DOMAIN s : s[i] \in E}
           G == {i \in DOMAIN Append(s, x) : Append(s, x)[i] \in E}
           n == Len(s) + 1
<1>1. IsFiniteSet(H) /\ n \notin H
  <2>1. IsFiniteSet(H)
    BY CountNat
  <2>2. n \notin H
    OBVIOUS
  <2>3. QED
    BY <2>1, <2>2
<1>2. G = IF x \in E THEN H \cup {n} ELSE H
  <2>1. ASSUME NEW i PROVE i \in G <=> i \in (IF x \in E THEN H \cup {n} ELSE H)
    OBVIOUS
  <2>2. QED
    BY <2>1
<1>3. Cardinality(H \cup {n}) = Cardinality(H) + 1
  BY <1>1, FS_AddElement
<1>4. Count(E, s) = Cardinality(H) /\ Count(E, Append(s, x)) = Cardinality(G) /\ Count(E, s) \in Nat
  BY CountNat DEF Count
<1> HIDE DEF H, G
<1>5. QED
  BY <1>2, <1>3, <1>4 DEF One

\* The first element less.
LEMMA CountTail ==
  ASSUME NEW S, NEW s \in Seq(S), s # <<>>, NEW E
  PROVE  Count(E, s) = Count(E, Tail(s)) + One(Head(s), E)
<1> DEFINE H == {i \in DOMAIN s : s[i] \in E}
           T == {i \in DOMAIN Tail(s) : Tail(s)[i] \in E}
           up == [i \in T |-> i + 1]
<1>1. IsFiniteSet(H) /\ IsFiniteSet(T) /\ Count(E, s) \in Nat /\ Count(E, Tail(s)) \in Nat
  <2>1. Tail(s) \in Seq(S)
    OBVIOUS
  <2>2. QED
    BY <2>1, CountNat
<1>2. T = {i \in 1..(Len(s) - 1) : s[i + 1] \in E}
  OBVIOUS
<1>3. H = {i \in 1..Len(s) : s[i] \in E} /\ Len(s) \in Nat \ {0} /\ Head(s) = s[1]
  OBVIOUS
<1>4. up \in Bijection(T, H \ {1})
  <2>1. \A i \in T : i + 1 \in H \ {1}
    BY <1>2, <1>3
  <2>2. \A i, j \in T : up[i] = up[j] => i = j
    BY <1>2
  <2>3. \A j \in H \ {1} : \E i \in T : up[i] = j
    <3>1. TAKE j \in H \ {1}
    <3>2. j - 1 \in T /\ (j - 1) + 1 = j
      BY <1>2, <1>3
    <3>3. QED
      BY <3>2
  <2>4. up \in [T -> H \ {1}]
    BY <2>1
  <2>5. QED
    BY <2>2, <2>3, <2>4, Fun_IsBij
<1>5. Cardinality(H \ {1}) = Cardinality(T)
  BY <1>1, <1>4, FS_Bijection, ZenonT(60) DEF ExistsBijection
<1>6. 1 \in H <=> Head(s) \in E
  BY <1>3
<1>7. Cardinality(H \ {1}) = IF 1 \in H THEN Cardinality(H) - 1 ELSE Cardinality(H)
  BY <1>1, FS_RemoveElement
<1>8. Count(E, s) = Cardinality(H) /\ Count(E, Tail(s)) = Cardinality(T)
  BY DEF Count
<1> HIDE DEF H, T
<1>9. QED
  BY <1>1, <1>5, <1>6, <1>7, <1>8 DEF One

\* The number of holders.
LEMMA HoldersNat ==
  ASSUME NEW S, IsFiniteSet(S), NEW f, NEW E
  PROVE  /\ IsFiniteSet({x \in S : f[x] \in E})
         /\ Holders(E, S, f) \in Nat
<1>1. {x \in S : f[x] \in E} \in SUBSET S
  OBVIOUS
<1>2. IsFiniteSet({x \in S : f[x] \in E})
  BY <1>1, FS_Subset
<1>3. QED
  BY <1>2, FS_CardinalityType DEF Holders

\* One holder changes what it holds.
LEMMA HoldersChange ==
  ASSUME NEW S, IsFiniteSet(S), NEW f, NEW g, NEW a \in S, NEW E,
         \A x \in S \ {a} : g[x] = f[x]
  PROVE  Holders(E, S, g) + One(f[a], E) = Holders(E, S, f) + One(g[a], E)
<1> DEFINE F == {x \in S : f[x] \in E}
           G == {x \in S : g[x] \in E}
           R == {x \in S \ {a} : f[x] \in E}
<1>1. IsFiniteSet(F) /\ Holders(E, S, f) \in Nat
  BY HoldersNat
<1>2. IsFiniteSet(G) /\ Holders(E, S, g) \in Nat
  <2>1. ASSUME NEW h PROVE IsFiniteSet({x \in S : h[x] \in E}) /\ Holders(E, S, h) \in Nat
    BY HoldersNat
  <2>2. QED
    BY <2>1
<1>3. R = F \ {a} /\ R = G \ {a}
  OBVIOUS
<1>4. /\ a \in F <=> f[a] \in E
      /\ a \in G <=> g[a] \in E
  OBVIOUS
<1>5. Holders(E, S, f) = Cardinality(F) /\ Holders(E, S, g) = Cardinality(G)
  BY DEF Holders
<1> HIDE DEF F, G, R
<1>6. /\ Cardinality(R) = IF a \in F THEN Cardinality(F) - 1 ELSE Cardinality(F)
      /\ Cardinality(R) = IF a \in G THEN Cardinality(G) - 1 ELSE Cardinality(G)
  BY <1>1, <1>2, <1>3, FS_RemoveElement
<1>7. QED
  BY <1>1, <1>2, <1>4, <1>5, <1>6 DEF One

\* Nobody holds anything.
LEMMA HoldersNone ==
  ASSUME NEW S, NEW E, NEW v, v \notin E
  PROVE  Holders(E, S, [x \in S |-> v]) = 0
<1>1. {x \in S : [y \in S |-> v][x] \in E} = {}
  OBVIOUS
<1>2. QED
  BY <1>1, FS_EmptySet DEF Holders

-----------------------------------------------------------------------------
(* Types                                                                   *)

\* TypeOK with its bounds apart, and without that of spoken, which Conserved gives.
Types ==
  /\ age \in 0..Window
  /\ previous \in BOOLEAN
  /\ changes \in Seq(BOOLEAN) /\ Len(changes) <= MaxChanges
  /\ seen \in Seq(Ids) /\ Len(seen) <= SeenMax
  /\ putting \in [Submitters -> Ids \cup {None}]
  /\ queue \in Seq(Ids) /\ Len(queue) <= QueueMax
  /\ outbox \in Seq(Ids) /\ Len(outbox) <= OutboxMax
  /\ poll \in [Listeners -> Ids \cup {None, Waiting}]
  /\ ghosts \in 0..MaxGhosts
  /\ log \in Seq(Ids) /\ Len(log) <= MaxLog
  /\ spoken \in Seq(Ids)

\* What there is of clients, listeners and ids.
LEMMA Constants ==
  /\ IsFiniteSet(Submitters) /\ IsFiniteSet(Listeners)
  /\ None \notin Ids /\ Waiting \notin Ids /\ Waiting # None
  /\ Watcher \in Submitters
  /\ {Window, QueueMax, OutboxMax, SeenMax, MaxLog, MaxChanges, MaxGhosts} \subseteq Nat
<1>1. IsFiniteSet(Submitters)
  BY PresenceAssumption, FS_AddElement DEF Submitters
<1>2. QED
  BY <1>1, PresenceAssumption DEF Ids, Submitters, Watcher

\* The sequences are short.
LEMMA TypeOKTypes ==
  ASSUME TypeOK
  PROVE  Types
<1>1. /\ changes \in Seq(BOOLEAN) /\ Len(changes) <= MaxChanges
      /\ seen \in Seq(Ids) /\ Len(seen) <= SeenMax
      /\ queue \in Seq(Ids) /\ Len(queue) <= QueueMax
  BY Constants, Bounded DEF TypeOK
<1>2. /\ outbox \in Seq(Ids) /\ Len(outbox) <= OutboxMax
      /\ log \in Seq(Ids) /\ Len(log) <= MaxLog
      /\ spoken \in Seq(Ids)
  BY Constants, Bounded DEF TypeOK
<1>3. QED
  BY <1>1, <1>2 DEF TypeOK, Types

\* All that counts is a number.
LEMMA Numbers ==
  ASSUME Types, NEW E
  PROVE  /\ Count(E, queue) \in Nat /\ Count(E, outbox) \in Nat /\ Count(E, spoken) \in Nat
         /\ Count(E, log) \in Nat
         /\ Holders(E, Submitters, putting) \in Nat /\ Holders(E, Listeners, poll) \in Nat
<1>1. queue \in Seq(Ids) /\ outbox \in Seq(Ids) /\ spoken \in Seq(Ids) /\ log \in Seq(Ids)
  BY DEF Types
<1>2. QED
  BY <1>1, CountNat, HoldersNat, Constants

\* Nothing is spoken that was not accepted: what is spoken is as short as the log.
LEMMA TypesTypeOK ==
  ASSUME Types', Conserved'
  PROVE  TypeOK'
<1>1. Len(spoken') <= MaxLog
  <2>1. Load(Ids)' <= Count(Ids, log')
    BY DEF Conserved
  <2>2. /\ queue' \in Seq(Ids) /\ outbox' \in Seq(Ids) /\ spoken' \in Seq(Ids) /\ log' \in Seq(Ids)
        /\ Len(log') \in Nat /\ Len(log') <= MaxLog
    BY DEF Types
  <2>3. Count(Ids, spoken') = Len(spoken') /\ Count(Ids, log') = Len(log')
    BY <2>2, CountAll
  <2>4. /\ Count(Ids, queue') \in Nat /\ Count(Ids, outbox') \in Nat /\ Count(Ids, spoken') \in Nat
        /\ Holders(Ids, Submitters, putting') \in Nat /\ Holders(Ids, Listeners, poll') \in Nat
    BY <2>2, CountNat, HoldersNat, Constants
  <2>5. MaxLog \in Nat /\ Len(spoken') \in Nat
    BY Constants DEF Types
  <2>6. QED
    BY <2>1, <2>2, <2>3, <2>4, <2>5, SMTT(60) DEF Load
<1>2. /\ changes' \in BoundedSeq(BOOLEAN, MaxChanges)
      /\ seen' \in BoundedSeq(Ids, SeenMax)
      /\ queue' \in BoundedSeq(Ids, QueueMax)
  BY Constants, Bounded DEF Types
<1>3. /\ outbox' \in BoundedSeq(Ids, OutboxMax)
      /\ log' \in BoundedSeq(Ids, MaxLog)
      /\ spoken' \in BoundedSeq(Ids, MaxLog)
  BY <1>1, Constants, Bounded DEF Types
<1>4. QED
  BY <1>2, <1>3 DEF Types, TypeOK

-----------------------------------------------------------------------------
(* Intake                                                                  *)

\* The invariant holds of a new process.
LEMMA InitInv == Init => IInv
<1> SUFFICES ASSUME Init PROVE IInv
  OBVIOUS
<1>1. /\ age \in 0..Window /\ previous \in BOOLEAN
      /\ putting \in [Submitters -> Ids \cup {None}] /\ poll \in [Listeners -> Ids \cup {None, Waiting}]
      /\ ghosts \in 0..MaxGhosts
  BY Constants DEF Init, Fresh, Online
<1>2. ASSUME NEW S, NEW n \in Nat PROVE <<>> \in BoundedSeq(S, n)
  <2>1. <<>> \in Seq(S) /\ Len(<<>>) <= n
    OBVIOUS
  <2>2. QED
    BY <2>1, Bounded
<1>3. TypeOK
  BY <1>1, <1>2, Constants DEF Init, TypeOK
<1>4. Conserved
  <2>1. ASSUME NEW E \in SUBSET Ids PROVE Load(E) <= Count(E, log)
    <3>1. Count(E, <<>>) = 0
      BY CountEmpty
    <3>2. Holders(E, Submitters, putting) = 0 /\ Holders(E, Listeners, poll) = 0
      BY Constants, HoldersNone DEF Init
    <3>3. QED
      BY <3>1, <3>2 DEF Init, Load
  <2>2. QED
    BY <2>1 DEF Conserved
<1>5. SeenIsEnd /\ AcceptedOnce
  <2>1. Len(<<>>) = 0 /\ DOMAIN <<>> = {} /\ SeenMax \in Nat \ {0}
    BY PresenceAssumption
  <2>2. seen = <<>> /\ log = <<>>
    BY DEF Init
  <2>3. QED
    BY <2>1, <2>2 DEF SeenIsEnd, AcceptedOnce
<1>6. NotesReport /\ ReportsAlternate
  BY DEF Init, NotesReport, ReportsAlternate, Submitters
<1>7. QED
  BY <1>3, <1>4, <1>5, <1>6 DEF IInv

\* What accepting an event does to what is remembered: the end of the log moves on.
LEMMA RememberKeeps ==
  ASSUME Types, SeenIsEnd, AcceptedOnce, NEW e \in Ids, ~ Contains(seen, e),
         Remember(e), log' = Append(log, e), Len(log) < MaxLog
  PROVE  /\ seen' \in Seq(Ids) /\ Len(seen') <= SeenMax
         /\ log' \in Seq(Ids) /\ Len(log') <= MaxLog
         /\ SeenIsEnd' /\ AcceptedOnce'
<1> DEFINE n == Len(log)
           k == Len(seen)
<1>1. n \in Nat /\ k \in Nat /\ SeenMax \in Nat \ {0} /\ MaxLog \in Nat
  BY PresenceAssumption, SMTT(60) DEF Types
<1>2. /\ seen \in Seq(Ids) /\ log \in Seq(Ids)
      /\ k = IF n < SeenMax THEN n ELSE SeenMax
      /\ \A i \in 1..k : seen[i] = log[n - k + i]
  BY DEF Types, SeenIsEnd
<1>3. /\ log' \in Seq(Ids) /\ Len(log') = n + 1 /\ Len(log') <= MaxLog
      /\ \A i \in 1..n : log'[i] = log[i]
      /\ log'[n + 1] = e
  BY <1>1, <1>2
<1>4. ASSUME k = SeenMax PROVE seen' \in Seq(Ids) /\ Len(seen') <= SeenMax /\ SeenIsEnd'
  <2>1. seen' = Append(Tail(seen), e)
    BY <1>4 DEF Remember
  <2>2. seen' \in Seq(Ids) /\ Len(seen') = SeenMax
    BY <1>1, <1>2, <1>4, <2>1
  <2>3. \A i \in 1..SeenMax : seen'[i] = IF i = SeenMax THEN e ELSE seen[i + 1]
    BY <1>1, <1>2, <1>4, <2>1
  <2>4. ASSUME NEW i \in 1..SeenMax PROVE seen'[i] = log'[n + 1 - SeenMax + i]
    <3>1. SeenMax <= n
      BY <1>1, <1>2, <1>4
    <3>2. CASE i = SeenMax
      <4>1. n + 1 - SeenMax + i = n + 1
        BY <1>1, <3>2
      <4>2. QED
        BY <1>3, <2>3, <3>2, <4>1
    <3>3. CASE i # SeenMax
      <4>1. i + 1 \in 1..k /\ n - k + (i + 1) \in 1..n /\ n - k + (i + 1) = n + 1 - SeenMax + i
        BY <1>1, <1>4, <3>1, <3>3
      <4>2. seen'[i] = seen[i + 1]
        BY <2>3, <3>3
      <4>3. seen[i + 1] = log[n - k + (i + 1)]
        BY <1>2, <4>1
      <4>4. QED
        BY <1>3, <4>1, <4>2, <4>3
    <3>4. QED
      BY <3>2, <3>3
  <2>5. Len(log') - Len(seen') = n + 1 - SeenMax /\ ~ (Len(log') < SeenMax)
    BY <1>1, <1>2, <1>3, <1>4, <2>2
  <2>6. SeenIsEnd'
    BY <2>2, <2>4, <2>5 DEF SeenIsEnd
  <2>7. QED
    BY <1>1, <2>2, <2>6
<1>5. ASSUME k # SeenMax PROVE seen' \in Seq(Ids) /\ Len(seen') <= SeenMax /\ SeenIsEnd'
  <2>1. seen' = Append(seen, e) /\ k = n /\ n < SeenMax
    BY <1>1, <1>2, <1>5 DEF Remember
  <2>2. seen' \in Seq(Ids) /\ Len(seen') = n + 1 /\ Len(seen') <= SeenMax
    BY <1>1, <1>2, <2>1
  <2>3. \A i \in 1..n : seen[i] = log[i]
    BY <1>1, <1>2, <2>1
  <2>4. \A i \in 1..(n + 1) : seen'[i] = log'[i]
    BY <1>1, <1>2, <1>3, <2>1, <2>3
  <2>5. /\ Len(seen') = IF Len(log') < SeenMax THEN Len(log') ELSE SeenMax
        /\ \A i \in 1..(n + 1) : Len(log') - Len(seen') + i = i
    BY <1>1, <1>3, <2>1, <2>2
  <2>6. SeenIsEnd'
    BY <2>2, <2>4, <2>5 DEF SeenIsEnd
  <2>7. QED
    BY <2>2, <2>6
<1>6. \A i \in 1..n : log[i] = e => n + 1 - i > SeenMax
  <2>1. SUFFICES ASSUME NEW i \in 1..n, log[i] = e PROVE n + 1 - i > SeenMax
    OBVIOUS
  <2>2. \A j \in 1..k : seen[j] # e
    BY DEF Contains
  <2>3. i <= n - k
    <3>1. SUFFICES ASSUME i > n - k PROVE FALSE
      BY <1>1
    <3>2. k <= n
      BY <1>1, <1>2
    <3>3. i - (n - k) \in 1..k /\ n - k + (i - (n - k)) = i
      BY <1>1, <3>1, <3>2
    <3>4. seen[i - (n - k)] = log[i]
      BY <1>2, <3>3
    <3>5. QED
      BY <2>1, <2>2, <3>3, <3>4
  <2>4. k = SeenMax
    BY <1>1, <1>2, <2>3
  <2>5. QED
    BY <1>1, <2>3, <2>4
<1>7. AcceptedOnce'
  <2>1. SUFFICES ASSUME NEW i \in DOMAIN log', NEW j \in DOMAIN log', i < j, log'[i] = log'[j]
                 PROVE  j - i > SeenMax
    BY DEF AcceptedOnce
  <2>2. i \in 1..n /\ j \in 1..(n + 1)
    BY <1>1, <1>3, <2>1
  <2>3. CASE j = n + 1
    BY <1>3, <1>6, <2>1, <2>2, <2>3
  <2>4. CASE j # n + 1
    BY <1>1, <1>2, <1>3, <2>1, <2>2, <2>4 DEF AcceptedOnce
  <2>5. QED
    BY <2>3, <2>4
<1>8. QED
  BY <1>3, <1>4, <1>5, <1>7

\* An event that is accepted is on the queue, or waits for room.
LEMMA AcceptKeeps ==
  ASSUME Types, Conserved, NEW s \in Submitters, putting[s] = None, NEW e \in Ids, Accept(s, e),
         UNCHANGED <<outbox, poll, spoken>>
  PROVE  /\ queue' \in Seq(Ids) /\ Len(queue') <= QueueMax
         /\ putting' \in [Submitters -> Ids \cup {None}]
         /\ Conserved'
<1>1. /\ queue \in Seq(Ids) /\ log \in Seq(Ids) /\ Len(queue) <= QueueMax /\ QueueMax \in Nat
      /\ putting \in [Submitters -> Ids \cup {None}]
  BY Constants DEF Types
<1>2. /\ log' = Append(log, e)
      /\ \/ Len(queue) < QueueMax /\ queue' = Append(queue, e) /\ putting' = putting
         \/ putting' = [putting EXCEPT ![s] = e] /\ queue' = queue
  BY DEF Accept, Put
<1>3. queue' \in Seq(Ids) /\ Len(queue') <= QueueMax /\ putting' \in [Submitters -> Ids \cup {None}]
  <2>1. CASE Len(queue) < QueueMax /\ queue' = Append(queue, e) /\ putting' = putting
    BY <1>1, <2>1
  <2>2. CASE putting' = [putting EXCEPT ![s] = e] /\ queue' = queue
    BY <1>1, <2>2
  <2>3. QED
    BY <1>2, <2>1, <2>2
<1>4. ASSUME NEW E \in SUBSET Ids PROVE Load(E)' <= Count(E, log')
  <2>1. One(e, E) \in Nat /\ Load(E) <= Count(E, log)
    BY DEF Conserved, One
  <2>2. Count(E, log') = Count(E, log) + One(e, E)
    BY <1>1, <1>2, CountAppend
  <2>3. \/ Count(E, queue') = Count(E, queue) + One(e, E) /\ putting' = putting
        \/ /\ queue' = queue
           /\ Holders(E, Submitters, putting') = Holders(E, Submitters, putting) + One(e, E)
    <3>1. CASE queue' = Append(queue, e) /\ putting' = putting
      BY <1>1, <3>1, CountAppend
    <3>2. CASE putting' = [putting EXCEPT ![s] = e] /\ queue' = queue
      <4>1. DOMAIN putting = Submitters /\ IsFiniteSet(Submitters)
        BY <1>1, Constants
      <4>2. Holders(E, Submitters, putting') + One(putting[s], E)
              = Holders(E, Submitters, putting) + One(e, E)
        <5>1. putting'[s] = e /\ \A x \in Submitters \ {s} : putting'[x] = putting[x]
          BY <3>2, <4>1
        <5>2. QED
          BY <4>1, <5>1, HoldersChange
      <4>3. One(putting[s], E) = 0
        BY Constants DEF One
      <4>4. Holders(E, Submitters, putting') \in Nat
        BY HoldersNat, Constants
      <4>5. QED
        BY <3>2, <4>2, <4>3, <4>4
    <3>3. QED
      BY <1>2, <3>1, <3>2
  <2>4. QED
    BY <2>1, <2>2, <2>3, Numbers DEF Load
<1>5. QED
  BY <1>3, <1>4 DEF Conserved

\* A client's post: the watcher has no part in it.
LEMMA PostInv ==
  ASSUME IInv, NEW c \in Clients, NEW e \in Events, Post(c, e)
  PROVE  IInv'
<1>1. Types /\ Conserved /\ SeenIsEnd /\ AcceptedOnce
  BY TypeOKTypes DEF IInv
<1>2. /\ putting[c] = None /\ Accept(c, e)
      /\ UNCHANGED <<age, previous, changes, outbox, poll, ghosts, spoken>>
  BY DEF Post, watchVars, outVars
<1>3. c \in Submitters /\ e \in Ids /\ c # Watcher
  BY PresenceAssumption DEF Submitters, Ids, Watcher
<1>4. /\ queue' \in Seq(Ids) /\ Len(queue') <= QueueMax
      /\ putting' \in [Submitters -> Ids \cup {None}]
      /\ Conserved'
  BY <1>1, <1>2, <1>3, AcceptKeeps
<1>5. /\ seen' \in Seq(Ids) /\ Len(seen') <= SeenMax
      /\ log' \in Seq(Ids) /\ Len(log') <= MaxLog
      /\ SeenIsEnd' /\ AcceptedOnce'
  BY <1>1, <1>2, <1>3, RememberKeeps DEF Accept
<1>6. Types'
  BY <1>1, <1>2, <1>4, <1>5 DEF Types
<1>7. TypeOK'
  BY <1>4, <1>6, TypesTypeOK
<1>8. putting'[Watcher] = putting[Watcher]
  <2>1. DOMAIN putting = Submitters
    BY <1>1 DEF Types
  <2>2. putting' = putting \/ putting' = [putting EXCEPT ![c] = e]
    BY <1>2 DEF Accept, Put
  <2>3. QED
    BY <1>3, <2>1, <2>2, Constants
<1>9. NotesReport' /\ ReportsAlternate'
  BY <1>2, <1>8 DEF IInv, NotesReport, ReportsAlternate
<1>10. QED
  BY <1>4, <1>5, <1>7, <1>9 DEF IInv

\* The watcher reports a change: what it reported last was the opposite.
LEMMA WatchInv ==
  ASSUME IInv, Watch
  PROVE  IInv'
<1>1. Types /\ Conserved /\ SeenIsEnd /\ AcceptedOnce
  BY TypeOKTypes DEF IInv
<1> DEFINE n == Len(changes)
<1>2. /\ changes \in Seq(BOOLEAN) /\ n \in Nat /\ MaxChanges \in Nat /\ n < MaxChanges
      /\ Online \in BOOLEAN /\ previous \in BOOLEAN
  BY <1>1, Constants DEF Types, Watch, Online
<1>3. /\ putting[Watcher] = None /\ changes' = Append(changes, Online) /\ Accept(Watcher, Len(changes'))
      /\ UNCHANGED <<age, outbox, poll, ghosts, spoken>>
  BY DEF Watch, outVars
<1>4. /\ changes' \in Seq(BOOLEAN) /\ Len(changes') = n + 1 /\ Len(changes') <= MaxChanges
      /\ changes'[n + 1] = Online
      /\ \A i \in 1..n : changes'[i] = changes[i]
  BY <1>2, <1>3
<1>5. Watcher \in Submitters /\ Len(changes') \in Ids
  BY <1>2, <1>4, Constants DEF Ids, Changes
<1>6. /\ queue' \in Seq(Ids) /\ Len(queue') <= QueueMax
      /\ putting' \in [Submitters -> Ids \cup {None}]
      /\ Conserved'
  BY <1>1, <1>3, <1>5, AcceptKeeps
<1>7. /\ seen' \in Seq(Ids) /\ Len(seen') <= SeenMax
      /\ log' \in Seq(Ids) /\ Len(log') <= MaxLog
      /\ SeenIsEnd' /\ AcceptedOnce'
  BY <1>1, <1>3, <1>5, RememberKeeps DEF Accept
<1>8. previous' = IF putting'[Watcher] = None THEN Online ELSE previous
  BY DEF Watch
<1>9. previous' \in BOOLEAN
  BY <1>2, <1>8
<1>10. Types'
  BY <1>1, <1>3, <1>4, <1>6, <1>7, <1>9 DEF Types
<1>11. TypeOK'
  BY <1>6, <1>10, TypesTypeOK
<1>12. NotesReport'
  <2>1. changes' # <<>> /\ Last(changes') = Online
    BY <1>2, <1>4 DEF Last
  <2>2. QED
    BY <1>8, <2>1 DEF NotesReport
<1>13. n > 0 => changes[n] # Online
  <2>1. SUFFICES ASSUME n > 0 PROVE changes[n] # Online
    OBVIOUS
  <2>2. changes # <<>>
    BY <1>2, <2>1
  <2>3. changes[n] = previous
    BY <1>3, <2>2 DEF IInv, NotesReport, Last
  <2>4. Online # previous
    BY DEF Watch
  <2>5. QED
    BY <2>3, <2>4
<1>14. ReportsAlternate'
  <2>1. SUFFICES ASSUME NEW i \in DOMAIN changes', i # 1 PROVE changes'[i] # changes'[i - 1]
    BY DEF ReportsAlternate
  <2>2. i \in 2..(n + 1) /\ n \in Nat
    BY <1>2, <1>4, <2>1
  <2>3. CASE i = n + 1
    <3>1. i - 1 = n /\ n \in 1..n /\ n > 0
      BY <2>2, <2>3
    <3>2. QED
      BY <1>4, <1>13, <2>3, <3>1
  <2>4. CASE i # n + 1
    <3>1. i \in 1..n /\ i - 1 \in 1..n /\ i \in DOMAIN changes \ {1}
      BY <1>2, <2>1, <2>2, <2>4
    <3>2. changes[i] # changes[i - 1]
      BY <3>1 DEF IInv, ReportsAlternate
    <3>3. QED
      BY <1>4, <3>1, <3>2
  <2>5. QED
    BY <2>3, <2>4
<1>15. QED
  BY <1>6, <1>7, <1>11, <1>12, <1>14 DEF IInv

\* There is room for the event that waits: it moves to the queue.
LEMMA PutEndsInv ==
  ASSUME IInv, NEW s \in Submitters, PutEnds(s)
  PROVE  IInv'
<1>1. Types /\ Conserved /\ SeenIsEnd /\ AcceptedOnce /\ NotesReport /\ ReportsAlternate
  BY TypeOKTypes DEF IInv
<1>2. /\ putting[s] # None /\ Len(queue) < QueueMax
      /\ queue' = Append(queue, putting[s]) /\ putting' = [putting EXCEPT ![s] = None]
      /\ previous' = IF s = Watcher THEN Last(changes) ELSE previous
      /\ UNCHANGED <<age, changes, seen, log, outbox, poll, ghosts, spoken>>
  BY DEF PutEnds, outVars
<1>3. /\ putting \in [Submitters -> Ids \cup {None}] /\ queue \in Seq(Ids)
      /\ QueueMax \in Nat /\ DOMAIN putting = Submitters
  BY <1>1, Constants DEF Types
<1>4. putting[s] \in Ids
  BY <1>2, <1>3
<1>5. queue' \in Seq(Ids) /\ Len(queue') <= QueueMax
  BY <1>2, <1>3, <1>4
<1>6. /\ putting' \in [Submitters -> Ids \cup {None}]
      /\ putting'[s] = None /\ \A x \in Submitters \ {s} : putting'[x] = putting[x]
  BY <1>2, <1>3
<1>7. s = Watcher => changes # <<>>
  BY <1>1, <1>2 DEF NotesReport
<1>8. previous' \in BOOLEAN
  <2>1. CASE s = Watcher
    <3>1. changes \in Seq(BOOLEAN) /\ changes # <<>>
      BY <1>1, <1>7, <2>1 DEF Types
    <3>2. Last(changes) \in BOOLEAN
      BY <3>1 DEF Last
    <3>3. QED
      BY <1>2, <2>1, <3>2
  <2>2. CASE s # Watcher
    BY <1>1, <1>2, <2>2 DEF Types
  <2>3. QED
    BY <2>1, <2>2
<1>9. Types'
  BY <1>1, <1>2, <1>5, <1>6, <1>8 DEF Types
<1>10. ASSUME NEW E \in SUBSET Ids PROVE Load(E)' <= Count(E, log')
  <2>1. Load(E) <= Count(E, log) /\ One(None, E) = 0
    BY <1>1, Constants DEF Conserved, One
  <2>2. Count(E, queue') = Count(E, queue) + One(putting[s], E)
    BY <1>2, <1>3, <1>4, CountAppend
  <2>3. Holders(E, Submitters, putting') + One(putting[s], E)
          = Holders(E, Submitters, putting) + One(None, E)
    BY <1>6, Constants, HoldersChange
  <2>4. Holders(E, Submitters, putting') \in Nat /\ One(putting[s], E) \in Nat
    BY HoldersNat, Constants DEF One
  <2>5. QED
    BY <1>1, <1>2, <2>1, <2>2, <2>3, <2>4, Numbers DEF Load
<1>11. Conserved'
  BY <1>10 DEF Conserved
<1>12. TypeOK'
  BY <1>9, <1>11, TypesTypeOK
<1>13. NotesReport'
  <2>1. CASE s = Watcher
    BY <1>2, <1>6, <2>1 DEF NotesReport
  <2>2. CASE s # Watcher
    BY <1>1, <1>2, <1>6, <2>2, Constants DEF NotesReport
  <2>3. QED
    BY <2>1, <2>2
<1>14. SeenIsEnd' /\ AcceptedOnce' /\ ReportsAlternate'
  BY <1>1, <1>2 DEF SeenIsEnd, AcceptedOnce, ReportsAlternate
<1>15. QED
  BY <1>11, <1>12, <1>13, <1>14 DEF IInv

-----------------------------------------------------------------------------
(* Decisions and delivery                                                  *)

\* Where neither intake nor the watcher has a part, typing and conservation are all.
LEMMA OutInv ==
  ASSUME IInv, UNCHANGED <<watchVars, intakeVars>>, Types', Conserved'
  PROVE  IInv'
<1>1. UNCHANGED <<previous, changes, seen, putting, log>>
  BY DEF watchVars, intakeVars
<1>2. SeenIsEnd' /\ AcceptedOnce' /\ NotesReport' /\ ReportsAlternate'
  BY <1>1 DEF IInv, SeenIsEnd, AcceptedOnce, NotesReport, ReportsAlternate
<1>3. QED
  BY <1>2, TypesTypeOK DEF IInv

\* An event leaves the queue for the outbox, or for nowhere.
LEMMA DecideInv ==
  ASSUME IInv, Decide
  PROVE  IInv'
<1>1. Types /\ Conserved
  BY TypeOKTypes DEF IInv
<1> DEFINE e == Head(queue)
<1>2. queue # <<>> /\ queue' = Tail(queue)
  BY DEF Decide
<1>3. outbox' = outbox \/ (Len(outbox) < OutboxMax /\ outbox' = Append(outbox, e))
  BY DEF Decide
<1>4. UNCHANGED <<age, previous, changes, seen, putting, log, poll, ghosts, spoken>>
  BY DEF Decide, watchVars, intakeVars
<1>5. queue \in Seq(Ids) /\ Len(queue) <= QueueMax /\ QueueMax \in Nat
  BY <1>1, Constants DEF Types
<1>6. outbox \in Seq(Ids) /\ Len(outbox) <= OutboxMax /\ OutboxMax \in Nat
  BY <1>1, Constants DEF Types
<1>7. e \in Ids /\ queue' \in Seq(Ids) /\ Len(queue') <= QueueMax
  BY <1>2, <1>5
<1> HIDE DEF e
<1>8. outbox' \in Seq(Ids) /\ Len(outbox') <= OutboxMax
  <2>1. CASE outbox' = outbox
    BY <1>6, <2>1
  <2>2. CASE Len(outbox) < OutboxMax /\ outbox' = Append(outbox, e)
    BY <1>6, <1>7, <2>2
  <2>3. QED
    BY <1>3, <2>1, <2>2
<1>9. Types'
  BY <1>1, <1>4, <1>7, <1>8 DEF Types
<1>10. ASSUME NEW E \in SUBSET Ids PROVE Load(E)' <= Count(E, log')
  <2>1. Load(E) <= Count(E, log) /\ One(e, E) \in Nat
    BY <1>1 DEF Conserved, One
  <2>2. Count(E, queue) = Count(E, queue') + One(e, E)
    BY <1>2, <1>5, CountTail DEF e
  <2>3. Count(E, outbox') = Count(E, outbox) \/ Count(E, outbox') = Count(E, outbox) + One(e, E)
    BY <1>3, <1>6, <1>7, CountAppend
  <2>4. Count(E, queue') \in Nat
    BY <1>7, CountNat
  <2>5. QED
    BY <1>1, <1>4, <2>1, <2>2, <2>3, <2>4, Numbers DEF Load
<1>11. Conserved'
  BY <1>10 DEF Conserved
<1>12. QED
  BY <1>4, <1>9, <1>11, OutInv DEF watchVars, intakeVars

\* A poll nobody waits for any more takes an event with it.
LEMMA GhostEndsInv ==
  ASSUME IInv, GhostEnds
  PROVE  IInv'
<1>1. Types /\ Conserved
  BY TypeOKTypes DEF IInv
<1>2. /\ \/ outbox' = outbox
         \/ outbox # <<>> /\ outbox' = Tail(outbox)
      /\ UNCHANGED <<age, previous, changes, seen, putting, log, queue, poll, spoken>>
  BY DEF GhostEnds, watchVars, intakeVars
<1>3. /\ outbox \in Seq(Ids) /\ Len(outbox) <= OutboxMax
      /\ OutboxMax \in Nat /\ MaxGhosts \in Nat /\ ghosts \in 0..MaxGhosts
  BY <1>1, Constants DEF Types
<1>4. outbox' \in Seq(Ids) /\ Len(outbox') <= OutboxMax
  BY <1>2, <1>3
<1>5. ghosts' \in 0..MaxGhosts
  BY <1>3 DEF GhostEnds
<1>6. Types'
  BY <1>1, <1>2, <1>4, <1>5 DEF Types
<1>7. ASSUME NEW E \in SUBSET Ids PROVE Load(E)' <= Count(E, log')
  <2>1. Load(E) <= Count(E, log) /\ One(Head(outbox), E) \in Nat
    BY <1>1 DEF Conserved, One
  <2>2. Count(E, outbox') = Count(E, outbox) \/ Count(E, outbox) = Count(E, outbox') + One(Head(outbox), E)
    BY <1>2, <1>3, CountTail
  <2>3. Count(E, outbox') \in Nat
    BY <1>4, CountNat
  <2>4. QED
    BY <1>1, <1>2, <2>1, <2>2, <2>3, Numbers, SMTT(60) DEF Load
<1>8. Conserved'
  BY <1>7 DEF Conserved
<1>9. QED
  BY <1>2, <1>6, <1>8, OutInv DEF watchVars, intakeVars

\* A listener gives up what it holds for something else.
LEMMA SetPollChange ==
  ASSUME Types, NEW l \in Listeners, NEW p \in Ids \cup {None, Waiting}, SetPoll(l, p)
  PROVE  /\ poll' \in [Listeners -> Ids \cup {None, Waiting}]
         /\ \A E \in SUBSET Ids :
              Holders(E, Listeners, poll') + One(poll[l], E) = Holders(E, Listeners, poll) + One(p, E)
<1>1. poll \in [Listeners -> Ids \cup {None, Waiting}] /\ poll' = [poll EXCEPT ![l] = p]
  BY DEF Types, SetPoll
<1>2. /\ poll' \in [Listeners -> Ids \cup {None, Waiting}]
      /\ poll'[l] = p /\ \A x \in Listeners \ {l} : poll'[x] = poll[x]
  BY <1>1
<1>3. QED
  BY <1>2, Constants, HoldersChange

\* A listener's steps: what it takes leaves the outbox, what it says it held.
LEMMA ListenInv ==
  ASSUME IInv, NEW l \in Listeners, Listen(l)
  PROVE  IInv'
<1>1. Types /\ Conserved
  BY TypeOKTypes DEF IInv
<1>2. /\ outbox \in Seq(Ids) /\ Len(outbox) <= OutboxMax /\ spoken \in Seq(Ids)
      /\ OutboxMax \in Nat /\ MaxGhosts \in Nat /\ ghosts \in 0..MaxGhosts
  BY <1>1, Constants DEF Types
<1>3. ASSUME NEW p \in Ids \cup {None, Waiting}, SetPoll(l, p),
             outbox' \in Seq(Ids), Len(outbox') <= OutboxMax, spoken' \in Seq(Ids), ghosts' \in 0..MaxGhosts,
             \A E \in SUBSET Ids :
               Count(E, outbox') + Count(E, spoken') + One(p, E)
                 <= Count(E, outbox) + Count(E, spoken) + One(poll[l], E)
      PROVE  IInv'
  <2>1. UNCHANGED <<age, previous, changes, seen, putting, log, queue>>
    BY <1>3 DEF SetPoll, watchVars, intakeVars
  <2>2. /\ poll' \in [Listeners -> Ids \cup {None, Waiting}]
        /\ \A E \in SUBSET Ids :
             Holders(E, Listeners, poll') + One(poll[l], E) = Holders(E, Listeners, poll) + One(p, E)
    BY <1>1, <1>3, SetPollChange
  <2>3. Types'
    BY <1>1, <1>3, <2>1, <2>2 DEF Types
  <2>4. ASSUME NEW E \in SUBSET Ids PROVE Load(E)' <= Count(E, log')
    <3>1. Load(E) <= Count(E, log) /\ One(p, E) \in Nat /\ One(poll[l], E) \in Nat
      BY <1>1 DEF Conserved, One
    <3>2. /\ Holders(E, Listeners, poll') + One(poll[l], E) = Holders(E, Listeners, poll) + One(p, E)
          /\ Count(E, outbox') + Count(E, spoken') + One(p, E)
               <= Count(E, outbox) + Count(E, spoken) + One(poll[l], E)
      BY <1>3, <2>2
    <3>3. Holders(E, Listeners, poll') \in Nat /\ Count(E, outbox') \in Nat /\ Count(E, spoken') \in Nat
      BY <1>3, CountNat, HoldersNat, Constants
    <3>4. Count(E, queue') = Count(E, queue) /\ Count(E, log') = Count(E, log)
          /\ Holders(E, Submitters, putting') = Holders(E, Submitters, putting)
      BY <2>1
    <3>5. QED
      BY <1>1, <3>1, <3>2, <3>3, <3>4, Numbers DEF Load
  <2>5. Conserved'
    BY <2>4 DEF Conserved
  <2>6. QED
    BY <2>1, <2>3, <2>5, OutInv DEF watchVars, intakeVars
<1>4. \A E \in SUBSET Ids :
        /\ Count(E, outbox) \in Nat /\ Count(E, spoken) \in Nat
        /\ One(None, E) = 0 /\ One(Waiting, E) = 0 /\ \A p : One(p, E) \in Nat
  BY <1>1, Numbers, Constants DEF One
<1>5. CASE Poll(l)
  BY <1>2, <1>3, <1>4, <1>5 DEF Poll
<1>6. CASE PollEnds(l) \/ SayFails(l)
  BY <1>2, <1>3, <1>4, <1>6 DEF PollEnds, SayFails
<1>7. CASE Leave(l)
  BY <1>2, <1>3, <1>4, <1>7 DEF Leave
<1>8. CASE Take(l)
  <2>1. outbox # <<>> /\ outbox' = Tail(outbox) /\ poll[l] = Waiting /\ UNCHANGED <<ghosts, spoken>>
        /\ SetPoll(l, Head(outbox))
    BY <1>8 DEF Take
  <2>2. Head(outbox) \in Ids /\ outbox' \in Seq(Ids) /\ Len(outbox') <= OutboxMax
    BY <1>2, <2>1
  <2>3. ASSUME NEW E \in SUBSET Ids
        PROVE  Count(E, outbox) = Count(E, outbox') + One(Head(outbox), E) /\ Count(E, outbox') \in Nat
    BY <1>2, <2>1, <2>2, CountTail, CountNat
  <2>4. \A E \in SUBSET Ids :
          Count(E, outbox') + Count(E, spoken') + One(Head(outbox), E)
            <= Count(E, outbox) + Count(E, spoken) + One(poll[l], E)
    BY <1>4, <2>1, <2>3
  <2>5. QED
    BY <1>2, <1>3, <2>1, <2>2, <2>4
<1>9. CASE Say(l)
  <2>1. poll[l] \in Ids /\ spoken' = Append(spoken, poll[l]) /\ SetPoll(l, None) /\ UNCHANGED <<outbox, ghosts>>
    BY <1>9 DEF Say
  <2>2. spoken' \in Seq(Ids)
    BY <1>2, <2>1
  <2>3. ASSUME NEW E \in SUBSET Ids PROVE Count(E, spoken') = Count(E, spoken) + One(poll[l], E)
    BY <1>2, <2>1, CountAppend
  <2>4. \A E \in SUBSET Ids :
          Count(E, outbox') + Count(E, spoken') + One(None, E)
            <= Count(E, outbox) + Count(E, spoken) + One(poll[l], E)
    BY <1>4, <2>1, <2>3
  <2>5. QED
    BY <1>2, <1>3, <2>1, <2>2, <2>4
<1>10. QED
  BY <1>5, <1>6, <1>7, <1>8, <1>9 DEF Listen

-----------------------------------------------------------------------------
(* Together                                                                *)

\* The worker comes, or has been silent a while longer.
LEMMA WorkerInv ==
  ASSUME IInv, Touch \/ Tick
  PROVE  IInv'
<1>1. Types /\ Conserved
  BY TypeOKTypes DEF IInv
<1>2. age' \in 0..Window
  <2>1. age \in 0..Window /\ Window \in Nat
    BY <1>1, Constants DEF Types
  <2>2. QED
    BY <2>1 DEF Touch, Tick, Online
<1>3. UNCHANGED <<previous, changes, seen, putting, log, queue, outbox, poll, ghosts, spoken>>
  BY DEF Touch, Tick, watchVars, intakeVars, outVars
<1>4. Types' /\ Conserved'
  BY <1>1, <1>2, <1>3 DEF Types, Conserved, Load
<1>5. QED
  BY <1>3, <1>4, OutInv DEF watchVars, intakeVars

\* A new process is as the first one was.
LEMMA RestartInit == Restart => Init'
  BY DEF Restart, Init, Fresh, Online

\* Holds for any number of clients and listeners and any capacities.
THEOREM Invariance == Spec => []IInv
<1>1. Init => IInv
  BY InitInv
<1>2. IInv /\ [Next]_vars => IInv'
  <2> SUFFICES ASSUME IInv, [Next]_vars PROVE IInv'
    OBVIOUS
  <2>1. CASE Restart
    <3>1. Init'
      BY <2>1, RestartInit
    <3>2. (Init => IInv)'
      BY InitInv, PTL
    <3>3. QED
      BY <3>1, <3>2
  <2>2. CASE UNCHANGED vars
    BY <2>2 DEF IInv, TypeOK, Conserved, Load, SeenIsEnd, AcceptedOnce, NotesReport, ReportsAlternate,
       vars, watchVars, intakeVars, outVars
  <2>3. CASE Next /\ ~ Restart
    BY <2>3, WorkerInv, WatchInv, DecideInv, GhostEndsInv, PostInv, PutEndsInv, ListenInv DEF Next
  <2>4. QED
    BY <2>1, <2>2, <2>3
<1>3. QED
  BY <1>1, <1>2, PTL DEF Spec

\* AtMostOnce is Conserved for one event.
LEMMA ConservedAtMostOnce ==
  ASSUME Types, Conserved
  PROVE  AtMostOnce
<1>1. ASSUME NEW e \in Ids
      PROVE  Times(e, queue) + Times(e, outbox) + Times(e, spoken)
               + Cardinality({s \in Submitters : putting[s] = e})
               + Cardinality({l \in Listeners : poll[l] = e}) <= Times(e, log)
  <2>1. ASSUME NEW s PROVE Times(e, s) = Count({e}, s)
    <3>1. {i \in DOMAIN s : s[i] = e} = {i \in DOMAIN s : s[i] \in {e}}
      OBVIOUS
    <3>2. QED
      BY <3>1 DEF Times, Count
  <2>2. ASSUME NEW S, NEW f PROVE Cardinality({x \in S : f[x] = e}) = Holders({e}, S, f)
    <3>1. {x \in S : f[x] = e} = {x \in S : f[x] \in {e}}
      OBVIOUS
    <3>2. QED
      BY <3>1 DEF Holders
  <2>3. Load({e}) <= Count({e}, log)
    BY DEF Conserved
  <2>4. QED
    BY <2>1, <2>2, <2>3 DEF Load
<1>2. QED
  BY <1>1 DEF AtMostOnce

\* Of all that is posted, retried and polled at once, nothing is accepted twice
\* within SeenMax events, and nothing is on its way or spoken more often than
\* it was accepted.
THEOREM PresenceIsSafe == Spec => []PresenceInv
<1>1. IInv => PresenceInv
  BY TypeOKTypes, ConservedAtMostOnce DEF IInv, PresenceInv
<1>2. QED
  BY <1>1, Invariance, PTL

\* The watcher reports the worker's coming and going by turns.
THEOREM ReportsBothWays == Spec => []ReportsAlternate
<1>1. IInv => ReportsAlternate
  BY DEF IInv
<1>2. QED
  BY <1>1, Invariance, PTL

-----------------------------------------------------------------------------
(***************************************************************************)
(* The voice loop, which speaks on the same Mac: theorems about VoiceLoop  *)
(* for any numbers of turns, phrases, runs and deployments and any frame   *)
(* counts.                                                                 *)
(***************************************************************************)
\* The recorder's counts.
Counting ==
  /\ mic \in [loud : 0..MinSpeech, ring : 0..PreRoll, rec : 0..MaxFrames, quiet : 0..Silence]
  /\ mic.rec = 0 => mic.loud < MinSpeech
  /\ mic.quiet < Silence
  /\ stage # "listen" => mic = NoFrames

\* The stages of a turn, from its text to its end.
InTurn == {"asks", "stream", "tool", "cut", "gather", "drain"}

\* Where the turn is.
Flow ==
  /\ stage \in {"gone", "start", "top", "listen", "recorded", "between", "saving"} \cup InTurn
  /\ turn \in 0..MaxTurns /\ said \in 0..MaxPhrases
  /\ stage \in InTurn => turn > 0
  /\ busy \in BOOLEAN /\ muted \in BOOLEAN /\ buf \in BOOLEAN /\ hushed \in BOOLEAN /\ whole \in BOOLEAN
  /\ monitor \in {"off", "armed", "heard"}
  /\ BargeIn \/ monitor = "off"
  /\ stage \in {"asks", "stream", "tool"} => whole

\* Before the greeting nothing is there.
Unheard ==
  stage \in {"gone", "start"} =>
    /\ synths = {} /\ toPlay = <<>> /\ player.at = "wait" /\ played = {} /\ dropped = {}
    /\ turn = 0 \/ ~ whole

\* A phrase is of a turn that was, and of this turn one of those said so far.
Known(ph) ==
  /\ ph \in Phrases /\ ph[1] <= turn
  /\ ph[1] = turn /\ turn > 0 => ph[2] <= said

\* The phrases in the player's queue.
Queued == ToSet(toPlay)

\* A phrase is in one place.
Placed ==
  /\ toPlay \in Seq(Phrases) /\ IsInjective(toPlay)
  /\ player \in [at : {"wait", "took", "busy", "plays", "dead"}, phrase : Phrases \cup {<<>>}]
  /\ player.at \in {"wait", "dead"} <=> player.phrase = <<>>
  /\ synths \cap Queued = {} /\ synths \cap InHand = {} /\ InHand \cap Queued = {}
  /\ files = Alive

\* What is still to sound has not sounded, and was not taken away.
Heardly ==
  /\ Alive \cap dropped = {}
  /\ (synths \cup Queued) \cap played = {}
  /\ player.at \in {"took", "busy"} => InHand \cap played = {}
  /\ player.at = "plays" => InHand \subseteq played
  /\ played \cap dropped = {}
  /\ ~ again

\* Every phrase that is there, sounded or was taken away was said.
Knowns == \A ph \in Alive \cup played \cup dropped : Known(ph)

\* Each phrase of a whole turn is somewhere, and at its end sounded or failed.
Tracked ==
  /\ whole /\ turn > 0 => \A k \in 1..said : <<turn, k>> \in Alive \cup played \cup failed
  /\ whole /\ stage \in {"gather", "drain", "between", "saving", "top", "listen", "recorded"} /\ turn > 0 => ~ buf
  /\ stage = "gather" /\ hushed => ~ whole
  /\ stage = "cut" => ~ whole
  /\ stage = "drain" => \A ph \in synths : ph[1] # turn
  /\ whole /\ turn > 0 /\ stage \in {"between", "saving", "top", "listen", "recorded"} =>
       \A k \in 1..said : <<turn, k>> \in played \cup failed \cup InHand

\* Of the sessions that the server has and may be asked for there is the one that is held,
\* if any; the request carries that one.
Conversations ==
  /\ opened \in Nat /\ lost \subseteq 1..opened
  /\ session \in 0..opened /\ saved \in 0..opened
  /\ stage = "asks" => sent = session
  /\ Remembered \subseteq {session}

\* The inductive invariant.
VoiceInv == Counting /\ Flow /\ Unheard /\ Placed /\ Heardly /\ Knowns /\ Tracked /\ Conversations

USE VoiceLoopAssumption

\* A new member at the end of a sequence without repetition.
LEMMA Appended ==
  ASSUME NEW S, NEW s \in Seq(S), NEW x \in S, IsInjective(s), x \notin ToSet(s)
  PROVE  /\ Append(s, x) \in Seq(S) /\ IsInjective(Append(s, x))
         /\ ToSet(Append(s, x)) = ToSet(s) \cup {x}
<1> DEFINE t == Append(s, x)
<1>1. t \in Seq(S) /\ Len(t) = Len(s) + 1 /\ Len(s) \in Nat
  OBVIOUS
<1>2. DOMAIN t = 1..(Len(s) + 1) /\ DOMAIN s = 1..Len(s)
  BY <1>1
<1>3. t[Len(s) + 1] = x /\ \A i \in 1..Len(s) : t[i] = s[i]
  OBVIOUS
<1>4. \A i \in 1..Len(s) : s[i] # x
  BY <1>2 DEF ToSet
<1>5. IsInjective(t)
  <2>1. SUFFICES ASSUME NEW i \in 1..(Len(s) + 1), NEW j \in 1..(Len(s) + 1), t[i] = t[j] PROVE i = j
    BY <1>2 DEF IsInjective
  <2>2. CASE i \in 1..Len(s) /\ j \in 1..Len(s)
    BY <2>1, <2>2, <1>2, <1>3 DEF IsInjective
  <2>3. CASE i = Len(s) + 1 /\ j \in 1..Len(s)
    <3>1. t[i] = x /\ t[j] = s[j] /\ s[j] # x
      BY <2>3, <1>3, <1>4
    <3>2. QED
      BY <2>1, <3>1
  <2>4. CASE j = Len(s) + 1 /\ i \in 1..Len(s)
    <3>1. t[j] = x /\ t[i] = s[i] /\ s[i] # x
      BY <2>4, <1>3, <1>4
    <3>2. QED
      BY <2>1, <3>1
  <2>5. QED
    BY <2>2, <2>3, <2>4, <1>1
<1>6. ToSet(t) = ToSet(s) \cup {x}
  <2>1. \A y \in ToSet(t) : y \in ToSet(s) \cup {x}
    <3>1. SUFFICES ASSUME NEW i \in 1..(Len(s) + 1) PROVE t[i] \in ToSet(s) \cup {x}
      BY <1>2 DEF ToSet
    <3>2. CASE i \in 1..Len(s)
      BY <3>2, <1>2, <1>3 DEF ToSet
    <3>3. CASE i = Len(s) + 1
      BY <3>3, <1>3
    <3>4. QED
      BY <3>2, <3>3, <1>1
  <2>2. \A y \in ToSet(s) : y \in ToSet(t)
    <3>1. SUFFICES ASSUME NEW i \in 1..Len(s) PROVE s[i] \in ToSet(t)
      BY <1>2 DEF ToSet
    <3>2. i \in DOMAIN t /\ t[i] = s[i]
      BY <1>1, <1>2, <1>3
    <3>3. QED
      BY <3>2 DEF ToSet
  <2>3. x \in ToSet(t)
    <3>1. Len(s) + 1 \in DOMAIN t
      BY <1>1, <1>2
    <3>2. QED
      BY <3>1, <1>3 DEF ToSet
  <2>4. QED
    BY <2>1, <2>2, <2>3
<1>7. QED
  BY <1>1, <1>5, <1>6

\* The first member taken from a sequence without repetition.
LEMMA Taken ==
  ASSUME NEW S, NEW s \in Seq(S), s # <<>>, IsInjective(s)
  PROVE  /\ Tail(s) \in Seq(S) /\ IsInjective(Tail(s)) /\ Head(s) \in S
         /\ Head(s) \notin ToSet(Tail(s)) /\ ToSet(s) = ToSet(Tail(s)) \cup {Head(s)}
<1> DEFINE t == Tail(s)
<1>1. t \in Seq(S) /\ Len(t) = Len(s) - 1 /\ Len(s) \in Nat \ {0} /\ Head(s) = s[1] /\ Head(s) \in S
  OBVIOUS
<1>2. DOMAIN t = 1..(Len(s) - 1) /\ DOMAIN s = 1..Len(s)
  BY <1>1
<1>3. \A i \in 1..(Len(s) - 1) : t[i] = s[i + 1] /\ i + 1 \in 1..Len(s)
  BY <1>1
<1>4. IsInjective(t)
  <2>1. SUFFICES ASSUME NEW i \in 1..(Len(s) - 1), NEW j \in 1..(Len(s) - 1), t[i] = t[j] PROVE i = j
    BY <1>2 DEF IsInjective
  <2>2. i + 1 = j + 1
    BY <2>1, <1>2, <1>3 DEF IsInjective
  <2>3. QED
    BY <2>2, <1>1
<1>5. Head(s) \notin ToSet(t)
  <2>1. SUFFICES ASSUME NEW i \in 1..(Len(s) - 1), t[i] = s[1] PROVE FALSE
    BY <1>1, <1>2 DEF ToSet
  <2>2. i + 1 = 1
    BY <2>1, <1>1, <1>2, <1>3 DEF IsInjective
  <2>3. QED
    BY <2>2, <1>1
<1>6. \A y \in ToSet(s) : y = Head(s) \/ y \in ToSet(t)
  <2>1. SUFFICES ASSUME NEW i \in 1..Len(s), i # 1 PROVE s[i] \in ToSet(t)
    BY <1>1, <1>2 DEF ToSet
  <2>2. i - 1 \in 1..(Len(s) - 1) /\ (i - 1) + 1 = i
    BY <2>1, <1>1
  <2>3. t[i - 1] = s[i]
    BY <2>2, <1>3
  <2>4. QED
    BY <2>2, <2>3, <1>2 DEF ToSet
<1>7. \A y \in ToSet(t) : y \in ToSet(s)
  <2>1. SUFFICES ASSUME NEW i \in 1..(Len(s) - 1) PROVE t[i] \in ToSet(s)
    BY <1>2 DEF ToSet
  <2>2. QED
    BY <1>2, <1>3 DEF ToSet
<1>8. Head(s) \in ToSet(s)
  <2>1. 1 \in DOMAIN s
    BY <1>1, <1>2
  <2>2. QED
    BY <2>1, <1>1 DEF ToSet
<1>9. QED
  BY <1>1, <1>4, <1>5, <1>6, <1>7, <1>8

\* At first there is no session.
LEMMA ConversationInit == VoiceInit => Conversations
  BY DEF VoiceInit, Conversations, Remembered

\* Opening, telling, losing, forgetting and saving a session keep no other one.
LEMMA ConversationInv == Conversations /\ [VoiceNext]_voiceVars => Conversations'
<1> SUFFICES ASSUME Conversations, [VoiceNext]_voiceVars PROVE Conversations'
  OBVIOUS
<1>0. /\ opened \in Nat /\ lost \subseteq 1..opened
      /\ session \in 0..opened /\ saved \in 0..opened /\ Remembered \subseteq {session}
  BY DEF Conversations
<1>1. CASE Session
  <2>1. stage' = "stream" /\ sent = session /\ saved' = saved /\ lost' = lost
    BY <1>1 DEF Session, Conversations
  <2>2. CASE sent \in Remembered
    <3>1. opened' = opened /\ session' = session
      BY <1>1, <2>1, <2>2 DEF Session
    <3>2. QED
      BY <2>1, <3>1, <1>0 DEF Conversations, Remembered
  <2>3. CASE sent \notin Remembered
    <3>1. opened' = opened + 1 /\ session' = opened + 1
      BY <1>1, <2>3 DEF Session
    <3>2. Remembered = {}
      BY <2>1, <2>3, <1>0
    <3>3. Remembered' \subseteq {session'} /\ lost' \subseteq 1..opened'
      BY <2>1, <3>1, <3>2, <1>0 DEF Remembered
    <3>4. QED
      BY <2>1, <3>1, <3>3, <1>0 DEF Conversations
  <2>4. QED
    BY <2>2, <2>3
<1>2. ASSUME NEW l \in SUBSET (1..opened), Loses(l)
      PROVE  /\ opened' \in Nat /\ opened <= opened' /\ lost' \subseteq 1..opened'
             /\ Remembered' = Remembered \ l
  <2>1. opened' \in {opened, opened + 1} /\ lost' = lost \cup l \cup (opened + 1..opened')
    BY <1>2 DEF Loses
  <2>2. opened' \in Nat /\ opened <= opened' /\ 1..opened' = (1..opened) \cup (opened + 1..opened')
    BY <2>1, <1>0
  <2>3. (1..opened) \cap (opened + 1..opened') = {}
    BY <2>2, <1>0
  <2>4. QED
    BY <2>1, <2>2, <2>3, <1>0 DEF Remembered
<1>3. CASE Broken
  <2>1. Loses({}) /\ stage' = "between" /\ session' = session /\ saved' = saved
    BY <1>3 DEF Broken
  <2>2. opened' \in Nat /\ opened <= opened' /\ lost' \subseteq 1..opened' /\ Remembered' = Remembered
    BY <2>1, <1>2
  <2>3. QED
    BY <2>1, <2>2, <1>0 DEF Conversations
<1>4. CASE Return \/ Save \/ StartAgain
  <2>1. UNCHANGED <<session, opened, lost>> /\ stage' # "asks"
    BY <1>4 DEF Return, Save, StartAgain
  <2>2. saved' \in {0, saved, session}
    BY <1>4 DEF Return, Save, StartAgain
  <2>3. saved' \in 0..opened'
    BY <2>1, <2>2, <1>0
  <2>4. QED
    BY <2>1, <2>3 DEF Conversations, Remembered
<1>5. CASE Redeploy
  <2>1. UNCHANGED <<stage, session, sent, saved, opened>> /\ lost' = 1..opened
    BY <1>5 DEF Redeploy
  <2>2. Remembered' = {} /\ lost' \subseteq 1..opened'
    BY <2>1 DEF Remembered
  <2>3. QED
    BY <2>1, <2>2 DEF Conversations
<1>6. CASE Stops
  <2> DEFINE l == {session} \ {0, saved}
  <2>1. Loses(l) /\ stage' = "gone" /\ session' = saved /\ saved' = saved
    BY <1>6 DEF Stops
  <2>2. l \in SUBSET (1..opened)
    BY <1>0
  <2>3. opened' \in Nat /\ opened <= opened' /\ lost' \subseteq 1..opened' /\ Remembered' = Remembered \ l
    BY <2>1, <2>2, <1>2
  <2>4. 0 \notin Remembered
    BY <1>0 DEF Remembered
  <2>5. Remembered' \subseteq {saved}
    BY <2>3, <2>4, <1>0
  <2>6. QED
    BY <2>1, <2>3, <2>5, <1>0 DEF Conversations
<1>7. CASE /\ UNCHANGED <<session, saved, opened, lost, sent>>
           /\ stage' = stage \/ stage' # "asks"
  BY <1>7 DEF Conversations, Remembered
<1>8. CASE Understood
  BY <1>8 DEF Understood, Conversations, Remembered
<1>9. CASE TaskStep \/ PlayerStep \/ Frame \/ Mute \/ GiveUp \/ Heard \/ ToolEnds \/ UNCHANGED voiceVars
  BY <1>7, <1>9 DEF TaskStep, PlayerStep, Frame, Mute, GiveUp, Heard, ToolEnds, voiceVars, Synth, SynthFails,
       Get, SetBusy, Play, PlayFails, Over, conversation, Still, During, Others
<1>10. CASE Greet \/ TurnBegins \/ NotUnderstood \/ Token \/ Announce \/ ToolCall \/ Done \/ Closed
            \/ Interrupt \/ Discard \/ StopCurrent \/ Gather \/ Drain
  BY <1>7, <1>10 DEF Greet, TurnBegins, NotUnderstood, Token, Announce, ToolCall, Done, Closed, Rest, Event,
       Interrupt, Discard, StopCurrent, Gather, Drain, conversation, Still, During
<1>11. QED
  BY <1>1, <1>3, <1>4, <1>5, <1>6, <1>8, <1>9, <1>10 DEF VoiceNext, TurnStep, Dies, Kill

\* The recorder's counts stay within their bounds, whatever frame comes.
LEMMA CountingInv == Counting /\ [VoiceNext]_voiceVars => Counting'
<1> SUFFICES ASSUME Counting, [VoiceNext]_voiceVars PROVE Counting'
  OBVIOUS
<1>1. CASE Frame
  <2>1. stage = "listen"
    BY <1>1 DEF Frame
  <2>2. PICK loud \in BOOLEAN :
       \/ mic.rec = 0 /\ mic' = Onset(loud) /\ UNCHANGED stage
       \/ mic.rec > 0 /\ ~ Ends(Goes(loud)) /\ mic' = Goes(loud) /\ UNCHANGED stage
       \/ mic.rec > 0 /\ Ends(Goes(loud)) /\ mic' = NoFrames /\ stage' = "recorded"
    BY <1>1 DEF Frame
  <2>3. CASE mic.rec = 0 /\ mic' = Onset(loud) /\ UNCHANGED stage
    <3> DEFINE n == IF loud THEN mic.loud + 1 ELSE IF mic.loud = 0 THEN 0 ELSE mic.loud - 1
               ring == IF mic.ring = PreRoll THEN PreRoll ELSE mic.ring + 1
    <3>1. mic.loud \in 0..(MinSpeech - 1) /\ mic.ring \in 0..PreRoll
      BY <2>3 DEF Counting
    <3>2. n \in 0..MinSpeech
      BY <3>1
    <3>3. ring \in 1..PreRoll
      BY <3>1
    <3>4. mic' = [loud |-> n, ring |-> ring, rec |-> IF n = MinSpeech THEN ring ELSE 0, quiet |-> 0]
      BY <2>3 DEF Onset
    <3> HIDE DEF n, ring
    <3>5. mic'.rec \in 0..MaxFrames /\ (mic'.rec = 0 => n # MinSpeech)
      BY <3>2, <3>3, <3>4
    <3>6. QED
      BY <2>1, <2>3, <3>2, <3>3, <3>4, <3>5 DEF Counting
  <2>4. CASE mic.rec > 0 /\ ~ Ends(Goes(loud)) /\ mic' = Goes(loud) /\ UNCHANGED stage
    <3>1. /\ mic.loud \in 0..MinSpeech /\ mic.ring \in 0..PreRoll /\ mic.rec \in 0..MaxFrames
          /\ mic.quiet \in 0..Silence /\ mic.quiet < Silence
      BY DEF Counting
    <3>2. PICK q \in {0, mic.quiet + 1} :
            mic' = [loud |-> mic.loud, ring |-> mic.ring, rec |-> mic.rec + 1, quiet |-> q]
      BY <2>4 DEF Goes, Counting
    <3>3. q # Silence /\ ~ (mic.rec + 1 >= MaxFrames)
      BY <2>4, <3>2 DEF Ends
    <3>4. q \in 0..Silence /\ q < Silence /\ mic.rec + 1 \in 1..MaxFrames
      BY <3>1, <3>2, <3>3
    <3>5. QED
      BY <2>1, <2>4, <3>1, <3>2, <3>4 DEF Counting
  <2>5. CASE mic' = NoFrames
    BY <2>5 DEF NoFrames, Counting
  <2>6. QED
    BY <2>2, <2>3, <2>4, <2>5
<1>2. CASE GiveUp \/ Stops
  BY <1>2 DEF GiveUp, Stops, NoFrames, Counting
<1>3. CASE UNCHANGED mic /\ (stage' = "listen" \/ stage # "listen" \/ UNCHANGED stage)
  BY <1>3 DEF Counting
<1>4. CASE TaskStep \/ PlayerStep \/ Mute \/ Heard \/ ToolEnds \/ StartAgain \/ Redeploy \/ UNCHANGED voiceVars
  BY <1>3, <1>4 DEF TaskStep, PlayerStep, Mute, Heard, ToolEnds, StartAgain, Redeploy, voiceVars, Synth,
       SynthFails, Get, SetBusy, Play, PlayFails, Over, During, Others
<1>5. CASE TurnStep /\ ~ Dies
  BY <1>3, <1>5 DEF TurnStep, Greet, TurnBegins, NotUnderstood, Understood, Session, Token, Announce, ToolCall,
       Done, Closed, Rest, Event, Broken, Interrupt, Discard, StopCurrent, Gather, Drain, Return, Save,
       Still, During
<1>6. QED
  BY <1>1, <1>2, <1>4, <1>5 DEF VoiceNext, TurnStep, Dies, Kill

\* Every step leads from stage to stage of a turn.
LEMMA FlowInv == Counting /\ Flow /\ [VoiceNext]_voiceVars => Flow'
<1> SUFFICES ASSUME Counting, Flow, [VoiceNext]_voiceVars PROVE Flow'
  OBVIOUS
<1>1. CASE Mute \/ Frame \/ GiveUp
  BY <1>1 DEF Flow, InTurn, Mute, Frame, GiveUp, Still
<1>11. CASE Greet \/ TurnBegins \/ NotUnderstood \/ Session \/ Heard
  BY <1>11 DEF Flow, InTurn, Heard, Greet, TurnBegins, NotUnderstood, Session, Still
<1>12. CASE ToolCall \/ ToolEnds
  BY <1>12 DEF Flow, InTurn, ToolCall, ToolEnds, Event, During
<1>13. CASE Broken \/ Interrupt \/ Discard
  BY <1>13 DEF Flow, InTurn, Broken, Interrupt, Discard
<1>14. CASE StopCurrent \/ Gather \/ Drain \/ Return
  BY <1>14 DEF Flow, InTurn, StopCurrent, Gather, Drain, Return
<1>15. CASE Save \/ StartAgain \/ Redeploy
  BY <1>15 DEF Flow, InTurn, Save, StartAgain, Redeploy
<1>2. CASE Understood
  <2>1. turn' \in 0..MaxTurns /\ turn' > 0
    BY <1>2 DEF Understood, Flow
  <2>2. /\ stage' = "asks" /\ said' = 0 /\ buf' = FALSE /\ whole' = TRUE
        /\ UNCHANGED <<busy, muted, hushed, monitor>>
    BY <1>2 DEF Understood
  <2>3. said' \in 0..MaxPhrases
    BY <2>2
  <2>4. buf' \in BOOLEAN /\ whole' \in BOOLEAN
    BY <2>2
  <2>5. QED
    BY <2>1, <2>2, <2>3, <2>4 DEF Flow, InTurn
<1>3. CASE Token
  <2>1. PICK n \in {0, 1}, rest \in BOOLEAN : Speaks(n) /\ buf' = rest
    BY <1>3 DEF Token
  <2>2. said' \in 0..MaxPhrases
    BY <2>1 DEF Speaks, Flow
  <2>3. QED
    BY <1>3, <2>1, <2>2 DEF Token, Event, Quiet, Flow, InTurn
<1>4. CASE Announce
  <2>1. PICK n \in {1, 2} : Speaks(n)
    BY <1>4 DEF Announce
  <2>2. said' \in 0..MaxPhrases
    BY <2>1 DEF Speaks, Flow
  <2>3. QED
    BY <1>4, <2>2 DEF Announce, Event, Quiet, Flow, InTurn
<1>5. CASE Done \/ Closed
  <2>1. PICK n \in {0, 1} : Rest(n)
    BY <1>5 DEF Done, Closed
  <2>2. said' \in 0..MaxPhrases
    BY <2>1 DEF Rest, Speaks, Flow
  <2>3. stage = "stream" /\ stage' = "gather" /\ buf' \in BOOLEAN /\ hushed' \in BOOLEAN /\ whole' \in BOOLEAN
    BY <1>5, <2>1 DEF Rest, Speaks, Flow, Done, Closed, Event
  <2>4. UNCHANGED <<turn, busy, muted, monitor>>
    BY <1>5 DEF Done, Closed, Quiet
  <2>5. QED
    BY <2>2, <2>3, <2>4 DEF Flow, InTurn
<1>6. ASSUME NEW ph \in synths, Synth(ph) \/ SynthFails(ph) PROVE Flow'
  BY <1>6 DEF Synth, SynthFails, Flow
<1>7. CASE PlayerStep
  <2>1. CASE Get
    BY <2>1 DEF Get, Others, Flow
  <2>2. CASE SetBusy
    BY <2>2 DEF SetBusy, Others, Flow
  <2>3. CASE Play
    BY <2>3 DEF Play, Others, Flow
  <2>4. CASE Over
    BY <2>4 DEF Over, Others, Flow
  <2>5. CASE PlayFails
    BY <2>5 DEF PlayFails, Others, Flow
  <2>6. QED
    BY <1>7, <2>1, <2>2, <2>3, <2>4, <2>5 DEF PlayerStep
<1>8. CASE Stops
  <2>1. /\ stage' = "gone" /\ said' = 0 /\ turn' = turn /\ monitor' = "off"
        /\ buf' = FALSE /\ hushed' = FALSE /\ busy' = FALSE /\ muted' = FALSE /\ whole' = FALSE
    BY <1>8 DEF Stops
  <2>2. said' \in 0..MaxPhrases
    BY <2>1
  <2>3. buf' \in BOOLEAN /\ hushed' \in BOOLEAN /\ busy' \in BOOLEAN /\ muted' \in BOOLEAN
        /\ whole' \in BOOLEAN
    BY <2>1
  <2>4. QED
    BY <2>1, <2>2, <2>3 DEF Flow, InTurn
<1>9. CASE UNCHANGED voiceVars
  BY <1>9 DEF voiceVars, Flow
<1>10. QED
  BY <1>1, <1>11, <1>12, <1>13, <1>14, <1>15, <1>2, <1>3, <1>4, <1>5, <1>6, <1>7, <1>8, <1>9
  DEF VoiceNext, TurnStep, TaskStep, Dies, Kill

\* The loop starts with nothing to say.
LEMMA UnheardInv == VoiceInv /\ [VoiceNext]_voiceVars => Unheard'
<1> SUFFICES ASSUME Flow, Unheard, Placed, [VoiceNext]_voiceVars, stage' \in {"gone", "start"} PROVE Unheard'
  BY DEF Unheard, VoiceInv
<1>1. CASE Stops
  BY <1>1 DEF Stops, Unheard
<1>2. CASE stage \in {"gone", "start"} /\ UNCHANGED <<synths, toPlay, player, played, dropped, turn, whole>>
  BY <1>2 DEF Unheard
<1>3. CASE TurnStep /\ ~ Dies
  BY <1>3 DEF TurnStep, Event, Greet, TurnBegins, NotUnderstood, Understood, Session, Token, Announce,
       ToolCall, Done, Closed, Rest, Broken, Interrupt, Discard, StopCurrent, Return, Save, Gather, Drain,
       Still, During
<1>4. CASE ToolEnds \/ Mute \/ Frame \/ GiveUp \/ Heard \/ StartAgain \/ Redeploy \/ UNCHANGED voiceVars
  BY <1>2, <1>4 DEF ToolEnds, Mute, Frame, GiveUp, Heard, StartAgain, Redeploy, Still, voiceVars, speech
<1>5. CASE TaskStep
  BY <1>5 DEF TaskStep, Synth, SynthFails, Unheard
<1>6. CASE PlayerStep
  BY <1>6 DEF PlayerStep, Get, SetBusy, Play, PlayFails, Over, Others, Unheard
<1>7. QED
  BY <1>1, <1>3, <1>4, <1>5, <1>6 DEF VoiceNext, TurnStep, Dies, Kill

\* No phrase is the empty tuple of an idle player.
LEMMA NoPhrase == <<>> \notin Phrases
BY DEF Phrases, Greeting

\* The player holds one phrase or none.
LEMMA HandIs == Placed => \/ player.at \in {"wait", "dead"} /\ InHand = {}
                          \/ player.at \notin {"wait", "dead"} /\ player.phrase \in Phrases /\ InHand = {player.phrase}
BY NoPhrase DEF Placed, InHand

\* A step at which no phrase moves.
LEMMA Stays ==
  ASSUME Placed, Heardly, UNCHANGED <<speech, player>>
  PROVE  Placed' /\ Heardly' /\ Alive' = Alive /\ InHand' = InHand /\ Queued' = Queued
<1>1. UNCHANGED <<synths, toPlay, files, played, again, dropped, failed, player>>
  BY DEF speech
<1>2. InHand' = InHand /\ Queued' = Queued
  BY <1>1 DEF InHand, Queued
<1>3. Alive' = Alive
  BY <1>1 DEF Alive, InHand
<1>4. QED
  BY <1>1, <1>2, <1>3 DEF Placed, Heardly

\* The greeting is the first thing queued, if it is.
LEMMA GreetMoves ==
  ASSUME Flow, Unheard, Placed, Heardly, Greet
  PROVE  Placed' /\ Heardly' /\ (Alive' = Alive \/ Alive' = {Greeting}) /\ InHand' = {}
<1>1. synths = {} /\ toPlay = <<>> /\ player.at = "wait" /\ played = {} /\ dropped = {} /\ InHand = {}
  BY HandIs DEF Unheard, Greet
<1>2. UNCHANGED <<synths, player, played, dropped, again, failed>>
  BY DEF Greet
<1>3. CASE UNCHANGED <<toPlay, files>>
  BY <1>2, <1>3, <1>1, Stays DEF speech
<1>4. CASE toPlay' = Append(toPlay, Greeting) /\ files' = files \cup {Greeting}
  <2>1. Greeting \in Phrases /\ Greeting \notin Queued /\ Queued = {}
    BY <1>1 DEF Phrases, Queued, ToSet
  <2>2. toPlay' \in Seq(Phrases) /\ IsInjective(toPlay') /\ Queued' = {Greeting}
    BY <2>1, <1>4, Appended DEF Placed, Queued
  <2>3. InHand' = {}
    BY <1>1, <1>2 DEF InHand
  <2>4. Alive' = {Greeting} /\ files' = {Greeting}
    BY <2>1, <2>2, <2>3, <1>1, <1>2, <1>4 DEF Alive, Queued, Placed
  <2>5. QED
    BY <2>1, <2>2, <2>3, <2>4, <1>1, <1>2 DEF Placed, Heardly
<1>5. QED
  BY <1>3, <1>4 DEF Greet

\* New phrases are new: nothing of them is queued, sounded or was dropped.
LEMMA SpeakMoves ==
  ASSUME Flow, Placed, Heardly, Knowns, turn > 0, NEW n \in Nat, Speaks(n), Quiet
  PROVE  /\ Placed' /\ Heardly' /\ InHand' = InHand
         /\ Alive' = Alive \cup {<<turn, k>> : k \in said + 1..said + n}
<1> DEFINE new == {<<turn, k>> : k \in said + 1..said + n}
<1>1. /\ said + n <= MaxPhrases /\ synths' = synths \cup new /\ files' = files \cup new
      /\ UNCHANGED <<player, toPlay, played, again, dropped, failed>>
  BY DEF Speaks, Quiet
<1>2. new \subseteq Phrases
  BY <1>1 DEF Phrases, Flow
<1>3. \A ph \in new : ph \notin Alive \cup played \cup dropped
  <2>1. SUFFICES ASSUME NEW k \in said + 1..said + n, Known(<<turn, k>>) PROVE FALSE
    BY DEF Knowns
  <2>2. k <= said
    BY <2>1 DEF Known
  <2>3. QED
    BY <2>2 DEF Flow
<1> HIDE DEF new
<1>4. InHand' = InHand /\ Queued' = Queued
  BY <1>1 DEF InHand, Queued
<1>5. Alive' = Alive \cup new
  BY <1>1, <1>4 DEF Alive, Queued
<1>6. Placed'
  BY <1>1, <1>3, <1>4, <1>5 DEF Placed, Alive, Queued
<1>7. Heardly'
  BY <1>1, <1>3, <1>4, <1>5 DEF Heardly, Alive, Queued
<1>8. QED
  BY <1>4, <1>5, <1>6, <1>7 DEF new

\* The interruption takes the first that is queued, and its file.
LEMMA DiscardMoves ==
  ASSUME Placed, Heardly, Discard
  PROVE  /\ Placed' /\ Heardly' /\ InHand' = InHand /\ Alive' \subseteq Alive
         /\ played' = played /\ dropped' \subseteq dropped \cup Alive
<1> DEFINE p == Head(toPlay)
<1>1. /\ toPlay # <<>> /\ toPlay' = Tail(toPlay) /\ files' = files \ {p} /\ dropped' = dropped \cup {p}
      /\ UNCHANGED <<synths, player, played, again, failed>>
  BY DEF Discard
<1>2. /\ toPlay' \in Seq(Phrases) /\ IsInjective(toPlay') /\ p \in Phrases
      /\ p \notin Queued' /\ Queued = Queued' \cup {p}
  BY <1>1, Taken DEF Placed, Queued
<1> HIDE DEF p
<1>3. InHand' = InHand
  BY <1>1 DEF InHand
<1>4. Alive = synths \cup Queued \cup InHand /\ Alive' = synths \cup Queued' \cup InHand /\ files = Alive
  BY <1>1, <1>3 DEF Alive, Queued, Placed
<1>5. p \notin synths \cup InHand \cup played
  BY <1>2 DEF Placed, Heardly
<1>6. Alive' = Alive \ {p} /\ p \in Alive
  BY <1>2, <1>4, <1>5
<1>7. Placed'
  BY <1>1, <1>2, <1>3, <1>4, <1>6 DEF Placed
<1>8. Heardly'
  BY <1>1, <1>2, <1>3, <1>4, <1>5, <1>6 DEF Heardly
<1>9. QED
  BY <1>1, <1>3, <1>6, <1>7, <1>8

\* A new turn moves nothing; only histories are cut.
LEMMA UnderstoodMoves ==
  ASSUME Placed, Heardly, Understood
  PROVE  /\ Placed' /\ Heardly' /\ InHand' = InHand /\ Alive' = Alive
         /\ played' \subseteq played /\ dropped' \subseteq dropped
<1>1. /\ played' = played \cap Alive /\ dropped' = dropped \cap Alive
      /\ UNCHANGED <<synths, toPlay, files, again, player>>
  BY DEF Understood
<1>2. InHand' = InHand /\ Queued' = Queued
  BY <1>1 DEF InHand, Queued
<1>3. Alive' = Alive /\ Alive = synths \cup Queued \cup InHand
  BY <1>1, <1>2 DEF Alive, Queued
<1>4. Placed'
  BY <1>1, <1>2, <1>3 DEF Placed
<1>5. Heardly'
  BY <1>1, <1>2, <1>3 DEF Heardly
<1>6. QED
  BY <1>1, <1>2, <1>3, <1>4, <1>5

\* A phrase goes from its task to the queue.
LEMMA SynthMoves ==
  ASSUME Placed, Heardly, Knowns, NEW ph \in synths, Synth(ph)
  PROVE  /\ Placed' /\ Heardly' /\ InHand' = InHand /\ Alive' = Alive
         /\ UNCHANGED <<played, dropped, failed>> /\ synths' \subseteq synths
<1>1. /\ synths' = synths \ {ph} /\ toPlay' = Append(toPlay, ph)
      /\ UNCHANGED <<player, files, played, again, dropped, failed>>
  BY DEF Synth
<1>2. Alive = synths \cup Queued \cup InHand /\ files = Alive
  BY DEF Alive, Queued, Placed
<1>3. ph \notin Queued /\ ph \notin InHand
  BY DEF Placed
<1>4. \A x \in synths : x \in Phrases
  <2>1. SUFFICES ASSUME NEW x \in synths, x \in Alive, Known(x) PROVE x \in Phrases
    BY <1>2 DEF Knowns
  <2>2. QED
    BY <2>1 DEF Known
<1>5. toPlay' \in Seq(Phrases) /\ IsInjective(toPlay') /\ Queued' = Queued \cup {ph}
  BY <1>1, <1>3, <1>4, Appended DEF Placed, Queued
<1>6. InHand' = InHand
  BY <1>1 DEF InHand
<1>7. Alive' = Alive
  BY <1>1, <1>2, <1>5, <1>6 DEF Alive, Queued
<1>8. Placed'
  BY <1>1, <1>2, <1>3, <1>5, <1>6, <1>7 DEF Placed
<1>9. Heardly'
  BY <1>1, <1>2, <1>5, <1>6, <1>7 DEF Heardly
<1>10. QED
  BY <1>1, <1>6, <1>7, <1>8, <1>9

\* A phrase whose audio does not come is gone, with its file.
LEMMA FailMoves ==
  ASSUME Placed, Heardly, NEW ph \in synths, SynthFails(ph)
  PROVE  /\ Placed' /\ Heardly' /\ InHand' = InHand /\ Alive' = Alive \ {ph}
         /\ failed' = failed \cup {ph} /\ UNCHANGED <<played, dropped>> /\ synths' \subseteq synths
<1>1. /\ synths' = synths \ {ph} /\ files' = files \ {ph} /\ failed' = failed \cup {ph}
      /\ UNCHANGED <<player, toPlay, played, again, dropped>>
  BY DEF SynthFails
<1>2. Alive = synths \cup Queued \cup InHand /\ files = Alive
  BY DEF Alive, Queued, Placed
<1>3. ph \notin Queued /\ ph \notin InHand
  BY DEF Placed
<1>4. InHand' = InHand /\ Queued' = Queued
  BY <1>1 DEF InHand, Queued
<1>5. Alive' = Alive \ {ph}
  BY <1>1, <1>2, <1>3, <1>4 DEF Alive, Queued
<1>6. Placed'
  BY <1>1, <1>2, <1>3, <1>4, <1>5 DEF Placed
<1>7. Heardly'
  BY <1>1, <1>2, <1>4, <1>5 DEF Heardly
<1>8. QED
  BY <1>1, <1>4, <1>5, <1>6, <1>7

\* A phrase goes from the queue to the player's hand.
LEMMA GetMoves ==
  ASSUME Placed, Heardly, Get
  PROVE  /\ Placed' /\ Heardly' /\ InHand \subseteq InHand' /\ Alive' = Alive
         /\ UNCHANGED <<synths, played, dropped, failed>>
<1> DEFINE p == Head(toPlay)
<1>1. /\ player.at = "wait" /\ toPlay # <<>> /\ player' = [at |-> "took", phrase |-> p]
      /\ toPlay' = Tail(toPlay)
      /\ UNCHANGED <<synths, files, played, again, dropped, failed>>
  BY DEF Get, Others
<1>2. /\ toPlay' \in Seq(Phrases) /\ IsInjective(toPlay') /\ p \in Phrases
      /\ p \notin Queued' /\ Queued = Queued' \cup {p}
  BY <1>1, Taken DEF Placed, Queued
<1> HIDE DEF p
<1>3. InHand = {} /\ InHand' = {p} /\ p # <<>>
  BY <1>1, <1>2, HandIs, NoPhrase DEF InHand
<1>4. Alive = synths \cup Queued \cup InHand /\ Alive' = synths \cup Queued' \cup InHand' /\ files = Alive
  BY <1>1 DEF Alive, Queued, Placed
<1>5. Alive' = Alive
  BY <1>2, <1>3, <1>4
<1>6. player'.at = "took" /\ player'.phrase = p
  BY <1>1
<1>7. player' \in [at : {"wait", "took", "busy", "plays", "dead"}, phrase : Phrases \cup {<<>>}]
  BY <1>1, <1>2
<1>8. Placed'
  BY <1>1, <1>2, <1>3, <1>4, <1>5, <1>6, <1>7 DEF Placed
<1>9. Heardly'
  BY <1>1, <1>2, <1>3, <1>5, <1>6 DEF Heardly
<1>10. QED
  BY <1>1, <1>3, <1>5, <1>8, <1>9

\* A phrase in the player's hand sounds, once.
LEMMA PlayerMoves ==
  ASSUME Placed, Heardly, SetBusy \/ Play
  PROVE  /\ Placed' /\ Heardly' /\ InHand' = InHand /\ Alive' = Alive
         /\ played \subseteq played' /\ played' \subseteq played \cup Alive
         /\ UNCHANGED <<synths, dropped, failed>>
<1>1. UNCHANGED <<synths, files, toPlay, dropped, failed>> /\ player.at \in {"took", "busy"}
  BY DEF SetBusy, Play, Others
<1>2. PICK a \in {"busy", "plays"} : player' = [player EXCEPT !.at = a]
  BY DEF SetBusy, Play
<1>3. player' = [at |-> a, phrase |-> player.phrase]
  BY <1>2 DEF Placed
<1>4. InHand' = InHand /\ Queued' = Queued /\ player.phrase # <<>>
  BY <1>1, <1>3 DEF InHand, Queued, Placed
<1>5. Alive = synths \cup Queued \cup InHand /\ Alive' = Alive
  BY <1>1, <1>4 DEF Alive, Queued
<1>6. Placed'
  <2>1. player' \in [at : {"wait", "took", "busy", "plays", "dead"}, phrase : Phrases \cup {<<>>}]
    BY <1>3 DEF Placed
  <2>2. player'.at \notin {"wait", "dead"} /\ player'.phrase # <<>>
    BY <1>3, <1>4
  <2>3. QED
    BY <2>1, <2>2, <1>1, <1>4, <1>5 DEF Placed
<1>7. CASE SetBusy
  <2>1. player'.at = "busy" /\ UNCHANGED <<played, again>> /\ player.at = "took"
    BY <1>7, <1>3 DEF SetBusy, Placed
  <2>2. Heardly'
    BY <2>1, <1>1, <1>4, <1>5 DEF Heardly
  <2>3. QED
    BY <2>1, <2>2, <1>1, <1>4, <1>5, <1>6
<1>8. CASE Play
  <2>1. /\ player'.at = "plays" /\ player.at = "busy" /\ played' = played \cup InHand
        /\ again' = (again \/ InHand \subseteq played)
    BY <1>8, <1>3 DEF Play, Placed
  <2>2. InHand = {player.phrase} /\ InHand \cap played = {}
    BY <2>1, HandIs DEF Heardly
  <2>3. ~ again'
    BY <2>1, <2>2 DEF Heardly
  <2>4. InHand \cap dropped = {} /\ InHand \cap (synths \cup Queued) = {}
    BY <1>5 DEF Heardly, Placed
  <2>5. Heardly'
    BY <2>1, <2>3, <2>4, <1>1, <1>4, <1>5 DEF Heardly
  <2>6. QED
    BY <2>1, <2>5, <1>1, <1>4, <1>5, <1>6
<1>9. QED
  BY <1>7, <1>8

\* After it has sounded the phrase and its file are gone.
LEMMA OverMoves ==
  ASSUME Placed, Heardly, Over
  PROVE  /\ Placed' /\ Heardly' /\ InHand' = {} /\ Alive' = Alive \ InHand /\ InHand \subseteq played
         /\ UNCHANGED <<synths, played, dropped, failed>>
<1>1. /\ player.at = "plays" /\ player' = [at |-> "wait", phrase |-> <<>>] /\ files' = files \ InHand
      /\ UNCHANGED <<synths, toPlay, played, again, dropped, failed>>
  BY DEF Over, Others
<1>2. InHand' = {} /\ Queued' = Queued
  BY <1>1 DEF InHand, Queued
<1>3. Alive = synths \cup Queued \cup InHand /\ Alive' = synths \cup Queued
  BY <1>1, <1>2 DEF Alive, Queued
<1>4. Alive' = Alive \ InHand
  BY <1>3 DEF Placed
<1>5. Placed'
  BY <1>1, <1>2, <1>3, <1>4 DEF Placed
<1>6. Heardly' /\ InHand \subseteq played
  BY <1>1, <1>2, <1>3 DEF Heardly
<1>7. QED
  BY <1>1, <1>2, <1>4, <1>5, <1>6

\* A phrase that cannot be played is gone, with its file and the player.
LEMMA PlayFailsMoves ==
  ASSUME Placed, Heardly, PlayFails
  PROVE  /\ Placed' /\ Heardly' /\ InHand' = {} /\ Alive' = Alive \ InHand
         /\ failed' = failed \cup InHand /\ UNCHANGED <<synths, played, dropped>>
<1>1. /\ player' = [at |-> "dead", phrase |-> <<>>] /\ files' = files \ InHand
      /\ failed' = failed \cup InHand
      /\ UNCHANGED <<synths, toPlay, played, again, dropped>>
  BY DEF PlayFails, Others
<1>2. InHand' = {} /\ Queued' = Queued
  BY <1>1 DEF InHand, Queued
<1>3. Alive = synths \cup Queued \cup InHand /\ Alive' = synths \cup Queued
  BY <1>1, <1>2 DEF Alive, Queued
<1>4. Alive' = Alive \ InHand
  BY <1>3 DEF Placed
<1>5. Placed'
  BY <1>1, <1>2, <1>3, <1>4 DEF Placed
<1>6. Heardly'
  BY <1>1, <1>2, <1>3 DEF Heardly
<1>7. QED
  BY <1>1, <1>2, <1>4, <1>5, <1>6

\* Nothing is left in the program after it was stopped.
LEMMA StopMoves ==
  ASSUME Stops
  PROVE  Placed' /\ Heardly' /\ Alive' = {} /\ played' = {} /\ dropped' = {}
<1>1. /\ synths' = {} /\ toPlay' = <<>> /\ player' = [at |-> "wait", phrase |-> <<>>] /\ files' = {}
      /\ played' = {} /\ dropped' = {} /\ again' = FALSE
  BY DEF Stops
<1>2. InHand' = {} /\ Queued' = {} /\ IsInjective(toPlay') /\ toPlay' \in Seq(Phrases) /\ Alive' = {}
  BY <1>1 DEF InHand, Queued, ToSet, IsInjective, Alive
<1>3. QED
  BY <1>1, <1>2 DEF Placed, Heardly

\* The steps at which no phrase moves.
Apart == Mute \/ TurnBegins \/ Frame \/ GiveUp \/ NotUnderstood \/ Session \/ ToolCall \/ ToolEnds \/ Broken
         \/ Interrupt \/ StopCurrent \/ Gather \/ Drain \/ Heard \/ Return \/ Save \/ StartAgain \/ Redeploy
         \/ UNCHANGED voiceVars

\* They leave the phrases alone.
LEMMA ApartStays ==
  ASSUME Apart
  PROVE  UNCHANGED <<speech, player, turn, said>>
<1>1. CASE Mute \/ TurnBegins \/ Frame \/ GiveUp \/ NotUnderstood \/ Session
  BY <1>1 DEF Mute, TurnBegins, Frame, GiveUp, NotUnderstood, Session, Still
<1>2. CASE ToolCall \/ ToolEnds \/ Broken \/ Interrupt \/ StopCurrent
  BY <1>2 DEF ToolCall, ToolEnds, Broken, Interrupt, StopCurrent, During
<1>3. CASE Gather \/ Drain \/ Heard \/ Return \/ UNCHANGED voiceVars
  BY <1>3 DEF Gather, Drain, Heard, Return, voiceVars, speech
<1>4. CASE Save \/ StartAgain \/ Redeploy
  BY <1>4 DEF Save, StartAgain, Redeploy
<1>5. QED
  BY <1>1, <1>2, <1>3, <1>4 DEF Apart

\* The steps that say something more, and what they say.
LEMMA SpeakingSpeaks ==
  ASSUME Flow, Token \/ Announce \/ Done \/ Closed
  PROVE  /\ stage = "stream" /\ turn > 0 /\ turn' = turn /\ Quiet
         /\ \E n \in Nat : Speaks(n)
<1>1. stage = "stream" /\ turn' = turn /\ Quiet
  BY DEF Token, Announce, Done, Closed, Event
<1>2. turn > 0
  BY <1>1 DEF Flow, InTurn
<1>3. \E n \in Nat : Speaks(n)
  <2>1. CASE Token
    BY <2>1 DEF Token
  <2>2. CASE Announce
    BY <2>2 DEF Announce
  <2>3. CASE Done \/ Closed
    <3>1. PICK n \in {0, 1} : Rest(n)
      BY <2>3 DEF Done, Closed
    <3>2. Speaks(n) \/ Speaks(n + 1)
      BY <3>1 DEF Rest
    <3>3. QED
      BY <3>2
  <2>4. QED
    BY <2>1, <2>2, <2>3
<1>4. QED
  BY <1>1, <1>2, <1>3

\* Every step leaves each phrase in one place.
LEMMA PlacesInv ==
  ASSUME Flow, Unheard, Placed, Heardly, Knowns, [VoiceNext]_voiceVars
  PROVE  Placed' /\ Heardly'
<1>1. CASE Apart
  BY <1>1, ApartStays, Stays
<1>2. CASE Greet
  BY <1>2, GreetMoves
<1>3. CASE Understood
  BY <1>3, UnderstoodMoves
<1>4. CASE Token \/ Announce \/ Done \/ Closed
  BY <1>4, SpeakingSpeaks, SpeakMoves
<1>5. CASE Discard
  BY <1>5, DiscardMoves
<1>6. ASSUME NEW ph \in synths, Synth(ph) PROVE Placed' /\ Heardly'
  BY <1>6, SynthMoves
<1>7. ASSUME NEW ph \in synths, SynthFails(ph) PROVE Placed' /\ Heardly'
  BY <1>7, FailMoves
<1>8. CASE Get
  BY <1>8, GetMoves
<1>9. CASE SetBusy \/ Play
  BY <1>9, PlayerMoves
<1>10. CASE Over \/ PlayFails
  BY <1>10, OverMoves, PlayFailsMoves
<1>11. CASE Stops
  BY <1>11, StopMoves
<1>12. QED
  BY <1>1, <1>2, <1>3, <1>4, <1>5, <1>6, <1>7, <1>8, <1>9, <1>10, <1>11
  DEF VoiceNext, TurnStep, TaskStep, PlayerStep, Apart, Dies, Kill

\* Within a turn more is said, never less.
LEMMA StillKnown ==
  ASSUME Flow, Flow', turn' = turn, said' >= said, NEW ph, Known(ph)
  PROVE  Known(ph)'
<1>1. ph \in Phrases /\ ph[1] \in Nat /\ ph[2] \in Nat
  BY DEF Known, Phrases, Greeting
<1>2. ph[1] <= turn /\ (ph[1] = turn /\ turn > 0 => ph[2] <= said)
  BY DEF Known
<1>3. ph[1] = turn /\ turn > 0 => ph[2] <= said'
  BY <1>1, <1>2 DEF Flow
<1>4. QED
  BY <1>1, <1>2, <1>3 DEF Known

\* Every step keeps to phrases that were said.
LEMMA KnownsInv ==
  ASSUME Flow, Flow', Unheard, Placed, Heardly, Knowns, [VoiceNext]_voiceVars
  PROVE  Knowns'
<1>1. ASSUME turn' = turn, said' >= said,
             Alive' \cup played' \cup dropped' \subseteq Alive \cup played \cup dropped
      PROVE  Knowns'
  BY <1>1, StillKnown DEF Knowns
<1>2. CASE Apart
  <2>1. UNCHANGED <<turn, said>> /\ Alive' = Alive /\ UNCHANGED <<played, dropped>>
    BY <1>2, ApartStays, Stays DEF speech
  <2>2. said' >= said
    BY <2>1 DEF Flow
  <2>3. QED
    BY <2>1, <2>2, <1>1
<1>3. CASE Greet
  <2>1. UNCHANGED <<turn, said, played, dropped>> /\ Alive' \subseteq Alive \cup {Greeting}
    BY <1>3, GreetMoves DEF Greet
  <2>2. Greeting \in Phrases /\ Greeting[1] = 0
    BY DEF Greeting, Phrases
  <2>3. Known(Greeting)'
    BY <2>1, <2>2 DEF Known, Flow
  <2>4. \A ph : Known(ph) => Known(ph)'
    BY <2>1 DEF Known
  <2>5. QED
    BY <2>1, <2>3, <2>4 DEF Knowns
<1>4. CASE Understood
  <2>1. Alive' \cup played' \cup dropped' \subseteq Alive \cup played \cup dropped
    BY <1>4, UnderstoodMoves
  <2>2. turn' = turn + 1
    BY <1>4 DEF Understood
  <2>3. ASSUME NEW ph, Known(ph) PROVE Known(ph)'
    <3>1. ph \in Phrases /\ ph[1] <= turn /\ ph[1] \in Nat
      BY <2>3 DEF Known, Phrases, Greeting
    <3>2. ph[1] <= turn + 1 /\ ph[1] # turn + 1
      BY <3>1 DEF Flow
    <3>3. QED
      BY <3>1, <3>2, <2>2 DEF Known
  <2>4. QED
    BY <2>1, <2>3 DEF Knowns
<1>5. CASE Token \/ Announce \/ Done \/ Closed
  <2>1. stage = "stream" /\ turn > 0 /\ turn' = turn /\ Quiet
    BY <1>5, SpeakingSpeaks
  <2>2. PICK n \in Nat : Speaks(n)
    BY <1>5, SpeakingSpeaks
  <2> DEFINE new == {<<turn, k>> : k \in said + 1..said + n}
  <2>3. Alive' = Alive \cup new
    BY <2>1, <2>2, SpeakMoves
  <2>4. UNCHANGED <<played, dropped>> /\ said' = said + n /\ said + n <= MaxPhrases
    BY <2>1, <2>2 DEF Quiet, Speaks
  <2>5. \A ph \in new : Known(ph)'
    BY <2>1, <2>4 DEF Known, Flow, Phrases
  <2>6. said' >= said
    BY <2>4 DEF Flow
  <2>7. \A ph : Known(ph) => Known(ph)'
    BY <2>1, <2>6, StillKnown
  <2> HIDE DEF new
  <2>8. QED
    BY <2>3, <2>4, <2>5, <2>7 DEF Knowns
<1>6. CASE Discard
  <2>1. Alive' \cup played' \cup dropped' \subseteq Alive \cup played \cup dropped
    BY <1>6, DiscardMoves
  <2>2. turn' = turn /\ said' >= said
    BY <1>6 DEF Discard, Flow
  <2>3. QED
    BY <2>1, <2>2, <1>1
<1>7. ASSUME NEW ph \in synths, Synth(ph) \/ SynthFails(ph) PROVE Knowns'
  <2>1. Alive' \cup played' \cup dropped' \subseteq Alive \cup played \cup dropped
    BY <1>7, SynthMoves, FailMoves
  <2>2. turn' = turn /\ said' >= said
    BY <1>7 DEF Synth, SynthFails, Flow
  <2>3. QED
    BY <2>1, <2>2, <1>1
<1>8. CASE PlayerStep
  <2>1. Alive' \cup played' \cup dropped' \subseteq Alive \cup played \cup dropped
    BY <1>8, GetMoves, PlayerMoves, OverMoves, PlayFailsMoves DEF PlayerStep
  <2>2. turn' = turn /\ said' = said
    BY <1>8 DEF PlayerStep, Get, SetBusy, Play, PlayFails, Over, Others
  <2>3. said' >= said
    BY <2>2 DEF Flow
  <2>4. QED
    BY <2>1, <2>2, <2>3, <1>1
<1>9. CASE Stops
  BY <1>9, StopMoves DEF Knowns
<1>10. QED
  BY <1>2, <1>3, <1>4, <1>5, <1>6, <1>7, <1>8, <1>9
  DEF VoiceNext, TurnStep, TaskStep, Apart, Dies, Kill

\* What is there, or was, of this turn.
Kept == Alive \cup played \cup failed

\* What is there of a turn's phrases is not lost by a step that does not end it.
LEMMA KeptInv ==
  ASSUME Placed, Heardly, Knowns, Flow,
         Apart \/ PlayerStep \/ TaskStep
  PROVE  Kept \subseteq Kept' /\ (played \cup failed \cup InHand) \subseteq (played \cup failed \cup InHand)'
         /\ UNCHANGED <<turn, said>> /\ synths' \subseteq synths
<1>1. CASE Apart
  <2>1. UNCHANGED <<turn, said, synths, played, failed>> /\ Alive' = Alive /\ InHand' = InHand
    BY <1>1, ApartStays, Stays DEF speech
  <2>2. QED
    BY <2>1 DEF Kept
<1>2. CASE Get
  BY <1>2, GetMoves DEF Kept, Get, Others
<1>3. CASE SetBusy \/ Play
  BY <1>3, PlayerMoves DEF Kept, SetBusy, Play, Others
<1>4. CASE Over \/ PlayFails
  BY <1>4, OverMoves, PlayFailsMoves DEF Kept, Over, PlayFails, Others
<1>5. ASSUME NEW ph \in synths, Synth(ph)
      PROVE  Kept \subseteq Kept' /\ (played \cup failed \cup InHand) \subseteq (played \cup failed \cup InHand)'
             /\ UNCHANGED <<turn, said>> /\ synths' \subseteq synths
  BY <1>5, SynthMoves DEF Kept, Synth
<1>6. ASSUME NEW ph \in synths, SynthFails(ph)
      PROVE  Kept \subseteq Kept' /\ (played \cup failed \cup InHand) \subseteq (played \cup failed \cup InHand)'
             /\ UNCHANGED <<turn, said>> /\ synths' \subseteq synths
  BY <1>6, FailMoves DEF Kept, SynthFails
<1>7. QED
  BY <1>1, <1>2, <1>3, <1>4, <1>5, <1>6 DEF PlayerStep, TaskStep

\* The stages after a turn.
Ended == {"between", "saving", "top", "listen", "recorded"}

\* What a turn in progress owes.
Owed ==
  /\ \A k \in 1..said : <<turn, k>> \in Kept
  /\ stage \in {"gather", "drain"} \cup Ended => ~ buf
  /\ stage = "gather" => ~ hushed
  /\ stage # "cut"

\* What it has settled when it is over.
Settled == stage \in Ended => \A k \in 1..said : <<turn, k>> \in played \cup failed \cup InHand

\* The same, said of the turn.
LEMMA TrackedIs ==
  Tracked <=> /\ whole /\ turn > 0 => Owed /\ Settled
              /\ stage = "gather" /\ hushed => ~ whole
              /\ stage = "cut" => ~ whole
              /\ stage = "drain" => \A ph \in synths : ph[1] # turn
BY DEF Tracked, Owed, Settled, Kept, Ended

\* No step of a turn, a task or the player loses a phrase.
LEMMA TrackedInv ==
  ASSUME Flow, Unheard, Placed, Heardly, Knowns, Tracked, [VoiceNext]_voiceVars
  PROVE  Tracked'
<1>1. /\ whole /\ turn > 0 => Owed /\ Settled
      /\ stage = "gather" /\ hushed => ~ whole
      /\ stage = "cut" => ~ whole
      /\ stage = "drain" => \A ph \in synths : ph[1] # turn
  BY TrackedIs
<1>2. SUFFICES /\ whole' /\ turn' > 0 => Owed' /\ Settled'
               /\ stage' = "gather" /\ hushed' => ~ whole'
               /\ stage' = "cut" => ~ whole'
               /\ stage' = "drain" => \A ph \in synths' : ph[1] # turn'
  BY DEF Tracked, Owed, Settled, Kept, Ended
<1>3. ASSUME whole' = FALSE, stage' \notin {"drain"} PROVE Tracked'
  BY <1>3 DEF Tracked
<1>4. CASE TaskStep \/ PlayerStep \/ Mute \/ TurnBegins \/ Frame \/ GiveUp \/ NotUnderstood \/ Session
           \/ ToolCall \/ ToolEnds \/ Heard \/ Return \/ Save \/ Redeploy \/ UNCHANGED voiceVars
  <2>1. /\ Kept \subseteq Kept' /\ (played \cup failed \cup InHand) \subseteq (played \cup failed \cup InHand)'
        /\ turn' = turn /\ said' = said /\ synths' \subseteq synths
    BY <1>4, KeptInv DEF Apart
  <2>2. CASE TaskStep \/ PlayerStep
    <3>1. UNCHANGED <<whole, buf, stage, hushed>>
      BY <2>2 DEF TaskStep, PlayerStep, Synth, SynthFails, Get, SetBusy, Play, PlayFails, Over, Others
    <3>2. QED
      BY <1>1, <2>1, <3>1 DEF Owed, Settled
  <2>3. CASE Mute \/ Heard \/ Redeploy \/ UNCHANGED voiceVars
    <3>1. UNCHANGED <<whole, buf, stage, hushed>>
      BY <2>3 DEF Mute, Heard, Redeploy, voiceVars
    <3>2. QED
      BY <1>1, <2>1, <3>1 DEF Owed, Settled
  <2>4. CASE TurnBegins \/ Frame \/ GiveUp \/ NotUnderstood \/ Return \/ Save
    <3>1. UNCHANGED <<whole, buf>> /\ stage \in Ended /\ stage' \in Ended
      BY <2>4 DEF TurnBegins, Frame, GiveUp, NotUnderstood, Return, Save, Still, Ended
    <3>2. QED
      BY <1>1, <2>1, <3>1 DEF Owed, Settled, Ended
  <2>5. CASE Session \/ ToolCall \/ ToolEnds
    <3>1. UNCHANGED <<whole, buf>> /\ stage' \in {"stream", "tool"} /\ stage \in {"asks", "stream", "tool"}
      BY <2>5 DEF Session, ToolCall, ToolEnds, Event, During
    <3>2. QED
      BY <1>1, <2>1, <3>1 DEF Owed, Settled, Ended
  <2>6. QED
    BY <1>4, <2>2, <2>3, <2>4, <2>5
<1>5. CASE Greet
  <2>1. stage = "start" /\ stage' = "top" /\ UNCHANGED <<whole, turn>>
    BY <1>5 DEF Greet
  <2>2. turn = 0 \/ ~ whole
    BY <2>1 DEF Unheard
  <2>3. QED
    BY <2>1, <2>2
<1>6. CASE Understood
  <2>1. stage' = "asks" /\ said' = 0
    BY <1>6 DEF Understood
  <2>2. QED
    BY <2>1 DEF Owed, Settled, Ended
<1>7. CASE Token \/ Announce \/ Done \/ Closed
  <2>1. stage = "stream" /\ turn > 0 /\ turn' = turn /\ Quiet
    BY <1>7, SpeakingSpeaks
  <2>2. PICK n \in Nat : Speaks(n)
    BY <1>7, SpeakingSpeaks
  <2>3. whole
    BY <2>1 DEF Flow
  <2>4. Kept' = Kept \cup {<<turn, k>> : k \in said + 1..said + n} /\ said' = said + n
    BY <2>1, <2>2, SpeakMoves DEF Kept, Quiet, Speaks
  <2>5. \A k \in 1..said' : <<turn', k>> \in Kept'
    <3>1. TAKE k \in 1..said'
    <3>2. CASE k \in 1..said
      BY <1>1, <2>1, <2>3, <2>4, <3>2 DEF Owed
    <3>3. CASE k \notin 1..said
      <4>1. k \in said + 1..said + n
        BY <2>4, <3>3 DEF Flow
      <4>2. QED
        BY <2>1, <2>4, <4>1
    <3>4. QED
      BY <3>2, <3>3
  <2>6. CASE Token \/ Announce
    <3>1. stage' = "stream"
      BY <2>1, <2>6 DEF Token, Announce
    <3>2. QED
      BY <2>5, <3>1 DEF Owed, Settled, Ended
  <2>7. CASE Done \/ Closed
    <3>1. stage' = "gather" /\ whole' = ~ hushed' /\ (buf /\ ~ hushed' => buf' = FALSE)
          /\ (~ (buf /\ ~ hushed') => buf' = buf)
      BY <2>7 DEF Done, Closed, Rest
    <3>2. whole' => ~ hushed' /\ ~ buf'
      BY <3>1
    <3>3. QED
      BY <2>5, <3>1, <3>2 DEF Owed, Settled, Ended
  <2>8. QED
    BY <1>7, <2>6, <2>7
<1>8. CASE Interrupt \/ Discard \/ Broken \/ Stops \/ StartAgain
  <2>1. CASE Interrupt \/ Broken \/ Stops
    BY <2>1 DEF Interrupt, Broken, Stops
  <2>2. CASE Discard
    BY <1>1, <2>2 DEF Discard
  <2>3. CASE StartAgain
    <3>1. stage = "gone" /\ stage' = "start" /\ UNCHANGED <<whole, turn>>
      BY <2>3 DEF StartAgain
    <3>2. turn = 0 \/ ~ whole
      BY <3>1 DEF Unheard
    <3>3. QED
      BY <3>1, <3>2
  <2>4. QED
    BY <1>8, <2>1, <2>2, <2>3
<1>9. CASE StopCurrent
  <2>1. stage = "cut" /\ whole' = whole /\ stage' = "gather"
    BY <1>9 DEF StopCurrent
  <2>2. QED
    BY <1>1, <2>1
<1>10. CASE Gather \/ Drain
  <2>1. Kept \subseteq Kept' /\ UNCHANGED <<turn, said, whole, buf, hushed, synths, played, failed, player>>
    BY <1>10, KeptInv DEF Apart, Gather, Drain, speech
  <2>2. CASE stage' = "drain"
    BY <1>1, <1>10, <2>1, <2>2 DEF Gather, Drain, Owed, Settled, Ended
  <2>3. CASE stage' = "between" /\ Gather
    BY <1>1, <2>3, <2>1 DEF Gather, Owed, Settled, Ended
  <2>4. CASE Drain
    <3>1. stage = "drain" /\ toPlay = <<>> /\ stage' = "between" /\ \A ph \in synths : ph[1] # turn
      BY <1>1, <2>4 DEF Drain
    <3>2. Alive = synths \cup InHand
      BY <3>1 DEF Alive, ToSet
    <3>3. ASSUME whole, turn > 0 PROVE Owed' /\ Settled'
      <4>1. \A k \in 1..said : <<turn, k>> \in played \cup failed \cup InHand
        BY <1>1, <3>1, <3>2, <3>3 DEF Owed, Kept
      <4>2. (played \cup failed \cup InHand) \subseteq (played \cup failed \cup InHand)'
        BY <2>1 DEF InHand
      <4>3. QED
        BY <1>1, <2>1, <3>1, <3>3, <4>1, <4>2 DEF Owed, Settled, Ended
    <3>4. QED
      BY <2>1, <3>1, <3>3
  <2>5. QED
    BY <1>10, <2>2, <2>3, <2>4 DEF Gather
<1>11. QED
  BY <1>4, <1>5, <1>6, <1>7, <1>8, <1>9, <1>10
  DEF VoiceNext, TurnStep, Dies, Kill

\* The first state has the invariant.
LEMMA VoiceInvInit == VoiceInit => VoiceInv
<1> SUFFICES ASSUME VoiceInit PROVE VoiceInv
  OBVIOUS
<1>1. /\ synths = {} /\ toPlay = <<>> /\ player = [at |-> "wait", phrase |-> <<>>] /\ files = {}
      /\ played = {} /\ dropped = {} /\ again = FALSE /\ said = 0 /\ turn = 0 /\ stage = "start"
  BY DEF VoiceInit
<1>2. InHand = {} /\ Queued = {} /\ IsInjective(toPlay) /\ toPlay \in Seq(Phrases) /\ Alive = {}
  BY <1>1 DEF InHand, Queued, ToSet, IsInjective, Alive
<1>3. Placed /\ Heardly /\ Knowns
  BY <1>1, <1>2 DEF Placed, Heardly, Knowns
<1>4. Counting
  BY DEF Counting, VoiceInit, NoFrames
<1>5. Flow
  <2>1. said \in 0..MaxPhrases /\ turn \in 0..MaxTurns
    BY <1>1
  <2>2. QED
    BY <1>1, <2>1 DEF Flow, VoiceInit, InTurn
<1>6. Unheard
  BY <1>1 DEF Unheard
<1>7. Tracked
  BY <1>1 DEF Tracked
<1>8. QED
  BY <1>3, <1>4, <1>5, <1>6, <1>7, ConversationInit DEF VoiceInv

\* Every step keeps it.
LEMMA VoiceInvStep == VoiceInv /\ [VoiceNext]_voiceVars => VoiceInv'
<1> SUFFICES ASSUME VoiceInv, [VoiceNext]_voiceVars PROVE VoiceInv'
  OBVIOUS
<1>1. Counting' /\ Flow' /\ Unheard' /\ Conversations'
  BY CountingInv, FlowInv, UnheardInv, ConversationInv DEF VoiceInv
<1>2. Placed' /\ Heardly' /\ Knowns' /\ Tracked'
  BY <1>1, PlacesInv, KnownsInv, TrackedInv DEF VoiceInv
<1>3. QED
  BY <1>1, <1>2 DEF VoiceInv

\* The invariant is stronger than what the run checks.
LEMMA PlayerIs == VoiceInv => PlayerInv
<1> SUFFICES ASSUME VoiceInv PROVE PlayerInv
  OBVIOUS
<1>1. FilesGo /\ Hushed
  BY DEF VoiceInv, FilesGo, Hushed, Placed, Heardly
<1>2. SaysItAll
  BY DEF VoiceInv, SaysItAll, Tracked
<1>3. VoiceTypeOK
  <2>1. synths \subseteq Phrases /\ Queued \subseteq Phrases
    BY DEF VoiceInv, Knowns, Known, Alive, Queued
  <2>2. Alive \subseteq files /\ IsInjective(toPlay) /\ synths \cap Queued = {} /\ InHand \cap Queued = {}
    BY DEF VoiceInv, Placed
  <2>3. /\ player.at \in {"wait", "took", "busy", "plays", "dead"}
        /\ (player.at \in {"wait", "dead"}) = (InHand = {})
    <3>1. player.at \in {"wait", "took", "busy", "plays", "dead"}
      BY DEF VoiceInv, Placed
    <3>2. player.at \in {"wait", "dead"} <=> InHand = {}
      BY HandIs DEF VoiceInv
    <3>3. QED
      BY <3>1, <3>2
  <2>4. {session, saved} \subseteq 0..opened /\ lost \subseteq 1..opened
    BY DEF VoiceInv, Conversations
  <2>5. /\ stage \in {"gone", "start", "top", "listen", "recorded", "asks", "stream", "tool", "cut", "gather",
                       "drain", "between", "saving"}
        /\ turn \in 0..MaxTurns /\ said \in 0..MaxPhrases /\ busy \in BOOLEAN /\ (BargeIn \/ monitor = "off")
    BY DEF VoiceInv, Flow, InTurn
  <2>6. QED
    BY <2>1, <2>2, <2>3, <2>4, <2>5 DEF VoiceTypeOK, VoiceInv, Counting, Queued
<1>4. QED
  BY <1>1, <1>2, <1>3 DEF PlayerInv

\* Whatever the user says into, however the threads take turns, for turns and phrases
\* without bound: nothing sounds twice or after an interruption, a whole turn leaves no
\* phrase behind, and no phrase leaves its file.
THEOREM PlayerIsSafe == VoiceSpec => []PlayerInv
<1>1. VoiceInv /\ [VoiceNext]_voiceVars => VoiceInv'
  BY VoiceInvStep
<1>2. QED
  BY VoiceInvInit, <1>1, PlayerIs, PTL DEF VoiceSpec

\* However often turns break off, the program is stopped and started and the server is
\* deployed again, it opens a second session only when it has forgotten the one before, or
\* that one was not told or was not in the file when the program ended.
THEOREM OneConversationKept == VoiceSpec => []OneConversation
<1>1. VoiceInv => OneConversation
  BY DEF VoiceInv, Conversations, OneConversation
<1>2. VoiceInv /\ [VoiceNext]_voiceVars => VoiceInv'
  BY VoiceInvStep
<1>3. QED
  BY VoiceInvInit, <1>1, <1>2, PTL DEF VoiceSpec
=============================================================================
