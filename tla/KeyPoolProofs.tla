---------------------------- MODULE KeyPoolProofs ----------------------------
(***************************************************************************)
(* Theorems about KeyPool for any number of keys, calls and tries, and     *)
(* about the parser of ReplyStream for any reply and any markers.          *)
(***************************************************************************)
EXTENDS KeyPool, ReplyStream, SequenceTheorems, FiniteSetTheorems,
        WellFoundedInduction, TLAPS

\* A call that may still send has a try left.
TriesLeft == \A c \in Callers : pc[c] \in {"ready", "sleeping"} => tries[c] < MaxTries

\* What a call has sent, it has sent with a key.
LeasesKey == \A c \in Callers : pc[c] = "sent" => lease[c] \in Keys

\* The inductive invariant.
IInv == PoolInv /\ TriesLeft /\ LeasesKey

-----------------------------------------------------------------------------
(* Numbers                                                                 *)

\* A set of numbers has a least one.
LEMMA Least ==
  ASSUME NEW T, T \subseteq Nat, T # {}
  PROVE  \E x \in T : \A y \in T : x <= y
<1>1. IsWellFoundedOn(OpToRel(<, Nat), Nat)
  BY NatLessThanWellFounded
<1>2. PICK x \in T : \A y \in T : ~ (<<y, x>> \in OpToRel(<, Nat))
  BY <1>1, WFMin
<1>3. \A y \in T : ~ (y < x)
  BY <1>2 DEF OpToRel
<1>4. QED
  BY <1>3

\* Counting round the pool.
LEMMA Round ==
  ASSUME NEW x \in Nat, x < 2 * N
  PROVE  /\ x % N = IF x < N THEN x ELSE x - N
         /\ x % N \in Keys
BY KeyPoolAssumption DEF Keys

\* From anywhere in the pool, some way round leads to each key.
LEMMA WayRound ==
  ASSUME idx \in Keys, NEW k \in Keys
  PROVE  \E j \in Keys : (idx + j) % N = k
<1>1. idx \in Nat /\ k \in Nat /\ idx < N /\ k < N /\ N \in Nat
  BY KeyPoolAssumption DEF Keys
<1>2. CASE k >= idx
  <2>1. idx + (k - idx) = k /\ k - idx \in Keys
    BY <1>1, <1>2 DEF Keys
  <2>2. k % N = k
    BY <1>1, Round
  <2>3. QED
    BY <2>1, <2>2
<1>3. CASE k < idx
  <2>1. idx + (k - idx + N) = k + N /\ k - idx + N \in Keys
    BY <1>1, <1>3 DEF Keys
  <2>2. (k + N) % N = k
    BY <1>1, Round
  <2>3. QED
    BY <2>1, <2>2
<1>4. QED
  BY <1>1, <1>2, <1>3

-----------------------------------------------------------------------------
(* The key that is leased                                                  *)

\* If a key is usable, one is the first from where the pool stands.
LEMMA FirstUsable ==
  ASSUME idx \in Keys, NEW k \in Keys, Usable(k)
  PROVE  \E j \in Keys : /\ Usable((idx + j) % N)
                         /\ \A i \in 0..(j - 1) : ~ Usable((idx + i) % N)
<1> DEFINE Nth(j) == (idx + j) % N
           usable == {j \in Keys : Usable(Nth(j))}
<1>1. Keys \subseteq Nat /\ \A j \in Keys : 0..(j - 1) \subseteq Keys
  BY KeyPoolAssumption DEF Keys
<1>2. usable # {}
  BY WayRound
<1>3. PICK j \in usable : \A i \in usable : j <= i
  BY <1>1, <1>2, Least
<1>4. \A i \in 0..(j - 1) : i \in Keys /\ ~ (j <= i)
  BY <1>1, <1>3
<1>5. \A i \in 0..(j - 1) : ~ Usable(Nth(i))
  BY <1>3, <1>4
<1>6. QED
  BY <1>3, <1>5

\* A key is always one of the pool, usable if the pool has a usable one, and
\* else one that cools down soonest.
LEMMA SelectedIsBest ==
  ASSUME idx \in Keys, NEW k \in Selected
  PROVE  /\ k \in Keys
         /\ IF \E i \in Keys : Usable(i) THEN Usable(k) ELSE k \in Soonest
<1> DEFINE Nth(j) == (idx + j) % N
           first == {j \in Keys : Usable(Nth(j)) /\ \A i \in 0..(j - 1) : ~ Usable(Nth(i))}
<1>1. Selected = IF first = {} THEN Soonest ELSE {Nth(j) : j \in first}
  BY DEF Selected
<1>2. \A j \in Keys : Nth(j) \in Keys
  BY KeyPoolAssumption, Round DEF Keys
<1>3. ASSUME NEW i \in Keys, Usable(i) PROVE first # {}
  BY <1>3, FirstUsable
<1>4. CASE first = {}
  <2>1. \A i \in Keys : ~ Usable(i)
    BY <1>3, <1>4
  <2>2. k \in Soonest
    BY <1>1, <1>4
  <2>3. QED
    BY <2>1, <2>2 DEF Soonest
<1>5. CASE first # {}
  <2>1. PICK j \in first : k = Nth(j)
    BY <1>1, <1>5
  <2>2. k \in Keys /\ Usable(k)
    BY <1>2, <2>1
  <2>3. QED
    BY <2>2
<1>6. QED
  BY <1>4, <1>5

-----------------------------------------------------------------------------
(* The invariant                                                           *)

\* The invariant holds at first.
LEMMA InitInv == Init => IInv
<1> SUFFICES ASSUME Init PROVE IInv
  OBVIOUS
<1>1. MaxTries \in Nat /\ 0 \in Keys
  BY KeyPoolAssumption DEF Init, MaxTries, Tries, Clients, Keys
<1>2. TypeOK
  BY <1>1, KeyPoolAssumption DEF Init, TypeOK
<1>3. RestartRemembers
  BY KeyPoolAssumption DEF Init, RestartRemembers
<1>4. TriesLeft /\ LeasesKey
  BY DEF Init, TriesLeft, LeasesKey
<1>5. QED
  BY <1>2, <1>3, <1>4 DEF IInv, PoolInv

\* What is left of a number after its whole seconds.
LEMMA Remainder ==
  ASSUME NEW x \in Nat
  PROVE  x % Second \in 0..(Second - 1) /\ x % Second <= x /\ (x < Second => x % Second = x)
BY KeyPoolAssumption

\* Redis is told less than a second more or less than the cooldown,
LEMMA SecondsAreNear ==
  ASSUME NEW t \in 1..Long
  PROVE  Seconds(t) \in 0..Long /\ Seconds(t) - t < Second /\ t - Seconds(t) < Second
<1>1. Second \in Nat \ {0} /\ Long \in Nat /\ Second <= Long
  BY KeyPoolAssumption
<1>2. CASE t < Second
  <2>1. Seconds(t) = Second
    BY <1>2 DEF Seconds
  <2>2. QED
    BY <1>1, <1>2, <2>1
<1>3. CASE ~ (t < Second)
  <2>1. Seconds(t) = t - (t % Second)
    BY <1>3 DEF Seconds
  <2>2. t % Second \in 0..(Second - 1)
    BY <1>1
  <2>3. QED
    BY <1>1, <1>3, <2>1, <2>2
<1>4. QED
  BY <1>2, <1>3

\* and says less than a second more or less than is left.
LEMMA ToldIsNear ==
  ASSUME NEW t \in 0..Long
  PROVE  /\ Told(t) \in 0..(Long + Second) /\ Told(t) - t < Second /\ t - Told(t) < Second
         /\ t = 0 => Told(t) = 0
<1> DEFINE h == Second \div 2
           half == t + h
<1>1. Second \in Nat \ {0} /\ Long \in Nat
  BY KeyPoolAssumption
<1>2. h \in 0..(Second - 1)
  BY <1>1
<1>3. Told(t) = half - (half % Second)
  BY DEF Told
<1> HIDE DEF h
<1>4. half \in Nat
  BY <1>2
<1>5. half % Second \in 0..(Second - 1) /\ half % Second <= half
  BY <1>1, <1>4, Remainder
<1>6. t = 0 => half % Second = half
  <2>1. ASSUME t = 0 PROVE half \in 0..(Second - 1)
    BY <1>2, <2>1
  <2>2. QED
    BY <1>1, <2>1, Remainder
<1>7. QED
  BY <1>1, <1>2, <1>3, <1>4, <1>5, <1>6

\* A key cools: what Redis is not told is on the list of what it has missed.
LEMMA CoolDownKeeps ==
  ASSUME TypeOK, RestartRemembers, NEW k \in Keys, NEW t \in 1..Long, CoolDown(k, t)
  PROVE  /\ idx' \in Keys
         /\ cool' \in [Keys -> 0..(Long + Second)] /\ stored' \in [Keys -> 0..Long] /\ missed' \subseteq Keys
         /\ UNCHANGED <<low, storedLow>>
         /\ RestartRemembers'
<1>1. cool \in [Keys -> 0..(Long + Second)] /\ stored \in [Keys -> 0..Long] /\ missed \subseteq Keys
  BY DEF TypeOK
<1>2. idx' \in Keys
  <2>1. k + 1 \in Nat /\ k + 1 < 2 * N
    BY KeyPoolAssumption DEF Keys
  <2>2. QED
    BY <2>1, Round DEF CoolDown
<1>3. /\ cool' = [cool EXCEPT ![k] = t]
      /\ \/ stored' = [stored EXCEPT ![k] = Seconds(t)] /\ missed' = missed \ {k}
         \/ missed' = missed \cup {k} /\ stored' = stored
  BY DEF CoolDown, PersistCooldown
<1>4. cool' \in [Keys -> 0..(Long + Second)] /\ stored' \in [Keys -> 0..Long] /\ missed' \subseteq Keys
  BY <1>1, <1>3, SecondsAreNear, KeyPoolAssumption
<1>5. RestartRemembers'
  BY <1>1, <1>3, SecondsAreNear DEF RestartRemembers
<1>6. QED
  BY <1>2, <1>4, <1>5 DEF CoolDown

\* A refused call has a try left or is at its end.
LEMMA RetryKeeps ==
  ASSUME TypeOK, NEW c \in Callers, NEW pauses \in BOOLEAN, Retry(c, pauses), TriesLeft, LeasesKey
  PROVE  /\ pc' \in [Callers -> {"idle", "ready", "sent", "sleeping", "served", "exhausted", "broken"}]
         /\ UNCHANGED <<lease, tries>>
         /\ \A d \in Callers : pc'[d] \in {"ready", "sleeping"} => tries[d] < MaxTries
         /\ \A d \in Callers : pc'[d] = "sent" => lease[d] \in Keys
<1>1. /\ pc \in [Callers -> {"idle", "ready", "sent", "sleeping", "served", "exhausted", "broken"}]
      /\ tries \in [Callers -> 0..MaxTries]
  BY DEF TypeOK
<1>2. MaxTries \in Nat
  BY KeyPoolAssumption DEF TypeOK, MaxTries, Tries, Clients
<1>3. pc' = [pc EXCEPT ![c] = IF tries[c] = MaxTries THEN "exhausted"
                             ELSE IF pauses THEN "sleeping" ELSE "ready"]
  BY DEF Retry
<1>4. pc' \in [Callers -> {"idle", "ready", "sent", "sleeping", "served", "exhausted", "broken"}]
  BY <1>1, <1>3
<1>5. tries[c] # MaxTries => tries[c] < MaxTries
  BY <1>1, <1>2
<1>6. \A d \in Callers : pc'[d] \in {"ready", "sleeping"} => tries[d] < MaxTries
  BY <1>1, <1>3, <1>5 DEF TriesLeft
<1>7. \A d \in Callers : pc'[d] = "sent" => lease[d] \in Keys
  BY <1>1, <1>3 DEF LeasesKey
<1>8. QED
  BY <1>4, <1>6, <1>7 DEF Retry

\* A refused key cools.
LEMMA RefusedInv ==
  ASSUME IInv, NEW c \in Callers, RateLimited(c) \/ Rejected(c), UNCHANGED client
  PROVE  IInv'
<1>1. TypeOK /\ RestartRemembers /\ TriesLeft /\ LeasesKey
  BY DEF IInv, PoolInv
<1>2. lease[c] \in Keys
  BY <1>1 DEF LeasesKey, RateLimited, Rejected
<1>3. \E t \in 1..Long : CoolDown(lease[c], t)
  <2>1. 1..Short \subseteq 1..Long /\ Long \in 1..Long
    BY KeyPoolAssumption
  <2>2. QED
    BY <2>1 DEF RateLimited, Rejected
<1>4. \E pauses \in BOOLEAN : Retry(c, pauses)
  <2>1. CASE RateLimited(c)
    <3>1. (client = "llm" /\ \A k \in Keys : cool'[k] > 0) \in BOOLEAN
      OBVIOUS
    <3>2. QED
      BY <2>1, <3>1 DEF RateLimited
  <2>2. CASE Rejected(c)
    BY <2>2 DEF Rejected
  <2>3. QED
    BY <2>1, <2>2
<1>5. MaxTries' = MaxTries
  BY DEF MaxTries
<1>6. /\ idx' \in Keys
      /\ cool' \in [Keys -> 0..(Long + Second)] /\ stored' \in [Keys -> 0..Long] /\ missed' \subseteq Keys
      /\ UNCHANGED <<low, storedLow>>
      /\ RestartRemembers'
  BY <1>1, <1>2, <1>3, CoolDownKeeps
<1>7. /\ pc' \in [Callers -> {"idle", "ready", "sent", "sleeping", "served", "exhausted", "broken"}]
      /\ UNCHANGED <<lease, tries>>
      /\ \A d \in Callers : pc'[d] \in {"ready", "sleeping"} => tries[d] < MaxTries
      /\ \A d \in Callers : pc'[d] = "sent" => lease[d] \in Keys
  BY <1>1, <1>4, RetryKeeps
<1>8. TypeOK'
  BY <1>1, <1>5, <1>6, <1>7 DEF TypeOK
<1>9. TriesLeft' /\ LeasesKey'
  BY <1>5, <1>7 DEF TriesLeft, LeasesKey
<1>10. QED
  BY <1>6, <1>8, <1>9 DEF IInv, PoolInv

\* The other steps of a call.
LEMMA CallInv ==
  ASSUME IInv, NEW c \in Callers, Call(c) \/ Send(c) \/ Answered(c) \/ Broken(c) \/ Wake(c),
         UNCHANGED client
  PROVE  IInv'
<1>1. TypeOK /\ RestartRemembers /\ TriesLeft /\ LeasesKey
  BY DEF IInv, PoolInv
<1>2. MaxTries' = MaxTries /\ MaxTries \in Nat \ {0}
  BY <1>1, KeyPoolAssumption DEF TypeOK, MaxTries, Tries, Clients
<1>3. UNCHANGED <<cool, stored, missed>>
  BY DEF Call, Send, Answered, Broken, Wake, UpdateFromHeaders, poolVars, redisVars
<1>4. RestartRemembers'
  BY <1>1, <1>3 DEF RestartRemembers
<1>5. idx' \in Keys
  BY <1>1, SelectedIsBest DEF TypeOK, Call, Send, Answered, Broken, Wake, UpdateFromHeaders, poolVars
<1>6. low' \in [Keys -> SUBSET Quotas] /\ storedLow' \subseteq Keys
  <2>1. CASE Answered(c)
    <3>1. PICK quotas \in SUBSET Quotas : UpdateFromHeaders(lease[c], quotas)
      BY <2>1 DEF Answered
    <3>2. lease[c] \in Keys
      BY <1>1, <2>1 DEF LeasesKey, Answered
    <3>3. QED
      BY <1>1, <3>1, <3>2 DEF TypeOK, UpdateFromHeaders
  <2>2. CASE Call(c) \/ Send(c) \/ Broken(c) \/ Wake(c)
    BY <1>1, <2>2 DEF TypeOK, Call, Send, Broken, Wake, poolVars, redisVars
  <2>3. QED
    BY <2>1, <2>2
<1>7. /\ pc \in [Callers -> {"idle", "ready", "sent", "sleeping", "served", "exhausted", "broken"}]
      /\ lease \in [Callers -> Keys \cup {None}]
      /\ tries \in [Callers -> 0..MaxTries]
  BY <1>1 DEF TypeOK
<1>8. /\ pc' \in [Callers -> {"idle", "ready", "sent", "sleeping", "served", "exhausted", "broken"}]
      /\ lease' \in [Callers -> Keys \cup {None}]
      /\ tries' \in [Callers -> 0..MaxTries]
      /\ TriesLeft' /\ LeasesKey'
  <2>1. CASE Call(c)
    BY <1>1, <1>2, <1>7, <2>1 DEF Call, TriesLeft, LeasesKey
  <2>2. CASE Send(c)
    <3>1. PICK k \in Selected : lease' = [lease EXCEPT ![c] = k]
      BY <2>2 DEF Send
    <3>2. k \in Keys
      BY <1>1, SelectedIsBest DEF TypeOK
    <3>3. pc[c] = "ready" /\ tries[c] < MaxTries /\ tries[c] \in Nat
      BY <1>1, <1>2, <1>7, <2>2 DEF Send, TriesLeft
    <3>4. tries[c] + 1 \in 0..MaxTries
      BY <1>2, <3>3
    <3>5. pc' = [pc EXCEPT ![c] = "sent"] /\ tries' = [tries EXCEPT ![c] = tries[c] + 1]
      BY <2>2 DEF Send
    <3>6. QED
      BY <1>1, <1>2, <1>7, <3>1, <3>2, <3>4, <3>5 DEF TriesLeft, LeasesKey
  <2>3. CASE Answered(c) \/ Broken(c)
    BY <1>1, <1>2, <1>7, <2>3 DEF Answered, Broken, TriesLeft, LeasesKey
  <2>4. CASE Wake(c)
    BY <1>1, <1>2, <1>7, <2>4 DEF Wake, TriesLeft, LeasesKey
  <2>5. QED
    BY <2>1, <2>2, <2>3, <2>4
<1>9. TypeOK'
  BY <1>1, <1>2, <1>3, <1>5, <1>6, <1>8 DEF TypeOK
<1>10. QED
  BY <1>4, <1>8, <1>9 DEF IInv, PoolInv

\* Time, and what Redis lets run out: both count down together.
LEMMA TimeInv ==
  ASSUME IInv, Tick \/ (\E k \in Keys : QuotaExpires(k)), UNCHANGED client
  PROVE  IInv'
<1>1. TypeOK /\ RestartRemembers /\ TriesLeft /\ LeasesKey
  BY DEF IInv, PoolInv
<1>2. UNCHANGED <<idx, low, pc, lease, tries, client>> /\ MaxTries' = MaxTries
  BY DEF Tick, QuotaExpires, callVars, poolVars, MaxTries
<1>3. cool \in [Keys -> 0..(Long + Second)] /\ stored \in [Keys -> 0..Long] /\ missed \subseteq Keys
      /\ storedLow \subseteq Keys
  BY <1>1 DEF TypeOK
<1>4. ASSUME NEW n \in Nat, NEW f \in [Keys -> 0..n] PROVE Less(f) \in [Keys -> 0..n]
  BY DEF Less
<1>11. Long \in Nat /\ Second \in Nat \ {0} /\ Long + Second \in Nat
  BY KeyPoolAssumption
<1>5. /\ cool' \in [Keys -> 0..(Long + Second)] /\ stored' \in [Keys -> 0..Long]
      /\ missed' \subseteq Keys /\ storedLow' \subseteq Keys
  <2>1. Less(cool) \in [Keys -> 0..(Long + Second)] /\ Less(stored) \in [Keys -> 0..Long]
    BY <1>3, <1>4, <1>11
  <2>2. QED
    BY <1>3, <2>1 DEF Tick, QuotaExpires, poolVars
<1>6. RestartRemembers'
  <2>1. CASE Tick
    <3>1. \A k \in Keys : /\ cool'[k] = IF cool[k] = 0 THEN 0 ELSE cool[k] - 1
                          /\ stored'[k] = IF stored[k] = 0 THEN 0 ELSE stored[k] - 1
      BY <2>1 DEF Tick, Less
    <3>2. ASSUME NEW k \in Keys \ missed
          PROVE  stored'[k] - cool'[k] < Second /\ cool'[k] - stored'[k] < Second
      <4>1. stored[k] \in Nat /\ cool[k] \in Nat
        BY <1>3, <1>11
      <4>2. stored[k] - cool[k] < Second /\ cool[k] - stored[k] < Second
        BY <1>1 DEF RestartRemembers
      <4>3. QED
        BY <3>1, <4>1, <4>2, <1>11
    <3>3. ASSUME NEW k \in missed \ missed'
          PROVE  stored'[k] - cool'[k] < Second /\ cool'[k] - stored'[k] < Second
      <4>1. cool'[k] \in Nat /\ stored'[k] \in Nat /\ ~ (cool'[k] > 0) /\ ~ (stored'[k] > 0)
        BY <1>3, <1>5, <1>11, <2>1 DEF Tick
      <4>2. QED
        BY <4>1, <1>11
    <3>4. QED
      BY <3>2, <3>3 DEF RestartRemembers
  <2>2. CASE \E k \in Keys : QuotaExpires(k)
    BY <1>1, <2>2 DEF QuotaExpires, poolVars, RestartRemembers
  <2>3. QED
    BY <2>1, <2>2
<1>7. TypeOK'
  BY <1>1, <1>2, <1>5 DEF TypeOK
<1>8. TriesLeft' /\ LeasesKey'
  BY <1>1, <1>2 DEF TriesLeft, LeasesKey
<1>9. QED
  BY <1>6, <1>7, <1>8 DEF IInv, PoolInv

\* A new process takes up what Redis has.
LEMMA RestartInv ==
  ASSUME IInv, Restart, UNCHANGED client
  PROVE  IInv'
<1>1. TypeOK
  BY DEF IInv, PoolInv
<1>2. MaxTries' = MaxTries /\ MaxTries \in Nat /\ 0 \in Keys
  BY <1>1, KeyPoolAssumption DEF TypeOK, MaxTries, Tries, Clients, Keys
<1>3. low' \in [Keys -> SUBSET Quotas]
  BY DEF Restart, Quotas
<1>4. \A k \in Keys : /\ Told(stored[k]) \in 0..(Long + Second)
                      /\ Told(stored[k]) - stored[k] < Second /\ stored[k] - Told(stored[k]) < Second
  <2>1. \A k \in Keys : stored[k] \in 0..Long
    BY <1>1 DEF TypeOK
  <2>2. QED
    BY <2>1, ToldIsNear
<1>11. TypeOK'
  BY <1>1, <1>2, <1>3, <1>4 DEF TypeOK, Restart
<1>5. RestartRemembers' /\ TriesLeft' /\ LeasesKey'
  BY <1>4 DEF Restart, RestartRemembers, TriesLeft, LeasesKey
<1>6. QED
  BY <1>11, <1>5 DEF IInv, PoolInv

-----------------------------------------------------------------------------
(* The theorems                                                            *)

\* Every reachable state satisfies the inductive invariant.
THEOREM Invariance == Spec => []IInv
<1>1. Init => IInv
  BY InitInv
<1>2. ASSUME IInv, [Next]_vars PROVE IInv'
  <2>1. ASSUME NEW c \in Callers, Call(c) \/ CallStep(c), UNCHANGED client PROVE IInv'
    BY <1>2, <2>1, CallInv, RefusedInv DEF CallStep
  <2>2. CASE (Tick \/ \E k \in Keys : QuotaExpires(k)) /\ UNCHANGED client
    BY <1>2, <2>2, TimeInv
  <2>3. CASE Restart /\ UNCHANGED client
    BY <1>2, <2>3, RestartInv
  <2>4. CASE UNCHANGED vars
    BY <1>2, <2>4 DEF vars, poolVars, redisVars, callVars, IInv, PoolInv, TypeOK, MaxTries,
       RestartRemembers, TriesLeft, LeasesKey
  <2>5. QED
    BY <1>2, <2>1, <2>2, <2>3, <2>4 DEF Next
<1>3. QED
  BY <1>1, <1>2, PTL DEF Spec

\* What a restarted server takes up from Redis is what the pool knew, except for
\* keys of whose cooldown Redis was not told.
THEOREM PoolIsKept == Spec => []PoolInv
<1>1. IInv => PoolInv
  BY DEF IInv
<1>2. QED
  BY <1>1, Invariance, PTL

\* Wherever the calls beside it have left the pool, a call is sent with a usable
\* key if there is one.
LEMMA SendLeasesBest ==
  ASSUME IInv, [Next]_vars, NEW c \in Callers, pc[c] = "ready", pc'[c] = "sent"
  PROVE  IF \E k \in Keys : Usable(k) THEN Usable(lease'[c]) ELSE lease'[c] \in Soonest
<1>1. TypeOK
  BY DEF IInv, PoolInv
<1>2. DOMAIN pc = Callers /\ DOMAIN lease = Callers /\ idx \in Keys
  BY <1>1 DEF TypeOK
<1>3. ASSUME NEW d \in Callers, Call(d) \/ RateLimited(d) \/ Rejected(d) \/ Answered(d)
                                   \/ Broken(d) \/ Wake(d)
      PROVE  FALSE
  BY <1>2, <1>3 DEF Call, RateLimited, Rejected, Answered, Broken, Wake, Retry
<1>4. ~ (Tick \/ Restart \/ (\E k \in Keys : QuotaExpires(k)) \/ UNCHANGED vars)
  BY DEF Tick, Restart, QuotaExpires, vars, callVars
<1>5. PICK d \in Callers : Send(d)
  BY <1>3, <1>4 DEF Next, CallStep
<1>6. d = c
  BY <1>2, <1>5 DEF Send
<1>7. PICK k \in Selected : lease' = [lease EXCEPT ![c] = k]
  BY <1>5, <1>6 DEF Send
<1>8. lease'[c] = k
  BY <1>2, <1>7
<1>9. QED
  BY <1>2, <1>8, SelectedIsBest

\* A key changes by the answer to a call that was sent with it, or by a restart.
LEMMA OnlyOwnKey ==
  ASSUME IInv, [Next]_vars, NEW k \in Keys, cool'[k] > cool[k] \/ low'[k] # low[k]
  PROVE  \/ \E c \in Callers : pc[c] = "sent" /\ pc'[c] # "sent" /\ lease[c] = k
         \/ \A c \in Callers : pc'[c] = "idle"
<1>1. TypeOK
  BY DEF IInv, PoolInv
<1>2. DOMAIN pc = Callers /\ cool \in [Keys -> Nat] /\ DOMAIN low = Keys
  BY <1>1, KeyPoolAssumption DEF TypeOK
<1>3. CASE Restart
  BY <1>3 DEF Restart
<1>4. ASSUME NEW c \in Callers, RateLimited(c) \/ Rejected(c)
      PROVE  pc[c] = "sent" /\ pc'[c] # "sent" /\ lease[c] = k
  <2>1. pc[c] = "sent" /\ pc'[c] # "sent"
    BY <1>2, <1>4 DEF RateLimited, Rejected, Retry
  <2>2. PICK t : CoolDown(lease[c], t)
    BY <1>4 DEF RateLimited, Rejected
  <2>3. low' = low /\ cool' = [cool EXCEPT ![lease[c]] = t]
    BY <2>2 DEF CoolDown
  <2>4. lease[c] = k
    BY <1>2, <2>3
  <2>5. QED
    BY <2>1, <2>4
<1>5. ASSUME NEW c \in Callers, Answered(c)
      PROVE  pc[c] = "sent" /\ pc'[c] # "sent" /\ lease[c] = k
  <2>1. pc[c] = "sent" /\ pc'[c] # "sent"
    BY <1>2, <1>5 DEF Answered
  <2>2. PICK quotas \in SUBSET Quotas : UpdateFromHeaders(lease[c], quotas)
    BY <1>5 DEF Answered
  <2>3. cool' = cool /\ low' = [low EXCEPT ![lease[c]] = quotas]
    BY <2>2 DEF UpdateFromHeaders
  <2>4. lease[c] = k
    BY <1>2, <2>3
  <2>5. QED
    BY <2>1, <2>4
<1>6. ASSUME NEW c \in Callers, Call(c) \/ Send(c) \/ Broken(c) \/ Wake(c)
      PROVE  FALSE
  BY <1>2, <1>6 DEF Call, Send, Broken, Wake, poolVars
<1>7. ~ Tick
  <2>1. SUFFICES ASSUME Tick PROVE FALSE
    OBVIOUS
  <2>2. low' = low /\ cool'[k] = IF cool[k] = 0 THEN 0 ELSE cool[k] - 1
    BY <2>1 DEF Tick, Less
  <2>3. QED
    BY <1>2, <2>2
<1>8. ~ ((\E j \in Keys : QuotaExpires(j)) \/ UNCHANGED vars)
  BY <1>2 DEF QuotaExpires, vars, poolVars
<1>9. QED
  BY <1>3, <1>4, <1>5, <1>6, <1>7, <1>8 DEF Next, CallStep

\* A call is sent with the best key there is, wherever the calls beside it have
\* left the pool, and what it learns is recorded on that key and no other.
THEOREM LeasesAreOwn == Spec => LeasesHold
<1>1. IInv /\ [Next]_vars =>
        [\A c \in Callers : pc[c] = "ready" /\ pc'[c] = "sent" =>
           IF \E k \in Keys : Usable(k) THEN Usable(lease'[c]) ELSE lease'[c] \in Soonest]_vars
  BY SendLeasesBest
<1>2. IInv /\ [Next]_vars =>
        [\A k \in Keys :
           cool'[k] > cool[k] \/ low'[k] # low[k] =>
             \/ \E c \in Callers : pc[c] = "sent" /\ pc'[c] # "sent" /\ lease[c] = k
             \/ \A c \in Callers : pc'[c] = "idle"]_vars
  BY OnlyOwnKey
<1>3. Spec => LeaseIsBest
  BY <1>1, Invariance, PTL DEF Spec, LeaseIsBest
<1>4. Spec => OwnKeyOnly
  BY <1>2, Invariance, PTL DEF Spec, OwnKeyOnly
<1>5. QED
  BY <1>3, <1>4 DEF LeasesHold

-----------------------------------------------------------------------------
(* The calls before the key that works                                     *)

\* How many keys it is from k on to the key g.
Far(g, k) == IF k <= g THEN g - k ELSE g - k + N

\* The call has d keys or more before it: the pool stands there, or the call has yet to
\* say that the key it was sent with, as far from g, is refused.
Behind(g, c, d) == Far(g, idx) >= d \/ (pc[c] = "sent" /\ Far(g, lease[c]) >= d)
Trailing(g) == [d \in 1..(N - 1) |-> {c \in Callers : Behind(g, c, d)}]
Counted(T) == [d \in 1..(N - 1) |-> Cardinality(T[d])]
Standing(g) == Counted(Trailing(g))

\* Of two standings the one with fewer calls so far back that it still makes a
\* difference.
Nearer(u, v) ==
  \E d \in 1..(N - 1) : u[d] < v[d] /\ \A i \in 1..(N - 1) : d < i => u[i] = v[i]

\* The standings that cannot come again, and those with the present one.
Gone(u) == {v \in Standings : Nearer(u, v)}
Come(u) == {v \in Standings : Nearer(u, v) \/ u = v}

\* A key that works is always usable.
Unmarked == \A k \in Good : cool[k] = 0 /\ stored[k] = 0 /\ low[k] = {} /\ k \notin storedLow

\* What a call has tried is no more than the standings that are gone.
Counts(g, c) ==
  /\ pc[c] \in {"ready", "sleeping"} => tries[c] <= Cardinality(Gone(Standing(g)))
  /\ pc[c] = "sent" /\ lease[c] # g => tries[c] <= Cardinality(Come(Standing(g)))

\* The invariant behind GoodKeyServes.
Serving == Unmarked /\ (\A g \in Good, c \in Callers : Counts(g, c)) /\ GoodKeyServes

Numbers == [1..(N - 1) -> Nat]
Crowds == [1..(N - 1) -> SUBSET Callers]

\* So many keys on from a key.
LEMMA Rounded ==
  \A x \in 0..(N - 1), y \in 0..N :
    x + y < 2 * N => (x + y) % N = IF x + y < N THEN x + y ELSE x + y - N
<1> SUFFICES ASSUME NEW x \in 0..(N - 1), NEW y \in 0..N, x + y < 2 * N
             PROVE  (x + y) % N = IF x + y < N THEN x + y ELSE x + y - N
  OBVIOUS
<1>1. x \in Nat /\ y \in Nat /\ N \in Nat \ {0} /\ x + y < 2 * N
  BY KeyPoolAssumption
<1>2. QED
  BY <1>1

\* The way from a key to another is shorter than the pool.
LEMMA FarType ==
  ASSUME NEW g \in Keys, NEW k \in Keys
  PROVE  /\ Far(g, k) \in 0..(N - 1) /\ (Far(g, k) = 0 <=> k = g)
         /\ k # g => Far(g, (k + 1) % N) = Far(g, k) - 1
<1>1. N \in Nat \ {0} /\ g \in 0..(N - 1) /\ k \in 0..(N - 1)
  BY KeyPoolAssumption DEF Keys
<1>2. Far(g, k) \in 0..(N - 1) /\ (Far(g, k) = 0 <=> k = g)
  BY <1>1 DEF Far
<1>3. (k + 1) % N = IF k + 1 < N THEN k + 1 ELSE k + 1 - N
  BY <1>1, Rounded
<1>4. CASE k + 1 < N
  BY <1>1, <1>3, <1>4 DEF Far
<1>5. CASE ~ (k + 1 < N)
  <2>1. k = N - 1 /\ (k + 1) % N = 0
    BY <1>1, <1>3, <1>5
  <2>2. QED
    BY <1>1, <2>1 DEF Far
<1>6. QED
  BY <1>2, <1>4, <1>5

\* The key that is leased is no further from a usable key than the pool was.
LEMMA SelectedIsNear ==
  ASSUME idx \in Keys, NEW g \in Keys, Usable(g), NEW k \in Selected
  PROVE  k \in Keys /\ Far(g, k) <= Far(g, idx)
<1> DEFINE first == {j \in Keys : /\ Usable((idx + j) % N)
                                  /\ \A i \in 0..(j - 1) : ~ Usable((idx + i) % N)}
<1>1. N \in Nat \ {0} /\ g \in 0..(N - 1) /\ idx \in 0..(N - 1)
  BY KeyPoolAssumption DEF Keys
<1>2. first # {}
  BY FirstUsable
<1>3. PICK j \in first : k = (idx + j) % N
  BY <1>2 DEF Selected
<1>4. j \in 0..(N - 1) /\ k = IF idx + j < N THEN idx + j ELSE idx + j - N
  <2>1. j \in 0..(N - 1)
    BY <1>3 DEF Keys
  <2>2. QED
    BY <1>1, <1>3, <2>1, Rounded
<1>5. PICK w \in 0..(N - 1) : w = Far(g, idx)
  BY FarType
<1>6. (idx + w) % N = g
  <2>1. (idx + w) % N = IF idx + w < N THEN idx + w ELSE idx + w - N
    BY <1>1, Rounded
  <2>2. QED
    BY <1>1, <1>5, <2>1 DEF Far
<1>7. j <= w
  <2>1. \A i \in 0..(j - 1) : ~ Usable((idx + i) % N)
    BY <1>3
  <2>2. w \notin 0..(j - 1)
    BY <1>6, <2>1
  <2>3. QED
    BY <1>1, <1>4, <2>2
<1>8. Far(g, k) = w - j
  BY <1>1, <1>4, <1>5, <1>7 DEF Far
<1>9. QED
  BY <1>1, <1>4, <1>5, <1>7, <1>8, SelectedIsBest

-----------------------------------------------------------------------------
(* Standings                                                               *)

\* A set of places has a last one.
LEMMA Greatest ==
  ASSUME NEW T \in SUBSET (1..(N - 1)), T # {}
  PROVE  \E x \in T : \A y \in T : y <= x
<1>1. N \in Nat /\ T \subseteq Int /\ \A y \in T : N - y \in Nat
  BY KeyPoolAssumption
<1>2. PICK U : U = {N - y : y \in T}
  OBVIOUS
<1>3. U \subseteq Nat /\ U # {}
  BY <1>1, <1>2
<1>4. PICK u \in U : \A y \in U : u <= y
  BY <1>3, Least
<1>5. PICK x \in T : u = N - x
  BY <1>2, <1>4
<1>6. \A y \in T : N - x <= N - y
  BY <1>2, <1>4, <1>5
<1>7. QED
  BY <1>1, <1>6

\* A standing with no more calls anywhere is the same or nearer.
LEMMA FewerIsNearer ==
  ASSUME NEW u \in Numbers, NEW v \in Numbers, \A d \in 1..(N - 1) : u[d] <= v[d]
  PROVE  u = v \/ Nearer(u, v)
<1> DEFINE T == {d \in 1..(N - 1) : u[d] # v[d]}
<1>1. CASE T = {}
  <2>1. \A d \in 1..(N - 1) : u[d] = v[d]
    BY <1>1
  <2>2. u = [d \in 1..(N - 1) |-> u[d]] /\ v = [d \in 1..(N - 1) |-> v[d]]
    BY DEF Numbers
  <2>3. QED
    BY <2>1, <2>2
<1>2. CASE T # {}
  <2>1. PICK d \in T : \A i \in T : i <= d
    BY <1>2, Greatest
  <2>2. \A i \in 1..(N - 1) : d < i => u[i] = v[i]
    BY <2>1
  <2>3. u[d] < v[d]
    <3>1. u[d] \in Nat /\ v[d] \in Nat /\ u[d] # v[d] /\ u[d] <= v[d]
      BY <2>1 DEF Numbers
    <3>2. QED
      BY <3>1
  <2>4. QED
    BY <2>1, <2>2, <2>3 DEF Nearer
<1>3. QED
  BY <1>1, <1>2

\* Nearer is an order.
LEMMA NearerOrder ==
  ASSUME NEW u \in Numbers, NEW v \in Numbers, NEW w \in Numbers
  PROVE  ~ Nearer(u, u) /\ (Nearer(u, v) /\ Nearer(v, w) => Nearer(u, w))
<1>1. ~ Nearer(u, u)
  BY DEF Nearer, Numbers
<1>2. ASSUME Nearer(u, v), Nearer(v, w) PROVE Nearer(u, w)
  <2>1. PICK d \in 1..(N - 1) : u[d] < v[d] /\ \A i \in 1..(N - 1) : d < i => u[i] = v[i]
    BY <1>2 DEF Nearer
  <2>2. PICK e \in 1..(N - 1) : v[e] < w[e] /\ \A i \in 1..(N - 1) : e < i => v[i] = w[i]
    BY <1>2 DEF Nearer
  <2>3. /\ d \in Int /\ e \in Int /\ u[d] \in Nat /\ v[d] \in Nat /\ w[d] \in Nat
        /\ u[e] \in Nat /\ v[e] \in Nat /\ w[e] \in Nat
    BY DEF Numbers
  <2>4. CASE d < e
    <3>1. u[e] < w[e]
      BY <2>1, <2>2, <2>3, <2>4
    <3>2. \A i \in 1..(N - 1) : e < i => u[i] = w[i]
      BY <2>1, <2>2, <2>3, <2>4
    <3>3. QED
      BY <3>1, <3>2 DEF Nearer
  <2>5. CASE e < d
    <3>1. u[d] < w[d]
      BY <2>1, <2>2, <2>3, <2>5
    <3>2. \A i \in 1..(N - 1) : d < i => u[i] = w[i]
      BY <2>1, <2>2, <2>3, <2>5
    <3>3. QED
      BY <3>1, <3>2 DEF Nearer
  <2>6. CASE d = e
    <3>1. u[d] < w[d]
      BY <2>1, <2>2, <2>3, <2>6
    <3>2. \A i \in 1..(N - 1) : d < i => u[i] = w[i]
      BY <2>1, <2>2, <2>6
    <3>3. QED
      BY <3>1, <3>2 DEF Nearer
  <2>7. QED
    BY <2>3, <2>4, <2>5, <2>6
<1>3. QED
  BY <1>1, <1>2

\* There are finitely many standings, and they are numbers.
LEMMA StandingsFinite == IsFiniteSet(Standings) /\ Standings \subseteq Numbers
<1> DEFINE R == 1..(N - 1)
           K == 0..Cardinality(Callers)
<1>1. N - 1 \in Int /\ Cardinality(Callers) \in Nat
  BY KeyPoolAssumption, FS_CardinalityType
<1>2. IsFiniteSet(R) /\ IsFiniteSet(K)
  BY <1>1, FS_Interval
<1>3. Standings \subseteq [R -> K]
  BY DEF Standings
<1>4. Standings \subseteq Numbers
  BY <1>1, <1>3 DEF Numbers
<1> HIDE DEF R, K
<1>5. IsFiniteSet(SUBSET (R \X K))
  BY <1>2, FS_Product, FS_SUBSET
<1> DEFINE graph == [f \in [R -> K] |-> {<<d, f[d]>> : d \in R}]
<1>6. graph \in Injection([R -> K], SUBSET (R \X K))
  <2>1. \A f \in [R -> K] : {<<d, f[d]>> : d \in R} \in SUBSET (R \X K)
    OBVIOUS
  <2>2. ASSUME NEW f \in [R -> K], NEW h \in [R -> K], graph[f] = graph[h] PROVE f = h
    <3>1. \A d \in R : f[d] = h[d]
      <4>1. TAKE d \in R
      <4>2. <<d, f[d]>> \in {<<i, h[i]>> : i \in R}
        BY <2>2
      <4>3. QED
        BY <4>2
    <3>2. QED
      BY <3>1
  <2> HIDE DEF graph
  <2>3. graph \in [[R -> K] -> SUBSET (R \X K)]
    BY <2>1 DEF graph
  <2>4. QED
    BY <2>2, <2>3 DEF Injection, IsInjective
<1> HIDE DEF graph
<1>7. IsFiniteSet([R -> K])
  BY <1>5, <1>6, FS_Injection
<1>8. QED
  BY <1>3, <1>4, <1>7, FS_Subset

\* A set of standings has a size.
LEMMA Sizes ==
  ASSUME NEW A \in SUBSET Standings, NEW B \in SUBSET Standings
  PROVE  /\ Cardinality(A) \in Nat /\ Cardinality(B) \in Nat
         /\ Cardinality(A) <= Cardinality(Standings) /\ Cardinality(Standings) \in Nat
         /\ A \subseteq B => Cardinality(A) <= Cardinality(B)
<1>1. IsFiniteSet(A) /\ IsFiniteSet(B) /\ IsFiniteSet(Standings)
  BY StandingsFinite, FS_Subset
<1>2. QED
  BY <1>1, FS_Subset, FS_CardinalityType

\* What is gone stays gone as the calls come nearer, and when they do the present
\* standing is gone too.
LEMMA GoneGrows ==
  ASSUME NEW u \in Numbers, NEW v \in Numbers, v = u \/ Nearer(v, u)
  PROVE  /\ Cardinality(Gone(u)) <= Cardinality(Gone(v)) /\ Cardinality(Gone(v)) \in Nat
         /\ Cardinality(Come(u)) <= Cardinality(Come(v)) /\ Cardinality(Come(v)) \in Nat
         /\ Nearer(v, u) => Cardinality(Come(u)) <= Cardinality(Gone(v))
         /\ Cardinality(Gone(u)) \in Nat /\ Cardinality(Come(u)) \in Nat
<1>1. /\ Gone(u) \in SUBSET Standings /\ Gone(v) \in SUBSET Standings
      /\ Come(u) \in SUBSET Standings /\ Come(v) \in SUBSET Standings
  BY DEF Gone, Come
<1>2. \A w \in Standings : Nearer(u, w) => Nearer(v, w)
  BY StandingsFinite, NearerOrder
<1>3. Gone(u) \subseteq Gone(v) /\ Come(u) \subseteq Come(v)
  BY <1>2 DEF Gone, Come
<1>4. Nearer(v, u) => Come(u) \subseteq Gone(v)
  BY <1>2 DEF Gone, Come
<1>5. QED
  BY <1>1, <1>3, <1>4, Sizes

\* A standing that has come is one more than those that were gone.
LEMMA ComeCounts ==
  ASSUME NEW u \in Numbers, NEW v \in Standings, v = u \/ Nearer(v, u)
  PROVE  Cardinality(Gone(u)) + 1 <= Cardinality(Come(v))
<1>1. v \in Numbers /\ IsFiniteSet(Standings)
  BY StandingsFinite
<1>2. Gone(u) \in SUBSET Standings /\ Come(v) \in SUBSET Standings
  BY DEF Gone, Come
<1>3. v \notin Gone(u)
  <2>1. ~ Nearer(u, u) /\ ~ (Nearer(u, v) /\ Nearer(v, u))
    BY <1>1, NearerOrder
  <2>2. QED
    BY <2>1 DEF Gone
<1>4. Gone(u) \cup {v} \subseteq Come(v)
  <2>1. \A w \in Standings : Nearer(u, w) => Nearer(v, w)
    BY <1>1, StandingsFinite, NearerOrder
  <2>2. QED
    BY <2>1 DEF Gone, Come
<1>5. IsFiniteSet(Gone(u))
  BY <1>1, <1>2, FS_Subset
<1>6. Cardinality(Gone(u) \cup {v}) = Cardinality(Gone(u)) + 1
  BY <1>3, <1>5, FS_AddElement
<1>7. Gone(u) \cup {v} \in SUBSET Standings
  BY <1>2
<1>8. Cardinality(Gone(u) \cup {v}) <= Cardinality(Come(v))
  BY <1>2, <1>4, <1>7, Sizes
<1>9. QED
  BY <1>6, <1>8

\* Calls can be counted.
LEMMA CountedType ==
  ASSUME NEW T \in Crowds
  PROVE  /\ Counted(T) \in Numbers
         /\ N > 1 /\ T[1] = Callers /\ (\A i, j \in 1..(N - 1) : i <= j => T[j] \subseteq T[i])
              => Counted(T) \in Standings
<1>1. \A d \in 1..(N - 1) : T[d] \in SUBSET Callers
  BY DEF Crowds
<1>2. /\ IsFiniteSet(Callers) /\ Cardinality(Callers) \in Nat
      /\ \A d \in 1..(N - 1) : /\ IsFiniteSet(T[d]) /\ Cardinality(T[d]) \in Nat
                               /\ Cardinality(T[d]) <= Cardinality(Callers)
  BY <1>1, KeyPoolAssumption, FS_Subset, FS_CardinalityType
<1>3. Counted(T) \in Numbers
  BY <1>2 DEF Counted, Numbers
<1>4. ASSUME N > 1, T[1] = Callers, \A i, j \in 1..(N - 1) : i <= j => T[j] \subseteq T[i]
      PROVE  Counted(T) \in Standings
  <2>1. Counted(T) \in [1..(N - 1) -> 0..Cardinality(Callers)]
    BY <1>2 DEF Counted
  <2>2. Counted(T)[1] = Cardinality(Callers)
    BY <1>4, KeyPoolAssumption DEF Counted
  <2>3. ASSUME NEW i \in 1..(N - 1), NEW j \in 1..(N - 1), i <= j
        PROVE  Counted(T)[j] <= Counted(T)[i]
    <3>1. T[j] \in SUBSET T[i] /\ IsFiniteSet(T[i])
      BY <1>2, <1>4, <2>3
    <3>2. Cardinality(T[j]) <= Cardinality(T[i])
      BY <3>1, FS_Subset
    <3>3. QED
      BY <3>2 DEF Counted
  <2>4. QED
    BY <1>4, <2>1, <2>2, <2>3 DEF Standings
<1>5. QED
  BY <1>3, <1>4

\* When no call falls back, the standing is the same or nearer.
LEMMA NoneFallBack ==
  ASSUME NEW T \in Crowds, NEW V \in Crowds, \A d \in 1..(N - 1) : T[d] \subseteq V[d]
  PROVE  Counted(T) = Counted(V) \/ Nearer(Counted(T), Counted(V))
<1>1. ASSUME NEW d \in 1..(N - 1) PROVE Counted(T)[d] <= Counted(V)[d]
  <2>1. T[d] \in SUBSET V[d] /\ V[d] \in SUBSET Callers
    BY DEF Crowds
  <2>2. Cardinality(T[d]) <= Cardinality(V[d])
    BY <2>1, KeyPoolAssumption, FS_Subset
  <2>3. QED
    BY <2>2 DEF Counted
<1>2. QED
  BY <1>1, CountedType, FewerIsNearer

\* When the furthest back of those that move come nearer, so is the standing.
LEMMA LastComesNearer ==
  ASSUME NEW T \in Crowds, NEW V \in Crowds, NEW m \in 1..(N - 1),
         T[m] \subseteq V[m], T[m] # V[m], \A i \in 1..(N - 1) : m < i => T[i] = V[i]
  PROVE  Nearer(Counted(T), Counted(V))
<1>1. T[m] \in SUBSET V[m] /\ V[m] \in SUBSET Callers
  BY DEF Crowds
<1>2. IsFiniteSet(V[m]) /\ IsFiniteSet(T[m])
  BY <1>1, KeyPoolAssumption, FS_Subset
<1>3. /\ Cardinality(T[m]) <= Cardinality(V[m]) /\ Cardinality(T[m]) # Cardinality(V[m])
      /\ Cardinality(T[m]) \in Nat /\ Cardinality(V[m]) \in Nat
  BY <1>1, <1>2, FS_Subset, FS_CardinalityType
<1>4. Cardinality(T[m]) < Cardinality(V[m])
  BY <1>3
<1>5. Counted(T)[m] < Counted(V)[m]
  BY <1>4 DEF Counted
<1>6. \A i \in 1..(N - 1) : m < i => Counted(T)[i] = Counted(V)[i]
  BY DEF Counted
<1>7. QED
  BY <1>5, <1>6 DEF Nearer

-----------------------------------------------------------------------------
(* What each step does to the standing                                     *)

\* The calls that are d keys back are some of the calls.
LEMMA TrailingType ==
  ASSUME NEW g
  PROVE  /\ Trailing(g) \in Crowds /\ Trailing(g)' \in Crowds
         /\ \A d \in 1..(N - 1) : /\ Trailing(g)[d] = {c \in Callers : Behind(g, c, d)}
                                  /\ Trailing(g)'[d] = {c \in Callers : Behind(g, c, d)'}
         /\ Standing(g) \in Numbers /\ Standing(g)' \in Numbers
<1>1. Trailing(g) \in Crowds /\ Trailing(g)' \in Crowds
  BY DEF Trailing, Crowds
<1>2. Standing(g) = Counted(Trailing(g)) /\ Standing(g)' = Counted(Trailing(g)')
  BY DEF Standing, Counted
<1>3. Standing(g) \in Numbers /\ Standing(g)' \in Numbers
  BY <1>1, <1>2, CountedType
<1>4. QED
  BY <1>1, <1>3 DEF Trailing

\* A pool that does not move, or moves nearer, with no call sent further away.
LEMMA StandingKept ==
  ASSUME NEW g, \A c \in Callers, d \in 1..(N - 1) : Behind(g, c, d)' => Behind(g, c, d)
  PROVE  Standing(g)' = Standing(g) \/ Nearer(Standing(g)', Standing(g))
<1>1. PICK T \in Crowds, V \in Crowds : T = Trailing(g)' /\ V = Trailing(g)
  BY TrailingType
<1>2. \A d \in 1..(N - 1) : T[d] \subseteq V[d]
  BY <1>1, TrailingType
<1>3. Counted(T) = Counted(V) \/ Nearer(Counted(T), Counted(V))
  BY <1>2, NoneFallBack
<1>4. Standing(g) = Counted(V) /\ Standing(g)' = Counted(T)
  BY <1>1 DEF Standing, Counted
<1>5. QED
  BY <1>3, <1>4

\* A call is sent with a key that is no further than the pool was; if that is not g
\* itself, every call has now a key before it.
LEMMA SendNears ==
  ASSUME IInv, Unmarked, NEW g \in Good, NEW c \in Callers, Send(c)
  PROVE  /\ Standing(g)' = Standing(g) \/ Nearer(Standing(g)', Standing(g))
         /\ lease'[c] # g => Standing(g)' \in Standings
<1>1. /\ idx \in Keys /\ g \in Keys /\ N \in Nat \ {0}
      /\ lease \in [Callers -> Keys \cup {None}] /\ DOMAIN pc = Callers
  BY KeyPoolAssumption DEF IInv, PoolInv, TypeOK
<1>2. Usable(g)
  BY DEF Unmarked, Usable
<1>3. PICK k \in Selected : idx' = k /\ lease' = [lease EXCEPT ![c] = k]
  BY DEF Send
<1>4. k \in Keys /\ Far(g, k) <= Far(g, idx)
  BY <1>1, <1>2, SelectedIsNear
<1>5. Far(g, idx) \in Int /\ Far(g, k) \in Int /\ (k # g => Far(g, k) >= 1 /\ N > 1)
  BY <1>1, <1>4, FarType
<1>6. pc' = [pc EXCEPT ![c] = "sent"] /\ pc[c] = "ready"
  BY DEF Send
<1>7. ASSUME NEW x \in Callers, NEW d \in 1..(N - 1)
      PROVE  Behind(g, x, d)' => Behind(g, x, d)
  <2>1. Far(g, idx') >= d => Far(g, idx) >= d
    BY <1>1, <1>3, <1>4, <1>5
  <2>2. CASE x = c
    <3>1. lease'[x] = idx'
      BY <1>1, <1>3, <2>2
    <3>2. QED
      BY <2>1, <3>1 DEF Behind
  <2>3. CASE x # c
    <3>1. pc'[x] = pc[x] /\ lease'[x] = lease[x]
      BY <1>1, <1>3, <1>6, <2>3
    <3>2. QED
      BY <2>1, <3>1 DEF Behind
  <2>4. QED
    BY <2>2, <2>3
<1>8. ASSUME lease'[c] # g PROVE Standing(g)' \in Standings
  <2>1. Far(g, idx') >= 1 /\ N > 1 /\ Far(g, idx') \in Int
    BY <1>1, <1>3, <1>5, <1>8
  <2>2. PICK T \in Crowds : T = Trailing(g)'
    BY TrailingType
  <2>3. T[1] = Callers
    <3>1. 1 \in 1..(N - 1)
      BY <1>1, <2>1
    <3>2. T[1] = {x \in Callers : Behind(g, x, 1)'}
      BY <2>2, <3>1, TrailingType
    <3>3. \A x \in Callers : Behind(g, x, 1)'
      BY <2>1 DEF Behind
    <3>4. QED
      BY <3>2, <3>3
  <2>4. ASSUME NEW i \in 1..(N - 1), NEW j \in 1..(N - 1), i <= j PROVE T[j] \subseteq T[i]
    <3>1. \A x \in Callers : Behind(g, x, j)' => Behind(g, x, i)'
      <4>1. TAKE x \in Callers
      <4>2. Far(g, idx') >= j => Far(g, idx') >= i
        BY <2>1, <2>4
      <4>3. CASE x = c
        BY <1>1, <1>3, <4>2, <4>3 DEF Behind
      <4>4. CASE x # c
        <5>1. pc'[x] = pc[x] /\ lease'[x] = lease[x]
          BY <1>1, <1>3, <1>6, <4>4
        <5>2. pc[x] = "sent" => Far(g, lease[x]) \in Int
          BY <1>1, FarType DEF IInv, LeasesKey
        <5>3. QED
          BY <2>4, <4>2, <5>1, <5>2 DEF Behind
      <4>5. QED
        BY <4>3, <4>4
    <3>2. QED
      BY <2>2, <3>1, TrailingType
  <2>5. Counted(T) \in Standings
    BY <2>1, <2>3, <2>4, CountedType
  <2>6. QED
    BY <2>2, <2>5 DEF Standing, Counted
<1>9. QED
  BY <1>7, <1>8, StandingKept

\* A refusal brings the calls nearer, however late it is recorded.
LEMMA RefusalNears ==
  ASSUME IInv, NEW g \in Keys, NEW c \in Callers, pc[c] = "sent", lease[c] # g,
         pc'[c] # "sent", lease' = lease, idx' = (lease[c] + 1) % N,
         \A x \in Callers : x # c => pc'[x] = pc[x]
  PROVE  Nearer(Standing(g)', Standing(g))
<1>1. lease[c] \in Keys /\ idx \in Keys /\ N \in Nat \ {0}
  BY KeyPoolAssumption DEF IInv, PoolInv, TypeOK, LeasesKey
<1>2. PICK e \in 1..(N - 1) : e = Far(g, lease[c]) /\ Far(g, idx') = e - 1
  BY <1>1, FarType
<1>3. PICK f \in 0..(N - 1) : f = Far(g, idx)
  BY <1>1, FarType
<1>4. PICK m \in 1..(N - 1) : m = IF f >= e THEN f ELSE e
  BY <1>2, <1>3
<1>5. ASSUME NEW x \in Callers, NEW d \in 1..(N - 1), m <= d, x # c
      PROVE  /\ Behind(g, x, d)' => Behind(g, x, d)
             /\ m < d => (Behind(g, x, d)' <=> Behind(g, x, d))
  <2>1. ~ (Far(g, idx') >= d)
    BY <1>1, <1>2, <1>3, <1>4, <1>5
  <2>2. m < d => ~ (Far(g, idx) >= d)
    BY <1>1, <1>2, <1>3, <1>4, <1>5
  <2>3. QED
    BY <1>5, <2>1, <2>2 DEF Behind
<1>6. Behind(g, c, m)
  BY <1>1, <1>2, <1>3, <1>4 DEF Behind
<1>7. ASSUME NEW d \in 1..(N - 1), m <= d PROVE ~ Behind(g, c, d)'
  <2>1. ~ (Far(g, idx') >= d)
    BY <1>1, <1>2, <1>3, <1>4, <1>7
  <2>2. QED
    BY <2>1 DEF Behind
<1>8. ASSUME NEW d \in 1..(N - 1), m < d PROVE ~ Behind(g, c, d)
  <2>1. ~ (Far(g, idx) >= d) /\ ~ (Far(g, lease[c]) >= d)
    BY <1>1, <1>2, <1>3, <1>4, <1>8
  <2>2. QED
    BY <2>1 DEF Behind
<1>9. PICK T \in Crowds, V \in Crowds : T = Trailing(g)' /\ V = Trailing(g)
  BY TrailingType
<1>10. m <= m /\ \A d \in 1..(N - 1) : m < d => m <= d
  BY <1>1
<1>11. T[m] \subseteq V[m] /\ c \in V[m] /\ c \notin T[m]
  BY <1>5, <1>6, <1>7, <1>9, <1>10, TrailingType
<1>12. ASSUME NEW d \in 1..(N - 1), m < d PROVE T[d] = V[d]
  <2>1. \A x \in Callers : Behind(g, x, d)' <=> Behind(g, x, d)
    BY <1>5, <1>7, <1>8, <1>10, <1>12
  <2>2. /\ T[d] = {x \in Callers : Behind(g, x, d)'}
        /\ V[d] = {x \in Callers : Behind(g, x, d)}
    BY <1>9, TrailingType
  <2>3. QED
    BY <2>1, <2>2
<1>13. Nearer(Counted(T), Counted(V))
  BY <1>11, <1>12, LastComesNearer
<1>14. QED
  BY <1>9, <1>13 DEF Standing, Counted

-----------------------------------------------------------------------------
(* The key that works serves                                               *)

\* A key that works stays usable: it is refused to none, and is never low.
LEMMA StaysFresh ==
  ASSUME IInv, Unmarked, Next
  PROVE  Unmarked'
<1>1. /\ cool \in [Keys -> 0..(Long + Second)] /\ stored \in [Keys -> 0..Long] /\ DOMAIN low = Keys
      /\ Good \subseteq Keys
  BY KeyPoolAssumption DEF IInv, PoolInv, TypeOK
<1>2. SUFFICES ASSUME NEW k \in Good
               PROVE  cool'[k] = 0 /\ stored'[k] = 0 /\ low'[k] = {} /\ k \notin storedLow'
  BY DEF Unmarked
<1>3. /\ cool[k] = 0 /\ stored[k] = 0 /\ low[k] = {} /\ k \notin storedLow /\ k \in Keys
  BY <1>1 DEF Unmarked
<1>4. ASSUME NEW c \in Callers, RateLimited(c) \/ Rejected(c)
      PROVE  cool'[k] = 0 /\ stored'[k] = 0 /\ low'[k] = {} /\ k \notin storedLow'
  <2>1. PICK t : CoolDown(lease[c], t)
    BY <1>4 DEF RateLimited, Rejected
  <2>2. lease[c] # k
    BY <1>4 DEF RateLimited, Rejected
  <2>3. /\ cool' = [cool EXCEPT ![lease[c]] = t] /\ UNCHANGED <<low, storedLow>>
        /\ stored' = stored \/ stored' = [stored EXCEPT ![lease[c]] = Seconds(t)]
    BY <2>1 DEF CoolDown, PersistCooldown
  <2>4. QED
    BY <1>1, <1>3, <2>2, <2>3
<1>5. ASSUME NEW c \in Callers, Answered(c)
      PROVE  cool'[k] = 0 /\ stored'[k] = 0 /\ low'[k] = {} /\ k \notin storedLow'
  <2>1. PICK quotas \in SUBSET Quotas :
          (lease[c] \in Good => quotas = {}) /\ UpdateFromHeaders(lease[c], quotas)
    BY <1>5 DEF Answered
  <2>2. /\ low' = [low EXCEPT ![lease[c]] = quotas] /\ UNCHANGED <<cool, stored>>
        /\ storedLow' \subseteq storedLow \cup (IF "tokens" \in quotas THEN {lease[c]} ELSE {})
    BY <2>1 DEF UpdateFromHeaders
  <2>3. CASE lease[c] = k
    <3>1. quotas = {}
      BY <2>1, <2>3
    <3>2. QED
      BY <1>1, <1>3, <2>2, <2>3, <3>1
  <2>4. CASE lease[c] # k
    BY <1>1, <1>3, <2>2, <2>4
  <2>5. QED
    BY <2>3, <2>4
<1>6. ASSUME NEW c \in Callers, Call(c) \/ Send(c) \/ Broken(c) \/ Wake(c)
      PROVE  cool'[k] = 0 /\ stored'[k] = 0 /\ low'[k] = {} /\ k \notin storedLow'
  BY <1>3, <1>6 DEF Call, Send, Broken, Wake, poolVars, redisVars
<1>7. CASE Tick
  BY <1>3, <1>7 DEF Tick, Less
<1>8. CASE \E j \in Keys : QuotaExpires(j)
  BY <1>3, <1>8 DEF QuotaExpires, poolVars
<1>9. CASE Restart
  <2>1. stored[k] \in 0..Long
    BY <1>1, <1>3
  <2>2. Told(stored[k]) = 0
    BY <1>3, <2>1, ToldIsNear
  <2>3. QED
    BY <1>1, <1>3, <1>9, <2>2 DEF Restart
<1>10. QED
  BY <1>4, <1>5, <1>6, <1>7, <1>8, <1>9 DEF Next, CallStep

\* What a refusal changes.
LEMMA Refused ==
  ASSUME IInv, NEW c \in Callers, RateLimited(c) \/ Rejected(c)
  PROVE  /\ pc[c] = "sent" /\ lease[c] \notin Good /\ UNCHANGED <<lease, tries>>
         /\ pc'[c] \in {"ready", "sleeping", "exhausted"}
         /\ pc'[c] = "exhausted" => tries[c] = MaxTries
         /\ idx' = (lease[c] + 1) % N
         /\ \A x \in Callers : x # c => pc'[x] = pc[x]
<1>1. DOMAIN pc = Callers
  BY DEF IInv, PoolInv, TypeOK
<1>2. PICK pauses : Retry(c, pauses)
  BY DEF RateLimited, Rejected
<1>3. PICK t : CoolDown(lease[c], t)
  BY DEF RateLimited, Rejected
<1>4. pc' = [pc EXCEPT ![c] = IF tries[c] = MaxTries THEN "exhausted"
                             ELSE IF pauses THEN "sleeping" ELSE "ready"]
  BY <1>2 DEF Retry
<1>5. idx' = (lease[c] + 1) % N
  BY <1>3 DEF CoolDown
<1>6. QED
  BY <1>1, <1>2, <1>4, <1>5 DEF Retry, RateLimited, Rejected

\* No step but a restart takes the calls back to where they have been.
LEMMA StandingNears ==
  ASSUME IInv, Unmarked, NEW g \in Good, Next, ~ Restart
  PROVE  Standing(g)' = Standing(g) \/ Nearer(Standing(g)', Standing(g))
<1>1. g \in Keys /\ DOMAIN pc = Callers /\ DOMAIN lease = Callers
  BY KeyPoolAssumption DEF IInv, PoolInv, TypeOK
<1>2. ASSUME NEW c \in Callers, Send(c)
      PROVE  Standing(g)' = Standing(g) \/ Nearer(Standing(g)', Standing(g))
  BY <1>2, SendNears
<1>3. ASSUME NEW c \in Callers, RateLimited(c) \/ Rejected(c)
      PROVE  Nearer(Standing(g)', Standing(g))
  <2>1. /\ pc[c] = "sent" /\ lease[c] # g /\ lease' = lease /\ pc'[c] # "sent"
        /\ idx' = (lease[c] + 1) % N /\ \A x \in Callers : x # c => pc'[x] = pc[x]
    BY <1>3, Refused
  <2>2. QED
    BY <1>1, <2>1, RefusalNears
<1>4. ASSUME NEW c \in Callers, Call(c) \/ Answered(c) \/ Broken(c) \/ Wake(c)
      PROVE  \A x \in Callers, d \in 1..(N - 1) : Behind(g, x, d)' => Behind(g, x, d)
  <2>1. idx' = idx
    BY <1>4 DEF Call, Answered, Broken, Wake, UpdateFromHeaders, poolVars
  <2>2. pc'[c] # "sent" /\ \A x \in Callers : x # c => pc'[x] = pc[x] /\ lease'[x] = lease[x]
    BY <1>1, <1>4 DEF Call, Answered, Broken, Wake
  <2>3. QED
    BY <2>1, <2>2 DEF Behind
<1>5. ASSUME Tick \/ (\E k \in Keys : QuotaExpires(k))
      PROVE  \A x \in Callers, d \in 1..(N - 1) : Behind(g, x, d)' => Behind(g, x, d)
  <2>1. UNCHANGED <<idx, pc, lease>>
    BY <1>5 DEF Tick, QuotaExpires, poolVars, callVars
  <2>2. QED
    BY <2>1 DEF Behind
<1>6. QED
  BY <1>2, <1>3, <1>4, <1>5, StandingKept DEF Next, CallStep

\* A call has tried no more often than standings have gone.
LEMMA CountsKept ==
  ASSUME IInv, Unmarked, NEW g \in Good, NEW c \in Callers, Counts(g, c), Next
  PROVE  Counts(g, c)'
<1>1. /\ g \in Keys /\ DOMAIN pc = Callers /\ DOMAIN lease = Callers
      /\ tries \in [Callers -> Nat]
  <2>1. MaxTries \in Nat
    BY KeyPoolAssumption DEF IInv, PoolInv, TypeOK, MaxTries, Tries, Clients
  <2>2. QED
    BY <2>1, KeyPoolAssumption DEF IInv, PoolInv, TypeOK
<1>2. PICK u \in Numbers, v \in Numbers : u = Standing(g) /\ v = Standing(g)'
  BY TrailingType
<1>3. Cardinality(Gone(v)) \in Nat /\ Cardinality(Come(v)) \in Nat
  BY GoneGrows
<1>4. CASE Restart
  BY <1>4 DEF Restart, Counts
<1>5. CASE ~ Restart
  <2>1. v = u \/ Nearer(v, u)
    BY <1>2, <1>5, StandingNears
  <2>2. /\ Cardinality(Gone(u)) <= Cardinality(Gone(v)) /\ Cardinality(Come(u)) <= Cardinality(Come(v))
        /\ Nearer(v, u) => Cardinality(Come(u)) <= Cardinality(Gone(v))
        /\ Cardinality(Gone(u)) \in Nat /\ Cardinality(Come(u)) \in Nat
    BY <2>1, GoneGrows
  <2>3. /\ pc[c] \in {"ready", "sleeping"} => tries[c] <= Cardinality(Gone(u))
        /\ pc[c] = "sent" /\ lease[c] # g => tries[c] <= Cardinality(Come(u))
    BY <1>2 DEF Counts
  <2>4. SUFFICES /\ pc'[c] \in {"ready", "sleeping"} => tries'[c] <= Cardinality(Gone(v))
                 /\ pc'[c] = "sent" /\ lease'[c] # g => tries'[c] <= Cardinality(Come(v))
    BY <1>2 DEF Counts, Gone, Come
  <2>5. CASE Call(c)
    <3>1. pc'[c] = "ready" /\ tries'[c] = 0
      BY <1>1, <2>5 DEF Call
    <3>2. QED
      BY <1>3, <3>1
  <2>6. CASE Send(c)
    <3>1. pc[c] = "ready" /\ pc'[c] = "sent" /\ tries'[c] = tries[c] + 1 /\ tries[c] \in Nat
      BY <1>1, <2>6 DEF Send
    <3>2. lease'[c] # g => v \in Standings
      BY <1>2, <2>6, SendNears
    <3>3. lease'[c] # g => Cardinality(Gone(u)) + 1 <= Cardinality(Come(v))
      BY <2>1, <3>2, ComeCounts
    <3>4. QED
      BY <1>3, <2>2, <2>3, <3>1, <3>3
  <2>7. CASE RateLimited(c) \/ Rejected(c)
    <3>1. /\ pc[c] = "sent" /\ lease[c] # g /\ tries' = tries /\ lease' = lease /\ pc'[c] # "sent"
          /\ idx' = (lease[c] + 1) % N /\ \A x \in Callers : x # c => pc'[x] = pc[x]
      BY <2>7, Refused
    <3>2. Nearer(v, u)
      BY <1>1, <1>2, <3>1, RefusalNears
    <3>3. tries[c] \in Nat
      BY <1>1
    <3>4. QED
      BY <1>3, <2>2, <2>3, <3>1, <3>2, <3>3
  <2>8. CASE Answered(c) \/ Broken(c)
    <3>1. pc'[c] \in {"served", "broken"}
      BY <1>1, <2>8 DEF Answered, Broken
    <3>2. QED
      BY <3>1
  <2>9. CASE \/ Wake(c) \/ Tick \/ (\E k \in Keys : QuotaExpires(k))
             \/ \E x \in Callers : x # c /\ (Call(x) \/ CallStep(x))
    <3>1. /\ pc'[c] = pc[c] \/ (pc[c] = "sleeping" /\ pc'[c] = "ready")
          /\ tries'[c] = tries[c] /\ lease'[c] = lease[c]
      <4>1. CASE Wake(c) \/ Tick \/ (\E k \in Keys : QuotaExpires(k))
        BY <1>1, <4>1 DEF Wake, Tick, QuotaExpires, callVars
      <4>2. ASSUME NEW x \in Callers, x # c, Call(x) \/ CallStep(x)
            PROVE  pc'[c] = pc[c] /\ tries'[c] = tries[c] /\ lease'[c] = lease[c]
        <5>1. CASE RateLimited(x) \/ Rejected(x)
          BY <4>2, <5>1, Refused
        <5>2. CASE Call(x) \/ Send(x) \/ Answered(x) \/ Broken(x) \/ Wake(x)
          BY <1>1, <4>2, <5>2 DEF Call, Send, Answered, Broken, Wake
        <5>3. QED
          BY <4>2, <5>1, <5>2 DEF CallStep
      <4>3. QED
        BY <2>9, <4>1, <4>2
    <3>2. tries[c] \in Nat
      BY <1>1
    <3>3. QED
      BY <1>3, <2>2, <2>3, <3>1, <3>2
  <2>10. QED
    BY <1>5, <2>5, <2>6, <2>7, <2>8, <2>9 DEF Next, CallStep
<1>6. QED
  BY <1>4, <1>5

\* A call that runs out of tries has tried as often as there are standings at most.
LEMMA NoneRunsOut ==
  ASSUME IInv, Serving, Next, UNCHANGED client
  PROVE  GoodKeyServes'
<1>1. MaxTries' = MaxTries /\ MaxTries \in Nat /\ DOMAIN pc = Callers
  BY KeyPoolAssumption DEF IInv, PoolInv, TypeOK, MaxTries, Tries, Clients
<1>2. SUFFICES ASSUME Good # {}, Cardinality(Standings) < MaxTries, NEW c \in Callers,
                      pc'[c] = "exhausted"
               PROVE  FALSE
  BY <1>1 DEF GoodKeyServes
<1>3. PICK g \in Good : TRUE
  BY <1>2
<1>4. pc[c] # "exhausted"
  BY <1>2 DEF Serving, GoodKeyServes
<1>5. ASSUME NEW x \in Callers, RateLimited(x) \/ Rejected(x) PROVE x = c
  <2>1. x # c => pc'[c] = pc[c]
    BY <1>5, Refused
  <2>2. QED
    BY <1>2, <1>4, <2>1
<1>6. ASSUME NEW x \in Callers, Call(x) \/ Send(x) \/ Answered(x) \/ Broken(x) \/ Wake(x)
      PROVE  FALSE
  BY <1>1, <1>2, <1>4, <1>6 DEF Call, Send, Answered, Broken, Wake
<1>7. ~ (Tick \/ Restart \/ \E k \in Keys : QuotaExpires(k))
  BY <1>2, <1>4 DEF Tick, Restart, QuotaExpires, callVars
<1>8. RateLimited(c) \/ Rejected(c)
  BY <1>5, <1>6, <1>7 DEF Next, CallStep
<1>9. pc[c] = "sent" /\ lease[c] # g /\ tries[c] = MaxTries
  BY <1>2, <1>8, Refused
<1>10. tries[c] <= Cardinality(Come(Standing(g)))
  BY <1>9 DEF Serving, Counts
<1>11. Come(Standing(g)) \in SUBSET Standings
  BY DEF Come
<1>12. /\ Cardinality(Come(Standing(g))) <= Cardinality(Standings)
       /\ Cardinality(Come(Standing(g))) \in Nat /\ Cardinality(Standings) \in Nat
  BY <1>11, Sizes
<1>13. QED
  BY <1>1, <1>2, <1>9, <1>10, <1>12

\* While one key works no call runs out of tries, for any number of keys and of calls
\* beside it, if it has more tries than there are standings.
THEOREM WorkingKeyServes == Spec => []GoodKeyServes
<1>1. Init => Serving
  BY KeyPoolAssumption DEF Init, Serving, Unmarked, Counts, GoodKeyServes
<1>2. IInv /\ Serving /\ [Next]_vars => Serving'
  <2> SUFFICES ASSUME IInv, Serving, [Next]_vars PROVE Serving'
    OBVIOUS
  <2>1. CASE Next
    <3>1. UNCHANGED client
      BY <2>1 DEF Next
    <3>2. Unmarked' /\ GoodKeyServes'
      BY <2>1, <3>1, StaysFresh, NoneRunsOut DEF Serving
    <3>3. ASSUME NEW g \in Good, NEW c \in Callers PROVE Counts(g, c)'
      BY <2>1, CountsKept DEF Serving
    <3>4. QED
      BY <3>2, <3>3 DEF Serving
  <2>2. CASE UNCHANGED vars
    <3>1. UNCHANGED <<idx, cool, low, stored, storedLow, client, pc, lease, tries>>
      BY <2>2 DEF vars, poolVars, redisVars, callVars
    <3>2. Unmarked' /\ GoodKeyServes'
      BY <3>1 DEF Serving, Unmarked, GoodKeyServes, MaxTries
    <3>3. ASSUME NEW g \in Good, NEW c \in Callers PROVE Counts(g, c)'
      <4>1. Counts(g, c)
        BY DEF Serving
      <4>2. QED
        BY <3>1, <4>1 DEF Counts, Standing, Counted, Trailing, Behind
    <3>4. QED
      BY <3>2, <3>3 DEF Serving
  <2>3. QED
    BY <2>1, <2>2
<1>3. Serving => GoodKeyServes
  BY DEF Serving
<1>4. QED
  BY <1>1, <1>2, <1>3, Invariance, PTL DEF Spec

-----------------------------------------------------------------------------
\* ReplyStream: texts

\* A set of numbers that has 0 and with each number the next has them all.
LEMMA EveryNumber ==
  ASSUME NEW P, 0 \in P, \A n \in Nat : n \in P => n + 1 \in P
  PROVE  Nat \subseteq P
<1> DEFINE T == Nat \ P
<1>1. SUFFICES ASSUME T # {} PROVE FALSE
  OBVIOUS
<1>2. PICK n \in T : \A m \in T : n <= m
  BY <1>1, Least
<1>3. n \in Nat /\ n \notin P /\ n # 0
  OBVIOUS
<1>4. n - 1 \in Nat /\ ~ (n <= n - 1) /\ (n - 1) + 1 = n
  BY <1>3
<1>5. n - 1 \in P
  BY <1>2, <1>4
<1>6. QED
  BY <1>3, <1>4, <1>5

\* A function can be applied again and again.
LEMMA Iterates ==
  ASSUME NEW S, NEW a \in S, NEW f \in [S -> S]
  PROVE  \E w \in [Nat -> S] : w[0] = a /\ \A n \in Nat : w[n + 1] = f[w[n]]
<1> DEFINE Goes(g, n) == g[0] = a /\ \A k \in 0..n : k # n => g[k + 1] = f[g[k]]
           P == {n \in Nat : \E g \in [0..n -> S] : Goes(g, n)}
<1>1. Nat \subseteq P
  <2>1. 0 \in P
    <3> DEFINE g == [k \in 0..0 |-> a]
    <3>1. g \in [0..0 -> S] /\ g[0] = a
      OBVIOUS
    <3>2. \A k \in 0..0 : k = 0
      OBVIOUS
    <3>3. Goes(g, 0)
      BY <3>1, <3>2
    <3>4. QED
      BY <3>1, <3>3
  <2>2. ASSUME NEW n \in Nat, n \in P PROVE n + 1 \in P
    <3>1. PICK g \in [0..n -> S] : Goes(g, n)
      BY <2>2
    <3> DEFINE h == [k \in 0..(n + 1) |-> IF k = n + 1 THEN f[g[n]] ELSE g[k]]
    <3>2. n \in 0..n /\ g[n] \in S /\ f[g[n]] \in S
      OBVIOUS
    <3>3. \A k \in 0..(n + 1) : k # n + 1 => k \in 0..n
      OBVIOUS
    <3>4. h \in [0..(n + 1) -> S]
      BY <3>2, <3>3
    <3>5. Goes(h, n + 1)
      <4>1. h[0] = a
        BY <3>1
      <4>2. ASSUME NEW k \in 0..(n + 1), k # n + 1 PROVE h[k + 1] = f[h[k]]
        <5>1. CASE k = n
          BY <5>1
        <5>2. CASE k # n
          <6>1. k \in 0..n /\ k + 1 \in 0..n /\ k + 1 # n + 1 /\ k + 1 \in 0..(n + 1)
            BY <4>2, <5>2
          <6>2. h[k + 1] = g[k + 1] /\ h[k] = g[k]
            BY <4>2, <6>1
          <6>3. QED
            BY <3>1, <5>2, <6>1, <6>2
        <5>3. QED
          BY <5>1, <5>2
      <4>3. QED
        BY <4>1, <4>2
    <3>6. QED
      BY <3>4, <3>5
  <2> HIDE DEF P
  <2>3. QED
    BY <2>1, <2>2, EveryNumber
<1>2. ASSUME NEW m \in Nat, NEW n \in Nat, m <= n,
             NEW g \in [0..m -> S], Goes(g, m), NEW h \in [0..n -> S], Goes(h, n)
      PROVE  g[m] = h[m]
  <2> DEFINE Q == {k \in Nat : k <= m => g[k] = h[k]}
  <2>1. 0 \in Q
    BY <1>2
  <2>2. ASSUME NEW k \in Nat, k \in Q PROVE k + 1 \in Q
    <3>1. SUFFICES ASSUME k + 1 <= m PROVE g[k + 1] = h[k + 1]
      OBVIOUS
    <3>2. k \in 0..m /\ k # m /\ k \in 0..n /\ k # n /\ k <= m
      BY <1>2, <3>1
    <3>3. g[k] = h[k]
      BY <2>2, <3>2
    <3>4. QED
      BY <1>2, <3>2, <3>3
  <2>3. Nat \subseteq Q
    <3> HIDE DEF Q
    <3>1. QED
      BY <2>1, <2>2, EveryNumber
  <2>4. QED
    BY <2>3
<1> DEFINE G(n) == CHOOSE g \in [0..n -> S] : Goes(g, n)
           w == [n \in Nat |-> G(n)[n]]
<1>3. \A n \in Nat : G(n) \in [0..n -> S] /\ Goes(G(n), n)
  BY <1>1
<1> HIDE DEF G
<1>4. w \in [Nat -> S]
  BY <1>3
<1>5. w[0] = a
  BY <1>3
<1>6. ASSUME NEW n \in Nat PROVE w[n + 1] = f[w[n]]
  <2>1. n + 1 \in Nat /\ n <= n + 1 /\ n \in 0..(n + 1) /\ n # n + 1
    OBVIOUS
  <2>2. /\ G(n) \in [0..n -> S] /\ Goes(G(n), n)
        /\ G(n + 1) \in [0..(n + 1) -> S] /\ Goes(G(n + 1), n + 1)
    BY <1>3, <2>1
  <2>3. G(n)[n] = G(n + 1)[n]
    BY <1>2, <2>1, <2>2, SMTT(60)
  <2>4. G(n + 1)[n + 1] = f[G(n + 1)[n]]
    BY <2>1, <2>2
  <2>5. QED
    BY <2>1, <2>3, <2>4
<1>7. QED
  BY <1>4, <1>5, <1>6

\* A text, and a parser of texts.
Strings == Seq(STRING)
Parsers == [pending : Strings, inTag : BOOLEAN, buf : Strings, calls : Seq(Strings), out : Strings]

\* The first n letters of a text, and the others.
Take(s, n) == SubSeq(s, 1, n)
Drop(s, n) == SubSeq(s, n + 1, Len(s))

\* The beginning of a text.
LEMMA TakeIs ==
  ASSUME NEW s \in Strings, NEW n \in 0..Len(s)
  PROVE  /\ Take(s, n) \in Strings
         /\ Len(Take(s, n)) = n
         /\ \A i \in 1..n : Take(s, n)[i] = s[i]
<1>1. /\ n \in Int /\ 1 \in Int /\ Len(s) \in Nat
      /\ \A i \in 1..n : s[i] \in STRING
  BY LenProperties DEF Strings
<1>2. /\ SubSeq(s, 1, n) \in Seq(STRING)
      /\ Len(SubSeq(s, 1, n)) = IF 1 <= n THEN n - 1 + 1 ELSE 0
      /\ \A i \in 1..n - 1 + 1 : SubSeq(s, 1, n)[i] = s[1 + i - 1]
  BY <1>1, SubSeqProperties
<1>3. n - 1 + 1 = n /\ \A i \in 1..n : 1 + i - 1 = i
  BY <1>1
<1>4. QED
  BY <1>1, <1>2, <1>3 DEF Take, Strings

\* The rest of a text.
LEMMA DropIs ==
  ASSUME NEW s \in Strings, NEW n \in 0..Len(s)
  PROVE  /\ Drop(s, n) \in Strings
         /\ Len(Drop(s, n)) = Len(s) - n
         /\ \A i \in 1..Len(s) - n : Drop(s, n)[i] = s[n + i]
<1>1. /\ n + 1 \in Int /\ Len(s) \in Int /\ Len(s) \in Nat /\ n \in Nat /\ n <= Len(s)
      /\ \A i \in n + 1..Len(s) : s[i] \in STRING
  BY LenProperties DEF Strings
<1>2. /\ SubSeq(s, n + 1, Len(s)) \in Seq(STRING)
      /\ Len(SubSeq(s, n + 1, Len(s))) = IF n + 1 <= Len(s) THEN Len(s) - (n + 1) + 1 ELSE 0
      /\ \A i \in 1..Len(s) - (n + 1) + 1 : SubSeq(s, n + 1, Len(s))[i] = s[n + 1 + i - 1]
  BY <1>1, SubSeqProperties
<1>3. Len(s) - (n + 1) + 1 = Len(s) - n /\ \A i \in 1..Len(s) - n : n + 1 + i - 1 = n + i
  BY <1>1
<1>4. \A i \in 1..Len(s) - n : SubSeq(s, n + 1, Len(s))[i] = s[n + i]
  BY <1>2, <1>3
<1>5. Len(SubSeq(s, n + 1, Len(s))) = Len(s) - n
  BY <1>1, <1>2
<1>6. QED
  BY <1>2, <1>4, <1>5 DEF Drop, Strings

\* One text behind another.
LEMMA CatIs ==
  ASSUME NEW s \in Strings, NEW u \in Strings
  PROVE  /\ s \o u \in Strings
         /\ Len(s \o u) = Len(s) + Len(u) /\ Len(s) \in Nat /\ Len(u) \in Nat
         /\ \A i \in 1..Len(s) : (s \o u)[i] = s[i]
         /\ \A i \in 1..Len(u) : (s \o u)[Len(s) + i] = u[i]
<1>1. /\ s \o u \in Seq(STRING) /\ Len(s \o u) = Len(s) + Len(u)
      /\ \A i \in 1..Len(s) + Len(u) : (s \o u)[i] = IF i <= Len(s) THEN s[i] ELSE u[i - Len(s)]
  BY ConcatProperties DEF Strings
<1>2. Len(s) \in Nat /\ Len(u) \in Nat
  BY LenProperties DEF Strings
<1>3. \A i \in 1..Len(u) : /\ Len(s) + i \in 1..Len(s) + Len(u)
                          /\ ~ (Len(s) + i <= Len(s)) /\ Len(s) + i - Len(s) = i
  BY <1>2
<1>4. \A i \in 1..Len(s) : i \in 1..Len(s) + Len(u) /\ i <= Len(s)
  BY <1>2
<1>5. QED
  BY <1>1, <1>2, <1>3, <1>4 DEF Strings

\* Texts of one length with the same letters are the same.
LEMMA SameText ==
  ASSUME NEW s \in Strings, NEW t \in Strings, Len(s) = Len(t), \A i \in 1..Len(s) : s[i] = t[i]
  PROVE  s = t
BY SeqEqual DEF Strings

\* Three texts behind each other.
LEMMA CatTwice ==
  ASSUME NEW s \in Strings, NEW t \in Strings, NEW u \in Strings
  PROVE  (s \o t) \o u = s \o (t \o u)
<1>1. \A S : \A a, b, c \in Seq(S) : (a \o b) \o c = a \o (b \o c)
  BY ConcatAssociative
<1>2. QED
  BY <1>1 DEF Strings

\* What comes behind does not matter to the beginning.
LEMMA TakeCat ==
  ASSUME NEW s \in Strings, NEW u \in Strings, NEW n \in 0..Len(s)
  PROVE  Take(s \o u, n) = Take(s, n)
<1>1. s \o u \in Strings /\ n \in 0..Len(s \o u) /\ n \in Nat /\ n <= Len(s) /\ Len(s) \in Nat
  BY CatIs
<1>2. /\ Take(s \o u, n) \in Strings /\ Len(Take(s \o u, n)) = n
      /\ \A i \in 1..n : Take(s \o u, n)[i] = (s \o u)[i]
  BY <1>1, TakeIs
<1>3. \A i \in 1..n : i \in 1..Len(s)
  BY <1>1
<1>4. /\ Take(s, n) \in Strings /\ Len(Take(s, n)) = n
      /\ \A i \in 1..n : Take(s, n)[i] = s[i]
  BY TakeIs
<1>5. \A i \in 1..n : Take(s \o u, n)[i] = Take(s, n)[i]
  <2>1. \A i \in 1..Len(s) : (s \o u)[i] = s[i]
    BY CatIs
  <2>2. TAKE i \in 1..n
  <2>3. i \in 1..Len(s)
    BY <1>3
  <2>4. QED
    BY <1>2, <1>4, <2>1, <2>3, Zenon
<1>6. QED
  BY <1>2, <1>4, <1>5, SameText

\* It comes behind the rest.
LEMMA DropCat ==
  ASSUME NEW s \in Strings, NEW u \in Strings, NEW n \in 0..Len(s)
  PROVE  Drop(s \o u, n) = Drop(s, n) \o u
<1>1. /\ s \o u \in Strings /\ n \in 0..Len(s \o u) /\ n \in Nat /\ n <= Len(s) /\ Len(s) \in Nat
      /\ Len(u) \in Nat /\ Len(s \o u) = Len(s) + Len(u)
  BY CatIs
<1>2. /\ Drop(s \o u, n) \in Strings /\ Len(Drop(s \o u, n)) = Len(s) + Len(u) - n
      /\ \A i \in 1..Len(s) + Len(u) - n : Drop(s \o u, n)[i] = (s \o u)[n + i]
  <2> DEFINE w == s \o u
  <2>1. w \in Strings /\ n \in 0..Len(w) /\ Len(w) = Len(s) + Len(u)
    BY <1>1
  <2> HIDE DEF w
  <2>2. /\ Drop(w, n) \in Strings /\ Len(Drop(w, n)) = Len(w) - n
        /\ \A i \in 1..Len(w) - n : Drop(w, n)[i] = w[n + i]
    BY <2>1, DropIs
  <2>3. /\ Drop(w, n) \in Strings /\ Len(Drop(w, n)) = Len(s) + Len(u) - n
        /\ \A i \in 1..Len(s) + Len(u) - n : Drop(w, n)[i] = w[n + i]
    BY <2>1, <2>2
  <2>4. QED
    BY <2>3 DEF w
<1> DEFINE d == Drop(s, n)
<1>3. d \in Strings /\ Len(d) = Len(s) - n /\ \A i \in 1..Len(s) - n : d[i] = s[n + i]
  BY DropIs
<1> HIDE DEF d
<1>4. d \o u \in Strings /\ Len(d \o u) = Len(s) - n + Len(u)
  BY <1>3, CatIs
<1>5. ASSUME NEW i \in 1..Len(s) + Len(u) - n PROVE Drop(s \o u, n)[i] = (d \o u)[i]
  <2>1. CASE i <= Len(s) - n
    <3>1. i \in 1..Len(s) - n /\ i \in 1..Len(d) /\ n + i \in 1..Len(s)
      BY <1>1, <1>3, <2>1
    <3>2. (s \o u)[n + i] = s[n + i] /\ (d \o u)[i] = d[i]
      BY <1>3, <3>1, CatIs
    <3>3. QED
      BY <1>2, <1>3, <3>1, <3>2
  <2>2. CASE ~ (i <= Len(s) - n)
    <3> DEFINE j == i - (Len(s) - n)
    <3>1. j \in 1..Len(u) /\ n + i = Len(s) + j /\ i = Len(d) + j
      BY <1>1, <1>3, <2>2
    <3> HIDE DEF j
    <3>2. (s \o u)[Len(s) + j] = u[j] /\ (d \o u)[Len(d) + j] = u[j]
      BY <1>3, <3>1, CatIs
    <3>3. QED
      BY <1>2, <3>1, <3>2
  <2>3. QED
    BY <2>1, <2>2
<1>6. Len(Drop(s \o u, n)) = Len(d \o u) /\ Len(Drop(s \o u, n)) = Len(s) + Len(u) - n
  BY <1>1, <1>2, <1>4
<1>7. QED
  BY <1>2, <1>4, <1>5, <1>6, SameText DEF d

\* A beginning, and the beginning of the rest.
LEMMA TakeDrop ==
  ASSUME NEW s \in Strings, NEW k \in 0..Len(s), NEW n \in 0..Len(s) - k
  PROVE  Take(s, k) \o Take(Drop(s, k), n) = Take(s, k + n)
<1>1. k \in Nat /\ n \in Nat /\ k + n \in 0..Len(s) /\ Len(s) \in Nat
  BY LenProperties DEF Strings
<1> DEFINE a == Take(s, k)
           d == Drop(s, k)
           b == Take(d, n)
           c == Take(s, k + n)
<1>2. a \in Strings /\ Len(a) = k /\ \A i \in 1..k : a[i] = s[i]
  BY TakeIs
<1>3. d \in Strings /\ Len(d) = Len(s) - k /\ \A i \in 1..Len(s) - k : d[i] = s[k + i]
  BY DropIs
<1>4. b \in Strings /\ Len(b) = n /\ \A i \in 1..n : b[i] = d[i]
  <2> HIDE DEF d
  <2>1. n \in 0..Len(d)
    BY <1>3
  <2>2. QED
    BY <1>3, <2>1, TakeIs
<1>5. c \in Strings /\ Len(c) = k + n /\ \A i \in 1..k + n : c[i] = s[i]
  BY <1>1, TakeIs
<1> HIDE DEF a, b, c, d
<1>6. a \o b \in Strings /\ Len(a \o b) = k + n
  BY <1>2, <1>4, CatIs
<1>7. ASSUME NEW i \in 1..k + n PROVE (a \o b)[i] = c[i]
  <2>1. CASE i <= k
    <3>1. i \in 1..k /\ i \in 1..Len(a)
      BY <1>1, <1>2, <2>1
    <3>2. QED
      BY <1>2, <1>4, <1>5, <3>1, CatIs
  <2>2. CASE ~ (i <= k)
    <3> DEFINE j == i - k
    <3>1. j \in 1..n /\ j \in 1..Len(b) /\ j \in 1..Len(s) - k /\ i = k + j
      BY <1>1, <1>4, <2>2
    <3> HIDE DEF j
    <3>2. (a \o b)[Len(a) + j] = b[j]
      BY <1>2, <1>4, <3>1, CatIs
    <3>3. b[j] = s[k + j] /\ c[k + j] = s[k + j]
      BY <1>3, <1>4, <1>5, <3>1
    <3>4. QED
      BY <1>2, <3>1, <3>2, <3>3
  <2>3. QED
    BY <2>1, <2>2
<1>8. a \o b = c
  BY <1>5, <1>6, <1>7, SameText
<1>9. QED
  BY <1>8 DEF a, b, c, d

\* The rest of the rest.
LEMMA DropDrop ==
  ASSUME NEW s \in Strings, NEW k \in 0..Len(s), NEW n \in 0..Len(s) - k
  PROVE  Drop(Drop(s, k), n) = Drop(s, k + n)
<1>1. k \in Nat /\ n \in Nat /\ k + n \in 0..Len(s) /\ Len(s) \in Nat
  BY LenProperties DEF Strings
<1> DEFINE d == Drop(s, k)
           b == Drop(d, n)
           c == Drop(s, k + n)
<1>3. d \in Strings /\ Len(d) = Len(s) - k /\ \A i \in 1..Len(s) - k : d[i] = s[k + i]
  BY DropIs
<1>4. b \in Strings /\ Len(b) = Len(s) - k - n /\ \A i \in 1..Len(s) - k - n : b[i] = d[n + i]
  <2> HIDE DEF d
  <2>1. n \in 0..Len(d)
    BY <1>3
  <2>2. QED
    BY <1>3, <2>1, DropIs
<1>5. c \in Strings /\ Len(c) = Len(s) - (k + n) /\ \A i \in 1..Len(s) - (k + n) : c[i] = s[k + n + i]
  BY <1>1, DropIs
<1> HIDE DEF b, c, d
<1>6. Len(s) - (k + n) = Len(s) - k - n
  BY <1>1
<1>7. ASSUME NEW i \in 1..Len(s) - k - n PROVE b[i] = c[i]
  <2>1. n + i \in 1..Len(s) - k /\ k + (n + i) = k + n + i
    BY <1>1
  <2>2. QED
    BY <1>3, <1>4, <1>5, <1>6, <2>1
<1>8. b = c
  BY <1>4, <1>5, <1>6, <1>7, SameText
<1>9. QED
  BY <1>8 DEF b, c, d

-----------------------------------------------------------------------------
\* Where a text occurs in another.
LEMMA OccursAt ==
  ASSUME NEW s \in Strings, NEW t \in Strings, t # <<>>, NEW i
  PROVE  i \in Occurrences(t, s) <=>
           /\ i \in 1..Len(s) /\ i + Len(t) - 1 <= Len(s)
           /\ \A j \in 1..Len(t) : t[j] = s[i + j - 1]
<1>1. SUFFICES ASSUME i \in 1..Len(s)
               PROVE  IsPrefix(t, SubSeq(s, i, Len(s))) <=>
                        i + Len(t) - 1 <= Len(s) /\ \A j \in 1..Len(t) : t[j] = s[i + j - 1]
  BY DEF Occurrences
<1> DEFINE d == Drop(s, i - 1)
<1>2. Len(s) \in Nat /\ Len(t) \in Nat /\ i - 1 \in 0..Len(s) /\ (i - 1) + 1 = i /\ Len(t) # 0
  <2>1. Len(s) \in Nat /\ Len(t) \in Nat /\ Len(t) # 0
    BY LenProperties, EmptySeq DEF Strings
  <2>2. QED
    BY <1>1, <2>1
<1>3. d = SubSeq(s, i, Len(s))
  BY <1>2 DEF Drop
<1>4. d \in Strings /\ Len(d) = Len(s) - (i - 1) /\ \A j \in 1..Len(s) - (i - 1) : d[j] = s[i - 1 + j]
  BY <1>2, DropIs
<1> HIDE DEF d
<1>5. IsPrefix(t, d) <=> Len(t) <= Len(d) /\ Take(t, Len(t)) = Take(d, Len(t))
  BY DEF IsPrefix, Take
<1>6. Len(t) <= Len(d) <=> i + Len(t) - 1 <= Len(s)
  BY <1>1, <1>2, <1>4
<1>7. ASSUME Len(t) <= Len(d)
      PROVE  Take(t, Len(t)) = Take(d, Len(t)) <=> \A j \in 1..Len(t) : t[j] = s[i + j - 1]
  <2>1. Len(t) \in 0..Len(t) /\ Len(t) \in 0..Len(d)
    BY <1>2, <1>4, <1>7
  <2>2. /\ Take(t, Len(t)) \in Strings /\ Len(Take(t, Len(t))) = Len(t)
        /\ \A j \in 1..Len(t) : Take(t, Len(t))[j] = t[j]
    BY <2>1, TakeIs
  <2>3. /\ Take(d, Len(t)) \in Strings /\ Len(Take(d, Len(t))) = Len(t)
        /\ \A j \in 1..Len(t) : Take(d, Len(t))[j] = d[j]
    BY <1>4, <2>1, TakeIs
  <2>4. Take(t, Len(t)) = Take(d, Len(t)) <=> \A j \in 1..Len(t) : t[j] = d[j]
    BY <2>2, <2>3, SameText
  <2>5. ASSUME NEW j \in 1..Len(t) PROVE d[j] = s[i + j - 1]
    <3>1. j \in 1..Len(s) - (i - 1) /\ i - 1 + j = i + j - 1
      BY <1>1, <1>2, <1>4, <1>7
    <3>2. QED
      BY <1>4, <3>1
  <2>6. QED
    BY <2>4, <2>5
<1>8. QED
  BY <1>3, <1>5, <1>6, <1>7

\* The least of a set of numbers.
LEMMA MinIs ==
  ASSUME NEW T, T \subseteq Nat, T # {}
  PROVE  Min(T) \in T /\ \A n \in T : Min(T) <= n
BY Least DEF Min

\* A number that is the least is the minimum.
LEMMA IsMin ==
  ASSUME NEW T, T \subseteq Nat, NEW n \in T, \A m \in T : n <= m
  PROVE  Min(T) = n
<1>1. T # {} /\ Min(T) \in T /\ Min(T) <= n
  BY MinIs
<1>2. n <= Min(T) /\ n \in Nat /\ Min(T) \in Nat
  BY <1>1
<1>3. QED
  BY <1>1, <1>2

\* Places at which a text occurs are numbers.
LEMMA OccurIn ==
  ASSUME NEW s \in Strings, NEW t
  PROVE  Occurrences(t, s) \subseteq Nat /\ Occurrences(t, s) \subseteq 1..Len(s)
BY LenProperties DEF Occurrences, Strings

\* What comes behind does not matter to the occurrences that end before it.
LEMMA OccursCat ==
  ASSUME NEW s \in Strings, NEW u \in Strings, NEW t \in Strings, t # <<>>,
         NEW i \in 1..Len(s), i + Len(t) - 1 <= Len(s)
  PROVE  i \in Occurrences(t, s \o u) <=> i \in Occurrences(t, s)
<1> DEFINE w == s \o u
           In(v) == \A j \in 1..Len(t) : t[j] = v[i + j - 1]
<1>1. /\ w \in Strings /\ Len(w) = Len(s) + Len(u) /\ Len(s) \in Nat /\ Len(u) \in Nat
      /\ \A j \in 1..Len(s) : w[j] = s[j]
  BY CatIs
<1>2. Len(t) \in Nat
  BY LenProperties DEF Strings
<1> HIDE DEF w
<1>3. i \in Occurrences(t, w) <=> i \in 1..Len(w) /\ i + Len(t) - 1 <= Len(w) /\ In(w)
  <2>1. w \in Strings
    BY <1>1
  <2>2. \A x : x \in Occurrences(t, w) <=> /\ x \in 1..Len(w) /\ x + Len(t) - 1 <= Len(w)
                                          /\ \A j \in 1..Len(t) : t[j] = w[x + j - 1]
    BY <2>1, OccursAt
  <2>3. QED
    BY <2>2
<1>4. i \in Occurrences(t, s) <=> In(s)
  <2>1. \A x : x \in Occurrences(t, s) <=> /\ x \in 1..Len(s) /\ x + Len(t) - 1 <= Len(s)
                                          /\ \A j \in 1..Len(t) : t[j] = s[x + j - 1]
    BY OccursAt
  <2>2. QED
    BY <2>1
<1>5. i \in 1..Len(w) /\ i + Len(t) - 1 <= Len(w)
  BY <1>1, <1>2
<1>6. \A j \in 1..Len(t) : i + j - 1 \in 1..Len(s)
  BY <1>1, <1>2
<1>7. In(w) <=> In(s)
  BY <1>1, <1>6
<1>8. QED
  BY <1>3, <1>4, <1>5, <1>7 DEF w

\* What comes behind makes no occurrence before those there are.
LEMMA FirstCat ==
  ASSUME NEW s \in Strings, NEW u \in Strings, NEW t \in Strings, t # <<>>,
         Occurrences(t, s) # {}
  PROVE  Occurrences(t, s \o u) # {} /\ Min(Occurrences(t, s \o u)) = Min(Occurrences(t, s))
<1> DEFINE w == s \o u
           f == Min(Occurrences(t, s))
<1>1. /\ w \in Strings /\ Len(w) = Len(s) + Len(u) /\ Len(s) \in Nat /\ Len(u) \in Nat
      /\ \A i \in 1..Len(s) : w[i] = s[i]
  BY CatIs
<1>2. f \in Occurrences(t, s) /\ \A i \in Occurrences(t, s) : f <= i
  BY OccurIn, MinIs
<1>3. Len(t) \in Nat
  BY LenProperties DEF Strings
<1> HIDE DEF w, f
<1>4. f \in 1..Len(s) /\ f + Len(t) - 1 <= Len(s) /\ \A j \in 1..Len(t) : t[j] = s[f + j - 1]
  BY <1>2, OccursAt
<1>5. ASSUME NEW i \in 1..Len(s), i + Len(t) - 1 <= Len(s)
      PROVE  i \in Occurrences(t, w) <=> i \in Occurrences(t, s)
  BY <1>5, OccursCat DEF w
<1>6. f \in Occurrences(t, w)
  BY <1>2, <1>4, <1>5
<1>7. ASSUME NEW i \in Occurrences(t, w) PROVE f <= i
  <2>1. SUFFICES ASSUME i < f PROVE FALSE
    <3>1. i \in Nat /\ f \in Nat
      BY <1>1, <1>4, OccurIn
    <3>2. QED
      BY <2>1, <3>1
  <2>2. i \in 1..Len(w)
    BY <1>1, OccurIn
  <2>3. i \in 1..Len(s) /\ i + Len(t) - 1 <= Len(s)
    BY <1>1, <1>3, <1>4, <2>1, <2>2
  <2>4. i \in Occurrences(t, s)
    BY <1>5, <2>3
  <2>5. QED
    BY <1>2, <1>4, <2>1, <2>3, <2>4
<1>8. Min(Occurrences(t, w)) = f
  BY <1>1, <1>6, <1>7, OccurIn, IsMin
<1>9. QED
  BY <1>6, <1>8 DEF w, f

\* Occurrences in the rest of a text.
LEMMA OccursDrop ==
  ASSUME NEW s \in Strings, NEW t \in Strings, t # <<>>, NEW k \in 0..Len(s), NEW i \in Nat
  PROVE  i \in Occurrences(t, Drop(s, k)) <=> i # 0 /\ k + i \in Occurrences(t, s)
<1> DEFINE d == Drop(s, k)
<1>1. d \in Strings /\ Len(d) = Len(s) - k /\ \A j \in 1..Len(s) - k : d[j] = s[k + j]
  BY DropIs
<1>2. Len(t) \in Nat /\ Len(t) # 0 /\ Len(s) \in Nat /\ k \in Nat /\ k <= Len(s)
  BY LenProperties, EmptySeq DEF Strings
<1> HIDE DEF d
<1>3. i # 0 => (i \in 1..Len(d) <=> k + i \in 1..Len(s))
  BY <1>1, <1>2
<1>4. i + Len(t) - 1 <= Len(d) <=> k + i + Len(t) - 1 <= Len(s)
  BY <1>1, <1>2
<1>5. ASSUME i # 0, i + Len(t) - 1 <= Len(d), NEW j \in 1..Len(t)
      PROVE  d[i + j - 1] = s[k + i + j - 1]
  <2>1. i + j - 1 \in 1..Len(s) - k /\ k + (i + j - 1) = k + i + j - 1
    BY <1>1, <1>2, <1>5
  <2>2. QED
    BY <1>1, <2>1
<1>6. i \in Occurrences(t, d) <=>
        i \in 1..Len(d) /\ i + Len(t) - 1 <= Len(d) /\ \A j \in 1..Len(t) : t[j] = d[i + j - 1]
  <2>1. d \in Strings
    BY <1>1
  <2>2. \A x : x \in Occurrences(t, d) <=> /\ x \in 1..Len(d) /\ x + Len(t) - 1 <= Len(d)
                                          /\ \A j \in 1..Len(t) : t[j] = d[x + j - 1]
    BY <2>1, OccursAt
  <2>3. QED
    BY <2>2
<1>7. k + i \in Occurrences(t, s) <=>
        /\ k + i \in 1..Len(s) /\ k + i + Len(t) - 1 <= Len(s)
        /\ \A j \in 1..Len(t) : t[j] = s[k + i + j - 1]
  <2>1. \A x : x \in Occurrences(t, s) <=> /\ x \in 1..Len(s) /\ x + Len(t) - 1 <= Len(s)
                                          /\ \A j \in 1..Len(t) : t[j] = s[x + j - 1]
    BY OccursAt
  <2>2. QED
    BY <2>1
<1>8. CASE i = 0
  BY <1>6, <1>8 DEF d
<1>9. CASE i # 0 /\ i + Len(t) - 1 <= Len(d)
  BY <1>3, <1>4, <1>5, <1>6, <1>7, <1>9 DEF d
<1>10. CASE ~ (i + Len(t) - 1 <= Len(d))
  BY <1>4, <1>6, <1>7, <1>10 DEF d
<1>11. QED
  BY <1>8, <1>9, <1>10

-----------------------------------------------------------------------------
\* The parser's steps

\* Where what it looks for is.
Found(p) == Occurrences(Tag(p), p.pending)

\* The markers are not empty.
LEMMA TagIs ==
  ASSUME NEW p
  PROVE  Tag(p) \in Strings /\ Tag(p) # <<>> /\ Len(Tag(p)) \in Nat /\ Len(Tag(p)) # 0
<1>1. Tag(p) \in Strings /\ Tag(p) # <<>>
  BY ReplyStreamAssumption DEF Tag, Strings
<1>2. QED
  BY <1>1, EmptySeq DEF Strings

\* What a parser consists of.
LEMMA PartsOf ==
  ASSUME NEW p \in Parsers
  PROVE  /\ p.pending \in Strings /\ p.inTag \in BOOLEAN /\ p.buf \in Strings
         /\ p.calls \in Seq(Strings) /\ p.out \in Strings
         /\ Len(p.pending) \in Nat
<1>1. /\ p.pending \in Strings /\ p.inTag \in BOOLEAN /\ p.buf \in Strings
      /\ p.calls \in Seq(Strings) /\ p.out \in Strings
  BY DEF Parsers
<1>2. QED
  BY <1>1, LenProperties DEF Strings

\* Parsers with the same parts are the same.
LEMMA SameParser ==
  ASSUME NEW p \in Parsers, NEW q \in Parsers,
         p.pending = q.pending, p.inTag = q.inTag, p.buf = q.buf, p.calls = q.calls, p.out = q.out
  PROVE  p = q
BY DEF Parsers

\* What is taken from the pending text goes into the call, or out.
LEMMA MovedIs ==
  ASSUME NEW p \in Parsers, NEW n \in 0..Len(p.pending)
  PROVE  /\ Moved(p, n) \in Parsers
         /\ Moved(p, n).pending = Drop(p.pending, n)
         /\ Moved(p, n).inTag = p.inTag /\ Moved(p, n).calls = p.calls
         /\ Moved(p, n).buf = (IF p.inTag THEN p.buf \o Take(p.pending, n) ELSE p.buf)
         /\ Moved(p, n).out = (IF p.inTag THEN p.out ELSE p.out \o Take(p.pending, n))
<1> DEFINE m == Take(p.pending, n)
           r == Drop(p.pending, n)
<1>1. Moved(p, n) = IF p.inTag THEN [p EXCEPT !.pending = r, !.buf = p.buf \o m]
                               ELSE [p EXCEPT !.pending = r, !.out = p.out \o m]
  BY DEF Moved, Take, Drop, Parsers
<1>2. m \in Strings /\ r \in Strings
  BY PartsOf, TakeIs, DropIs
<1> HIDE DEF m, r
<1>3. p.buf \o m \in Strings /\ p.out \o m \in Strings
  BY <1>2, PartsOf, CatIs
<1> DEFINE b == p.buf \o m
           o == p.out \o m
<1> HIDE DEF b, o
<1>4. b \in Strings /\ o \in Strings
  BY <1>3 DEF b, o
<1>5. Moved(p, n) = IF p.inTag THEN [p EXCEPT !.pending = r, !.buf = b]
                               ELSE [p EXCEPT !.pending = r, !.out = o]
  BY <1>1 DEF b, o
<1>6. /\ Moved(p, n) \in Parsers
      /\ Moved(p, n).pending = r
      /\ Moved(p, n).inTag = p.inTag /\ Moved(p, n).calls = p.calls
      /\ Moved(p, n).buf = (IF p.inTag THEN b ELSE p.buf)
      /\ Moved(p, n).out = (IF p.inTag THEN p.out ELSE o)
  BY <1>2, <1>4, <1>5 DEF Parsers
<1>7. QED
  BY <1>6 DEF m, r, b, o

\* Text that arrives is pending.
LEMMA MoreIs ==
  ASSUME NEW p \in Parsers, NEW u \in Strings
  PROVE  /\ More(p, u) \in Parsers
         /\ More(p, u).pending = p.pending \o u
         /\ More(p, u).inTag = p.inTag /\ More(p, u).buf = p.buf
         /\ More(p, u).calls = p.calls /\ More(p, u).out = p.out
<1> DEFINE w == p.pending \o u
<1>1. w \in Strings
  BY PartsOf, CatIs
<1>2. More(p, u) = [p EXCEPT !.pending = w]
  BY DEF More, Parsers
<1> HIDE DEF w
<1>3. /\ More(p, u) \in Parsers /\ More(p, u).pending = w
      /\ More(p, u).inTag = p.inTag /\ More(p, u).buf = p.buf
      /\ More(p, u).calls = p.calls /\ More(p, u).out = p.out
  BY <1>1, <1>2 DEF Parsers
<1>4. QED
  BY <1>3 DEF w

\* The first marker ends within the text.
LEMMA FoundFirst ==
  ASSUME NEW p \in Parsers, Found(p) # {}
  PROVE  /\ Min(Found(p)) \in Found(p) /\ \A i \in Found(p) : Min(Found(p)) <= i
         /\ Min(Found(p)) \in Nat /\ Min(Found(p)) - 1 \in 0..Len(p.pending)
         /\ Min(Found(p)) - 1 + Len(Tag(p)) \in 0..Len(p.pending)
<1> DEFINE f == Min(Found(p))
           t == Tag(p)
           s == p.pending
<1>1. t \in Strings /\ t # <<>> /\ Len(t) \in Nat /\ s \in Strings /\ Len(s) \in Nat
  BY TagIs, PartsOf
<1>2. Found(p) = Occurrences(t, s)
  BY DEF Found
<1>3. f \in Found(p) /\ \A i \in Found(p) : f <= i
  BY <1>1, <1>2, OccurIn, MinIs
<1> HIDE DEF f, t, s
<1>4. f \in 1..Len(s) /\ f + Len(t) - 1 <= Len(s)
  BY <1>1, <1>2, <1>3, OccursAt
<1>5. f \in Nat /\ f - 1 \in 0..Len(s) /\ f - 1 + Len(t) \in 0..Len(s)
  BY <1>1, <1>4
<1>6. QED
  BY <1>3, <1>5 DEF f, t, s

\* A turn takes the text up to the marker and the marker.
LEMMA TurnIs ==
  ASSUME NEW p \in Parsers, Found(p) # {}, NEW f, f = Min(Found(p)),
         NEW call, call = p.buf \o Take(p.pending, f - 1)
  PROVE  /\ Turn(p) \in Parsers
         /\ Turn(p).pending = Drop(p.pending, f - 1 + Len(Tag(p)))
         /\ Turn(p).inTag = ~ p.inTag /\ Turn(p).buf = <<>>
         /\ Turn(p).out = (IF p.inTag THEN p.out ELSE p.out \o Take(p.pending, f - 1))
         /\ Turn(p).calls = (IF p.inTag /\ Contains(call, ">") THEN Append(p.calls, call) ELSE p.calls)
<1> DEFINE k == Len(Tag(p))
           before == Moved(p, f - 1)
           r == Drop(before.pending, k)
           after == [before EXCEPT !.pending = r]
<1>1. k \in Nat /\ f - 1 \in 0..Len(p.pending) /\ k \in 0..Len(p.pending) - (f - 1)
      /\ f \in Nat /\ p.pending \in Strings /\ Len(p.pending) \in Nat
  BY TagIs, FoundFirst, PartsOf
<1>2. /\ before \in Parsers
      /\ before.pending = Drop(p.pending, f - 1)
      /\ before.inTag = p.inTag /\ before.calls = p.calls
      /\ before.buf = (IF p.inTag THEN call ELSE p.buf)
      /\ before.out = (IF p.inTag THEN p.out ELSE p.out \o Take(p.pending, f - 1))
  BY <1>1, MovedIs
<1>3. Turn(p) = IF p.inTag THEN Commits(after) ELSE [after EXCEPT !.inTag = TRUE, !.buf = <<>>]
  BY <1>2 DEF Turn, Found, Drop, Parsers
<1> HIDE DEF k, before
<1>4. r = Drop(p.pending, f - 1 + k)
  BY <1>1, <1>2, DropDrop
<1>5. r \in Strings
  <2>1. f - 1 + k \in 0..Len(p.pending)
    BY <1>1
  <2>2. QED
    BY <1>1, <1>4, <2>1, DropIs
<1> HIDE DEF r
<1>6. /\ after \in Parsers /\ after.pending = r /\ after.inTag = before.inTag
      /\ after.buf = before.buf /\ after.calls = before.calls /\ after.out = before.out
  BY <1>2, <1>5 DEF Parsers
<1> HIDE DEF after
<1>7. <<>> \in Strings
  BY EmptySeq DEF Strings
<1>8. CASE p.inTag
  <2> DEFINE c == IF Contains(after.buf, ">") THEN Append(after.calls, after.buf) ELSE after.calls
  <2>1. Turn(p) = [after EXCEPT !.inTag = FALSE, !.buf = <<>>, !.calls = c]
    BY <1>3, <1>6, <1>8 DEF Commits, Parsers
  <2>2. c \in Seq(Strings)
    BY <1>6, PartsOf, AppendProperties
  <2>3. c = IF Contains(call, ">") THEN Append(p.calls, call) ELSE p.calls
    BY <1>2, <1>6, <1>8
  <2> HIDE DEF c
  <2>4. /\ Turn(p) \in Parsers /\ Turn(p).pending = r /\ Turn(p).inTag = FALSE
        /\ Turn(p).buf = <<>> /\ Turn(p).calls = c /\ Turn(p).out = after.out
    BY <1>6, <1>7, <2>1, <2>2 DEF Parsers
  <2>5. QED
    BY <1>2, <1>4, <1>6, <1>8, <2>3, <2>4 DEF k
<1>9. CASE ~ p.inTag
  <2>1. /\ Turn(p) \in Parsers /\ Turn(p).pending = r /\ Turn(p).inTag = TRUE
        /\ Turn(p).buf = <<>> /\ Turn(p).calls = after.calls /\ Turn(p).out = after.out
    BY <1>3, <1>6, <1>7, <1>9 DEF Parsers
  <2>2. QED
    BY <1>2, <1>4, <1>6, <1>9, <2>1 DEF k
<1>10. QED
  BY <1>8, <1>9

\* A turn leads from parser to parser.
LEMMA TurnType ==
  ASSUME NEW p \in Parsers
  PROVE  Turn(p) \in Parsers /\ (Found(p) = {} => Turn(p) = p)
         /\ (Found(p) # {} => Len(Turn(p).pending) < Len(p.pending))
<1>1. CASE Found(p) = {}
  BY <1>1 DEF Turn, Found
<1>2. CASE Found(p) # {}
  <2> DEFINE f == Min(Found(p))
             n == f - 1 + Len(Tag(p))
  <2>1. Turn(p) \in Parsers /\ Turn(p).pending = Drop(p.pending, n)
    BY <1>2, TurnIs
  <2>2. /\ f \in Nat /\ f - 1 \in 0..Len(p.pending) /\ n \in 0..Len(p.pending)
        /\ Len(Tag(p)) \in Nat \ {0} /\ Len(p.pending) \in Nat
    BY <1>2, FoundFirst, TagIs, PartsOf
  <2>3. n \in Nat \ {0} /\ n <= Len(p.pending)
    BY <2>2
  <2>4. Len(Drop(p.pending, n)) = Len(p.pending) - n
    BY <2>2, PartsOf, DropIs
  <2>5. Len(p.pending) - n < Len(p.pending)
    <3> HIDE DEF n
    <3>1. QED
      BY <2>2, <2>3
  <2>6. QED
    BY <1>2, <2>1, <2>4, <2>5
<1>3. QED
  BY <1>1, <1>2

\* More text does not change a turn that found its marker.
LEMMA TurnMore ==
  ASSUME NEW p \in Parsers, NEW u \in Strings, Found(p) # {}
  PROVE  Turn(More(p, u)) = More(Turn(p), u)
<1> DEFINE f == Min(Found(p))
           k == f - 1 + Len(Tag(p))
           P == More(p, u)
           call == p.buf \o Take(p.pending, f - 1)
<1>1. /\ P \in Parsers /\ P.pending = p.pending \o u
      /\ P.inTag = p.inTag /\ P.buf = p.buf /\ P.calls = p.calls /\ P.out = p.out
  BY MoreIs
<1>2. f - 1 \in 0..Len(p.pending) /\ k \in 0..Len(p.pending) /\ p.pending \in Strings
  BY FoundFirst, PartsOf
<1> HIDE DEF P
<1>3. Tag(P) = Tag(p)
  BY <1>1 DEF Tag
<1>4. Found(P) # {} /\ Min(Found(P)) = f
  BY <1>1, <1>2, <1>3, TagIs, FirstCat DEF Found
<1> HIDE DEF f, k
<1>5. Take(P.pending, f - 1) = Take(p.pending, f - 1) /\ Drop(P.pending, k) = Drop(p.pending, k) \o u
  BY <1>1, <1>2, TakeCat, DropCat
<1>6. /\ Turn(P) \in Parsers
      /\ Turn(P).pending = Drop(P.pending, k)
      /\ Turn(P).inTag = ~ p.inTag /\ Turn(P).buf = <<>>
      /\ Turn(P).out = (IF p.inTag THEN p.out ELSE p.out \o Take(p.pending, f - 1))
      /\ Turn(P).calls = (IF p.inTag /\ Contains(call, ">") THEN Append(p.calls, call) ELSE p.calls)
  <2> DEFINE c == P.buf \o Take(P.pending, f - 1)
  <2>1. c = call
    BY <1>1, <1>5
  <2> HIDE DEF c, call
  <2>2. /\ Turn(P) \in Parsers
        /\ Turn(P).pending = Drop(P.pending, f - 1 + Len(Tag(P)))
        /\ Turn(P).inTag = ~ P.inTag /\ Turn(P).buf = <<>>
        /\ Turn(P).out = (IF P.inTag THEN P.out ELSE P.out \o Take(P.pending, f - 1))
        /\ Turn(P).calls = (IF P.inTag /\ Contains(c, ">") THEN Append(P.calls, c) ELSE P.calls)
    BY <1>1, <1>4, TurnIs DEF c
  <2>3. QED
    BY <1>1, <1>3, <1>5, <2>1, <2>2 DEF k
<1>7. /\ Turn(p) \in Parsers
      /\ Turn(p).pending = Drop(p.pending, k)
      /\ Turn(p).inTag = ~ p.inTag /\ Turn(p).buf = <<>>
      /\ Turn(p).out = (IF p.inTag THEN p.out ELSE p.out \o Take(p.pending, f - 1))
      /\ Turn(p).calls = (IF p.inTag /\ Contains(call, ">") THEN Append(p.calls, call) ELSE p.calls)
  BY TurnIs DEF f, k
<1> HIDE DEF call
<1> DEFINE q == Turn(p)
<1> HIDE DEF q
<1>8. q \in Parsers
  BY <1>7 DEF q
<1>9. /\ More(q, u) \in Parsers /\ More(q, u).pending = q.pending \o u
      /\ More(q, u).inTag = q.inTag /\ More(q, u).buf = q.buf
      /\ More(q, u).calls = q.calls /\ More(q, u).out = q.out
  BY <1>8, MoreIs
<1>10. Turn(P) = More(q, u)
  <2>1. q.pending = Drop(p.pending, k) /\ q.inTag = ~ p.inTag /\ q.buf = <<>>
    BY <1>7 DEF q
  <2>2. q.out = Turn(P).out /\ q.calls = Turn(P).calls
    BY <1>6, <1>7 DEF q
  <2>3. More(q, u).pending = Turn(P).pending
    BY <1>5, <1>6, <1>9, <2>1
  <2>4. More(q, u).inTag = Turn(P).inTag /\ More(q, u).buf = Turn(P).buf
    BY <1>6, <1>9, <2>1
  <2>5. More(q, u).out = Turn(P).out /\ More(q, u).calls = Turn(P).calls
    BY <1>9, <2>2
  <2>6. QED
    BY <1>6, <1>9, <2>3, <2>4, <2>5, SameParser
<1>11. QED
  BY <1>10 DEF P, q

\* What has been moved before the first marker would have been moved with it.
LEMMA TurnMoved ==
  ASSUME NEW p \in Parsers, NEW k \in 0..Len(p.pending), Found(p) # {},
         \A i \in Found(p) : k < i
  PROVE  Found(Moved(p, k)) # {} /\ Turn(Moved(p, k)) = Turn(p)
<1> DEFINE f == Min(Found(p))
           t == Tag(p)
           m == Moved(p, k)
           s == p.pending
           call == p.buf \o Take(s, f - 1)
<1>1. /\ m \in Parsers /\ m.pending = Drop(s, k) /\ m.inTag = p.inTag /\ m.calls = p.calls
      /\ m.buf = (IF p.inTag THEN p.buf \o Take(s, k) ELSE p.buf)
      /\ m.out = (IF p.inTag THEN p.out ELSE p.out \o Take(s, k))
  BY MovedIs
<1>2. /\ f \in Found(p) /\ \A i \in Found(p) : f <= i
      /\ f \in Nat /\ f - 1 \in 0..Len(s) /\ f - 1 + Len(t) \in 0..Len(s)
  BY FoundFirst
<1>3. /\ s \in Strings /\ Len(s) \in Nat /\ k \in Nat /\ p.buf \in Strings /\ p.out \in Strings
      /\ t \in Strings /\ t # <<>> /\ Len(t) \in Nat /\ k \in 0..Len(s)
  BY PartsOf, TagIs
<1> HIDE DEF m
<1>4. Tag(m) = t
  BY <1>1 DEF Tag
<1>5. Found(p) = Occurrences(t, s) /\ Found(m) = Occurrences(t, Drop(s, k))
  BY <1>1, <1>4 DEF Found
<1> HIDE DEF f, t, s, call
<1>6. k < f /\ f - k \in Nat /\ f - k # 0 /\ k + (f - k) = f
  BY <1>2, <1>3
<1>7. \A i \in Nat : i \in Found(m) <=> i # 0 /\ k + i \in Found(p)
  <2>1. \A i \in Nat : i \in Occurrences(t, Drop(s, k)) <=> i # 0 /\ k + i \in Occurrences(t, s)
    BY <1>3, OccursDrop
  <2>2. QED
    BY <1>5, <2>1
<1>8. f - k \in Found(m)
  <2> DEFINE g == f - k
  <2>1. g \in Nat /\ g # 0 /\ k + g \in Found(p)
    BY <1>2, <1>6
  <2> HIDE DEF g
  <2>2. g \in Found(m)
    BY <1>7, <2>1
  <2>3. QED
    BY <2>2 DEF g
<1>9. Found(m) \subseteq Nat
  <2>1. Drop(s, k) \in Strings
    BY <1>3, DropIs DEF s
  <2>2. QED
    BY <1>5, <2>1, OccurIn
<1>10. ASSUME NEW i \in Found(m) PROVE f - k <= i
  <2>1. i \in Nat /\ k + i \in Found(p)
    BY <1>7, <1>9
  <2>2. f <= k + i
    BY <1>2, <2>1
  <2>3. QED
    BY <1>2, <1>3, <2>1, <2>2
<1>11. Min(Found(m)) = f - k
  BY <1>8, <1>9, <1>10, IsMin
<1> DEFINE g == f - k
<1>12. g - 1 \in 0..Len(s) - k /\ k + (g - 1) = f - 1
       /\ g - 1 + Len(t) \in 0..Len(s) - k /\ k + (g - 1 + Len(t)) = f - 1 + Len(t)
  <2>1. f \in Nat /\ k \in Nat /\ k < f /\ Len(s) \in Nat /\ Len(t) \in Nat
        /\ f - 1 + Len(t) \in 0..Len(s)
    BY <1>2, <1>3, <1>6
  <2>2. \A l, h \in Nat : f - 1 + h \in 0..l =>
          /\ g - 1 \in 0..l - k /\ k + (g - 1) = f - 1
          /\ g - 1 + h \in 0..l - k /\ k + (g - 1 + h) = f - 1 + h
    BY <2>1
  <2>3. QED
    BY <2>1, <2>2
<1> HIDE DEF g
<1>13. Take(s, k) \o Take(Drop(s, k), g - 1) = Take(s, f - 1)
  BY <1>3, <1>12, TakeDrop DEF s
<1>14. Drop(Drop(s, k), g - 1 + Len(t)) = Drop(s, f - 1 + Len(t))
  BY <1>3, <1>12, DropDrop DEF s
<1>15. \A b \in Strings : (b \o Take(s, k)) \o Take(Drop(s, k), g - 1) = b \o Take(s, f - 1)
  <2>1. Take(s, k) \in Strings /\ Drop(s, k) \in Strings /\ Len(Drop(s, k)) = Len(s) - k
    BY <1>3, TakeIs, DropIs DEF s
  <2>2. g - 1 \in 0..Len(Drop(s, k))
    BY <1>12, <2>1
  <2>3. Take(Drop(s, k), g - 1) \in Strings
    BY <2>1, <2>2, TakeIs
  <2> DEFINE x == Take(s, k)
             y == Take(Drop(s, k), g - 1)
  <2>4. x \in Strings /\ y \in Strings /\ x \o y = Take(s, f - 1)
    BY <1>13, <2>1, <2>3
  <2> HIDE DEF x, y
  <2>5. \A b \in Strings : (b \o x) \o y = b \o (x \o y)
    BY <2>4, CatTwice
  <2>6. \A b \in Strings : (b \o x) \o y = b \o Take(s, f - 1)
    BY <2>4, <2>5
  <2>7. QED
    BY <2>6 DEF x, y
<1> DEFINE c == m.buf \o Take(m.pending, g - 1)
<1>16. p.inTag => c = call
  BY <1>1, <1>3, <1>15 DEF call
<1>17. ~ p.inTag => m.out \o Take(m.pending, g - 1) = p.out \o Take(s, f - 1)
  BY <1>1, <1>3, <1>15
<1> HIDE DEF c
<1>18. /\ Turn(m) \in Parsers
       /\ Turn(m).pending = Drop(m.pending, g - 1 + Len(t))
       /\ Turn(m).inTag = ~ m.inTag /\ Turn(m).buf = <<>>
       /\ Turn(m).out = (IF m.inTag THEN m.out ELSE m.out \o Take(m.pending, g - 1))
       /\ Turn(m).calls = (IF m.inTag /\ Contains(c, ">") THEN Append(m.calls, c) ELSE m.calls)
  <2>1. g = Min(Found(m)) /\ Found(m) # {}
    BY <1>8, <1>11 DEF g
  <2>2. QED
    BY <1>1, <1>4, <2>1, TurnIs DEF c
<1>19. /\ Turn(p) \in Parsers
       /\ Turn(p).pending = Drop(s, f - 1 + Len(t))
       /\ Turn(p).inTag = ~ p.inTag /\ Turn(p).buf = <<>>
       /\ Turn(p).out = (IF p.inTag THEN p.out ELSE p.out \o Take(s, f - 1))
       /\ Turn(p).calls = (IF p.inTag /\ Contains(call, ">") THEN Append(p.calls, call) ELSE p.calls)
  BY TurnIs DEF f, s, t, call
<1>20. Turn(m).out = Turn(p).out
  BY <1>1, <1>17, <1>18, <1>19
<1>21. Turn(m).calls = Turn(p).calls
  BY <1>1, <1>16, <1>18, <1>19
<1>22. Turn(m).pending = Turn(p).pending /\ Turn(m).inTag = Turn(p).inTag /\ Turn(m).buf = Turn(p).buf
  BY <1>1, <1>14, <1>18, <1>19
<1>23. Turn(m) = Turn(p)
  BY <1>18, <1>19, <1>20, <1>21, <1>22, SameParser
<1>24. QED
  BY <1>8, <1>23 DEF m

\* How much of the pending text is sure not to begin a marker.
Sure(p) == Max({0, Len(p.pending) - Held(Tag(p))})

\* It is all but one letter less than the marker, and what the loop ends with moving.
LEMMA SureIs ==
  ASSUME NEW p \in Parsers
  PROVE  /\ Sure(p) \in 0..Len(p.pending) /\ Sure(p) \in Nat
         /\ Sure(p) = IF Len(p.pending) >= Len(Tag(p)) THEN Len(p.pending) - Len(Tag(p)) + 1 ELSE 0
         /\ Rest(p) = Moved(p, Sure(p))
<1> DEFINE n == Len(p.pending)
           k == Len(Tag(p))
           T == {0, n - (k - 1)}
           x == IF n >= k THEN n - k + 1 ELSE 0
<1>1. n \in Nat /\ k \in Nat /\ k # 0
  BY PartsOf, TagIs
<1>2. Sure(p) = Max(T)
  BY DEF Sure, Held
<1> HIDE DEF n, k
<1>3. x \in T /\ \A y \in T : x >= y
  BY <1>1
<1>4. \A y \in T : (\A z \in T : y >= z) => y = x
  BY <1>1
<1>5. Max(T) \in T /\ \A y \in T : Max(T) >= y
  <2> HIDE DEF x, T
  <2>1. QED
    BY <1>3 DEF Max
<1>6. Max(T) = x
  BY <1>4, <1>5
<1>7. x \in 0..n /\ x \in Nat
  BY <1>1
<1>8. Rest(p) = Moved(p, Sure(p))
  BY DEF Rest, Sure
<1>9. QED
  BY <1>2, <1>6, <1>7, <1>8 DEF n, k

\* What is moved in two steps is moved in one.
LEMMA MovedTwice ==
  ASSUME NEW p \in Parsers, NEW k \in 0..Len(p.pending), NEW n \in 0..Len(p.pending) - k
  PROVE  Moved(Moved(p, k), n) = Moved(p, k + n)
<1> DEFINE m == Moved(p, k)
           s == p.pending
           q == Moved(m, n)
           r == Moved(p, k + n)
<1>1. /\ m \in Parsers /\ m.pending = Drop(s, k) /\ m.inTag = p.inTag /\ m.calls = p.calls
      /\ m.buf = (IF p.inTag THEN p.buf \o Take(s, k) ELSE p.buf)
      /\ m.out = (IF p.inTag THEN p.out ELSE p.out \o Take(s, k))
  BY MovedIs
<1>2. /\ s \in Strings /\ Len(s) \in Nat /\ k \in Nat /\ n \in Nat
      /\ p.buf \in Strings /\ p.out \in Strings
      /\ k + n \in 0..Len(s)
  BY PartsOf
<1>3. /\ Drop(s, k) \in Strings /\ Len(Drop(s, k)) = Len(s) - k /\ n \in 0..Len(Drop(s, k))
      /\ Take(s, k) \in Strings
  BY <1>2, DropIs, TakeIs
<1>4. Take(Drop(s, k), n) \in Strings
  BY <1>3, TakeIs
<1>5. Take(s, k) \o Take(Drop(s, k), n) = Take(s, k + n) /\ Drop(Drop(s, k), n) = Drop(s, k + n)
  BY <1>2, TakeDrop, DropDrop
<1>6. \A b \in Strings : (b \o Take(s, k)) \o Take(Drop(s, k), n) = b \o Take(s, k + n)
  <2> DEFINE x == Take(s, k)
             y == Take(Drop(s, k), n)
  <2>1. x \in Strings /\ y \in Strings /\ x \o y = Take(s, k + n)
    BY <1>3, <1>4, <1>5
  <2> HIDE DEF x, y
  <2>2. \A b \in Strings : (b \o x) \o y = b \o (x \o y)
    BY <2>1, CatTwice
  <2>3. \A b \in Strings : (b \o x) \o y = b \o Take(s, k + n)
    BY <2>1, <2>2
  <2>4. QED
    BY <2>3 DEF x, y
<1>7. /\ r \in Parsers /\ r.pending = Drop(s, k + n) /\ r.inTag = p.inTag /\ r.calls = p.calls
      /\ r.buf = (IF p.inTag THEN p.buf \o Take(s, k + n) ELSE p.buf)
      /\ r.out = (IF p.inTag THEN p.out ELSE p.out \o Take(s, k + n))
  BY <1>2, MovedIs
<1> HIDE DEF m
<1>8. /\ q \in Parsers /\ q.pending = Drop(m.pending, n) /\ q.inTag = m.inTag /\ q.calls = m.calls
      /\ q.buf = (IF m.inTag THEN m.buf \o Take(m.pending, n) ELSE m.buf)
      /\ q.out = (IF m.inTag THEN m.out ELSE m.out \o Take(m.pending, n))
  <2>1. n \in 0..Len(m.pending)
    BY <1>1, <1>3
  <2>2. QED
    BY <1>1, <2>1, MovedIs
<1> HIDE DEF s, q, r
<1>9. q.pending = r.pending /\ q.inTag = r.inTag /\ q.calls = r.calls
  BY <1>1, <1>5, <1>7, <1>8
<1>10. q.buf = r.buf
  BY <1>1, <1>2, <1>6, <1>7, <1>8
<1>11. q.out = r.out
  BY <1>1, <1>2, <1>6, <1>7, <1>8
<1>12. q = r
  BY <1>7, <1>8, <1>9, <1>10, <1>11, SameParser
<1>13. QED
  BY <1>12 DEF m, q, r

\* Text may arrive before or after others is moved.
LEMMA MovedMore ==
  ASSUME NEW p \in Parsers, NEW k \in 0..Len(p.pending), NEW u \in Strings
  PROVE  More(Moved(p, k), u) = Moved(More(p, u), k)
<1> DEFINE m == Moved(p, k)
           P == More(p, u)
           q == More(m, u)
           r == Moved(P, k)
<1>1. /\ m \in Parsers /\ m.pending = Drop(p.pending, k) /\ m.inTag = p.inTag /\ m.calls = p.calls
      /\ m.buf = (IF p.inTag THEN p.buf \o Take(p.pending, k) ELSE p.buf)
      /\ m.out = (IF p.inTag THEN p.out ELSE p.out \o Take(p.pending, k))
  BY MovedIs
<1>2. /\ P \in Parsers /\ P.pending = p.pending \o u
      /\ P.inTag = p.inTag /\ P.buf = p.buf /\ P.calls = p.calls /\ P.out = p.out
  BY MoreIs
<1>3. p.pending \in Strings /\ k \in 0..Len(p.pending \o u)
  BY PartsOf, CatIs
<1>4. Take(p.pending \o u, k) = Take(p.pending, k) /\ Drop(p.pending \o u, k) = Drop(p.pending, k) \o u
  BY <1>3, TakeCat, DropCat
<1> HIDE DEF m, P
<1>5. /\ q \in Parsers /\ q.pending = m.pending \o u
      /\ q.inTag = m.inTag /\ q.buf = m.buf /\ q.calls = m.calls /\ q.out = m.out
  BY <1>1, MoreIs
<1>6. /\ r \in Parsers /\ r.pending = Drop(P.pending, k) /\ r.inTag = P.inTag /\ r.calls = P.calls
      /\ r.buf = (IF P.inTag THEN P.buf \o Take(P.pending, k) ELSE P.buf)
      /\ r.out = (IF P.inTag THEN P.out ELSE P.out \o Take(P.pending, k))
  <2>1. k \in 0..Len(P.pending)
    BY <1>2, <1>3
  <2>2. QED
    BY <1>2, <2>1, MovedIs
<1> HIDE DEF q, r
<1>7. q.pending = r.pending /\ q.inTag = r.inTag /\ q.calls = r.calls
  BY <1>1, <1>2, <1>4, <1>5, <1>6
<1>8. q.buf = r.buf /\ q.out = r.out
  BY <1>1, <1>2, <1>4, <1>5, <1>6
<1>9. q = r
  BY <1>5, <1>6, <1>7, <1>8, SameParser
<1>10. QED
  BY <1>9 DEF m, P, q, r

\* Without a marker, what is sure can be moved in advance.
LEMMA RestMoved ==
  ASSUME NEW p \in Parsers, NEW k \in 0..Sure(p)
  PROVE  Rest(Moved(p, k)) = Rest(p)
<1> DEFINE m == Moved(p, k)
           n == Len(p.pending)
           h == Len(Tag(p))
<1>1. /\ Sure(p) \in 0..n /\ n \in Nat /\ h \in Nat /\ h # 0
      /\ Sure(p) = IF n >= h THEN n - h + 1 ELSE 0
      /\ p.pending \in Strings
  BY SureIs, PartsOf, TagIs
<1>2. k \in 0..n /\ k \in Nat
  BY <1>1
<1>3. m \in Parsers /\ m.pending = Drop(p.pending, k) /\ m.inTag = p.inTag
  BY <1>2, MovedIs
<1>4. Len(m.pending) = n - k
  BY <1>1, <1>2, <1>3, DropIs
<1> HIDE DEF m
<1>5. Len(Tag(m)) = h
  BY <1>3 DEF Tag
<1> HIDE DEF n, h
<1>6. Sure(m) = IF n - k >= h THEN n - k - h + 1 ELSE 0
  BY <1>3, <1>4, <1>5, SureIs
<1>7. k + Sure(m) = Sure(p) /\ Sure(m) \in 0..n - k
  BY <1>1, <1>2, <1>6
<1>8. Moved(Moved(p, k), Sure(m)) = Moved(p, k + Sure(m))
  BY <1>2, <1>7, MovedTwice DEF n
<1>9. QED
  BY <1>3, <1>7, <1>8, SureIs DEF m

-----------------------------------------------------------------------------
\* The loop

\* The loop is what it is written as: turn after turn.
LEMMA TurnsAre ==
  ASSUME NEW p \in Parsers
  PROVE  /\ Turns(p)[0] = p
         /\ \A n \in Nat : Turns(p)[n] \in Parsers /\ Turns(p)[n + 1] = Turn(Turns(p)[n])
<1> DEFINE f == [q \in Parsers |-> Turn(q)]
           Is(w) == w = [n \in Nat |-> IF n = 0 THEN p ELSE Turn(w[n - 1])]
<1>1. f \in [Parsers -> Parsers]
  BY TurnType
<1>2. PICK w \in [Nat -> Parsers] : w[0] = p /\ \A n \in Nat : w[n + 1] = f[w[n]]
  <2> HIDE DEF f
  <2>1. \A a \in Parsers : \E w \in [Nat -> Parsers] : w[0] = a /\ \A n \in Nat : w[n + 1] = f[w[n]]
    BY <1>1, Iterates, SMTT(60)
  <2>2. QED
    BY <2>1
<1>3. Is(w)
  <2>1. ASSUME NEW n \in Nat, n # 0 PROVE w[n] = Turn(w[n - 1])
    <3>1. n - 1 \in Nat /\ (n - 1) + 1 = n
      BY <2>1
    <3>2. w[(n - 1) + 1] = f[w[n - 1]] /\ w[n - 1] \in Parsers
      BY <1>2, <3>1
    <3>3. QED
      BY <3>1, <3>2
  <2>2. \A n \in Nat : w[n] = IF n = 0 THEN p ELSE Turn(w[n - 1])
    BY <1>2, <2>1
  <2>3. QED
    BY <2>2
<1>4. Turns(p) = CHOOSE x : Is(x)
  BY DEF Turns
<1>5. Is(Turns(p))
  <2> HIDE DEF Is
  <2>1. QED
    BY <1>3, <1>4
<1>6. \A n \in Nat : Turns(p)[n] = IF n = 0 THEN p ELSE Turn(Turns(p)[n - 1])
  BY <1>5
<1>7. Turns(p)[0] = p
  BY <1>6
<1>8. ASSUME NEW n \in Nat PROVE Turns(p)[n + 1] = Turn(Turns(p)[n])
  <2>1. n + 1 \in Nat /\ n + 1 # 0 /\ (n + 1) - 1 = n
    OBVIOUS
  <2>2. QED
    BY <1>6, <2>1
<1>9. \A n \in Nat : Turns(p)[n] \in Parsers
  <2> DEFINE P == {n \in Nat : Turns(p)[n] \in Parsers}
  <2>1. 0 \in P
    BY <1>7
  <2>2. \A n \in Nat : n \in P => n + 1 \in P
    BY <1>8, TurnType
  <2> HIDE DEF P
  <2>3. Nat \subseteq P
    BY <2>1, <2>2, EveryNumber
  <2>4. QED
    BY <2>3 DEF P
<1>10. QED
  BY <1>7, <1>8, <1>9

\* The turns after the first are those of where it led.
LEMMA TurnsAfter ==
  ASSUME NEW p \in Parsers, NEW n \in Nat
  PROVE  Turns(Turn(p))[n] = Turns(p)[n + 1]
<1> DEFINE P == {k \in Nat : Turns(Turn(p))[k] = Turns(p)[k + 1]}
<1>1. Turn(p) \in Parsers
  BY TurnType
<1>2. 0 \in P
  <2>1. Turns(p)[0] = p /\ Turns(p)[0 + 1] = Turn(Turns(p)[0]) /\ Turns(Turn(p))[0] = Turn(p)
    BY <1>1, TurnsAre
  <2>2. QED
    BY <2>1
<1>3. ASSUME NEW k \in Nat, k \in P PROVE k + 1 \in P
  <2>1. Turns(Turn(p))[k + 1] = Turn(Turns(Turn(p))[k])
    BY <1>1, TurnsAre
  <2>2. k + 1 \in Nat /\ Turns(p)[(k + 1) + 1] = Turn(Turns(p)[k + 1])
    BY TurnsAre
  <2>3. QED
    BY <1>3, <2>1, <2>2
<1> HIDE DEF P
<1>4. Nat \subseteq P
  BY <1>2, <1>3, EveryNumber
<1>5. QED
  BY <1>4 DEF P

\* The loop comes to rest: each turn takes a letter, or nothing more is found.
LEMMA Settles ==
  ASSUME NEW p \in Parsers, NEW n \in Nat, Len(p.pending) <= n
  PROVE  Found(Turns(p)[n]) = {}
<1> DEFINE q(k) == Turns(p)[k]
           P == {k \in Nat : Found(q(k)) = {} \/ Len(q(k).pending) + k <= Len(p.pending)}
<1>1. \A k \in Nat : q(k) \in Parsers /\ q(k + 1) = Turn(q(k))
  BY TurnsAre
<1>2. q(0) = p /\ Len(p.pending) \in Nat
  BY TurnsAre, PartsOf
<1> HIDE DEF q
<1>3. 0 \in P
  BY <1>2
<1>4. ASSUME NEW k \in Nat, k \in P PROVE k + 1 \in P
  <2>1. q(k) \in Parsers /\ q(k + 1) = Turn(q(k)) /\ q(k + 1) \in Parsers
    BY <1>1, TurnType
  <2>2. Len(q(k).pending) \in Nat /\ Len(q(k + 1).pending) \in Nat
    BY <2>1, PartsOf
  <2>3. CASE Found(q(k)) = {}
    BY <2>1, <2>3, TurnType
  <2>4. CASE Found(q(k)) # {}
    <3>1. Len(q(k + 1).pending) < Len(q(k).pending)
      BY <2>1, <2>4, TurnType
    <3>2. Len(q(k).pending) + k <= Len(p.pending)
      BY <1>4, <2>4
    <3>3. \A a, b, l \in Nat : b < a /\ a + k <= l => b + (k + 1) <= l
      OBVIOUS
    <3>4. Len(q(k + 1).pending) + (k + 1) <= Len(p.pending)
      BY <1>2, <2>2, <3>1, <3>2, <3>3
    <3>5. k + 1 \in Nat
      OBVIOUS
    <3>6. QED
      BY <3>4, <3>5
  <2>5. QED
    BY <2>3, <2>4
<1>5. n \in P
  <2> HIDE DEF P
  <2>1. Nat \subseteq P
    BY <1>3, <1>4, EveryNumber
  <2>2. QED
    BY <2>1
<1>6. CASE Len(q(n).pending) + n <= Len(p.pending)
  <2>1. Len(q(n).pending) \in Nat /\ q(n).pending \in Strings
    BY <1>1, PartsOf
  <2>2. Len(q(n).pending) = 0
    BY <1>2, <1>6, <2>1
  <2>3. 1..Len(q(n).pending) = {}
    BY <2>2
  <2>4. QED
    BY <2>1, <2>3, OccurIn DEF Found, q
<1>7. QED
  BY <1>5, <1>6 DEF q

\* A parser at rest stays where it is.
LEMMA Rests ==
  ASSUME NEW p \in Parsers, NEW n \in Nat, NEW m \in Nat, Found(Turns(p)[n]) = {}, n <= m
  PROVE  Turns(p)[m] = Turns(p)[n]
<1> DEFINE P == {k \in Nat : Turns(p)[n + k] = Turns(p)[n]}
<1>1. 0 \in P
  OBVIOUS
<1>2. ASSUME NEW k \in Nat, k \in P PROVE k + 1 \in P
  <2>1. n + k \in Nat /\ (n + k) + 1 = n + (k + 1)
    OBVIOUS
  <2>2. Turns(p)[(n + k) + 1] = Turn(Turns(p)[n + k]) /\ Turns(p)[n] \in Parsers
    BY <2>1, TurnsAre
  <2>3. QED
    BY <1>2, <2>1, <2>2, TurnType
<1>3. m - n \in P
  <2> HIDE DEF P
  <2>1. Nat \subseteq P
    BY <1>1, <1>2, EveryNumber
  <2>2. m - n \in Nat
    OBVIOUS
  <2>3. QED
    BY <2>1, <2>2
<1>4. n + (m - n) = m
  OBVIOUS
<1>5. QED
  BY <1>3, <1>4

\* Where a parser comes to rest is what feeding it leads to, however long that takes.
LEMMA FeedIs ==
  ASSUME NEW p \in Parsers, NEW n \in Nat, Found(Turns(p)[n]) = {}
  PROVE  Feed(p) = Rest(Turns(p)[n])
<1> DEFINE k == Len(p.pending)
<1>1. k \in Nat /\ Found(Turns(p)[k]) = {}
  <2>1. k \in Nat /\ Len(p.pending) <= k
    BY PartsOf
  <2>2. QED
    BY <2>1, Settles
<1>2. Feed(p) = Rest(Turns(p)[k])
  BY DEF Feed
<1> HIDE DEF k
<1>3. Turns(p)[k] = Turns(p)[n]
  BY <1>1, Rests
<1>4. QED
  BY <1>2, <1>3

\* A turn can be made in advance.
LEMMA FeedTurn ==
  ASSUME NEW p \in Parsers
  PROVE  Feed(Turn(p)) = Feed(p)
<1> DEFINE q == Turn(p)
           k == Len(q.pending)
<1>1. q \in Parsers
  BY TurnType
<1> HIDE DEF q
<1>2. k \in Nat /\ Found(Turns(q)[k]) = {}
  <2>1. k \in Nat /\ Len(q.pending) <= k
    BY <1>1, PartsOf
  <2>2. QED
    BY <1>1, <2>1, Settles
<1> HIDE DEF k
<1>3. Turns(q)[k] = Turns(p)[k + 1] /\ k + 1 \in Nat
  BY <1>2, TurnsAfter DEF q
<1>4. Feed(q) = Rest(Turns(q)[k]) /\ Feed(p) = Rest(Turns(p)[k + 1])
  BY <1>1, <1>2, <1>3, FeedIs
<1>5. QED
  BY <1>3, <1>4 DEF q

\* Without a marker there is no turn.
LEMMA FeedRest ==
  ASSUME NEW p \in Parsers, Found(p) = {}
  PROVE  Feed(p) = Rest(p)
BY TurnsAre, FeedIs

\* What was held back is enough: what has been moved begins no marker.
LEMMA HeldIsEnough ==
  ASSUME NEW p \in Parsers, Found(p) = {}, NEW u \in Strings, NEW i \in Found(More(p, u))
  PROVE  Sure(p) < i
<1> DEFINE P == More(p, u)
           s == p.pending
           t == Tag(p)
<1>1. P \in Parsers /\ P.pending = s \o u /\ Tag(P) = t
  BY MoreIs DEF Tag
<1>2. /\ s \in Strings /\ Len(s) \in Nat /\ t \in Strings /\ t # <<>> /\ Len(t) \in Nat /\ Len(t) # 0
      /\ Sure(p) \in Nat
      /\ Sure(p) = IF Len(s) >= Len(t) THEN Len(s) - Len(t) + 1 ELSE 0
  BY PartsOf, TagIs, SureIs
<1>3. i \in Occurrences(t, s \o u)
  BY <1>1 DEF Found
<1>4. i \in 1..Len(s \o u)
  BY <1>2, <1>3, CatIs, OccurIn
<1>5. i \notin Occurrences(t, s)
  BY DEF Found
<1> HIDE DEF s, t
<1>6. i \in Nat /\ i # 0
  BY <1>4
<1>7. SUFFICES ASSUME i <= Sure(p) PROVE FALSE
  BY <1>2, <1>6
<1>8. i \in 1..Len(s) /\ i + Len(t) - 1 <= Len(s)
  BY <1>2, <1>6, <1>7
<1>9. QED
  BY <1>2, <1>3, <1>5, <1>8, OccursCat

\* Letting go what is sure does not matter to what comes.
LEMMA RestMore ==
  ASSUME NEW p \in Parsers, Found(p) = {}, NEW u \in Strings
  PROVE  Feed(More(Rest(p), u)) = Feed(More(p, u))
<1> DEFINE P == More(p, u)
           k == Sure(p)
           M == Moved(P, k)
<1>1. P \in Parsers /\ P.pending = p.pending \o u /\ Tag(P) = Tag(p)
  BY MoreIs DEF Tag
<1>2. /\ k \in 0..Len(p.pending) /\ k \in Nat /\ p.pending \in Strings /\ Len(p.pending) \in Nat
      /\ Len(Tag(p)) \in Nat
      /\ k = IF Len(p.pending) >= Len(Tag(p)) THEN Len(p.pending) - Len(Tag(p)) + 1 ELSE 0
  BY SureIs, PartsOf, TagIs
<1>3. Len(P.pending) = Len(p.pending) + Len(u) /\ Len(u) \in Nat
  BY <1>1, <1>2, CatIs
<1>4. \A i \in Found(P) : k < i
  BY HeldIsEnough
<1>5. More(Rest(p), u) = M
  BY <1>2, SureIs, MovedMore
<1> HIDE DEF P
<1>6. k \in 0..Len(P.pending)
  BY <1>2, <1>3
<1>7. k \in 0..Sure(P)
  <2>1. Sure(P) = IF Len(P.pending) >= Len(Tag(P)) THEN Len(P.pending) - Len(Tag(P)) + 1 ELSE 0
    BY <1>1, SureIs
  <2>2. QED
    BY <1>1, <1>2, <1>3, <2>1
<1>8. M \in Parsers /\ M.pending = Drop(P.pending, k) /\ Tag(M) = Tag(P)
  <2>1. M \in Parsers /\ M.pending = Drop(P.pending, k) /\ M.inTag = P.inTag
    <3> HIDE DEF k
    <3>1. QED
      BY <1>1, <1>6, MovedIs
  <2>2. QED
    BY <2>1 DEF Tag
<1> HIDE DEF k, M
<1>9. CASE Found(P) = {}
  <2>1. \A i \in Found(M) : k + i \in Found(P)
    <3>1. P.pending \in Strings /\ M.pending \in Strings /\ Tag(P) \in Strings /\ Tag(P) # <<>>
      BY <1>1, <1>8, PartsOf, TagIs
    <3>2. Found(M) \subseteq Nat
      BY <1>8, <3>1, OccurIn DEF Found
    <3>3. \A i \in Nat : i \in Occurrences(Tag(P), Drop(P.pending, k))
                          => k + i \in Occurrences(Tag(P), P.pending)
      BY <1>6, <3>1, OccursDrop
    <3>4. QED
      BY <1>8, <3>2, <3>3 DEF Found
  <2>2. Found(M) = {}
    BY <1>9, <2>1
  <2>3. Feed(M) = Rest(M) /\ Feed(P) = Rest(P)
    BY <1>1, <1>8, <1>9, <2>2, FeedRest
  <2>4. Rest(M) = Rest(P)
    BY <1>1, <1>7, RestMoved DEF M
  <2>5. QED
    BY <1>5, <2>3, <2>4 DEF P
<1>10. CASE Found(P) # {}
  <2>1. Turn(M) = Turn(P)
    BY <1>1, <1>4, <1>6, <1>10, TurnMoved DEF M
  <2>2. Feed(Turn(M)) = Feed(M) /\ Feed(Turn(P)) = Feed(P)
    BY <1>1, <1>8, FeedTurn
  <2>3. QED
    BY <1>5, <2>1, <2>2 DEF P
<1>11. QED
  BY <1>9, <1>10

\* A turn can be made before the rest arrives.
LEMMA TurnsMore ==
  ASSUME NEW p \in Parsers, NEW u \in Strings, NEW n \in Nat
  PROVE  Feed(More(Turns(p)[n], u)) = Feed(More(p, u))
<1> DEFINE q(k) == Turns(p)[k]
           P == {k \in Nat : Feed(More(q(k), u)) = Feed(More(p, u))}
<1>1. q(0) = p /\ \A k \in Nat : q(k) \in Parsers /\ q(k + 1) = Turn(q(k))
  BY TurnsAre
<1> HIDE DEF q
<1>2. 0 \in P
  BY <1>1
<1>3. ASSUME NEW k \in Nat, k \in P PROVE k + 1 \in P
  <2>1. q(k) \in Parsers /\ q(k + 1) = Turn(q(k))
    BY <1>1
  <2>2. CASE Found(q(k)) = {}
    <3>1. q(k + 1) = q(k)
      BY <2>1, <2>2, TurnType
    <3>2. QED
      BY <1>3, <3>1
  <2>3. CASE Found(q(k)) # {}
    <3>1. More(q(k + 1), u) = Turn(More(q(k), u))
      BY <2>1, <2>3, TurnMore
    <3>2. More(q(k), u) \in Parsers
      BY <2>1, MoreIs
    <3>3. Feed(More(q(k + 1), u)) = Feed(More(q(k), u))
      BY <3>1, <3>2, FeedTurn
    <3>4. QED
      BY <1>3, <3>3
  <2>4. QED
    BY <2>2, <2>3
<1>4. n \in P
  <2> HIDE DEF P
  <2>1. Nat \subseteq P
    BY <1>2, <1>3, EveryNumber
  <2>2. QED
    BY <2>1
<1>5. QED
  BY <1>4 DEF q

\* A text cut in two leads where the whole leads.
LEMMA FeedMore ==
  ASSUME NEW p \in Parsers, NEW u \in Strings
  PROVE  Feed(More(Feed(p), u)) = Feed(More(p, u))
<1> DEFINE k == Len(p.pending)
           q == Turns(p)[k]
<1>1. k \in Nat /\ Found(q) = {}
  <2>1. k \in Nat /\ Len(p.pending) <= k
    BY PartsOf
  <2>2. QED
    BY <2>1, Settles
<1>2. Feed(p) = Rest(q)
  BY DEF Feed
<1> HIDE DEF k
<1>3. q \in Parsers /\ Feed(More(q, u)) = Feed(More(p, u))
  BY <1>1, TurnsAre, TurnsMore
<1>4. Feed(More(Rest(q), u)) = Feed(More(q, u))
  BY <1>1, <1>3, RestMore
<1>5. QED
  BY <1>2, <1>3, <1>4

\* Where feeding leads is a parser.
LEMMA FeedType ==
  ASSUME NEW p \in Parsers
  PROVE  Feed(p) \in Parsers
<1> DEFINE q == Turns(p)[Len(p.pending)]
<1>1. q \in Parsers
  BY PartsOf, TurnsAre
<1>2. Feed(p) = Rest(q)
  BY DEF Feed
<1> HIDE DEF q
<1>3. QED
  BY <1>1, <1>2, SureIs, MovedIs

-----------------------------------------------------------------------------
\* What was let through before

\* With t let through before.
Say(p, t) == [p EXCEPT !.out = t \o @]

\* It changes nothing else.
LEMMA SayIs ==
  ASSUME NEW p \in Parsers, NEW t \in Strings
  PROVE  /\ Say(p, t) \in Parsers /\ Say(p, t).out = t \o p.out
         /\ Say(p, t).pending = p.pending /\ Say(p, t).inTag = p.inTag
         /\ Say(p, t).buf = p.buf /\ Say(p, t).calls = p.calls
         /\ Tag(Say(p, t)) = Tag(p) /\ Found(Say(p, t)) = Found(p)
<1> DEFINE o == t \o p.out
<1>1. o \in Strings
  BY PartsOf, CatIs
<1>2. Say(p, t) = [p EXCEPT !.out = o]
  BY DEF Say, Parsers
<1> HIDE DEF o
<1>3. /\ Say(p, t) \in Parsers /\ Say(p, t).out = o
      /\ Say(p, t).pending = p.pending /\ Say(p, t).inTag = p.inTag
      /\ Say(p, t).buf = p.buf /\ Say(p, t).calls = p.calls
  BY <1>1, <1>2 DEF Parsers
<1>4. Tag(Say(p, t)) = Tag(p)
  BY <1>3 DEF Tag
<1>5. Found(Say(p, t)) = Found(p)
  BY <1>3, <1>4 DEF Found
<1>6. QED
  BY <1>3, <1>4, <1>5 DEF o

\* Text is moved behind what was let through before.
LEMMA MovedSay ==
  ASSUME NEW p \in Parsers, NEW t \in Strings, NEW n \in 0..Len(p.pending)
  PROVE  Moved(Say(p, t), n) = Say(Moved(p, n), t)
<1> DEFINE S == Say(p, t)
           m == Moved(p, n)
           x == Take(p.pending, n)
           q == Moved(S, n)
           r == Say(m, t)
<1>1. /\ S \in Parsers /\ S.out = t \o p.out /\ S.pending = p.pending /\ S.inTag = p.inTag
      /\ S.buf = p.buf /\ S.calls = p.calls
  BY SayIs
<1>2. /\ m \in Parsers /\ m.pending = Drop(p.pending, n) /\ m.inTag = p.inTag /\ m.calls = p.calls
      /\ m.buf = (IF p.inTag THEN p.buf \o x ELSE p.buf)
      /\ m.out = (IF p.inTag THEN p.out ELSE p.out \o x)
  BY MovedIs
<1>3. x \in Strings /\ p.out \in Strings
  BY PartsOf, TakeIs
<1>4. (t \o p.out) \o x = t \o (p.out \o x)
  BY <1>3, CatTwice
<1> HIDE DEF S, m
<1>5. /\ q \in Parsers /\ q.pending = Drop(p.pending, n) /\ q.inTag = p.inTag /\ q.calls = p.calls
      /\ q.buf = (IF p.inTag THEN p.buf \o x ELSE p.buf)
      /\ q.out = (IF p.inTag THEN S.out ELSE S.out \o x)
  <2>1. S \in Parsers /\ n \in 0..Len(S.pending)
    BY <1>1
  <2>2. /\ q \in Parsers /\ q.pending = Drop(S.pending, n) /\ q.inTag = S.inTag /\ q.calls = S.calls
        /\ q.buf = (IF S.inTag THEN S.buf \o Take(S.pending, n) ELSE S.buf)
        /\ q.out = (IF S.inTag THEN S.out ELSE S.out \o Take(S.pending, n))
    BY <2>1, MovedIs
  <2> HIDE DEF q
  <2>3. QED
    BY <1>1, <2>2
<1>6. /\ r \in Parsers /\ r.out = t \o m.out /\ r.pending = m.pending /\ r.inTag = m.inTag
      /\ r.buf = m.buf /\ r.calls = m.calls
  BY <1>2, SayIs
<1> HIDE DEF q, r, x
<1>7. q.out = r.out
  BY <1>1, <1>2, <1>4, <1>5, <1>6
<1>8. q = r
  BY <1>2, <1>5, <1>6, <1>7, SameParser
<1>9. QED
  BY <1>8 DEF q, r, S, m

\* So it is in a turn.
LEMMA TurnSay ==
  ASSUME NEW p \in Parsers, NEW t \in Strings
  PROVE  Turn(Say(p, t)) = Say(Turn(p), t)
<1> DEFINE S == Say(p, t)
           f == Min(Found(p))
           x == Take(p.pending, f - 1)
           call == p.buf \o x
           k == f - 1 + Len(Tag(p))
<1>1. /\ S \in Parsers /\ S.out = t \o p.out /\ S.pending = p.pending /\ S.inTag = p.inTag
      /\ S.buf = p.buf /\ S.calls = p.calls /\ Tag(S) = Tag(p) /\ Found(S) = Found(p)
  BY SayIs
<1> HIDE DEF S
<1>2. CASE Found(p) = {}
  <2>1. Turn(S) = S /\ Turn(p) = p
    BY <1>1, <1>2, TurnType
  <2>2. QED
    BY <2>1 DEF S
<1>3. CASE Found(p) # {}
  <2>1. f - 1 \in 0..Len(p.pending) /\ p.pending \in Strings /\ p.out \in Strings
    BY <1>3, FoundFirst, PartsOf
  <2>2. x \in Strings
    BY <2>1, TakeIs
  <2>3. (t \o p.out) \o x = t \o (p.out \o x)
    BY <2>1, <2>2, CatTwice
  <2>4. /\ Turn(p) \in Parsers /\ Turn(p).pending = Drop(p.pending, k)
        /\ Turn(p).inTag = ~ p.inTag /\ Turn(p).buf = <<>>
        /\ Turn(p).out = (IF p.inTag THEN p.out ELSE p.out \o x)
        /\ Turn(p).calls = (IF p.inTag /\ Contains(call, ">") THEN Append(p.calls, call) ELSE p.calls)
    BY <1>3, TurnIs
  <2>5. /\ Turn(S) \in Parsers /\ Turn(S).pending = Drop(p.pending, k)
        /\ Turn(S).inTag = ~ p.inTag /\ Turn(S).buf = <<>>
        /\ Turn(S).out = (IF p.inTag THEN S.out ELSE S.out \o x)
        /\ Turn(S).calls = (IF p.inTag /\ Contains(call, ">") THEN Append(p.calls, call) ELSE p.calls)
    <3>1. S \in Parsers /\ Found(S) # {} /\ f = Min(Found(S)) /\ call = S.buf \o Take(S.pending, f - 1)
      BY <1>1, <1>3
    <3> HIDE DEF f, call
    <3>2. /\ Turn(S) \in Parsers /\ Turn(S).pending = Drop(S.pending, f - 1 + Len(Tag(S)))
          /\ Turn(S).inTag = ~ S.inTag /\ Turn(S).buf = <<>>
          /\ Turn(S).out = (IF S.inTag THEN S.out ELSE S.out \o Take(S.pending, f - 1))
          /\ Turn(S).calls = (IF S.inTag /\ Contains(call, ">") THEN Append(S.calls, call) ELSE S.calls)
      BY <3>1, TurnIs
    <3>3. QED
      BY <1>1, <3>2
  <2> HIDE DEF x, call, k
  <2> DEFINE q == Turn(p)
             Q == Turn(S)
             r == Say(q, t)
  <2>6. q.pending = Q.pending /\ q.inTag = Q.inTag /\ q.buf = Q.buf /\ q.calls = Q.calls
    BY <2>4, <2>5
  <2>7. Q.out = t \o q.out
    BY <1>1, <2>3, <2>4, <2>5
  <2>8. q \in Parsers /\ Q \in Parsers
    BY <2>4, <2>5
  <2> HIDE DEF q, Q
  <2>9. /\ r \in Parsers /\ r.out = t \o q.out /\ r.pending = q.pending /\ r.inTag = q.inTag
        /\ r.buf = q.buf /\ r.calls = q.calls
    BY <2>8, SayIs
  <2> HIDE DEF r
  <2>10. Q = r
    BY <2>6, <2>7, <2>8, <2>9, SameParser
  <2>11. QED
    BY <2>10 DEF q, Q, r, S
<1>4. QED
  BY <1>2, <1>3

\* What was let through before stays before what is let through now.
LEMMA FeedSay ==
  ASSUME NEW p \in Parsers, NEW t \in Strings
  PROVE  Feed(Say(p, t)) = Say(Feed(p), t)
<1> DEFINE S == Say(p, t)
           P == {k \in Nat : Turns(S)[k] = Say(Turns(p)[k], t)}
           n == Len(p.pending)
           q == Turns(p)[n]
<1>1. S \in Parsers /\ S.pending = p.pending
  BY SayIs
<1>2. 0 \in P
  BY <1>1, TurnsAre
<1>3. ASSUME NEW k \in Nat, k \in P PROVE k + 1 \in P
  <2>1. Turns(S)[k + 1] = Turn(Turns(S)[k])
    BY <1>1, TurnsAre
  <2>2. Turns(p)[k] \in Parsers /\ Turns(p)[k + 1] = Turn(Turns(p)[k])
    BY TurnsAre
  <2>3. QED
    BY <1>3, <2>1, <2>2, TurnSay
<1>4. n \in P /\ n \in Nat
  <2> HIDE DEF P
  <2>1. Nat \subseteq P
    BY <1>2, <1>3, EveryNumber
  <2>2. n \in Nat
    BY PartsOf
  <2>3. QED
    BY <2>1, <2>2
<1>5. Turns(S)[n] = Say(q, t)
  BY <1>4
<1>6. Feed(S) = Rest(Say(q, t)) /\ Feed(p) = Rest(q)
  BY <1>1, <1>5 DEF Feed
<1>7. q \in Parsers
  BY <1>4, TurnsAre
<1> HIDE DEF q, P, S
<1>8. Sure(Say(q, t)) = Sure(q) /\ Say(q, t) \in Parsers
  BY <1>7, SayIs DEF Sure
<1>9. /\ Rest(Say(q, t)) = Moved(Say(q, t), Sure(q)) /\ Rest(q) = Moved(q, Sure(q))
      /\ Sure(q) \in 0..Len(q.pending)
  BY <1>7, <1>8, SureIs
<1>10. Rest(Say(q, t)) = Say(Rest(q), t)
  BY <1>7, <1>9, MovedSay
<1>11. QED
  BY <1>6, <1>10 DEF S

-----------------------------------------------------------------------------
\* The stream

\* What is text in a chunk is a text.
LEMMA ContentType ==
  ASSUME NEW items \in Strings
  PROVE  Content(items) \in Strings
<1> DEFINE Dom == 0..Len(items)
           Step(i, t) == IF i \in 1..Len(items)
                           THEN IF items[i] \in {"call0", "call1"} THEN t ELSE Append(t, items[i])
                           ELSE t
           S == Nat \X Strings
           f == [x \in S |-> <<x[1] + 1, Step(x[1] + 1, x[2])>>]
           Is(w) == w = [i \in Dom |-> IF i = 0 THEN <<>>
                                       ELSE IF items[i] \in {"call0", "call1"} THEN w[i - 1]
                                            ELSE Append(w[i - 1], items[i])]
<1>1. Len(items) \in Nat /\ \A i \in 1..Len(items) : items[i] \in STRING
  BY LenProperties DEF Strings
<1>2. \A i \in Nat, t \in Strings : Step(i, t) \in Strings
  BY <1>1, AppendProperties DEF Strings
<1>3. f \in [S -> S]
  <2> HIDE DEF Step
  <2>1. QED
    BY <1>2
<1>4. <<0, <<>> >> \in S /\ <<>> \in Strings
  BY EmptySeq DEF Strings
<1>5. PICK w \in [Nat -> S] : w[0] = <<0, <<>> >> /\ \A n \in Nat : w[n + 1] = f[w[n]]
  <2> HIDE DEF f, S
  <2>1. \A a \in S : \E w \in [Nat -> S] : w[0] = a /\ \A n \in Nat : w[n + 1] = f[w[n]]
    BY <1>3, Iterates, SMTT(60)
  <2>2. QED
    BY <1>4, <2>1
<1>6. \A n \in Nat : w[n][1] = n
  <2> DEFINE P == {n \in Nat : w[n][1] = n}
  <2>1. 0 \in P
    BY <1>5
  <2>2. ASSUME NEW n \in Nat, n \in P PROVE n + 1 \in P
    <3>1. w[n] \in S /\ w[n + 1] = f[w[n]]
      BY <1>5
    <3>2. f[w[n]][1] = w[n][1] + 1
      BY <3>1
    <3>3. QED
      BY <2>2, <3>1, <3>2
  <2> HIDE DEF P
  <2>3. Nat \subseteq P
    BY <2>1, <2>2, EveryNumber
  <2>4. QED
    BY <2>3 DEF P
<1> DEFINE g == [i \in Dom |-> w[i][2]]
<1>7. ASSUME NEW i \in Dom, i # 0
      PROVE  g[i] = IF items[i] \in {"call0", "call1"} THEN g[i - 1] ELSE Append(g[i - 1], items[i])
  <2>1. i - 1 \in Nat /\ i - 1 \in Dom /\ i \in 1..Len(items) /\ (i - 1) + 1 = i
    BY <1>1, <1>7
  <2>2. w[i - 1] \in S /\ w[(i - 1) + 1] = f[w[i - 1]] /\ w[i - 1][1] = i - 1
    BY <1>5, <1>6, <2>1
  <2>3. w[i][2] = Step(i, w[i - 1][2])
    <3> HIDE DEF Step
    <3>1. f[w[i - 1]][2] = Step(w[i - 1][1] + 1, w[i - 1][2])
      BY <2>2
    <3>2. QED
      BY <2>1, <2>2, <3>1
  <2>4. QED
    BY <2>1, <2>3
<1>8. Is(g)
  <2>1. g[0] = <<>> /\ 0 \in Dom
    BY <1>1, <1>5
  <2>2. \A i \in Dom : g[i] = IF i = 0 THEN <<>>
                              ELSE IF items[i] \in {"call0", "call1"} THEN g[i - 1]
                                   ELSE Append(g[i - 1], items[i])
    <3> HIDE DEF g
    <3>1. QED
      BY <1>7, <2>1
  <2>3. QED
    BY <2>2
<1> DEFINE h == CHOOSE x : Is(x)
<1>9. Content(items) = h[Len(items)]
  BY DEF Content
<1>10. Is(h)
  <2> HIDE DEF Is
  <2>1. QED
    BY <1>8
<1> HIDE DEF h
<1>11. \A i \in Dom : h[i] = IF i = 0 THEN <<>>
                             ELSE IF items[i] \in {"call0", "call1"} THEN h[i - 1]
                                  ELSE Append(h[i - 1], items[i])
  BY <1>10
<1>12. \A i \in Dom : h[i] \in Strings
  <2> DEFINE P == {i \in Nat : i \in Dom => h[i] \in Strings}
  <2>1. 0 \in P
    BY <1>4, <1>11
  <2>2. ASSUME NEW i \in Nat, i \in P PROVE i + 1 \in P
    <3>1. SUFFICES ASSUME i + 1 \in Dom PROVE h[i + 1] \in Strings
      OBVIOUS
    <3>2. i \in Dom /\ i + 1 \in 1..Len(items) /\ i + 1 # 0 /\ (i + 1) - 1 = i
      <4>1. \A l \in Nat : i + 1 \in 0..l => /\ i \in 0..l /\ i + 1 \in 1..l
                                           /\ i + 1 # 0 /\ (i + 1) - 1 = i
        OBVIOUS
      <4>2. QED
        BY <1>1, <3>1, <4>1
    <3>3. h[i] \in Strings /\ items[i + 1] \in STRING
      BY <1>1, <2>2, <3>2
    <3>4. Append(h[i], items[i + 1]) \in Strings
      BY <3>3, AppendProperties DEF Strings
    <3>5. h[i + 1] = IF items[i + 1] \in {"call0", "call1"} THEN h[i] ELSE Append(h[i], items[i + 1])
      BY <1>11, <3>1, <3>2
    <3>6. QED
      BY <3>3, <3>4, <3>5
  <2> HIDE DEF P
  <2>3. Nat \subseteq P
    BY <2>1, <2>2, EveryNumber
  <2>4. QED
    BY <1>1, <2>3 DEF P
<1>13. Len(items) \in Dom
  BY <1>1
<1>14. QED
  BY <1>9, <1>12, <1>13

\* The parser at the beginning of a pass has nothing to do.
LEMMA FreshIs ==
  /\ Fresh \in Parsers
  /\ \A p \in Parsers : p.pending = <<>> => Feed(p) = p
  /\ More(Fresh, <<>>) = Fresh
<1>1. <<>> \in Strings /\ Len(<<>>) = 0 /\ <<>> \in Seq(Strings)
  BY EmptySeq DEF Strings
<1>2. Fresh \in Parsers
  BY <1>1 DEF Fresh, Parsers
<1>3. ASSUME NEW p \in Parsers, p.pending = <<>> PROVE Feed(p) = p
  <2>1. Found(p) = {}
    <3>1. 1..Len(p.pending) = {}
      BY <1>1, <1>3
    <3>2. QED
      BY <3>1, PartsOf, OccurIn DEF Found
  <2>2. Sure(p) = 0
    BY <1>1, <1>3, SureIs
  <2>3. Feed(p) = Moved(p, 0)
    BY <2>1, <2>2, FeedRest, SureIs
  <2>4. 0 \in 0..Len(p.pending)
    BY <1>1, <1>3
  <2> DEFINE m == Moved(p, 0)
  <2>5. /\ m \in Parsers /\ m.pending = Drop(<<>>, 0) /\ m.inTag = p.inTag /\ m.calls = p.calls
        /\ m.buf = (IF p.inTag THEN p.buf \o Take(<<>>, 0) ELSE p.buf)
        /\ m.out = (IF p.inTag THEN p.out ELSE p.out \o Take(<<>>, 0))
    BY <1>3, <2>4, MovedIs
  <2>6. Drop(<<>>, 0) = <<>> /\ Take(<<>>, 0) = <<>>
    BY <1>1, SubSeqEmpty DEF Drop, Take
  <2>7. p.buf \o <<>> = p.buf /\ p.out \o <<>> = p.out
    BY PartsOf, ConcatEmptySeq DEF Strings
  <2> HIDE DEF m
  <2>8. m.buf = p.buf /\ m.out = p.out /\ m.pending = p.pending
    BY <1>3, <2>5, <2>6, <2>7
  <2>9. m = p
    BY <2>5, <2>8, SameParser
  <2>10. QED
    BY <2>3, <2>9 DEF m
<1>4. More(Fresh, <<>>) = Fresh
  <2>1. <<>> \o <<>> = <<>>
    BY <1>1, ConcatEmptySeq DEF Strings
  <2>2. QED
    BY <2>1 DEF More, Fresh
<1>5. QED
  BY <1>2, <1>3, <1>4

\* What the stream is made of, and how far it has come.
Streams ==
  /\ reply \in Replies /\ at \in 0..Len(reply.items)
  /\ parser \in Parsers /\ parser.out = <<>>
  /\ passed \in [came : Strings, told : Strings]

StreamInv == Streams /\ CutAnywhere

\* A pass ends within the reply.
LEMMA PassEndIs ==
  ASSUME Streams
  PROVE  PassEnd \in Nat /\ PassEnd <= Len(reply.items) + 1 /\ Len(reply.items) \in Nat
<1> DEFINE T == {i \in at + 1..Len(reply.items) : reply.items[i] = "tools"} \cup {Len(reply.items) + 1}
<1>1. Len(reply.items) \in Nat
  BY ReplyStreamAssumption, LenProperties DEF Streams
<1>2. T \subseteq Nat /\ Len(reply.items) + 1 \in T
  BY <1>1 DEF Streams
<1>3. PassEnd = Min(T)
  BY DEF PassEnd
<1> HIDE DEF T
<1>4. Min(T) \in T /\ Min(T) <= Len(reply.items) + 1
  BY <1>2, MinIs
<1>5. QED
  BY <1>1, <1>2, <1>3, <1>4

\* A part of the reply.
LEMMA ItemsType ==
  ASSUME Streams, NEW n \in Nat, at + n <= Len(reply.items)
  PROVE  SubSeq(reply.items, at + 1, at + n) \in Strings
<1>1. reply.items \in Strings /\ Len(reply.items) \in Nat /\ at \in Nat
  BY ReplyStreamAssumption, LenProperties DEF Streams, Strings
<1>2. \A i \in at + 1..at + n : i \in 1..Len(reply.items)
  BY <1>1
<1>3. \A i \in at + 1..at + n : reply.items[i] \in STRING
  BY <1>1, <1>2, ElementOfSeq DEF Strings
<1>4. at + 1 \in Int /\ at + n \in Int
  BY <1>1
<1>5. QED
  BY <1>3, <1>4, SubSeqProperties DEF Strings

\* A delta leads where the text so far and the delta lead together.
LEMMA DeltaLeads ==
  ASSUME StreamInv, reply.by # "ollama", NEW c \in Strings, NEW p, p = Feed(More(parser, c))
  PROVE  Say(p, passed.told) = Feed(More(Fresh, passed.came \o c))
<1> DEFINE told == passed.told
           came == passed.came
           q == More(Fresh, came)
<1>1. told \in Strings /\ came \in Strings /\ parser \in Parsers /\ parser.out = <<>>
  BY DEF StreamInv, Streams
<1>2. Fresh \in Parsers /\ q \in Parsers /\ More(parser, c) \in Parsers
  BY <1>1, FreshIs, MoreIs
<1>3. Say(parser, told) = Feed(q)
  <2>1. told \o <<>> = told
    BY <1>1, ConcatEmptySeq DEF Strings
  <2>2. Say(parser, told) = [parser EXCEPT !.out = told]
    BY <1>1, <2>1 DEF Say, Parsers
  <2>3. QED
    BY <2>2 DEF StreamInv, CutAnywhere
<1>4. More(Fresh, came \o c) = More(q, c)
  <2>1. q = [Fresh EXCEPT !.pending = Fresh.pending \o came]
    BY DEF More, Fresh
  <2>2. Fresh.pending \in Strings
    BY <1>2, PartsOf
  <2>3. (Fresh.pending \o came) \o c = Fresh.pending \o (came \o c)
    BY <1>1, <2>2, CatTwice
  <2>4. QED
    BY <2>1, <2>3 DEF More, Fresh
<1> HIDE DEF told, came, q
<1>5. Feed(More(q, c)) = Feed(More(Feed(q), c))
  BY <1>2, FeedMore
<1>6. More(Say(parser, told), c) = Say(More(parser, c), told)
  BY <1>1 DEF More, Say, Parsers
<1>7. Feed(Say(More(parser, c), told)) = Say(p, told)
  BY <1>1, <1>2, FeedSay
<1>8. QED
  BY <1>3, <1>4, <1>5, <1>6, <1>7 DEF told, came

\* A chunk.
LEMMA ChunkLeads ==
  ASSUME StreamInv, NEW n \in 1..Len(reply.items), Chunk(n)
  PROVE  StreamInv'
<1> DEFINE items == SubSeq(reply.items, at + 1, at + n)
           c == Content(items)
           p == Parsed(c)
<1>1. Streams
  BY DEF StreamInv
<1>2. at + n < PassEnd /\ at' = at + n /\ reply' = reply
  BY DEF Chunk
<1>3. /\ parser' = [p EXCEPT !.out = <<>>]
      /\ passed' = [came |-> passed.came \o c, told |-> passed.told \o p.out]
  BY DEF Chunk
<1>4. at \in Nat /\ n \in Nat /\ at + n <= Len(reply.items)
  BY <1>1, <1>2, PassEndIs DEF Streams
<1>5. c \in Strings
  BY <1>1, <1>4, ItemsType, ContentType
<1> HIDE DEF c
<1>6. p \in Parsers
  <2>1. parser \in Parsers
    BY <1>1 DEF Streams
  <2>2. [parser EXCEPT !.out = c] \in Parsers
    BY <1>5, <2>1 DEF Parsers
  <2>3. Feed(More(parser, c)) \in Parsers
    BY <1>5, <2>1, MoreIs, FeedType
  <2>4. QED
    BY <2>2, <2>3 DEF Parsed
<1> HIDE DEF p
<1>7. passed.came \in Strings /\ passed.told \in Strings /\ p.out \in Strings
  BY <1>1, <1>6, PartsOf DEF Streams
<1>8. passed' \in [came : Strings, told : Strings]
  BY <1>3, <1>5, <1>7, CatIs
<1>9. parser' \in Parsers /\ parser'.out = <<>>
  <2>1. <<>> \in Strings
    BY EmptySeq DEF Strings
  <2>2. QED
    BY <1>3, <1>6, <2>1 DEF Parsers
<1>10. Streams'
  <2>1. at' \in 0..Len(reply'.items)
    BY <1>1, <1>2, <1>4, PassEndIs
  <2>2. reply' \in Replies
    BY <1>1, <1>2 DEF Streams
  <2>3. QED
    BY <1>8, <1>9, <2>1, <2>2 DEF Streams
<1>11. ASSUME reply'.by # "ollama"
       PROVE  [parser' EXCEPT !.out = passed'.told] = Feed(More(Fresh, passed'.came))
  <2>1. reply.by # "ollama"
    BY <1>2, <1>11
  <2>2. p = Feed(More(parser, c))
    BY <2>1 DEF p, Parsed
  <2>3. Say(p, passed.told) = Feed(More(Fresh, passed.came \o c))
    BY <1>5, <2>1, <2>2, DeltaLeads
  <2>4. [parser' EXCEPT !.out = passed'.told] = Say(p, passed.told)
    BY <1>3, <1>6 DEF Say, Parsers
  <2>5. QED
    BY <1>3, <2>3, <2>4
<1>12. QED
  BY <1>10, <1>11 DEF StreamInv, CutAnywhere

\* The end of a pass: the next one begins with nothing.
LEMMA FinishLeads ==
  ASSUME StreamInv, NEW n \in 0..Len(reply.items), NEW start, Finish(n, start)
  PROVE  StreamInv'
<1>1. Streams
  BY DEF StreamInv
<1>2. reply' = reply /\ parser' = Fresh /\ passed' = NoText /\ at + n + 1 = PassEnd
  BY DEF Finish
<1>3. at' = at + n \/ (at' = PassEnd /\ PassEnd < Len(reply.items))
  BY DEF Finish
<1>4. at' \in 0..Len(reply'.items)
  BY <1>1, <1>2, <1>3, PassEndIs DEF Streams
<1>5. <<>> \in Strings
  BY EmptySeq DEF Strings
<1>6. passed' \in [came : Strings, told : Strings]
  BY <1>2, <1>5 DEF NoText
<1>7. Streams'
  BY <1>1, <1>2, <1>4, <1>6, FreshIs DEF Streams, Fresh
<1>8. [parser' EXCEPT !.out = passed'.told] = Feed(More(Fresh, passed'.came))
  <2>1. [parser' EXCEPT !.out = passed'.told] = Fresh
    BY <1>2 DEF Fresh, NoText
  <2>2. Fresh \in Parsers /\ Fresh.pending = <<>>
    BY FreshIs DEF Fresh
  <2>3. Feed(More(Fresh, <<>>)) = Fresh
    BY <2>2, FreshIs
  <2>4. QED
    BY <1>2, <2>1, <2>3 DEF NoText
<1>9. QED
  BY <1>7, <1>8 DEF StreamInv, CutAnywhere

\* The initial states satisfy the invariant.
LEMMA StreamBegins == StreamInit => StreamInv
<1>1. SUFFICES ASSUME StreamInit PROVE StreamInv
  OBVIOUS
<1>2. reply \in Replies /\ at = 0 /\ parser = Fresh /\ passed = NoText
  BY <1>1, Zenon DEF StreamInit
<1>3. Len(reply.items) \in Nat /\ <<>> \in Strings
  BY <1>2, ReplyStreamAssumption, LenProperties, EmptySeq DEF Strings
<1>4. Streams
  BY <1>2, <1>3, FreshIs DEF Streams, Fresh, NoText
<1>5. Fresh \in Parsers /\ Fresh.pending = <<>> /\ Feed(More(Fresh, <<>>)) = Fresh
  BY FreshIs DEF Fresh
<1>6. [parser EXCEPT !.out = passed.told] = Feed(More(Fresh, passed.came))
  BY <1>2, <1>5 DEF Fresh, NoText
<1>7. QED
  BY <1>4, <1>6 DEF StreamInv, CutAnywhere

\* Every step keeps it.
LEMMA StreamGoesOn == StreamInv /\ [StreamNext]_streamVars => StreamInv'
<1>1. SUFFICES ASSUME StreamInv, [StreamNext]_streamVars PROVE StreamInv'
  OBVIOUS
<1>2. ASSUME NEW n \in 1..Len(reply.items), Chunk(n) PROVE StreamInv'
  BY <1>1, <1>2, ChunkLeads
<1>3. ASSUME NEW n \in 0..Len(reply.items), NEW start \in {"tool_start", "tool_quiet"}, Finish(n, start)
      PROVE  StreamInv'
  BY <1>1, <1>3, FinishLeads
<1>4. ASSUME UNCHANGED <<reply, at, parser, passed>> PROVE StreamInv'
  BY <1>1, <1>4 DEF StreamInv, Streams, CutAnywhere
<1>5. CASE Cut
  BY <1>4, <1>5 DEF Cut
<1>6. CASE Fails
  BY <1>4, <1>6 DEF Fails
<1>7. CASE UNCHANGED streamVars
  BY <1>4, <1>7 DEF streamVars
<1>8. QED
  BY <1>1, <1>2, <1>3, <1>5, <1>6, <1>7 DEF StreamNext

\* However a pass of the reply is cut into deltas, the parser is where the text so
\* far, fed at once, would have led it: what it has let through, what it holds
\* back and the calls it has found are the same (llm.py, _InlineToolCallParser.feed).
THEOREM CutsDoNotMatter == StreamSpec => []CutAnywhere
<1>1. StreamInv => CutAnywhere
  BY DEF StreamInv
<1>2. QED
  BY <1>1, StreamBegins, StreamGoesOn, PTL DEF StreamSpec
=============================================================================
