------------------------------ MODULE KeyPool ------------------------------
(***************************************************************************)
(* The pool of API keys (core/util/keypool.py) and the client that draws   *)
(* on it, the language model, the embedder or the transcriber: every call  *)
(* leases a key, sends its request, and records what the answer says of    *)
(* that key, while other calls rotate the pool.  Cooldowns are mirrored to *)
(* Redis, from which a restarted server takes them up.                     *)
(*                                                                         *)
(* Time is counted down: a cooldown is the time that is left of it.        *)
(***************************************************************************)
EXTENDS Integers, FiniteSets

CONSTANTS Callers,    \* concurrent calls
          N,          \* number of keys
          Extra,      \* tries of the language model beyond the number of keys
          Good,       \* keys that the provider always serves
          Short,      \* longest cooldown after a 429
          Long,       \* cooldown of a rejected key
          Second,     \* ticks of a second, the unit in which Redis is told
          None

Keys == 0..(N - 1)

ASSUME KeyPoolAssumption ==
  /\ IsFiniteSet(Callers)
  /\ N \in Nat \ {0}
  /\ Extra \in Nat
  /\ Good \subseteq Keys
  /\ Short \in Nat \ {0}
  /\ Second \in Nat \ {0}
  /\ Long \in Nat /\ Short < Long /\ Second <= Long
  /\ None \notin Keys

VARIABLES
  idx,     \* where the pool stands
  cool,    \* what is left of a key's cooldown
  low,     \* which of a key's quotas are known to be below their floor
  stored,  \* what is left of the cooldown that Redis has
  storedLow, \* keys whose low token quota Redis has
  missed,  \* history: keys of whose last cooldown Redis was not told
  client,  \* whose pool it is
  pc,      \* where a call stands
  lease,   \* the key it has leased
  tries    \* how often it has sent

poolVars == <<idx, cool, low>>
redisVars == <<stored, storedLow, missed>>
callVars == <<pc, lease, tries>>
vars == <<poolVars, redisVars, callVars, client>>

Quotas == {"requests", "tokens"}

\* The embedder and the transcriber try as often as there are keys.
Clients == {"llm", "embedder", "stt"}
Tries(cl) == IF cl = "llm" THEN N + Extra ELSE N
MaxTries == Tries(client)

TypeOK ==
  /\ idx \in Keys
  /\ cool \in [Keys -> 0..(Long + Second)]
  /\ low \in [Keys -> SUBSET Quotas]
  /\ stored \in [Keys -> 0..Long]
  /\ storedLow \subseteq Keys /\ missed \subseteq Keys
  /\ client \in Clients
  /\ pc \in [Callers -> {"idle", "ready", "sent", "sleeping", "served", "exhausted", "broken"}]
  /\ lease \in [Callers -> Keys \cup {None}]
  /\ tries \in [Callers -> 0..MaxTries]

Init ==
  /\ idx = 0
  /\ cool = [k \in Keys |-> 0]
  /\ low = [k \in Keys |-> {}]
  /\ stored = [k \in Keys |-> 0]
  /\ storedLow = {} /\ missed = {}
  /\ client \in Clients
  /\ pc = [c \in Callers |-> "idle"]
  /\ lease = [c \in Callers |-> None]
  /\ tries = [c \in Callers |-> 0]

-----------------------------------------------------------------------------
(* The pool                                                                *)

Usable(k) == cool[k] = 0 /\ low[k] = {}

Soonest == {k \in Keys : \A j \in Keys : cool[k] <= cool[j]}

\* Fault: the scan stops one key short.
SelectedShort ==
  LET Nth(j) == (idx + j) % N
      first == {j \in 0..(N - 2) : Usable(Nth(j)) /\ \A i \in 0..(j - 1) : ~ Usable(Nth(i))}
  IN  IF first = {} THEN Soonest ELSE {Nth(j) : j \in first}

\* The key to lease: the first usable one from idx on, else one that comes
\* off its cooldown soonest.
Selected ==
  LET Nth(j) == (idx + j) % N
      first == {j \in Keys : Usable(Nth(j)) /\ \A i \in 0..(j - 1) : ~ Usable(Nth(i))}
  IN  IF first = {} THEN Soonest ELSE {Nth(j) : j \in first}

\* Redis is told whole seconds, one at least.
Seconds(t) == IF t < Second THEN Second ELSE t - (t % Second)

\* A write to Redis, which may fail unnoticed.
PersistCooldown(k, t) ==
  \/ stored' = [stored EXCEPT ![k] = Seconds(t)] /\ missed' = missed \ {k}
  \/ missed' = missed \cup {k} /\ UNCHANGED stored

\* Fault: the key that cools is the one the pool has come to.
CoolDownCurrent(k, t) ==
  /\ cool' = [cool EXCEPT ![idx] = t]
  /\ idx' = (idx + 1) % N
  /\ PersistCooldown(idx, t)
  /\ UNCHANGED <<low, storedLow>>

\* Fault: the pool stays where it is.
CoolDownStays(k, t) ==
  /\ cool' = [cool EXCEPT ![k] = t]
  /\ PersistCooldown(k, t)
  /\ UNCHANGED <<idx, low, storedLow>>

\* Fault: the cooldown is kept in memory only.
CoolDownInMemory(k, t) ==
  /\ cool' = [cool EXCEPT ![k] = t]
  /\ idx' = (k + 1) % N
  /\ UNCHANGED <<low, redisVars>>

\* Key k cools for t, and the pool moves on.
CoolDown(k, t) ==
  /\ cool' = [cool EXCEPT ![k] = t]
  /\ idx' = (k + 1) % N
  /\ PersistCooldown(k, t)
  /\ UNCHANGED <<low, storedLow>>

\* update_from_headers(): the answer says which quotas are low.  Only tokens
\* go to Redis.
UpdateFromHeaders(k, quotas) ==
  /\ low' = [low EXCEPT ![k] = quotas]
  /\ \/ storedLow' = IF "tokens" \in quotas THEN storedLow \cup {k} ELSE storedLow \ {k}
     \/ UNCHANGED storedLow
  /\ UNCHANGED <<idx, cool, stored, missed>>

-----------------------------------------------------------------------------
(* Calls                                                                   *)

Call(c) ==
  /\ pc[c] \in {"idle", "served", "exhausted", "broken"}
  /\ pc' = [pc EXCEPT ![c] = "ready"]
  /\ tries' = [tries EXCEPT ![c] = 0]
  /\ lease' = [lease EXCEPT ![c] = None]
  /\ UNCHANGED <<poolVars, redisVars>>

Send(c) ==
  /\ pc[c] = "ready"
  /\ \E k \in Selected :
       /\ idx' = k
       /\ lease' = [lease EXCEPT ![c] = k]
  /\ tries' = [tries EXCEPT ![c] = @ + 1]
  /\ pc' = [pc EXCEPT ![c] = "sent"]
  /\ UNCHANGED <<cool, low, redisVars>>

\* A key was refused: the call tries again; the language model's after a pause if
\* every key cools.
Retry(c, pauses) ==
  /\ pc' = [pc EXCEPT ![c] = IF tries[c] = MaxTries THEN "exhausted"
                             ELSE IF pauses THEN "sleeping" ELSE "ready"]
  /\ UNCHANGED <<lease, tries>>

RateLimited(c) ==
  /\ pc[c] = "sent"
  /\ lease[c] \notin Good
  /\ \E t \in 1..Short : CoolDown(lease[c], t)
  /\ Retry(c, client = "llm" /\ \A k \in Keys : cool'[k] > 0)

\* A 401, if there is another key to go to.
Rejected(c) ==
  /\ pc[c] = "sent"
  /\ lease[c] \notin Good
  /\ N > 1
  /\ CoolDown(lease[c], Long)
  /\ Retry(c, FALSE)

\* Any other answer is the call's, an error of the server included.
Answered(c) ==
  /\ pc[c] = "sent"
  /\ \E quotas \in SUBSET Quotas :
       /\ lease[c] \in Good => quotas = {}
       /\ UpdateFromHeaders(lease[c], quotas)
  /\ pc' = [pc EXCEPT ![c] = "served"]
  /\ UNCHANGED <<lease, tries>>

\* The connection fails or times out: an exception ends the call.
Broken(c) ==
  /\ pc[c] = "sent"
  /\ lease[c] \notin Good
  /\ pc' = [pc EXCEPT ![c] = "broken"]
  /\ UNCHANGED <<poolVars, redisVars, lease, tries>>

Wake(c) ==
  /\ pc[c] = "sleeping"
  /\ pc' = [pc EXCEPT ![c] = "ready"]
  /\ UNCHANGED <<poolVars, redisVars, lease, tries>>

-----------------------------------------------------------------------------
(* Time and restarts                                                       *)

Less(f) == [k \in Keys |-> IF f[k] = 0 THEN 0 ELSE f[k] - 1]

Tick ==
  /\ \E k \in Keys : cool[k] > 0 \/ stored[k] > 0
  /\ cool' = Less(cool)
  /\ stored' = Less(stored)
  /\ missed' = {k \in missed : cool'[k] > 0 \/ stored'[k] > 0}
  /\ UNCHANGED <<idx, low, storedLow, callVars>>

\* Redis keeps quotas for five minutes.
QuotaExpires(k) ==
  /\ k \in storedLow
  /\ storedLow' = storedLow \ {k}
  /\ UNCHANGED <<poolVars, stored, missed, callVars>>

\* Redis says what is left of a key's life in seconds, to the nearest.
Told(t) ==
  LET half == t + (Second \div 2)
  IN  half - (half % Second)

\* A new process: calls are gone, and the pool is what Redis remembers.
Restart ==
  /\ idx' = 0
  /\ cool' = [k \in Keys |-> Told(stored[k])]
  /\ low' = [k \in Keys |-> IF k \in storedLow THEN {"tokens"} ELSE {}]
  /\ pc' = [c \in Callers |-> "idle"]
  /\ lease' = [c \in Callers |-> None]
  /\ tries' = [c \in Callers |-> 0]
  /\ missed' = {}
  /\ UNCHANGED <<stored, storedLow>>

-----------------------------------------------------------------------------
CallStep(c) == Send(c) \/ RateLimited(c) \/ Rejected(c) \/ Answered(c) \/ Broken(c) \/ Wake(c)

Next ==
  /\ \/ \E c \in Callers : Call(c) \/ CallStep(c)
     \/ \E k \in Keys : QuotaExpires(k)
     \/ Tick
     \/ Restart
  /\ UNCHANGED client

Spec == Init /\ [][Next]_vars

-----------------------------------------------------------------------------
\* A call gets a usable key whenever the pool has one, wherever the calls
\* beside it have left the pool; else the key that cools down first.
LeaseIsBest ==
  [][\A c \in Callers : pc[c] = "ready" /\ pc'[c] = "sent" =>
       IF \E k \in Keys : Usable(k) THEN Usable(lease'[c]) ELSE lease'[c] \in Soonest]_vars

\* What a call learns is recorded on the key it was sent with, and on no
\* other, although the pool may stand elsewhere by then.
OwnKeyOnly ==
  [][\A k \in Keys :
       cool'[k] > cool[k] \/ low'[k] # low[k] =>
         \/ \E c \in Callers : pc[c] = "sent" /\ pc'[c] # "sent" /\ lease[c] = k
         \/ \A c \in Callers : pc'[c] = "idle"]_vars

\* How all the calls may stand before a key that works: how many of them are at least
\* so many keys short of it.
Standings ==
  {short \in [1..(N - 1) -> 0..Cardinality(Callers)] :
     /\ N > 1 /\ short[1] = Cardinality(Callers)
     /\ \A i, j \in 1..(N - 1) : i <= j => short[j] <= short[i]}

\* While one key works, no call runs out of tries, whatever becomes of the other
\* keys, if it has more tries than there are such standings.  A refusal that a call
\* records late turns the pool back for all of them, and the calls it turns back may do
\* the same again; but the same standing comes only once.
GoodKeyServes ==
  Good # {} /\ Cardinality(Standings) < MaxTries => \A c \in Callers : pc[c] # "exhausted"

\* A restart forgets no cooldown of which Redis could be told, and lengthens none:
\* "cooldown state is written to Redis with TTLs matching the actual cooldown
\* duration", so that what Redis lets run out and what the pool counts down are never
\* a second apart, though each is rounded to one.
RestartRemembers ==
  \A k \in Keys \ missed : stored[k] - cool[k] < Second /\ cool[k] - stored[k] < Second

-----------------------------------------------------------------------------
(* Together                                                                *)

\* A call is sent with the right key, and what it learns goes to that key.
LeasesHold == LeaseIsBest /\ OwnKeyOnly

\* The pool and what Redis keeps of it.
PoolInv == TypeOK /\ RestartRemembers
=============================================================================
