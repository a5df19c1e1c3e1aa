--------------------------- MODULE CompanionProofs ---------------------------
(* For any people, any number of requests and any bounds: who is forgotten is *)
(* never brought back, a profile holds one person's voice and what that       *)
(* person said, and an engine opens one session for it.                       *)
EXTENDS Companion, SequenceTheorems, FiniteSetTheorems, TLAPS

-----------------------------------------------------------------------------
(* The types                                                               *)

Ids == 1..MaxProfiles
Speakers == People \cup {NoOne}
ProfileType ==
  [name : {"web", "named", "none"}, voices : SUBSET People, encoder : Engines \cup {"none"},
   samples : Nat \ {0}]
Tables == UNION {[D -> ProfileType] : D \in SUBSET Ids}
Counts == UNION {[D -> Nat] : D \in SUBSET Ids}
OpType ==
  [kind : {"none", "chat", "profile", "history", "update", "enroll", "setup", "identify", "hear",
           "reset"},
   at : {"idle", "resolve", "list", "user", "listen", "profile", "name", "session", "lock", "open",
         "opened", "say", "note", "reply", "answer", "blend", "memories", "wipe", "clear"},
   pid : Nat, by : Speakers, session : Nat, lock : Nat, listed : Tables, learn : BOOLEAN]

\* A voice comes with a request that is about voices, and with no other.
Voicing == {"enroll", "setup", "identify", "hear"}
Shape(o) ==
  /\ o \in OpType
  /\ o.kind = "none" => o = Idle
  /\ o.at = "idle" => o = Idle
  /\ o.by # NoOne <=> o.kind \in Voicing

OpTypes == op \in [Procs -> OpType] /\ \A p \in Procs : Shape(op[p])

RowTypes ==
  /\ profiles \in Tables /\ blends \in Counts
  /\ sessions \subseteq [of : Ids, number : 1..serial, engine : Engines]
  /\ facts \subseteq Ids \X Speakers
  /\ created \in 0..MaxProfiles /\ serial \in Nat /\ starts \in 0..MaxStarts
  /\ link \in {"none", "open", "closed"}

Entry == [of : Nat, number : Nat]

EngineTypes ==
  /\ open \in [Engines -> Seq(Entry)]
  /\ locks \in [Engines -> Counts]
  /\ \A e \in Engines : Len(open[e]) <= MaxTracked

-----------------------------------------------------------------------------
(* Whose profiles there are                                                *)

\* A namespace is made once; a profile is made for one that is there; both go
\* together with all that refers to them.
Owned ==
  /\ DOMAIN profiles \subseteq users /\ users \subseteq 1..created
  /\ DOMAIN profiles \subseteq DOMAIN blends /\ DOMAIN blends \subseteq 1..created
  /\ gone \subseteq 1..created /\ gone \cap users = {}
  /\ \A s \in sessions : s.of \in users
  /\ \A f \in facts : f[1] \in users \cap DOMAIN blends

\* What a request works for: a profile that has been made, or one that it alone
\* is about to make.
Late == {"name", "session", "lock", "open", "opened", "say", "note", "reply", "answer", "blend"}
Named(o) ==
  /\ DOMAIN o.listed \subseteq 1..created
  /\ o.at \in Late => o.pid \in DOMAIN blends
  /\ o.at = "profile" => o.pid \in (1..created) \ DOMAIN blends
  /\ o.by # NoOne /\ o.at # "profile" => o.pid \in {0} \cup DOMAIN blends
  /\ o.at \in {"name", "memories", "wipe"} => o.by = NoOne
  /\ o.at \in {"listen", "blend"} => o.by # NoOne

Working ==
  /\ \A p \in Procs : Named(op[p])
  /\ \A p, q \in Procs :
       op[p].at = "profile" /\ op[q].at = "profile" /\ op[p].pid = op[q].pid => p = q

-----------------------------------------------------------------------------
(* Whose voices they are                                                   *)

\* One voice, and what was said in it.
Pure(i) ==
  /\ \A v, w \in profiles[i].voices : v = w
  /\ \A f \in facts : f[1] = i /\ f[2] # NoOne => f[2] \in profiles[i].voices

\* A request that comes with a voice works for a profile that holds it.
Recognized(o) ==
  o.by # NoOne /\ o.pid \in DOMAIN profiles \ unheard => o.by \in profiles[o.pid].voices

Voiceprints ==
  /\ \A i \in DOMAIN profiles \ unheard : Pure(i)
  /\ \A p \in Procs : Recognized(op[p])

-----------------------------------------------------------------------------
(* The engines' sessions                                                   *)

In(s, i, n) == \E k \in DOMAIN s : s[k].of = i /\ s[k].number = n
Has(e, i, n) == In(open[e], i, n)

\* One entry for a profile.
Apart(s) == \A j, k \in DOMAIN s : s[j].of = s[k].of => j = k
Entries == \A e \in Engines : Apart(open[e])

\* Unless the engine has dropped a session of the profile: the lock a request
\* waits for or holds is the one that is there, ...
Waiting(o) ==
  o.at \in {"lock", "open", "opened"} =>
    \/ <<Engine(o), o.pid>> \in dropped
    \/ o.pid \in DOMAIN locks[Engine(o)] /\ locks[Engine(o)][o.pid] = o.lock

\* ... there is no session while one holds it, ...
Opening(o) ==
  o.at \in {"open", "opened"} => <<Engine(o), o.pid>> \in dropped \/ \A n \in Nat : ~ Has(Engine(o), o.pid, n)

\* ... one request holds it, ...
Alone(p, q) ==
  /\ op[p].at \in {"open", "opened"} /\ op[q].at \in {"open", "opened"}
  /\ Engine(op[p]) = Engine(op[q]) /\ op[p].pid = op[q].pid
  => p = q \/ <<Engine(op[p]), op[p].pid>> \in dropped

\* ... and a row is of the session the engine keeps, or of one on its way to it.
Tracked(s) ==
  \/ <<s.engine, s.of>> \in dropped
  \/ Has(s.engine, s.of, s.number)
  \/ \E p \in Procs : /\ op[p].at = "opened" /\ Engine(op[p]) = s.engine
                      /\ op[p].pid = s.of /\ op[p].session = s.number

Guarded ==
  /\ Entries
  /\ \A p \in Procs : Waiting(op[p]) /\ Opening(op[p])
  /\ \A p, q \in Procs : Alone(p, q)
  /\ \A s \in sessions : Tracked(s)

IInv ==
  /\ OpTypes /\ RowTypes /\ EngineTypes
  /\ Owned /\ Working /\ NoLostSample
  /\ Voiceprints
  /\ Guarded /\ OneSession

-----------------------------------------------------------------------------
(* What an operation is                                                    *)

Kinds == {"none", "chat", "profile", "history", "update", "enroll", "setup", "identify", "hear",
          "reset"}
Stages == {"idle", "resolve", "list", "user", "listen", "profile", "name", "session", "lock", "open",
           "opened", "say", "note", "reply", "answer", "blend", "memories", "wipe", "clear"}

\* A table is a function from ids to rows.
LEMMA TableTypes ==
  /\ \A D \in SUBSET Ids : \A t \in [D -> ProfileType] : t \in Tables
  /\ \A t \in Tables : DOMAIN t \subseteq Ids /\ t \in [DOMAIN t -> ProfileType]
  /\ \A D \in SUBSET Ids : \A t \in [D -> Nat] : t \in Counts
  /\ \A t \in Counts : DOMAIN t \subseteq Ids /\ t \in [DOMAIN t -> Nat]
BY DEF Tables, Counts

\* No rows.
LEMMA NoRows == <<>> \in Tables /\ <<>> \in Counts /\ DOMAIN <<>> = {}
<1>1. DOMAIN <<>> = {}
  OBVIOUS
<1>2. <<>> \in [{} -> ProfileType] /\ <<>> \in [{} -> Nat]
  OBVIOUS
<1>3. QED
  BY <1>1, <1>2, TableTypes

\* One in the middle of nothing.
LEMMA IdleShape ==
  /\ Shape(Idle) /\ Idle.kind = "none" /\ Idle.at = "idle" /\ Idle.pid = 0 /\ Idle.by = NoOne
  /\ DOMAIN Idle.listed = {}
<1>1. Idle \in OpType
  BY NoRows DEF Idle, OpType, Speakers
<1>2. QED
  BY <1>1, NoRows DEF Idle, Shape, Voicing

\* One that goes on.
LEMMA GoesShape ==
  ASSUME NEW o, Shape(o), o.kind # "none", NEW a \in Stages \ {"idle"}, NEW x, x = [o EXCEPT !.at = a]
  PROVE  /\ Shape(x) /\ x.at = a /\ x.kind = o.kind /\ x.pid = o.pid /\ x.by = o.by
         /\ x.session = o.session /\ x.lock = o.lock /\ x.listed = o.listed
<1>1. /\ x \in OpType /\ x.at = a /\ x.kind = o.kind /\ x.pid = o.pid /\ x.by = o.by
      /\ x.session = o.session /\ x.lock = o.lock /\ x.listed = o.listed
  BY DEF OpType, Stages, Shape
<1>2. QED
  BY <1>1 DEF Shape

-----------------------------------------------------------------------------
(* What does not change                                                    *)

\* An engine's name.
LEMMA EngineNames == \A o : Engine(o) \in Engines
BY DEF Engine, Engines

\* One operation goes on, and the others stay as they are.
LEMMA OneGoes ==
  ASSUME OpTypes, NEW p \in Procs, NEW x, Does(p, x), Shape(x)
  PROVE  OpTypes' /\ op'[p] = x /\ \A q \in Procs \ {p} : op'[q] = op[q]
<1>1. op \in [Procs -> OpType] /\ x \in OpType /\ op' = [op EXCEPT ![p] = x]
  BY DEF OpTypes, Shape, Does
<1>2. op' \in [Procs -> OpType] /\ op'[p] = x /\ \A q \in Procs \ {p} : op'[q] = op[q]
  BY <1>1
<1>3. \A q \in Procs : Shape(op'[q])
  BY <1>2 DEF OpTypes
<1>4. QED
  BY <1>2, <1>3 DEF OpTypes

\* What requests work for, when no profile is made.
LEMMA WorkingStays ==
  ASSUME RowTypes, Working, created' \in Nat, created <= created', (DOMAIN blends)' = DOMAIN blends,
         \A q \in Procs : op'[q] = op[q] \/ (Named(op[q])' /\ op'[q].at # "profile")
  PROVE  Working'
<1>1. created \in Nat /\ 1..created \subseteq 1..created'
  BY DEF RowTypes
<1>2. ASSUME NEW q \in Procs PROVE Named(op[q])'
  <2>1. CASE op'[q] = op[q]
    <3>1. Named(op[q])
      BY DEF Working
    <3>2. QED
      BY <1>1, <2>1, <3>1 DEF Named
  <2>2. QED
    BY <2>1
<1>3. ASSUME NEW q \in Procs, NEW r \in Procs,
             op'[q].at = "profile" /\ op'[r].at = "profile" /\ op'[q].pid = op'[r].pid
      PROVE  q = r
  <2>1. op'[q] = op[q] /\ op'[r] = op[r]
    BY <1>3
  <2>2. QED
    BY <1>3, <2>1 DEF Working
<1>4. QED
  BY <1>2, <1>3 DEF Working

\* Voices, when no profile is made and no sample taken.
LEMMA VoicesStay ==
  ASSUME Voiceprints, DOMAIN profiles' \subseteq DOMAIN profiles,
         \A i \in DOMAIN profiles' : profiles'[i].voices = profiles[i].voices,
         unheard \subseteq unheard', facts' \subseteq facts,
         \A q \in Procs : op'[q] = op[q] \/ Recognized(op[q])'
  PROVE  Voiceprints'
<1>1. ASSUME NEW i \in DOMAIN profiles' \ unheard' PROVE Pure(i)'
  <2>1. Pure(i) /\ profiles'[i].voices = profiles[i].voices
    BY DEF Voiceprints
  <2>2. QED
    BY <2>1 DEF Pure
<1>2. ASSUME NEW q \in Procs PROVE Recognized(op[q])'
  <2>1. CASE op'[q] = op[q]
    <3>1. Recognized(op[q])
      BY DEF Voiceprints
    <3>2. QED
      BY <2>1, <3>1 DEF Recognized
  <2>2. QED
    BY <2>1
<1>3. QED
  BY <1>1, <1>2 DEF Voiceprints

\* Sessions, when none is opened, used or dropped.
LEMMA SessionsStay ==
  ASSUME Guarded, OneSession, UNCHANGED <<open, locks, dropped>>, sessions' \subseteq sessions,
         \A q \in Procs :
           op'[q] = op[q] \/ (op[q].at # "opened" /\ op'[q].at \notin {"lock", "open", "opened"})
  PROVE  Guarded' /\ OneSession'
<1>1. \A e, i, n : Has(e, i, n)' <=> Has(e, i, n)
  BY DEF Has
<1>2. Entries'
  BY DEF Guarded, Entries
<1>3. ASSUME NEW q \in Procs PROVE Waiting(op[q])' /\ Opening(op[q])'
  <2>1. CASE op'[q] = op[q]
    <3>1. Waiting(op[q]) /\ Opening(op[q])
      BY DEF Guarded
    <3>2. QED
      BY <1>1, <2>1, <3>1 DEF Waiting, Opening
  <2>2. CASE op'[q].at \notin {"lock", "open", "opened"}
    BY <2>2 DEF Waiting, Opening
  <2>3. QED
    BY <2>1, <2>2
<1>4. ASSUME NEW q \in Procs, NEW r \in Procs PROVE Alone(q, r)'
  <2>1. CASE op'[q] = op[q] /\ op'[r] = op[r]
    <3>1. Alone(q, r)
      BY DEF Guarded
    <3>2. QED
      BY <2>1, <3>1 DEF Alone
  <2>2. CASE op'[q].at \notin {"lock", "open", "opened"} \/ op'[r].at \notin {"lock", "open", "opened"}
    BY <2>2 DEF Alone
  <2>3. QED
    BY <2>1, <2>2
<1>5. ASSUME NEW s \in sessions' PROVE Tracked(s)'
  <2>1. Tracked(s)
    BY DEF Guarded
  <2>2. ASSUME NEW q \in Procs, op[q].at = "opened" PROVE op'[q] = op[q]
    BY <2>2
  <2>3. QED
    BY <1>1, <2>1, <2>2 DEF Tracked
<1>6. OneSession'
  BY DEF OneSession
<1>7. QED
  BY <1>2, <1>3, <1>4, <1>5, <1>6 DEF Guarded

\* A step of one operation that makes no row, opens no session and drops none.
LEMMA QuietStep ==
  ASSUME IInv, NEW p \in Procs, NEW x, Does(p, x), Shape(x), Named(x), Recognized(x),
         x.at \notin {"profile", "lock", "open", "opened"}, op[p].at # "opened",
         UNCHANGED <<db, engine, created, serial, gone, dropped, blends, link>>,
         starts' \in 0..MaxStarts, unheard \subseteq unheard'
  PROVE  IInv'
<1>1. OpTypes' /\ op'[p] = x /\ \A q \in Procs \ {p} : op'[q] = op[q]
  BY OneGoes DEF IInv
<1>2. UNCHANGED <<users, profiles, sessions, facts, open, locks, created, serial, gone, dropped, blends, link>>
  BY DEF db, engine
<1>3. RowTypes' /\ EngineTypes' /\ Owned' /\ NoLostSample'
  BY <1>2 DEF IInv, RowTypes, EngineTypes, Owned, NoLostSample
<1>4. Working'
  <2>1. Named(x)'
    BY <1>2 DEF Named
  <2>2. created' \in Nat /\ created <= created'
    BY <1>2 DEF IInv, RowTypes
  <2>3. \A q \in Procs : op'[q] = op[q] \/ (Named(op[q])' /\ op'[q].at # "profile")
    BY <1>1, <2>1 DEF Named
  <2>4. (DOMAIN blends)' = DOMAIN blends
    BY <1>2
  <2>5. QED
    BY <2>2, <2>3, <2>4, WorkingStays DEF IInv
<1>5. Voiceprints'
  <2>1. Recognized(x)'
    BY <1>2 DEF Recognized
  <2>2. \A q \in Procs : op'[q] = op[q] \/ Recognized(op[q])'
    BY <1>1, <2>1 DEF Recognized
  <2>3. \A i \in DOMAIN profiles' : profiles'[i].voices = profiles[i].voices
    BY <1>2
  <2>4. DOMAIN profiles' \subseteq DOMAIN profiles /\ facts' \subseteq facts
    BY <1>2
  <2>5. Voiceprints
    BY DEF IInv
  <2>6. QED
    BY <2>2, <2>3, <2>4, <2>5, VoicesStay
<1>6. Guarded' /\ OneSession'
  BY <1>1, <1>2, SessionsStay DEF IInv
<1>7. QED
  BY <1>1, <1>3, <1>4, <1>5, <1>6 DEF IInv

-----------------------------------------------------------------------------
(* Steps that change no row                                                *)

\* Whoever is at something is doing something.
LEMMA Doing ==
  ASSUME OpTypes, NEW p \in Procs
  PROVE  /\ Shape(op[p]) /\ op[p] \in OpType
         /\ op[p].at # "idle" => op[p].kind # "none"
BY IdleShape DEF OpTypes, Shape

\* Nothing is known of one in the middle of nothing.
LEMMA IdleNamed == Named(Idle) /\ Recognized(Idle)
BY IdleShape DEF Named, Recognized, Late

\* What a request does once it has its profile: only one without a voice goes on.
LEMMA WithProfileShape ==
  ASSUME NEW o, Shape(o), o.kind # "none", NEW x, x = WithProfile(o)
  PROVE  /\ Shape(x)
         /\ \/ x = Idle
            \/ /\ x.at \in {"session", "name"} /\ x.by = NoOne /\ x.pid = o.pid
               /\ x.kind = o.kind /\ x.listed = o.listed
<1>1. CASE o.kind \in {"chat", "history"}
  <2>1. x = [o EXCEPT !.at = "session"] /\ "session" \in Stages \ {"idle"}
    BY <1>1 DEF WithProfile, Stages
  <2>2. o.by = NoOne
    BY <1>1 DEF Shape, Voicing
  <2>3. QED
    BY <2>1, <2>2, GoesShape
<1>2. CASE o.kind = "update"
  <2>1. x = [o EXCEPT !.at = "name"] /\ "name" \in Stages \ {"idle"}
    BY <1>2 DEF WithProfile, Stages
  <2>2. o.by = NoOne
    BY <1>2 DEF Shape, Voicing
  <2>3. QED
    BY <2>1, <2>2, GoesShape
<1>3. CASE o.kind \notin {"chat", "history", "update"}
  BY <1>3, IdleShape DEF WithProfile
<1>4. QED
  BY <1>1, <1>2, <1>3

\* One that has just begun, with the profile that was given for its voice.
Begun(x) ==
  /\ Shape(x) /\ x.at \in {"resolve", "list", "user", "listen"} /\ DOMAIN x.listed = {}
  /\ x.by # NoOne => x.pid = 0 \/ (x.pid \in DOMAIN profiles /\ x.by \in profiles[x.pid].voices)
  /\ x.at = "listen" => x.by # NoOne

\* A request begins so.
LEMMA RequestBegins ==
  ASSUME RowTypes, NEW p \in Procs, Request(p)
  PROVE  \E x : Start(p, x) /\ Begun(x)
<1>1. Idle \in OpType /\ DOMAIN Idle.listed = {} /\ Idle.by = NoOne /\ Idle.pid = 0
  BY IdleShape DEF Shape
<1>2. created \in Nat /\ 0 \in Nat /\ DOMAIN profiles \subseteq Nat
  BY TableTypes, CompanionAssumption DEF RowTypes, Ids
<1> HIDE DEF Idle
<1>3. CASE Chat(p) \/ GetProfile(p)
  <2>1. PICK i \in {0} \cup 1..created :
             \/ Start(p, [Idle EXCEPT !.kind = "chat", !.at = "resolve", !.pid = i])
             \/ Start(p, [Idle EXCEPT !.kind = "profile", !.at = "resolve", !.pid = i])
    BY <1>3 DEF Chat, GetProfile
  <2>2. i \in Nat
    BY <1>2
  <2>3. /\ Begun([Idle EXCEPT !.kind = "chat", !.at = "resolve", !.pid = i])
        /\ Begun([Idle EXCEPT !.kind = "profile", !.at = "resolve", !.pid = i])
    BY <1>1, <2>2, ZenonT(60) DEF Begun, Shape, OpType, Voicing
  <2>4. QED
    BY <2>1, <2>3
<1>4. CASE GetHistory(p) \/ UpdateProfile(p) \/ Reset(p)
  <2>1. /\ Begun([Idle EXCEPT !.kind = "history", !.at = "list"])
        /\ Begun([Idle EXCEPT !.kind = "update", !.at = "list"])
        /\ Begun([Idle EXCEPT !.kind = "reset", !.at = "list"])
    BY <1>1, ZenonT(60) DEF Begun, Shape, OpType, Voicing
  <2>2. QED
    BY <1>4, <2>1 DEF GetHistory, UpdateProfile, Reset
<1>5. CASE Enroll(p) \/ SetUp(p) \/ Hear(p)
  <2>1. PICK v \in People :
             \/ Start(p, [Idle EXCEPT !.kind = "enroll", !.at = "user", !.by = v])
             \/ Start(p, [Idle EXCEPT !.kind = "setup", !.at = "user", !.by = v])
             \/ Start(p, [Idle EXCEPT !.kind = "hear", !.at = "listen", !.by = v])
    BY <1>5 DEF Enroll, SetUp, Hear
  <2>2. v \in Speakers /\ v # NoOne
    BY CompanionAssumption DEF Speakers
  <2>3. /\ Begun([Idle EXCEPT !.kind = "enroll", !.at = "user", !.by = v])
        /\ Begun([Idle EXCEPT !.kind = "setup", !.at = "user", !.by = v])
        /\ Begun([Idle EXCEPT !.kind = "hear", !.at = "listen", !.by = v])
    BY <1>1, <2>2, ZenonT(60) DEF Begun, Shape, OpType, Voicing
  <2>4. QED
    BY <2>1, <2>3
<1>6. CASE Identify(p)
  <2>1. PICK v \in People, learn \in BOOLEAN :
          \E i \in {0} \cup (IF learn THEN {j \in DOMAIN profiles : v \in profiles[j].voices} ELSE {}) :
            Start(p, [Idle EXCEPT !.kind = "identify", !.at = "listen", !.by = v, !.pid = i,
                                  !.learn = learn])
    BY <1>6 DEF Identify
  <2>2. PICK i \in {0} \cup (IF learn THEN {j \in DOMAIN profiles : v \in profiles[j].voices} ELSE {}) :
          Start(p, [Idle EXCEPT !.kind = "identify", !.at = "listen", !.by = v, !.pid = i, !.learn = learn])
    BY <2>1
  <2>3. v \in Speakers /\ v # NoOne /\ i \in Nat /\ (i = 0 \/ (i \in DOMAIN profiles /\ v \in profiles[i].voices))
    BY <1>2, CompanionAssumption DEF Speakers
  <2>4. Begun([Idle EXCEPT !.kind = "identify", !.at = "listen", !.by = v, !.pid = i, !.learn = learn])
    BY <1>1, <2>3, ZenonT(60) DEF Begun, Shape, OpType, Voicing
  <2>5. QED
    BY <2>2, <2>4
<1>7. QED
  BY <1>3, <1>4, <1>5, <1>6 DEF Request

\* A request begins.
LEMMA RequestInv ==
  ASSUME IInv, NEW p \in Procs, Request(p), UNCHANGED link
  PROVE  IInv'
<1>1. PICK x : Start(p, x) /\ Begun(x)
  BY RequestBegins DEF IInv
<1>2. op[p].kind = "none" /\ starts < MaxStarts /\ starts' = starts + 1 /\ Does(p, x)
      /\ UNCHANGED <<db, engine, created, serial, gone, dropped, unheard, blends, link>>
  BY <1>1 DEF Start, history
<1>3. op[p].at # "opened"
  BY <1>2, Doing DEF IInv
<1>4. starts' \in 0..MaxStarts
  BY <1>2, CompanionAssumption DEF IInv, RowTypes
<1>5. Named(x) /\ Recognized(x)
  <2>1. 0 \notin DOMAIN profiles /\ DOMAIN profiles \subseteq DOMAIN blends
    BY DEF IInv, Owned, RowTypes
  <2>2. QED
    BY <1>1, <2>1 DEF Begun, Named, Recognized, Late
<1>6. QED
  BY <1>1, <1>2, <1>3, <1>4, <1>5, QuietStep DEF Begun

\* What an operation of p goes on with, if that is all that changes.
LEMMA OnlyGoes ==
  ASSUME IInv, NEW p \in Procs, NEW x, Does(p, x), Shape(x), Named(x), Recognized(x),
         x.at \notin {"profile", "lock", "open", "opened"}, op[p].at # "opened",
         UNCHANGED <<db, engine, counters, gone, dropped, blends, link>>,
         unheard \subseteq unheard'
  PROVE  IInv'
<1>1. UNCHANGED <<db, engine, created, serial, gone, dropped, blends, link>> /\ starts' = starts
  BY DEF counters
<1>2. starts' \in 0..MaxStarts
  BY <1>1 DEF IInv, RowTypes
<1>3. QED
  BY <1>1, <1>2, QuietStep

\* One that works for a profile that is there.
LEMMA WorksFor ==
  ASSUME IInv, NEW x, x = Idle \/ (x.by = NoOne /\ x.pid \in DOMAIN profiles
                                   /\ x.at \notin {"profile", "listen", "blend"}
                                   /\ DOMAIN x.listed \subseteq 1..created)
  PROVE  Named(x) /\ Recognized(x)
<1>1. DOMAIN profiles \subseteq DOMAIN blends
  BY DEF IInv, Owned
<1>2. QED
  BY <1>1, IdleNamed DEF Named, Recognized, Late

\* The profile a request names, if it is there.
LEMMA ResolveInv ==
  ASSUME IInv, NEW p \in Procs, Resolve(p), UNCHANGED link
  PROVE  IInv'
<1> DEFINE o == op[p]
<1>1. o.at = "resolve" /\ UNCHANGED <<db, engine, counters, gone, dropped, unheard, blends, link>>
  BY DEF Resolve, history
<1>2. Shape(o) /\ o.kind # "none" /\ Named(o) /\ Recognized(o)
  BY <1>1, Doing DEF IInv, Working, Voiceprints
<1>3. CASE o.pid \in DOMAIN profiles
  <2>1. PICK x : x = WithProfile(o)
    OBVIOUS
  <2>2. Does(p, x)
    BY <1>3, <2>1 DEF Resolve
  <2>3. /\ Shape(x)
        /\ \/ x = Idle
           \/ x.at \in {"session", "name"} /\ x.by = NoOne /\ x.pid = o.pid /\ x.listed = o.listed
    BY <1>2, <2>1, WithProfileShape
  <2>4. Named(x) /\ Recognized(x) /\ x.at \notin {"profile", "lock", "open", "opened"}
    BY <1>2, <1>3, <2>3, WorksFor, IdleShape DEF Named
  <2>5. QED
    BY <1>1, <2>2, <2>3, <2>4, OnlyGoes
<1>4. CASE o.pid \notin DOMAIN profiles
  <2>1. PICK x : x = [o EXCEPT !.at = "list"]
    OBVIOUS
  <2>2. Does(p, x)
    BY <1>4, <2>1 DEF Resolve
  <2>3. "list" \in Stages \ {"idle"}
    BY DEF Stages
  <2>4. Shape(x) /\ x.at = "list" /\ x.pid = o.pid /\ x.by = o.by /\ x.listed = o.listed
    BY <1>2, <2>1, <2>3, GoesShape
  <2>5. Named(x) /\ Recognized(x)
    BY <1>1, <1>2, <2>4 DEF Named, Recognized, Late
  <2>6. QED
    BY <1>1, <2>2, <2>4, <2>5, OnlyGoes
<1>5. QED
  BY <1>3, <1>4

\* The anonymous profile, or a new one.
LEMMA ListWebInv ==
  ASSUME IInv, NEW p \in Procs, ListWeb(p), UNCHANGED link
  PROVE  IInv'
<1> DEFINE o == op[p]
           webs == {i \in DOMAIN profiles : profiles[i].name = "web"}
<1>1. o.at = "list" /\ UNCHANGED <<db, engine, counters, gone, dropped, unheard, blends, link>>
  BY DEF ListWeb, history
<1>2. Shape(o) /\ o \in OpType /\ o.kind # "none" /\ Named(o) /\ Recognized(o)
  BY <1>1, Doing DEF IInv, Working, Voiceprints
<1>3. ASSUME NEW i \in webs, Does(p, WithProfile([o EXCEPT !.pid = i])) PROVE IInv'
  <2>1. PICK y : y = [o EXCEPT !.pid = i]
    OBVIOUS
  <2>2. i \in Nat /\ i \in DOMAIN profiles
    BY TableTypes DEF IInv, RowTypes, Ids
  <2>3. /\ y \in OpType /\ y.pid = i /\ y.kind = o.kind /\ y.at = o.at /\ y.by = o.by /\ y.listed = o.listed
    BY <1>2, <2>1, <2>2 DEF OpType
  <2>4. Shape(y) /\ y.kind # "none"
    BY <1>1, <1>2, <2>3 DEF Shape
  <2>5. PICK x : x = WithProfile(y)
    OBVIOUS
  <2>6. /\ Shape(x)
        /\ \/ x = Idle
           \/ x.at \in {"session", "name"} /\ x.by = NoOne /\ x.pid = i /\ x.listed = o.listed
    BY <2>3, <2>4, <2>5, WithProfileShape
  <2>7. Named(x) /\ Recognized(x) /\ x.at \notin {"profile", "lock", "open", "opened"}
    BY <1>2, <2>2, <2>6, WorksFor, IdleShape DEF Named
  <2>8. Does(p, x)
    BY <1>3, <2>1, <2>5
  <2>9. QED
    BY <1>1, <2>6, <2>7, <2>8, OnlyGoes
<1>4. CASE Does(p, [o EXCEPT !.at = "user", !.pid = 0])
  <2>1. PICK x : x = [o EXCEPT !.at = "user", !.pid = 0]
    OBVIOUS
  <2>2. /\ x \in OpType /\ x.at = "user" /\ x.pid = 0 /\ x.kind = o.kind /\ x.by = o.by
        /\ x.listed = o.listed
    BY <1>2, <2>1 DEF OpType
  <2>3. Shape(x)
    BY <1>2, <2>2 DEF Shape
  <2>4. 0 \notin DOMAIN profiles
    BY TableTypes DEF IInv, RowTypes, Ids
  <2>5. Named(x) /\ Recognized(x)
    BY <1>2, <2>2, <2>4 DEF Named, Recognized, Late
  <2>6. QED
    BY <1>1, <1>4, <2>1, <2>2, <2>3, <2>5, OnlyGoes
<1>5. QED
  BY <1>3, <1>4 DEF ListWeb

\* The message, the reply, and the profiles a reset names.
LEMMA GoesInv ==
  ASSUME IInv, NEW p \in Procs, Say(p) \/ Answer(p), UNCHANGED link
  PROVE  IInv'
<1> DEFINE o == op[p]
<1>1. /\ o.at \in {"say", "answer"}
      /\ UNCHANGED <<db, engine, counters, gone, dropped, unheard, blends, link>>
      /\ Ends(p) \/ Goes(p, "note") \/ (Goes(p, "blend") /\ o.kind = "hear")
  BY DEF Say, Answer, history
<1>2. Shape(o) /\ o.kind # "none" /\ Named(o) /\ Recognized(o)
  BY <1>1, Doing DEF IInv, Working, Voiceprints
<1>3. CASE Ends(p)
  BY <1>1, <1>3, IdleShape, IdleNamed, OnlyGoes DEF Ends
<1>4. ASSUME NEW a \in {"note", "blend"}, Goes(p, a), a = "blend" => o.kind = "hear" PROVE IInv'
  <2>1. PICK x : x = [o EXCEPT !.at = a]
    OBVIOUS
  <2>2. a \in Stages \ {"idle"}
    BY DEF Stages
  <2>3. Shape(x) /\ x.at = a /\ x.pid = o.pid /\ x.by = o.by /\ x.listed = o.listed
    BY <1>2, <2>1, <2>2, GoesShape
  <2>4. Named(x) /\ Recognized(x)
    <3>1. a = "blend" => o.by # NoOne
      BY <1>2, <1>4 DEF Shape, Voicing
    <3>2. QED
      BY <1>1, <1>2, <2>3, <3>1 DEF Named, Recognized, Late
  <2>5. Does(p, x)
    BY <1>4, <2>1 DEF Goes
  <2>6. QED
    BY <1>1, <2>3, <2>4, <2>5, OnlyGoes
<1>5. QED
  BY <1>1, <1>3, <1>4

\* A reset reads whom it forgets.
LEMMA ListAllInv ==
  ASSUME IInv, NEW p \in Procs, ListAll(p), UNCHANGED link
  PROVE  IInv'
<1> DEFINE o == op[p]
<1>1. /\ o.at = "list" /\ o.kind = "reset"
      /\ UNCHANGED <<db, engine, counters, gone, dropped, unheard, blends, link>>
  BY DEF ListAll, history
<1>2. Shape(o) /\ o \in OpType /\ Named(o) /\ Recognized(o) /\ o.by = NoOne
  BY <1>1, Doing DEF IInv, Working, Voiceprints, Shape, Voicing
<1>3. PICK x : x = [o EXCEPT !.at = "memories", !.listed = profiles]
  OBVIOUS
<1>4. profiles \in Tables /\ DOMAIN profiles \subseteq 1..created
  BY DEF IInv, RowTypes, Owned
<1>5. /\ x \in OpType /\ x.at = "memories" /\ x.pid = o.pid /\ x.kind = o.kind /\ x.by = o.by
      /\ x.listed = profiles
  BY <1>2, <1>3, <1>4 DEF OpType
<1>6. Shape(x)
  BY <1>1, <1>2, <1>5 DEF Shape
<1>7. Named(x) /\ Recognized(x)
  BY <1>1, <1>2, <1>4, <1>5 DEF Named, Recognized, Late
<1>8. Does(p, x)
  BY <1>3 DEF ListAll
<1>9. QED
  BY <1>1, <1>5, <1>6, <1>7, <1>8, OnlyGoes

\* Rows that are some of the profiles.
Some(ps) == ps \in Tables /\ \A i \in DOMAIN ps : i \in DOMAIN profiles /\ ps[i] = profiles[i]

\* What is chosen from the profiles is some of them.
LEMMA ChosenAreSome ==
  ASSUME RowTypes
  PROVE  /\ Some(profiles) /\ Some(<<>>)
         /\ \A encoders : Some(Voiced(encoders))
         /\ \A encoders, is : Some(Restricted(Voiced(encoders), is))
<1>1. DOMAIN profiles \subseteq Ids /\ profiles \in [DOMAIN profiles -> ProfileType]
  BY TableTypes DEF RowTypes
<1>2. ASSUME NEW ps, Some(ps), NEW D, D \subseteq DOMAIN ps PROVE Some([i \in D |-> ps[i]])
  <2>1. /\ [i \in D |-> ps[i]] \in [D -> ProfileType] /\ D \in SUBSET Ids
        /\ \A i \in D : i \in DOMAIN profiles /\ ps[i] = profiles[i]
    BY <1>1, <1>2 DEF Some
  <2>2. [i \in D |-> ps[i]] \in Tables
    BY <2>1, TableTypes
  <2>3. QED
    BY <2>1, <2>2 DEF Some
<1>3. Some(profiles)
  BY DEF Some, RowTypes
<1>4. Some(<<>>)
  BY NoRows DEF Some
<1>5. \A encoders : Some(Voiced(encoders))
  <2>1. TAKE encoders
  <2>2. {j \in DOMAIN profiles : profiles[j].encoder \in encoders} \subseteq DOMAIN profiles
    OBVIOUS
  <2>3. QED
    BY <1>2, <1>3, <2>2 DEF Voiced
<1>6. \A encoders, is : Some(Restricted(Voiced(encoders), is))
  <2>1. TAKE encoders, is
  <2>2. DOMAIN Voiced(encoders) \cap is \subseteq DOMAIN Voiced(encoders)
    OBVIOUS
  <2>3. QED
    BY <1>2, <1>5, <2>2 DEF Restricted
<1>7. QED
  BY <1>3, <1>4, <1>5, <1>6

\* Who is taken holds a sample of the voice, or has had no other to be compared with.
LEMMA TakenInv ==
  ASSUME IInv, NEW p \in Procs, NEW ps, NEW compared, NEW at \in {"blend", "session"},
         op[p].at = "listen", Some(ps), Some(compared), Taken(p, ps, compared, at),
         UNCHANGED <<db, engine, counters, gone, dropped, blends, link>>
  PROVE  IInv'
<1> DEFINE o == op[p]
<1>1. Shape(o) /\ o \in OpType /\ o.kind # "none" /\ Named(o) /\ Recognized(o)
  BY Doing DEF IInv, Working, Voiceprints
<1>2. ASSUME NEW i \in DOMAIN profiles, Does(p, [o EXCEPT !.at = at, !.pid = i, !.listed = ps]),
             unheard \subseteq unheard', i \notin unheard' => o.by \in profiles[i].voices
      PROVE  IInv'
  <2>1. PICK x : x = [o EXCEPT !.at = at, !.pid = i, !.listed = ps]
    OBVIOUS
  <2>2. /\ i \in Nat /\ ps \in Tables /\ DOMAIN ps \subseteq 1..created
        /\ DOMAIN profiles \subseteq DOMAIN blends
    BY TableTypes DEF IInv, RowTypes, Owned, Some, Ids
  <2>3. /\ x \in OpType /\ x.at = at /\ x.pid = i /\ x.kind = o.kind /\ x.by = o.by /\ x.listed = ps
    BY <1>1, <2>1, <2>2 DEF OpType
  <2>4. Shape(x)
    BY <1>1, <2>3 DEF Shape
  <2>5. Named(x)
    BY <1>1, <2>2, <2>3 DEF Named, Late
  <2>6. Recognized(x)'
    BY <1>2, <2>3 DEF Recognized, db
  <2>7. Does(p, x) /\ OpTypes /\ op[p].at # "opened"
    BY <1>2, <2>1 DEF IInv
  <2>8. op'[p] = x /\ \A q \in Procs \ {p} : op'[q] = op[q]
    BY <2>4, <2>7, OneGoes
  <2>9. UNCHANGED <<users, profiles, sessions, facts, open, locks, created, serial, starts, gone, dropped,
                    blends, link>>
    BY DEF db, engine, counters
  <2>10. OpTypes' /\ RowTypes' /\ EngineTypes' /\ Owned' /\ NoLostSample'
    BY <2>4, <2>7, <2>9, OneGoes DEF IInv, RowTypes, EngineTypes, Owned, NoLostSample
  <2>11. Working'
    <3>1. Named(x)'
      BY <2>5, <2>9 DEF Named
    <3>2. \A q \in Procs : op'[q] = op[q] \/ (Named(op[q])' /\ op'[q].at # "profile")
      BY <2>3, <2>8, <3>1 DEF Named
    <3>3. created' \in Nat /\ created <= created' /\ (DOMAIN blends)' = DOMAIN blends
      BY <2>9 DEF IInv, RowTypes
    <3>4. QED
      BY <3>2, <3>3, WorkingStays DEF IInv
  <2>12. Voiceprints'
    <3>1. \A q \in Procs : op'[q] = op[q] \/ Recognized(op[q])'
      BY <2>6, <2>8 DEF Recognized
    <3>2. /\ DOMAIN profiles' \subseteq DOMAIN profiles /\ facts' \subseteq facts
          /\ \A j \in DOMAIN profiles' : profiles'[j].voices = profiles[j].voices
      BY <2>9
    <3>3. QED
      BY <1>2, <3>1, <3>2, VoicesStay DEF IInv
  <2>13. Guarded' /\ OneSession'
    BY <2>3, <2>7, <2>8, <2>9, SessionsStay DEF IInv
  <2>14. QED
    BY <2>10, <2>11, <2>12, <2>13 DEF IInv
<1>3. CASE /\ \E i \in DOMAIN ps : Does(p, [o EXCEPT !.at = at, !.pid = i, !.listed = ps])
           /\ unheard' = unheard \cup DOMAIN ps
  <2>1. PICK i \in DOMAIN ps : Does(p, [o EXCEPT !.at = at, !.pid = i, !.listed = ps])
    BY <1>3
  <2>2. i \in DOMAIN profiles /\ i \in unheard' /\ unheard \subseteq unheard'
    BY <1>3 DEF Some
  <2>3. QED
    BY <1>2, <2>1, <2>2
<1>4. CASE /\ \E i \in Candidates(compared, o.by) : Does(p, [o EXCEPT !.at = at, !.pid = i, !.listed = ps])
           /\ UNCHANGED unheard
  <2>1. PICK i \in Candidates(compared, o.by) : Does(p, [o EXCEPT !.at = at, !.pid = i, !.listed = ps])
    BY <1>4
  <2>2. i \in DOMAIN profiles /\ o.by \in profiles[i].voices
    BY DEF Candidates, Some
  <2>3. unheard \subseteq unheard'
    BY <1>4
  <2>4. QED
    BY <1>2, <2>1, <2>2, <2>3
<1>5. QED
  BY <1>3, <1>4 DEF Taken

\* Whom a voice is taken for, or that it is nobody's.
LEMMA ListenInv ==
  ASSUME IInv, NEW p \in Procs, ListenWeb(p) \/ ListenDevice(p), UNCHANGED link
  PROVE  IInv'
<1> DEFINE o == op[p]
<1>1. o.at = "listen" /\ UNCHANGED <<db, engine, counters, gone, dropped, blends, link>>
  BY DEF ListenWeb, ListenDevice
<1>2. Shape(o) /\ o \in OpType /\ o.kind # "none" /\ Named(o) /\ Recognized(o) /\ RowTypes
  BY <1>1, Doing DEF IInv, Working, Voiceprints
<1>3. CASE Does(p, Idle) /\ UNCHANGED unheard
  BY <1>1, <1>3, IdleShape, IdleNamed, OnlyGoes
<1>4. CASE ListenWeb(p)
  <2>1. PICK ps : ps = Restricted(Voiced({"web"}), {i \in DOMAIN profiles : profiles[i].name # "web"})
    OBVIOUS
  <2>2. Some(ps)
    BY <1>2, <2>1, ChosenAreSome
  <2>3. CASE Taken(p, ps, ps, "blend")
    BY <1>1, <2>2, <2>3, TakenInv
  <2>4. CASE /\ o.pid \in DOMAIN profiles /\ UNCHANGED unheard
             /\ Does(p, [o EXCEPT !.at = "blend", !.listed = profiles])
    <3>1. PICK x : x = [o EXCEPT !.at = "blend", !.listed = profiles]
      OBVIOUS
    <3>2. profiles \in Tables /\ DOMAIN profiles \subseteq 1..created /\ DOMAIN profiles \subseteq DOMAIN blends
      BY DEF IInv, RowTypes, Owned
    <3>3. /\ x \in OpType /\ x.at = "blend" /\ x.pid = o.pid /\ x.kind = o.kind /\ x.by = o.by
          /\ x.listed = profiles
      BY <1>2, <3>1, <3>2 DEF OpType
    <3>4. Shape(x)
      BY <1>2, <3>3 DEF Shape
    <3>5. Named(x) /\ Recognized(x)
      BY <1>1, <1>2, <2>4, <3>2, <3>3 DEF Named, Recognized, Late
    <3>6. QED
      BY <1>1, <2>4, <3>1, <3>3, <3>4, <3>5, OnlyGoes
  <2>5. CASE Does(p, [o EXCEPT !.at = "user"]) /\ UNCHANGED unheard
    <3>1. PICK x : x = [o EXCEPT !.at = "user"]
      OBVIOUS
    <3>2. "user" \in Stages \ {"idle"}
      BY DEF Stages
    <3>3. Shape(x) /\ x.at = "user" /\ x.pid = o.pid /\ x.by = o.by /\ x.listed = o.listed
      BY <1>2, <3>1, <3>2, GoesShape
    <3>4. Named(x) /\ Recognized(x)
      BY <1>1, <1>2, <3>3 DEF Named, Recognized, Late
    <3>5. QED
      BY <1>1, <2>5, <3>1, <3>3, <3>4, OnlyGoes
  <2>6. QED
    BY <1>3, <1>4, <2>1, <2>3, <2>4, <2>5 DEF ListenWeb
<1>5. CASE ListenDevice(p)
  <2>1. PICK compared : compared = IF DOMAIN Voiced({"web"}) = {} THEN Voiced({"mac"}) ELSE <<>>
    OBVIOUS
  <2>2. Some(compared) /\ Some(profiles)
    BY <1>2, <2>1, ChosenAreSome
  <2>3. CASE Taken(p, profiles, compared, "session")
    BY <1>1, <2>2, <2>3, TakenInv
  <2>4. QED
    BY <1>3, <1>5, <2>1, <2>3 DEF ListenDevice, Ends
<1>6. QED
  BY <1>4, <1>5

\* An operation fails, unless a session is on its way to it.
LEMMA FailsInv ==
  ASSUME IInv, NEW p \in Procs, Fails(p), op[p].at # "opened", UNCHANGED link
  PROVE  IInv'
<1>1. /\ Does(p, Idle) /\ unheard' = unheard
      /\ UNCHANGED <<db, engine, counters, gone, dropped, blends, link>>
  BY DEF Fails, Ends
<1>2. QED
  BY <1>1, IdleShape, IdleNamed, OnlyGoes

-----------------------------------------------------------------------------
(* Steps that change rows                                                  *)

\* A step of one operation that leaves the engines alone.
LEMMA EngineStays ==
  ASSUME IInv, NEW p \in Procs, NEW x, Does(p, x), Shape(x),
         x.at \notin {"lock", "open", "opened"}, op[p].at # "opened",
         UNCHANGED <<engine, dropped>>, sessions' \subseteq sessions
  PROVE  /\ OpTypes' /\ EngineTypes' /\ Guarded' /\ OneSession'
         /\ op'[p] = x /\ \A q \in Procs \ {p} : op'[q] = op[q]
<1>1. OpTypes' /\ op'[p] = x /\ \A q \in Procs \ {p} : op'[q] = op[q]
  BY OneGoes DEF IInv
<1>2. UNCHANGED <<open, locks, dropped>>
  BY DEF engine
<1>3. EngineTypes'
  BY <1>2 DEF IInv, EngineTypes
<1>4. Guarded' /\ OneSession'
  BY <1>1, <1>2, SessionsStay DEF IInv
<1>5. QED
  BY <1>1, <1>3, <1>4

\* A namespace is made, for the profile that is to be made.
LEMMA NewUserInv ==
  ASSUME IInv, NEW p \in Procs, NewUser(p), UNCHANGED link
  PROVE  IInv'
<1> DEFINE o == op[p]
<1>1. /\ o.at = "user" /\ created < MaxProfiles /\ created' = created + 1
      /\ users' = users \cup {created'} /\ Does(p, [o EXCEPT !.at = "profile", !.pid = created'])
      /\ UNCHANGED <<profiles, sessions, facts, engine, serial, starts, gone, dropped, unheard, blends, link>>
  BY DEF NewUser, history
<1>2. /\ Shape(o) /\ o \in OpType /\ o.kind # "none" /\ Named(o) /\ Recognized(o)
      /\ RowTypes /\ Owned /\ Working
  BY <1>1, Doing DEF IInv, Working, Voiceprints
<1>3. created \in Nat /\ created' \in 1..MaxProfiles /\ created' \notin 1..created
      /\ 1..created \subseteq 1..created' /\ created' \in 1..created'
  BY <1>1, <1>2, CompanionAssumption DEF RowTypes
<1>4. PICK x : x = [o EXCEPT !.at = "profile", !.pid = created']
  OBVIOUS
<1>5. /\ x \in OpType /\ x.at = "profile" /\ x.pid = created' /\ x.kind = o.kind /\ x.by = o.by
      /\ x.listed = o.listed
  <2>1. PICK n : n = created' /\ n \in Nat
    BY <1>3
  <2>2. x = [o EXCEPT !.at = "profile", !.pid = n]
    BY <1>4, <2>1
  <2>3. x \in OpType /\ x.at = "profile" /\ x.pid = n /\ x.kind = o.kind /\ x.by = o.by /\ x.listed = o.listed
    BY <1>2, <2>1, <2>2 DEF OpType
  <2>4. QED
    BY <2>1, <2>3
<1>6. Shape(x) /\ Does(p, x)
  BY <1>1, <1>2, <1>4, <1>5 DEF Shape
<1>7. /\ OpTypes' /\ EngineTypes' /\ Guarded' /\ OneSession'
      /\ op'[p] = x /\ \A q \in Procs \ {p} : op'[q] = op[q]
  BY <1>1, <1>5, <1>6, EngineStays
<1>8. RowTypes'
  BY <1>1, <1>2, <1>3 DEF RowTypes
<1>9. Owned'
  BY <1>1, <1>2, <1>3 DEF Owned
<1>10. NoLostSample'
  BY <1>1 DEF IInv, NoLostSample
<1>11. Working'
  <2>1. ASSUME NEW q \in Procs PROVE Named(op[q])'
    <3>1. CASE q = p
      <4>1. created' \notin DOMAIN blends
        BY <1>2, <1>3 DEF Owned
      <4>2. op'[q] = x
        BY <1>7, <3>1
      <4>3. QED
        BY <1>1, <1>2, <1>3, <1>5, <4>1, <4>2 DEF Named, Late
    <3>2. CASE q # p
      <4>1. op'[q] = op[q] /\ Named(op[q])
        BY <1>2, <1>7, <3>2 DEF Working
      <4>2. QED
        BY <1>1, <1>3, <4>1 DEF Named
    <3>3. QED
      BY <3>1, <3>2
  <2>2. ASSUME NEW q \in Procs \ {p}, op'[q].at = "profile" PROVE op'[q].pid # created'
    <3>1. op'[q] = op[q] /\ Named(op[q])
      BY <1>2, <1>7 DEF Working
    <3>2. op[q].pid \in 1..created
      BY <2>2, <3>1 DEF Named
    <3>3. QED
      BY <1>3, <3>1, <3>2
  <2>3. ASSUME NEW q \in Procs, NEW r \in Procs,
               op'[q].at = "profile" /\ op'[r].at = "profile" /\ op'[q].pid = op'[r].pid
        PROVE  q = r
    <3>1. CASE q = p \/ r = p
      BY <1>5, <1>7, <2>2, <2>3, <3>1
    <3>2. CASE q # p /\ r # p
      <4>1. op'[q] = op[q] /\ op'[r] = op[r]
        BY <1>7, <3>2
      <4>2. QED
        BY <1>2, <2>3, <4>1 DEF Working
    <3>3. QED
      BY <3>1, <3>2
  <2>4. QED
    BY <2>1, <2>3 DEF Working
<1>12. Voiceprints'
  <2>1. Recognized(x)'
    <3>1. created' \notin DOMAIN profiles
      BY <1>2, <1>3 DEF Owned
    <3>2. QED
      BY <1>1, <1>5, <3>1 DEF Recognized
  <2>2. \A q \in Procs : op'[q] = op[q] \/ Recognized(op[q])'
    BY <1>7, <2>1 DEF Recognized
  <2>3. /\ DOMAIN profiles' \subseteq DOMAIN profiles /\ facts' \subseteq facts /\ unheard \subseteq unheard'
        /\ \A j \in DOMAIN profiles' : profiles'[j].voices = profiles[j].voices
    BY <1>1
  <2>4. QED
    BY <2>2, <2>3, VoicesStay DEF IInv
<1>13. QED
  BY <1>7, <1>8, <1>9, <1>10, <1>11, <1>12 DEF IInv

\* A profile is made for a namespace that is still there.
LEMMA NewProfileInv ==
  ASSUME IInv, NEW p \in Procs, NewProfile(p), UNCHANGED link
  PROVE  IInv'
<1> DEFINE o == op[p]
           i == o.pid
<1>1. /\ o.at = "profile"
      /\ UNCHANGED <<users, sessions, facts, engine, counters, gone, dropped, unheard, link>>
  BY DEF NewProfile
<1>2. /\ Shape(o) /\ o \in OpType /\ o.kind # "none" /\ Named(o) /\ Recognized(o)
      /\ RowTypes /\ Owned /\ Working /\ Voiceprints
  BY <1>1, Doing DEF IInv, Working, Voiceprints
<1>3. CASE i \notin users
  <2>1. Does(p, Idle) /\ UNCHANGED <<profiles, blends>>
    BY <1>3 DEF NewProfile, Ends
  <2>2. UNCHANGED db /\ unheard' = unheard
    BY <1>1, <2>1 DEF db
  <2>3. QED
    BY <1>1, <2>1, <2>2, IdleShape, IdleNamed, OnlyGoes
<1>4. CASE i \in users
  <2>1. /\ profiles' = With(profiles, i, Blank(o)) /\ blends' = With(blends, i, 1)
        /\ Does(p, WithProfile(o))
    BY <1>4 DEF NewProfile
  <2>2. /\ DOMAIN profiles' = DOMAIN profiles \cup {i} /\ profiles'[i] = Blank(o)
        /\ \A j \in DOMAIN profiles \ {i} : profiles'[j] = profiles[j]
        /\ DOMAIN blends' = DOMAIN blends \cup {i} /\ blends'[i] = 1
        /\ \A j \in DOMAIN blends \ {i} : blends'[j] = blends[j]
    BY <2>1 DEF With
  <2>3. i \in (1..created) \ DOMAIN blends /\ i \notin DOMAIN profiles /\ i \in Ids
    BY <1>1, <1>2, CompanionAssumption DEF Named, Owned, RowTypes, Ids
  <2>4. /\ Blank(o) \in ProfileType /\ Blank(o).samples = 1 /\ \A v, w \in Blank(o).voices : v = w
    <3>1. o.by \in Speakers /\ {o.by} \ {NoOne} \in SUBSET People
      BY <1>2 DEF OpType, Speakers
    <3>2. 1 \in Nat \ {0} /\ Engine(o) \in Engines
      BY EngineNames
    <3>3. QED
      BY <3>1, <3>2 DEF Blank, ProfileType
  <2>5. RowTypes'
    <3>1. DOMAIN profiles \subseteq Ids /\ profiles \in [DOMAIN profiles -> ProfileType]
          /\ DOMAIN blends \subseteq Ids /\ blends \in [DOMAIN blends -> Nat]
      BY <1>2, TableTypes DEF RowTypes
    <3>2. \A j \in DOMAIN profiles \cup {i} : profiles'[j] \in ProfileType
      BY <2>2, <2>4, <3>1
    <3>3. profiles' \in [DOMAIN profiles \cup {i} -> ProfileType]
      <4>1. With(profiles, i, Blank(o)) \in [DOMAIN profiles \cup {i} -> ProfileType]
        BY <2>4, <3>1 DEF With
      <4>2. QED
        BY <2>1, <4>1
    <3>4. blends' \in [DOMAIN blends \cup {i} -> Nat]
      <4>1. With(blends, i, 1) \in [DOMAIN blends \cup {i} -> Nat]
        BY <3>1 DEF With
      <4>2. QED
        BY <2>1, <4>1
    <3>5. profiles' \in Tables /\ blends' \in Counts
      BY <2>3, <3>1, <3>3, <3>4, TableTypes
    <3>6. QED
      BY <1>1, <1>2, <3>5 DEF RowTypes, counters
  <2>6. Owned'
    <3>1. UNCHANGED <<users, sessions, facts, created, gone>>
      BY <1>1 DEF counters
    <3>2. QED
      BY <1>2, <1>4, <2>2, <2>3, <3>1 DEF Owned
  <2>7. NoLostSample'
    <3>1. ASSUME NEW j \in DOMAIN profiles' PROVE profiles'[j].samples = blends'[j]
      <4>1. CASE j = i
        BY <2>2, <2>4, <4>1
      <4>2. CASE j # i
        <5>1. j \in DOMAIN profiles /\ j \in DOMAIN blends /\ profiles[j].samples = blends[j]
          BY <1>2, <2>2, <4>2 DEF IInv, NoLostSample, Owned
        <5>2. QED
          BY <2>2, <4>2, <5>1
      <4>3. QED
        BY <4>1, <4>2
    <3>2. QED
      BY <3>1 DEF NoLostSample
  <2>8. PICK x : x = WithProfile(o)
    OBVIOUS
  <2>9. /\ Shape(x)
        /\ \/ x = Idle
           \/ x.at \in {"session", "name"} /\ x.by = NoOne /\ x.pid = i /\ x.listed = o.listed
    BY <1>2, <2>8, WithProfileShape
  <2>10. x.at \notin {"profile", "lock", "open", "opened"} /\ x.by = NoOne
    BY <2>9, IdleShape
  <2>11. /\ OpTypes' /\ EngineTypes' /\ Guarded' /\ OneSession'
         /\ op'[p] = x /\ \A q \in Procs \ {p} : op'[q] = op[q]
    BY <1>1, <2>1, <2>8, <2>9, <2>10, EngineStays
  <2>12. Working'
    <3>1. Named(x)'
      <4>1. DOMAIN o.listed \subseteq 1..created /\ created' = created
        BY <1>1, <1>2 DEF Named, counters
      <4>2. CASE x = Idle
        BY <4>2, IdleShape DEF Named, Late
      <4>3. CASE x.at \in {"session", "name"} /\ x.by = NoOne /\ x.pid = i /\ x.listed = o.listed
        BY <2>2, <4>1, <4>3 DEF Named, Late
      <4>4. QED
        BY <2>9, <4>2, <4>3
    <3>2. ASSUME NEW q \in Procs \ {p} PROVE Named(op[q])'
      <4>1. op'[q] = op[q] /\ Named(op[q]) /\ created' = created
        BY <1>1, <1>2, <2>11 DEF Working, counters
      <4>2. op[q].at = "profile" => op[q].pid # i
        BY <1>1, <1>2 DEF Working
      <4>3. QED
        BY <2>2, <4>1, <4>2 DEF Named
    <3>3. \A q \in Procs : Named(op[q])'
      BY <2>11, <3>1, <3>2 DEF Named
    <3>4. ASSUME NEW q \in Procs, NEW r \in Procs,
                 op'[q].at = "profile" /\ op'[r].at = "profile" /\ op'[q].pid = op'[r].pid
          PROVE  q = r
      <4>1. op'[q] = op[q] /\ op'[r] = op[r]
        BY <2>10, <2>11, <3>4
      <4>2. QED
        BY <1>2, <3>4, <4>1 DEF Working
    <3>5. QED
      BY <3>3, <3>4 DEF Working
  <2>13. Voiceprints'
    <3>1. ASSUME NEW j \in DOMAIN profiles' \ unheard' PROVE Pure(j)'
      <4>1. CASE j = i
        <5>1. \A f \in facts : f[1] # i
          BY <1>2, <2>3 DEF Owned
        <5>2. QED
          BY <1>1, <2>2, <2>4, <4>1, <5>1 DEF Pure
      <4>2. CASE j # i
        <5>1. j \in DOMAIN profiles \ unheard /\ Pure(j) /\ profiles'[j] = profiles[j] /\ facts' = facts
          BY <1>1, <1>2, <2>2, <4>2 DEF Voiceprints
        <5>2. QED
          BY <5>1 DEF Pure
      <4>3. QED
        BY <4>1, <4>2
    <3>2. ASSUME NEW q \in Procs PROVE Recognized(op[q])'
      <4>1. CASE q = p
        BY <2>10, <2>11, <4>1 DEF Recognized
      <4>2. CASE q # p
        <5>1. op'[q] = op[q] /\ Recognized(op[q]) /\ Named(op[q])
          BY <1>2, <2>11, <4>2 DEF Working, Voiceprints
        <5>2. op[q].at = "profile" => op[q].pid # i
          BY <1>1, <1>2, <4>2 DEF Working
        <5>3. op[q].by # NoOne => op[q].pid # i
          BY <2>3, <5>1, <5>2 DEF Named
        <5>4. QED
          BY <1>1, <2>2, <5>1, <5>3 DEF Recognized
      <4>3. QED
        BY <4>1, <4>2
    <3>3. QED
      BY <3>1, <3>2 DEF Voiceprints
  <2>14. QED
    BY <2>5, <2>6, <2>7, <2>11, <2>12, <2>13 DEF IInv
<1>5. QED
  BY <1>3, <1>4

\* A step of one operation that may give a profile its name.
LEMMA RenamedInv ==
  ASSUME IInv, NEW p \in Procs, NEW x, Does(p, x), Shape(x), Named(x), Recognized(x),
         x.at \notin {"profile", "lock", "open", "opened"}, op[p].at # "opened",
         UNCHANGED <<users, sessions, facts, engine, counters, history, link>>,
         \/ profiles' = profiles
         \/ \E i \in DOMAIN profiles : profiles' = [profiles EXCEPT ![i].name = "named"]
  PROVE  IInv'
<1>1. UNCHANGED <<users, sessions, facts, engine, created, serial, starts, gone, dropped, unheard, blends, link>>
  BY DEF counters, history
<1>2. RowTypes /\ Owned /\ NoLostSample /\ Working /\ Voiceprints
  BY DEF IInv
<1>3. DOMAIN profiles \subseteq Ids /\ profiles \in [DOMAIN profiles -> ProfileType]
  BY <1>2, TableTypes DEF RowTypes
<1>4. /\ profiles' \in [DOMAIN profiles -> ProfileType] /\ DOMAIN profiles' = DOMAIN profiles
      /\ \A j \in DOMAIN profiles :
           profiles'[j].voices = profiles[j].voices /\ profiles'[j].samples = profiles[j].samples
  <2>1. CASE profiles' = profiles
    BY <1>3, <2>1
  <2>2. ASSUME NEW i \in DOMAIN profiles, profiles' = [profiles EXCEPT ![i].name = "named"]
        PROVE  /\ profiles' \in [DOMAIN profiles -> ProfileType] /\ DOMAIN profiles' = DOMAIN profiles
               /\ \A j \in DOMAIN profiles :
                    profiles'[j].voices = profiles[j].voices /\ profiles'[j].samples = profiles[j].samples
    <3>1. profiles[i] \in ProfileType
      BY <1>3
    <3>2. PICK y : y = [profiles[i] EXCEPT !.name = "named"]
      OBVIOUS
    <3>3. y \in ProfileType /\ y.voices = profiles[i].voices /\ y.samples = profiles[i].samples
      BY <3>1, <3>2 DEF ProfileType
    <3>4. profiles' = [profiles EXCEPT ![i] = y]
      BY <2>2, <3>2
    <3>5. QED
      BY <1>3, <3>3, <3>4
  <2>3. QED
    BY <2>1, <2>2
<1>5. profiles' \in Tables
  BY <1>3, <1>4, TableTypes
<1>6. /\ OpTypes' /\ EngineTypes' /\ Guarded' /\ OneSession'
      /\ op'[p] = x /\ \A q \in Procs \ {p} : op'[q] = op[q]
  BY <1>1, EngineStays
<1>7. RowTypes' /\ Owned' /\ NoLostSample'
  BY <1>1, <1>2, <1>4, <1>5 DEF RowTypes, Owned, NoLostSample
<1>8. Working'
  <2>1. Named(x)'
    BY <1>1 DEF Named
  <2>2. \A q \in Procs : op'[q] = op[q] \/ (Named(op[q])' /\ op'[q].at # "profile")
    BY <1>6, <2>1 DEF Named
  <2>3. created' \in Nat /\ created <= created' /\ (DOMAIN blends)' = DOMAIN blends
    BY <1>1, <1>2 DEF RowTypes
  <2>4. QED
    BY <1>2, <2>2, <2>3, WorkingStays
<1>9. Voiceprints'
  <2>1. Recognized(x)'
    BY <1>1, <1>4 DEF Recognized
  <2>2. \A q \in Procs : op'[q] = op[q] \/ Recognized(op[q])'
    BY <1>6, <2>1 DEF Recognized
  <2>3. QED
    BY <1>1, <1>2, <1>4, <2>2, VoicesStay
<1>10. QED
  BY <1>6, <1>7, <1>8, <1>9 DEF IInv

\* A profile gets a name on request.
LEMMA SetNameInv ==
  ASSUME IInv, NEW p \in Procs, SetName(p), UNCHANGED link
  PROVE  IInv'
<1> DEFINE o == op[p]
<1>1. o.at = "name" /\ UNCHANGED <<users, sessions, facts, engine, counters, history, link>>
  BY DEF SetName
<1>2. Shape(o) /\ o \in OpType /\ o.kind # "none" /\ Named(o)
  BY <1>1, Doing DEF IInv, Working
<1>3. \/ profiles' = profiles
      \/ \E i \in DOMAIN profiles : profiles' = [profiles EXCEPT ![i].name = "named"]
  BY DEF SetName
<1>4. PICK x : x = [o EXCEPT !.kind = "profile", !.at = "resolve"]
  OBVIOUS
<1>5. /\ x \in OpType /\ x.kind = "profile" /\ x.at = "resolve" /\ x.pid = o.pid /\ x.by = o.by
      /\ x.listed = o.listed
  BY <1>2, <1>4 DEF OpType
<1>6. o.by = NoOne
  BY <1>1, <1>2 DEF Named
<1>7. Shape(x) /\ Named(x) /\ Recognized(x)
  BY <1>2, <1>5, <1>6 DEF Shape, Named, Recognized, Late, Voicing
<1>8. Does(p, x)
  BY <1>4 DEF SetName
<1>9. QED
  BY <1>1, <1>3, <1>5, <1>7, <1>8, RenamedInv

\* A profile gets a name that was said.
LEMMA ReplyInv ==
  ASSUME IInv, NEW p \in Procs, Reply(p), UNCHANGED link
  PROVE  IInv'
<1> DEFINE o == op[p]
<1>1. o.at = "reply" /\ UNCHANGED <<users, sessions, facts, engine, counters, history, link>>
  BY DEF Reply
<1>2. Shape(o) /\ o.kind # "none" /\ Named(o) /\ Recognized(o)
  BY <1>1, Doing DEF IInv, Working, Voiceprints
<1>3. \/ profiles' = profiles
      \/ \E i \in DOMAIN profiles : profiles' = [profiles EXCEPT ![i].name = "named"]
  BY DEF Reply, Captures
<1>4. PICK x : x = [o EXCEPT !.at = "answer"]
  OBVIOUS
<1>5. "answer" \in Stages \ {"idle"}
  BY DEF Stages
<1>6. Shape(x) /\ x.at = "answer" /\ x.pid = o.pid /\ x.by = o.by /\ x.listed = o.listed
  BY <1>2, <1>4, <1>5, GoesShape
<1>7. Named(x) /\ Recognized(x)
  BY <1>1, <1>2, <1>6 DEF Named, Recognized, Late
<1>8. Does(p, x)
  BY <1>4 DEF Reply, Goes
<1>9. QED
  BY <1>1, <1>3, <1>6, <1>7, <1>8, RenamedInv

\* A sample goes into the running average of a profile that holds the voice.
LEMMA BlendInv ==
  ASSUME IInv, NEW p \in Procs, Blend(p), UNCHANGED link
  PROVE  IInv'
<1> DEFINE o == op[p]
           i == o.pid
<1>1. /\ o.at = "blend" /\ Does(p, Idle)
      /\ UNCHANGED <<users, sessions, facts, engine, counters, gone, dropped, unheard, link>>
  BY DEF Blend, Ends
<1>2. /\ Shape(o) /\ o \in OpType /\ Named(o) /\ Recognized(o)
      /\ RowTypes /\ Owned /\ NoLostSample /\ Working /\ Voiceprints
  BY Doing DEF IInv, Working, Voiceprints
<1>3. CASE UNCHANGED <<profiles, blends>>
  <2>1. UNCHANGED db /\ unheard' = unheard
    BY <1>1, <1>3 DEF db
  <2>2. QED
    BY <1>1, <1>3, <2>1, IdleShape, IdleNamed, OnlyGoes
<1>4. CASE Takes(i, o) /\ Sample(i, o, profiles[i].samples)
  <2>1. /\ i \in DOMAIN profiles /\ i \in DOMAIN blends
        /\ profiles \in [DOMAIN profiles -> ProfileType] /\ DOMAIN profiles \subseteq Ids
        /\ blends \in [DOMAIN blends -> Nat] /\ DOMAIN blends \subseteq Ids
    BY <1>2, <1>4, TableTypes DEF Takes, Owned, RowTypes
  <2>2. PICK y : y = [profiles[i] EXCEPT !.voices = @ \cup {o.by}, !.encoder = Engine(o),
                                         !.samples = profiles[i].samples + 1]
    OBVIOUS
  <2>3. profiles' = [profiles EXCEPT ![i] = y] /\ blends' = [blends EXCEPT ![i] = @ + 1]
    <3>1. /\ profiles' = [profiles EXCEPT ![i] = [profiles[i] EXCEPT !.voices = @ \cup {o.by},
                            !.encoder = Engine(o), !.samples = profiles[i].samples + 1]]
          /\ blends' = [blends EXCEPT ![i] = @ + 1]
      BY <1>4 DEF Sample
    <3>2. QED
      BY <2>2, <3>1
  <2>4. profiles[i] \in ProfileType /\ profiles[i].samples \in Nat \ {0} /\ profiles[i].voices \subseteq People
    BY <2>1 DEF ProfileType
  <2>5. o.by \in People /\ Engine(o) \in Engines
    BY <1>1, <1>2, EngineNames DEF OpType, Named, Speakers
  <2>6. /\ y \in ProfileType /\ y.voices = profiles[i].voices \cup {o.by}
        /\ y.samples = profiles[i].samples + 1
    <3>1. profiles[i].samples + 1 \in Nat \ {0} /\ profiles[i].voices \cup {o.by} \in SUBSET People
      BY <2>4, <2>5
    <3>2. QED
      BY <2>2, <2>4, <2>5, <3>1 DEF ProfileType
  <2>7. /\ profiles' \in [DOMAIN profiles -> ProfileType] /\ DOMAIN profiles' = DOMAIN profiles
        /\ profiles'[i] = y /\ \A j \in DOMAIN profiles \ {i} : profiles'[j] = profiles[j]
    BY <2>1, <2>3, <2>6
  <2>8. /\ blends' \in [DOMAIN blends -> Nat] /\ DOMAIN blends' = DOMAIN blends
        /\ blends'[i] = blends[i] + 1 /\ \A j \in DOMAIN blends \ {i} : blends'[j] = blends[j]
    BY <2>1, <2>3
  <2>9. profiles' \in Tables /\ blends' \in Counts
    BY <2>1, <2>7, <2>8, TableTypes
  <2>10. /\ OpTypes' /\ EngineTypes' /\ Guarded' /\ OneSession'
         /\ op'[p] = Idle /\ \A q \in Procs \ {p} : op'[q] = op[q]
    BY <1>1, IdleShape, EngineStays
  <2>11. UNCHANGED <<users, sessions, facts, created, serial, starts, gone, unheard, link>>
    BY <1>1 DEF counters
  <2>12. RowTypes' /\ Owned'
    BY <1>2, <2>7, <2>8, <2>9, <2>11 DEF RowTypes, Owned
  <2>13. NoLostSample'
    <3>1. ASSUME NEW j \in DOMAIN profiles PROVE profiles'[j].samples = blends'[j]
      <4>1. j \in DOMAIN blends /\ profiles[j].samples = blends[j]
        BY <1>2 DEF NoLostSample, Owned
      <4>2. QED
        BY <2>6, <2>7, <2>8, <4>1
    <3>2. QED
      BY <2>7, <3>1 DEF NoLostSample
  <2>14. Working'
    <3>1. Named(Idle)'
      BY IdleShape DEF Named, Late
    <3>2. \A q \in Procs : op'[q] = op[q] \/ (Named(op[q])' /\ op'[q].at # "profile")
      BY <2>10, <3>1, IdleShape DEF Named
    <3>3. created' \in Nat /\ created <= created' /\ (DOMAIN blends)' = DOMAIN blends
      BY <1>2, <2>8, <2>11 DEF RowTypes
    <3>4. QED
      BY <1>2, <3>2, <3>3, WorkingStays
  <2>15. Voiceprints'
    <3>1. i \in unheard \/ y.voices = profiles[i].voices
      BY <1>1, <1>2, <2>1, <2>6 DEF Recognized, Named
    <3>2. ASSUME NEW j \in DOMAIN profiles \ unheard
          PROVE  profiles'[j].voices = profiles[j].voices
      BY <2>7, <3>1
    <3>3. ASSUME NEW j \in DOMAIN profiles' \ unheard' PROVE Pure(j)'
      <4>1. j \in DOMAIN profiles \ unheard /\ Pure(j)
        BY <1>2, <2>7, <2>11 DEF Voiceprints
      <4>2. QED
        BY <2>11, <3>2, <4>1 DEF Pure
    <3>4. ASSUME NEW q \in Procs PROVE Recognized(op[q])'
      <4>1. CASE q = p
        BY <2>10, <4>1, IdleShape DEF Recognized
      <4>2. CASE q # p
        <5>1. op'[q] = op[q] /\ Recognized(op[q])
          BY <1>2, <2>10, <4>2 DEF Voiceprints
        <5>2. QED
          BY <2>7, <2>11, <3>2, <5>1 DEF Recognized
      <4>3. QED
        BY <4>1, <4>2
    <3>5. QED
      BY <3>3, <3>4 DEF Voiceprints
  <2>16. QED
    BY <2>10, <2>12, <2>13, <2>14, <2>15 DEF IInv
<1>5. QED
  BY <1>3, <1>4 DEF Blend

\* A memory of what was said, for a profile whose namespace is there.
LEMMA NoteInv ==
  ASSUME IInv, NEW p \in Procs, Note(p), UNCHANGED link
  PROVE  IInv'
<1> DEFINE o == op[p]
<1>1. /\ o.at = "note"
      /\ UNCHANGED <<users, profiles, sessions, engine, counters, gone, dropped, unheard, blends, link>>
  BY DEF Note, history
<1>2. /\ Shape(o) /\ o \in OpType /\ o.kind # "none" /\ Named(o) /\ Recognized(o)
      /\ RowTypes /\ Owned /\ Working /\ Voiceprints
  BY <1>1, Doing DEF IInv, Working, Voiceprints
<1>3. CASE facts' = facts
  <2>1. UNCHANGED db /\ unheard' = unheard
    BY <1>1, <1>3 DEF db
  <2>2. CASE Ends(p)
    BY <1>1, <2>1, <2>2, IdleShape, IdleNamed, OnlyGoes DEF Ends
  <2>3. CASE Goes(p, AfterNote(o))
    <3>1. PICK x : x = [o EXCEPT !.at = AfterNote(o)]
      OBVIOUS
    <3>2. AfterNote(o) \in Stages \ {"idle"} /\ AfterNote(o) \in {"answer", "reply"}
      BY DEF AfterNote, Stages
    <3>3. Shape(x) /\ x.at = AfterNote(o) /\ x.pid = o.pid /\ x.by = o.by /\ x.listed = o.listed
      BY <1>2, <3>1, <3>2, GoesShape
    <3>4. Named(x) /\ Recognized(x)
      BY <1>1, <1>2, <3>2, <3>3 DEF Named, Recognized, Late
    <3>5. Does(p, x)
      BY <2>3, <3>1 DEF Goes
    <3>6. QED
      BY <1>1, <2>1, <3>2, <3>3, <3>4, <3>5, OnlyGoes
  <2>4. Ends(p) \/ Goes(p, AfterNote(o))
    BY DEF Note, AfterNote
  <2>5. QED
    BY <2>2, <2>3, <2>4
<1>4. CASE o.pid \in users /\ facts' = facts \cup {<<o.pid, o.by>>} /\ Goes(p, AfterNote(o))
  <2>1. PICK x : x = [o EXCEPT !.at = AfterNote(o)]
    OBVIOUS
  <2>2. AfterNote(o) \in Stages \ {"idle"} /\ AfterNote(o) \in {"answer", "reply"}
    BY DEF AfterNote, Stages
  <2>3. Shape(x) /\ x.at = AfterNote(o) /\ x.pid = o.pid /\ x.by = o.by /\ x.listed = o.listed
    BY <1>2, <2>1, <2>2, GoesShape
  <2>4. Named(x) /\ Recognized(x)
    BY <1>1, <1>2, <2>2, <2>3 DEF Named, Recognized, Late
  <2>5. Does(p, x)
    BY <1>4, <2>1 DEF Goes
  <2>6. /\ OpTypes' /\ EngineTypes' /\ Guarded' /\ OneSession'
        /\ op'[p] = x /\ \A q \in Procs \ {p} : op'[q] = op[q]
    BY <1>1, <2>2, <2>3, <2>5, EngineStays
  <2>7. UNCHANGED <<users, profiles, sessions, created, serial, starts, gone, unheard, blends, link>>
    BY <1>1 DEF counters
  <2>8. o.pid \in users \cap DOMAIN blends /\ o.pid \in Ids /\ o.by \in Speakers
    BY <1>1, <1>2, <1>4, CompanionAssumption DEF Named, Late, OpType, Owned, RowTypes, Ids
  <2>9. RowTypes' /\ Owned' /\ NoLostSample'
    <3>1. facts' \subseteq Ids \X Speakers /\ \A f \in facts' : f[1] \in users \cap DOMAIN blends
      BY <1>2, <1>4, <2>8 DEF RowTypes, Owned
    <3>2. QED
      BY <1>2, <2>7, <3>1 DEF IInv, RowTypes, Owned, NoLostSample
  <2>10. Working'
    <3>1. Named(x)'
      BY <2>4, <2>7 DEF Named
    <3>2. \A q \in Procs : op'[q] = op[q] \/ (Named(op[q])' /\ op'[q].at # "profile")
      BY <2>2, <2>3, <2>6, <3>1 DEF Named
    <3>3. created' \in Nat /\ created <= created' /\ (DOMAIN blends)' = DOMAIN blends
      BY <1>2, <2>7 DEF RowTypes
    <3>4. QED
      BY <1>2, <3>2, <3>3, WorkingStays
  <2>11. Voiceprints'
    <3>1. ASSUME NEW j \in DOMAIN profiles' \ unheard' PROVE Pure(j)'
      <4>1. j \in DOMAIN profiles \ unheard /\ Pure(j)
        BY <1>2, <2>7, <3>1 DEF Voiceprints
      <4>2. ASSUME NEW f \in facts', f[1] = j, f[2] # NoOne PROVE f[2] \in profiles[j].voices
        <5>1. CASE f \in facts
          BY <4>1, <4>2, <5>1 DEF Pure
        <5>2. CASE f = <<o.pid, o.by>>
          BY <1>2, <4>1, <4>2, <5>2 DEF Recognized
        <5>3. QED
          BY <1>4, <5>1, <5>2
      <4>3. QED
        BY <2>7, <4>1, <4>2 DEF Pure
    <3>2. ASSUME NEW q \in Procs PROVE Recognized(op[q])'
      <4>1. CASE q = p
        BY <2>4, <2>6, <2>7, <4>1 DEF Recognized
      <4>2. CASE q # p
        <5>1. op'[q] = op[q] /\ Recognized(op[q])
          BY <1>2, <2>6, <4>2 DEF Voiceprints
        <5>2. QED
          BY <2>7, <5>1 DEF Recognized
      <4>3. QED
        BY <4>1, <4>2
    <3>3. QED
      BY <3>1, <3>2 DEF Voiceprints
  <2>12. QED
    BY <2>6, <2>9, <2>10, <2>11 DEF IInv
<1>5. QED
  BY <1>3, <1>4 DEF Note

\* What is said of some namespaces goes, and perhaps more: their profiles, their
\* sessions and themselves.
LEMMA RowsGo ==
  ASSUME IInv, NEW is, is \subseteq 1..created, Cascade(is), gone' = gone \cup is,
         UNCHANGED <<created, serial, starts, unheard, blends>>,
         link' \in {"none", "open", "closed"},
         \A q \in Procs : op'[q] = op[q]
                          \/ (op'[q].at # "profile" /\ DOMAIN op'[q].listed \subseteq 1..created
                              /\ op'[q].at \notin Late \cup {"listen", "blend"} /\ op'[q].by = NoOne)
  PROVE  RowTypes' /\ Owned' /\ NoLostSample' /\ Working' /\ Voiceprints' /\ sessions' \subseteq sessions
<1>1. RowTypes /\ Owned /\ NoLostSample /\ Working /\ Voiceprints
  BY DEF IInv
<1>2. /\ users' = users \ is /\ sessions' = {s \in sessions : s.of \notin is}
      /\ facts' = {f \in facts : f[1] \notin is} /\ profiles' = Without(profiles, is)
  BY DEF Cascade
<1>3. DOMAIN profiles \subseteq Ids /\ profiles \in [DOMAIN profiles -> ProfileType]
  BY <1>1, TableTypes DEF RowTypes
<1>4. /\ DOMAIN profiles' = DOMAIN profiles \ is
      /\ \A j \in DOMAIN profiles' : profiles'[j] = profiles[j]
      /\ profiles' \in [DOMAIN profiles \ is -> ProfileType]
  <2>1. Without(profiles, is) \in [DOMAIN profiles \ is -> ProfileType]
    BY <1>3 DEF Without
  <2>2. QED
    BY <1>2, <2>1 DEF Without
<1>5. profiles' \in Tables
  BY <1>3, <1>4, TableTypes
<1>6. RowTypes' /\ Owned' /\ NoLostSample'
  BY <1>1, <1>2, <1>4, <1>5 DEF RowTypes, Owned, NoLostSample
<1>7. Working'
  <2>1. \A q \in Procs : op'[q] = op[q] \/ (Named(op[q])' /\ op'[q].at # "profile")
    BY DEF Named, Late
  <2>2. created' \in Nat /\ created <= created' /\ (DOMAIN blends)' = DOMAIN blends
    BY <1>1 DEF RowTypes
  <2>3. QED
    BY <1>1, <2>1, <2>2, WorkingStays
<1>8. Voiceprints'
  <2>1. \A q \in Procs : op'[q] = op[q] \/ Recognized(op[q])'
    BY DEF Recognized
  <2>2. /\ DOMAIN profiles' \subseteq DOMAIN profiles /\ facts' \subseteq facts /\ unheard \subseteq unheard'
        /\ \A j \in DOMAIN profiles' : profiles'[j].voices = profiles[j].voices
    BY <1>2, <1>4
  <2>3. QED
    BY <1>1, <2>1, <2>2, VoicesStay
<1>9. QED
  BY <1>2, <1>6, <1>7, <1>8

\* What was said of the profiles a reset has read.
LEMMA DeleteMemoriesInv ==
  ASSUME IInv, NEW p \in Procs, DeleteMemories(p), UNCHANGED link
  PROVE  IInv'
<1> DEFINE o == op[p]
<1>1. /\ o.at = "memories" /\ facts' = {f \in facts : f[1] \notin DOMAIN o.listed} /\ Goes(p, "wipe")
      /\ UNCHANGED <<users, profiles, sessions, engine, created, serial, starts, gone, dropped, unheard,
                     blends, link>>
  BY DEF DeleteMemories, counters, history
<1>2. /\ Shape(o) /\ o.kind # "none" /\ Named(o) /\ Recognized(o)
      /\ RowTypes /\ Owned /\ NoLostSample /\ Working /\ Voiceprints
  BY <1>1, Doing DEF IInv, Working, Voiceprints
<1>3. PICK x : x = [o EXCEPT !.at = "wipe"]
  OBVIOUS
<1>4. "wipe" \in Stages \ {"idle"}
  BY DEF Stages
<1>5. Shape(x) /\ x.at = "wipe" /\ x.pid = o.pid /\ x.by = o.by /\ x.listed = o.listed
  BY <1>2, <1>3, <1>4, GoesShape
<1>6. Does(p, x)
  BY <1>1, <1>3 DEF Goes
<1>7. /\ OpTypes' /\ EngineTypes' /\ Guarded' /\ OneSession'
      /\ op'[p] = x /\ \A q \in Procs \ {p} : op'[q] = op[q]
  BY <1>1, <1>5, <1>6, EngineStays
<1>8. RowTypes' /\ Owned' /\ NoLostSample'
  BY <1>1, <1>2 DEF RowTypes, Owned, NoLostSample
<1>9. Named(x)' /\ Recognized(x)'
  BY <1>1, <1>2, <1>5 DEF Named, Recognized, Late
<1>10. Working'
  <2>1. \A q \in Procs : op'[q] = op[q] \/ (Named(op[q])' /\ op'[q].at # "profile")
    BY <1>5, <1>7, <1>9 DEF Named
  <2>2. created' \in Nat /\ created <= created' /\ (DOMAIN blends)' = DOMAIN blends
    BY <1>1, <1>2 DEF RowTypes
  <2>3. QED
    BY <1>2, <2>1, <2>2, WorkingStays
<1>11. Voiceprints'
  <2>1. \A q \in Procs : op'[q] = op[q] \/ Recognized(op[q])'
    BY <1>7, <1>9 DEF Recognized
  <2>2. /\ DOMAIN profiles' \subseteq DOMAIN profiles /\ facts' \subseteq facts /\ unheard \subseteq unheard'
        /\ \A j \in DOMAIN profiles' : profiles'[j].voices = profiles[j].voices
    BY <1>1
  <2>3. QED
    BY <1>2, <2>1, <2>2, VoicesStay
<1>12. QED
  BY <1>7, <1>8, <1>10, <1>11 DEF IInv

\* The profiles a reset has read go.
LEMMA WipeProfilesInv ==
  ASSUME IInv, NEW p \in Procs, WipeProfiles(p), UNCHANGED link
  PROVE  IInv'
<1> DEFINE o == op[p]
<1>1. /\ o.at = "wipe" /\ Cascade(DOMAIN o.listed) /\ gone' = gone \cup DOMAIN o.listed /\ Goes(p, "clear")
      /\ UNCHANGED <<engine, created, serial, starts, dropped, unheard, blends, link>>
  BY DEF WipeProfiles, counters
<1>2. Shape(o) /\ o.kind # "none" /\ Named(o) /\ OpTypes
  BY <1>1, Doing DEF IInv, Working
<1>3. PICK x : x = [o EXCEPT !.at = "clear"]
  OBVIOUS
<1>4. "clear" \in Stages \ {"idle"}
  BY DEF Stages
<1>5. Shape(x) /\ x.at = "clear" /\ x.pid = o.pid /\ x.by = o.by /\ x.listed = o.listed
  BY <1>2, <1>3, <1>4, GoesShape
<1>6. Does(p, x)
  BY <1>1, <1>3 DEF Goes
<1>7. op'[p] = x /\ \A q \in Procs \ {p} : op'[q] = op[q]
  BY <1>2, <1>5, <1>6, OneGoes
<1>8. o.by = NoOne
  BY <1>1, <1>2 DEF Named
<1>9. DOMAIN o.listed \subseteq 1..created
  BY <1>2 DEF Named
<1>10. \A q \in Procs : op'[q] = op[q]
                        \/ (op'[q].at # "profile" /\ DOMAIN op'[q].listed \subseteq 1..created
                            /\ op'[q].at \notin Late \cup {"listen", "blend"} /\ op'[q].by = NoOne)
  BY <1>5, <1>7, <1>8, <1>9 DEF Late
<1>11. RowTypes' /\ Owned' /\ NoLostSample' /\ Working' /\ Voiceprints' /\ sessions' \subseteq sessions
  BY <1>1, <1>9, <1>10, RowsGo DEF IInv, RowTypes
<1>12. OpTypes' /\ EngineTypes' /\ Guarded' /\ OneSession'
  BY <1>1, <1>5, <1>6, <1>11, EngineStays
<1>13. QED
  BY <1>11, <1>12 DEF IInv

\* A profile is forgotten, or all namespaces are, by a process that knows no session.
LEMMA EraseInv ==
  ASSUME IInv, Forget \/ WipeAll, UNCHANGED link
  PROVE  IInv'
<1>1. PICK is : Erase(is) /\ is \subseteq 1..created
  <2>1. DOMAIN profiles \subseteq 1..created /\ users \subseteq 1..created
    BY DEF IInv, Owned
  <2>2. QED
    BY <2>1 DEF Forget, WipeAll
<1>2. /\ Cascade(is) /\ gone' = gone \cup is /\ op' = op
      /\ UNCHANGED <<open, locks, created, serial, starts, dropped, unheard, blends, link>>
  BY <1>1 DEF Erase, engine, counters
<1>3. RowTypes' /\ Owned' /\ NoLostSample' /\ Working' /\ Voiceprints' /\ sessions' \subseteq sessions
  BY <1>1, <1>2, RowsGo DEF IInv, RowTypes
<1>4. Guarded' /\ OneSession'
  BY <1>2, <1>3, SessionsStay DEF IInv
<1>5. OpTypes' /\ EngineTypes'
  BY <1>2 DEF IInv, OpTypes, EngineTypes
<1>6. QED
  BY <1>3, <1>4, <1>5 DEF IInv

-----------------------------------------------------------------------------
(* The order in which sessions were used                                   *)

\* A sequence without its k-th element.
LEMMA RemovedAt ==
  ASSUME NEW s \in Seq(Entry), NEW k \in DOMAIN s, NEW r, r = RemoveAt(s, k)
  PROVE  /\ r \in Seq(Entry) /\ Len(r) = Len(s) - 1
         /\ \A j \in 1..Len(r) : r[j] = IF j < k THEN s[j] ELSE s[j + 1]
<1>1. Len(s) \in Nat /\ k \in 1..Len(s)
  OBVIOUS
<1>2. /\ SubSeq(s, 1, k - 1) \in Seq(Entry) /\ Len(SubSeq(s, 1, k - 1)) = k - 1
      /\ \A j \in 1..k - 1 : SubSeq(s, 1, k - 1)[j] = s[j]
  BY <1>1, SubSeqProperties
<1>3. /\ SubSeq(s, k + 1, Len(s)) \in Seq(Entry) /\ Len(SubSeq(s, k + 1, Len(s))) = Len(s) - k
      /\ \A j \in 1..Len(s) - k : SubSeq(s, k + 1, Len(s))[j] = s[k + j]
  BY <1>1, SubSeqProperties
<1>4. r = SubSeq(s, 1, k - 1) \o SubSeq(s, k + 1, Len(s))
  BY DEF RemoveAt
<1> DEFINE a == SubSeq(s, 1, k - 1)
           b == SubSeq(s, k + 1, Len(s))
<1>5. a \in Seq(Entry) /\ b \in Seq(Entry) /\ Len(a) = k - 1 /\ Len(b) = Len(s) - k /\ r = a \o b
  BY <1>2, <1>3, <1>4
<1>6. (\A j \in 1..k - 1 : a[j] = s[j]) /\ (\A j \in 1..Len(s) - k : b[j] = s[k + j])
  BY <1>2, <1>3
<1> HIDE DEF a, b
<1>7. /\ r \in Seq(Entry) /\ Len(r) = Len(a) + Len(b)
      /\ \A j \in 1..Len(r) : r[j] = IF j <= Len(a) THEN a[j] ELSE b[j - Len(a)]
  <2>1. /\ a \o b \in Seq(Entry) /\ Len(a \o b) = Len(a) + Len(b)
        /\ \A j \in 1..Len(a) + Len(b) : (a \o b)[j] = IF j <= Len(a) THEN a[j] ELSE b[j - Len(a)]
    BY <1>5, ConcatProperties, Zenon
  <2>2. QED
    BY <1>5, <2>1
<1>8. Len(r) = Len(s) - 1
  BY <1>1, <1>5, <1>7
<1>9. ASSUME NEW j \in 1..Len(r) PROVE r[j] = IF j < k THEN s[j] ELSE s[j + 1]
  <2>1. CASE j < k
    <3>1. j <= Len(a) /\ j \in 1..k - 1
      BY <1>1, <1>5, <2>1
    <3>2. QED
      BY <1>6, <1>7, <2>1, <3>1
  <2>2. CASE ~ (j < k)
    <3>1. ~ (j <= Len(a)) /\ j - Len(a) \in 1..Len(s) - k /\ k + (j - Len(a)) = j + 1
      BY <1>1, <1>5, <1>8, <2>2, SMTT(60)
    <3>2. QED
      BY <1>6, <1>7, <2>2, <3>1
  <2>3. QED
    BY <2>1, <2>2
<1>10. QED
  BY <1>7, <1>8, <1>9

\* A profile goes to the end: it has this session, and the others keep theirs.
LEMMA UsedLastEntries ==
  ASSUME NEW s \in Seq(Entry), Apart(s), NEW i \in Nat, NEW n \in Nat, NEW u, u = UsedLast(s, i, n)
  PROVE  /\ u \in Seq(Entry) /\ Apart(u)
         /\ Len(u) = Len(s) \/ (Len(u) = Len(s) + 1 /\ \A m : ~ In(s, i, m))
         /\ \A j, m : In(u, j, m) <=> (j = i /\ m = n) \/ (j # i /\ In(s, j, m))
<1> DEFINE here == {k \in DOMAIN s : s[k].of = i}
           others == IF here = {} THEN s ELSE RemoveAt(s, CHOOSE k \in here : TRUE)
           last == [of |-> i, number |-> n]
<1>1. u = Append(others, last) /\ last \in Entry /\ last.of = i /\ last.number = n
  BY DEF UsedLast, Entry
<1>2. /\ others \in Seq(Entry) /\ Apart(others)
      /\ (Len(others) = Len(s) /\ here = {}) \/ Len(others) = Len(s) - 1
      /\ \A k \in DOMAIN others : others[k].of # i
      /\ \A j, m : j # i => (In(others, j, m) <=> In(s, j, m))
  <2>1. CASE here = {}
    BY <2>1 DEF In
  <2>2. CASE here # {}
    <3>1. PICK k \in here : k = (CHOOSE h \in here : TRUE)
      BY <2>2
    <3>2. others = RemoveAt(s, k) /\ k \in DOMAIN s /\ s[k].of = i
      BY <2>2, <3>1
    <3> HIDE DEF others, here, last
    <3>3. /\ others \in Seq(Entry) /\ Len(others) = Len(s) - 1
          /\ \A j \in 1..Len(others) : others[j] = IF j < k THEN s[j] ELSE s[j + 1]
      BY <3>2, RemovedAt
    <3> DEFINE at(j) == IF j < k THEN j ELSE j + 1
    <3>4. Len(s) \in Nat /\ k \in 1..Len(s) /\ DOMAIN s = 1..Len(s) /\ DOMAIN others = 1..Len(others)
      BY <3>2, <3>3
    <3>5. \A j \in DOMAIN others : at(j) \in DOMAIN s /\ at(j) # k /\ others[j] = s[at(j)]
      BY <3>3, <3>4
    <3>6. \A j, l \in DOMAIN others : at(j) = at(l) => j = l
      BY <3>4
    <3>7. \A h \in DOMAIN s \ {k} : \E j \in DOMAIN others : at(j) = h
      <4>1. TAKE h \in DOMAIN s \ {k}
      <4>2. CASE h < k
        <5>1. h \in DOMAIN others /\ at(h) = h
          BY <3>3, <3>4, <4>2
        <5>2. QED
          BY <5>1
      <4>3. CASE ~ (h < k)
        <5>1. h - 1 \in DOMAIN others /\ at(h - 1) = h
          BY <3>3, <3>4, <4>3
        <5>2. QED
          BY <5>1
      <4>4. QED
        BY <4>2, <4>3
    <3> HIDE DEF at
    <3>8. Apart(others)
      BY <3>5, <3>6 DEF Apart
    <3>9. \A j \in DOMAIN others : others[j].of # i
      BY <3>2, <3>5 DEF Apart
    <3>10. ASSUME NEW j, NEW m, j # i PROVE In(others, j, m) <=> In(s, j, m)
      <4>1. ASSUME In(others, j, m) PROVE In(s, j, m)
        BY <3>5, <4>1 DEF In
      <4>2. ASSUME In(s, j, m) PROVE In(others, j, m)
        <5>1. PICK h \in DOMAIN s : s[h].of = j /\ s[h].number = m
          BY <4>2 DEF In
        <5>2. h # k
          BY <3>2, <3>10, <5>1
        <5>3. PICK l \in DOMAIN others : at(l) = h
          BY <3>7, <5>2
        <5>4. QED
          BY <3>5, <5>1, <5>3 DEF In
      <4>3. QED
        BY <4>1, <4>2
    <3>11. QED
      BY <3>3, <3>8, <3>9, <3>10
  <2>3. QED
    BY <2>1, <2>2
<1>3. here = {} => \A m : ~ In(s, i, m)
  BY DEF In
<1> HIDE DEF here, others, last
<1>4. /\ u \in Seq(Entry) /\ Len(u) = Len(others) + 1 /\ u[Len(u)] = last
      /\ \A k \in 1..Len(others) : u[k] = others[k]
  BY <1>1, <1>2
<1>5. Len(s) \in Nat /\ Len(others) \in Nat /\ DOMAIN u = 1..Len(u) /\ DOMAIN others = 1..Len(others)
      /\ DOMAIN u = DOMAIN others \cup {Len(u)} /\ Len(u) \notin DOMAIN others
  BY <1>2, <1>4
<1>6. Len(u) = Len(s) \/ (Len(u) = Len(s) + 1 /\ \A m : ~ In(s, i, m))
  BY <1>2, <1>3, <1>4, <1>5
<1>7. Apart(u)
  BY <1>1, <1>2, <1>4, <1>5 DEF Apart
<1>8. \A j, m : In(u, j, m) <=> (j = i /\ m = n) \/ (j # i /\ In(s, j, m))
  <2>1. TAKE j, m
  <2>2. In(u, j, m) <=> In(others, j, m) \/ (j = i /\ m = n)
    BY <1>1, <1>4, <1>5 DEF In
  <2>3. In(others, j, m) => j # i
    BY <1>2 DEF In
  <2>4. QED
    BY <1>2, <2>2, <2>3
<1>9. QED
  BY <1>4, <1>6, <1>7, <1>8

-----------------------------------------------------------------------------
(* Steps of the engines                                                    *)

\* A step of one operation that changes no row.
LEMMA RowsStay ==
  ASSUME IInv, NEW p \in Procs, NEW x, Does(p, x), Shape(x), Named(x), Recognized(x), x.at # "profile",
         UNCHANGED <<db, counters, gone, unheard, blends, link>>
  PROVE  /\ OpTypes' /\ RowTypes' /\ Owned' /\ Working' /\ NoLostSample' /\ Voiceprints'
         /\ op'[p] = x /\ \A q \in Procs \ {p} : op'[q] = op[q]
<1>1. UNCHANGED <<users, profiles, sessions, facts, created, serial, starts, gone, unheard, blends, link>>
  BY DEF db, counters
<1>2. RowTypes /\ Owned /\ NoLostSample /\ Working /\ Voiceprints
  BY DEF IInv
<1>3. OpTypes' /\ op'[p] = x /\ \A q \in Procs \ {p} : op'[q] = op[q]
  BY OneGoes DEF IInv
<1>4. RowTypes' /\ Owned' /\ NoLostSample'
  BY <1>1, <1>2 DEF RowTypes, Owned, NoLostSample
<1>5. Working'
  <2>1. Named(x)'
    BY <1>1 DEF Named
  <2>2. \A q \in Procs : op'[q] = op[q] \/ (Named(op[q])' /\ op'[q].at # "profile")
    BY <1>3, <2>1 DEF Named
  <2>3. created' \in Nat /\ created <= created' /\ (DOMAIN blends)' = DOMAIN blends
    BY <1>1, <1>2 DEF RowTypes
  <2>4. QED
    BY <1>2, <2>2, <2>3, WorkingStays
<1>6. Voiceprints'
  <2>1. Recognized(x)'
    BY <1>1 DEF Recognized
  <2>2. \A q \in Procs : op'[q] = op[q] \/ Recognized(op[q])'
    BY <1>3, <2>1 DEF Recognized
  <2>3. /\ DOMAIN profiles' \subseteq DOMAIN profiles /\ facts' \subseteq facts /\ unheard \subseteq unheard'
        /\ \A j \in DOMAIN profiles' : profiles'[j].voices = profiles[j].voices
    BY <1>1
  <2>4. QED
    BY <1>2, <2>2, <2>3, VoicesStay
<1>7. QED
  BY <1>3, <1>4, <1>5, <1>6

\* What guards the sessions, when none is opened.
LEMMA GuardedGoes ==
  ASSUME Guarded, OneSession, dropped \subseteq dropped', Entries', sessions' \subseteq sessions,
         \A q \in Procs : op'[q] = op[q] \/ op'[q].at \notin {"open", "opened"},
         \A q \in Procs : Waiting(op[q])' /\ Opening(op[q])',
         \A s \in sessions' : Tracked(s)'
  PROVE  Guarded' /\ OneSession'
<1>1. ASSUME NEW q \in Procs, NEW r \in Procs PROVE Alone(q, r)'
  <2>1. CASE op'[q] = op[q] /\ op'[r] = op[r]
    <3>1. Alone(q, r)
      BY DEF Guarded
    <3>2. QED
      BY <2>1, <3>1 DEF Alone
  <2>2. CASE op'[q].at \notin {"open", "opened"} \/ op'[r].at \notin {"open", "opened"}
    BY <2>2 DEF Alone
  <2>3. QED
    BY <2>1, <2>2
<1>2. OneSession'
  BY DEF OneSession
<1>3. QED
  BY <1>1, <1>2 DEF Guarded

\* The session of o, if the engine keeps one.
LEMMA KeptEntries ==
  ASSUME EngineTypes, NEW o, o.pid \in Nat
  PROVE  /\ Kept(o) \subseteq Nat
         /\ \A n : n \in Kept(o) <=> Has(Engine(o), o.pid, n)
<1>1. open[Engine(o)] \in Seq(Entry)
  BY EngineNames DEF EngineTypes
<1>2. ASSUME NEW k \in DOMAIN open[Engine(o)] PROVE open[Engine(o)][k].number \in Nat
  <2>1. open[Engine(o)][k] \in Entry
    BY <1>1
  <2>2. QED
    BY <2>1 DEF Entry
<1>3. QED
  BY <1>2 DEF Kept, Has, In

\* An operation that has its session goes on, or needs no more.
LEMMA WithSessionShape ==
  ASSUME NEW o, Shape(o), Named(o), Recognized(o), o.kind # "none", o.at \in {"session", "lock", "opened"},
         NEW n \in Nat, NEW x, x = WithSession(o, n)
  PROVE  Shape(x) /\ Named(x) /\ Recognized(x) /\ x.at \in {"idle", "say"}
<1>1. CASE x = Idle
  BY <1>1, IdleShape, IdleNamed
<1>2. CASE x = [o EXCEPT !.session = n, !.lock = 0, !.at = "say"]
  <2>1. o \in OpType /\ 0 \in Nat
    BY DEF Shape
  <2>2. /\ x \in OpType /\ x.at = "say" /\ x.kind = o.kind /\ x.pid = o.pid /\ x.by = o.by
        /\ x.listed = o.listed
    BY <1>2, <2>1 DEF OpType
  <2>3. Shape(x)
    BY <2>2 DEF Shape
  <2>4. Named(x) /\ Recognized(x)
    BY <2>2 DEF Named, Recognized, Late
  <2>5. QED
    BY <2>2, <2>3, <2>4
<1>3. QED
  BY <1>1, <1>2 DEF WithSession

\* The session is there already, and has been used last.
LEMMA HasSessionInv ==
  ASSUME IInv, NEW p \in Procs, HasSession(p), op[p].at \in {"session", "lock"},
         UNCHANGED <<db, locks, counters, gone, dropped, unheard, blends, link>>
  PROVE  IInv'
<1> DEFINE o == op[p]
           e == Engine(o)
<1>1. /\ Shape(o) /\ o \in OpType /\ o.kind # "none" /\ Named(o) /\ Recognized(o) /\ EngineTypes /\ Guarded
      /\ OneSession /\ o.pid \in Nat
  BY Doing DEF IInv, Working, Voiceprints, OpType
<1>2. PICK n \in Kept(o) : Does(p, WithSession(o, n)) /\ Uses(o, n)
  BY DEF HasSession
<1>3. n \in Nat /\ Has(e, o.pid, n)
  BY <1>1, KeptEntries
<1>4. e \in Engines /\ open[e] \in Seq(Entry) /\ Apart(open[e])
  BY <1>1, EngineNames DEF EngineTypes, Guarded, Entries
<1>5. PICK u : u = UsedLast(open[e], o.pid, n)
  OBVIOUS
<1>6. open' = [open EXCEPT ![e] = u]
  BY <1>2, <1>5 DEF Uses
<1>7. /\ u \in Seq(Entry) /\ Apart(u)
      /\ Len(u) = Len(open[e]) \/ (Len(u) = Len(open[e]) + 1 /\ \A m : ~ In(open[e], o.pid, m))
      /\ \A j, m : In(u, j, m) <=> (j = o.pid /\ m = n) \/ (j # o.pid /\ In(open[e], j, m))
  BY <1>1, <1>3, <1>4, <1>5, UsedLastEntries
<1>8. Len(u) = Len(open[e])
  BY <1>3, <1>7 DEF Has
<1>9. \A j, m : In(u, j, m) <=> In(open[e], j, m)
  <2>1. \A m : In(open[e], o.pid, m) => m = n
    BY <1>3, <1>4 DEF Has, In, Apart
  <2>2. QED
    BY <1>3, <1>7, <2>1 DEF Has
<1>10. /\ open' \in [Engines -> Seq(Entry)] /\ open'[e] = u
       /\ \A d \in Engines \ {e} : open'[d] = open[d]
  BY <1>1, <1>4, <1>6, <1>7 DEF EngineTypes
<1>11. EngineTypes'
  <2>1. \A d \in Engines : Len(open'[d]) <= MaxTracked
    BY <1>1, <1>4, <1>8, <1>10 DEF EngineTypes
  <2>2. QED
    BY <1>1, <1>10, <2>1 DEF EngineTypes
<1>12. Entries'
  BY <1>1, <1>7, <1>10 DEF Guarded, Entries
<1>13. \A d \in Engines : \A j, m : Has(d, j, m)' <=> Has(d, j, m)
  BY <1>9, <1>10 DEF Has
<1>14. PICK x : x = WithSession(o, n)
  OBVIOUS
<1>15. Shape(x) /\ Named(x) /\ Recognized(x) /\ x.at \in {"idle", "say"} /\ Does(p, x)
  BY <1>1, <1>2, <1>3, <1>14, WithSessionShape
<1>16. /\ OpTypes' /\ RowTypes' /\ Owned' /\ Working' /\ NoLostSample' /\ Voiceprints'
       /\ op'[p] = x /\ \A q \in Procs \ {p} : op'[q] = op[q]
  BY <1>15, RowsStay
<1>17. \A q \in Procs : Waiting(op[q])' /\ Opening(op[q])'
  <2>1. TAKE q \in Procs
  <2>2. CASE q = p
    BY <1>15, <1>16, <2>2 DEF Waiting, Opening
  <2>3. CASE q # p
    <3>1. op'[q] = op[q] /\ Waiting(op[q]) /\ Opening(op[q]) /\ Engine(op[q]) \in Engines
      BY <1>1, <1>16, <2>3, EngineNames DEF Guarded
    <3>2. QED
      BY <1>13, <3>1 DEF Waiting, Opening
  <2>4. QED
    BY <2>2, <2>3
<1>18. \A s \in sessions' : Tracked(s)'
  <2>1. TAKE s \in sessions'
  <2>2. s \in sessions /\ Tracked(s) /\ s.engine \in Engines
    BY <1>1 DEF IInv, RowTypes, Guarded, db
  <2>3. ASSUME NEW q \in Procs, op[q].at = "opened" PROVE op'[q] = op[q]
    BY <1>16, <2>3
  <2>4. QED
    BY <1>13, <2>2, <2>3 DEF Tracked
<1>19. Guarded' /\ OneSession'
  <2>1. sessions' \subseteq sessions /\ dropped \subseteq dropped'
    BY DEF db
  <2>2. \A q \in Procs : op'[q] = op[q] \/ op'[q].at \notin {"open", "opened"}
    BY <1>15, <1>16
  <2>3. QED
    BY <1>1, <1>12, <1>17, <1>18, <2>1, <2>2, GuardedGoes
<1>20. QED
  BY <1>11, <1>16, <1>19 DEF IInv

\* A request that finds no session waits for the lock, which it makes if there is none.
LEMMA SessionForInv ==
  ASSUME IInv, NEW p \in Procs, SessionFor(p), UNCHANGED link
  PROVE  IInv'
<1> DEFINE o == op[p]
           e == Engine(o)
<1>1. o.at = "session" /\ UNCHANGED <<db, counters, gone, dropped, unheard, blends, link>>
  BY DEF SessionFor, history
<1>2. /\ Shape(o) /\ o \in OpType /\ o.kind # "none" /\ Named(o) /\ Recognized(o) /\ EngineTypes /\ Guarded
      /\ OneSession /\ RowTypes /\ Owned /\ e \in Engines
  BY <1>1, Doing, EngineNames DEF IInv, Working, Voiceprints
<1>3. CASE HasSession(p) /\ UNCHANGED locks
  BY <1>1, <1>3, HasSessionInv
<1>4. CASE /\ locks' = [locks EXCEPT ![e] = IF o.pid \in DOMAIN @ THEN @ ELSE With(@, o.pid, serial)]
           /\ Does(p, [o EXCEPT !.at = "lock", !.lock = locks'[e][o.pid]])
           /\ UNCHANGED open
  <2>1. locks[e] \in Counts /\ DOMAIN locks[e] \subseteq Ids /\ locks[e] \in [DOMAIN locks[e] -> Nat]
    BY <1>2, TableTypes DEF EngineTypes
  <2>2. PICK l : l = IF o.pid \in DOMAIN locks[e] THEN locks[e] ELSE With(locks[e], o.pid, serial)
    OBVIOUS
  <2>3. o.pid \in Ids /\ serial \in Nat
    BY <1>1, <1>2, CompanionAssumption DEF Named, Late, Owned, RowTypes, Ids
  <2>4. /\ l \in Counts /\ o.pid \in DOMAIN l /\ l[o.pid] \in Nat
        /\ \A j \in DOMAIN locks[e] : j \in DOMAIN l /\ l[j] = locks[e][j]
    <3>1. CASE o.pid \in DOMAIN locks[e]
      BY <2>1, <2>2, <3>1
    <3>2. CASE o.pid \notin DOMAIN locks[e]
      <4>1. l = With(locks[e], o.pid, serial)
        BY <2>2, <3>2
      <4>2. /\ l \in [DOMAIN locks[e] \cup {o.pid} -> Nat] /\ l[o.pid] = serial
            /\ \A j \in DOMAIN locks[e] : j \in DOMAIN l /\ l[j] = locks[e][j]
        BY <2>1, <2>3, <3>2, <4>1 DEF With
      <4>3. DOMAIN locks[e] \cup {o.pid} \in SUBSET Ids
        BY <2>1, <2>3
      <4>4. QED
        BY <2>3, <4>2, <4>3, TableTypes
    <3>3. QED
      BY <3>1, <3>2
  <2>5. locks' = [locks EXCEPT ![e] = l]
    BY <1>4, <2>2
  <2>6. /\ locks' \in [Engines -> Counts] /\ locks'[e] = l
        /\ \A d \in Engines \ {e} : locks'[d] = locks[d]
    BY <1>2, <2>4, <2>5 DEF EngineTypes
  <2>7. PICK x : x = [o EXCEPT !.at = "lock", !.lock = l[o.pid]]
    OBVIOUS
  <2>8. Does(p, x)
    BY <1>4, <2>6, <2>7
  <2>9. /\ x \in OpType /\ x.at = "lock" /\ x.lock = l[o.pid] /\ x.kind = o.kind /\ x.pid = o.pid
        /\ x.by = o.by /\ x.listed = o.listed
    BY <1>2, <2>4, <2>7 DEF OpType
  <2>10. Shape(x) /\ Named(x) /\ Recognized(x) /\ Engine(x) = e
    BY <1>1, <1>2, <2>9 DEF Shape, Named, Recognized, Late, Engine
  <2>11. /\ OpTypes' /\ RowTypes' /\ Owned' /\ Working' /\ NoLostSample' /\ Voiceprints'
         /\ op'[p] = x /\ \A q \in Procs \ {p} : op'[q] = op[q]
    BY <1>1, <2>8, <2>9, <2>10, RowsStay
  <2>12. EngineTypes' /\ Entries'
    BY <1>2, <1>4, <2>6 DEF EngineTypes, Guarded, Entries
  <2>13. \A q \in Procs : Waiting(op[q])' /\ Opening(op[q])'
    <3>1. TAKE q \in Procs
    <3>2. CASE q = p
      BY <2>4, <2>6, <2>9, <2>10, <2>11, <3>2 DEF Waiting, Opening
    <3>3. CASE q # p
      <4>1. op'[q] = op[q] /\ Waiting(op[q]) /\ Opening(op[q]) /\ Engine(op[q]) \in Engines
        BY <1>2, <2>11, <3>3, EngineNames DEF Guarded
      <4>2. \A d \in Engines : \A j \in DOMAIN locks[d] : j \in DOMAIN locks'[d] /\ locks'[d][j] = locks[d][j]
        BY <2>4, <2>6
      <4>3. Waiting(op[q])'
        BY <1>1, <4>1, <4>2 DEF Waiting
      <4>4. Opening(op[q])'
        BY <1>1, <1>4, <4>1 DEF Opening, Has
      <4>5. QED
        BY <4>3, <4>4
    <3>4. QED
      BY <3>2, <3>3
  <2>14. \A s \in sessions' : Tracked(s)'
    <3>1. TAKE s \in sessions'
    <3>2. s \in sessions /\ Tracked(s)
      BY <1>1, <1>2 DEF Guarded, db
    <3>3. ASSUME NEW q \in Procs, op[q].at = "opened" PROVE op'[q] = op[q]
      BY <1>1, <2>11, <3>3
    <3>4. QED
      BY <1>1, <1>4, <3>2, <3>3 DEF Tracked, Has
  <2>15. Guarded' /\ OneSession'
    <3>1. sessions' \subseteq sessions /\ dropped \subseteq dropped'
      BY <1>1 DEF db
    <3>2. \A q \in Procs : op'[q] = op[q] \/ op'[q].at \notin {"open", "opened"}
      BY <2>9, <2>11
    <3>3. QED
      BY <1>2, <2>12, <2>13, <2>14, <3>1, <3>2, GuardedGoes
  <2>16. QED
    BY <2>11, <2>12, <2>15 DEF IInv
<1>5. QED
  BY <1>3, <1>4 DEF SessionFor

\* The lock is got: the session is looked for again, and opened by one alone.
LEMMA LockedInv ==
  ASSUME IInv, NEW p \in Procs, Locked(p), UNCHANGED link
  PROVE  IInv'
<1> DEFINE o == op[p]
           e == Engine(o)
<1>1. /\ o.at = "lock" /\ Free(o)
      /\ UNCHANGED <<db, locks, counters, gone, dropped, unheard, blends, link>>
  BY DEF Locked, history
<1>2. /\ Shape(o) /\ o \in OpType /\ o.kind # "none" /\ Named(o) /\ Recognized(o) /\ EngineTypes /\ Guarded
      /\ OneSession
  BY <1>1, Doing DEF IInv, Working, Voiceprints
<1>3. CASE HasSession(p)
  BY <1>1, <1>3, HasSessionInv
<1>4. CASE Kept(o) = {} /\ Goes(p, "open") /\ UNCHANGED open
  <2>1. PICK x : x = [o EXCEPT !.at = "open"]
    OBVIOUS
  <2>2. "open" \in Stages \ {"idle"}
    BY DEF Stages
  <2>3. /\ Shape(x) /\ x.at = "open" /\ x.kind = o.kind /\ x.pid = o.pid /\ x.by = o.by
        /\ x.lock = o.lock /\ x.listed = o.listed
    BY <1>2, <2>1, <2>2, GoesShape
  <2>4. Named(x) /\ Recognized(x) /\ Engine(x) = e /\ Does(p, x)
    BY <1>1, <1>2, <1>4, <2>1, <2>3 DEF Named, Recognized, Late, Engine, Goes
  <2>5. /\ OpTypes' /\ RowTypes' /\ Owned' /\ Working' /\ NoLostSample' /\ Voiceprints'
        /\ op'[p] = x /\ \A q \in Procs \ {p} : op'[q] = op[q]
    BY <1>1, <2>3, <2>4, RowsStay
  <2>6. EngineTypes' /\ Entries'
    BY <1>1, <1>2, <1>4 DEF EngineTypes, Guarded, Entries
  <2>7. UNCHANGED <<open, locks, dropped, sessions>>
    BY <1>1, <1>4 DEF db
  <2>8. \A n : ~ Has(e, o.pid, n)
    BY <1>2, <1>4, KeptEntries DEF OpType
  <2>9. \A q \in Procs : Waiting(op[q])' /\ Opening(op[q])'
    <3>1. TAKE q \in Procs
    <3>2. CASE q = p
      <4>1. Waiting(o)
        BY <1>2 DEF Guarded
      <4>2. QED
        BY <1>1, <2>3, <2>4, <2>5, <2>7, <2>8, <3>2, <4>1 DEF Waiting, Opening, Has
    <3>3. CASE q # p
      <4>1. op'[q] = op[q] /\ Waiting(op[q]) /\ Opening(op[q])
        BY <1>2, <2>5, <3>3 DEF Guarded
      <4>2. QED
        BY <2>7, <4>1 DEF Waiting, Opening, Has
    <3>4. QED
      BY <3>2, <3>3
  <2>10. ASSUME NEW q \in Procs \ {p}, op[q].at \in {"open", "opened"}, Engine(op[q]) = e, op[q].pid = o.pid
         PROVE  <<e, o.pid>> \in dropped
    <3>1. Waiting(o) /\ Waiting(op[q])
      BY <1>2 DEF Guarded
    <3>2. ~ SameLock(o, op[q])
      BY <1>1, <2>10 DEF Free
    <3>3. op[q].lock # o.lock
      BY <2>10, <3>2 DEF SameLock
    <3>4. QED
      BY <1>1, <2>10, <3>1, <3>3 DEF Waiting
  <2>11. \A q, r \in Procs : Alone(q, r)'
    <3>1. TAKE q \in Procs, r \in Procs
    <3>2. CASE q # p /\ r # p
      <4>1. op'[q] = op[q] /\ op'[r] = op[r] /\ Alone(q, r)
        BY <1>2, <2>5, <3>2 DEF Guarded
      <4>2. QED
        BY <2>7, <4>1 DEF Alone
    <3>3. CASE q = p /\ r # p
      BY <2>3, <2>4, <2>5, <2>7, <2>10, <3>3 DEF Alone
    <3>4. CASE q # p /\ r = p
      BY <2>3, <2>4, <2>5, <2>7, <2>10, <3>4 DEF Alone
    <3>5. CASE q = p /\ r = p
      BY <3>5 DEF Alone
    <3>6. QED
      BY <3>2, <3>3, <3>4, <3>5
  <2>12. \A s \in sessions' : Tracked(s)'
    <3>1. TAKE s \in sessions'
    <3>2. s \in sessions /\ Tracked(s)
      BY <1>2, <2>7 DEF Guarded
    <3>3. ASSUME NEW q \in Procs, op[q].at = "opened" PROVE op'[q] = op[q]
      BY <1>1, <2>5, <3>3
    <3>4. QED
      BY <2>7, <3>2, <3>3 DEF Tracked, Has
  <2>13. OneSession'
    BY <1>2, <2>7 DEF OneSession
  <2>14. QED
    BY <2>5, <2>6, <2>9, <2>11, <2>12, <2>13 DEF IInv, Guarded
<1>5. QED
  BY <1>3, <1>4 DEF Locked

\* A session is opened, for a person who is still there.
LEMMA OpenSessionInv ==
  ASSUME IInv, NEW p \in Procs, OpenSession(p), UNCHANGED link
  PROVE  IInv'
<1> DEFINE o == op[p]
           e == Engine(o)
<1>1. /\ o.at = "open"
      /\ UNCHANGED <<users, profiles, facts, engine, created, starts, gone, dropped, unheard, blends, link>>
  BY DEF OpenSession, history
<1>2. /\ Shape(o) /\ o \in OpType /\ o.kind # "none" /\ Named(o) /\ Recognized(o) /\ EngineTypes /\ Guarded
      /\ OneSession /\ RowTypes /\ Owned /\ Working /\ Voiceprints /\ NoLostSample /\ e \in Engines
  BY <1>1, Doing, EngineNames DEF IInv, Working, Voiceprints
<1>3. CASE o.pid \notin users
  <2>1. Does(p, Idle) /\ UNCHANGED <<sessions, serial>>
    BY <1>3 DEF OpenSession, Ends
  <2>2. UNCHANGED <<db, counters>> /\ unheard' = unheard
    BY <1>1, <2>1 DEF db, counters
  <2>3. QED
    BY <1>1, <2>1, <2>2, IdleShape, IdleNamed, OnlyGoes
<1>4. CASE o.pid \in users
  <2>1. /\ serial' = serial + 1
        /\ sessions' = sessions \cup {[of |-> o.pid, number |-> serial', engine |-> e]}
        /\ Does(p, [o EXCEPT !.at = "opened", !.session = serial'])
    BY <1>4 DEF OpenSession, Opens
  <2>2. PICK n : n = serial' /\ n \in Nat /\ n \in 1..serial' /\ 1..serial \subseteq 1..serial'
    BY <1>2, <2>1 DEF RowTypes
  <2>3. PICK x : x = [o EXCEPT !.at = "opened", !.session = n]
    OBVIOUS
  <2>4. /\ x \in OpType /\ x.at = "opened" /\ x.session = n /\ x.lock = o.lock /\ x.kind = o.kind
        /\ x.pid = o.pid /\ x.by = o.by /\ x.listed = o.listed
    BY <1>2, <2>2, <2>3 DEF OpType
  <2>5. Shape(x) /\ Named(x) /\ Recognized(x) /\ Engine(x) = e /\ Does(p, x)
    BY <1>1, <1>2, <2>1, <2>2, <2>3, <2>4 DEF Shape, Named, Recognized, Late, Engine
  <2>6. OpTypes' /\ op'[p] = x /\ \A q \in Procs \ {p} : op'[q] = op[q]
    BY <2>5, OneGoes DEF IInv
  <2>7. UNCHANGED <<open, locks, dropped>>
    BY <1>1 DEF engine
  <2>8. PICK s : s = [of |-> o.pid, number |-> n, engine |-> e]
    OBVIOUS
  <2>9. sessions' = sessions \cup {s} /\ s.of = o.pid /\ s.number = n /\ s.engine = e
    BY <2>1, <2>2, <2>8
  <2>10. RowTypes' /\ Owned' /\ NoLostSample'
    <3>1. o.pid \in Ids
      <4>1. o.pid \in 1..created /\ created \in 0..MaxProfiles /\ MaxProfiles \in Nat
        BY <1>2, <1>4, CompanionAssumption DEF Owned, RowTypes
      <4>2. QED
        BY <4>1 DEF Ids
    <3>2. s \in [of : Ids, number : 1..serial', engine : Engines]
      BY <1>2, <2>2, <2>8, <3>1
    <3>3. [of : Ids, number : 1..serial, engine : Engines] \subseteq [of : Ids, number : 1..serial', engine : Engines]
      BY <2>2
    <3>4. sessions' \subseteq [of : Ids, number : 1..serial', engine : Engines] /\ serial' \in Nat
      BY <1>2, <2>2, <2>9, <3>2, <3>3 DEF RowTypes
    <3>5. RowTypes'
      BY <1>1, <1>2, <3>4 DEF RowTypes
    <3>6. Owned'
      BY <1>1, <1>2, <1>4, <2>9 DEF Owned
    <3>7. QED
      BY <1>1, <1>2, <3>5, <3>6 DEF NoLostSample
  <2>11. Working'
    <3>1. Named(x)'
      BY <1>1, <2>5 DEF Named
    <3>2. \A q \in Procs : op'[q] = op[q] \/ (Named(op[q])' /\ op'[q].at # "profile")
      BY <2>4, <2>6, <3>1 DEF Named
    <3>3. created' \in Nat /\ created <= created' /\ (DOMAIN blends)' = DOMAIN blends
      BY <1>1, <1>2 DEF RowTypes
    <3>4. QED
      BY <1>2, <3>2, <3>3, WorkingStays
  <2>12. Voiceprints'
    <3>1. Recognized(x)'
      BY <1>1, <2>5 DEF Recognized
    <3>2. \A q \in Procs : op'[q] = op[q] \/ Recognized(op[q])'
      BY <2>6, <3>1 DEF Recognized
    <3>3. /\ DOMAIN profiles' \subseteq DOMAIN profiles /\ facts' \subseteq facts /\ unheard \subseteq unheard'
          /\ \A j \in DOMAIN profiles' : profiles'[j].voices = profiles[j].voices
      BY <1>1
    <3>4. QED
      BY <1>2, <3>2, <3>3, VoicesStay
  <2>13. EngineTypes' /\ Entries'
    BY <1>2, <2>7 DEF EngineTypes, Guarded, Entries
  <2>14. \A q \in Procs : Waiting(op[q])' /\ Opening(op[q])'
    <3>1. TAKE q \in Procs
    <3>2. CASE q = p
      <4>1. Waiting(o) /\ Opening(o)
        BY <1>2 DEF Guarded
      <4>2. QED
        BY <1>1, <2>4, <2>5, <2>6, <2>7, <3>2, <4>1 DEF Waiting, Opening, Has
    <3>3. CASE q # p
      <4>1. op'[q] = op[q] /\ Waiting(op[q]) /\ Opening(op[q])
        BY <1>2, <2>6, <3>3 DEF Guarded
      <4>2. QED
        BY <2>7, <4>1 DEF Waiting, Opening, Has
    <3>4. QED
      BY <3>2, <3>3
  <2>15. \A q, r \in Procs : Alone(q, r)'
    <3>1. TAKE q \in Procs, r \in Procs
    <3>2. Alone(q, r)
      BY <1>2 DEF Guarded
    <3>3. /\ op'[q].at \in {"open", "opened"} => op[q].at \in {"open", "opened"}
          /\ op'[r].at \in {"open", "opened"} => op[r].at \in {"open", "opened"}
      BY <1>1, <2>6
    <3>4. /\ Engine(op'[q]) = Engine(op[q]) /\ op'[q].pid = op[q].pid
          /\ Engine(op'[r]) = Engine(op[r]) /\ op'[r].pid = op[r].pid
      BY <2>4, <2>5, <2>6
    <3>5. QED
      BY <2>7, <3>2, <3>3, <3>4 DEF Alone
  <2>16. \A t \in sessions' : Tracked(t)'
    <3>1. TAKE t \in sessions'
    <3>2. CASE t = s
      BY <2>4, <2>5, <2>6, <2>9, <3>2 DEF Tracked
    <3>3. CASE t \in sessions
      <4>1. Tracked(t)
        BY <1>2, <3>3 DEF Guarded
      <4>2. ASSUME NEW q \in Procs, op[q].at = "opened" PROVE op'[q] = op[q]
        BY <1>1, <2>6, <4>2
      <4>3. QED
        BY <2>7, <4>1, <4>2 DEF Tracked, Has
    <3>4. QED
      BY <2>9, <3>2, <3>3
  <2>17. ASSUME NEW t \in sessions, t.of = s.of, t.engine = s.engine PROVE <<s.engine, s.of>> \in dropped
    <3>1. Tracked(t) /\ Opening(o) /\ t.number \in Nat
      BY <1>2 DEF Guarded, RowTypes
    <3>2. CASE Has(t.engine, t.of, t.number)
      BY <1>1, <2>9, <2>17, <3>1, <3>2 DEF Opening
    <3>3. ASSUME NEW q \in Procs, op[q].at = "opened", Engine(op[q]) = t.engine, op[q].pid = t.of
          PROVE  <<s.engine, s.of>> \in dropped
      <4>1. q # p /\ Alone(q, p)
        BY <1>1, <1>2, <3>3 DEF Guarded
      <4>2. QED
        BY <1>1, <2>9, <2>17, <3>3, <4>1 DEF Alone
    <3>4. QED
      BY <2>17, <3>1, <3>2, <3>3 DEF Tracked
  <2>18. OneSession'
    BY <1>2, <2>7, <2>9, <2>17 DEF OneSession
  <2>19. QED
    BY <2>6, <2>10, <2>11, <2>12, <2>13, <2>14, <2>15, <2>16, <2>18 DEF IInv, Guarded
<1>5. QED
  BY <1>3, <1>4

\* What is left when the first is dropped.
LEMMA TailEntries ==
  ASSUME NEW s \in Seq(Entry), Apart(s), Len(s) > 0, NEW t, t = Tail(s)
  PROVE  /\ t \in Seq(Entry) /\ Apart(t) /\ Len(t) = Len(s) - 1
         /\ \A j, m : In(t, j, m) => In(s, j, m)
         /\ \A j, m : In(s, j, m) => In(t, j, m) \/ j = Head(s).of
<1>1. Len(s) \in Nat /\ s # <<>>
  OBVIOUS
<1>2. t \in Seq(Entry) /\ Len(t) = Len(s) - 1 /\ Head(s) = s[1]
  BY <1>1
<1>3. \A k \in 1..Len(t) : t[k] = s[k + 1]
  BY <1>1, <1>2
<1>4. DOMAIN t = 1..Len(t) /\ DOMAIN s = 1..Len(s)
  BY <1>2
<1>5. \A k \in DOMAIN t : k \in Nat /\ k + 1 \in DOMAIN s /\ t[k] = s[k + 1]
  BY <1>1, <1>2, <1>3, <1>4
<1>6. \A k \in DOMAIN s : k = 1 \/ (k - 1 \in DOMAIN t /\ t[k - 1] = s[k])
  <2>1. TAKE k \in DOMAIN s
  <2>2. CASE k # 1
    <3>1. k \in 1..Len(s) /\ k - 1 \in DOMAIN t /\ (k - 1) + 1 = k
      BY <1>1, <1>2, <1>4, <2>2
    <3>2. QED
      BY <1>5, <3>1
  <2>3. QED
    BY <2>2
<1>7. Apart(t)
  <2>1. ASSUME NEW j \in DOMAIN t, NEW k \in DOMAIN t, t[j].of = t[k].of PROVE j = k
    <3>1. j + 1 \in DOMAIN s /\ k + 1 \in DOMAIN s /\ s[j + 1].of = s[k + 1].of /\ j \in Nat /\ k \in Nat
      BY <1>5, <2>1
    <3>2. j + 1 = k + 1
      BY <3>1 DEF Apart
    <3>3. QED
      BY <3>1, <3>2
  <2>2. QED
    BY <2>1 DEF Apart
<1>8. \A j, m : In(t, j, m) => In(s, j, m)
  BY <1>5 DEF In
<1>9. \A j, m : In(s, j, m) => In(t, j, m) \/ j = Head(s).of
  <2>1. TAKE j, m
  <2>2. HAVE In(s, j, m)
  <2>3. PICK k \in DOMAIN s : s[k].of = j /\ s[k].number = m
    BY <2>2 DEF In
  <2>4. CASE k = 1
    BY <1>2, <2>3, <2>4
  <2>5. CASE k # 1
    BY <1>6, <2>3, <2>5 DEF In
  <2>6. QED
    BY <2>4, <2>5
<1>10. QED
  BY <1>2, <1>7, <1>8, <1>9

\* The session is kept, and the one used longest ago is dropped with its lock.
LEMMA RememberSessionInv ==
  ASSUME IInv, NEW p \in Procs, RememberSession(p), UNCHANGED link
  PROVE  IInv'
<1> DEFINE o == op[p]
           e == Engine(o)
           all == UsedLast(open[e], o.pid, o.session)
           out == IF Len(all) > MaxTracked THEN {Head(all).of} ELSE {}
           kept == IF out = {} THEN all ELSE Tail(all)
<1>1. /\ o.at = "opened" /\ open' = [open EXCEPT ![e] = kept]
      /\ locks' = [locks EXCEPT ![e] = Without(@, out)]
      /\ dropped' = dropped \cup {<<e, i>> : i \in out}
      /\ Does(p, WithSession(o, o.session))
      /\ UNCHANGED <<db, counters, gone, unheard, blends, link>>
  BY DEF RememberSession
<1>2. /\ Shape(o) /\ o \in OpType /\ o.kind # "none" /\ Named(o) /\ Recognized(o) /\ EngineTypes /\ Guarded
      /\ OneSession /\ RowTypes /\ e \in Engines /\ o.pid \in Nat /\ o.session \in Nat
  BY <1>1, Doing, EngineNames DEF IInv, Working, Voiceprints, OpType
<1>3. /\ all \in Seq(Entry) /\ Apart(all)
      /\ Len(all) = Len(open[e]) \/ Len(all) = Len(open[e]) + 1
      /\ \A j, m : In(all, j, m) <=> (j = o.pid /\ m = o.session) \/ (j # o.pid /\ In(open[e], j, m))
  <2>1. open[e] \in Seq(Entry) /\ Apart(open[e])
    BY <1>2 DEF EngineTypes, Guarded, Entries
  <2>2. PICK u : u = all
    OBVIOUS
  <2>3. /\ u \in Seq(Entry) /\ Apart(u)
        /\ Len(u) = Len(open[e]) \/ (Len(u) = Len(open[e]) + 1 /\ \A m : ~ In(open[e], o.pid, m))
        /\ \A j, m : In(u, j, m) <=> (j = o.pid /\ m = o.session) \/ (j # o.pid /\ In(open[e], j, m))
    BY <1>2, <2>1, <2>2, UsedLastEntries
  <2>4. QED
    BY <2>2, <2>3
<1>4. Len(open[e]) \in Nat /\ Len(open[e]) <= MaxTracked /\ MaxTracked \in Nat \ {0} /\ Len(all) \in Nat
  <2>1. open[e] \in Seq(Entry) /\ Len(open[e]) <= MaxTracked
    BY <1>2 DEF EngineTypes
  <2> HIDE DEF all
  <2>2. QED
    BY <1>3, <2>1, CompanionAssumption
<1> HIDE DEF all
\* The last that is dropped is dropped for its profile.
<1>5. /\ kept \in Seq(Entry) /\ Apart(kept) /\ Len(kept) <= MaxTracked
      /\ \A j, m : In(kept, j, m) => In(all, j, m)
      /\ \A j, m : In(all, j, m) => In(kept, j, m) \/ j \in out
  <2>1. CASE ~ (Len(all) > MaxTracked)
    BY <1>3, <1>4, <2>1
  <2>2. CASE Len(all) > MaxTracked
    <3>1. out = {Head(all).of} /\ Head(all).of \in out
      BY <2>2
    <3>2. kept = Tail(all)
      BY <3>1
    <3>3. Len(all) > 0 /\ Len(all) - 1 <= MaxTracked
      BY <1>3, <1>4, <2>2
    <3> HIDE DEF kept, out
    <3>4. /\ kept \in Seq(Entry) /\ Apart(kept) /\ Len(kept) = Len(all) - 1
          /\ \A j, m : In(kept, j, m) => In(all, j, m)
          /\ \A j, m : In(all, j, m) => In(kept, j, m) \/ j = Head(all).of
      BY <1>3, <3>2, <3>3, TailEntries
    <3>5. QED
      BY <3>1, <3>3, <3>4
  <2>3. QED
    BY <2>1, <2>2
<1> HIDE DEF kept, out
<1>6. /\ open' \in [Engines -> Seq(Entry)] /\ open'[e] = kept
      /\ \A d \in Engines \ {e} : open'[d] = open[d]
  BY <1>1, <1>2, <1>5 DEF EngineTypes
<1>7. /\ locks' \in [Engines -> Counts]
      /\ \A d \in Engines : \A j \in DOMAIN locks[d] :
           <<d, j>> \in dropped' \/ (j \in DOMAIN locks'[d] /\ locks'[d][j] = locks[d][j])
  <2>1. locks \in [Engines -> Counts] /\ DOMAIN locks[e] \in SUBSET Ids /\ locks[e] \in [DOMAIN locks[e] -> Nat]
    BY <1>2, TableTypes DEF EngineTypes
  <2>2. PICK l : l = Without(locks[e], out)
    OBVIOUS
  <2>3. /\ l \in [DOMAIN locks[e] \ out -> Nat]
        /\ \A j \in DOMAIN locks[e] : j \in out \/ (j \in DOMAIN l /\ l[j] = locks[e][j])
    BY <2>1, <2>2 DEF Without
  <2>4. DOMAIN locks[e] \ out \in SUBSET Ids
    BY <2>1
  <2>5. l \in Counts
    BY <2>3, <2>4, TableTypes
  <2>6. locks' = [locks EXCEPT ![e] = l]
    BY <1>1, <2>2
  <2>7. locks' \in [Engines -> Counts] /\ locks'[e] = l /\ \A d \in Engines \ {e} : locks'[d] = locks[d]
    BY <1>2, <2>1, <2>5, <2>6
  <2>8. \A j \in out : <<e, j>> \in dropped'
    BY <1>1
  <2>9. QED
    BY <2>3, <2>7, <2>8
<1>8. EngineTypes' /\ Entries'
  <2>1. \A d \in Engines : Len(open'[d]) <= MaxTracked /\ Apart(open'[d])
    BY <1>2, <1>5, <1>6 DEF EngineTypes, Guarded, Entries
  <2>2. QED
    BY <1>6, <1>7, <2>1 DEF EngineTypes, Entries
<1>9. PICK x : x = WithSession(o, o.session)
  OBVIOUS
<1>10. Shape(x) /\ Named(x) /\ Recognized(x) /\ x.at \in {"idle", "say"} /\ Does(p, x)
  BY <1>1, <1>2, <1>9, WithSessionShape
<1>11. /\ OpTypes' /\ RowTypes' /\ Owned' /\ Working' /\ NoLostSample' /\ Voiceprints'
       /\ op'[p] = x /\ \A q \in Procs \ {p} : op'[q] = op[q]
  BY <1>1, <1>10, RowsStay
\* What another operation opens for the same profile it opens after a drop.
<1>12. ASSUME NEW d \in Engines, NEW j, NEW m, Has(d, j, m)'
       PROVE  Has(d, j, m) \/ (d = e /\ j = o.pid)
  <2>1. CASE d = e
    BY <1>3, <1>5, <1>6, <1>12, <2>1 DEF Has
  <2>2. CASE d # e
    BY <1>6, <1>12, <2>2 DEF Has
  <2>3. QED
    BY <2>1, <2>2
<1>13. \A q \in Procs : Waiting(op[q])' /\ Opening(op[q])'
  <2>1. TAKE q \in Procs
  <2>2. CASE q = p
    BY <1>10, <1>11, <2>2 DEF Waiting, Opening
  <2>3. CASE q # p
    <3>1. op'[q] = op[q] /\ Waiting(op[q]) /\ Opening(op[q]) /\ Engine(op[q]) \in Engines /\ Alone(p, q)
      BY <1>2, <1>11, <2>3, EngineNames DEF Guarded
    <3>2. dropped \subseteq dropped'
      BY <1>1
    <3>3. Waiting(op[q])'
      BY <1>7, <3>1, <3>2 DEF Waiting
    <3>4. Opening(op[q])'
      <4>1. SUFFICES ASSUME op[q].at \in {"open", "opened"}, <<Engine(op[q]), op[q].pid>> \notin dropped'
                     PROVE  \A n \in Nat : ~ Has(Engine(op[q]), op[q].pid, n)'
        BY <3>1 DEF Opening, Has
      <4>2. <<Engine(op[q]), op[q].pid>> \notin dropped
        BY <3>2, <4>1
      <4>3. ~ (Engine(op[q]) = e /\ op[q].pid = o.pid)
        BY <1>1, <2>3, <3>1, <4>1, <4>2 DEF Alone
      <4>4. \A n \in Nat : ~ Has(Engine(op[q]), op[q].pid, n)
        BY <3>1, <4>1, <4>2 DEF Opening
      <4>5. QED
        BY <1>12, <3>1, <4>3, <4>4
    <3>5. QED
      BY <3>3, <3>4
  <2>4. QED
    BY <2>2, <2>3
<1>14. \A s \in sessions' : Tracked(s)'
  <2>1. TAKE s \in sessions'
  <2>2. s \in sessions /\ Tracked(s) /\ s.engine \in Engines /\ s.number \in Nat
    BY <1>1, <1>2 DEF RowTypes, Guarded, db
  <2>3. \A j \in out : <<e, j>> \in dropped'
    BY <1>1
  <2>4. In(kept, o.pid, o.session) \/ <<e, o.pid>> \in dropped'
    <3>1. In(all, o.pid, o.session)
      BY <1>3
    <3>2. In(kept, o.pid, o.session) \/ o.pid \in out
      BY <1>5, <3>1
    <3>3. QED
      BY <2>3, <3>2
  <2>5. CASE <<s.engine, s.of>> \in dropped
    BY <1>1, <2>5 DEF Tracked
  <2>6. CASE Has(s.engine, s.of, s.number)
    <3>1. CASE s.engine # e
      BY <1>6, <2>2, <2>6, <3>1 DEF Tracked, Has
    <3>2. CASE s.engine = e /\ s.of = o.pid
      <4>1. Opening(o)
        BY <1>2 DEF Guarded
      <4>2. <<e, o.pid>> \in dropped
        BY <1>1, <2>2, <2>6, <3>2, <4>1 DEF Opening
      <4>3. QED
        BY <1>1, <3>2, <4>2 DEF Tracked
    <3>3. CASE s.engine = e /\ s.of # o.pid
      <4>1. In(all, s.of, s.number)
        BY <1>3, <2>6, <3>3 DEF Has
      <4>2. In(kept, s.of, s.number) \/ <<e, s.of>> \in dropped'
        BY <1>5, <2>3, <4>1
      <4>3. QED
        BY <1>6, <3>3, <4>2 DEF Tracked, Has
    <3>4. QED
      BY <3>1, <3>2, <3>3
  <2>7. ASSUME NEW q \in Procs, op[q].at = "opened", Engine(op[q]) = s.engine, op[q].pid = s.of,
               op[q].session = s.number
        PROVE  Tracked(s)'
    <3>1. CASE q = p
      <4>1. s.engine = e /\ s.of = o.pid /\ s.number = o.session
        BY <2>7, <3>1
      <4>2. QED
        BY <1>6, <2>4, <4>1 DEF Tracked, Has
    <3>2. CASE q # p
      <4>1. op'[q] = op[q]
        BY <1>11, <3>2
      <4>2. QED
        BY <2>7, <4>1 DEF Tracked
    <3>3. QED
      BY <3>1, <3>2
  <2>8. QED
    BY <2>2, <2>5, <2>6, <2>7 DEF Tracked
<1>15. Guarded' /\ OneSession'
  <2>1. sessions' \subseteq sessions /\ dropped \subseteq dropped'
    BY <1>1 DEF db
  <2>2. \A q \in Procs : op'[q] = op[q] \/ op'[q].at \notin {"open", "opened"}
    BY <1>10, <1>11
  <2>3. QED
    BY <1>2, <1>8, <1>13, <1>14, <2>1, <2>2, GuardedGoes
<1>16. QED
  BY <1>8, <1>11, <1>15 DEF IInv

-----------------------------------------------------------------------------
(* Sessions that go                                                        *)

\* What guards the sessions, when an engine drops those it kept, and operations
\* end.
LEMMA Drops ==
  ASSUME Guarded, OneSession, EngineTypes, dropped \subseteq dropped', sessions' \subseteq sessions,
         \A s \in sessions : s.engine \in Engines,
         \A q \in Procs :
           \/ op'[q] = op[q]
           \/ /\ op'[q].at \notin {"lock", "open", "opened"}
              /\ op[q].at = "opened" => <<Engine(op[q]), op[q].pid>> \in dropped',
         \A d \in Engines :
           \/ open'[d] = open[d]
           \/ open'[d] = <<>> /\ \A k \in DOMAIN open[d] : <<d, open[d][k].of>> \in dropped',
         \A d \in Engines :
           \/ locks'[d] = locks[d]
           \/ \A q \in Procs : Engine(op[q]) = d => op'[q].at \notin {"lock", "open", "opened"}
  PROVE  Guarded' /\ OneSession'
<1>1. \A d \in Engines : \A i, n : In(open'[d], i, n) => Has(d, i, n)
  BY DEF Has, In
<1>2. ASSUME NEW d \in Engines, NEW i, NEW n, Has(d, i, n)
      PROVE  In(open'[d], i, n) \/ <<d, i>> \in dropped'
  <2>1. CASE open'[d] = open[d]
    BY <1>2, <2>1 DEF Has
  <2>2. CASE \A k \in DOMAIN open[d] : <<d, open[d][k].of>> \in dropped'
    BY <1>2, <2>2 DEF Has, In
  <2>3. QED
    BY <2>1, <2>2
<1>3. Entries'
  <2>1. ASSUME NEW d \in Engines PROVE Apart(open'[d])
    <3>1. Apart(open[d])
      BY DEF Guarded, Entries
    <3>2. QED
      BY <3>1 DEF Apart
  <2>2. QED
    BY <2>1 DEF Entries
<1>4. ASSUME NEW q \in Procs PROVE Waiting(op[q])' /\ Opening(op[q])'
  <2>1. CASE op'[q] = op[q] /\ op[q].at \in {"lock", "open", "opened"}
    <3>1. Waiting(op[q]) /\ Opening(op[q]) /\ Engine(op[q]) \in Engines
      BY EngineNames DEF Guarded
    <3>2. locks'[Engine(op[q])] = locks[Engine(op[q])]
      BY <2>1, <3>1
    <3>3. Waiting(op[q])'
      BY <2>1, <3>1, <3>2 DEF Waiting
    <3>4. Opening(op[q])'
      BY <1>1, <2>1, <3>1 DEF Opening, Has
    <3>5. QED
      BY <3>3, <3>4
  <2>2. CASE op'[q].at \notin {"lock", "open", "opened"}
    BY <2>2 DEF Waiting, Opening
  <2>3. QED
    BY <2>1, <2>2
<1>5. ASSUME NEW s \in sessions' PROVE Tracked(s)'
  <2>1. Tracked(s) /\ s.engine \in Engines
    BY DEF Guarded
  <2>2. CASE <<s.engine, s.of>> \in dropped
    BY <2>2 DEF Tracked
  <2>3. CASE Has(s.engine, s.of, s.number)
    BY <1>2, <2>1, <2>3 DEF Tracked, Has
  <2>4. ASSUME NEW q \in Procs, op[q].at = "opened", Engine(op[q]) = s.engine, op[q].pid = s.of,
               op[q].session = s.number
        PROVE  Tracked(s)'
    <3>1. CASE op'[q] = op[q]
      BY <2>4, <3>1 DEF Tracked
    <3>2. CASE op'[q] # op[q]
      BY <2>4, <3>2 DEF Tracked
    <3>3. QED
      BY <3>1, <3>2
  <2>5. QED
    BY <2>1, <2>2, <2>3, <2>4 DEF Tracked
<1>6. \A q \in Procs : op'[q] = op[q] \/ op'[q].at \notin {"open", "opened"}
  OBVIOUS
<1>7. QED
  BY <1>3, <1>4, <1>5, <1>6, GuardedGoes

\* An engine forgets the sessions it keeps.
LEMMA ClearInv ==
  ASSUME IInv, NEW p \in Procs, Clear(p), UNCHANGED link
  PROVE  IInv'
<1>1. PICK e \in Engines :
        /\ op[p].at = "clear" /\ open' = [open EXCEPT ![e] = <<>>]
        /\ dropped' = dropped \cup {<<e, open[e][k].of>> : k \in DOMAIN open[e]}
        /\ Does(p, Idle) /\ UNCHANGED <<db, locks, counters, gone, unheard, blends, link>>
  BY EngineNames DEF Clear, Ends
<1>2. /\ OpTypes' /\ RowTypes' /\ Owned' /\ Working' /\ NoLostSample' /\ Voiceprints'
      /\ op'[p] = Idle /\ \A q \in Procs \ {p} : op'[q] = op[q]
  BY <1>1, IdleShape, IdleNamed, RowsStay
<1>3. EngineTypes /\ Guarded /\ OneSession /\ RowTypes
  BY DEF IInv
<1>4. /\ open' \in [Engines -> Seq(Entry)] /\ open'[e] = <<>>
      /\ \A d \in Engines \ {e} : open'[d] = open[d]
  BY <1>1, <1>3 DEF EngineTypes
<1>5. EngineTypes'
  BY <1>1, <1>3, <1>4, CompanionAssumption DEF EngineTypes
<1>6. dropped \subseteq dropped' /\ \A k \in DOMAIN open[e] : <<e, open[e][k].of>> \in dropped'
  BY <1>1
<1>7. sessions' \subseteq sessions /\ \A s \in sessions : s.engine \in Engines
  BY <1>1, <1>3 DEF db, RowTypes
<1>8. \A q \in Procs :
        \/ op'[q] = op[q]
        \/ /\ op'[q].at \notin {"lock", "open", "opened"}
           /\ op[q].at = "opened" => <<Engine(op[q]), op[q].pid>> \in dropped'
  BY <1>1, <1>2, IdleShape
<1>9. \A d \in Engines :
        \/ open'[d] = open[d]
        \/ open'[d] = <<>> /\ \A k \in DOMAIN open[d] : <<d, open[d][k].of>> \in dropped'
  BY <1>4, <1>6
<1>10. Guarded' /\ OneSession'
  BY <1>1, <1>3, <1>6, <1>7, <1>8, <1>9, Drops
<1>11. QED
  BY <1>2, <1>5, <1>10 DEF IInv

\* An operation fails whose session was on its way to it.
LEMMA FailsOpenedInv ==
  ASSUME IInv, NEW p \in Procs, Fails(p), op[p].at = "opened", UNCHANGED link
  PROVE  IInv'
<1>1. /\ dropped' = dropped \cup {<<Engine(op[p]), op[p].pid>>} /\ Does(p, Idle)
      /\ UNCHANGED <<db, engine, counters, gone, unheard, blends, link>>
  BY DEF Fails, Ends
<1>2. /\ OpTypes' /\ RowTypes' /\ Owned' /\ Working' /\ NoLostSample' /\ Voiceprints'
      /\ op'[p] = Idle /\ \A q \in Procs \ {p} : op'[q] = op[q]
  BY <1>1, IdleShape, IdleNamed, RowsStay
<1>3. EngineTypes /\ Guarded /\ OneSession /\ RowTypes
  BY DEF IInv
<1>4. UNCHANGED <<open, locks>>
  BY <1>1 DEF engine
<1>5. EngineTypes'
  BY <1>3, <1>4 DEF EngineTypes
<1>6. sessions' \subseteq sessions /\ \A s \in sessions : s.engine \in Engines
  BY <1>1, <1>3 DEF db, RowTypes
<1>7. \A q \in Procs :
        \/ op'[q] = op[q]
        \/ /\ op'[q].at \notin {"lock", "open", "opened"}
           /\ op[q].at = "opened" => <<Engine(op[q]), op[q].pid>> \in dropped'
  BY <1>1, <1>2, IdleShape
<1>8. dropped \subseteq dropped'
  BY <1>1
<1>9. Guarded' /\ OneSession'
  BY <1>3, <1>4, <1>6, <1>7, <1>8, Drops
<1>10. QED
  BY <1>2, <1>5, <1>9 DEF IInv

\* Nothing of an engine is left, and nothing of what it was doing.
LEMMA DiscardsInv ==
  ASSUME IInv, NEW e \in Engines, Discards(e), sessions' \subseteq sessions
  PROVE  /\ OpTypes' /\ EngineTypes' /\ Guarded' /\ OneSession'
         /\ \A q \in Procs : op'[q] = op[q] \/ op'[q] = Idle
<1>1. /\ op' = [p \in Procs |-> IF Engine(op[p]) = e THEN Idle ELSE op[p]]
      /\ open' = [open EXCEPT ![e] = <<>>] /\ locks' = [locks EXCEPT ![e] = <<>>]
      /\ dropped \subseteq dropped' /\ \A k \in DOMAIN open[e] : <<e, open[e][k].of>> \in dropped'
      /\ \A q \in Procs : Engine(op[q]) = e /\ op[q].at = "opened" => <<e, op[q].pid>> \in dropped'
  BY DEF Discards
<1>2. EngineTypes /\ Guarded /\ OneSession /\ RowTypes /\ OpTypes
  BY DEF IInv
<1>3. \A q \in Procs : op'[q] = IF Engine(op[q]) = e THEN Idle ELSE op[q]
  BY <1>1
<1>4. OpTypes'
  <2>1. \A q \in Procs : Shape(op'[q])
    BY <1>2, <1>3, IdleShape DEF OpTypes
  <2>2. op' \in [Procs -> OpType]
    BY <1>1, <2>1 DEF Shape
  <2>3. QED
    BY <2>1, <2>2 DEF OpTypes
<1>5. /\ open' \in [Engines -> Seq(Entry)] /\ open'[e] = <<>>
      /\ \A d \in Engines \ {e} : open'[d] = open[d]
  BY <1>1, <1>2 DEF EngineTypes
<1>6. locks' \in [Engines -> Counts] /\ \A d \in Engines \ {e} : locks'[d] = locks[d]
  BY <1>1, <1>2, NoRows DEF EngineTypes
<1>7. EngineTypes'
  <2>1. Len(open'[e]) <= MaxTracked
    BY <1>5, CompanionAssumption
  <2>2. \A d \in Engines \ {e} : Len(open'[d]) <= MaxTracked
    BY <1>2, <1>5 DEF EngineTypes
  <2>3. QED
    BY <1>5, <1>6, <2>1, <2>2 DEF EngineTypes
<1>8. \A q \in Procs :
        \/ op'[q] = op[q]
        \/ /\ op'[q].at \notin {"lock", "open", "opened"}
           /\ op[q].at = "opened" => <<Engine(op[q]), op[q].pid>> \in dropped'
  BY <1>1, <1>3, IdleShape
<1>9. \A d \in Engines :
        \/ open'[d] = open[d]
        \/ open'[d] = <<>> /\ \A k \in DOMAIN open[d] : <<d, open[d][k].of>> \in dropped'
  BY <1>1, <1>5
<1>10. \A d \in Engines :
         \/ locks'[d] = locks[d]
         \/ \A q \in Procs : Engine(op[q]) = d => op'[q].at \notin {"lock", "open", "opened"}
  BY <1>3, <1>6, IdleShape
<1>11. \A s \in sessions : s.engine \in Engines
  BY <1>2 DEF RowTypes
<1>12. Guarded' /\ OneSession'
  BY <1>1, <1>2, <1>8, <1>9, <1>10, <1>11, Drops
<1>13. QED
  BY <1>3, <1>4, <1>7, <1>12

\* What the rows are known by, when none changes and operations end.
LEMMA EndsInv ==
  ASSUME IInv, UNCHANGED <<db, counters, gone, unheard, blends>>, link' \in {"none", "open", "closed"},
         \A q \in Procs : op'[q] = op[q] \/ op'[q] = Idle
  PROVE  RowTypes' /\ Owned' /\ Working' /\ NoLostSample' /\ Voiceprints'
<1>1. UNCHANGED <<users, profiles, sessions, facts, created, serial, starts, gone, unheard, blends>>
  BY DEF db, counters
<1>2. RowTypes /\ Owned /\ NoLostSample /\ Working /\ Voiceprints
  BY DEF IInv
<1>3. RowTypes' /\ Owned' /\ NoLostSample'
  BY <1>1, <1>2 DEF RowTypes, Owned, NoLostSample
<1>4. Working'
  <2>1. created' \in Nat /\ created <= created' /\ (DOMAIN blends)' = DOMAIN blends
    BY <1>1, <1>2 DEF RowTypes
  <2>2. \A q \in Procs : op'[q] = op[q] \/ (Named(op[q])' /\ op'[q].at # "profile")
    BY IdleShape DEF Named, Late
  <2>3. QED
    BY <1>2, <2>1, <2>2, WorkingStays
<1>5. Voiceprints'
  <2>1. \A q \in Procs : op'[q] = op[q] \/ Recognized(op[q])'
    BY IdleShape DEF Recognized
  <2>2. /\ DOMAIN profiles' \subseteq DOMAIN profiles /\ unheard \subseteq unheard' /\ facts' \subseteq facts
        /\ \A i \in DOMAIN profiles' : profiles'[i].voices = profiles[i].voices
    BY <1>1
  <2>3. QED
    BY <1>2, <2>1, <2>2, VoicesStay
<1>6. QED
  BY <1>3, <1>4, <1>5

\* A process starts again, or a server stops after a link's row.
LEMMA RestartInv ==
  ASSUME IInv, (\E e \in Engines : Restart(e)) \/ DeprovisionCut
  PROVE  IInv'
<1>1. PICK e \in Engines : /\ Discards(e) /\ UNCHANGED <<db, counters, gone, unheard, blends>>
                           /\ link' \in {"none", "open", "closed"}
  <2>1. "web" \in Engines /\ link \in {"none", "open", "closed"}
    BY DEF Engines, IInv, RowTypes
  <2>2. QED
    BY <2>1 DEF Restart, DeprovisionCut
<1>2. /\ OpTypes' /\ EngineTypes' /\ Guarded' /\ OneSession'
      /\ \A q \in Procs : op'[q] = op[q] \/ op'[q] = Idle
  <2>1. sessions' \subseteq sessions
    BY <1>1 DEF db
  <2>2. QED
    BY <1>1, <2>1, DiscardsInv
<1>3. RowTypes' /\ Owned' /\ Working' /\ NoLostSample' /\ Voiceprints'
  BY <1>1, <1>2, EndsInv
<1>4. QED
  BY <1>2, <1>3 DEF IInv

\* A link is given to a new person.
LEMMA OnboardInv ==
  ASSUME IInv, Onboard
  PROVE  IInv'
<1>1. link' = "open" /\ UNCHANGED <<db, engine, op, counters, gone, dropped, unheard, blends>>
  BY DEF Onboard, history
<1>2. UNCHANGED <<open, locks, op, dropped, sessions>>
  BY <1>1 DEF engine, db
<1>3. RowTypes' /\ Owned' /\ Working' /\ NoLostSample' /\ Voiceprints'
  BY <1>1, EndsInv
<1>4. Guarded' /\ OneSession'
  BY <1>2, SessionsStay DEF IInv
<1>5. OpTypes' /\ EngineTypes'
  BY <1>2 DEF IInv, OpTypes, EngineTypes
<1>6. QED
  BY <1>3, <1>4, <1>5 DEF IInv

\* A link is deleted with its file and its engine.
LEMMA DeprovisionInv ==
  ASSUME IInv, Deprovision
  PROVE  IInv'
<1>1. /\ Discards("web") /\ Cascade(users) /\ gone' = gone \cup users /\ link' = "closed"
      /\ UNCHANGED <<created, serial, starts, unheard, blends>>
  BY DEF Deprovision, counters
<1>2. /\ OpTypes' /\ EngineTypes' /\ Guarded' /\ OneSession'
      /\ \A q \in Procs : op'[q] = op[q] \/ op'[q] = Idle
  <2>1. sessions' \subseteq sessions /\ "web" \in Engines
    BY <1>1 DEF Cascade, Engines
  <2>2. QED
    BY <1>1, <2>1, DiscardsInv
<1>3. users \subseteq 1..created
  BY DEF IInv, Owned
<1>4. \A q \in Procs : op'[q] = op[q]
                       \/ (op'[q].at # "profile" /\ DOMAIN op'[q].listed \subseteq 1..created
                           /\ op'[q].at \notin Late \cup {"listen", "blend"} /\ op'[q].by = NoOne)
  BY <1>2, IdleShape DEF Late
<1>5. RowTypes' /\ Owned' /\ Working' /\ NoLostSample' /\ Voiceprints'
  BY <1>1, <1>3, <1>4, RowsGo
<1>6. QED
  BY <1>2, <1>5 DEF IInv

-----------------------------------------------------------------------------
(* The invariant and what follows from it                                  *)

\* Nobody is known yet, and no session is open.
LEMMA InitInv == Init => IInv
<1>1. HAVE Init
<1>2. OpTypes
  BY <1>1, IdleShape DEF Init, OpTypes, Shape
<1>3. RowTypes
  BY <1>1, NoRows, CompanionAssumption DEF Init, RowTypes
<1>4. EngineTypes
  BY <1>1, NoRows, CompanionAssumption DEF Init, EngineTypes
<1>5. Owned /\ NoLostSample
  BY <1>1, NoRows DEF Init, Owned, NoLostSample
<1>6. \A p \in Procs : op[p] = Idle
  BY <1>1 DEF Init
<1>7. Working /\ Voiceprints
  BY <1>1, <1>6, NoRows, IdleShape, IdleNamed DEF Init, Working, Voiceprints
<1>8. Guarded
  <2>1. Entries
    BY <1>1 DEF Init, Entries, Apart
  <2>2. \A p \in Procs : Waiting(op[p]) /\ Opening(op[p])
    BY <1>6, IdleShape DEF Waiting, Opening
  <2>3. \A p, q \in Procs : Alone(p, q)
    BY <1>6, IdleShape DEF Alone
  <2>4. \A s \in sessions : Tracked(s)
    BY <1>1 DEF Init
  <2>5. QED
    BY <2>1, <2>2, <2>3, <2>4 DEF Guarded
<1>9. OneSession
  BY <1>1 DEF Init, OneSession
<1>10. QED
  BY <1>2, <1>3, <1>4, <1>5, <1>7, <1>8, <1>9 DEF IInv

\* Every step of an operation.
LEMMA StepInv ==
  ASSUME IInv, NEW p \in Procs, Step(p), UNCHANGED link
  PROVE  IInv'
BY ResolveInv, ListWebInv, NewUserInv, NewProfileInv, SetNameInv, ListenInv, BlendInv,
   SessionForInv, LockedInv, OpenSessionInv, RememberSessionInv, GoesInv, NoteInv, ReplyInv,
   ListAllInv, DeleteMemoriesInv, WipeProfilesInv, ClearInv
DEF Step

\* The types, who is gone, whose voices they are and what guards the sessions,
\* at every step of the requests, the engines and the processes.
THEOREM Invariance == Spec => []IInv
<1>1. ASSUME IInv, [Next]_vars PROVE IInv'
  <2>1. ASSUME NEW p \in Procs, Request(p) \/ Step(p) \/ Fails(p), UNCHANGED link PROVE IInv'
    BY <1>1, <2>1, RequestInv, StepInv, FailsInv, FailsOpenedInv
  <2>2. CASE (Forget \/ WipeAll) /\ UNCHANGED link
    BY <1>1, <2>2, EraseInv
  <2>3. CASE (\E e \in Engines : Restart(e)) \/ DeprovisionCut
    BY <1>1, <2>3, RestartInv
  <2>4. CASE Onboard
    BY <1>1, <2>4, OnboardInv
  <2>5. CASE Deprovision
    BY <1>1, <2>5, DeprovisionInv
  <2>6. CASE UNCHANGED vars
    BY <1>1, <2>6 DEF vars, IInv, OpTypes, RowTypes, EngineTypes, Owned, Working, NoLostSample,
       Voiceprints, Guarded, OneSession, Named, Pure, Recognized, Entries, Waiting, Opening, Alone,
       Tracked, Has
  <2>7. QED
    BY <1>1, <2>1, <2>2, <2>3, <2>4, <2>5, <2>6 DEF Next
<1>2. QED
  BY <1>1, InitInv, PTL DEF Spec

\* Whoever was forgotten stays forgotten: whatever was under way for them, and
\* whoever has their link next, brings back no profile, session or memory.
THEOREM Forgotten == Spec => []GoneForGood
<1>1. IInv => GoneForGood
  BY DEF IInv, Owned, GoneForGood
<1>2. QED
  BY <1>1, Invariance, PTL

\* A profile holds the voice of one person, and what the device noted there is
\* that person's, unless somebody was once taken for its only owner.
THEOREM VoicesAreOwn == Spec => []OwnVoice
<1>1. IInv => OwnVoice
  <2>1. SUFFICES ASSUME IInv, NEW i \in DOMAIN profiles \ unheard
                 PROVE  /\ Cardinality(profiles[i].voices) <= 1
                        /\ \A f \in facts : f[1] = i /\ f[2] # NoOne => f[2] \in profiles[i].voices
    BY DEF OwnVoice
  <2>2. Pure(i)
    BY <2>1 DEF IInv, Voiceprints
  <2>3. Cardinality(profiles[i].voices) <= 1
    <3>1. CASE profiles[i].voices = {}
      BY <3>1, FS_EmptySet
    <3>2. ASSUME NEW v \in profiles[i].voices PROVE Cardinality(profiles[i].voices) <= 1
      <4>1. profiles[i].voices = {v}
        BY <2>2, <3>2 DEF Pure
      <4>2. Cardinality({v}) = 1
        BY FS_Singleton
      <4>3. QED
        BY <4>1, <4>2
    <3>3. QED
      BY <3>1, <3>2
  <2>4. QED
    BY <2>2, <2>3 DEF Pure
<1>2. QED
  BY <1>1, Invariance, PTL

\* One session and one running average for each person.
THEOREM CompanionIsSound == Spec => []CompanionInv
<1>1. IInv => CompanionInv
  <2>1. HAVE IInv
  <2>2. RowTypes /\ EngineTypes /\ Owned /\ OpTypes /\ OneSession /\ NoLostSample
    BY <2>1 DEF IInv
  <2>3. DOMAIN profiles \subseteq users /\ users \subseteq 1..created
    BY <2>2 DEF Owned
  <2>4. \A i \in DOMAIN profiles :
          /\ profiles[i].name \in {"web", "named", "none"}
          /\ profiles[i].voices \subseteq People /\ profiles[i].encoder \in Engines \cup {"none"}
          /\ profiles[i].samples \in Nat \ {0}
    <3>1. profiles \in [DOMAIN profiles -> ProfileType]
      BY <2>2, TableTypes DEF RowTypes
    <3>2. \A i \in DOMAIN profiles : profiles[i] \in ProfileType
      BY <3>1
    <3>3. QED
      BY <3>2 DEF ProfileType
  <2>5. /\ \A s \in sessions : s.of \in users /\ s.number \in 1..serial
        /\ \A f \in facts : f[1] \in users /\ f[2] \in People \cup {NoOne}
    BY <2>2 DEF RowTypes, Owned, Speakers
  <2>6. \A e \in Engines : Len(open[e]) <= MaxTracked
    BY <2>2 DEF EngineTypes
  <2>7. \A p \in Procs : (op[p].kind = "none") = (op[p] = Idle)
    BY <2>2, IdleShape DEF OpTypes, Shape
  <2>8. link \in {"none", "open", "closed"} /\ created \in Nat /\ starts \in 0..MaxStarts
    BY <2>2 DEF RowTypes
  <2>9. TypeOK
    BY <2>3, <2>4, <2>5, <2>6, <2>7, <2>8 DEF TypeOK
  <2>10. QED
    BY <2>2, <2>9 DEF CompanionInv
<1>2. QED
  BY <1>1, Invariance, PTL
=============================================================================
