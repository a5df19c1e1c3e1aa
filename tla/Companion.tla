------------------------------ MODULE Companion ------------------------------
(* The companion's people in one database: their profiles, their memory and   *)
(* the sessions an engine keeps open for them.  The database is that of a     *)
(* device and its web page, or of one person's link.  Requests of the web,    *)
(* utterances heard by the device, resets, `mini forget`, the deletion of the *)
(* link and restarts interleave at every await; a statement is one step.      *)
EXTENDS Naturals, Sequences, FiniteSets, SequencesExt, FiniteSetsExt

CONSTANTS
  Procs,         \* requests that may run at a time
  People,        \* who may speak
  MaxProfiles,   \* bound: profiles that may be created
  MaxStarts,     \* bound: requests
  MaxTracked     \* _MAX_TRACKED_PROFILES

NoOne == "nobody"

ASSUME CompanionAssumption ==
  {MaxProfiles, MaxStarts, MaxTracked} \subseteq Nat \ {0} /\ NoOne \notin People

VARIABLES
  users,      \* memory namespaces, each named by the profile it is made for
  profiles,   \* [name, voices, encoder, samples] of each profile
  sessions,   \* rows: profile, number and the engine that opened it
  facts,      \* rows: profile and who said them
  open,       \* each engine's sessions, least recently used first
  locks,      \* each engine's lock for a profile, named by the session before it
  link,       \* "none" for a device's database; else whether the link is open
  op,         \* what each of Procs is in the middle of
  created,    \* profiles made so far
  serial,     \* sessions opened so far
  starts,
  gone,       \* history: profiles that a finished reset or forget has named
  dropped,    \* history: engine and profile whose session it no longer keeps
  unheard,    \* history: profiles somebody was taken for without a comparison
  blends      \* history: samples taken for each profile

db == <<users, profiles, sessions, facts>>
engine == <<open, locks>>
vars == <<users, profiles, sessions, facts, open, locks, link, op, created, serial, starts,
          gone, dropped, unheard, blends>>

\* The API's and the device's, which are also the names of their encoders.
Engines == {"web", "mac"}
Engine(o) == IF o.kind \in {"hear", "setup"} THEN "mac" ELSE "web"

\* listed: the profiles as last read.
Idle == [kind |-> "none", at |-> "idle", pid |-> 0, by |-> NoOne, session |-> 0,
         lock |-> 0, listed |-> <<>>, learn |-> FALSE]

TypeOK ==
  /\ DOMAIN profiles \subseteq users /\ users \subseteq 1..created
  /\ \A i \in DOMAIN profiles :
       /\ profiles[i].name \in {"web", "named", "none"}
       /\ profiles[i].voices \subseteq People /\ profiles[i].encoder \in Engines \cup {"none"}
       /\ profiles[i].samples \in Nat \ {0}
  /\ \A s \in sessions : s.of \in users /\ s.number \in 1..serial
  /\ \A f \in facts : f[1] \in users /\ f[2] \in People \cup {NoOne}
  /\ \A e \in Engines : Len(open[e]) <= MaxTracked
  /\ link \in {"none", "open", "closed"}
  /\ \A p \in Procs : (op[p].kind = "none") = (op[p] = Idle)
  /\ created \in Nat /\ starts \in 0..MaxStarts

Init ==
  /\ users = {} /\ profiles = <<>> /\ sessions = {} /\ facts = {}
  /\ open = [e \in Engines |-> <<>>] /\ locks = [e \in Engines |-> <<>>]
  /\ link \in {"none", "closed"}
  /\ op = [p \in Procs |-> Idle]
  /\ created = 0 /\ serial = 0 /\ starts = 0
  /\ gone = {} /\ dropped = {} /\ unheard = {} /\ blends = <<>>

Does(p, o) == op' = [op EXCEPT ![p] = o]
Ends(p) == Does(p, Idle)
Goes(p, at) == Does(p, [op[p] EXCEPT !.at = at])

With(f, x, y) == [z \in DOMAIN f \cup {x} |-> IF z = x THEN y ELSE f[z]]
Without(f, xs) == [z \in DOMAIN f \ xs |-> f[z]]

counters == <<created, serial, starts>>
history == <<gone, dropped, unheard, blends>>

-----------------------------------------------------------------------------
(* Requests                                                                *)

\* A link answers, to its PIN, while its row is there, and has no device.
Admitted(o) == IF Engine(o) = "mac" THEN link = "none" ELSE link # "closed"

Start(p, o) ==
  /\ op[p].kind = "none" /\ starts < MaxStarts
  /\ Admitted(o)
  /\ starts' = starts + 1
  /\ Does(p, o)
  /\ UNCHANGED <<db, engine, created, serial, history>>

\* Of a recognized profile, which may be gone, or of nobody in particular.
Chat(p) ==
  \E i \in {0} \cup 1..created :
    Start(p, [Idle EXCEPT !.kind = "chat", !.at = "resolve", !.pid = i])

GetProfile(p) ==
  \E i \in {0} \cup 1..created :
    Start(p, [Idle EXCEPT !.kind = "profile", !.at = "resolve", !.pid = i])

GetHistory(p) == Start(p, [Idle EXCEPT !.kind = "history", !.at = "list"])

UpdateProfile(p) == Start(p, [Idle EXCEPT !.kind = "update", !.at = "list"])

Enroll(p) ==
  \E v \in People : Start(p, [Idle EXCEPT !.kind = "enroll", !.at = "user", !.by = v])

\* On the device, in a process of its own.
SetUp(p) ==
  \E v \in People : Start(p, [Idle EXCEPT !.kind = "setup", !.at = "user", !.by = v])

\* A client that is learning a voice names the profile it was given for it.
Identify(p) ==
  \E v \in People, learn \in BOOLEAN :
    \E i \in {0} \cup (IF learn THEN {j \in DOMAIN profiles : v \in profiles[j].voices} ELSE {}) :
      Start(p, [Idle EXCEPT !.kind = "identify", !.at = "listen", !.by = v, !.pid = i,
                            !.learn = learn])

\* The device's own loop hears one utterance at a time.
Hear(p) ==
  /\ \A q \in Procs : op[q].kind # "hear"
  /\ \E v \in People : Start(p, [Idle EXCEPT !.kind = "hear", !.at = "listen", !.by = v])

Reset(p) == Start(p, [Idle EXCEPT !.kind = "reset", !.at = "list"])

-----------------------------------------------------------------------------
(* Whose profile                                                           *)

\* What a request does once it has its profile.
WithProfile(o) ==
  CASE o.kind \in {"chat", "history"} -> [o EXCEPT !.at = "session"]
    [] o.kind = "update"              -> [o EXCEPT !.at = "name"]
    [] OTHER                          -> Idle

Resolve(p) ==
  LET o == op[p]
  IN  /\ o.at = "resolve"
      /\ Does(p, IF o.pid \in DOMAIN profiles THEN WithProfile(o) ELSE [o EXCEPT !.at = "list"])
      /\ UNCHANGED <<db, engine, counters, history>>

\* The anonymous profile, the last seen if there are several, or a new one.
ListWeb(p) ==
  LET o == op[p]
      webs == {i \in DOMAIN profiles : profiles[i].name = "web"}
  IN  /\ o.at = "list" /\ o.kind # "reset"
      /\ IF webs # {} THEN \E i \in webs : Does(p, WithProfile([o EXCEPT !.pid = i]))
                      ELSE Does(p, [o EXCEPT !.at = "user", !.pid = 0])
      /\ UNCHANGED <<db, engine, counters, history>>

NewUser(p) ==
  /\ op[p].at = "user" /\ created < MaxProfiles
  /\ created' = created + 1
  /\ users' = users \cup {created'}
  /\ Does(p, [op[p] EXCEPT !.at = "profile", !.pid = created'])
  /\ UNCHANGED <<profiles, sessions, facts, engine, serial, starts, history>>

Blank(o) ==
  [name    |-> IF o.by = NoOne THEN "web" ELSE "none",
   voices  |-> {o.by} \ {NoOne},
   encoder |-> IF o.by = NoOne THEN "none" ELSE Engine(o),
   samples |-> 1]

\* Fault: the row is written whether its namespace is there or not.
NewProfileUnchecked(p) ==
  LET o == op[p]
  IN  /\ o.at = "profile"
      /\ users' = users \cup {o.pid}
      /\ profiles' = With(profiles, o.pid, Blank(o))
      /\ blends' = With(blends, o.pid, 1)
      /\ Does(p, WithProfile(o))
      /\ UNCHANGED <<sessions, facts, engine, counters, gone, dropped, unheard>>

\* A statement of its own, which raises when `mini reset` came in between.
NewProfile(p) ==
  LET o == op[p]
  IN  /\ o.at = "profile"
      /\ IF o.pid \in users
           THEN /\ profiles' = With(profiles, o.pid, Blank(o))
                /\ blends' = With(blends, o.pid, 1)
                /\ Does(p, WithProfile(o))
           ELSE Ends(p) /\ UNCHANGED <<profiles, blends>>
      /\ UNCHANGED <<users, sessions, facts, engine, counters, gone, dropped, unheard>>

\* Whatever the profile is called, also when that is what it is found by.
SetName(p) ==
  LET i == op[p].pid
  IN  /\ op[p].at = "name"
      /\ profiles' = IF i \in DOMAIN profiles THEN [profiles EXCEPT ![i].name = "named"] ELSE profiles
      /\ Does(p, [op[p] EXCEPT !.kind = "profile", !.at = "resolve"])
      /\ UNCHANGED <<users, sessions, facts, engine, counters, history>>

-----------------------------------------------------------------------------
(* Whose voice                                                             *)

\* Fault: the nearest voice is taken however far it is.
CandidatesNearest(ps, v) == DOMAIN ps

\* The encoder's promise: a voice is near enough to none but those that hold a
\* sample of it.
Candidates(ps, v) == {i \in DOMAIN ps : v \in ps[i].voices}

\* Of several the nearest is taken, and it may not be near enough; the only one
\* is taken as it is.
Taken(p, ps, compared, at) ==
  \/ /\ Cardinality(DOMAIN ps) = 1
     /\ \E i \in DOMAIN ps : Does(p, [op[p] EXCEPT !.at = at, !.pid = i, !.listed = ps])
     /\ unheard' = unheard \cup DOMAIN ps
  \/ /\ Cardinality(DOMAIN ps) > 1
     /\ \E i \in Candidates(compared, op[p].by) :
          Does(p, [op[p] EXCEPT !.at = at, !.pid = i, !.listed = ps])
     /\ UNCHANGED unheard

Voiced(encoders) ==
  [i \in {j \in DOMAIN profiles : profiles[j].encoder \in encoders} |-> profiles[i]]

Restricted(ps, is) == [i \in DOMAIN ps \cap is |-> ps[i]]

\* The web compares named people's voices of its own encoder.
ListenWeb(p) ==
  LET o == op[p]
      ps == Restricted(Voiced({"web"}), {i \in DOMAIN profiles : profiles[i].name # "web"})
      unknown == IF ~ o.learn THEN Idle
                 ELSE IF o.pid \in DOMAIN profiles THEN [o EXCEPT !.at = "blend", !.listed = profiles]
                 ELSE [o EXCEPT !.at = "user"]
  IN  /\ o.at = "listen" /\ o.kind = "identify"
      /\ \/ Taken(p, ps, ps, "blend")
         \/ Cardinality(DOMAIN ps) # 1 /\ Does(p, unknown) /\ UNCHANGED unheard
      /\ UNCHANGED <<db, engine, counters, gone, dropped, blends>>

\* The device compares them all, and raises when one is of another encoder.
ListenDevice(p) ==
  LET compared == IF DOMAIN Voiced({"web"}) = {} THEN Voiced({"mac"}) ELSE <<>>
  IN  /\ op[p].at = "listen" /\ op[p].kind = "hear"
      /\ \/ Taken(p, profiles, compared, "session")
         \/ Cardinality(DOMAIN profiles) # 1 /\ Ends(p) /\ UNCHANGED unheard
      /\ UNCHANGED <<db, engine, counters, gone, dropped, blends>>

Sample(i, o, n) ==
  /\ profiles' = [profiles EXCEPT ![i] = [profiles[i] EXCEPT
                    !.voices = @ \cup {o.by}, !.encoder = Engine(o), !.samples = n + 1]]
  /\ blends' = [blends EXCEPT ![i] = @ + 1]

Takes(i, o) == i \in DOMAIN profiles /\ profiles[i].encoder \in {"none", Engine(o)}

\* Fault: the sample is added to the profile as it was when it was listed.
BlendListed(p) ==
  LET o == op[p]
  IN  /\ o.at = "blend"
      /\ IF Takes(o.pid, o) THEN Sample(o.pid, o, o.listed[o.pid].samples)
                            ELSE UNCHANGED <<profiles, blends>>
      /\ Ends(p)
      /\ UNCHANGED <<users, sessions, facts, engine, counters, gone, dropped, unheard>>

\* A running average; raises for a print of another encoder, does nothing for a
\* profile that is gone.
Blend(p) ==
  LET o == op[p]
  IN  /\ o.at = "blend"
      /\ IF Takes(o.pid, o) THEN Sample(o.pid, o, profiles[o.pid].samples)
                            ELSE UNCHANGED <<profiles, blends>>
      /\ Ends(p)
      /\ UNCHANGED <<users, sessions, facts, engine, counters, gone, dropped, unheard>>

-----------------------------------------------------------------------------
(* The engines' sessions                                                   *)

\* The session the engine of o keeps for its profile, if any.
Kept(o) == {open[Engine(o)][k].number : k \in {j \in DOMAIN open[Engine(o)] :
                                                 open[Engine(o)][j].of = o.pid}}

\* Profile i at the end, where the sessions used last are.
UsedLast(s, i, number) ==
  LET here == {k \in DOMAIN s : s[k].of = i}
      others == IF here = {} THEN s ELSE RemoveAt(s, CHOOSE k \in here : TRUE)
  IN  Append(others, [of |-> i, number |-> number])

Uses(o, number) == open' = [open EXCEPT ![Engine(o)] = UsedLast(@, o.pid, number)]

\* What follows the session: only the history needs no more than that.
WithSession(o, number) ==
  IF o.kind = "history" THEN Idle ELSE [o EXCEPT !.session = number, !.lock = 0, !.at = "say"]

HasSession(p) ==
  LET o == op[p]
  IN  \E number \in Kept(o) : Does(p, WithSession(o, number)) /\ Uses(o, number)

SessionFor(p) ==
  LET o == op[p]
      e == Engine(o)
  IN  /\ o.at = "session"
      /\ \/ HasSession(p) /\ UNCHANGED locks
         \/ /\ Kept(o) = {}
            /\ locks' = [locks EXCEPT ![e] =
                           IF o.pid \in DOMAIN @ THEN @ ELSE With(@, o.pid, serial)]
            /\ Does(p, [o EXCEPT !.at = "lock", !.lock = locks'[e][o.pid]])
            /\ UNCHANGED open
      /\ UNCHANGED <<db, counters, history>>

SameLock(o, x) == <<Engine(o), o.pid, o.lock>> = <<Engine(x), x.pid, x.lock>>

Free(o) == \A q \in Procs : op[q].at \in {"open", "opened"} => ~ SameLock(o, op[q])

\* Fault: the session is not looked for again.
LockedOpens(p) ==
  /\ op[p].at = "lock" /\ Free(op[p])
  /\ Goes(p, "open")
  /\ UNCHANGED <<db, engine, counters, history>>

\* Looked for again under the lock.
Locked(p) ==
  LET o == op[p]
  IN  /\ o.at = "lock" /\ Free(o)
      /\ \/ HasSession(p)
         \/ Kept(o) = {} /\ Goes(p, "open") /\ UNCHANGED open
      /\ UNCHANGED <<db, locks, counters, history>>

Opens(p) ==
  /\ serial' = serial + 1
  /\ sessions' = sessions \cup {[of |-> op[p].pid, number |-> serial', engine |-> Engine(op[p])]}
  /\ Does(p, [op[p] EXCEPT !.at = "opened", !.session = serial'])

\* The row refers to the person's namespace: raises when that is gone.
OpenSession(p) ==
  /\ op[p].at = "open"
  /\ IF op[p].pid \in users THEN Opens(p) ELSE Ends(p) /\ UNCHANGED <<sessions, serial>>
  /\ UNCHANGED <<users, profiles, facts, engine, created, starts, history>>

\* Back from the thread: remembered, and the least recently used one dropped
\* together with its lock.
RememberSession(p) ==
  LET o == op[p]
      e == Engine(o)
      all == UsedLast(open[e], o.pid, o.session)
      out == IF Len(all) > MaxTracked THEN {Head(all).of} ELSE {}
  IN  /\ o.at = "opened"
      /\ open' = [open EXCEPT ![e] = IF out = {} THEN all ELSE Tail(all)]
      /\ locks' = [locks EXCEPT ![e] = Without(@, out)]
      /\ dropped' = dropped \cup {<<e, i>> : i \in out}
      /\ Does(p, WithSession(o, o.session))
      /\ UNCHANGED <<db, counters, gone, unheard, blends>>

-----------------------------------------------------------------------------
(* A turn                                                                  *)

Lives(o) == \E s \in sessions : s.of = o.pid /\ s.number = o.session

\* The message, whose session must be there; the device asks its model first.
Say(p) ==
  /\ op[p].at = "say"
  /\ IF Lives(op[p]) THEN Goes(p, "note") ELSE Ends(p)
  /\ UNCHANGED <<db, engine, counters, history>>

AfterNote(o) == IF o.kind = "hear" THEN "answer" ELSE "reply"

\* A memory of it; the device leaves out what is short or known.
Note(p) ==
  LET o == op[p]
  IN  /\ o.at = "note"
      /\ \/ o.pid \in users /\ facts' = facts \cup {<<o.pid, o.by>>} /\ Goes(p, AfterNote(o))
         \/ o.pid \notin users /\ Ends(p) /\ UNCHANGED facts
         \/ o.kind = "hear" /\ Goes(p, "answer") /\ UNCHANGED facts
      /\ UNCHANGED <<users, profiles, sessions, engine, counters, history>>

\* The person's name, if they said one, unless the profile is nobody's.
Captures(i) ==
  \/ UNCHANGED profiles
  \/ /\ i \in DOMAIN profiles /\ profiles[i].name = "none"
     /\ profiles' = [profiles EXCEPT ![i].name = "named"]

\* The model's, or the introduction.
Reply(p) ==
  /\ op[p].at = "reply"
  /\ Captures(op[p].pid)
  /\ Goes(p, "answer")
  /\ UNCHANGED <<users, sessions, facts, engine, counters, history>>

\* The reply is stored in the session; the device then learns the voice.
Answer(p) ==
  /\ op[p].at = "answer"
  /\ IF Lives(op[p]) /\ op[p].kind = "hear" THEN Goes(p, "blend") ELSE Ends(p)
  /\ UNCHANGED <<db, engine, counters, history>>

\* The embedder, the model, the voice or the database raises, or the client is
\* gone: a lock is given back, a session on its way is not kept.
Fails(p) ==
  LET o == op[p]
  IN  /\ o.at \notin {"idle", "clear"}
      /\ dropped' = IF o.at = "opened" THEN dropped \cup {<<Engine(o), o.pid>>} ELSE dropped
      /\ Ends(p)
      /\ UNCHANGED <<db, engine, counters, gone, unheard, blends>>

-----------------------------------------------------------------------------
(* Forgetting                                                              *)

\* Deletes the namespaces of is, and all that refers to them.
Cascade(is) ==
  /\ users' = users \ is
  /\ profiles' = Without(profiles, is)
  /\ sessions' = {s \in sessions : s.of \notin is}
  /\ facts' = {f \in facts : f[1] \notin is}

ListAll(p) ==
  /\ op[p].at = "list" /\ op[p].kind = "reset"
  /\ Does(p, [op[p] EXCEPT !.at = "memories", !.listed = profiles])
  /\ UNCHANGED <<db, engine, counters, history>>

DeleteMemories(p) ==
  /\ op[p].at = "memories"
  /\ facts' = {f \in facts : f[1] \notin DOMAIN op[p].listed}
  /\ Goes(p, "wipe")
  /\ UNCHANGED <<users, profiles, sessions, engine, counters, history>>

WipeProfiles(p) ==
  /\ op[p].at = "wipe"
  /\ Cascade(DOMAIN op[p].listed)
  /\ gone' = gone \cup DOMAIN op[p].listed
  /\ Goes(p, "clear")
  /\ UNCHANGED <<engine, counters, dropped, unheard, blends>>

\* The engine forgets its sessions, and keeps its locks.
Clear(p) ==
  LET e == Engine(op[p])
  IN  /\ op[p].at = "clear"
      /\ open' = [open EXCEPT ![e] = <<>>]
      /\ dropped' = dropped \cup {<<e, open[e][k].of>> : k \in DOMAIN open[e]}
      /\ Ends(p)
      /\ UNCHANGED <<db, locks, counters, gone, unheard, blends>>

Erase(is) ==
  /\ Cascade(is)
  /\ gone' = gone \cup is
  /\ UNCHANGED <<engine, op, counters, dropped, unheard, blends>>

\* `mini forget` and `mini reset` run in processes that know no sessions.
Forget == link = "none" /\ \E i \in DOMAIN profiles : Erase({i})

\* Also namespaces that have no profile, if there is a profile at all.
WipeAll == link = "none" /\ DOMAIN profiles # {} /\ Erase(users)

-----------------------------------------------------------------------------
(* Links and restarts                                                      *)

\* Nothing of an engine is left, and nothing of what it was doing.
Discards(e) ==
  LET mine == {p \in Procs : Engine(op[p]) = e}
  IN  /\ op' = [p \in Procs |-> IF p \in mine THEN Idle ELSE op[p]]
      /\ open' = [open EXCEPT ![e] = <<>>]
      /\ locks' = [locks EXCEPT ![e] = <<>>]
      /\ dropped' = dropped \cup {<<e, open[e][k].of>> : k \in DOMAIN open[e]}
                            \cup {<<e, op[p].pid>> : p \in {q \in mine : op[q].at = "opened"}}

\* The API's process or the device's; its next request builds another engine.
Restart(e) ==
  /\ Discards(e)
  /\ UNCHANGED <<db, link, counters, gone, unheard, blends>>

\* A new person under a free slug: a file of that name is kept if there is one.
Onboard ==
  /\ link = "closed"
  /\ link' = "open"
  /\ UNCHANGED <<db, engine, op, counters, history>>

\* Fault: the row is deleted and the file is left.
DeprovisionRow ==
  /\ link = "open"
  /\ link' = "closed"
  /\ Discards("web")
  /\ gone' = gone \cup users
  /\ UNCHANGED <<db, counters, unheard, blends>>

\* The row, the file and the engine.  Requests under way go on in a file that
\* has no name any more, and cannot be told from requests that have ended.
Deprovision ==
  /\ link = "open"
  /\ link' = "closed"
  /\ Discards("web")
  /\ Cascade(users)
  /\ gone' = gone \cup users
  /\ UNCHANGED <<counters, unheard, blends>>

\* The server stops after the row: nobody is told that anything is deleted, and
\* the next person of that slug gets the file.
DeprovisionCut ==
  /\ link = "open"
  /\ link' = "closed"
  /\ Discards("web")
  /\ UNCHANGED <<db, counters, gone, unheard, blends>>

-----------------------------------------------------------------------------

Request(p) ==
  \/ Chat(p) \/ GetProfile(p) \/ GetHistory(p) \/ UpdateProfile(p)
  \/ Enroll(p) \/ SetUp(p) \/ Identify(p) \/ Hear(p) \/ Reset(p)

Step(p) ==
  \/ Resolve(p) \/ ListWeb(p) \/ NewUser(p) \/ NewProfile(p) \/ SetName(p)
  \/ ListenWeb(p) \/ ListenDevice(p) \/ Blend(p)
  \/ SessionFor(p) \/ Locked(p) \/ OpenSession(p) \/ RememberSession(p)
  \/ Say(p) \/ Note(p) \/ Reply(p) \/ Answer(p)
  \/ ListAll(p) \/ DeleteMemories(p) \/ WipeProfiles(p) \/ Clear(p)

Next ==
  \/ /\ (\E p \in Procs : Request(p) \/ Step(p) \/ Fails(p)) \/ Forget \/ WipeAll
     /\ UNCHANGED link
  \/ \E e \in Engines : Restart(e)
  \/ Onboard \/ Deprovision \/ DeprovisionCut

Spec == Init /\ [][Next]_vars

-----------------------------------------------------------------------------
(* Properties                                                              *)

\* The check before the lock and the one under it (runtime.py, _session_for): an
\* engine opens a second session for a person only after it has dropped the first.
OneSession ==
  \A s, t \in sessions :
    s.of = t.of /\ s.engine = t.engine /\ s # t => <<s.engine, s.of>> \in dropped

\* Whoever was forgotten, or whose link was deleted, stays forgotten, whatever was
\* under way for them: no request and no later owner of the link brings back
\* their profile, their session or anything they said.
GoneForGood ==
  /\ gone \cap (users \cup DOMAIN profiles) = {}
  /\ \A s \in sessions : s.of \notin gone
  /\ \A f \in facts : f[1] \notin gone

\* "Unknown speaker: never fold their words into someone else's memory": unless
\* somebody was once taken for its only owner, a profile holds one person's
\* voice, and what the device noted there is that person's.
OwnVoice ==
  \A i \in DOMAIN profiles \ unheard :
    /\ Cardinality(profiles[i].voices) <= 1
    /\ \A f \in facts : f[1] = i /\ f[2] # NoOne => f[2] \in profiles[i].voices

\* The running average weighs every sample that was taken, also when two
\* requests recognize a person at once (profiles.py, _blend_voiceprint).
NoLostSample == \A i \in DOMAIN profiles : profiles[i].samples = blends[i]

-----------------------------------------------------------------------------
(* Together                                                                *)

\* One session and one running average for each person.
CompanionInv == TypeOK /\ OneSession /\ NoLostSample
=============================================================================
