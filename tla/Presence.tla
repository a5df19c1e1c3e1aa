----------------------------- MODULE Presence -----------------------------
(***************************************************************************)
(* Continuous presence (core/presence): the server takes events in, once   *)
(* each, decides which are worth speaking, and hands those to a listener   *)
(* that polls for them.  One source of events is the watcher of the worker *)
(* bridge, which reports when the Mac worker comes and goes; the bridge    *)
(* knows that only from the last time the worker polled or pinged.         *)
(*                                                                         *)
(* All of it is one process's memory, on one event loop: an action is what *)
(* runs between two awaits.                                                *)
(***************************************************************************)
EXTENDS Naturals, Sequences, FiniteSets, SequencesExt

CONSTANTS Clients,    \* posters of events
          Listeners,
          Events,     \* the ids that clients give their events; they retry under the same
          Speak,      \* those worth speaking, with words to speak
          Window,     \* the worker is online that long after it was last seen
          QueueMax, OutboxMax, \* capacities
          SeenMax,    \* how many ids are remembered
          Young,      \* whether the machine may have booted just before the server
          MaxLog,     \* bound: events accepted by one process
          MaxChanges, \* bound: changes the watcher reports
          MaxGhosts,  \* bound: polls whose client has gone
          None,
          Waiting     \* a poll that waits

Changes == 1..MaxChanges  \* the watcher's events; each has a fresh id
Watcher == None           \* the watcher, among those who submit

ASSUME PresenceAssumption ==
  /\ IsFiniteSet(Clients) /\ IsFiniteSet(Listeners)
  /\ Speak \subseteq Events
  /\ Events \cap Changes = {}
  /\ None \notin Clients \cup Events \cup Changes
  /\ Waiting \notin Events \cup Changes \cup {None}
  /\ {Window, QueueMax, OutboxMax, SeenMax} \subseteq Nat \ {0}
  /\ {MaxLog, MaxChanges, MaxGhosts} \subseteq Nat
  /\ Young \in BOOLEAN

VARIABLES
  age,      \* time since the worker was seen, up to Window
  previous, \* what the watcher saw last
  changes,  \* history: what each event of the watcher said
  seen,     \* the ids remembered, oldest first
  putting,  \* the event that a submit() waits to put on the full queue
  queue,    \* accepted events
  outbox,   \* what is to be spoken
  poll,     \* what a listener is doing: None, Waiting, or the reply on its way
  ghosts,   \* polls that still wait although their listener has gone
  log,      \* history: the ids accepted by this process, in order
  spoken    \* history: the ids spoken, in order

watchVars == <<previous, changes>>
intakeVars == <<seen, putting, log>>
outVars == <<outbox, poll, ghosts, spoken>>
vars == <<age, watchVars, intakeVars, queue, outVars>>

Ids == Events \cup Changes
Submitters == Clients \cup {Watcher}

TypeOK ==
  /\ age \in 0..Window
  /\ previous \in BOOLEAN
  /\ changes \in BoundedSeq(BOOLEAN, MaxChanges)
  /\ seen \in BoundedSeq(Ids, SeenMax)
  /\ putting \in [Submitters -> Ids \cup {None}]
  /\ queue \in BoundedSeq(Ids, QueueMax)
  /\ outbox \in BoundedSeq(Ids, OutboxMax)
  /\ poll \in [Listeners -> Ids \cup {None, Waiting}]
  /\ ghosts \in 0..MaxGhosts
  /\ log \in BoundedSeq(Ids, MaxLog)
  /\ spoken \in BoundedSeq(Ids, MaxLog)

Online == age < Window

\* The bridge's stamp starts at zero, on a clock that starts at boot.
Fresh ==
  /\ age \in IF Young THEN 0..Window ELSE {Window}
  /\ previous = Online

Init ==
  /\ Fresh
  /\ changes = <<>>
  /\ seen = <<>>
  /\ putting = [s \in Submitters |-> None]
  /\ queue = <<>>
  /\ outbox = <<>>
  /\ poll = [l \in Listeners |-> None]
  /\ ghosts = 0
  /\ log = <<>>
  /\ spoken = <<>>

-----------------------------------------------------------------------------
(* The worker, as the bridge sees it                                       *)

Touch ==
  /\ age' = 0
  /\ UNCHANGED <<watchVars, intakeVars, queue, outVars>>

Tick ==
  /\ Online
  /\ age' = age + 1
  /\ UNCHANGED <<watchVars, intakeVars, queue, outVars>>

-----------------------------------------------------------------------------
(* Intake                                                                  *)

\* The new id displaces the oldest one.
Remember(e) == seen' = Append(IF Len(seen) = SeenMax THEN Tail(seen) ELSE seen, e)

\* await queue.put(): at once, if there is room.
Put(s, e) ==
  IF Len(queue) < QueueMax
  THEN /\ queue' = Append(queue, e)
       /\ UNCHANGED putting
  ELSE /\ putting' = [putting EXCEPT ![s] = e]
       /\ UNCHANGED queue

\* Fault: the id is remembered when the event is on the queue.
AcceptThenRemember(s, e) ==
  /\ Len(log) < MaxLog
  /\ ~ Contains(seen, e)
  /\ log' = Append(log, e)
  /\ IF Len(queue) < QueueMax THEN Remember(e) ELSE UNCHANGED seen
  /\ Put(s, e)

\* submit() of a new event: it is remembered before it waits for room.
Accept(s, e) ==
  /\ Len(log) < MaxLog
  /\ ~ Contains(seen, e)
  /\ log' = Append(log, e)
  /\ Remember(e)
  /\ Put(s, e)

\* A duplicate is told so, and changes nothing.
Post(c, e) ==
  /\ putting[c] = None
  /\ Accept(c, e)
  /\ UNCHANGED <<age, watchVars, outVars>>

\* Fault: the watcher notes what is the case by the time it has reported.
PutEndsReadsAgain(s) ==
  /\ putting[s] # None
  /\ Len(queue) < QueueMax
  /\ queue' = Append(queue, putting[s])
  /\ putting' = [putting EXCEPT ![s] = None]
  /\ previous' = IF s = Watcher THEN Online ELSE previous
  /\ UNCHANGED <<age, changes, seen, log, outVars>>

\* There is room on the queue again.  The watcher notes what it has reported.
PutEnds(s) ==
  /\ putting[s] # None
  /\ Len(queue) < QueueMax
  /\ queue' = Append(queue, putting[s])
  /\ putting' = [putting EXCEPT ![s] = None]
  /\ previous' = IF s = Watcher THEN Last(changes) ELSE previous
  /\ UNCHANGED <<age, changes, seen, log, outVars>>

\* Fault: the watcher looks for the worker's coming only.
WatchComing ==
  /\ putting[Watcher] = None
  /\ Online /\ ~ previous
  /\ Len(changes) < MaxChanges
  /\ changes' = Append(changes, Online)
  /\ Accept(Watcher, Len(changes'))
  /\ previous' = IF putting'[Watcher] = None THEN Online ELSE previous
  /\ UNCHANGED <<age, outVars>>

\* The watcher wakes up and finds a change.
Watch ==
  /\ putting[Watcher] = None
  /\ Online # previous
  /\ Len(changes) < MaxChanges
  /\ changes' = Append(changes, Online)
  /\ Accept(Watcher, Len(changes'))
  /\ previous' = IF putting'[Watcher] = None THEN Online ELSE previous
  /\ UNCHANGED <<age, outVars>>

-----------------------------------------------------------------------------
(* Decisions and delivery                                                  *)

\* A disconnect is recorded but not spoken.
IsSpoken(e) == IF e \in Changes THEN changes[e] ELSE e \in Speak

\* Fault: the decision waits for room in the outbox.
DecideBlocks ==
  /\ queue # <<>>
  /\ IsSpoken(Head(queue)) => Len(outbox) < OutboxMax
  /\ queue' = Tail(queue)
  /\ outbox' = IF IsSpoken(Head(queue)) THEN Append(outbox, Head(queue)) ELSE outbox
  /\ UNCHANGED <<age, watchVars, intakeVars, poll, ghosts, spoken>>

\* What is to be spoken is dropped when the outbox is full.
Decide ==
  /\ queue # <<>>
  /\ queue' = Tail(queue)
  /\ outbox' = IF IsSpoken(Head(queue)) /\ Len(outbox) < OutboxMax
               THEN Append(outbox, Head(queue)) ELSE outbox
  /\ UNCHANGED <<age, watchVars, intakeVars, poll, ghosts, spoken>>

SetPoll(l, p) ==
  /\ poll' = [poll EXCEPT ![l] = p]
  /\ UNCHANGED <<age, watchVars, intakeVars, queue>>

Poll(l) ==
  /\ poll[l] = None
  /\ SetPoll(l, Waiting)
  /\ UNCHANGED <<outbox, ghosts, spoken>>

\* Nothing for 25 s.
PollEnds(l) ==
  /\ poll[l] = Waiting
  /\ outbox = <<>>
  /\ SetPoll(l, None)
  /\ UNCHANGED <<outbox, ghosts, spoken>>

\* Fault: what was taken stays in the outbox until it is spoken.
TakePeeks(l) ==
  /\ poll[l] = Waiting
  /\ outbox # <<>>
  /\ SetPoll(l, Head(outbox))
  /\ UNCHANGED <<outbox, ghosts, spoken>>

Take(l) ==
  /\ poll[l] = Waiting
  /\ outbox # <<>>
  /\ outbox' = Tail(outbox)
  /\ SetPoll(l, Head(outbox))
  /\ UNCHANGED <<ghosts, spoken>>

Say(l) ==
  /\ poll[l] \in Ids
  /\ spoken' = Append(spoken, poll[l])
  /\ SetPoll(l, None)
  /\ UNCHANGED <<outbox, ghosts>>

\* The reply is lost, or there is no voice to say it with.
SayFails(l) ==
  /\ poll[l] \in Ids
  /\ SetPoll(l, None)
  /\ UNCHANGED <<outbox, ghosts, spoken>>

\* A listener goes while it waits: its poll stays, and takes what comes.
Leave(l) ==
  /\ poll[l] = Waiting
  /\ ghosts < MaxGhosts
  /\ ghosts' = ghosts + 1
  /\ SetPoll(l, None)
  /\ UNCHANGED <<outbox, spoken>>

GhostEnds ==
  /\ ghosts > 0
  /\ ghosts' = ghosts - 1
  /\ outbox' = IF outbox = <<>> THEN outbox ELSE Tail(outbox)
  /\ UNCHANGED <<age, watchVars, intakeVars, queue, poll, spoken>>

\* A new process, and a new watcher's silent first observation.
Restart ==
  /\ \E a \in IF Young THEN 0..Window ELSE {Window} :
       /\ age' = a
       /\ previous' = (a < Window)
  /\ changes' = <<>>
  /\ seen' = <<>>
  /\ putting' = [s \in Submitters |-> None]
  /\ queue' = <<>>
  /\ outbox' = <<>>
  /\ poll' = [l \in Listeners |-> None]
  /\ ghosts' = 0
  /\ log' = <<>>
  /\ spoken' = <<>>

-----------------------------------------------------------------------------
Listen(l) == Poll(l) \/ PollEnds(l) \/ Take(l) \/ Say(l) \/ SayFails(l) \/ Leave(l)

Next ==
  \/ Touch \/ Tick \/ Watch \/ Decide \/ GhostEnds \/ Restart
  \/ \E c \in Clients, e \in Events : Post(c, e)
  \/ \E s \in Submitters : PutEnds(s)
  \/ \E l \in Listeners : Listen(l)

Spec == Init /\ [][Next]_vars

\* The event loop runs what is ready, the watcher among it.  Nothing is
\* assumed of clients, listeners and the worker.
FairSpec ==
  /\ Spec
  /\ WF_vars(Decide)
  /\ WF_vars(Watch)
  /\ \A s \in Submitters : WF_vars(PutEnds(s))

-----------------------------------------------------------------------------
Times(e, s) == Cardinality({i \in DOMAIN s : s[i] = e})

\* An event is accepted again only when SeenMax others have come between:
\* two posts of one id, however they interleave, are one event.
AcceptedOnce ==
  \A i, j \in DOMAIN log : i < j /\ log[i] = log[j] => j - i > SeenMax

\* No event is queued, to be spoken and spoken more often than it was accepted,
\* whatever listeners come, go and poll at the same time.
AtMostOnce == \A e \in Ids :
  LET waiting == {s \in Submitters : putting[s] = e}
      taken == {l \in Listeners : poll[l] = e}
  IN  Times(e, queue) + Times(e, outbox) + Times(e, spoken)
        + Cardinality(waiting) + Cardinality(taken) <= Times(e, log)

\* The watcher reports coming and going by turns, also when the worker comes
\* and goes while it waits to report.
ReportsAlternate == \A i \in DOMAIN changes \ {1} : changes[i] # changes[i - 1]

\* Nobody waits for ever for room on the queue, though no listener polls and
\* the outbox is full, once posting lets up: MaxLog bounds the posts, since
\* put() lets one that comes just as room appears pass those that wait.
QueueDrains == \A s \in Submitters : putting[s] # None ~> putting[s] = None

\* If the worker stays away, or stays, the watcher comes to know, unless its
\* reports reach the bound.
WatcherKnows ==
  (Len(changes) < MaxChanges /\ Len(log) < MaxLog /\ Online # previous)
    ~> (Online = previous \/ Len(changes) = MaxChanges \/ Len(log) = MaxLog)

-----------------------------------------------------------------------------
(* Together                                                                *)

\* No event is accepted twice or spoken more often than accepted.
PresenceInv == TypeOK /\ AcceptedOnce /\ AtMostOnce

\* Nobody waits for ever, and what has changed is noticed.
PresenceSettles == QueueDrains /\ WatcherKnows
=============================================================================
