--------------------------- MODULE WorkerBridge ---------------------------
(***************************************************************************)
(* The hand-off between code on the server that wants a command run on the *)
(* user's Mac and the `scrappy worker` processes that run it there:        *)
(*                                                                         *)
(*   caller -> submit -> queue -> GET /v1/worker/next -> worker            *)
(*   caller <- future <- complete <- POST /v1/worker/result <- worker      *)
(*                                                                         *)
(* Server side: core/worker/bridge.py behind apps/api/routers/worker.py,   *)
(* one asyncio event loop, so an action is the code between two awaits.    *)
(* Worker side: the serve loop of apps/cli/__init__.py, one command at a   *)
(* time.  The network loses messages and delivers them late.               *)
(*                                                                         *)
(* Time is counted in ticks, and only where a timeout depends on it: how   *)
(* long a caller has waited and how long a worker has run its command.     *)
(***************************************************************************)
EXTENDS Naturals, Sequences, FiniteSets

CONSTANTS Commands,   \* submit() calls, each with the fresh id uuid4 draws
          Workers,    \* `scrappy worker` processes
          Streaming,  \* commands submitted with an on_progress sink
          Mortal,     \* workers whose process may stop (Ctrl+C, crash, 401)
          None,       \* no command, no output
          Budget,     \* the command's own timeout, in ticks
          Slack,      \* the transit slack submit() adds to it
          MaxGhosts,  \* bound: abandoned long polls alive at once
          Prompt      \* TRUE: no tick passes while a message or a free worker can
                      \* move, so a caller only ever waits for busy workers

ASSUME BridgeAssumption ==
  /\ None \notin Commands
  /\ Streaming \subseteq Commands
  /\ Mortal \subseteq Workers
  /\ Budget \in Nat \ {0}
  /\ Slack \in Nat
  /\ MaxGhosts \in Nat
  /\ Prompt \in BOOLEAN

VARIABLES
  \* the server process
  queue,    \* _queue, an unbounded FIFO of commands
  pending,  \* the keys of _pending
  future,   \* each command's future: "none", "open", "result", "cancelled"
  output,   \* the command whose output the future was resolved with
  caller,   \* where the coroutine awaiting submit() stands
  waited,   \* ticks since submit() started its timeout, capped
  ghosts,   \* parked long polls whose client is gone
  heard,    \* commands whose on_progress sink has been called
  \* the workers
  stage,    \* "stopped", "down", "idle", "polling", "reply" or "running"
  hand,     \* the command a worker is being sent or is running
  ran,      \* ticks a worker has run its command for, capped
  starts,   \* how many times any worker has started the command
  \* the network
  mail      \* POSTs sent by workers and not yet handled by the server

serverVars == <<queue, pending, future, output, caller, waited, ghosts, heard>>
workerVars == <<stage, hand, ran, starts>>
vars == <<serverVars, workerVars, mail>>

-----------------------------------------------------------------------------
(* Types and states                                                        *)

Deadline == Budget + Slack

FutureState == {"none", "open", "result", "cancelled"}

\* "expiring" and "cancelling": the timer or a task.cancel() has hit, and the
\* CancelledError that unwinds submit() has been scheduled but not yet run.
Awaiting == {"waiting", "expiring", "cancelling"}
Settled  == {"returned", "timeout", "cancelled", "dead"}

Stage == {"stopped", "down", "idle", "polling", "reply", "running"}

Message == [kind : {"result", "progress"}, id : Commands]

TypeOK ==
  /\ queue \in Seq(Commands)
  /\ pending \in SUBSET Commands
  /\ future \in [Commands -> FutureState]
  /\ output \in [Commands -> Commands \cup {None}]
  /\ caller \in [Commands -> {"idle"} \cup Awaiting \cup Settled]
  /\ waited \in [Commands -> 0..Deadline]
  /\ ghosts \in 0..MaxGhosts
  /\ heard \in SUBSET Commands
  /\ stage \in [Workers -> Stage]
  /\ hand \in [Workers -> Commands \cup {None}]
  /\ ran \in [Workers -> 0..Budget]
  /\ starts \in [Commands -> Nat]
  /\ mail \in SUBSET Message

Queued == {queue[i] : i \in 1..Len(queue)}

Init ==
  /\ queue = <<>>
  /\ pending = {}
  /\ future = [c \in Commands |-> "none"]
  /\ output = [c \in Commands |-> None]
  /\ caller = [c \in Commands |-> "idle"]
  /\ waited = [c \in Commands |-> 0]
  /\ ghosts = 0
  /\ heard = {}
  /\ stage = [w \in Workers |-> "down"]
  /\ hand = [w \in Workers |-> None]
  /\ ran = [w \in Workers |-> 0]
  /\ starts = [c \in Commands |-> 0]
  /\ mail = {}

-----------------------------------------------------------------------------
(* Callers                                                                 *)

\* submit() up to its await: register, queue, start the timeout.
Submit(c) ==
  /\ caller[c] = "idle"
  /\ caller' = [caller EXCEPT ![c] = "waiting"]
  /\ future' = [future EXCEPT ![c] = "open"]
  /\ pending' = pending \cup {c}
  /\ queue' = Append(queue, c)
  /\ UNCHANGED <<output, waited, ghosts, heard, workerVars, mail>>

\* Fault: the await is shielded, so an interrupted caller leaves its future open.
InterruptShielded(c, how) ==
  /\ caller' = [caller EXCEPT ![c] = how]
  /\ UNCHANGED <<queue, pending, future, output, waited, ghosts, heard, workerVars, mail>>

\* A task.cancel(), by wait_for's timer or from outside, cancels the future
\* the caller awaits, unless it is resolved already.  In that case the caller
\* is still unwound by the CancelledError and the result is dropped: the
\* wake-up set_result() scheduled has not run yet.
Interrupt(c, how) ==
  /\ caller' = [caller EXCEPT ![c] = how]
  /\ future' = [future EXCEPT ![c] = IF @ = "open" THEN "cancelled" ELSE @]
  /\ UNCHANGED <<queue, pending, output, waited, ghosts, heard, workerVars, mail>>

\* Fault: the timeout does not cover a command that no worker has taken.
TimerFiresOnceTaken(c) ==
  /\ caller[c] = "waiting"
  /\ waited[c] = Deadline
  /\ c \notin Queued
  /\ Interrupt(c, "expiring")

TimerFires(c) ==
  /\ caller[c] = "waiting"
  /\ waited[c] = Deadline
  /\ Interrupt(c, "expiring")

Cancel(c) ==
  /\ caller[c] \in {"waiting", "expiring"}
  /\ Interrupt(c, "cancelling")

\* Fault: no finally clause, so only a normal return forgets the command.
LeaveNoFinally(c, how) ==
  /\ caller' = [caller EXCEPT ![c] = how]
  /\ pending' = IF how = "returned" THEN pending \ {c} ELSE pending
  /\ UNCHANGED <<queue, future, output, waited, ghosts, heard, workerVars, mail>>

\* The finally clause of submit(): whatever ended the wait, forget the
\* command.  Its entry in the queue stays.
Leave(c, how) ==
  /\ caller' = [caller EXCEPT ![c] = how]
  /\ pending' = pending \ {c}
  /\ UNCHANGED <<queue, future, output, waited, ghosts, heard, workerVars, mail>>

Return(c) ==
  /\ caller[c] = "waiting"
  /\ future[c] = "result"
  /\ Leave(c, "returned")

TimeOut(c) ==
  /\ caller[c] = "expiring"
  /\ Leave(c, "timeout")

Unwind(c) ==
  /\ caller[c] = "cancelling"
  /\ Leave(c, "cancelled")

-----------------------------------------------------------------------------
(* Long polls                                                              *)

\* The worker is up and the server answers its health check.
Connect(w) ==
  /\ stage[w] = "down"
  /\ stage' = [stage EXCEPT ![w] = "idle"]
  /\ UNCHANGED <<serverVars, hand, ran, starts, mail>>

\* GET /v1/worker/next: the handler parks on the queue.
Poll(w) ==
  /\ stage[w] = "idle"
  /\ stage' = [stage EXCEPT ![w] = "polling"]
  /\ UNCHANGED <<serverVars, hand, ran, starts, mail>>

\* Fault: the handler reads the head of the queue and leaves it there.
DispatchPeeks(w) ==
  /\ stage[w] = "polling"
  /\ queue # <<>>
  /\ stage' = [stage EXCEPT ![w] = "reply"]
  /\ hand' = [hand EXCEPT ![w] = Head(queue)]
  /\ UNCHANGED <<serverVars, ran, starts, mail>>

\* Fault: commands nobody awaits any more are left at the head of the queue.
DispatchAwaitedOnly(w) ==
  /\ stage[w] = "polling"
  /\ queue # <<>>
  /\ Head(queue) \in pending
  /\ queue' = Tail(queue)
  /\ stage' = [stage EXCEPT ![w] = "reply"]
  /\ hand' = [hand EXCEPT ![w] = Head(queue)]
  /\ UNCHANGED <<pending, future, output, caller, waited, ghosts, heard,
                 ran, starts, mail>>

\* The handler gets the head of the queue and sends it in its reply.
Dispatch(w) ==
  /\ stage[w] = "polling"
  /\ queue # <<>>
  /\ queue' = Tail(queue)
  /\ stage' = [stage EXCEPT ![w] = "reply"]
  /\ hand' = [hand EXCEPT ![w] = Head(queue)]
  /\ UNCHANGED <<pending, future, output, caller, waited, ghosts, heard,
                 ran, starts, mail>>

\* The window ends (204), possibly in the very loop iteration in which a
\* command is queued: the cancelled get() leaves that command in the queue.
PollEnds(w) ==
  /\ stage[w] = "polling"
  /\ stage' = [stage EXCEPT ![w] = "idle"]
  /\ UNCHANGED <<serverVars, hand, ran, starts, mail>>

\* The connection breaks under the worker: it retries, or after three failures
\* in a row reconnects.  The handler stays parked on the server.
PollBreaks(w) ==
  /\ stage[w] = "polling"
  /\ ghosts < MaxGhosts
  /\ ghosts' = ghosts + 1
  /\ \E next \in {"idle", "down"} : stage' = [stage EXCEPT ![w] = next]
  /\ UNCHANGED <<queue, pending, future, output, caller, waited, heard,
                 hand, ran, starts, mail>>

\* An abandoned handler takes a command and replies to nobody.
GhostTakes ==
  /\ ghosts > 0
  /\ queue # <<>>
  /\ queue' = Tail(queue)
  /\ ghosts' = ghosts - 1
  /\ UNCHANGED <<pending, future, output, caller, waited, heard, workerVars, mail>>

GhostEnds ==
  /\ ghosts > 0
  /\ ghosts' = ghosts - 1
  /\ UNCHANGED <<queue, pending, future, output, caller, waited, heard,
                 workerVars, mail>>

-----------------------------------------------------------------------------
(* Workers                                                                 *)

\* The reply reaches the worker, which starts the command.
ReplyArrives(w) ==
  /\ stage[w] = "reply"
  /\ stage' = [stage EXCEPT ![w] = "running"]
  /\ ran' = [ran EXCEPT ![w] = 0]
  /\ starts' = [starts EXCEPT ![hand[w]] = @ + 1]
  /\ UNCHANGED <<serverVars, hand, mail>>

\* The reply is lost on the way, or its body does not parse: nobody asks for
\* the command again.
ReplyLost(w) ==
  /\ stage[w] = "reply"
  /\ \E next \in {"idle", "down"} : stage' = [stage EXCEPT ![w] = next]
  /\ hand' = [hand EXCEPT ![w] = None]
  /\ UNCHANGED <<serverVars, ran, starts, mail>>

\* A streaming build posts a milestone from the thread that runs it.
Report(w) ==
  /\ stage[w] = "running"
  /\ hand[w] \in Streaming
  /\ mail' = mail \cup {[kind |-> "progress", id |-> hand[w]]}
  /\ UNCHANGED <<serverVars, workerVars>>

\* The command ends, at the latest by its timeout, and its output is posted
\* once; whether or not the POST succeeds, the worker polls again.
Finish(w) ==
  /\ stage[w] = "running"
  /\ stage' = [stage EXCEPT ![w] = "idle"]
  /\ hand' = [hand EXCEPT ![w] = None]
  /\ ran' = [ran EXCEPT ![w] = 0]
  /\ mail' = mail \cup {[kind |-> "result", id |-> hand[w]]}
  /\ UNCHANGED <<serverVars, starts>>

\* The worker process ends.  A parked poll becomes a ghost.
Stop(w) ==
  /\ w \in Mortal
  /\ stage[w] # "stopped"
  /\ stage' = [stage EXCEPT ![w] = "stopped"]
  /\ hand' = [hand EXCEPT ![w] = None]
  /\ ran' = [ran EXCEPT ![w] = 0]
  /\ IF stage[w] = "polling"
     THEN /\ ghosts < MaxGhosts
          /\ ghosts' = ghosts + 1
     ELSE UNCHANGED ghosts
  /\ UNCHANGED <<queue, pending, future, output, caller, waited, heard,
                 starts, mail>>

Start(w) ==
  /\ stage[w] = "stopped"
  /\ stage' = [stage EXCEPT ![w] = "down"]
  /\ UNCHANGED <<serverVars, hand, ran, starts, mail>>

-----------------------------------------------------------------------------
(* POSTs handled by the server                                             *)

\* Fault: the result goes to any pending command, not to the one it names.
CompleteAny(c) ==
  IF \E d \in pending : future[d] = "open"
  THEN \E d \in pending : /\ future[d] = "open"
                         /\ future' = [future EXCEPT ![d] = "result"]
                         /\ output' = [output EXCEPT ![d] = c]
  ELSE UNCHANGED <<future, output>>

\* complete(): False if the command is unknown or its future is done.
Complete(c) ==
  IF c \in pending /\ future[c] = "open"
  THEN /\ future' = [future EXCEPT ![c] = "result"]
       /\ output' = [output EXCEPT ![c] = c]
  ELSE UNCHANGED <<future, output>>

\* Fault: the sink is called whether or not the future is done.
ProgressAfterDone(c) ==
  IF c \in pending /\ c \in Streaming
  THEN heard' = heard \cup {c}
  ELSE UNCHANGED heard

\* progress(): False if the command is unknown, done, or has no sink.  A sink
\* that raises has been called all the same.
Progress(c) ==
  IF c \in pending /\ c \in Streaming /\ future[c] = "open"
  THEN heard' = heard \cup {c}
  ELSE UNCHANGED heard

HandleResult(c) ==
  LET m == [kind |-> "result", id |-> c] IN
  /\ m \in mail
  /\ mail' = mail \ {m}
  /\ Complete(c)
  /\ UNCHANGED <<queue, pending, caller, waited, ghosts, heard, workerVars>>

HandleProgress(c) ==
  LET m == [kind |-> "progress", id |-> c] IN
  /\ m \in mail
  /\ mail' = mail \ {m}
  /\ Progress(c)
  /\ UNCHANGED <<queue, pending, future, output, caller, waited, ghosts, workerVars>>

Lose(m) ==
  /\ m \in mail
  /\ mail' = mail \ {m}
  /\ UNCHANGED <<serverVars, workerVars>>

-----------------------------------------------------------------------------
(* The server process and the clock                                        *)

\* The bridge lives in memory: a restart takes the queue, the commands in
\* _pending and their callers with it, and breaks every open connection.
Restart ==
  /\ queue' = <<>>
  /\ pending' = {}
  /\ caller' = [c \in Commands |-> IF caller[c] \in Awaiting THEN "dead" ELSE caller[c]]
  /\ future' = [c \in Commands |-> IF caller[c] \in Awaiting THEN "none" ELSE future[c]]
  /\ ghosts' = 0
  /\ stage' = [w \in Workers |-> IF stage[w] \in {"polling", "reply"} THEN "idle" ELSE stage[w]]
  /\ hand' = [w \in Workers |-> IF stage[w] = "reply" THEN None ELSE hand[w]]
  /\ UNCHANGED <<output, waited, heard, ran, starts, mail>>

Ticking(c) == caller[c] = "waiting" /\ waited[c] < Deadline
Working(w) == stage[w] = "running" /\ ran[w] < Budget

\* Nothing can move but commands that still have budget left.
AllBusy ==
  /\ mail = {}
  /\ \A w \in Workers : \/ stage[w] = "stopped"
                        \/ Working(w)
                        \/ stage[w] = "polling" /\ queue = <<>>

Tick ==
  /\ Prompt => AllBusy
  /\ \/ \E c \in Commands : Ticking(c)
     \/ \E w \in Workers : Working(w)
  /\ waited' = [c \in Commands |-> IF Ticking(c) THEN waited[c] + 1 ELSE waited[c]]
  /\ ran' = [w \in Workers |-> IF Working(w) THEN ran[w] + 1 ELSE ran[w]]
  /\ UNCHANGED <<queue, pending, future, output, caller, ghosts, heard,
                 stage, hand, starts, mail>>

CallerStep(c) ==
  \/ Submit(c) \/ TimerFires(c) \/ Cancel(c)
  \/ Return(c) \/ TimeOut(c) \/ Unwind(c)

WorkerStep(w) ==
  \/ Connect(w) \/ Poll(w) \/ Dispatch(w) \/ PollEnds(w) \/ PollBreaks(w)
  \/ ReplyArrives(w) \/ ReplyLost(w) \/ Report(w) \/ Finish(w)
  \/ Stop(w) \/ Start(w)

ServerStep ==
  \/ \E c \in Commands : HandleResult(c) \/ HandleProgress(c)
  \/ \E m \in mail : Lose(m)
  \/ GhostTakes \/ GhostEnds \/ Restart

Next ==
  \/ \E c \in Commands : CallerStep(c)
  \/ \E w \in Workers : WorkerStep(w)
  \/ ServerStep
  \/ Tick

Spec == Init /\ [][Next]_vars

\* The server's timers and its event loop do not stop, so a scheduled step of
\* a coroutine is taken.  A worker that is not mortal reconnects for ever, asks
\* again at once after each command, and its commands end by their timeout.
\* A poll that keeps meeting a queued command takes one in the end: that the
\* window closes in the same loop iteration cannot happen every time.
LoopFairness ==
  /\ WF_vars(Tick)
  /\ \A c \in Commands : /\ WF_vars(TimerFires(c))
                         /\ WF_vars(Return(c))
                         /\ WF_vars(TimeOut(c))
                         /\ WF_vars(Unwind(c))

WorkerFairness ==
  \A w \in Workers \ Mortal : /\ WF_vars(Connect(w))
                              /\ WF_vars(Poll(w))
                              /\ SF_vars(Dispatch(w))
                              /\ WF_vars(ReplyArrives(w) \/ ReplyLost(w))
                              /\ WF_vars(Finish(w))

LoopSpec == Spec /\ LoopFairness

-----------------------------------------------------------------------------
(* Properties                                                              *)

\* _pending holds exactly the commands whose submit() has not returned yet:
\* a late result or milestone of any other command is refused, and nothing
\* leaks however the wait ends (result, timeout, cancellation, race of two).
PendingIsAwaited == \A c \in Commands : c \in pending <=> caller[c] \in Awaiting

\* Work-stealing is safe: a command sits in the queue once or with one worker,
\* never both, and never goes back to either after a worker has started it.
OneHolder ==
  /\ \A i, j \in 1..Len(queue) : queue[i] = queue[j] => i = j
  /\ \A v, w \in Workers : hand[v] = hand[w] /\ hand[v] # None => v = w
  /\ \A w \in Workers : hand[w] \notin Queued
  /\ \A c \in Queued : starts[c] = 0
  /\ \A w \in Workers : stage[w] = "reply" => starts[hand[w]] = 0

\* A worker holds a command exactly while it is sent or runs it.
HandInUse == \A w \in Workers : hand[w] # None <=> stage[w] \in {"reply", "running"}

\* The order of a command's life, whatever is lost or late: called, queued,
\* sent, started once, and only then a result in the mail or in its future,
\* which is resolved with the output of that very command.
Lifecycle ==
  /\ \A c \in Commands : starts[c] \in {0, 1}
  /\ \A c \in Commands : caller[c] = "idle" => starts[c] = 0 /\ c \notin Queued
  /\ \A c \in Commands : caller[c] = "waiting" => future[c] \in {"open", "result"}
  /\ \A c \in Commands : future[c] = "open" => caller[c] = "waiting"
  /\ \A c \in Commands : future[c] = "result" => starts[c] = 1 /\ output[c] = c
  /\ HandInUse
  /\ \A w \in Workers : hand[w] # None => caller[hand[w]] # "idle"
  /\ \A w \in Workers : stage[w] = "running" => starts[hand[w]] = 1
  /\ \A m \in mail : starts[m.id] = 1

\* What the caller of a command sees of the bridge.
CallState(c) ==
  CASE caller[c] = "idle" -> "idle"
    [] caller[c] \in Awaiting -> "open"
    [] caller[c] = "returned" -> "answered"
    [] OTHER -> "failed"

AnswerTo(c) == IF caller[c] = "returned" THEN output[c] ELSE None

\* To its callers the bridge is a remote call with at-most-once execution and
\* answers of the caller's own command, across lost replies, late results,
\* expired waits and server restarts.
Promise == INSTANCE RemoteCall WITH
  NoAnswer <- None,
  call <- [c \in Commands |-> CallState(c)],
  runs <- starts,
  answer <- [c \in Commands |-> AnswerTo(c)]

KeepsPromise == Promise!Spec

\* A milestone reaches the sink only while its command is unresolved: never
\* after the result, even when the POST was sent before it and arrives later.
NarratedWhileOpen ==
  [][\A c \in heard' \ heard : caller[c] = "waiting" /\ future[c] = "open"]_vars

\* Every submit() comes back, with no worker at all or with any loss: the
\* timeout of wait_for bounds it.
CallerSettles ==
  \A c \in Commands : caller[c] \in Awaiting ~> caller[c] \in Settled

\* With one worker that stays, no command waits in the queue for ever, not
\* even behind commands whose callers have given up.
QueueServed ==
  WorkerFairness => \A c \in Commands : c \in Queued ~> c \notin Queued

-----------------------------------------------------------------------------
(* Together                                                                *)

\* The bridge at any time: no command lost track of, in two hands or out of order.
\* The invariant is inductive: the first two parts do not follow from each other's
\* steps without the order of a command's life.
BridgeInv == TypeOK /\ PendingIsAwaited /\ OneHolder /\ Lifecycle

\* Every caller is answered, and every queued command fetched.
BridgeSettles == CallerSettles /\ QueueServed
=============================================================================
