------------------------ MODULE WorkerBridgeProofs ------------------------
(***************************************************************************)
(* Theorems about WorkerBridge for any sets of commands and workers, any   *)
(* budget and any number of abandoned polls.                               *)
(***************************************************************************)
EXTENDS WorkerBridge, TLAPS

-----------------------------------------------------------------------------
(* Sequences as queues                                                     *)

\* Appending an element that is not queued keeps the queue free of
\* duplicates and adds that element only.
LEMMA AppendFresh ==
  ASSUME NEW S, NEW q \in Seq(S), NEW e \in S,
         \A i \in 1..Len(q) : q[i] # e,
         \A i, j \in 1..Len(q) : q[i] = q[j] => i = j
  PROVE  /\ Append(q, e) \in Seq(S)
         /\ \A i, j \in 1..Len(Append(q, e)) :
               Append(q, e)[i] = Append(q, e)[j] => i = j
         /\ {Append(q, e)[i] : i \in 1..Len(Append(q, e))} =
            {q[i] : i \in 1..Len(q)} \cup {e}
OBVIOUS

\* Taking the head of a queue without duplicates removes that element and
\* leaves the others.
LEMMA TailDistinct ==
  ASSUME NEW S, NEW q \in Seq(S), q # <<>>,
         \A i, j \in 1..Len(q) : q[i] = q[j] => i = j
  PROVE  /\ Tail(q) \in Seq(S)
         /\ Head(q) \in S
         /\ \A i, j \in 1..Len(Tail(q)) : Tail(q)[i] = Tail(q)[j] => i = j
         /\ {Tail(q)[i] : i \in 1..Len(Tail(q))} =
            {q[i] : i \in 1..Len(q)} \ {Head(q)}
         /\ Head(q) \in {q[i] : i \in 1..Len(q)}
<1>1. Len(q) \in Nat \ {0}
  OBVIOUS
<1>2. Head(q) = q[1] /\ Len(Tail(q)) = Len(q) - 1
  OBVIOUS
<1>3. \A i \in 1..Len(Tail(q)) : Tail(q)[i] = q[i+1]
  OBVIOUS
<1>4. {Tail(q)[i] : i \in 1..Len(Tail(q))} \subseteq
      {q[i] : i \in 1..Len(q)} \ {Head(q)}
  BY <1>1, <1>2, <1>3
<1>5. ASSUME NEW i \in 1..Len(q), q[i] # Head(q)
      PROVE  q[i] \in {Tail(q)[k] : k \in 1..Len(Tail(q))}
  <2>1. i - 1 \in 1..Len(Tail(q))
    BY <1>1, <1>2, <1>5
  <2>2. Tail(q)[i - 1] = q[i]
    BY <1>3, <2>1
  <2>3. QED
    BY <2>1, <2>2
<1>6. QED
  BY <1>1, <1>2, <1>3, <1>4, <1>5

\* What is queued is a command.
LEMMA NoneNotQueued == TypeOK => None \notin Queued
<1>1. SUFFICES ASSUME queue \in Seq(Commands), NEW i \in 1..Len(queue), queue[i] = None
               PROVE  FALSE
  BY DEF TypeOK, Queued
<1>2. queue[i] \in Commands
  BY <1>1
<1>3. QED
  BY <1>1, <1>2, BridgeAssumption DEF BridgeAssumption

-----------------------------------------------------------------------------
(* Types                                                                   *)

\* Starting states are well typed.
LEMMA InitTypes == Init => TypeOK
BY BridgeAssumption DEF Init, TypeOK, Deadline, FutureState, Stage

\* The steps of a caller keep the types.
LEMMA CallerTypes ==
  ASSUME TypeOK, NEW c \in Commands, CallerStep(c)
  PROVE  TypeOK'
<1> USE BridgeAssumption
    DEF TypeOK, FutureState, Awaiting, Settled, serverVars, workerVars
<1>1. CASE Submit(c)
  BY <1>1 DEF Submit
<1>2. CASE TimerFires(c)
  BY <1>2 DEF TimerFires, Interrupt
<1>3. CASE Cancel(c)
  BY <1>3 DEF Cancel, Interrupt
<1>4. CASE Return(c)
  BY <1>4 DEF Return, Leave
<1>5. CASE TimeOut(c)
  BY <1>5 DEF TimeOut, Leave
<1>6. CASE Unwind(c)
  BY <1>6 DEF Unwind, Leave
<1>7. QED
  BY <1>1, <1>2, <1>3, <1>4, <1>5, <1>6 DEF CallerStep

\* The steps of a worker and its long polls keep the types.
LEMMA WorkerTypes ==
  ASSUME TypeOK, HandInUse, NEW w \in Workers, WorkerStep(w)
  PROVE  TypeOK'
<1> USE BridgeAssumption DEF TypeOK, Stage, Message, serverVars, workerVars
<1>1. CASE Connect(w)
  BY <1>1 DEF Connect
<1>2. CASE Poll(w)
  BY <1>2 DEF Poll
<1>3. CASE Dispatch(w)
  <2>1. Head(queue) \in Commands /\ Tail(queue) \in Seq(Commands)
    BY <1>3 DEF Dispatch
  <2>2. QED
    BY <1>3, <2>1 DEF Dispatch
<1>4. CASE PollEnds(w)
  BY <1>4 DEF PollEnds
<1>5. CASE PollBreaks(w)
  BY <1>5 DEF PollBreaks
<1>6. CASE ReplyArrives(w)
  <2>1. hand[w] \in Commands
    BY <1>6 DEF ReplyArrives, HandInUse
  <2>2. QED
    BY <1>6, <2>1 DEF ReplyArrives
<1>7. CASE ReplyLost(w)
  BY <1>7 DEF ReplyLost
<1>8. CASE Report(w)
  BY <1>8 DEF Report
<1>9. CASE Finish(w)
  <2>1. hand[w] \in Commands
    BY <1>9 DEF Finish, HandInUse
  <2>2. QED
    BY <1>9, <2>1 DEF Finish
<1>10. CASE Stop(w)
  BY <1>10 DEF Stop
<1>11. CASE Start(w)
  BY <1>11 DEF Start
<1>12. QED
  BY <1>1, <1>2, <1>3, <1>4, <1>5, <1>6, <1>7, <1>8, <1>9, <1>10, <1>11
  DEF WorkerStep

\* The server handling the mail, abandoned polls, a restart and the clock keep
\* the types.
LEMMA ServerTypes ==
  ASSUME TypeOK, ServerStep \/ Tick
  PROVE  TypeOK'
<1> USE BridgeAssumption DEF TypeOK, Stage, serverVars, workerVars
<1>1. ASSUME NEW c \in Commands, HandleResult(c)
      PROVE  TypeOK'
  <2>1. CASE c \in pending /\ future[c] = "open"
    <3>1. /\ future' = [future EXCEPT ![c] = "result"]
          /\ output' = [output EXCEPT ![c] = c]
          /\ UNCHANGED <<queue, pending, caller, waited, ghosts, heard, workerVars>>
          /\ mail' \subseteq mail
      BY <1>1, <2>1 DEF HandleResult, Complete
    <3>2. QED
      BY <3>1 DEF FutureState
  <2>2. CASE ~ (c \in pending /\ future[c] = "open")
    BY <1>1, <2>2 DEF HandleResult, Complete
  <2>3. QED
    BY <2>1, <2>2
<1>2. CASE \E c \in Commands : HandleProgress(c)
  BY <1>2 DEF HandleProgress, Progress
<1>3. CASE \E m \in mail : Lose(m)
  BY <1>3 DEF Lose
<1>4. CASE GhostTakes
  <2>1. Tail(queue) \in Seq(Commands)
    BY <1>4 DEF GhostTakes
  <2>2. QED
    BY <1>4, <2>1 DEF GhostTakes
<1>5. CASE GhostEnds
  BY <1>5 DEF GhostEnds
<1>6. CASE Restart
  BY <1>6 DEF Restart, FutureState, Awaiting, Settled
<1>7. CASE Tick
  <2>1. Deadline \in Nat
    BY DEF Deadline
  <2>2. QED
    BY <1>7, <2>1 DEF Tick, Ticking, Working
<1>8. QED
  BY <1>1, <1>2, <1>3, <1>4, <1>5, <1>6, <1>7 DEF ServerStep
-----------------------------------------------------------------------------
(* The invariant: callers                                                  *)

\* A submit() enters a fresh command at the end of the queue; the other steps
\* of a caller touch neither the queue nor a worker.
LEMMA CallerInv ==
  ASSUME BridgeInv, NEW c \in Commands, CallerStep(c)
  PROVE  BridgeInv'
<1> USE BridgeAssumption DEF BridgeInv
<1>1. TypeOK'
  BY CallerTypes
<1>2. CASE Submit(c)
  <2>1. starts[c] = 0 /\ c \notin Queued
    BY <1>2 DEF Submit, Lifecycle
  <2>2. \A w \in Workers : hand[w] # c
    BY <1>2 DEF Submit, Lifecycle, TypeOK
  <2>3. /\ \A i, j \in 1..Len(queue') : queue'[i] = queue'[j] => i = j
        /\ Queued' = Queued \cup {c}
    BY <1>2, <2>1, AppendFresh DEF Submit, OneHolder, Queued, TypeOK
  <2>4. PendingIsAwaited'
    BY <1>2 DEF Submit, PendingIsAwaited, Awaiting, TypeOK
  <2>5. OneHolder'
    BY <1>2, <2>1, <2>2, <2>3 DEF Submit, OneHolder, workerVars, TypeOK
  <2>6. Lifecycle'
    BY <1>2, <2>3 DEF Submit, Lifecycle, HandInUse, workerVars, TypeOK
  <2>7. QED
    BY <1>1, <2>4, <2>5, <2>6
<1>3. CASE ~ Submit(c)
  <2>1. UNCHANGED <<queue, workerVars, mail, output>>
    BY <1>3 DEF CallerStep, TimerFires, Cancel, Return, TimeOut, Unwind,
                Interrupt, Leave
  <2>2. PendingIsAwaited'
    BY <1>3 DEF CallerStep, TimerFires, Cancel, Return, TimeOut, Unwind,
                Interrupt, Leave, PendingIsAwaited, Awaiting, TypeOK
  <2>3. Queued' = Queued
    BY <2>1 DEF Queued
  <2>4. OneHolder'
    BY <2>1, <2>3 DEF OneHolder, workerVars
  <2>5. /\ \A d \in Commands : future'[d] = "result" => future[d] = "result"
        /\ \A d \in Commands : caller'[d] = "waiting" =>
             caller[d] = "waiting" /\ future'[d] = future[d]
        /\ \A d \in Commands : future'[d] = "open" =>
             future[d] = "open" /\ caller'[d] = caller[d]
        /\ \A d \in Commands : caller'[d] = "idle" <=> caller[d] = "idle"
    BY <1>3 DEF CallerStep, TimerFires, Cancel, Return, TimeOut, Unwind,
                Interrupt, Leave, TypeOK, FutureState, Lifecycle
  <2>6. Lifecycle'
    BY <2>1, <2>3, <2>5 DEF Lifecycle, HandInUse, workerVars, TypeOK
  <2>7. QED
    BY <1>1, <2>2, <2>4, <2>6
<1>4. QED
  BY <1>2, <1>3

-----------------------------------------------------------------------------
(* The invariant: workers                                                  *)

\* Only Dispatch moves a command, from the queue to one hand; only
\* ReplyArrives starts it.
LEMMA WorkerInv ==
  ASSUME BridgeInv, NEW w \in Workers, WorkerStep(w)
  PROVE  BridgeInv'
<1> USE BridgeAssumption DEF BridgeInv
<1>1. TypeOK'
  BY WorkerTypes DEF Lifecycle
<1>2. UNCHANGED <<pending, caller, future, output>>
  BY DEF WorkerStep, Connect, Poll, Dispatch, PollEnds, PollBreaks, ReplyArrives,
         ReplyLost, Report, Finish, Stop, Start, serverVars, workerVars
<1>3. PendingIsAwaited'
  BY <1>2 DEF PendingIsAwaited
<1>4. CASE Dispatch(w)
  <2>1. /\ Head(queue) \in Commands
        /\ Head(queue) \in Queued
        /\ Queued' = Queued \ {Head(queue)}
        /\ \A i, j \in 1..Len(queue') : queue'[i] = queue'[j] => i = j
    <3>1. /\ queue \in Seq(Commands) /\ queue # <<>> /\ queue' = Tail(queue)
          /\ \A i, j \in 1..Len(queue) : queue[i] = queue[j] => i = j
      BY <1>4 DEF Dispatch, OneHolder, TypeOK
    <3>2. /\ Head(queue) \in Commands
          /\ Head(queue) \in {queue[i] : i \in 1..Len(queue)}
          /\ \A i, j \in 1..Len(Tail(queue)) : Tail(queue)[i] = Tail(queue)[j] => i = j
          /\ {Tail(queue)[i] : i \in 1..Len(Tail(queue))} =
             {queue[i] : i \in 1..Len(queue)} \ {Head(queue)}
      BY <3>1, TailDistinct, Zenon
    <3>3. \A i, j \in 1..Len(queue') : queue'[i] = queue'[j] => i = j
      BY <3>1, <3>2
    <3>4. Queued' = {Tail(queue)[i] : i \in 1..Len(Tail(queue))}
      BY <3>1 DEF Queued
    <3>5. Queued = {queue[i] : i \in 1..Len(queue)}
      BY DEF Queued
    <3>6. QED
      BY <3>2, <3>3, <3>4, <3>5
  <2>2. hand' = [hand EXCEPT ![w] = Head(queue)] /\ hand[w] = None
    BY <1>4 DEF Dispatch, Lifecycle, HandInUse, TypeOK
  <2>3. UNCHANGED <<starts, mail>>
    BY <1>4 DEF Dispatch
  <2>4. OneHolder'
    BY <1>4, <2>1, <2>2, <2>3 DEF Dispatch, OneHolder, TypeOK
  <2>5. Lifecycle'
    BY <1>2, <1>4, <2>1, <2>2, <2>3 DEF Dispatch, Lifecycle, HandInUse, TypeOK
  <2>6. QED
    BY <1>1, <1>3, <2>4, <2>5
<1>5. CASE ReplyArrives(w)
  <2>1. Queued' = Queued
    BY <1>5 DEF ReplyArrives, serverVars, Queued
  <2>2. hand[w] \in Commands /\ starts[hand[w]] = 0
    BY <1>5 DEF ReplyArrives, OneHolder, Lifecycle, HandInUse, TypeOK
  <2>3. /\ UNCHANGED <<queue, hand, mail>>
        /\ stage' = [stage EXCEPT ![w] = "running"]
        /\ starts' = [starts EXCEPT ![hand[w]] = 1]
    BY <1>5, <2>2 DEF ReplyArrives, serverVars, TypeOK
  <2>4. OneHolder'
    BY <2>1, <2>2, <2>3 DEF OneHolder, TypeOK
  <2>5. Lifecycle'
    <3>1. \A v \in Workers : stage'[v] = "running" => starts'[hand'[v]] = 1
      BY <2>2, <2>3 DEF Lifecycle, HandInUse, TypeOK
    <3>2. HandInUse'
      BY <1>5, <2>3 DEF ReplyArrives, Lifecycle, HandInUse, TypeOK
    <3>3. \A m \in mail' : starts'[m.id] = 1
      BY <2>2, <2>3 DEF Lifecycle, TypeOK, Message
    <3>4. QED
      BY <1>2, <2>1, <2>2, <2>3, <3>1, <3>2, <3>3 DEF Lifecycle, TypeOK
  <2>6. QED
    BY <1>1, <1>3, <2>4, <2>5
<1>6. CASE Finish(w) \/ Report(w)
  <2>1. hand[w] \in Commands /\ starts[hand[w]] = 1
    BY <1>6 DEF Finish, Report, Lifecycle, HandInUse, TypeOK
  <2>2. Queued' = Queued
    BY <1>6 DEF Finish, Report, serverVars, Queued
  <2>3. \A m \in mail' : starts[m.id] = 1
    BY <1>6, <2>1 DEF Finish, Report, Lifecycle
  <2>4. UNCHANGED <<queue, starts>>
    BY <1>6 DEF Finish, Report, serverVars, workerVars
  <2>5. \A v \in Workers : \/ hand'[v] = hand[v] /\ stage'[v] = stage[v]
                           \/ hand'[v] = None /\ stage'[v] = "idle"
    BY <1>6 DEF Finish, Report, workerVars, TypeOK
  <2>6. OneHolder'
    BY <2>2, <2>4, <2>5, NoneNotQueued DEF OneHolder
  <2>7. Lifecycle'
    BY <1>2, <2>2, <2>3, <2>4, <2>5 DEF Lifecycle, HandInUse
  <2>8. QED
    BY <1>1, <1>3, <2>6, <2>7
<1>7. CASE \/ Connect(w) \/ Poll(w) \/ PollEnds(w) \/ PollBreaks(w)
           \/ ReplyLost(w) \/ Stop(w) \/ Start(w)
  <2>1. UNCHANGED <<queue, starts, mail>>
    BY <1>7 DEF Connect, Poll, PollEnds, PollBreaks, ReplyLost, Stop, Start, serverVars
  <2>2. Queued' = Queued
    BY <2>1 DEF Queued
  <2>3. \A v \in Workers : \/ hand'[v] = hand[v]
                           \/ hand'[v] = None
    BY <1>7 DEF Connect, Poll, PollEnds, PollBreaks, ReplyLost, Stop, Start, TypeOK
  <2>4. HandInUse'
    <3>1. \A v \in Workers : v # w => hand'[v] = hand[v] /\ stage'[v] = stage[v]
      BY <1>7 DEF Connect, Poll, PollEnds, PollBreaks, ReplyLost, Stop, Start, TypeOK
    <3>2. hand'[w] = None /\ stage'[w] \notin {"reply", "running"}
      BY <1>7 DEF Connect, Poll, PollEnds, PollBreaks, ReplyLost, Stop, Start,
                  Lifecycle, HandInUse, TypeOK
    <3>3. QED
      BY <3>1, <3>2 DEF Lifecycle, HandInUse
  <2>5. \A v \in Workers : stage'[v] \in {"reply", "running"} =>
             stage'[v] = stage[v] /\ hand'[v] = hand[v]
    BY <1>7 DEF Connect, Poll, PollEnds, PollBreaks, ReplyLost, Stop, Start, TypeOK
  <2>6. OneHolder'
    BY <2>1, <2>2, <2>3, <2>5, NoneNotQueued DEF OneHolder
  <2>7. Lifecycle'
    BY <1>2, <2>1, <2>2, <2>3, <2>4, <2>5 DEF Lifecycle
  <2>8. QED
    BY <1>1, <1>3, <2>6, <2>7
<1>8. QED
  BY <1>4, <1>5, <1>6, <1>7 DEF WorkerStep

-----------------------------------------------------------------------------
(* The invariant: server and clock                                         *)

\* complete() resolves only a future that is awaited, with the output of a
\* command that was started; a restart forgets every awaited command.
LEMMA ServerInv ==
  ASSUME BridgeInv, ServerStep \/ Tick
  PROVE  BridgeInv'
<1> USE BridgeAssumption DEF BridgeInv
<1>1. TypeOK'
  BY ServerTypes
<1>2. ASSUME NEW c \in Commands, HandleResult(c)
      PROVE  PendingIsAwaited' /\ OneHolder' /\ Lifecycle'
  <2>1. UNCHANGED <<queue, pending, caller, workerVars>> /\ mail' \subseteq mail
    BY <1>2 DEF HandleResult
  <2>2. starts[c] = 1
    BY <1>2 DEF HandleResult, Lifecycle
  <2>3. \A d \in Commands :
          \/ future'[d] = future[d] /\ output'[d] = output[d]
          \/ d = c /\ future'[d] = "result" /\ output'[d] = c
    <3>1. CASE c \in pending /\ future[c] = "open"
      BY <1>2, <3>1 DEF HandleResult, Complete, TypeOK
    <3>2. CASE ~ (c \in pending /\ future[c] = "open")
      BY <1>2, <3>2 DEF HandleResult, Complete
    <3>3. QED
      BY <3>1, <3>2
  <2>4. PendingIsAwaited'
    BY <2>1 DEF PendingIsAwaited
  <2>5. Queued' = Queued
    BY <2>1 DEF Queued
  <2>6. OneHolder'
    BY <2>1, <2>5 DEF OneHolder, workerVars
  <2>7. Lifecycle'
    BY <2>1, <2>2, <2>3, <2>5 DEF Lifecycle, HandInUse, workerVars
  <2>8. QED
    BY <2>4, <2>6, <2>7
<1>3. ASSUME \/ \E c \in Commands : HandleProgress(c)
             \/ \E m \in mail : Lose(m)
             \/ GhostEnds
             \/ Tick
      PROVE  PendingIsAwaited' /\ OneHolder' /\ Lifecycle'
  <2>1. /\ UNCHANGED <<queue, pending, caller, future, output, stage, hand, starts>>
        /\ mail' \subseteq mail
    BY <1>3 DEF HandleProgress, Lose, GhostEnds, Tick, serverVars, workerVars
  <2>2. Queued' = Queued
    BY <2>1 DEF Queued
  <2>3. QED
    BY <2>1, <2>2 DEF PendingIsAwaited, OneHolder, Lifecycle, HandInUse
<1>4. ASSUME GhostTakes
      PROVE  PendingIsAwaited' /\ OneHolder' /\ Lifecycle'
  <2>1. UNCHANGED <<pending, caller, future, output, stage, hand, starts, mail>>
    BY <1>4 DEF GhostTakes, workerVars
  <2>2. /\ Queued' = Queued \ {Head(queue)}
        /\ \A i, j \in 1..Len(queue') : queue'[i] = queue'[j] => i = j
    <3>1. /\ queue \in Seq(Commands) /\ queue # <<>> /\ queue' = Tail(queue)
          /\ \A i, j \in 1..Len(queue) : queue[i] = queue[j] => i = j
      BY <1>4 DEF GhostTakes, OneHolder, TypeOK
    <3>2. /\ \A i, j \in 1..Len(Tail(queue)) : Tail(queue)[i] = Tail(queue)[j] => i = j
          /\ {Tail(queue)[i] : i \in 1..Len(Tail(queue))} =
             {queue[i] : i \in 1..Len(queue)} \ {Head(queue)}
      BY ONLY <3>1, TailDistinct
    <3>3. QED
      BY <3>1, <3>2 DEF Queued
  <2>3. QED
    BY <2>1, <2>2 DEF PendingIsAwaited, OneHolder, Lifecycle, HandInUse
<1>5. ASSUME Restart
      PROVE  PendingIsAwaited' /\ OneHolder' /\ Lifecycle'
  <2>1. queue' = <<>> /\ Queued' = {}
    BY <1>5 DEF Restart, Queued
  <2>2. UNCHANGED <<output, starts, mail>>
    BY <1>5 DEF Restart
  <2>3. \A w \in Workers :
          \/ hand'[w] = hand[w] /\ stage'[w] = stage[w] /\ stage[w] # "reply"
          \/ hand'[w] = None /\ stage'[w] = "idle"
    BY <1>5 DEF Restart, Lifecycle, HandInUse, TypeOK
  <2>4. \A c \in Commands :
          \/ caller'[c] = "dead" /\ future'[c] = "none"
          \/ caller'[c] = caller[c] /\ future'[c] = future[c] /\ caller[c] \notin Awaiting
    BY <1>5 DEF Restart, TypeOK
  <2>5. PendingIsAwaited'
    BY <1>5, <2>4 DEF Restart, PendingIsAwaited, Awaiting
  <2>6. OneHolder'
    BY <2>1, <2>2, <2>3 DEF OneHolder
  <2>7. Lifecycle'
    <3>1. HandInUse'
      BY <2>3 DEF Lifecycle, HandInUse
    <3>2. \A w \in Workers : hand'[w] # None => hand[w] \in Commands /\ hand'[w] = hand[w]
      BY <2>3 DEF TypeOK
    <3>3. \A w \in Workers : hand'[w] # None => caller'[hand'[w]] # "idle"
      BY <2>4, <3>2 DEF Lifecycle
    <3>4. \A w \in Workers : stage'[w] = "running" => starts'[hand'[w]] = 1
      BY <2>2, <2>3 DEF Lifecycle
    <3>5. QED
      BY <2>1, <2>2, <2>4, <3>1, <3>3, <3>4 DEF Lifecycle
  <2>8. QED
    BY <2>5, <2>6, <2>7
<1>6. QED
  BY <1>1, <1>2, <1>3, <1>4, <1>5 DEF ServerStep

-----------------------------------------------------------------------------
(* Theorems                                                                *)

\* The inductive invariant holds in every reachable state of the bridge.
THEOREM Invariance == Spec => []BridgeInv
<1>1. Init => BridgeInv
  <2>1. ASSUME Init PROVE BridgeInv
    <3>1. TypeOK
      BY <2>1, InitTypes
    <3>2. Queued = {}
      BY <2>1 DEF Init, Queued
    <3>3. PendingIsAwaited
      BY <2>1 DEF Init, PendingIsAwaited, Awaiting
    <3>4. OneHolder
      BY <2>1, <3>2 DEF Init, OneHolder
    <3>5. Lifecycle
      BY <2>1, <3>2 DEF Init, Lifecycle, HandInUse
    <3>6. QED
      BY <3>1, <3>3, <3>4, <3>5 DEF BridgeInv
  <2>2. QED
    BY <2>1
<1>2. BridgeInv /\ [Next]_vars => BridgeInv'
  <2>1. ASSUME BridgeInv, UNCHANGED vars PROVE BridgeInv'
    BY <2>1 DEF BridgeInv, vars, serverVars, workerVars, TypeOK, PendingIsAwaited,
                OneHolder, Lifecycle, HandInUse, Queued
  <2>2. QED
    BY <2>1, CallerInv, WorkerInv, ServerInv DEF Next
<1>3. QED
  BY <1>1, <1>2, PTL DEF Spec

\* Every variable keeps its type.
THEOREM TypeCorrectness == Spec => []TypeOK
BY Invariance, PTL DEF BridgeInv

\* The commands in _pending are those whose submit() has not returned.
THEOREM PendingCorrectness == Spec => []PendingIsAwaited
BY Invariance, PTL DEF BridgeInv

\* No command is in two hands, or in one and the queue, and none that was
\* started is handed out again.
THEOREM WorkStealingIsSafe == Spec => []OneHolder
BY Invariance, PTL DEF BridgeInv

\* A milestone is narrated only while its command is unresolved.
THEOREM NarrationStopsWithResult == Spec => NarratedWhileOpen
<1>1. ASSUME BridgeInv, [Next]_vars, NEW c \in Commands, c \in heard' \ heard
      PROVE  caller[c] = "waiting" /\ future[c] = "open"
  <2>1. heard' # heard
    BY <1>1
  <2>2. PICK d \in Commands : HandleProgress(d)
    BY <1>1, <2>1
    DEF Next, CallerStep, WorkerStep, ServerStep, Submit, TimerFires, Cancel,
        Return, TimeOut, Unwind, Interrupt, Leave, Connect, Poll, Dispatch,
        PollEnds, PollBreaks, ReplyArrives, ReplyLost, Report, Finish, Stop,
        Start, HandleResult, Lose, GhostTakes, GhostEnds, Restart, Tick,
        vars, serverVars
  <2>3. c = d /\ future[c] = "open"
    BY <1>1, <2>2 DEF HandleProgress, Progress
  <2>4. QED
    BY <1>1, <2>3 DEF BridgeInv, Lifecycle
<1>2. ASSUME BridgeInv, [Next]_vars
      PROVE  [\A c \in heard' \ heard : caller[c] = "waiting" /\ future[c] = "open"]_vars
  <2>1. heard' \ heard \subseteq Commands
    <3>1. TypeOK'
      BY <1>2, CallerInv, WorkerInv, ServerInv
      DEF Next, BridgeInv, TypeOK, vars, serverVars, workerVars
    <3>2. QED
      BY <3>1 DEF TypeOK
  <2>2. QED
    BY <1>1, <1>2, <2>1
<1>3. QED
  BY <1>2, Invariance, PTL DEF Spec, NarratedWhileOpen

-----------------------------------------------------------------------------
(* The bridge implements the at-most-once remote call                      *)

\* A step that settles no caller, starts no command and leaves the output of
\* returned callers alone is invisible to the callers.
LEMMA InvisibleStep ==
  ASSUME UNCHANGED starts,
         \A c \in Commands : CallState(c)' = CallState(c),
         \A c \in Commands : AnswerTo(c)' = AnswerTo(c)
  PROVE  UNCHANGED Promise!vars
<1>1. [c \in Commands |-> CallState(c)]' = [c \in Commands |-> CallState(c)]
  OBVIOUS
<1>2. [c \in Commands |-> AnswerTo(c)]' = [c \in Commands |-> AnswerTo(c)]
  OBVIOUS
<1>3. QED
  BY <1>1, <1>2 DEF Promise!vars

\* The steps of a caller are Call, Answer, Fail of one call, or invisible.
LEMMA CallerRefines ==
  ASSUME BridgeInv, NEW c \in Commands, CallerStep(c)
  PROVE  [Promise!Next]_(Promise!vars)
<1> USE DEF BridgeInv, CallState, AnswerTo
<1>1. CASE Submit(c)
  <2>1. /\ CallState(c) = "idle"
        /\ [d \in Commands |-> CallState(d)]' =
             [[d \in Commands |-> CallState(d)] EXCEPT ![c] = "open"]
        /\ [d \in Commands |-> AnswerTo(d)]' = [d \in Commands |-> AnswerTo(d)]
        /\ UNCHANGED starts
    BY <1>1 DEF Submit, Awaiting, TypeOK, workerVars
  <2>2. Promise!Call(c)
    BY <2>1 DEF Promise!Call
  <2>3. QED
    BY <2>2 DEF Promise!Next
<1>2. CASE TimerFires(c) \/ Cancel(c)
  <2>1. /\ UNCHANGED <<starts, output>>
        /\ \A d \in Commands : CallState(d)' = CallState(d)
        /\ \A d \in Commands : AnswerTo(d)' = AnswerTo(d)
    BY <1>2 DEF TimerFires, Cancel, Interrupt, Awaiting, TypeOK, workerVars
  <2>2. QED
    BY <2>1, InvisibleStep
<1>3. CASE Return(c)
  <2>1. starts[c] = 1 /\ output[c] = c
    BY <1>3 DEF Return, Lifecycle
  <2>2. /\ CallState(c) = "open"
        /\ [d \in Commands |-> CallState(d)]' =
             [[d \in Commands |-> CallState(d)] EXCEPT ![c] = "answered"]
        /\ [d \in Commands |-> AnswerTo(d)]' =
             [[d \in Commands |-> AnswerTo(d)] EXCEPT ![c] = c]
        /\ UNCHANGED starts
    BY <1>3, <2>1 DEF Return, Leave, Awaiting, TypeOK, workerVars
  <2>3. Promise!Answer(c)
    BY <2>1, <2>2 DEF Promise!Answer
  <2>4. QED
    BY <2>3 DEF Promise!Next
<1>4. CASE TimeOut(c) \/ Unwind(c)
  <2>1. /\ CallState(c) = "open"
        /\ [d \in Commands |-> CallState(d)]' =
             [d \in Commands |-> IF d \in {c} THEN "failed" ELSE CallState(d)]
        /\ [d \in Commands |-> AnswerTo(d)]' = [d \in Commands |-> AnswerTo(d)]
        /\ UNCHANGED starts
    BY <1>4 DEF TimeOut, Unwind, Leave, Awaiting, TypeOK, workerVars
  <2>2. Promise!Fail({c})
    BY <2>1 DEF Promise!Fail
  <2>3. QED
    BY <2>2 DEF Promise!Next
<1>5. QED
  BY <1>1, <1>2, <1>3, <1>4 DEF CallerStep

\* Of the steps of a worker only the arrival of a reply, which starts the
\* command, shows: it is Execute.
LEMMA WorkerRefines ==
  ASSUME BridgeInv, NEW w \in Workers, WorkerStep(w)
  PROVE  [Promise!Next]_(Promise!vars)
<1> USE DEF BridgeInv, CallState, AnswerTo
<1>1. UNCHANGED <<caller, output>>
  BY DEF WorkerStep, Connect, Poll, Dispatch, PollEnds, PollBreaks, ReplyArrives,
         ReplyLost, Report, Finish, Stop, Start, serverVars
<1>2. /\ \A c \in Commands : CallState(c)' = CallState(c)
      /\ \A c \in Commands : AnswerTo(c)' = AnswerTo(c)
  BY <1>1
<1>3. CASE ReplyArrives(w)
  <2>1. hand[w] \in Commands /\ starts[hand[w]] = 0 /\ caller[hand[w]] # "idle"
    BY <1>3 DEF ReplyArrives, OneHolder, Lifecycle, HandInUse, TypeOK
  <2>2. CallState(hand[w]) # "idle"
    BY <2>1
  <2>3. starts' = [starts EXCEPT ![hand[w]] = 1]
    BY <1>3, <2>1 DEF ReplyArrives, TypeOK
  <2>4. Promise!Execute(hand[w])
    BY <1>2, <2>1, <2>2, <2>3 DEF Promise!Execute
  <2>5. QED
    BY <2>1, <2>4 DEF Promise!Next
<1>4. CASE ~ ReplyArrives(w)
  <2>1. UNCHANGED starts
    BY <1>4 DEF WorkerStep, Connect, Poll, Dispatch, PollEnds, PollBreaks,
                ReplyLost, Report, Finish, Stop, Start, workerVars
  <2>2. QED
    BY <1>2, <2>1, InvisibleStep
<1>5. QED
  BY <1>3, <1>4

\* A restart fails all open calls together; nothing else the server or the
\* clock does shows, a late result included.
LEMMA ServerRefines ==
  ASSUME BridgeInv, ServerStep \/ Tick
  PROVE  [Promise!Next]_(Promise!vars)
<1> USE DEF BridgeInv, CallState, AnswerTo
<1>1. CASE Restart
  <2>1. PICK Open \in SUBSET Commands : Open = {c \in Commands : caller[c] \in Awaiting}
    OBVIOUS
  <2>2. /\ \A c \in Open : CallState(c) = "open"
        /\ \A c \in Commands : CallState(c)' = IF c \in Open THEN "failed" ELSE CallState(c)
        /\ \A c \in Commands : AnswerTo(c)' = AnswerTo(c)
        /\ UNCHANGED starts
    BY <1>1, <2>1 DEF Restart, Awaiting, TypeOK
  <2>3. CASE Open = {}
    BY <2>2, <2>3, InvisibleStep
  <2>4. CASE Open # {}
    <3>1. Promise!Fail(Open)
      BY <2>2, <2>4 DEF Promise!Fail
    <3>2. QED
      BY <3>1 DEF Promise!Next
  <2>5. QED
    BY <2>3, <2>4
<1>2. ASSUME NEW c \in Commands, HandleResult(c)
      PROVE  UNCHANGED Promise!vars
  <2>1. UNCHANGED <<caller, starts, pending>>
    BY <1>2 DEF HandleResult, workerVars
  <2>2. \A d \in Commands : caller[d] = "returned" => output'[d] = output[d]
    <3>1. CASE c \in pending /\ future[c] = "open"
      BY <1>2, <3>1 DEF HandleResult, Complete, PendingIsAwaited, Awaiting, TypeOK
    <3>2. CASE ~ (c \in pending /\ future[c] = "open")
      BY <1>2, <3>2 DEF HandleResult, Complete
    <3>3. QED
      BY <3>1, <3>2
  <2>3. QED
    BY <2>1, <2>2, InvisibleStep
<1>3. ASSUME \/ \E c \in Commands : HandleProgress(c)
             \/ \E m \in mail : Lose(m)
             \/ GhostTakes
             \/ GhostEnds
             \/ Tick
      PROVE  UNCHANGED Promise!vars
  <2>1. UNCHANGED <<caller, output, starts>>
    BY <1>3 DEF HandleProgress, Lose, GhostTakes, GhostEnds, Tick, serverVars, workerVars
  <2>2. QED
    BY <2>1, InvisibleStep
<1>4. QED
  BY <1>1, <1>2, <1>3 DEF ServerStep

\* The bridge keeps its promise to every caller: at most one execution, and an
\* answer only of the caller's own command, for any number of commands and
\* workers.
THEOREM BridgeIsRemoteCall == Spec => KeepsPromise
<1>1. Init => Promise!Init
  <2>1. ASSUME Init PROVE Promise!Init
    <3>1. \A c \in Commands : CallState(c) = "idle" /\ AnswerTo(c) = None
      BY <2>1 DEF Init, CallState, AnswerTo, Awaiting
    <3>2. starts = [c \in Commands |-> 0]
      BY <2>1 DEF Init
    <3>3. QED
      BY <3>1, <3>2 DEF Promise!Init
  <2>2. QED
    BY <2>1
<1>2. BridgeInv /\ [Next]_vars => [Promise!Next]_(Promise!vars)
  <2>1. ASSUME BridgeInv, UNCHANGED vars
        PROVE  UNCHANGED Promise!vars
    BY <2>1, InvisibleStep DEF vars, serverVars, workerVars, CallState, AnswerTo
  <2>2. QED
    BY <2>1, CallerRefines, WorkerRefines, ServerRefines DEF Next
<1>3. QED
  BY <1>1, <1>2, Invariance, PTL DEF Spec, KeepsPromise, Promise!Spec

=============================================================================
