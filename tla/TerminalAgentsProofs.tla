----------------------- MODULE TerminalAgentsProofs -----------------------
(* Theorems about TerminalAgents for any agents, watchers and capacity.     *)
EXTENDS TerminalAgents, TLAPS

\* How an agent's task, its command and its client stand to each other.
Ordered(a) ==
  /\ status[a] = "unborn" =>
       at[a] = "over" /\ cmds[a] = 0 /\ pass[a] = 0 /\ client[a] = "none"
  /\ at[a] \in {"new", "preamble"} => pass[a] = 0
  /\ at[a] \in {"new", "preamble", "model"} => cmds[a] = 0
  /\ at[a] = "new" => client[a] = "none"
  /\ at[a] = "closing" => status[a] \notin Live
  /\ cmds[a] <= 1

\* A cancellation is on its way, or has been thrown and ends the task; the outcome
\* is its.
Cancelled(a) ==
  /\ cancelling[a] => stopped[a] /\ at[a] # "over"
  /\ stopped[a] =>
       /\ status[a] = "error" /\ result[a] = "cancelled"
       /\ cancelling[a] \/ at[a] \in {"closing", "over"}

\* How an agent left off.
Left(a) ==
  at[a] = "over" /\ status[a] # "unborn" =>
    /\ status[a] \in Live => client[a] = "none" /\ ~ stopped[a]
    /\ client[a] = "open" => stopped[a] /\ pass[a] = 0

Sound(a) == Ordered(a) /\ Cancelled(a) /\ Left(a)

\* Who follows, follows an agent.
Followed == \A w \in Watchers : tail[w].phase # "off" => tail[w].agent \in Agents

\* The inductive invariant.
IInv == TypeOK /\ (\A a \in Agents : Sound(a)) /\ Followed

-----------------------------------------------------------------------------
(* Types                                                                   *)

\* The types of what belongs to the agents, to the registry and to the streams.
AgentTypes ==
  /\ status \in [Agents -> {"unborn", "done", "error"} \cup Live]
  /\ result \in [Agents -> {"none", "answer", "failure", "cancelled"}]
  /\ at \in [Agents -> {"new", "preamble", "model", "tool", "closing", "over"}]
  /\ cancelling \in [Agents -> BOOLEAN]
  /\ client \in [Agents -> {"none", "open", "closed"}]
  /\ pass \in [Agents -> 0..MaxIters]
  /\ cmds \in [Agents -> Nat]
  /\ log \in [Agents -> Nat]
  /\ stopped \in [Agents -> BOOLEAN]

StoreTypes == store \in Seq(Agents) /\ Len(store) <= Capacity

StreamType ==
  [agent : Agents \cup {None},
   phase : {"off", "replay", "start", "sleep", "slice", "drain", "ended"},
   next : Nat \ {0}, upto : Nat]

TailTypes == tail \in [Watchers -> StreamType]

\* Together they are TypeOK.
LEMMA TypesTogether == TypeOK <=> AgentTypes /\ StoreTypes /\ TailTypes
BY DEF TypeOK, AgentTypes, StoreTypes, TailTypes, StreamType

-----------------------------------------------------------------------------
(* Agents                                                                  *)

\* What a step of agent a leaves as it is of the others.
SameAt(b) ==
  UNCHANGED <<status[b], result[b], at[b], cancelling[b], client[b], pass[b], cmds[b], stopped[b]>>
StepOf(a) == \A b \in Agents \ {a} : SameAt(b)

\* A step of one agent keeps them all sound if it keeps that one so.
LEMMA OneAgent ==
  ASSUME \A b \in Agents : Sound(b), NEW a \in Agents, StepOf(a), Sound(a)'
  PROVE  \A b \in Agents : Sound(b)'
<1>1. ASSUME NEW b \in Agents \ {a} PROVE Sound(b)'
  <2>1. Sound(b) /\ SameAt(b)
    BY DEF StepOf
  <2>2. QED
    BY <2>1 DEF Sound, Ordered, Cancelled, Left, SameAt
<1>2. QED
  BY <1>1

\* An agent is born.
LEMMA BornSound ==
  ASSUME AgentTypes, NEW a \in Agents, Sound(a), Born(a)
  PROVE  AgentTypes' /\ StepOf(a) /\ Sound(a)'
<1>1. AgentTypes'
  BY DEF AgentTypes, Born, Live
<1>2. StepOf(a)
  BY DEF AgentTypes, Born, StepOf, SameAt
<1>3. /\ status'[a] = "pending" /\ at'[a] = "new"
      /\ UNCHANGED <<result, cancelling, client, pass, cmds, stopped>>
  BY DEF AgentTypes, Born
<1>4. pass[a] = 0 /\ client[a] = "none" /\ cmds[a] = 0 /\ ~ stopped[a] /\ ~ cancelling[a]
  BY DEF Born, Sound, Ordered, Cancelled
<1>5. Sound(a)'
  BY <1>3, <1>4 DEF Sound, Ordered, Cancelled, Left
<1>6. QED
  BY <1>1, <1>2, <1>5

\* An agent is cancelled, wherever it waits.
LEMMA CancelSound ==
  ASSUME AgentTypes, NEW a \in Agents, Sound(a), Cancel(a)
  PROVE  AgentTypes' /\ StepOf(a) /\ Sound(a)'
<1>1. AgentTypes'
  BY DEF AgentTypes, Cancel
<1>2. StepOf(a)
  BY DEF AgentTypes, Cancel, StepOf, SameAt
<1>3. /\ status'[a] = "error" /\ result'[a] = "cancelled" /\ cancelling'[a] /\ stopped'[a]
      /\ UNCHANGED <<at, client, pass, cmds>> /\ at[a] # "over"
  BY DEF AgentTypes, Cancel
<1>4. Sound(a)'
  <2>1. status[a] # "unborn"
    BY <1>3 DEF Sound, Ordered
  <2>2. QED
    BY <1>3, <2>1 DEF Sound, Ordered, Cancelled, Left, Live
<1>5. QED
  BY <1>1, <1>2, <1>4

\* The first awaits of its task.
LEMMA BeginSound ==
  ASSUME AgentTypes, NEW a \in Agents, Sound(a), Begin(a) \/ NoDirectory(a) \/ Recalled(a)
  PROVE  AgentTypes' /\ StepOf(a) /\ Sound(a)'
<1>1. 1 \in 0..MaxIters
  BY TerminalAssumption
<1>2. AgentTypes'
  BY <1>1 DEF AgentTypes, Begin, NoDirectory, Recalled, Live
<1>3. StepOf(a)
  BY DEF AgentTypes, Begin, NoDirectory, Recalled, StepOf, SameAt
<1>4. ~ cancelling[a] /\ ~ stopped[a] /\ UNCHANGED <<cancelling, stopped, cmds>>
  BY DEF Begin, NoDirectory, Recalled, Runs, Sound, Cancelled
<1>5. CASE Begin(a)
  <2>1. /\ status'[a] = "running" /\ client'[a] = "open" /\ at'[a] = "preamble" /\ at[a] = "new"
        /\ UNCHANGED pass
    BY <1>5 DEF AgentTypes, Begin, Runs
  <2>2. pass[a] = 0 /\ cmds[a] = 0
    BY <2>1 DEF Sound, Ordered
  <2>3. Sound(a)'
    BY <1>4, <2>1, <2>2 DEF Sound, Ordered, Cancelled, Left
  <2>4. QED
    BY <1>2, <1>3, <2>3
<1>6. CASE NoDirectory(a)
  <2>1. /\ status'[a] = "running" /\ at'[a] = "over" /\ at[a] = "new"
        /\ UNCHANGED <<pass, client>>
    BY <1>6 DEF AgentTypes, NoDirectory, Runs
  <2>2. client[a] = "none" /\ cmds[a] = 0
    BY <2>1 DEF Sound, Ordered
  <2>3. Sound(a)'
    BY <1>4, <2>1, <2>2 DEF Sound, Ordered, Cancelled, Left
  <2>4. QED
    BY <1>2, <1>3, <2>3
<1>7. CASE Recalled(a)
  <2>1. /\ at'[a] = "model" /\ at[a] = "preamble" /\ UNCHANGED <<status, client>>
    BY <1>7 DEF AgentTypes, Recalled, Runs
  <2>2. cmds[a] = 0 /\ status[a] # "unborn"
    BY <2>1 DEF Sound, Ordered
  <2>3. Sound(a)'
    BY <1>4, <2>1, <2>2 DEF Sound, Ordered, Cancelled, Left
  <2>4. QED
    BY <1>2, <1>3, <2>3
<1>8. QED
  BY <1>5, <1>6, <1>7

\* The model asks for something, or is asked again.
LEMMA ToolSound ==
  ASSUME AgentTypes, NEW a \in Agents, Sound(a),
         \/ Command(a) \/ NoCommand(a)
         \/ NextPass(a) /\ pass[a] < MaxIters
  PROVE  AgentTypes' /\ StepOf(a) /\ Sound(a)'
<1>1. cmds[a] \in Nat /\ log[a] \in Nat /\ pass[a] \in 0..MaxIters /\ MaxIters \in Nat
  BY TerminalAssumption DEF AgentTypes
<1>2. /\ at[a] \in {"model", "tool"} /\ ~ cancelling[a] /\ ~ stopped[a]
      /\ UNCHANGED <<status, result, cancelling, client, stopped>>
  BY <1>1 DEF Command, NoCommand, NextPass, Runs, Sound, Cancelled
<1>3. status[a] # "unborn"
  BY <1>2 DEF Sound, Ordered
<1>4. CASE Command(a)
  <2>1. /\ at' = [at EXCEPT ![a] = "tool"] /\ cmds' = [cmds EXCEPT ![a] = cmds[a] + 1]
        /\ log' = [log EXCEPT ![a] = log[a] + 1] /\ UNCHANGED pass
    BY <1>4 DEF Command
  <2>2. AgentTypes' /\ StepOf(a)
    BY <1>1, <1>2, <2>1 DEF AgentTypes, StepOf, SameAt
  <2>3. cmds[a] = 0
    BY <1>4 DEF Command, Runs, Sound, Ordered
  <2>4. at'[a] = "tool" /\ cmds'[a] = 1
    BY <2>1, <2>3 DEF AgentTypes
  <2>5. Sound(a)'
    BY <1>2, <1>3, <2>4 DEF Sound, Ordered, Cancelled, Left
  <2>6. QED
    BY <2>2, <2>5
<1>5. CASE NoCommand(a)
  <2>1. PICK entries \in {0, 2} : log' = [log EXCEPT ![a] = log[a] + entries]
    BY <1>5 DEF NoCommand
  <2>2. at' = [at EXCEPT ![a] = "tool"] /\ UNCHANGED <<pass, cmds>>
    BY <1>5 DEF NoCommand
  <2>3. AgentTypes' /\ StepOf(a)
    BY <1>1, <1>2, <2>1, <2>2 DEF AgentTypes, StepOf, SameAt
  <2>4. at'[a] = "tool" /\ cmds'[a] <= 1
    BY <2>2 DEF AgentTypes, Sound, Ordered
  <2>5. Sound(a)'
    BY <1>2, <1>3, <2>4 DEF Sound, Ordered, Cancelled, Left
  <2>6. QED
    BY <2>3, <2>5
<1>6. CASE NextPass(a) /\ pass[a] < MaxIters
  <2>1. /\ at' = [at EXCEPT ![a] = "model"] /\ pass' = [pass EXCEPT ![a] = pass[a] + 1]
        /\ cmds[a] = 0 /\ UNCHANGED <<log, cmds>>
    BY <1>1, <1>6 DEF NextPass
  <2>2. pass[a] + 1 \in 0..MaxIters
    BY <1>1, <1>6
  <2>3. AgentTypes' /\ StepOf(a)
    BY <1>2, <2>1, <2>2 DEF AgentTypes, StepOf, SameAt
  <2>4. at'[a] = "model" /\ cmds'[a] = 0
    BY <2>1 DEF AgentTypes
  <2>5. Sound(a)'
    BY <1>2, <1>3, <2>4 DEF Sound, Ordered, Cancelled, Left
  <2>6. QED
    BY <2>3, <2>5
<1>7. QED
  BY <1>4, <1>5, <1>6

\* A command ends, and is logged.
LEMMA CommandEndsSound ==
  ASSUME AgentTypes, NEW a \in Agents, Sound(a), CommandEnds(a)
  PROVE  AgentTypes' /\ StepOf(a) /\ Sound(a)'
<1>1. cmds[a] \in Nat /\ cmds[a] > 0 /\ log[a] \in Nat
  BY DEF AgentTypes, CommandEnds
<1>2. /\ cmds' = [cmds EXCEPT ![a] = cmds[a] - 1] /\ log' = [log EXCEPT ![a] = log[a] + 1]
      /\ UNCHANGED <<status, result, at, cancelling, client, pass, stopped>>
  BY DEF CommandEnds
<1>3. AgentTypes' /\ StepOf(a)
  BY <1>1, <1>2 DEF AgentTypes, StepOf, SameAt
<1>4. cmds[a] = 1 /\ at[a] \notin {"new", "preamble", "model"} /\ status[a] # "unborn"
  BY <1>1 DEF Sound, Ordered
<1>5. cmds'[a] = 0
  BY <1>2, <1>4 DEF AgentTypes
<1>6. Sound(a)'
  BY <1>2, <1>4, <1>5 DEF Sound, Ordered, Cancelled, Left
<1>7. QED
  BY <1>3, <1>6

\* The task finishes: with an answer or a failure, not with a cancellation.
LEMMA FinishesSound ==
  ASSUME AgentTypes, NEW a \in Agents, Sound(a),
         NEW s \in {"done", "error"}, NEW r \in {"answer", "failure"}, Finishes(a, s, r),
         at[a] \in {"model", "tool"}, ~ cancelling[a],
         UNCHANGED <<cancelling, client, pass, cmds, stopped>>
  PROVE  AgentTypes' /\ StepOf(a) /\ Sound(a)'
<1>1. log[a] \in Nat
  BY DEF AgentTypes
<1>2. /\ status' = [status EXCEPT ![a] = s] /\ result' = [result EXCEPT ![a] = r]
      /\ at' = [at EXCEPT ![a] = "closing"] /\ log' = [log EXCEPT ![a] = log[a] + 1]
  BY DEF Finishes
<1>3. AgentTypes' /\ StepOf(a)
  BY <1>1, <1>2 DEF AgentTypes, StepOf, SameAt
<1>4. status'[a] = s /\ at'[a] = "closing"
  BY <1>2 DEF AgentTypes
<1>5. ~ stopped[a] /\ cmds[a] <= 1
  BY DEF Sound, Ordered, Cancelled
<1>6. Sound(a)'
  BY <1>4, <1>5 DEF Sound, Ordered, Cancelled, Left, Live
<1>7. QED
  BY <1>3, <1>6

\* The task has closed its client.
LEMMA ClosedSound ==
  ASSUME AgentTypes, NEW a \in Agents, Sound(a), Closed(a)
  PROVE  AgentTypes' /\ StepOf(a) /\ Sound(a)'
<1>1. /\ client' = [client EXCEPT ![a] = "closed"] /\ at' = [at EXCEPT ![a] = "over"]
      /\ at[a] = "closing" /\ ~ cancelling[a]
      /\ UNCHANGED <<status, result, cancelling, pass, cmds, log, stopped>>
  BY DEF Closed, Runs
<1>2. AgentTypes' /\ StepOf(a)
  BY <1>1 DEF AgentTypes, StepOf, SameAt
<1>3. client'[a] = "closed" /\ at'[a] = "over"
  BY <1>1 DEF AgentTypes
<1>4. status[a] \notin Live /\ status[a] # "unborn" /\ cmds[a] <= 1
  BY <1>1 DEF Sound, Ordered
<1>5. Sound(a)'
  BY <1>1, <1>3, <1>4 DEF Sound, Ordered, Cancelled, Left
<1>6. QED
  BY <1>2, <1>5

\* The cancellation is thrown into the task.
LEMMA ThrownSound ==
  ASSUME AgentTypes, NEW a \in Agents, Sound(a), Thrown(a)
  PROVE  AgentTypes' /\ StepOf(a) /\ Sound(a)'
<1>1. /\ cancelling[a] /\ cancelling' = [cancelling EXCEPT ![a] = FALSE]
      /\ UNCHANGED <<status, result, pass, cmds, log, stopped>>
  BY DEF Thrown
<1>2. /\ at' = [at EXCEPT ![a] = IF at[a] \in {"new", "preamble", "closing"} THEN "over" ELSE "closing"]
      /\ client' = [client EXCEPT ![a] = IF at[a] = "closing" THEN "closed" ELSE client[a]]
  BY DEF Thrown
<1>3. AgentTypes'
  BY <1>1, <1>2 DEF AgentTypes
<1>4. StepOf(a)
  BY <1>1, <1>2 DEF AgentTypes, StepOf, SameAt
<1>5. /\ at'[a] = IF at[a] \in {"new", "preamble", "closing"} THEN "over" ELSE "closing"
      /\ client'[a] = IF at[a] = "closing" THEN "closed" ELSE client[a]
      /\ ~ cancelling'[a]
  BY <1>1, <1>2 DEF AgentTypes
<1>6. /\ stopped[a] /\ status[a] = "error" /\ result[a] = "cancelled" /\ at[a] # "over"
  BY <1>1 DEF Sound, Cancelled
<1>7. /\ at[a] = "new" => client[a] = "none"
      /\ at[a] \in {"new", "preamble"} => pass[a] = 0
      /\ cmds[a] <= 1
  BY DEF Sound, Ordered
<1>8. Ordered(a)'
  BY <1>1, <1>5, <1>6, <1>7 DEF Ordered, Live
<1>9. Cancelled(a)'
  BY <1>1, <1>5, <1>6 DEF Cancelled
<1>10. Left(a)'
  BY <1>1, <1>5, <1>6, <1>7 DEF Left, Live
<1>11. QED
  BY <1>3, <1>4, <1>8, <1>9, <1>10 DEF Sound

\* Every step of an agent keeps it sound.
LEMMA AgentSound ==
  ASSUME AgentTypes, NEW a \in Agents, Sound(a), Born(a) \/ Cancel(a) \/ Task(a) \/ CommandEnds(a)
  PROVE  AgentTypes' /\ StepOf(a) /\ Sound(a)'
<1>1. CASE NextPass(a)
  <2>1. CASE pass[a] < MaxIters
    BY <1>1, <2>1, ToolSound
  <2>2. CASE ~ (pass[a] < MaxIters)
    <3>1. /\ Finishes(a, "done", "answer") /\ at[a] = "tool" /\ ~ cancelling[a]
          /\ UNCHANGED <<cancelling, client, pass, cmds, stopped>>
      BY <1>1, <2>2 DEF NextPass, Runs
    <3>2. QED
      BY <3>1, FinishesSound
  <2>3. QED
    BY <2>1, <2>2
<1>2. CASE Concludes(a) \/ ModelFails(a)
  <2>1. /\ Finishes(a, "done", "answer") \/ Finishes(a, "error", "failure")
        /\ at[a] = "model" /\ ~ cancelling[a]
        /\ UNCHANGED <<cancelling, client, pass, cmds, stopped>>
    BY <1>2 DEF Concludes, ModelFails, Runs
  <2>2. QED
    BY <2>1, FinishesSound
<1>3. QED
  BY <1>1, <1>2, BornSound, CancelSound, BeginSound, ToolSound, ClosedSound, ThrownSound, CommandEndsSound
     DEF Task

-----------------------------------------------------------------------------
(* The registry and the streams                                            *)

\* The registry holds no more than it has room for.
LEMMA StoredTypes ==
  ASSUME StoreTypes, NEW a \in Agents
  PROVE  Stored(a) \in Seq(Agents) /\ Len(Stored(a)) <= Capacity
<1>1. store \in Seq(Agents) /\ Len(store) <= Capacity /\ Capacity \in Nat
  BY TerminalAssumption DEF StoreTypes
<1>2. Append(store, a) \in Seq(Agents) /\ Len(Append(store, a)) = Len(store) + 1
  BY <1>1
<1>3. CASE Len(Append(store, a)) > Capacity
  <2>1. /\ Tail(Append(store, a)) \in Seq(Agents)
        /\ Len(Tail(Append(store, a))) = Len(Append(store, a)) - 1
    BY <1>1, <1>2
  <2>2. QED
    BY <1>1, <1>2, <1>3, <2>1 DEF Stored
<1>4. CASE ~ (Len(Append(store, a)) > Capacity)
  BY <1>1, <1>2, <1>4 DEF Stored
<1>5. QED
  BY <1>3, <1>4

\* A stream takes another step: it still follows an agent, if any.
LEMMA FollowsTypes ==
  ASSUME TailTypes, Followed, NEW w \in Watchers, NEW x \in StreamType,
         x.phase # "off" => x.agent \in Agents, tail' = [tail EXCEPT ![w] = x]
  PROVE  TailTypes' /\ Followed'
<1>1. TailTypes'
  BY DEF TailTypes
<1>2. tail'[w] = x /\ \A v \in Watchers \ {w} : tail'[v] = tail[v]
  BY DEF TailTypes
<1>3. Followed'
  BY <1>2 DEF Followed
<1>4. QED
  BY <1>1, <1>3

\* A new stream.
LEMMA NewStream ==
  ASSUME NEW a \in Agents, NEW phase \in {"replay", "start"}
  PROVE  /\ Idle \in StreamType /\ Idle.phase = "off"
         /\ [Idle EXCEPT !.agent = a, !.phase = phase] \in StreamType
         /\ [Idle EXCEPT !.agent = a, !.phase = phase].agent = a
<1>1. 1 \in Nat \ {0} /\ 0 \in Nat
  OBVIOUS
<1>2. Idle \in StreamType /\ Idle.phase = "off"
  BY <1>1 DEF Idle, StreamType
<1> DEFINE y == [Idle EXCEPT !.agent = a]
<1>3. y \in StreamType /\ y.agent = a
  BY <1>2 DEF StreamType
<1>4. /\ [y EXCEPT !.phase = phase] \in StreamType
      /\ [y EXCEPT !.phase = phase].agent = a
  <2> HIDE DEF y
  <2>1. QED
    BY <1>3 DEF StreamType
<1>5. QED
  BY <1>2, <1>4

\* A turn of a stream's loop.
LEMMA TurnTypes ==
  ASSUME AgentTypes, NEW x \in StreamType, x.agent \in Agents, NEW next \in Nat \ {0}
  PROVE  Turn(x, next) \in StreamType /\ Turn(x, next).agent \in Agents
<1>1. log[x.agent] \in Nat
  BY DEF AgentTypes
<1>2. /\ [x EXCEPT !.phase = "sleep", !.next = next] \in StreamType
      /\ [x EXCEPT !.phase = "sleep", !.next = next].agent = x.agent
  BY DEF StreamType
<1>3. /\ [x EXCEPT !.phase = "drain", !.next = next, !.upto = log[x.agent]] \in StreamType
      /\ [x EXCEPT !.phase = "drain", !.next = next, !.upto = log[x.agent]].agent = x.agent
  BY <1>1 DEF StreamType
<1>4. QED
  BY <1>2, <1>3 DEF Turn

\* A stream follows one agent to the end of its log.
LEMMA StreamTypes ==
  ASSUME AgentTypes, TailTypes, Followed, NEW w \in Watchers, Stream(w) \/ HangUp(w)
  PROVE  TailTypes' /\ Followed' /\ UNCHANGED <<agentVars, store, stopped>>
<1> DEFINE t == tail[w]
<1>1. t \in StreamType /\ (t.phase # "off" => t.agent \in Agents)
  BY DEF TailTypes, Followed
<1>2. ASSUME NEW x \in StreamType, x.agent \in Agents, Follows(w, x)
      PROVE  TailTypes' /\ Followed' /\ UNCHANGED <<agentVars, store, stopped>>
  BY <1>2, FollowsTypes DEF Follows
<1>3. CASE HangUp(w)
  <2>1. Idle \in StreamType /\ Idle.phase = "off"
    BY DEF Idle, StreamType
  <2>2. tail' = [tail EXCEPT ![w] = Idle] /\ UNCHANGED <<agentVars, store, stopped>>
    BY <1>3 DEF HangUp, Follows
  <2>3. QED
    BY <2>1, <2>2, FollowsTypes
<1>4. CASE Stream(w)
  <2>1. t.phase # "off" /\ t.agent \in Agents
    BY <1>1, <1>4 DEF Stream, Replay, Started, Wakes, Slice, Drain
  <2>2. log[t.agent] \in Nat
    BY <2>1 DEF AgentTypes
  <2>3. t.next \in Nat \ {0} /\ 1 \in Nat \ {0} /\ log[t.agent] + 1 \in Nat \ {0}
    BY <1>1, <2>2 DEF StreamType
  <2>4. \A n \in Nat \ {0} : Turn(t, n) \in StreamType /\ Turn(t, n).agent \in Agents
    BY <1>1, <2>1, TurnTypes
  <2>5. /\ [t EXCEPT !.next = @ + 1] \in StreamType /\ [t EXCEPT !.next = @ + 1].agent \in Agents
        /\ [t EXCEPT !.phase = "ended"] \in StreamType /\ [t EXCEPT !.phase = "ended"].agent \in Agents
        /\ [t EXCEPT !.phase = "slice", !.upto = log[t.agent]] \in StreamType
        /\ [t EXCEPT !.phase = "slice", !.upto = log[t.agent]].agent \in Agents
    <3>1. \A n \in Nat \ {0} : [t EXCEPT !.next = n] \in StreamType /\ [t EXCEPT !.next = n].agent = t.agent
      BY <1>1 DEF StreamType
    <3>2. t.next + 1 \in Nat \ {0} /\ [t EXCEPT !.next = @ + 1] = [t EXCEPT !.next = t.next + 1]
      BY <2>3
    <3>3. [t EXCEPT !.phase = "ended"] \in StreamType /\ [t EXCEPT !.phase = "ended"].agent = t.agent
      BY <1>1 DEF StreamType
    <3>4. /\ [t EXCEPT !.phase = "slice", !.upto = log[t.agent]] \in StreamType
          /\ [t EXCEPT !.phase = "slice", !.upto = log[t.agent]].agent = t.agent
      BY <1>1, <2>2 DEF StreamType
    <3> HIDE DEF t
    <3>5. QED
      BY <2>1, <3>1, <3>2, <3>3, <3>4
  <2>6. \/ Follows(w, [t EXCEPT !.next = @ + 1])
        \/ Follows(w, [t EXCEPT !.phase = "ended"])
        \/ Follows(w, [t EXCEPT !.phase = "slice", !.upto = log[t.agent]])
        \/ Follows(w, Turn(t, t.next)) \/ Follows(w, Turn(t, 1)) \/ Follows(w, Turn(t, log[t.agent] + 1))
    BY <1>4 DEF Stream, Replay, Started, Wakes, Slice, Drain
  <2> HIDE DEF t
  <2>7. QED
    BY <1>2, <2>3, <2>4, <2>5, <2>6
<1>5. QED
  BY <1>3, <1>4

-----------------------------------------------------------------------------
(* Together                                                                *)

\* The invariant holds before the first agent.
LEMMA InitInv == Init => IInv
<1> SUFFICES ASSUME Init PROVE IInv
  OBVIOUS
<1>1. AgentTypes
  BY TerminalAssumption DEF Init, AgentTypes
<1>2. StoreTypes
  BY TerminalAssumption DEF Init, StoreTypes
<1>3. Idle \in StreamType /\ Idle.phase = "off"
  BY DEF Idle, StreamType
<1>4. TailTypes /\ Followed
  BY <1>3 DEF Init, TailTypes, Followed
<1>5. \A a \in Agents : Sound(a)
  BY DEF Init, Sound, Ordered, Cancelled, Left
<1>6. QED
  BY <1>1, <1>2, <1>4, <1>5, TypesTogether DEF IInv

\* Holds for any agents, watchers and capacity.
THEOREM Invariance == Spec => []IInv
<1>1. Init => IInv
  BY InitInv
<1>2. IInv /\ [Next]_vars => IInv'
  <2> SUFFICES ASSUME IInv, [Next]_vars PROVE IInv'
    OBVIOUS
  <2>1. AgentTypes /\ StoreTypes /\ TailTypes /\ Followed /\ \A a \in Agents : Sound(a)
    BY TypesTogether DEF IInv
  <2>2. ASSUME AgentTypes', StoreTypes', TailTypes', Followed', \A a \in Agents : Sound(a)'
        PROVE  IInv'
    BY <2>2 DEF IInv, TypeOK, AgentTypes, StoreTypes, TailTypes, StreamType
  <2>3. ASSUME NEW a \in Agents, Born(a) \/ Cancel(a) \/ Task(a) \/ CommandEnds(a)
        PROVE  AgentTypes' /\ \A b \in Agents : Sound(b)'
    <3>1. AgentTypes' /\ StepOf(a) /\ Sound(a)'
      BY <2>1, <2>3, AgentSound
    <3>2. QED
      BY <2>1, <3>1, OneAgent
  <2>4. ASSUME NEW a \in Agents, Born(a) PROVE StoreTypes'
    <3>1. store' = Stored(a)
      BY <2>4 DEF Born
    <3>2. QED
      BY <2>1, <3>1, StoredTypes DEF StoreTypes
  <2>5. ASSUME NEW a \in Agents, Cancel(a) \/ Task(a) \/ CommandEnds(a)
        PROVE  IInv'
    <3>1. UNCHANGED <<store, tail>>
      BY <2>5 DEF Cancel, CommandEnds, Task, Begin, NoDirectory, Recalled, Command, NoCommand, NextPass,
         Concludes, ModelFails, Closed, Thrown
    <3>2. StoreTypes' /\ TailTypes' /\ Followed'
      BY <2>1, <3>1 DEF StoreTypes, TailTypes, Followed
    <3>3. QED
      BY <2>2, <2>3, <2>5, <3>2
  <2>6. ASSUME NEW a \in Agents, Spawn(a) PROVE IInv'
    <3>1. Born(a) /\ UNCHANGED tail
      BY <2>6 DEF Spawn
    <3>2. TailTypes' /\ Followed'
      BY <2>1, <3>1 DEF TailTypes, Followed
    <3>3. QED
      BY <2>2, <2>3, <2>4, <3>1, <3>2
  <2>7. ASSUME NEW w \in Watchers, NEW a \in Agents, SpawnAndStream(w, a) PROVE IInv'
    <3>1. Born(a) /\ tail' = [tail EXCEPT ![w] = [Idle EXCEPT !.agent = a, !.phase = "start"]]
      BY <2>7 DEF SpawnAndStream
    <3>2. TailTypes' /\ Followed'
      BY <2>1, <3>1, NewStream, FollowsTypes
    <3>3. QED
      BY <2>2, <2>3, <2>4, <3>1, <3>2
  <2>8. ASSUME UNCHANGED <<agentVars, store, stopped>>, TailTypes', Followed' PROVE IInv'
    <3>1. AgentTypes' /\ StoreTypes'
      BY <2>1, <2>8 DEF AgentTypes, StoreTypes, agentVars
    <3>2. \A a \in Agents : Sound(a)'
      BY <2>1, <2>8 DEF Sound, Ordered, Cancelled, Left, agentVars
    <3>3. QED
      BY <2>2, <2>8, <3>1, <3>2
  <2>9. ASSUME NEW w \in Watchers, NEW a \in Agents, Attach(w, a) PROVE IInv'
    <3>1. /\ tail' = [tail EXCEPT ![w] = [Idle EXCEPT !.agent = a, !.phase = "replay"]]
          /\ UNCHANGED <<agentVars, store, stopped>>
      BY <2>9 DEF Attach, Fresh
    <3>2. TailTypes' /\ Followed'
      BY <2>1, <3>1, NewStream, FollowsTypes
    <3>3. QED
      BY <2>8, <3>1, <3>2
  <2>10. ASSUME NEW w \in Watchers, Stream(w) \/ HangUp(w) PROVE IInv'
    BY <2>1, <2>8, <2>10, StreamTypes
  <2>11. CASE UNCHANGED vars
    <3>1. UNCHANGED <<agentVars, store, stopped, tail>>
      BY <2>11 DEF vars, agentVars
    <3>2. TailTypes' /\ Followed'
      BY <2>1, <3>1 DEF TailTypes, Followed
    <3>3. QED
      BY <2>8, <3>1, <3>2
  <2>12. QED
    BY <2>5, <2>6, <2>7, <2>9, <2>10, <2>11 DEF Next
<1>3. QED
  BY <1>1, <1>2, PTL DEF Spec

\* cancel() has returned True: that is and stays the agent's outcome.
THEOREM CancellationSticks == Spec => []CancelSticks
<1>1. IInv => CancelSticks
  BY DEF IInv, Sound, Cancelled, CancelSticks
<1>2. QED
  BY <1>1, Invariance, PTL

\* An agent has one command at a time, and one that is over has an outcome and has
\* closed its client, but for the cases EndsInOrder names.
THEOREM AgentsAreSound == Spec => []AgentsInv
<1>1. IInv => AgentsInv
  BY DEF IInv, Sound, Ordered, Left, AgentsInv, OneCommand, EndsInOrder
<1>2. QED
  BY <1>1, Invariance, PTL
=============================================================================
