--------------------------- MODULE TerminalAgents ---------------------------
(* Terminal agents: background tasks that let a model run shell commands on *)
(* the Mac's worker, or in the server's container; their registry; and the  *)
(* streams through which the console follows them.                         *)
(*                                                                         *)
(* A command is a call of the bridge (RemoteCall) or a subprocess with a    *)
(* timeout: it ends, one way or another, and it is a task of its own, which *)
(* cancelling the agent does not reach.                                    *)
EXTENDS Naturals, Sequences, SequencesExt

CONSTANTS
  Agents,
  Watchers,
  Capacity,      \* AgentStore._MAX
  MaxIters,      \* passes of the model, 10
  None

ASSUME TerminalAssumption ==
  /\ Capacity \in Nat \ {0}
  /\ MaxIters \in Nat \ {0}
  /\ None \notin Agents

VARIABLES
  status,      \* TerminalAgent.status, or "unborn"
  result,
  at,          \* where the agent's task is suspended
  cancelling,  \* Task.cancel() was called and the task has not run since
  client,      \* own_llm
  pass,        \* passes of the model so far
  cmds,        \* commands of the agent that are running
  log,         \* entries in the agent's log
  store,       \* AgentStore._agents, oldest first
  stopped,     \* history: cancel() has returned True
  tail         \* a stream: its agent, its phase, the slice it sends

vars == <<status, result, at, cancelling, client, pass, cmds, log, store, stopped, tail>>

agentVars == <<status, result, at, cancelling, client, pass, cmds, log>>

Live == {"pending", "running"}

Idle == [agent |-> None, phase |-> "off", next |-> 1, upto |-> 0]

TypeOK ==
  /\ status \in [Agents -> {"unborn", "done", "error"} \cup Live]
  /\ result \in [Agents -> {"none", "answer", "failure", "cancelled"}]
  /\ at \in [Agents -> {"new", "preamble", "model", "tool", "closing", "over"}]
  /\ cancelling \in [Agents -> BOOLEAN]
  /\ client \in [Agents -> {"none", "open", "closed"}]
  /\ pass \in [Agents -> 0..MaxIters]
  /\ cmds \in [Agents -> Nat]
  /\ log \in [Agents -> Nat]
  /\ store \in Seq(Agents) /\ Len(store) <= Capacity
  /\ stopped \in [Agents -> BOOLEAN]
  /\ tail \in [Watchers -> [agent : Agents \cup {None},
                            phase : {"off", "replay", "start", "sleep", "slice", "drain", "ended"},
                            next : Nat \ {0}, upto : Nat]]

Init ==
  /\ status = [a \in Agents |-> "unborn"]
  /\ result = [a \in Agents |-> "none"]
  /\ at = [a \in Agents |-> "over"]
  /\ cancelling = [a \in Agents |-> FALSE]
  /\ client = [a \in Agents |-> "none"]
  /\ pass = [a \in Agents |-> 0]
  /\ cmds = [a \in Agents |-> 0]
  /\ log = [a \in Agents |-> 0]
  /\ store = <<>>
  /\ stopped = [a \in Agents |-> FALSE]
  /\ tail = [w \in Watchers |-> Idle]

-----------------------------------------------------------------------------
(* The registry, the connector and the console                             *)

\* The oldest makes room, whatever it is doing.
Stored(a) ==
  LET all == Append(store, a)
  IN  IF Len(all) > Capacity THEN Tail(all) ELSE all

\* The memory handles are passed on, or None.
Born(a) ==
  /\ status[a] = "unborn"
  /\ status' = [status EXCEPT ![a] = "pending"]
  /\ at' = [at EXCEPT ![a] = "new"]
  /\ store' = Stored(a)
  /\ UNCHANGED <<result, cancelling, client, pass, cmds, log, stopped>>

\* From a chat: the answer names the machine on which commands would run now.
Spawn(a) == Born(a) /\ UNCHANGED tail

\* From the console, which follows the log from its beginning.
SpawnAndStream(w, a) ==
  /\ tail[w].phase = "off"
  /\ Born(a)
  /\ tail' = [tail EXCEPT ![w] = [Idle EXCEPT !.agent = a, !.phase = "start"]]

\* DELETE /v1/agents/{id}: not for an agent the store has dropped, and without
\* effect on one whose task is done.  Bound: once before the task runs again.
Cancel(a) ==
  /\ Contains(store, a)
  /\ at[a] # "over" /\ ~ cancelling[a]
  /\ cancelling' = [cancelling EXCEPT ![a] = TRUE]
  /\ status' = [status EXCEPT ![a] = "error"]
  /\ result' = [result EXCEPT ![a] = "cancelled"]
  /\ log' = [log EXCEPT ![a] = @ + 1]
  /\ stopped' = [stopped EXCEPT ![a] = TRUE]
  /\ UNCHANGED <<at, client, pass, cmds, store, tail>>

-----------------------------------------------------------------------------
(* The agent's task                                                        *)

Runs(a, where) == at[a] = where /\ ~ cancelling[a]

\* To the first await: the search of memory for the system prompt.
Begin(a) ==
  /\ Runs(a, "new")
  /\ status' = [status EXCEPT ![a] = "running"]
  /\ client' = [client EXCEPT ![a] = "open"]
  /\ at' = [at EXCEPT ![a] = "preamble"]
  /\ UNCHANGED <<result, cancelling, pass, cmds, log, store, stopped, tail>>

\* makedirs() raises, outside the try: the task ends and the status stays.
NoDirectory(a) ==
  /\ Runs(a, "new")
  /\ status' = [status EXCEPT ![a] = "running"]
  /\ at' = [at EXCEPT ![a] = "over"]
  /\ UNCHANGED <<result, cancelling, client, pass, cmds, log, store, stopped, tail>>

Recalled(a) ==
  /\ Runs(a, "preamble")
  /\ at' = [at EXCEPT ![a] = "model"]
  /\ pass' = [pass EXCEPT ![a] = 1]
  /\ UNCHANGED <<status, result, cancelling, client, cmds, log, store, stopped, tail>>

\* The model asks for a command: it runs on the Mac if a worker is connected
\* now, else in the server's container.
Command(a) ==
  /\ Runs(a, "model")
  /\ at' = [at EXCEPT ![a] = "tool"]
  /\ cmds' = [cmds EXCEPT ![a] = @ + 1]
  /\ log' = [log EXCEPT ![a] = @ + 1]
  /\ UNCHANGED <<status, result, cancelling, client, pass, store,
                 stopped, tail>>

\* Answered at once: an empty command or an unknown tool, which are not logged,
\* memory's answer, or claude when no worker is connected.
NoCommand(a) ==
  /\ Runs(a, "model")
  /\ at' = [at EXCEPT ![a] = "tool"]
  /\ \E entries \in {0, 2} : log' = [log EXCEPT ![a] = @ + entries]
  /\ UNCHANGED <<status, result, cancelling, client, pass, cmds, store, stopped, tail>>

\* Fault: nobody sees to a command that its agent no longer waits for.
CommandEndsAwaited(a) ==
  /\ cmds[a] > 0 /\ at[a] = "tool"
  /\ cmds' = [cmds EXCEPT ![a] = @ - 1]
  /\ log' = [log EXCEPT ![a] = @ + 1]
  /\ UNCHANGED <<status, result, at, cancelling, client, pass, store, stopped, tail>>

\* Output, or the text of a timeout: logged, also if nobody waits for it.
CommandEnds(a) ==
  /\ cmds[a] > 0
  /\ cmds' = [cmds EXCEPT ![a] = @ - 1]
  /\ log' = [log EXCEPT ![a] = @ + 1]
  /\ UNCHANGED <<status, result, at, cancelling, client, pass, store, stopped, tail>>

Finishes(a, s, r) ==
  /\ status' = [status EXCEPT ![a] = s]
  /\ result' = [result EXCEPT ![a] = r]
  /\ at' = [at EXCEPT ![a] = "closing"]
  /\ log' = [log EXCEPT ![a] = @ + 1]

\* The next pass, or the end of the loop at the cap.
NextPass(a) ==
  /\ Runs(a, "tool") /\ cmds[a] = 0
  /\ \/ /\ pass[a] < MaxIters
        /\ at' = [at EXCEPT ![a] = "model"]
        /\ pass' = [pass EXCEPT ![a] = @ + 1]
        /\ UNCHANGED <<status, result, log>>
     \/ pass[a] = MaxIters /\ Finishes(a, "done", "answer") /\ UNCHANGED pass
  /\ UNCHANGED <<cancelling, client, cmds, store, stopped, tail>>

Concludes(a) ==
  /\ Runs(a, "model")
  /\ Finishes(a, "done", "answer")
  /\ UNCHANGED <<cancelling, client, pass, cmds, store,
                 stopped, tail>>

ModelFails(a) ==
  /\ Runs(a, "model")
  /\ Finishes(a, "error", "failure")
  /\ UNCHANGED <<cancelling, client, pass, cmds, store,
                 stopped, tail>>

\* Fault: _run() settles status and result after the client is closed.
ClosedSettles(a) ==
  /\ at[a] = "closing"
  /\ client' = [client EXCEPT ![a] = "closed"]
  /\ at' = [at EXCEPT ![a] = "over"]
  /\ cancelling' = [cancelling EXCEPT ![a] = FALSE]
  /\ status' = [status EXCEPT ![a] = IF @ = "error" /\ result[a] = "failure" THEN @ ELSE "done"]
  /\ UNCHANGED <<result, pass, cmds, log, store, stopped, tail>>

\* own_llm.aclose() returns.
Closed(a) ==
  /\ Runs(a, "closing")
  /\ client' = [client EXCEPT ![a] = "closed"]
  /\ at' = [at EXCEPT ![a] = "over"]
  /\ UNCHANGED <<status, result, cancelling, pass, cmds, log, store, stopped, tail>>

\* Fault: the loop takes the cancellation for a failure of its tool.
ThrownIntoTool(a) ==
  /\ cancelling[a]
  /\ cancelling' = [cancelling EXCEPT ![a] = FALSE]
  /\ at' = [at EXCEPT ![a] = CASE @ \in {"new", "preamble", "closing"} -> "over"
                               [] @ = "tool" /\ pass[a] < MaxIters -> "model"
                               [] OTHER -> "closing"]
  /\ pass' = [pass EXCEPT ![a] = IF at[a] = "tool" /\ @ < MaxIters THEN @ + 1 ELSE @]
  /\ client' = [client EXCEPT ![a] = IF at[a] = "closing" THEN "closed" ELSE @]
  /\ UNCHANGED <<status, result, cmds, log, store, stopped, tail>>

\* Fault: the client is closed after the try, not in a finally.
ThrownNoFinally(a) ==
  /\ cancelling[a]
  /\ cancelling' = [cancelling EXCEPT ![a] = FALSE]
  /\ at' = [at EXCEPT ![a] = "over"]
  /\ UNCHANGED <<status, result, client, pass, cmds, log, store, stopped, tail>>

\* CancelledError: before the try it ends the task, inside it the client is
\* closed first, and in the finally that is cut short.
Thrown(a) ==
  /\ cancelling[a]
  /\ cancelling' = [cancelling EXCEPT ![a] = FALSE]
  /\ at' = [at EXCEPT ![a] =
              IF @ \in {"new", "preamble", "closing"} THEN "over" ELSE "closing"]
  /\ client' = [client EXCEPT ![a] = IF at[a] = "closing" THEN "closed" ELSE @]
  /\ UNCHANGED <<status, result, pass, cmds, log, store,
                 stopped, tail>>

-----------------------------------------------------------------------------
(* A stream of an agent's log                                              *)

Fresh(a) == [Idle EXCEPT !.agent = a, !.phase = "replay"]

Attach(w, a) ==
  /\ tail[w].phase = "off"
  /\ Contains(store, a)
  /\ tail' = [tail EXCEPT ![w] = Fresh(a)]
  /\ UNCHANGED <<agentVars, store, stopped>>

Follows(w, t) ==
  /\ tail' = [tail EXCEPT ![w] = t]
  /\ UNCHANGED <<agentVars, store, stopped>>

\* Fault: only "done" ends a stream.
TurnDoneOnly(t, next) ==
  IF status[t.agent] # "done"
    THEN [t EXCEPT !.phase = "sleep", !.next = next]
    ELSE [t EXCEPT !.phase = "drain", !.next = next, !.upto = log[t.agent]]

\* A turn of the loop, or a copy of what is left after it.
Turn(t, next) ==
  IF status[t.agent] \in Live
    THEN [t EXCEPT !.phase = "sleep", !.next = next]
    ELSE [t EXCEPT !.phase = "drain", !.next = next, !.upto = log[t.agent]]

\* The replay iterates over the list itself, and meets what is added meanwhile.
Replay(w) ==
  LET t == tail[w]
  IN  /\ t.phase = "replay"
      /\ Follows(w, IF t.next <= log[t.agent] THEN [t EXCEPT !.next = @ + 1]
                                              ELSE Turn(t, t.next))

Started(w) == tail[w].phase = "start" /\ Follows(w, Turn(tail[w], 1))

\* A copy of the new entries is taken.
Wakes(w) ==
  LET t == tail[w]
  IN  /\ t.phase = "sleep"
      /\ Follows(w, [t EXCEPT !.phase = "slice", !.upto = log[t.agent]])

\* The copy is sent; then last = len(agent.log), which has grown meanwhile: what
\* was logged while it was sent is passed over.
Slice(w) ==
  LET t == tail[w]
  IN  /\ t.phase = "slice"
      /\ Follows(w, IF t.next <= t.upto THEN [t EXCEPT !.next = @ + 1]
                                        ELSE Turn(t, log[t.agent] + 1))

Drain(w) ==
  LET t == tail[w]
  IN  /\ t.phase = "drain"
      /\ Follows(w, IF t.next <= t.upto
                      THEN [t EXCEPT !.next = @ + 1]
                      ELSE [t EXCEPT !.phase = "ended"])

\* Whoever watches goes away: interrupted, or after 300 seconds in which nothing
\* was sent.  The agent goes on, and can be watched again.
HangUp(w) ==
  /\ tail[w].phase \notin {"off", "ended"}
  /\ Follows(w, Idle)

-----------------------------------------------------------------------------

Task(a) ==
  \/ Begin(a) \/ NoDirectory(a) \/ Recalled(a) \/ Command(a) \/ NoCommand(a) \/ NextPass(a)
  \/ Concludes(a) \/ ModelFails(a) \/ Closed(a) \/ Thrown(a)

Stream(w) == Replay(w) \/ Started(w) \/ Wakes(w) \/ Slice(w) \/ Drain(w)

Next ==
  \/ \E a \in Agents :
       Spawn(a) \/ Cancel(a) \/ Task(a) \/ CommandEnds(a)
  \/ \E w \in Watchers :
       Stream(w) \/ HangUp(w) \/ \E a \in Agents : Attach(w, a) \/ SpawnAndStream(w, a)

Spec == Init /\ [][Next]_vars

\* The event loop runs what is due, commands and the model have timeouts, and
\* whoever follows reads on or goes away.
FairSpec ==
  /\ Spec
  /\ \A a \in Agents : WF_vars(Task(a)) /\ WF_vars(CommandEnds(a))
  /\ \A w \in Watchers : WF_vars(Stream(w))

-----------------------------------------------------------------------------
(* Properties                                                              *)

\* cancel() returned True: that stays the agent's outcome, at whatever await
\* it was and however its command and its client end.
CancelSticks ==
  \A a \in Agents : stopped[a] => status[a] = "error" /\ result[a] = "cancelled"

\* An agent has one command at a time on the Mac, also when it is cancelled
\* in the middle of one.
OneCommand == \A a \in Agents : cmds[a] <= 1

\* An agent whose task is over has an outcome, and has closed its client:
\* unless its directory could not be made, and unless it was cancelled while
\* it searched its memory.
EndsInOrder ==
  \A a \in Agents : at[a] = "over" /\ status[a] # "unborn" =>
    /\ status[a] \in Live => client[a] = "none" /\ ~ stopped[a]
    /\ client[a] = "open" => stopped[a] /\ pass[a] = 0

\* Every agent ends, with all it has started, evicted ones too, which nobody
\* can cancel any more.
AgentEnds ==
  \A a \in Agents : status[a] = "pending" ~> at[a] = "over" /\ cmds[a] = 0

\* Who follows an agent to its end is told of it; only an agent whose directory
\* could not be made is followed for ever.
FollowEnds ==
  \A w \in Watchers :
    tail[w].phase \in {"replay", "start"} ~>
      \/ tail[w].phase \in {"ended", "off"}
      \/ \E a \in Agents :
           /\ tail[w].agent = a
           /\ at[a] = "over" /\ status[a] \in Live /\ client[a] = "none"

-----------------------------------------------------------------------------
(* Together                                                                *)

\* An agent's commands, and how it leaves off.
AgentsInv == TypeOK /\ OneCommand /\ EndsInOrder

\* Agents end, and so do the streams that follow them.
AgentsSettle == AgentEnds /\ FollowEnds
=============================================================================
