------------------------------ MODULE ChatTurn ------------------------------
(* A turn of conversation: POST /v1/chat, the tool loop it drives, the      *)
(* approval gate, and the expert that a tool call may delegate to, which    *)
(* runs the same loop inside the tool.                                      *)
(*                                                                         *)
(* A loop runs its tool as a task of its own and waits beside it: when the  *)
(* client goes away the loop ends, the task does not.                       *)
EXTENDS Naturals, Sequences, FiniteSets, SequencesExt

CONSTANTS
  Turns,          \* requests
  Server,         \* tools of connectors with executor "server"
  Remote,         \* tools of connectors that the client on the Mac executes
  Risky,          \* those of either kind with requires_approval
  Experts,        \* ask_<expert> tools
  Reach,          \* tools in the namespaces of an expert
  MaxIters,       \* tool_loop_max_iters
  ExpertIters,    \* max_iters of an expert
  MaxCalls,       \* bound: calls in one answer of the model
  RecentN,        \* recent_message_window
  MaxPast,        \* bound: messages the session has before the request
  MaxLate,        \* bound: messages other requests add to it meanwhile
  None

ASSUME ChatAssumption ==
  /\ MaxIters \in Nat \ {0}
  /\ ExpertIters \in Nat \ {0}
  /\ {MaxCalls, RecentN, MaxPast, MaxLate} \subseteq Nat
  /\ Risky \cup Reach \subseteq Server \cup Remote
  /\ Server \cap Remote = {}
  /\ Experts \cap (Server \cup Remote) = {}
  /\ None \notin Server \cup Remote \cup Experts

VARIABLES
  stage,      \* where each request stands
  approved,   \* approved_tools of the request
  loop,       \* per request and level: the state of run_tool_loop
  owed,       \* calls in the transcript that have no result there yet
  task,       \* per request and level: the connector's tool that is running
  sink,       \* whose queue ctx.emit_progress puts to
  heard,      \* whether the client has been sent text
  steps,      \* whether tool_steps is not empty
  rows,       \* the messages this request saves
  log,        \* per request: the messages of its session, until the prompt is built
  prompt,     \* per request: the prompt, until the model has it
  ran,        \* history: tools that a connector or the client was asked to run
  asked       \* history: approval_required events

vars == <<stage, approved, loop, owed, task, sink, heard, steps, rows, log, prompt,
          ran, asked>>

Levels == {"chat", "expert"}
Tools == Server \cup Remote \cup Experts
Calls == UNION {[1..n -> Tools] : n \in 0..MaxCalls}
Limit(l) == IF l = "chat" THEN MaxIters ELSE ExpertIters

\* The stages at which the client that goes away ends the request: those of
\* event_stream().  Before, FastAPI runs the handler to its end.
Streaming == {"live", "wrap", "answering", "tracing"}
Final == {"over", "failed", "gone"}

Off == [at |-> "off", pass |-> 0, todo |-> <<>>]
FirstPass == [at |-> "model", pass |-> 1, todo |-> <<>>]

\* What a sequence has at the positions in I, in its order.
Selected(s, I) ==
  [k \in 1..Cardinality(I) |-> s[CHOOSE i \in I : Cardinality({j \in I : j <= i}) = k]]

Row(t, role) == [turn |-> t, role |-> role]

\* Of a message of the session: who wrote it, and whether it is the user's with the
\* words of this request.
Question == [role |-> "user", same |-> TRUE]
Messages == [role : {"user", "assistant", "tool"}, same : {FALSE}] \cup {Question}

TypeOK ==
  /\ stage \in [Turns -> {"idle", "posted", "saved", "prompted"} \cup Streaming \cup Final]
  /\ approved \in [Turns -> SUBSET Risky]
  /\ loop \in [Turns -> [Levels ->
                 [at : {"off", "model", "calls", "tool"},
                  pass : 0..MaxIters \cup 0..ExpertIters,
                  todo : Seq(Tools)]]]
  /\ owed \in [Turns -> [Levels -> Seq(Tools)]]
  /\ task \in [Turns -> [Levels -> Server \cup {None}]]
  /\ sink \in [Turns -> Levels \cup {None}]
  /\ heard \in [Turns -> BOOLEAN]
  /\ steps \in [Turns -> BOOLEAN]
  /\ rows \in Seq([turn : Turns, role : {"user", "assistant", "tool"}])
  /\ log \in [Turns -> Seq(Messages)]
  /\ prompt \in [Turns -> Seq(Messages)]
  /\ ran \subseteq [turn : Turns, level : Levels, tool : Server \cup Remote]
  /\ asked \subseteq [turn : Turns, tool : Risky]

Init ==
  /\ stage = [t \in Turns |-> "idle"]
  /\ approved = [t \in Turns |-> {}]
  /\ loop = [t \in Turns |-> [l \in Levels |-> Off]]
  /\ owed = [t \in Turns |-> [l \in Levels |-> <<>>]]
  /\ task = [t \in Turns |-> [l \in Levels |-> None]]
  /\ sink = [t \in Turns |-> None]
  /\ heard = [t \in Turns |-> FALSE]
  /\ steps = [t \in Turns |-> FALSE]
  /\ rows = <<>>
  /\ log = [t \in Turns |-> <<>>] /\ prompt = [t \in Turns |-> <<>>]
  /\ ran = {} /\ asked = {}

-----------------------------------------------------------------------------
(* Before the stream: chat()                                               *)

\* The session the request names, if it is this user's, or a new one.
Sessions == UNION {[1..n -> Messages] : n \in 0..MaxPast}

Post(t) ==
  /\ stage[t] = "idle"
  /\ \E ok \in SUBSET Risky : approved' = [approved EXCEPT ![t] = ok]
  /\ \E found \in Sessions : log' = [log EXCEPT ![t] = found]
  /\ stage' = [stage EXCEPT ![t] = "posted"]
  /\ UNCHANGED <<loop, owed, task, sink, heard, steps, rows, prompt, ran, asked>>

\* The embedder may have failed: the row then has no vector.
SaveQuestion(t) ==
  /\ stage[t] = "posted"
  /\ rows' = Append(rows, Row(t, "user")) /\ log' = [log EXCEPT ![t] = Append(@, Question)]
  /\ stage' = [stage EXCEPT ![t] = "saved"]
  /\ UNCHANGED <<approved, loop, owed, task, sink, heard, steps, prompt, ran, asked>>

\* Another request in the same session saves what it has.
OtherSaves(t) ==
  /\ stage[t] = "saved" /\ Len(log[t]) <= MaxPast + MaxLate
  /\ \E msg \in Messages : log' = [log EXCEPT ![t] = Append(@, msg)]
  /\ UNCHANGED <<stage, approved, loop, owed, task, sink, heard, steps, rows, prompt, ran,
                 asked>>

\* recent_window(): the last of what the two have said to each other.
Recent(msgs) ==
  LET spoken == Selected(msgs, {i \in DOMAIN msgs : msgs[i].role # "tool"})
  IN  IF Len(spoken) <= RecentN THEN spoken
      ELSE SubSeq(spoken, Len(spoken) - RecentN + 1, Len(spoken))

\* build_messages(): the history, then the question.
Prompt(history) == Append(history, Question)

\* Fault: the newest message of the window is taken to be the question.
BuildPromptDropsNewest(t) ==
  /\ stage[t] = "saved"
  /\ LET recent == Recent(log[t])
     IN  prompt' = [prompt EXCEPT ![t] =
                      Prompt(IF recent = <<>> THEN recent ELSE SubSeq(recent, 1, Len(recent) - 1))]
  /\ stage' = [stage EXCEPT ![t] = "prompted"]
  /\ UNCHANGED <<approved, loop, owed, task, sink, heard, steps, rows, log, ran, asked>>

\* The question is told from the rest of the window by its words.
BuildPrompt(t) ==
  /\ stage[t] = "saved"
  /\ LET recent == Recent(log[t])
     IN  prompt' = [prompt EXCEPT ![t] =
                      Prompt(Selected(recent, {i \in DOMAIN recent : recent[i] # Question}))]
  /\ stage' = [stage EXCEPT ![t] = "prompted"]
  /\ UNCHANGED <<approved, loop, owed, task, sink, heard, steps, rows, log, ran, asked>>

\* The loop makes its first pass, on a context that carries this request's
\* approvals.
StartLoop(t) ==
  /\ stage[t] = "prompted"
  /\ stage' = [stage EXCEPT ![t] = "live"]
  /\ loop' = [loop EXCEPT ![t]["chat"] = FirstPass]
  /\ log' = [log EXCEPT ![t] = <<>>] /\ prompt' = [prompt EXCEPT ![t] = <<>>]
  /\ UNCHANGED <<approved, owed, task, sink, heard, steps, rows, ran, asked>>

-----------------------------------------------------------------------------
(* The loop, at either level                                               *)

\* The top level sends client tools to the client; experts have none.
IsClientTool(l, x) == l = "chat" /\ x \in Remote

ServerCalls(l, calls) == Selected(calls, {i \in DOMAIN calls : ~ IsClientTool(l, calls[i])})

\* What event_stream() makes of the loop's events: text and the calls of client
\* tools go to the client, those calls and the results to the trace.  Nothing asks
\* whether a client tool needs approval.
Forward(t, text) == heard' = [heard EXCEPT ![t] = @ \/ text]
ClientCalls(t, l, calls) ==
  LET out == {i \in DOMAIN calls : IsClientTool(l, calls[i])}
  IN  /\ steps' = [steps EXCEPT ![t] = @ \/ out # {}]
      /\ ran' = ran \cup {[turn |-> t, level |-> l, tool |-> calls[i]] : i \in out}
StepNoted(t, l) == steps' = IF l = "chat" THEN [steps EXCEPT ![t] = TRUE] ELSE steps

\* Level l's tool has returned: the loop that waits for it records the result
\* and takes the progress channel down.
Resulted(t, l, lp) ==
  /\ loop' = [lp EXCEPT ![t][l].at = "calls", ![t][l].todo = Tail(@)]
  /\ owed' = [owed EXCEPT ![t][l] = Tail(@)]
  /\ sink' = [sink EXCEPT ![t] = None]
  /\ StepNoted(t, l)

\* run_subagent() has returned or raised: its text, or the exception, is the
\* result of the call that delegated to it, if anyone still waits for it.
ExpertEnds(t) ==
  LET ended == [loop EXCEPT ![t]["expert"] = Off]
  IN  /\ IF loop[t]["chat"].at = "tool"
           THEN Resulted(t, "chat", ended)
           ELSE loop' = ended /\ UNCHANGED <<sink, steps>> /\ owed' = owed
      /\ UNCHANGED stage

ChatEnds(t, next) ==
  /\ loop' = [loop EXCEPT ![t]["chat"] = Off]
  /\ stage' = [stage EXCEPT ![t] = next]
  /\ UNCHANGED <<owed, sink>>

\* A pass without server calls is the last one; client calls go out and are
\* not waited for.
Answers(t, l) ==
  /\ loop[t][l].at = "model"
  /\ \E calls \in Calls, text \in BOOLEAN :
       /\ ServerCalls(l, calls) = <<>>
       /\ \/ /\ l = "chat"
             /\ ChatEnds(t, "wrap")
             /\ Forward(t, text)
             /\ ClientCalls(t, l, calls)
          \/ /\ l = "expert"
             /\ ExpertEnds(t)
             /\ UNCHANGED <<heard, ran>>
  /\ UNCHANGED <<approved, task, rows, log, prompt, asked>>

\* Fault: the client's calls are written to the transcript with the others.
CallsToolsRecordsAll(t, l) ==
  /\ loop[t][l].at = "model"
  /\ \E calls \in Calls, text \in BOOLEAN :
       LET server == ServerCalls(l, calls)
       IN  /\ server # <<>>
           /\ loop' = [loop EXCEPT ![t][l].at = "calls", ![t][l].todo = server]
           /\ owed' = [owed EXCEPT ![t][l] = calls]
           /\ Forward(t, text /\ l = "chat")
           /\ ClientCalls(t, l, calls)
  /\ UNCHANGED <<stage, approved, task, sink, rows, log, prompt, asked>>

\* A pass with server calls: they, and only they, enter the transcript.
CallsTools(t, l) ==
  /\ loop[t][l].at = "model"
  /\ \E calls \in Calls, text \in BOOLEAN :
       LET server == ServerCalls(l, calls)
       IN  /\ server # <<>>
           /\ loop' = [loop EXCEPT ![t][l].at = "calls", ![t][l].todo = server]
           /\ owed' = [owed EXCEPT ![t][l] = server]
           /\ Forward(t, text /\ l = "chat")
           /\ ClientCalls(t, l, calls)
  /\ UNCHANGED <<stage, approved, task, sink, rows, log, prompt, asked>>

\* The provider fails once its keys and retries are used up: an error event,
\* or, inside an expert, the result of the tool call.
ModelFails(t, l) ==
  /\ loop[t][l].at = "model"
  /\ \/ l = "chat" /\ ChatEnds(t, "failed") /\ UNCHANGED steps
     \/ l = "expert" /\ ExpertEnds(t)
  /\ UNCHANGED <<approved, task, heard, rows, log, prompt, ran, asked>>

\* Fault: the cap counts only the passes of the top level.
NextPassUncapped(t, l) ==
  /\ loop[t][l].at = "calls" /\ loop[t][l].todo = <<>>
  /\ \/ /\ loop[t][l].pass < Limit(l) \/ l = "expert"
        /\ loop' = [loop EXCEPT ![t][l].at = "model",
                               ![t][l].pass = IF l = "expert" THEN @ ELSE @ + 1]
        /\ UNCHANGED <<stage, owed, sink, steps>>
     \/ /\ loop[t][l].pass = Limit(l) /\ l = "chat"
        /\ ChatEnds(t, "wrap") /\ UNCHANGED steps
  /\ UNCHANGED <<approved, task, heard, rows, log, prompt, ran, asked>>

\* All results are in: another pass, or the cap is reached.
NextPass(t, l) ==
  /\ loop[t][l].at = "calls" /\ loop[t][l].todo = <<>>
  /\ \/ /\ loop[t][l].pass < Limit(l)
        /\ loop' = [loop EXCEPT ![t][l].at = "model", ![t][l].pass = @ + 1]
        /\ UNCHANGED <<stage, owed, sink, steps>>
     \/ /\ loop[t][l].pass = Limit(l)
        /\ \/ l = "chat" /\ ChatEnds(t, "wrap") /\ UNCHANGED steps
           \/ l = "expert" /\ ExpertEnds(t)
  /\ UNCHANGED <<approved, task, heard, rows, log, prompt, ran, asked>>

-----------------------------------------------------------------------------
(* Tools                                                                   *)

Due(t, l, x) == loop[t][l].at = "calls" /\ loop[t][l].todo # <<>> /\ x = Head(loop[t][l].todo)

\* A server tool the router of this level can reach at all.
Available(l, x) == x \in Server /\ (l = "expert" => x \in Reach)

\* Registry.invoke(), through which both levels go; the top level has asked
\* the same question before, to raise ApprovalRequiredError.
Permitted(t, x) == x \in Risky => x \in approved[t]

\* Fault: the gate is left to the orchestrator, which experts do not pass.
InvokeUngated(t, l, x) ==
  /\ Due(t, l, x) /\ Available(l, x) /\ (l = "chat" => Permitted(t, x))
  /\ loop' = [loop EXCEPT ![t][l].at = "tool"]
  /\ task' = [task EXCEPT ![t][l] = x]
  /\ sink' = [sink EXCEPT ![t] = l]
  /\ ran' = ran \cup {[turn |-> t, level |-> l, tool |-> x]}
  /\ UNCHANGED <<stage, approved, owed, heard, steps, rows, log, prompt, asked>>

\* Fault: the progress channel is set up once, for the first tool of a pass.
InvokeKeepsSink(t, l, x) ==
  /\ Due(t, l, x) /\ Available(l, x) /\ Permitted(t, x)
  /\ loop' = [loop EXCEPT ![t][l].at = "tool"]
  /\ task' = [task EXCEPT ![t][l] = x]
  /\ sink' = IF steps[t] /\ l = "chat" THEN sink ELSE [sink EXCEPT ![t] = l]
  /\ ran' = ran \cup {[turn |-> t, level |-> l, tool |-> x]}
  /\ UNCHANGED <<stage, approved, owed, heard, steps, rows, log, prompt, asked>>

Invoke(t, l, x) ==
  /\ Due(t, l, x) /\ Available(l, x) /\ Permitted(t, x)
  /\ loop' = [loop EXCEPT ![t][l].at = "tool"]
  /\ task' = [task EXCEPT ![t][l] = x]
  /\ sink' = [sink EXCEPT ![t] = l]
  /\ ran' = ran \cup {[turn |-> t, level |-> l, tool |-> x]}
  /\ UNCHANGED <<stage, approved, owed, heard, steps, rows, log, prompt, asked>>

\* At the top level the client is asked; an expert only gets a text.
AskApproval(t, l, x) ==
  asked' = IF l = "chat" THEN asked \cup {[turn |-> t, tool |-> x]} ELSE asked

Block(t, l, x) ==
  /\ Due(t, l, x) /\ Available(l, x) /\ ~ Permitted(t, x)
  /\ Resulted(t, l, loop)
  /\ AskApproval(t, l, x)
  /\ UNCHANGED <<stage, approved, task, heard, rows, log, prompt, ran>>

\* ask_<expert>, with an empty task answered at once.
Delegate(t, x) ==
  /\ Due(t, "chat", x) /\ x \in Experts
  /\ \/ /\ loop' = [loop EXCEPT ![t]["chat"].at = "tool", ![t]["expert"] = FirstPass]
        /\ sink' = [sink EXCEPT ![t] = "chat"]
        /\ UNCHANGED <<owed, steps>>
     \/ Resulted(t, "chat", loop)
  /\ UNCHANGED <<stage, approved, task, heard, rows, log, prompt, ran, asked>>

\* An expert asks for what is not in its namespaces.
Refuse(t, l, x) ==
  /\ Due(t, l, x) /\ l = "expert" /\ ~ Available(l, x)
  /\ Resulted(t, l, loop)
  /\ UNCHANGED <<stage, approved, task, heard, rows, log, prompt, ran, asked>>

\* A tool returns or raises.  Nobody may be waiting any more.
ToolEnds(t, l) ==
  /\ task[t][l] # None
  /\ task' = [task EXCEPT ![t][l] = None]
  /\ IF loop[t][l].at = "tool"
       THEN Resulted(t, l, loop)
       ELSE UNCHANGED <<loop, owed, sink, steps>>
  /\ UNCHANGED <<stage, approved, heard, rows, log, prompt, ran, asked>>

-----------------------------------------------------------------------------
(* After the loop: the rest of event_stream()                              *)

\* Fault: a turn in which tools ran is taken to have said enough.
WrapQuiet(t) ==
  /\ stage[t] = "wrap"
  /\ heard' = [heard EXCEPT ![t] = @ \/ ~ steps[t]]
  /\ stage' = [stage EXCEPT ![t] = "answering"]
  /\ UNCHANGED <<approved, loop, owed, task, sink, steps, rows, log, prompt, ran, asked>>

\* No text in any pass: the fallback is said.
Wrap(t) ==
  /\ stage[t] = "wrap"
  /\ heard' = [heard EXCEPT ![t] = TRUE]
  /\ stage' = [stage EXCEPT ![t] = "answering"]
  /\ UNCHANGED <<approved, loop, owed, task, sink, steps, rows, log, prompt, ran, asked>>

\* The embedder or the database may fail: the answer is then not kept.
SaveAnswer(t) ==
  /\ stage[t] = "answering"
  /\ rows' \in {rows, Append(rows, Row(t, "assistant"))}
  /\ stage' = [stage EXCEPT ![t] = "tracing"]
  /\ UNCHANGED <<approved, loop, owed, task, sink, heard, steps, log, prompt, ran, asked>>

SaveTrace(t) ==
  /\ stage[t] = "tracing"
  /\ rows' \in {rows} \cup (IF steps[t] THEN {Append(rows, Row(t, "tool"))} ELSE {})
  /\ stage' = [stage EXCEPT ![t] = "over"]
  /\ UNCHANGED <<approved, loop, owed, task, sink, heard, steps, log, prompt, ran, asked>>

\* Fault: the loop takes the cancellation for a failure of the tool.
HangupMidTool(t) ==
  /\ stage[t] \in Streaming
  /\ stage' = [stage EXCEPT ![t] = "gone"]
  /\ IF loop[t]["chat"].at = "tool"
       THEN Resulted(t, "chat", loop)
       ELSE /\ loop' = [loop EXCEPT ![t]["chat"] = Off]
            /\ UNCHANGED <<owed, sink, steps>>
  /\ UNCHANGED <<approved, task, heard, rows, log, prompt, ran, asked>>

\* The client disconnects: the stream is cancelled, the tool it waits for,
\* an expert included, is not.
Hangup(t) ==
  /\ stage[t] \in Streaming
  /\ stage' = [stage EXCEPT ![t] = "gone"]
  /\ loop' = [loop EXCEPT ![t]["chat"] = Off]
  /\ sink' = IF loop[t]["chat"].at = "tool" THEN [sink EXCEPT ![t] = None] ELSE sink
  /\ UNCHANGED <<approved, owed, task, heard, steps, rows, log, prompt, ran, asked>>

-----------------------------------------------------------------------------

Level(t, l) ==
  \/ Answers(t, l) \/ CallsTools(t, l) \/ ModelFails(t, l) \/ NextPass(t, l)
  \/ ToolEnds(t, l)
  \/ \E x \in Tools : Invoke(t, l, x) \/ Block(t, l, x) \/ Refuse(t, l, x)

Work(t) ==
  \/ SaveQuestion(t) \/ BuildPrompt(t) \/ StartLoop(t) \/ Wrap(t) \/ SaveAnswer(t) \/ SaveTrace(t)
  \/ \E x \in Experts : Delegate(t, x)
  \/ \E l \in Levels : Level(t, l)

Next == \E t \in Turns : Post(t) \/ OtherSaves(t) \/ Work(t) \/ Hangup(t)

Spec == Init /\ [][Next]_vars

\* The model answers or fails and tools return: both have timeouts.
FairSpec == Spec /\ \A t \in Turns : WF_vars(Work(t))

-----------------------------------------------------------------------------
(* Properties                                                              *)

\* A server tool that needs approval runs only in a request whose user named it,
\* whoever calls it, an expert or a loop the user has walked away from included;
\* what the user is asked about has not run.  Experts keep to the server tools in
\* their namespaces.  A client tool is not covered, though it may need approval
\* too: the loop sends it out without a question (agent_loop.py:202).
ApprovedOnly ==
  \A r \in ran :
    /\ r.tool \in Risky \ Remote => r.tool \in approved[r.turn]
    /\ r.level = "expert" => r.tool \in Reach \ Remote
    /\ [turn |-> r.turn, tool |-> r.tool] \notin asked

\* "Every tool_call has a matching tool result (providers reject mismatches)":
\* whenever a pass is made, at either level and after blocked, refused and
\* failed calls too, nothing in the transcript lacks its result.
ResultsMatchCalls ==
  \A t \in Turns, l \in Levels :
    /\ loop[t][l].at = "model" => owed[t][l] = <<>>
    /\ loop[t][l].at \in {"calls", "tool"} => owed[t][l] = loop[t][l].todo

\* A tool the user waits for narrates to the loop that waits for it, although
\* an expert's loop has used the same context in between.
NarrationHeard ==
  \A t \in Turns, l \in Levels :
    stage[t] = "live" /\ task[t][l] # None => sink[t] = l

\* A turn that comes to its end has said something, and no answer is kept that
\* the user was not given (chat.py: "A turn must never end in silence").
NeverSilent ==
  /\ \A t \in Turns : stage[t] = "over" => heard[t]
  /\ \A i \in DOMAIN rows : rows[i].role = "assistant" => heard[rows[i].turn]

\* Once the user has gone the top level starts nothing more: what still runs
\* is one tool, or one expert to its end.
NothingNewOnceGone ==
  [][\A t \in Turns : stage[t] \in Final =>
       /\ task'[t]["chat"] \in {task[t]["chat"], None}
       /\ loop[t]["expert"].at = "off" => loop'[t]["expert"].at = "off"]_vars

\* Every request comes to an end, with all it has started.
Quiet(t) ==
  /\ stage[t] \in Final
  /\ loop[t]["expert"].at = "off"
  /\ \A l \in Levels : task[t][l] = None
TurnEnds == \A t \in Turns : stage[t] # "idle" ~> Quiet(t)

\* The prompt holds the question once, at its end, and before it whatever else the
\* two have said of late, in its order, also when others write to the session at
\* the same time; only a window that is full leaves anything out.
PromptSound ==
  \A t \in Turns : stage[t] = "prompted" =>
    LET n == Len(prompt[t])
        history == SubSeq(prompt[t], 1, n - 1)
        spoken == Selected(log[t], {i \in DOMAIN log[t] : log[t][i].role # "tool"})
        others == Selected(spoken, {i \in DOMAIN spoken : spoken[i] # Question})
    IN  /\ prompt[t][n] = Question
        /\ IsSuffix(history, others)
        /\ history = others \/ Len(spoken) > RecentN

-----------------------------------------------------------------------------
(* Together                                                                *)

\* The loops of a turn: each call has its result, each wait its narration.
LoopInv == TypeOK /\ ResultsMatchCalls /\ NarrationHeard

\* What the model is asked and what the user is answered.
ConversationHolds == NeverSilent /\ PromptSound
=============================================================================
