# A formal model of Scrappy

TLA+ modules for the parts of this repository whose correctness depends on the
order in which things happen, the TLC configurations that check them on small
instances, and proofs, checked by TLAPS, for instances of every size.

    tlc -workers 2 -config WorkerBridge.cfg MCWorkerBridge     # a run
    tlapm WorkerBridgeProofs.tla                               # the proofs of a module

Every definition is translated from the code under `src/`; `PROJECT.json` names
the lines each stands for. Operators commented `Fault:` are deliberate mistakes.
They are used by nothing but the test of the properties: each property of a run
is violated when the definition after the mistake is replaced by it.

## 1. The system

Scrappy is a personal assistant. One server process (FastAPI, one asyncio event
loop, Postgres or SQLite and optionally Redis behind it; `railway.toml` deploys
one replica) holds conversations with a language model and its tools. A second
program, `scrappy worker`, runs on the user's Mac and executes what the server
asks it to. Small listeners on the Mac speak, listen and watch the browser. The
companion `mini` is a program of its own on a device or, through links, a page
of the server for other people.

| Component | State | Operations | Correct if | Module |
|---|---|---|---|---|
| **Worker bridge** `core/worker/bridge.py`, `apps/api/routers/worker.py`, worker loop in `apps/cli` | a queue of commands, a table of pending futures, the time the worker was last seen; all in memory | `submit` with a timeout, long poll, result, milestone | every caller gets the output of its own command, at most once, or a failure; commands are not run twice; nothing leaks; nothing waits for ever | `WorkerBridge`, `RemoteCall` |
| **Goal ledger** `core/goals`, `routers/goals.py` | one database row with all goals and tasks; a manager lock, a tick lock | ensure the primary goal, add a task, move a task or a goal, a tick that asks the model for the next task | one open goal; no lost update; nothing planned under a goal that is paused, over or busy; operators never blocked by the model | `GoalLedger` |
| **Self-modification** `core/identity/{propose,apply,self_guard,restart}.py`, the `self` connector | the Mac's git checkout (branches, main, the tag last-good), the kill switch, the restart marker | propose, apply, roll back, freeze | main is tested code, on its way back to it, or where a kill or a failed reset left it; the guard decides what is merged; a script runs at most once | `SelfModify`, `MainLog` |
| **API key pool** `core/util/keypool.py` and its three clients | a position, cooldowns and quotas per key, a mirror in Redis | lease, rate-limited, rejected, quota headers, hydrate | a usable key is used if there is one; what is learned is recorded on the right key; restarts remember | `KeyPool` |
| **Presence** `core/presence`, `routers/presence.py`, `mac_agent/presence_listener.py` | a queue of events, an outbox of utterances, 4096 remembered ids, the watcher's last observation | post an event, decide, deliver, watch the worker | an event is accepted and spoken at most once; reports of the worker alternate and come | `Presence` |
| **Chat turn, agent loop, gate** `routers/chat.py`, `core/brain/agent_loop.py`, `core/connectors/registry.py`, `core/agents` | the prompt and the transcript, the approved tools, the progress channel of the request's context, the rows of the session | build the prompt, model pass, tool call, nested expert, approval, save, disconnect | no server tool that needs approval runs without it, at either level; each call has its result; the prompt is the conversation; no turn ends in silence | `ChatTurn` |
| **Terminal agents** `core/terminal_agent`, `routers/agents.py` | up to 100 agents in memory with their logs; streams | spawn, run a command on the worker or the server, cancel, follow | one final state; cancel is final; whoever follows learns the end | `TerminalAgents` |
| **Memory** `core/memory`, `routers/memory.py`, and what writes through it | a table of texts with embeddings | remember, save, seed, awaken, consolidate, mine, forget, search, page | no copy of what was there to see; export and import see all; an answer is the best | `Memory` |
| **Vault** `core/vault`, `routers/vault.py`, `apps/cli/continuity.py` | bundles, capsules and the encrypted file on disk, temporary directories | export, import, publish, back up, restore, verify, ingest a conversation | what is read back, sealed or restored is one whole bundle; no private text stays | `Vault` |
| **Companion and tenants** `core/companion`, `apps/mini`, `routers/mini.py` | profiles and voiceprints, sessions and facts in SQLite, an engine's open sessions and locks, a database per link | chat, recognise, enrol, answer aloud, reset, forget, onboard and delete a link | one session per person; a profile is one person's; forgetting forgets | `Companion` |
| **Voice loop** `mac_agent/{voice_loop,vad}.py` | recorder, tasks that fetch audio, a player's queue, a barge-in detector, the session file | listen, stream, speak, interrupt, run a tool | everything is said once or dropped for good; never deaf for ever; one conversation, as long as its session is neither forgotten nor lost | `VoiceLoop` |
| **Reply stream** `core/brain/llm.py`, `cli/render.py`, `core/companion/emotion_stream.py` | buffers of the parsers on a reply's way | parse calls, frame, print lines, pop phrases, unquote | what is shown does not depend on where the stream was cut | `ReplyStream` |
| API process, other routers and commands, connectors, speech services, browser watcher, acceptance probes, identity text, configuration, front end, infrastructure | | | | section 7 |

How they meet: a chat turn's loop calls the **connectors** through the
registry's gate; the terminal, coder and `self` connectors, and terminal agents,
`submit` to the **bridge**; the loop, agents and ticks of the **goal ledger** ask
the model through the **key pool**, whose answers are the **reply stream**; ticks
announce tasks through **presence**; the presence watcher reads the **bridge**'s
liveness stamp; everything remembered goes to **memory**, from where the **vault**
exports; the **voice loop** is a client of the chat turn.

What is hard: coroutines interleave at every `await`, with state read before it
and used after it; `wait_for`, `cancel()` and `set_result()` may hit in one
iteration of the loop; tasks outlive the request that started them; the network
loses requests, replies and whole long polls; timeouts end the wait and not the
work; the process restarts and most state with it; files are written one by one
over older ones; threads of the voice loop share a queue; queues are bounded and a
full one either blocks or drops; a stream is cut anywhere. `PROJECT.json` lists
these hazards at their lines, with the properties that watch them.

## 2. Plan

`RemoteCall` (abstract) and `WorkerBridge`, which implements it; `GoalLedger`, whose
`SerialLedger` is the ledger without its locks; `SelfModify` over the promise of `RemoteCall`,
which implements `MainLog` (abstract); `KeyPool`; `Presence`; `ChatTurn`; `TerminalAgents`, over
the same promise; `Memory`; `Vault`; `Companion`; `VoiceLoop`; `ReplyStream`. Each has
one run.

The safety properties of all but the last are proved, and of the last the one about its
parser (section 5). The proofs of `Memory` are in `ChatTurnProofs`, those of `Vault` in
`SelfModifyProofs`, those of `VoiceLoop` in `PresenceProofs` and those of `ReplyStream` in
`KeyPoolProofs`, behind those of the module they are named after; that is why these four name
their specifications `MemorySpec`, `VaultSpec`, `VoiceSpec` and `StreamSpec`.

What could come next: the folds of `ReplyStream`'s consumers as recursive functions, as its
parser is, so that `InOrder` can be proved stage by stage; the connectors' retries; the web
routers' streams of voice.

## 3. Modules and code

An action is what the code does between two awaits, or what the other side does
in one step that can be told apart. The `MC` modules say what the instance is;
those of `SelfModify`, `KeyPool`, `Memory`, `Vault` and `Companion`, whose runs check no
liveness, add a symmetry.

**`RemoteCall`** is what a caller of `submit()` may rely on: `Call`, at most one
`Execute`, and then `Answer` with that command's own output, or `Fail`; a command
may still be executed after its call has failed.

**`WorkerBridge`** has three parts. On the server, `queue` is `_queue`, `pending`
the keys of `_pending`, `future` and `output` the futures, `caller` where each
coroutine in `submit()` stands. `Submit` runs to the await; `TimerFires`,
`Cancel`, `HandleResult`, `Return`, `TimeOut` and `Unwind` are separate because
asyncio schedules the wake-up of a coroutine apart from what causes it: a result
can arrive for a caller whose timer has already hit, and the reverse.
`Interrupt` and `Leave` are the two halves of the `try`/`finally`. `ghosts` are
long polls whose client has gone and whose handlers still take from the queue.
On the worker, `stage`, `hand` and `ran` are the serve loop of `apps/cli`. `mail`
is the network: results and milestones are lost or handled in any order.
`Restart` is a new server process.

**`GoalLedger`**: `ledger` is the row. A manager operation is `Load` (lock, read,
decide), then `Save`, or `Refuse`; `Results` is what the five operations of
`GoalManager` make of a ledger, empty for a `ValueError`. A tick, of the loop or
of an operator who asks for a plan, is `BeginTick`, `EnterTick` (its lock),
`ChooseGoal`, `CheckUnresolved`, then `Propose` or `ProposeFails` when the model
answers, then the manager operation, `Announce`. Its reads are not under the
manager's lock, as in the code. `Crash` leaves only the row; `start()` runs before
anything else.

**`SelfModify`**: a request goes through `Apply`, `DiffAnswered` or `DiffLost`
(with `Guard`, the verdict of `check_change` on whatever text came back),
`ScriptAnswered` or `ScriptTimesOut`, and `Audited`, the memory of the change.
Its script goes through `Tag`, `Merge`, `MergeFails`, `TestsPass`, `TestsFail`,
`Reset`, one shell command each, with `Kill` in between; a rollback is
`RollbackRuns`. Two commands have their status discarded: a tag that cannot be set is
the other branch of `Tag`, a reset that fails is `ResetFails`. The bridge appears by its
promise: a script runs at most once, perhaps after its request has given up. A branch is
the set of commits in its history (`work`), so that its diff (`News`) and what its merge
brings depend on what main has at that moment. `MainLog` is what all of it amounts to for
the repository: a log that grows by one change for each attempt to set its mark and
otherwise goes back to it. A merge is an entry in `main` that records which request,
branch and revision, and the commits it brought. `known` (the states whose tests passed,
or that a kill or a failed reset left) and `untagged` (tags missed) are history.

**`KeyPool`**: `client` is whose pool it is; the three differ in `Tries`. `Send` is
`lease()` with `Selected` for `_select_idx_locked`; `RateLimited`, `Rejected`,
`Answered` and `Broken` are the ends of a try, with `CoolDown` and
`UpdateFromHeaders` for what they record; `Restart` hydrates from what Redis was
told, which `missed` remembers that it was not. Cooldowns are counted down in ticks, of
which `Second` make a second; Redis is told, and tells, whole ones (`Seconds`, `Told`). Two
keys whose cooldowns are over are a tie that the code decides by which ended
first; the model leaves it open.

**`Presence`**: `Post` and `Watch` are the two ways into `submit()`, `PutEnds` the
end of a `put()` that had to wait, `Decide` one turn of `_run`, `Take`, `Say`,
`SayFails`, `Leave` and `GhostEnds` the listener and its long poll. `age` is the
bridge's liveness stamp. The score of an event is reduced to whether it is worth
speaking.

**`ChatTurn`**: `stage` is where the request is between its arrival and its rows.
`log` and `prompt` are the messages of the session and what `BuildPrompt` makes of
them while other requests add to it. `loop` is `run_tool_loop`, once for the chat
and once for an expert inside one of its tool calls: `Answers`, `CallsTools`,
`ModelFails` end a pass, `Invoke`, `Block`, `Delegate` and `Refuse` deal with the
call that is due, `Permitted` is the gate. `ran` has what was executed, and the
Mac's tools that were sent out, before which there is no gate. `task` is the tool, a task of its own,
which `Hangup` (the client goes away) does not end; `sink` is the one
`ctx.emit_progress` both loops set. The state of a turn is per request and the
database adds rows, so one turn with `OtherSaves` beside it stands for many.

**`TerminalAgents`**: `at` is the await at which an agent's task is suspended;
`Cancel` sets the outcome at once and `Thrown` is the `CancelledError` that
arrives later. `cmds` are commands under way, tasks that no cancellation reaches.
`Stored` drops the oldest agent. A stream (`tail`) is `Replay`, `Started`, `Wakes`
(it copies what is new), `Slice`, `Drain`, and `HangUp` when its reader goes away;
`Turn` is the loop's test for the end.

**`Memory`**: `rows` is the table. The writers are the requests `Remember`, `Save`,
`AddMemory`, `RememberBuild`, `Seed`, `Awaken`, `Consolidate` (and the miner after it),
`Import`; `Check` and `Store` are the two statements with the embedder between them. `Scan`,
`Merge` and `ReadPage` page by offset, an export until it is `Capped`. `saw`, `moved` and
`missed` are history. `Search` is a function of the table and of what the embeddings score,
on both stores, against `Ranking`, what a search is for: sorting is `Ranked`, the rows in
the order in which `Ahead` puts them, older rows first among equals, and `LIMIT` is `Best`.
`Pack` is how much of an answer a model is given.

**`Vault`**: files hold generations, so that mixtures can be told. `Open` and `Close` write
one file of a bundle or a public capsule in the code's order, `Read` reads one back in its
order; `Downloaded`, `Stage`, `EncryptFile` make a backup and `DecryptPrivateCapsule`,
`Verify`, `ImportVaultArchive` undo it. `Fails` and `Killed` come between any two. `Walk`
follows the parents of an exported conversation from its current message, over every tree,
loops included. `Memory` has the tables on both sides.

**`Companion`**: a step is a statement of SQLite or an await; requests of the web
and utterances at the device carry what they have listed or looked up, which may
be stale. `open` and `locks` are each engine's cache; `SessionFor`, `LockedOpens`,
`Locked`, `Opens` and `OpenSession` are `_session_for` with its two looks and the
eviction of locks. `Reset` deletes in the code's order, `Forget` and `WipeAll` are
the command's. `link` is a person's link: `Onboard`, `Deprovision`, and
`DeprovisionCut`, a crash between the row and the files; a link has a database of
its own, so one suffices. `dropped`, `gone`, `unheard` and `blends` are history.

**`VoiceLoop`**: `Frame` and `GiveUp` are the recorder's counts; `Session`, `Token`,
`Announce`, `ToolCall`, `Done`, `Broken` the events of a reply, after `TurnBegins` and
`Understood`; `Synth` and `SynthFails` a phrase's task; `Get`, `SetBusy`, `Play`, `Over` the
player's thread statement by statement, and `PlayFails` its end when there is no player to
start; `Interrupt`, `Discard` (item by item) and `StopCurrent` what it races with. `Session`
is the server's: it keeps the session that was sent if it has it (`Remembered`), and opens another if
not; `lost` has those that it has forgotten (`Redeploy`) or whose name nobody has, because
they were opened for a request that failed or were not in the file at a stop. `Return` and
`Save` are the two halves of the write of that file; `Kill` and `Dies` end the program between
any two steps and where exceptions are not caught, and `StartAgain` reads the file.

**`ReplyStream`**: `Chunk` is a delta of any length. `Feed` is the parser of calls in the
text, `Turns` its loop, of which `Turn` takes one marker, and `Rest` its end, which holds
back what may begin one; `Flush` is its end of the stream, `passed` the history of what it
was given and let through; `Frame` and `ReadLine` the event stream, `Feeds` and
`Flushes` the terminal's lines, `PopPhrases` and `SpeaksRest` the voice, `Quoted`
and `Parses` the companion's JSON. `Promised` is the same done on the whole reply at
once: the reference definition. Letters stand for what a stage matches whole.

## 4. Runs

Several invariants of one module are checked as the conjunction under
"Together" at its end.

| Run | Instance | What it shows |
|---|---|---|
| `WorkerBridge` | 2 commands (one streams), 2 workers (one may stop at any time), 1 abandoned poll | `BridgeInv`: `PendingIsAwaited`, `OneHolder`, `Lifecycle`; `NarratedWhileOpen`; the bridge implements `RemoteCall` (`KeepsPromise`); `BridgeSettles`: every `submit()` returns, and with a worker that stays no command waits for ever |
| `GoalLedger` | 1 operator and the loop, 2 goals, 2 tasks | `LedgerInv`: `AtMostOneOpenGoal`, `NoStaleSave`, `OneTick`; `PlansOnlyWhenDue`; `WritesHold`: `SerialLedger`, `NothingUndone`; `LedgerSettles`: operators are served without anything assumed of the model, ticks end if it answers or fails |
| `SelfModify` | 2 applies and 1 rollback, 1 branch with 2 revisions | `RepoInv`: `LastGoodIsBehind`, `MainIsGreen`; `MergesAreGuarded`: `MergesOnce`, `GuardHolds`; it implements `MainLog` (`KeepsLog`) |
| `KeyPool` | 2 calls of any client, 3 keys of which one works, 1 spare try, lost Redis writes | `LeasesHold`: `LeaseIsBest`, `OwnKeyOnly`; `GoodKeyServes`; `PoolInv`: `RestartRemembers` |
| `Presence` | 2 posters, 2 events, 2 listeners, capacities of 1 | `PresenceInv`: `AcceptedOnce`, `AtMostOnce`; `ReportsAlternate`; `PresenceSettles`: `QueueDrains`, `WatcherKnows` |
| `ChatTurn` | 1 request, 2 earlier messages and 1 late one, 3 passes of up to 2 calls, an expert of 2 passes | `LoopInv`: `ResultsMatchCalls`, `NarrationHeard`; `ApprovedOnly`; `ConversationHolds`: `NeverSilent`, `PromptSound`; `NothingNewOnceGone`; `TurnEnds` |
| `TerminalAgents` | 2 agents in a store for 1, 2 passes, 1 watcher | `AgentsInv`: `OneCommand`, `EndsInOrder`; `CancelSticks`; `AgentsSettle`: `AgentEnds`, `FollowEnds` |
| `Memory` | 2 callers, 2 requests, 2 texts of which one looks like a secret, pages of 1, exports of up to 3 rows, 1 deletion | `MemoryInv`: `NoSecondCopy`, `KnownIsThere`; `ExportComplete`; `AnswerIsRanked` |
| `Vault` | 2 processes, 2 requests, every conversation of 3 messages | `DiskInv`: `ReadsBack`, `FirstManifest`, `VerifiedIsOneCapsule`, `PlaintextGoes`; `BackupHolds`: `BackupVerifies`, `RestoreIsWhole`; `ActiveBranch` |
| `Companion` | 2 requests at a time, 3 in all, 2 people, 3 profiles, 1 lock kept | `CompanionInv`: `OneSession`, `NoLostSample`; `GoneForGood`; `OwnVoice` |
| `VoiceLoop` | 2 turns of 2 phrases, barge-in, utterances of up to 2 frames, any number of stops, new starts and redeployments of the server | `PlayerInv`: `SaysItAll`, `Hushed`, `FilesGo`; `OneConversation`; `TurnEnds` |
| `ReplyStream` | every reply up to the lengths in `MCReplyStream`, cut everywhere | `ShownInv`: `InOrder`, `NothingEaten`, `LinesKept`, `CallsKept`; `CutAnywhere` |

Every first group has the module's type invariant. Deadlock is checked in the
first five, that of `SelfModify` included, whose environment always can do something; the
others stop when their requests are over.

### Bounds, and why they are enough

- *Commands and workers (2, 2)*: work-stealing, a dropped result and a command
  behind another all need two commands and two takers; one abandoned poll is a
  third taker. A command's budget is 1 tick, its slack 0; time passes at any moment
  (`Prompt` is FALSE).
- *Goals, tasks (2, 2)*: a second goal to open, a second task to plan beside one
  that is made ready again. One operator and the loop are two actors that can
  both tick and both write; the proofs are for any number of operators. `Asked`
  leaves out the task states that behave as one that is in it.
- *Requests (3), revisions (2)*: two scripts in one checkout; a branch that changes
  between diff and merge; a protected commit that one request merges, a rollback takes
  back while another's scoped revision on top of it has passed the guard, and that one's
  merge brings in again, which takes three.
- *Keys (3)*: see `GoodKeyServes` below. `Short` and `Long` are 1 and 3 ticks, a
  `Second` 2: a 429's cooldown is over before a rejection's, the one is rounded up to a
  second and the other down to one.
- *Presence*: queues of length 1 are full at once; `SeenMax` 2 displaces ids;
  `MaxLog` and `MaxChanges` bound what one process accepts and reports;
  `MaxGhosts` the abandoned polls.
- *A chat turn*: one tool of each kind (free, needing approval, an expert, the Mac's that needs
  approval too); two calls in a pass, so that one can be blocked before the other; three passes,
  so that there is one between the first and the capped one; `RecentN` 2 with two earlier
  messages and one late one, so that the window is full and not full.
- *Agents (2), capacity 1*: the second displaces the first, whatever it is doing.
  Two passes: one that goes on and one at the cap.
- *Memory*: two callers overlap in every pair of kinds, each on a table of up to two rows of
  either text to begin with; a page of one row has a next page as soon as there are two, and one
  deletion shifts it; an export stops at its third row. `K` 2 with `Fanout` 2 cuts both the
  candidates and the answer; similarities -1 to 3 lie below, at and above the floor, which is
  positive, as the setting is.
- *Vault*: two processes write, read, back up and restore over what the other left;
  trees of three messages have a fork, a chain, a loop and two roots.
- *Companion*: three requests are what a lost update, a reset and one who comes
  back need; one lock kept is displaced by the second person.
- *Voice*: two phrases overtake each other, two turns show what the first leaves to the
  second, its session included. An utterance ends by its quiet frame or by its length. Stops
  and new starts need no bound: what a stop leaves is the file, and turns are counted on.
- *Replies*: the alphabets hold, for each stage, all that it tells apart; the tags are
  short but begin alike, as `<function=` and `</function>` do, so that every partial
  match occurs.

`GoodKeyServes` is conditional. A call that records a refusal late sets the pool back to
the key it had, for all calls, and those may do the same again. How the calls stand
before a key that works is `Standings`: how many of them are at least 1, 2, ... keys short
of it. There are (keys - 2 + calls) choose (calls) such standings, and none comes twice.
A call that has more tries than that is not exhausted. With two calls that is
keys * (keys - 1) / 2: three for the three keys of the instance, which has four tries,
and the language model's own client five; with four keys it is six, and that client
has six, which is one too few (section 6). With three calls and four keys it is
ten; TLC, tried on that instance, finds that ten tries are indeed not enough and eleven
are.

### Fairness

- `WorkerBridge` (`LoopSpec`): the clock and the event loop go on, so a scheduled
  step of a coroutine is taken. `QueueServed` assumes more, in the property itself
  (`WorkerFairness`): a worker that is not mortal reconnects, polls and finishes
  its commands, as its loop does; a poll that keeps meeting a queued command takes
  one in the end (strong fairness: its window would have to close in the very same
  iteration every time).
- `GoalLedger` (`ManagerSpec`): `asyncio.Lock` wakes its waiters in order, and a save
  that began ends. The model may never answer. `TickEnds` assumes, in the
  property, that it answers or fails (`TickFairness`): `httpx` has a timeout.
- `Presence` (`FairSpec`): the decision loop, the watcher and a put that finds room
  are run. Nothing of clients, listeners or the worker. `put()` lets a post that
  comes just as room appear pass those that wait, so `QueueDrains` relies on
  posting to let up, which `MaxLog` makes it do.
- `ChatTurn` (`FairSpec`): a request that can go on does. The model and the tools end
  by their timeouts; nothing is assumed of the client, nor of other requests.
- `TerminalAgents` (`FairSpec`): an agent's task is run, a command ends by its timeout,
  a stream is read on or left. Nothing makes anybody cancel, attach or leave.
- `VoiceLoop` (`Fairness`): the microphone delivers frames, the server's events and
  the audio come within their timeouts, a sound has an end, threads run. A tool on the
  Mac has no timeout and nothing is assumed of it: `TurnEnds` excepts a turn that it
  holds, one whose player's thread has died with phrases in the queue, and a program
  that has ended, which nobody is assumed to start again.
- `SelfModify`, `Memory`, `Vault`, `Companion`, `ReplyStream`: safety only. That a request of
  `SelfModify` is answered is the bridge's timeout, which `CallerSettles` is about.

## 5. Proofs

The proof modules hold for every value of the constants under the assumption that each model
names: that `None` and its like are not members of the sets they stand beside, that limits
are natural numbers (those of queues, passes and pages at least 1, and the recorder keeps no
more before speech than it records), that the sets that are counted are finite (`Callers` of
`KeyPool`, `Clients` and `Listeners` of `Presence`, `Nodes` of `Vault`), that a tool of
`ChatTurn` has one executor (the server, the Mac or an expert), that the cooldown of a
rejected key lasts a second at least, and that replies and markers are sequences of letters,
the markers not empty.

| Theorem | States |
|---|---|
| `WorkerBridgeProofs!Invariance` | `[]BridgeInv`, the run's invariant, which is inductive |
| `TypeCorrectness`, `PendingCorrectness`, `WorkStealingIsSafe` | its parts `[]TypeOK`, `[]PendingIsAwaited`, `[]OneHolder` |
| `NarrationStopsWithResult` | `NarratedWhileOpen` |
| `BridgeIsRemoteCall` | `Spec => KeepsPromise`: the bridge implements `RemoteCall` |
| `GoalLedgerProofs!Invariance` | the inductive invariant of the ledger |
| `LedgerIsSafe` | `[]LedgerInv`, the run's invariant |
| `TypeCorrectness`, `PrimaryGoalIsUnique`, `SavesAreCurrent`, `TicksExclude` | its parts `[]TypeOK`, `[]AtMostOneOpenGoal`, `[]NoStaleSave`, `[]OneTick` |
| `PauseHolds`, `NoLostUpdate` | `PlansOnlyWhenDue`, `NothingUndone` |
| `WritesAreSerial`, `WritesAreSafe` | `Spec => SerialLedger`: the locks implement an atomic ledger; `WritesHold` |
| `SelfModifyProofs!RepoIsSafe`, `MergesAreSafe` | `[]RepoInv`, `[]MergesAreGuarded`: last-good behind a main that is known, merges once and as guarded |
| `MainIsALog`, `RollbackUndoesFew` | `Spec => KeepsLog`: main implements `MainLog`; main is ahead of last-good by one merge and one more for each tag that could not be set |
| `DirectoriesAreSound`, `BackupsHold` | `VaultSpec => []DiskInv`, `[]BackupHolds` |
| `TurnsAreActiveBranch` | `VaultSpec => []ActiveBranch`, for conversations of any size and shape |
| `KeyPoolProofs!PoolIsKept`, `LeasesAreOwn` | `[]PoolInv`, `LeasesHold`: what restarts remember, the best key, the right key |
| `WorkingKeyServes` | `[]GoodKeyServes`, for any number of calls and keys |
| `CutsDoNotMatter` | `StreamSpec => []CutAnywhere`, for any replies and any two markers |
| `PresenceProofs!PresenceIsSafe`, `ReportsBothWays` | `[]PresenceInv`, `[]ReportsAlternate` |
| `PlayerIsSafe`, `OneConversationKept` | `VoiceSpec => []PlayerInv`, `[]OneConversation`, for any number of stops, new starts and deployments |
| `ChatTurnProofs!GateHolds` | `[]ApprovedOnly`: the gate holds for the server's tools, on both paths |
| `LoopsAreSound`, `Conversation` | `[]LoopInv`, `[]ConversationHolds` |
| `QuietOnceGone` | `NothingNewOnceGone` |
| `TableIsKept`, `ExportsAreComplete`, `AnswersAreRanked` | `MemorySpec => []MemoryInv`, `[]ExportComplete`, `[]AnswerIsRanked` |
| `TerminalAgentsProofs!CancellationSticks`, `AgentsAreSound` | `[]CancelSticks`, `[]AgentsInv` |
| `CompanionProofs!Forgotten`, `VoicesAreOwn` | `[]GoneForGood`, `[]OwnVoice` |
| `CompanionIsSound` | `[]CompanionInv`: one session, every sample weighed |

*Bridge.* `BridgeInv` is `TypeOK`, `PendingIsAwaited`, `OneHolder` and `Lifecycle`
together. `OneHolder` alone is not inductive: that a queued command has never been
started needs the order of a command's life, which is `Lifecycle` (nothing is
queued before it is called, a worker only holds what was called, only started
commands have results in the mail). The two lemmas `AppendFresh` and its
counterpart for `Tail` are all that is used of sequences. The refinement maps each
step of `Next` to `Call`, `Execute`, `Answer`, `Fail` or a stutter; `Restart` is a
`Fail` of every open call at once.

*Ledger.* The inductive invariant adds `LockInv` (who is saving holds the lock, and
nobody else is) and `HandInv` (what an actor carries from one step of a tick to the
next) to the properties. The lemmas `ResultTypes`, `ResultOneOpen`, `ResultDue` and
`ResultUndoesNothing` say of each manager operation what it may make of a
ledger; `NoStaleSave` carries them from `Load` to `Save`; crashes drop the
drafts and keep the row. From there the action properties follow. So does `SerialLedger`:
that a draft was made from the row as it is makes each save one operation on that row, and
everything else a stutter.

*Self-modification.* `MainIsGreen` and `LastGoodIsBehind` do not carry themselves: that a
failed script leads back to known code needs that nothing else moves main meanwhile
(`OneScript`) and that what the tag points to, wherever it was last set, is known
(`WaysBackAreKnown`). That a request merges once needs `SentOnce` and `HasMerged`; that
the guard's verdict is about what is merged, `GuardIsCurrent`: as long as the branch is at
the revision that was shown, all it has beyond the main of that diff is in scope, and
the commits that a merge brings are among those if main still has what it had.
`FewBehind` counts main against the tag: at most one ahead and one more for each tag
missed, and one fewer before the merge, so that a merge extends the log as `MainLog` wants
it; every reset goes back to the mark.

*Key pool.* `PoolInv` needs the types, what a call in each place has, and that
rounding a cooldown to seconds, there and back, moves it by less than one (`SecondsAreNear`,
`ToldIsNear`), which the passing of time does not widen. `LeaseIsBest`
is about a step: for each state of the pool, `SendLeasesBest` shows that what `Selected`
finds is as good as any key. `WorkingKeyServes` is an argument of progress by counting.
The invariant `Serving` says that a call has used up no more tries than there are
standings that are gone. `Nearer` orders standings by the farthest distance at which
they differ: a refusal that sets the pool back takes other calls back only over
distances shorter than that of its own key, from which it has itself gone. So every
refusal moves the standing strictly nearer (`RefusalNears`), nothing but a restart, which
ends all calls, moves it back (`StandingNears`), and a call is sent to a key only nearer
(`SendNears`).

*Presence.* `AtMostOnce` is proved for sets of events: `Conserved` adds up what is in the
queue, the outbox, the hands of posters and the hands of listeners, and what was spoken,
and bounds it by what was accepted; each step moves one event or drops some. `AcceptedOnce`
needs that what is remembered is the end of the log (`SeenIsEnd`). `NotesReport` ties the
watcher's last observation to its last report.

*Chat turn.* `Nested` says which of the two levels may run, wait or hold a task in each
stage of the request, and whose the progress channel is then; with `Waits` it gives
`LoopInv`. `Gated` is `ApprovedOnly` with the stage at which approvals become known. What is
selected from a sequence is treated in lemmas (`Numbered` to `SelectedEnd`), from which
`PromptSound` follows for every window. `MCChatTurn` has TLC compare `Selected` with
`SelectSeq`.

*Terminal agents.* `CancelSticks` needs that a cancellation that was thrown can only end the
task (`Cancelled`); `AgentsInv` that a command under way belongs to a task that waits for it
or was cancelled (`Ordered`), and how an agent may have left off (`Left`).

*Companion.* `GoneForGood` is a part of `Owned`: every profile, session and fact belongs to
a user, and whoever is gone is none; a statement that writes for a user who has gone
meanwhile fails. `OwnVoice` needs that whoever a request took the speaker to be
is one whose voice that profile holds as long as it exists (`Voiceprints`). `OneSession` rests on the
lock: who waits for it has the lock that is in the table, unless the entry was
evicted (`Waiting`), two do not open at once (`Alone`), and a session of an engine is
in its cache or about to be (`Tracked`). What a request works for exists, or is about to be made by
that request alone (`Working`), on which `NoLostSample` rests.

*Memory.* The invariant is of the table, whose rows have ids of their own, and of each
caller by itself (`Good`): which work stands where (`Shaped`); that what is about to be
written is in no row that its writer had reason to know (`Unseen`); that an import knows the
texts of the rows it has read, and only texts that are there (`Knows`); that a pager has
read, of the rows there were when it began, those its offset has passed, which rows written
meanwhile leave true and only deletions do not (`Paged`); that an export's rows stay and are
in the end what it has read, or the newest of it when it is `Capped` (`Exports`). What one
caller does is for every other an append, a deletion or nothing. `AnswerIsRanked` is about a
function of the table and of any scores. `Ahead` orders the rows strictly (`AheadOrder`), so
every row has a place (`EveryPlace`); what is as good as what is kept is kept, so that
cutting the ranking and dropping what lies below the floor commute up to a beginning of the
ranking (`RankedBegins`, `FloorAfterCut`), which is why SQLite's order of the two gives a
beginning and Postgres' gives all of it.

*Vault.* `VaultInv` has five parts. `BundleInv` says how far an export has written a directory
that nobody else writes, and what its manifest then means; `PublicInv` the same of the one
capsule in the making; `PlainInv` where private text may be as long as nobody was killed;
`SealInv` what a process carries at each stage of a backup or a restore, each of which
is a capsule of one generation; `TypesInv` that each stage has the files it needs.
The branch is a walk that ends because each step either sees a message for the first time
or stops: what it has seen is `n` messages after `n` steps (`WalkGoes`), of a finite set, and closed
towards the parents when it stops, while `Ancestors` is the least closed set.

*Voice loop.* Of `VoiceInv`, `Placed` says that a phrase is in one place, being fetched, in
the queue or in the player's hand, and that the files are those of these; `Heardly` that what
is still to sound has neither sounded nor been taken away; `Tracked` where each phrase
of a whole turn can be at each stage; `Knowns` that all of them were said; `Flow`, `Unheard` and
`Counting` the types and what each stage implies; `Conversations` that of the sessions which the server has and may be asked for there
is only the one that is held. `PlayerInv` is in `Placed`, `Heardly` and `Tracked`.

*Reply stream.* `CutAnywhere` says that feeding is the same in one piece or in many. A turn
that finds its marker finds the same one with more text behind it (`FirstCat`, `TurnMore`),
so it can be made before the text arrives (`TurnsMore`); where nothing is found, what is let
go is too early to begin a marker with what comes (`HeldIsEnough`), and having let it go
does not change the turn that finds one (`TurnMoved`, `RestMoved`). What was let through
before stays before what is let through now (`FeedSay`). The invariant is the property with
the types; the loop ends because each turn takes a letter at least (`Settles`).

Induction over numbers is used in the form that a set of numbers with 0 and with each number
the next has them all (`EveryNumber`), which follows from the least number; from it recursive
functions of numbers are shown to exist (`Iterates`) and are reasoned about.

Only model-checked:

- liveness (`BridgeSettles`, `LedgerSettles`, `PresenceSettles`, `AgentsSettle`
  and both `TurnEnds`, of the chat turn and of the voice loop), which TLAPS does not reach;
- `ShownInv` of `ReplyStream`, whose stages behind the parser are folds and selections of
  sequences; what these compute for every sequence needs an induction whose predicate is an
  operator, which the provers cannot instantiate.

## 6. Where the code and its documentation differ

Seen while modelling. The models have these behaviours, or leave out the data they
are about, as said; the properties are stated so that they hold beside them, and no run is made
to show one.

*Bridge and self-modification*

- `bridge.py:127-128`: the caller's timeout starts in the queue, so behind a busy
  worker it ends before the worker has had the command's budget.
- `bridge.py:69` counts a worker as online that was seen within 60 s; the stamp starts
  at 0.0 on a clock that starts at boot, so on a machine up for less a worker counts
  that was never seen (`Fresh` with `Young`).
- `apply.py:140-143`: whatever text the bridge returns passes for the list of changed
  paths: timeouts, git's errors, output cut at 4096 characters; and the branch may
  change before the merge. `tests/test_self_apply.py:179-186` expects an empty diff to
  be refused; the worker turns empty output into "(no output)", which passes.
- `self_guard.py:4-12`: the freeze switch is read before the wait for the diff only.
- `apply.py:219-220`, "Main is unchanged": the script may still run, or be running.
- `self_mod/connector.py:105-106`: a later attempt that did not complete has moved the
  tag (`apply.py:51`), so the rollback leaves the applied change on main.
- `apply.py:51` discards the status of the tag: when it cannot be set the script merges
  with the old one, and a later reset or rollback takes off more than the last change.
- `apply.py:57` discards the status of the reset and prints APPLY_ROLLED_BACK whatever it
  was; `apply.py:217` then tells the caller that the change was undone, with main red.
- `apply.py:168` diffs against main as it is then. A rollback between the diff and the
  merge takes commits off main that the branch has and the guard was not shown: the
  merge brings them back, protected files included (`GuardHolds` excepts it).
- A restart during the audit memory (`apply.py:201`) leaves an applied change without
  the restart marker.
- `coder/builder.py` takes a site for opened whenever `submit()` returns, which it does
  with text for a timeout too.

*Keys*

- `keypool.py:5-6` means to survive exhausted quotas by rotating: with four keys two
  calls are enough for one of them to give up without having tried the key that
  works; the embedder and the transcriber, which have no spare try, with three.
- `keypool.py:10` gives a rejected key an hour; a 429 recorded later, by a call that
  held the same key, replaces it by seconds.
- `keypool.py:19-20` writes cooldowns "with TTLs matching the actual cooldown duration":
  in whole seconds, rounded down (158), so that a restart may end one almost a second early,
  and one of less than a second late.

*Chat, experts, agents*

- `chat.py:109-112`: "`requires_approval` tools are blocked server-side unless named here",
  and `test_approval_gate.py:3-4` names `mac.run_applescript` as one that "must never
  execute" otherwise. It is a client tool (`mac_control/connector.py:142-143`);
  `agent_loop.py:202-207` sends it out without asking the gate, and the voice loop runs it
  unasked, since its `APPROVAL_REQUIRED` is empty (`voice_loop.py:62`, 365). `ClientCalls`
  has it, with such a tool in the instance; `ApprovedOnly` is about the server's tools.
- `chat.py:177` drops every earlier user message with the question's words from the
  prompt, not only the one just saved.
- `chat.py:110-111` promises an `approval_required` event; a call that an expert has
  blocked (`runner.py:88`) comes back as text only.
- `terminal/connector.py:76-81`, "Never let that happen silently": reported at the
  spawn only; a later command goes to the server's container unannounced when the worker
  has gone.
- `routers/agents.py:82`: entries logged while a slice is sent are skipped (66, 104).
- `terminal_agent/agent.py`: a cancellation during the search of memory leaves the
  client open; a directory that cannot be made leaves "running" for ever;
  a cancellation while the client is being closed overwrites a finished answer.

*Reply stream*

- A stream that ends without a finish reason or `[DONE]` never flushes the parser of
  calls, whose tail and calls are lost; ids of calls in the text repeat in every pass.
- The companion's parser decodes a surrogate pair into two lone surrogates;
  a blank rest leaves the terminal's continuation indent set.

*Memory and vault*

- `consolidator.py:54` takes a Postgres pool whatever the store is, though
  `procedural.py:11-13` says both work.
- `sqlite_store.py:396` claims parity with Postgres' floor, but ranks before it;
  `semantic.py:88` has the same ranking only while candidates suffice. With a floor of 0
  or less SQLite applies none (399), while Postgres still drops what lies below it.
- After a change of the embedding model rows cannot be found, but count as duplicates.
- `memory.save`, the console and the coder check neither for copies nor for secrets, and
  one such row refuses every export (409). An export ends at 50,000 rows
  (`export.py:129`) without a word; `ExportComplete` says which.
- `bootstrap.py`: when the first birth memory cannot be written, the next awakening writes
  the others again; when others cannot, they never are.
- `scripts/seed_memory.py:47` has an aggregate in `RETURNING`, which Postgres refuses, so
  `--wipe` fails.
- `import_.py:137-138` resolves an identity against nothing and discards it, though the
  report (34) and `docs/VAULT_PROTOCOL.md:116` count it as applied.
  `list_recent_messages` exists on no store, so episodes are always empty. Use counts
  are dropped, though `export.py:10` says that nothing else is.
- `bundle.py:118`, "Manifest last: its presence means the rest is fully written": not over
  an older bundle in the same directory, which is the default one (`FirstManifest` is
  about the first). The encrypted backup too is written straight over the older one.

*Companion*

- The device compares voiceprints of both encoders, which differ in length, though
  `mini.py` says that they cannot be compared; the error ends its loop. A device whose only
  profile is the web's anonymous one routes everybody to it.
- `PUT /profile` may rename the web's sentinel profile; concurrent first requests make
  two of it, concurrent recognitions with learning two profiles of a person.
- An evicted session lock may have waiters; a client that leaves while its session is being
  opened leaves a session no engine keeps; a reset leaves profiles enrolled meanwhile.
- `mini.py:1042` deletes a tenant's row, then its files: after a crash between the two
  the same name gets the old file back, and a second deletion is answered with 404.

*Voice*

- `voice_loop.py:709-711` means to report an error status of the chat and to go on: the text
  of a stream that was not read cannot be had, httpx raises, `main` (840) does not catch it
  and the program ends (`Dies`).
- When `afplay` cannot be started (207) the player's thread is over (`PlayFails`); the
  next `drain` with something in the queue waits for ever.
- `write_text` (828) empties the session file before it writes: a stop between the two loses
  the conversation (`Return`, `Save`).
- Phrases are fetched at once and played in the order in which they arrive, though the
  module's text says sequentially. After a barge-in, tasks under way are still waited
  for and played; a barge-in is noticed at the next event only, not while the queue
  drains (`vad.py:105`) nor while a tool of the Mac runs.
- The drain may return, and an interruption may miss a phrase, between the player's
  `get()` and its `_busy.set()`.
- A tool of the Mac has no timeout and may hold the loop for ever.
- `TabWatcher.stop` does not wait for the poll under way; a change whose report fails is
  never reported again.

## 7. Not modelled

- A second server process on the same database: `railway.toml` has one replica.
  Two would have two manager locks.
- The children of a killed shell, which may go on in the checkout, or hold its pipe
  open: commands end at their timeout (`Finish`), scripts at `Kill`.
- Workers beyond one in `SelfModify`: the checkout is one machine's.
- A list of keys that changes between deployments: Redis keeps cooldowns by position.
- `SqliteConnection` opens its file with the first statement: a request that resolved its
  engine before the deletion of a link and made its first statement after it would
  write to a new file; `Companion` ends it.
- Text: objectives, steps, utterances, diffs, personas, Markdown, scores and embeddings
  are data that no property tells apart beyond the cases the modules name. Ciphers,
  speech recognition, voiceprints and signal processing are numeric and external.
- Transcripts and traces of tools, which are appended and listed only; pruning and migration,
  run by hand; an import's dry run, which writes nothing. Of the continuity commands, those that
  only print.
- Connectors: each call goes through to a service; their one shared mechanism is the
  gate, which `ChatTurn` has. The browser watcher has no state beyond its last post.
- Acceptance probes check the text of the source; identity modules describe it.
- The API process (its start and end are `Restart` and `Crash`), configuration, the web
  front end and infrastructure hold no state of their own that changes.
