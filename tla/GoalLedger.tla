---------------------------- MODULE GoalLedger ----------------------------
(***************************************************************************)
(* The durable ledger of goals and tasks (core/goals) and the actors that  *)
(* write it: operator requests (apps/api/routers/goals.py) and the         *)
(* initiative loop, whose tick asks a language model for the next task.    *)
(*                                                                         *)
(* The ledger is one row that every write replaces whole: a GoalManager    *)
(* operation loads it, computes a new one and saves that, holding the      *)
(* manager's asyncio.Lock throughout.  A tick reads the ledger several     *)
(* times without the lock and waits for the model in between, so what it   *)
(* has read may be stale when it adds its task.                            *)
(***************************************************************************)
EXTENDS FiniteSets

CONSTANTS Goals,     \* bound: ids for goals
          Tasks,     \* bound: ids for tasks
          Operators, \* concurrent requests to the goals router
          Loop,      \* the initiative loop
          Asked,     \* bound: the task states operators ask for
          None

ASSUME LedgerAssumption ==
  /\ Loop \notin Operators
  /\ None \notin Operators \cup {Loop}
  /\ None \notin Goals

VARIABLES ledger,    \* the stored row
          lock,      \* holder of GoalManager._lock
          tickLock,  \* holder of InitiativeRuntime._tick_lock
          pc,        \* where an actor stands
          op,        \* the manager operation it wants or performs
          draft,     \* the ledger it is about to save
          plan       \* the goal a tick plans for

vars == <<ledger, lock, tickLock, pc, op, draft, plan>>

-----------------------------------------------------------------------------
(* The ledger                                                              *)

Actors == Operators \cup {Loop}

OpenStatus == {"active", "paused"}
GoalStatus == OpenStatus \cup {"completed", "cancelled"}

TERMINAL_TASK_STATES == {"completed", "failed", "cancelled"}
TaskState == {"ready", "active", "blocked"} \cup TERMINAL_TASK_STATES

ALLOWED_TASK_TRANSITIONS ==
  [s \in TaskState |->
     CASE s = "ready"   -> {"active", "blocked", "completed", "failed", "cancelled"}
       [] s = "active"  -> {"ready", "blocked", "completed", "failed", "cancelled"}
       [] s = "blocked" -> {"ready", "failed", "cancelled"}
       [] s = "failed"  -> {"ready", "cancelled"}
       [] OTHER         -> {}]

\* Goals and tasks not created yet are "absent"; "of" is a task's goal.
Ledgers == [status : [Goals -> GoalStatus \cup {"absent"}],
            state  : [Tasks -> TaskState \cup {"absent"}],
            of     : [Tasks -> Goals \cup {None}]]

EmptyLedger == [status |-> [g \in Goals |-> "absent"],
                state  |-> [t \in Tasks |-> "absent"],
                of     |-> [t \in Tasks |-> None]]

Open(l) == {g \in Goals : l.status[g] \in OpenStatus}

Unresolved(l, g) ==
  {t \in Tasks : /\ l.of[t] = g
                 /\ l.state[t] \notin TERMINAL_TASK_STATES \cup {"absent"}}

-----------------------------------------------------------------------------
(* GoalManager: what an operation may save over the ledger l.  The empty   *)
(* set is a refusal (ValueError) or nothing to write.                      *)

EnsurePrimary(l) ==
  IF Open(l) # {} THEN {}
  ELSE {[l EXCEPT !.status[g] = "active"] :
          g \in {h \in Goals : l.status[h] = "absent"}}

\* Fault: the goal was seen active when the tick chose it.
AddTaskUnchecked(l, g) ==
  IF Unresolved(l, g) # {} THEN {}
  ELSE {[l EXCEPT !.state[t] = "ready", !.of[t] = g] :
          t \in {u \in Tasks : l.state[u] = "absent"}}

AddTask(l, g) ==
  IF l.status[g] # "active" \/ Unresolved(l, g) # {} THEN {}
  ELSE {[l EXCEPT !.state[t] = "ready", !.of[t] = g] :
          t \in {u \in Tasks : l.state[u] = "absent"}}

SetTaskState(l, t, s) ==
  IF \/ l.state[t] = "absent"
     \/ s # l.state[t] /\ s \notin ALLOWED_TASK_TRANSITIONS[l.state[t]]
  THEN {}
  ELSE {[l EXCEPT !.state[t] = s]}

\* Fault: a completed or cancelled goal can be resumed.
SetGoalStatusResumes(l, g, s) ==
  IF l.status[g] = "absent" THEN {} ELSE {[l EXCEPT !.status[g] = s]}

SetGoalStatus(l, g, s) ==
  IF \/ l.status[g] = "absent"
     \/ l.status[g] \in {"completed", "cancelled"} /\ s # l.status[g]
  THEN {}
  ELSE {[l EXCEPT !.status[g] = s]}

Operations ==
  [kind : {"ensure"}]
    \cup [kind : {"add"}, goal : Goals]
    \cup [kind : {"task"}, task : Tasks, to : TaskState]
    \cup [kind : {"goal"}, goal : Goals, to : GoalStatus]

Results(o, l) ==
  CASE o.kind = "ensure" -> EnsurePrimary(l)
    [] o.kind = "add"    -> AddTask(l, o.goal)
    [] o.kind = "task"   -> SetTaskState(l, o.task, o.to)
    [] o.kind = "goal"   -> SetGoalStatus(l, o.goal, o.to)
-----------------------------------------------------------------------------
NoOp == [kind |-> "none"]

InTick == {"choose", "check", "propose", "announce"}

TypeOK ==
  /\ ledger \in Ledgers
  /\ lock \in Actors \cup {None}
  /\ tickLock \in Actors \cup {None}
  /\ pc \in [Actors -> {"idle", "want", "saving", "tick"} \cup InTick]
  /\ op \in [Actors -> Operations \cup {NoOp}]
  /\ draft \in [Actors -> Ledgers]
  /\ plan \in [Actors -> Goals \cup {None}]

\* A process begins with start(), which ensures the primary goal before any
\* request is served and before the loop's first tick.
bootPc == [a \in Actors |-> IF a = Loop THEN "want" ELSE "idle"]
bootOp == [a \in Actors |-> IF a = Loop THEN [kind |-> "ensure"] ELSE NoOp]

Init ==
  /\ ledger = EmptyLedger
  /\ lock = None
  /\ tickLock = None
  /\ pc = bootPc
  /\ op = bootOp
  /\ draft = [a \in Actors |-> EmptyLedger]
  /\ plan = [a \in Actors |-> None]

Starting == tickLock # Loop /\ pc[Loop] \in {"want", "saving"}

\* The actor does nothing further: its request is answered, or the loop sleeps.
Rest(a) ==
  /\ pc' = [pc EXCEPT ![a] = "idle"]
  /\ plan' = [plan EXCEPT ![a] = None]
  /\ tickLock' = IF tickLock = a THEN None ELSE tickLock

\* POST /v1/goals/tasks/{id}/state and POST /v1/goals/{id}/status.
Request(a) ==
  /\ a \in Operators
  /\ pc[a] = "idle"
  /\ ~ Starting
  /\ \E o \in Operations :
       /\ \/ o.kind = "task" /\ o.to \in Asked
          \/ o.kind = "goal"
       /\ op' = [op EXCEPT ![a] = o]
  /\ pc' = [pc EXCEPT ![a] = "want"]
  /\ UNCHANGED <<ledger, lock, tickLock, draft, plan>>

\* The operation returns, or raises, leaving the ledger l.  A tick goes on with
\* the goal it ensured, or announces the task it added; all else is at its end.
Finish(a, l, saved) ==
  LET inTick == tickLock = a
      active == {g \in Goals : l.status[g] = "active"}
  IN  /\ op' = [op EXCEPT ![a] = NoOp]
      /\ \/ /\ inTick /\ op[a].kind = "ensure"
            /\ \E g \in active : plan' = [plan EXCEPT ![a] = g]
            /\ pc' = [pc EXCEPT ![a] = "check"]
            /\ UNCHANGED tickLock
         \/ /\ inTick /\ op[a].kind = "add" /\ saved
            /\ pc' = [pc EXCEPT ![a] = "announce"]
            /\ UNCHANGED <<plan, tickLock>>
         \/ /\ ~ (inTick /\ op[a].kind = "ensure" /\ active # {})
            /\ ~ (inTick /\ op[a].kind = "add" /\ saved)
            /\ Rest(a)

\* Fault: the row is read before the lock is taken.
LoadUnlocked(a) ==
  /\ pc[a] = "want"
  /\ \E l \in Results(op[a], ledger) : draft' = [draft EXCEPT ![a] = l]
  /\ lock' = a
  /\ pc' = [pc EXCEPT ![a] = "saving"]
  /\ UNCHANGED <<ledger, tickLock, op, plan>>

\* async with self._lock, store.load(), and the decision what to save.
Load(a) ==
  /\ pc[a] = "want"
  /\ lock = None
  /\ \E l \in Results(op[a], ledger) : draft' = [draft EXCEPT ![a] = l]
  /\ lock' = a
  /\ pc' = [pc EXCEPT ![a] = "saving"]
  /\ UNCHANGED <<ledger, tickLock, op, plan>>

\* The same, when there is nothing to save.
Refuse(a) ==
  /\ pc[a] = "want"
  /\ lock = None
  /\ Results(op[a], ledger) = {}
  /\ Finish(a, ledger, FALSE)
  /\ UNCHANGED <<ledger, lock, draft>>

\* store.save() replaces the row, and the lock is released.
Save(a) ==
  /\ pc[a] = "saving"
  /\ ledger' = draft[a]
  /\ lock' = None
  /\ draft' = [draft EXCEPT ![a] = EmptyLedger]
  /\ Finish(a, draft[a], TRUE)

-----------------------------------------------------------------------------
(* A tick: of the loop, or of POST /v1/goals/plan                           *)

BeginTick(a) ==
  /\ pc[a] = "idle"
  /\ ~ Starting
  /\ pc' = [pc EXCEPT ![a] = "tick"]
  /\ UNCHANGED <<ledger, lock, tickLock, op, draft, plan>>

\* Fault: only the loop waits for the lock, an operator's tick walks in.
EnterTickUnlocked(a) ==
  /\ pc[a] = "tick"
  /\ tickLock = None \/ a # Loop
  /\ tickLock' = a
  /\ pc' = [pc EXCEPT ![a] = "choose"]
  /\ UNCHANGED <<ledger, lock, op, draft, plan>>

EnterTick(a) ==
  /\ pc[a] = "tick"
  /\ tickLock = None
  /\ tickLock' = a
  /\ pc' = [pc EXCEPT ![a] = "choose"]
  /\ UNCHANGED <<ledger, lock, op, draft, plan>>

\* active_goal() reads the row without the manager's lock.
ChooseGoal(a) ==
  /\ pc[a] = "choose"
  /\ \/ /\ Open(ledger) = {}
        /\ op' = [op EXCEPT ![a] = [kind |-> "ensure"]]
        /\ pc' = [pc EXCEPT ![a] = "want"]
        /\ UNCHANGED <<plan, tickLock>>
     \/ \E g \in Open(ledger) :
        \/ /\ ledger.status[g] = "active"
           /\ plan' = [plan EXCEPT ![a] = g]
           /\ pc' = [pc EXCEPT ![a] = "check"]
           /\ UNCHANGED <<op, tickLock>>
        \/ /\ ledger.status[g] = "paused"
           /\ Rest(a)
           /\ UNCHANGED op
  /\ UNCHANGED <<ledger, lock, draft>>

\* Fault: the manager's lock is held from the check on, over the model's answer.
CheckUnresolvedLocked(a) ==
  /\ pc[a] = "check"
  /\ \/ /\ Unresolved(ledger, plan[a]) = {}
        /\ lock = None
        /\ lock' = a
        /\ pc' = [pc EXCEPT ![a] = "propose"]
        /\ UNCHANGED <<plan, tickLock>>
     \/ /\ Unresolved(ledger, plan[a]) # {}
        /\ Rest(a)
        /\ UNCHANGED lock
  /\ UNCHANGED <<ledger, op, draft>>

\* has_unresolved_work(), list_goals() and the call of the model.
CheckUnresolved(a) ==
  /\ pc[a] = "check"
  /\ \/ /\ Unresolved(ledger, plan[a]) = {}
        /\ pc' = [pc EXCEPT ![a] = "propose"]
        /\ UNCHANGED <<plan, tickLock>>
     \/ /\ Unresolved(ledger, plan[a]) # {}
        /\ Rest(a)
  /\ UNCHANGED <<ledger, lock, op, draft>>

\* The model answers with a usable step: add_task for the goal read earlier.
Propose(a) ==
  /\ pc[a] = "propose"
  /\ op' = [op EXCEPT ![a] = [kind |-> "add", goal |-> plan[a]]]
  /\ pc' = [pc EXCEPT ![a] = "want"]
  /\ UNCHANGED <<ledger, lock, tickLock, draft, plan>>

\* Fault: an exception of the model leaves the tick's lock taken.
ProposeFailsLocked(a) ==
  /\ pc[a] = "propose"
  /\ pc' = [pc EXCEPT ![a] = "idle"]
  /\ plan' = [plan EXCEPT ![a] = None]
  /\ UNCHANGED <<ledger, lock, tickLock, op, draft>>

\* The model fails, or its answer does not validate.
ProposeFails(a) ==
  /\ pc[a] = "propose"
  /\ Rest(a)
  /\ UNCHANGED <<ledger, lock, op, draft>>

\* presence.submit() of the goal.next_task event ends the tick.
Announce(a) ==
  /\ pc[a] = "announce"
  /\ Rest(a)
  /\ UNCHANGED <<ledger, lock, op, draft>>

\* The process dies and another starts: only the row is left.
Crash ==
  /\ lock' = None
  /\ tickLock' = None
  /\ pc' = bootPc
  /\ op' = bootOp
  /\ draft' = [a \in Actors |-> EmptyLedger]
  /\ plan' = [a \in Actors |-> None]
  /\ UNCHANGED ledger

Next ==
  \/ \E a \in Actors :
       \/ Request(a) \/ Load(a) \/ Refuse(a) \/ Save(a)
       \/ BeginTick(a) \/ EnterTick(a) \/ ChooseGoal(a) \/ CheckUnresolved(a)
       \/ Propose(a) \/ ProposeFails(a) \/ Announce(a)
  \/ Crash

Spec == Init /\ [][Next]_vars

\* Nothing but what the manager and its store do themselves is assumed: the
\* model may never answer.  asyncio.Lock wakes its waiters in order, hence SF.
ManagerSpec ==
  Spec /\ \A a \in Actors : SF_vars(Load(a) \/ Refuse(a)) /\ WF_vars(Save(a))

\* The model answers or fails, and the tick's lock, too, is fair.
TickFairness ==
  \A a \in Actors :
    /\ SF_vars(EnterTick(a))
    /\ WF_vars(ChooseGoal(a))
    /\ WF_vars(CheckUnresolved(a))
    /\ WF_vars(Propose(a) \/ ProposeFails(a))
    /\ WF_vars(Announce(a))

-----------------------------------------------------------------------------
(* Safety                                                                  *)

\* active_goal() returns the first goal that is open, so there must never be
\* two: ensure_primary, terminal goals and concurrent requests see to it.
AtMostOneOpenGoal == \A g, h \in Open(ledger) : g = h

\* What an operation is about to save is what it would decide if it read the
\* row now: nobody wrote it between load() and save().
NoStaleSave ==
  \A a \in Actors : pc[a] = "saving" => draft[a] \in Results(op[a], ledger)

\* A tick is one at a time: who is past _tick_lock holds it.
OneTick == \A a \in Actors : pc[a] \in InTick => tickLock = a

\* However old the reads of a tick are, a task appears only under a goal that
\* is active at that moment and has nothing unresolved (docs/ENTITY.md: a
\* durable pause keeps the planner from producing new work).
PlansOnlyWhenDue ==
  [][\A t \in Tasks :
       ledger.state[t] = "absent" /\ ledger'.state[t] # "absent" =>
         /\ ledger.status[ledger'.of[t]] = "active"
         /\ Unresolved(ledger, ledger'.of[t]) = {}]_vars

\* No write undoes another: tasks move along the transition table and stay
\* with their goal, and a goal once completed or cancelled stays so.
NothingUndone ==
  [][/\ \A t \in Tasks : ledger.state[t] # "absent" =>
          /\ ledger'.of[t] = ledger.of[t]
          /\ \/ ledger'.state[t] = ledger.state[t]
             \/ ledger'.state[t] \in ALLOWED_TASK_TRANSITIONS[ledger.state[t]]
     /\ \A g \in Goals : ledger.status[g] \notin OpenStatus \cup {"absent"} =>
          ledger'.status[g] = ledger.status[g]]_vars

\* The ledger that the manager's lock stands for: one operation after another,
\* each done at once on the row as it is.  Drafts, queued requests, the reads of
\* ticks and crashes between load() and save() cannot be told from it.
SerialLedger ==
  /\ ledger = EmptyLedger
  /\ [][\E o \in Operations : ledger' \in Results(o, ledger)]_ledger

-----------------------------------------------------------------------------
(* Liveness                                                                *)

\* An operator can pause, cancel or move a task at any time, also while a tick
\* waits for a model that never answers.
OperatorServed == \A a \in Operators : pc[a] = "want" /\ tickLock # a ~> pc[a] = "idle"

\* Every request for a plan is answered, and the loop's tick ends: it does not
\* wait for the tick's lock for ever, nor keep it.
TickEnds ==
  TickFairness => \A a \in Actors : pc[a] = "tick" ~> pc[a] # "tick" /\ tickLock # a

-----------------------------------------------------------------------------
(* Together                                                                *)

\* The row and what is about to be written to it, whatever requests, ticks and
\* restarts race.
LedgerInv == TypeOK /\ AtMostOneOpenGoal /\ NoStaleSave /\ OneTick

\* Writes are serial and none undoes another.
WritesHold == SerialLedger /\ NothingUndone

\* Operators are served and ticks end.
LedgerSettles == OperatorServed /\ TickEnds
=============================================================================
