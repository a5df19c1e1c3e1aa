------------------------- MODULE GoalLedgerProofs -------------------------
(***************************************************************************)
(* Theorems about GoalLedger for any sets of goals, tasks and operators.   *)
(***************************************************************************)
EXTENDS GoalLedger, TLAPS

OneOpen(l) == \A g, h \in Open(l) : g = h

\* Who saves holds the manager's lock.
LockInv == \A a \in Actors : pc[a] = "saving" => lock = a

\* What an actor has at hand when it needs it.
HandInv == \A a \in Actors :
  /\ pc[a] \in {"want", "saving"} => op[a] \in Operations
  /\ pc[a] \in {"check", "propose"} => plan[a] \in Goals

\* The inductive invariant.  A save is one step, but what it writes was decided
\* when the row was read: NoStaleSave carries that decision to the save, and
\* needs LockInv to know that nobody else has saved in between.
IInv ==
  /\ TypeOK
  /\ LockInv
  /\ HandInv
  /\ AtMostOneOpenGoal
  /\ NoStaleSave
  /\ OneTick

-----------------------------------------------------------------------------
(* The operations of the manager                                           *)

\* An operation computes a ledger from a ledger.
LEMMA ResultTypes ==
  ASSUME NEW l \in Ledgers, NEW o \in Operations, NEW m \in Results(o, l)
  PROVE  m \in Ledgers
<1>1. CASE o.kind = "ensure"
  BY <1>1 DEF Results, EnsurePrimary, Ledgers, GoalStatus, OpenStatus
<1>2. CASE o.kind = "add"
  <2>1. o.goal \in Goals
    BY <1>2 DEF Operations
  <2>2. PICK t \in Tasks : m = [l EXCEPT !.state[t] = "ready", !.of[t] = o.goal]
    BY <1>2 DEF Results, AddTask
  <2>3. m = [status |-> l.status, state |-> [l.state EXCEPT ![t] = "ready"],
             of |-> [l.of EXCEPT ![t] = o.goal]]
    BY <2>2 DEF Ledgers
  <2>4. QED
    BY <2>1, <2>3 DEF Ledgers, TaskState
<1>3. CASE o.kind = "task"
  <2>1. o.task \in Tasks /\ o.to \in TaskState
    BY <1>3 DEF Operations
  <2>2. QED
    BY <1>3, <2>1 DEF Results, SetTaskState, Ledgers
<1>4. CASE o.kind = "goal"
  <2>1. o.goal \in Goals /\ o.to \in GoalStatus
    BY <1>4 DEF Operations
  <2>2. QED
    BY <1>4, <2>1 DEF Results, SetGoalStatus, Ledgers
<1>5. QED
  BY <1>1, <1>2, <1>3, <1>4 DEF Operations

\* No operation opens a second goal.
LEMMA ResultOneOpen ==
  ASSUME NEW l \in Ledgers, NEW o \in Operations, NEW m \in Results(o, l), OneOpen(l)
  PROVE  OneOpen(m)
<1>1. CASE o.kind = "ensure"
  <2>1. Open(l) = {}
    BY <1>1 DEF Results, EnsurePrimary
  <2>2. PICK g \in Goals : m = [l EXCEPT !.status[g] = "active"]
    BY <1>1 DEF Results, EnsurePrimary
  <2>3. \A h \in Goals : h # g => m.status[h] = l.status[h]
    BY <2>2 DEF Ledgers
  <2>4. QED
    BY <2>1, <2>3 DEF Open, OneOpen
<1>2. CASE o.kind \in {"add", "task"}
  <2>1. m.status = l.status
    <3>1. CASE o.kind = "add"
      <4>1. PICK t \in Tasks : m = [l EXCEPT !.state[t] = "ready", !.of[t] = o.goal]
        BY <3>1 DEF Results, AddTask
      <4>2. QED
        BY <4>1 DEF Ledgers
    <3>2. CASE o.kind = "task"
      <4>1. m = [l EXCEPT !.state[o.task] = o.to]
        BY <3>2 DEF Results, SetTaskState
      <4>2. QED
        BY <4>1 DEF Ledgers
    <3>3. QED
      BY <1>2, <3>1, <3>2
  <2>2. QED
    BY <2>1 DEF Open, OneOpen
<1>3. CASE o.kind = "goal"
  <2>1. l.status[o.goal] \notin {"absent", "completed", "cancelled"} \/ m.status = l.status
          \/ o.to \in {"completed", "cancelled"}
    BY <1>3 DEF Results, SetGoalStatus, Ledgers
  <2>2. \A h \in Goals : h # o.goal => m.status[h] = l.status[h]
    BY <1>3 DEF Results, SetGoalStatus, Ledgers
  <2>3. o.goal \in Goals /\ m.status[o.goal] \in {o.to, l.status[o.goal]}
    BY <1>3 DEF Results, SetGoalStatus, Ledgers, Operations
  <2>4. l.status[o.goal] \in GoalStatus \cup {"absent"}
    BY <2>3 DEF Ledgers
  <2>5. \A h \in Open(m) : h \in Open(l)
    <3>1. CASE o.to \in {"completed", "cancelled"}
      BY <3>1, <2>2, <2>3 DEF Open, OpenStatus
    <3>2. CASE o.to \notin {"completed", "cancelled"}
      BY <3>2, <2>1, <2>2, <2>3, <2>4 DEF Open, OpenStatus, GoalStatus
    <3>3. QED
      BY <3>1, <3>2
  <2>6. QED
    BY <2>5 DEF OneOpen
<1>4. QED
  BY <1>1, <1>2, <1>3 DEF Operations

\* A task appears only where it is due.
LEMMA ResultDue ==
  ASSUME NEW l \in Ledgers, NEW o \in Operations, NEW m \in Results(o, l),
         NEW t \in Tasks, l.state[t] = "absent", m.state[t] # "absent"
  PROVE  l.status[m.of[t]] = "active" /\ Unresolved(l, m.of[t]) = {}
<1>1. CASE o.kind = "add"
  <2>1. l.status[o.goal] = "active" /\ Unresolved(l, o.goal) = {}
    BY <1>1 DEF Results, AddTask
  <2>2. PICK u \in Tasks : m = [l EXCEPT !.state[u] = "ready", !.of[u] = o.goal]
    BY <1>1 DEF Results, AddTask
  <2>3. u = t
    BY <2>2 DEF Ledgers
  <2>4. m.of[t] = o.goal
    BY <2>2, <2>3 DEF Ledgers
  <2>5. QED
    BY <2>1, <2>4
<1>2. CASE o.kind \in {"ensure", "goal"}
  <2>1. m.state = l.state
    BY <1>2 DEF Results, EnsurePrimary, SetGoalStatus, Ledgers
  <2>2. QED
    BY <2>1
<1>3. CASE o.kind = "task"
  BY <1>3 DEF Results, SetTaskState, Ledgers
<1>4. QED
  BY <1>1, <1>2, <1>3 DEF Operations

\* An operation keeps every task with its goal, moves it along the table, and
\* leaves a goal alone that is over.
LEMMA ResultUndoesNothing ==
  ASSUME NEW l \in Ledgers, NEW o \in Operations, NEW m \in Results(o, l)
  PROVE  /\ \A t \in Tasks : l.state[t] # "absent" =>
              /\ m.of[t] = l.of[t]
              /\ \/ m.state[t] = l.state[t]
                 \/ m.state[t] \in ALLOWED_TASK_TRANSITIONS[l.state[t]]
         /\ \A g \in Goals : l.status[g] \notin OpenStatus \cup {"absent"} =>
              m.status[g] = l.status[g]
<1>1. CASE o.kind = "ensure"
  BY <1>1 DEF Results, EnsurePrimary, Ledgers
<1>2. CASE o.kind = "add"
  <2>1. PICK u \in Tasks : /\ l.state[u] = "absent"
                           /\ m = [l EXCEPT !.state[u] = "ready", !.of[u] = o.goal]
    BY <1>2 DEF Results, AddTask
  <2>2. m.status = l.status
    BY <2>1 DEF Ledgers
  <2>3. \A t \in Tasks : t # u => m.state[t] = l.state[t] /\ m.of[t] = l.of[t]
    BY <2>1 DEF Ledgers
  <2>4. QED
    BY <2>1, <2>2, <2>3
<1>3. CASE o.kind = "task"
  <2>1. o.task \in Tasks /\ m = [l EXCEPT !.state[o.task] = o.to]
    BY <1>3 DEF Results, SetTaskState, Operations
  <2>2. o.to = l.state[o.task] \/ o.to \in ALLOWED_TASK_TRANSITIONS[l.state[o.task]]
    BY <1>3 DEF Results, SetTaskState
  <2>3. QED
    BY <2>1, <2>2 DEF Ledgers
<1>4. CASE o.kind = "goal"
  <2>1. m = [l EXCEPT !.status[o.goal] = o.to]
    BY <1>4 DEF Results, SetGoalStatus
  <2>2. l.status[o.goal] \in {"completed", "cancelled"} => o.to = l.status[o.goal]
    BY <1>4 DEF Results, SetGoalStatus
  <2>3. QED
    BY <2>1, <2>2 DEF Ledgers, GoalStatus, OpenStatus
<1>5. QED
  BY <1>1, <1>2, <1>3, <1>4 DEF Operations

-----------------------------------------------------------------------------
(* The invariant                                                           *)

\* The invariant holds of a ledger that is empty.
LEMMA InitInv == Init => IInv
<1>1. ASSUME Init PROVE IInv
  <2>1. EmptyLedger \in Ledgers
    BY DEF EmptyLedger, Ledgers
  <2>2. [kind |-> "ensure"] \in Operations
    BY DEF Operations
  <2>3. TypeOK
    BY <1>1, <2>1, <2>2 DEF Init, TypeOK, Actors, bootPc, bootOp
  <2>4. AtMostOneOpenGoal
    BY <1>1 DEF Init, AtMostOneOpenGoal, Open, OpenStatus, EmptyLedger
  <2>5. LockInv /\ NoStaleSave /\ OneTick
    BY <1>1 DEF Init, LockInv, NoStaleSave, OneTick, bootPc, InTick
  <2>6. HandInv
    BY <1>1, <2>2 DEF Init, HandInv, bootPc, bootOp
  <2>7. QED
    BY <2>3, <2>4, <2>5, <2>6 DEF IInv
<1>2. QED
  BY <1>1

\* What Finish does, for the proofs that only need its effect: the actor is at
\* rest, or still in its tick with a goal of the ledger at hand.
LEMMA FinishEffect ==
  ASSUME TypeOK, NEW a \in Actors, NEW l \in Ledgers, NEW saved \in BOOLEAN,
         HandInv, Finish(a, l, saved)
  PROVE  /\ op' = [op EXCEPT ![a] = NoOp]
         /\ \/ /\ pc' = [pc EXCEPT ![a] = "idle"]
               /\ plan' = [plan EXCEPT ![a] = None]
               /\ tickLock' = IF tickLock = a THEN None ELSE tickLock
            \/ /\ \/ /\ pc' = [pc EXCEPT ![a] = "check"]
                     /\ \E g \in Goals : plan' = [plan EXCEPT ![a] = g]
                  \/ /\ pc' = [pc EXCEPT ![a] = "announce"]
                     /\ UNCHANGED plan
               /\ tickLock = a
               /\ UNCHANGED tickLock
BY DEF Finish, Rest

\* The steps that do not write the ledger or the drafts of those who save.
LEMMA QuietStep ==
  ASSUME IInv, UNCHANGED <<ledger, draft>>, lock' = lock, NEW a \in Actors,
         pc[a] \notin {"saving"}, pc'[a] # "saving",
         \A b \in Actors \ {a} : pc'[b] = pc[b] /\ op'[b] = op[b]
  PROVE  LockInv' /\ AtMostOneOpenGoal' /\ NoStaleSave'
<1>1. \A b \in Actors : pc'[b] = "saving" => b # a /\ pc[b] = "saving"
  OBVIOUS
<1>2. LockInv'
  BY <1>1 DEF IInv, LockInv
<1>3. AtMostOneOpenGoal'
  BY DEF IInv, AtMostOneOpenGoal, Open
<1>4. NoStaleSave'
  BY <1>1 DEF IInv, NoStaleSave
<1>5. QED
  BY <1>2, <1>3, <1>4

\* An actor that leaves the tick frees its lock for those who are not in one.
LEMMA RestStep ==
  ASSUME IInv, NEW a \in Actors, Rest(a), UNCHANGED <<ledger, lock, op, draft>>,
         pc[a] # "saving"
  PROVE  IInv'
<1>1. LockInv' /\ AtMostOneOpenGoal' /\ NoStaleSave'
  <2>1. pc'[a] = "idle" /\ \A b \in Actors \ {a} : pc'[b] = pc[b]
    BY DEF Rest, IInv, TypeOK
  <2>2. QED
    BY <2>1, QuietStep
<1>2. TypeOK'
  BY DEF IInv, TypeOK, Rest
<1>3. HandInv'
  BY DEF IInv, HandInv, TypeOK, Rest
<1>4. OneTick'
  BY LedgerAssumption DEF IInv, OneTick, TypeOK, Rest, InTick
<1>5. QED
  BY <1>1, <1>2, <1>3, <1>4 DEF IInv

\* A process that takes the lock drafts from the ledger as it is.
LEMMA LoadInv ==
  ASSUME IInv, NEW a \in Actors, Load(a)
  PROVE  IInv'
<1>1. op[a] \in Operations /\ ledger \in Ledgers
  BY DEF Load, IInv, HandInv, TypeOK
<1>2. PICK l \in Results(op[a], ledger) : draft' = [draft EXCEPT ![a] = l]
  BY DEF Load
<1>3. l \in Ledgers
  BY <1>1, <1>2, ResultTypes
<1>4. \A b \in Actors : pc[b] # "saving"
  BY LedgerAssumption DEF Load, IInv, LockInv, Actors
<1>5. pc' = [pc EXCEPT ![a] = "saving"] /\ lock' = a /\ UNCHANGED <<ledger, tickLock, op, plan>>
  BY DEF Load
<1>6. TypeOK'
  BY <1>2, <1>3, <1>5 DEF IInv, TypeOK
<1>7. \A b \in Actors : pc'[b] = "saving" <=> b = a
  BY <1>4, <1>5 DEF IInv, TypeOK
<1>8. LockInv'
  BY <1>5, <1>7 DEF LockInv
<1>9. NoStaleSave'
  <2>1. draft'[a] = l
    BY <1>2 DEF IInv, TypeOK
  <2>2. QED
    BY <1>2, <1>5, <1>7, <2>1 DEF NoStaleSave
<1>10. HandInv' /\ OneTick'
  BY <1>1, <1>5 DEF IInv, TypeOK, HandInv, OneTick, InTick
<1>11. AtMostOneOpenGoal'
  BY <1>5 DEF IInv, AtMostOneOpenGoal, Open
<1>12. QED
  BY <1>6, <1>8, <1>9, <1>10, <1>11 DEF IInv

\* What both ends of an operation keep.
LEMMA FinishInv ==
  ASSUME IInv, NEW a \in Actors, NEW l \in Ledgers, NEW saved \in BOOLEAN,
         Finish(a, l, saved), ledger' \in Ledgers, draft' \in [Actors -> Ledgers],
         lock' \in Actors \cup {None}
  PROVE  /\ TypeOK' /\ HandInv' /\ OneTick'
         /\ pc'[a] # "saving"
         /\ \A b \in Actors \ {a} : pc'[b] = pc[b] /\ op'[b] = op[b]
<1>1. CASE Rest(a) /\ op' = [op EXCEPT ![a] = NoOp]
  <2>1. TypeOK'
    BY <1>1 DEF IInv, TypeOK, Rest
  <2>2. HandInv'
    BY <1>1 DEF IInv, TypeOK, HandInv, Rest
  <2>3. OneTick'
    BY <1>1, LedgerAssumption DEF IInv, TypeOK, OneTick, Rest, InTick
  <2>4. QED
    BY <1>1, <2>1, <2>2, <2>3 DEF IInv, TypeOK, Rest
<1>2. CASE /\ ~ Rest(a)
           /\ op' = [op EXCEPT ![a] = NoOp]
  <2>1. /\ tickLock = a /\ UNCHANGED tickLock
        /\ \/ /\ pc' = [pc EXCEPT ![a] = "check"]
              /\ \E g \in Goals : plan' = [plan EXCEPT ![a] = g]
           \/ /\ pc' = [pc EXCEPT ![a] = "announce"]
              /\ UNCHANGED plan
    BY <1>2, FinishEffect DEF Rest, IInv
  <2>2. TypeOK'
    BY <1>2, <2>1 DEF IInv, TypeOK, InTick
  <2>3. HandInv'
    BY <1>2, <2>1 DEF IInv, TypeOK, HandInv
  <2>4. OneTick'
    BY <2>1 DEF IInv, TypeOK, OneTick, InTick
  <2>5. QED
    BY <1>2, <2>1, <2>2, <2>3, <2>4 DEF IInv, TypeOK
<1>3. QED
  BY <1>1, <1>2, FinishEffect DEF IInv

\* An operation that is refused leaves the ledger.
LEMMA RefuseInv ==
  ASSUME IInv, NEW a \in Actors, Refuse(a)
  PROVE  IInv'
<1>1. Finish(a, ledger, FALSE) /\ UNCHANGED <<ledger, lock, draft>> /\ pc[a] = "want"
  BY DEF Refuse
<1>2. ledger \in Ledgers /\ draft \in [Actors -> Ledgers] /\ lock \in Actors \cup {None}
  BY DEF IInv, TypeOK
<1>3. /\ TypeOK' /\ HandInv' /\ OneTick'
      /\ pc'[a] # "saving"
      /\ \A b \in Actors \ {a} : pc'[b] = pc[b] /\ op'[b] = op[b]
  BY <1>1, <1>2, FinishInv
<1>4. LockInv' /\ AtMostOneOpenGoal' /\ NoStaleSave'
  BY <1>1, <1>3, QuietStep
<1>5. QED
  BY <1>3, <1>4 DEF IInv

\* What is saved was drafted under the lock that is then given up.
LEMMA SaveInv ==
  ASSUME IInv, NEW a \in Actors, Save(a)
  PROVE  IInv'
<1>1. /\ Finish(a, draft[a], TRUE)
      /\ pc[a] = "saving" /\ lock' = None /\ ledger' = draft[a]
      /\ draft' = [draft EXCEPT ![a] = EmptyLedger]
  BY DEF Save
<1>2. EmptyLedger \in Ledgers /\ draft[a] \in Ledgers /\ op[a] \in Operations /\ ledger \in Ledgers
  BY <1>1 DEF IInv, TypeOK, HandInv, EmptyLedger, Ledgers
<1>3. draft' \in [Actors -> Ledgers]
  BY <1>1, <1>2 DEF IInv, TypeOK
<1>4. /\ TypeOK' /\ HandInv' /\ OneTick'
      /\ pc'[a] # "saving"
      /\ \A b \in Actors \ {a} : pc'[b] = pc[b] /\ op'[b] = op[b]
  BY <1>1, <1>2, <1>3, FinishInv
<1>5. \A b \in Actors : pc'[b] # "saving"
  BY <1>1, <1>4 DEF IInv, LockInv
<1>6. LockInv' /\ NoStaleSave'
  BY <1>5 DEF LockInv, NoStaleSave
<1>7. AtMostOneOpenGoal'
  <2>1. draft[a] \in Results(op[a], ledger) /\ OneOpen(ledger)
    BY <1>1 DEF IInv, NoStaleSave, AtMostOneOpenGoal, OneOpen
  <2>2. OneOpen(draft[a])
    BY <1>2, <2>1, ResultOneOpen
  <2>3. QED
    BY <1>1, <2>2 DEF OneOpen, AtMostOneOpenGoal, Open
<1>8. QED
  BY <1>4, <1>6, <1>7 DEF IInv

\* A request is made with nothing drafted.
LEMMA RequestInv ==
  ASSUME IInv, NEW a \in Actors, Request(a)
  PROVE  IInv'
<1>1. PICK o \in Operations : op' = [op EXCEPT ![a] = o]
  BY DEF Request
<1>2. /\ pc[a] = "idle" /\ pc' = [pc EXCEPT ![a] = "want"]
      /\ UNCHANGED <<ledger, lock, tickLock, draft, plan>>
  BY DEF Request
<1>3. TypeOK' /\ HandInv' /\ OneTick'
  BY <1>1, <1>2 DEF IInv, TypeOK, HandInv, OneTick, InTick
<1>4. pc'[a] = "want" /\ \A b \in Actors \ {a} : pc'[b] = pc[b] /\ op'[b] = op[b]
  BY <1>1, <1>2 DEF IInv, TypeOK
<1>5. LockInv' /\ AtMostOneOpenGoal' /\ NoStaleSave'
  BY <1>2, <1>4, QuietStep
<1>6. QED
  BY <1>3, <1>5 DEF IInv

\* The steps of a tick between the manager's operations.
LEMMA TickInv ==
  ASSUME IInv, NEW a \in Actors,
         \/ BeginTick(a) \/ EnterTick(a) \/ ChooseGoal(a) \/ CheckUnresolved(a)
         \/ Propose(a) \/ ProposeFails(a) \/ Announce(a)
  PROVE  IInv'
<1>1. CASE Rest(a) /\ UNCHANGED <<ledger, lock, op, draft>> /\ pc[a] # "saving"
  BY <1>1, RestStep
<1>2. ASSUME NEW p \in {"tick", "choose", "check", "propose", "want"},
             pc' = [pc EXCEPT ![a] = p], pc[a] # "saving",
             UNCHANGED <<ledger, lock, draft>>,
             p = "tick" => UNCHANGED <<op, plan, tickLock>>,
             p = "choose" => UNCHANGED <<op, plan>> /\ tickLock = None /\ tickLock' = a,
             p = "check" => /\ UNCHANGED <<op, tickLock>> /\ pc[a] = "choose"
                            /\ \E g \in Goals : plan' = [plan EXCEPT ![a] = g],
             p = "propose" => UNCHANGED <<op, plan, tickLock>> /\ pc[a] = "check",
             p = "want" => /\ UNCHANGED <<plan, tickLock>>
                           /\ \E o \in Operations : op' = [op EXCEPT ![a] = o]
      PROVE  IInv'
  <2>1. pc'[a] = p /\ \A b \in Actors \ {a} : pc'[b] = pc[b] /\ op'[b] = op[b]
    BY <1>2 DEF IInv, TypeOK
  <2>2. LockInv' /\ AtMostOneOpenGoal' /\ NoStaleSave'
    BY <1>2, <2>1, QuietStep
  <2>3. TypeOK'
    BY <1>2 DEF IInv, TypeOK, InTick
  <2>4. HandInv'
    BY <1>2 DEF IInv, TypeOK, HandInv
  <2>5. OneTick'
    <3>1. CASE p = "choose"
      <4>1. \A b \in Actors : pc[b] \notin InTick
        BY <1>2, <3>1, LedgerAssumption DEF IInv, OneTick, Actors
      <4>2. QED
        BY <1>2, <2>1, <3>1, <4>1 DEF OneTick
    <3>2. CASE p \in {"check", "propose"}
      <4>1. tickLock = a /\ tickLock' = a
        BY <1>2, <3>2 DEF IInv, OneTick, InTick
      <4>2. QED
        BY <2>1, <4>1 DEF IInv, OneTick
    <3>3. CASE p \in {"tick", "want"}
      BY <1>2, <2>1, <3>3 DEF IInv, OneTick, InTick
    <3>4. QED
      BY <3>1, <3>2, <3>3
  <2>6. QED
    BY <2>2, <2>3, <2>4, <2>5 DEF IInv
<1>3. CASE BeginTick(a)
  BY <1>2, <1>3 DEF BeginTick
<1>4. CASE EnterTick(a)
  BY <1>2, <1>4 DEF EnterTick
<1>5. CASE ChooseGoal(a)
  <2>1. [kind |-> "ensure"] \in Operations
    BY DEF Operations
  <2>2. \/ Rest(a) /\ UNCHANGED op
        \/ /\ pc' = [pc EXCEPT ![a] = "want"] /\ UNCHANGED <<plan, tickLock>>
           /\ op' = [op EXCEPT ![a] = [kind |-> "ensure"]]
        \/ /\ pc' = [pc EXCEPT ![a] = "check"] /\ UNCHANGED <<op, tickLock>>
           /\ \E g \in Goals : plan' = [plan EXCEPT ![a] = g]
    BY <1>5 DEF ChooseGoal, Open
  <2>3. UNCHANGED <<ledger, lock, draft>> /\ pc[a] = "choose"
    BY <1>5 DEF ChooseGoal
  <2>4. QED
    BY <1>1, <1>2, <2>1, <2>2, <2>3
<1>6. CASE CheckUnresolved(a)
  BY <1>1, <1>2, <1>6 DEF CheckUnresolved
<1>7. CASE Propose(a)
  <2>1. plan[a] \in Goals
    BY <1>7 DEF Propose, IInv, HandInv
  <2>2. [kind |-> "add", goal |-> plan[a]] \in Operations
    BY <2>1 DEF Operations
  <2>3. QED
    BY <1>2, <1>7, <2>2 DEF Propose
<1>8. CASE ProposeFails(a)
  BY <1>1, <1>8 DEF ProposeFails
<1>9. CASE Announce(a)
  BY <1>1, <1>9 DEF Announce
<1>10. QED
  BY <1>3, <1>4, <1>5, <1>6, <1>7, <1>8, <1>9

\* After a crash the saved ledger is all there is.
LEMMA CrashInv == IInv /\ Crash => IInv'
<1>1. ASSUME IInv, Crash PROVE IInv'
  <2>1. EmptyLedger \in Ledgers /\ [kind |-> "ensure"] \in Operations
    BY DEF EmptyLedger, Ledgers, Operations
  <2>2. TypeOK'
    BY <1>1, <2>1 DEF Crash, IInv, TypeOK, Actors, bootPc, bootOp
  <2>3. AtMostOneOpenGoal'
    BY <1>1 DEF Crash, IInv, AtMostOneOpenGoal, Open
  <2>4. LockInv' /\ NoStaleSave' /\ OneTick'
    BY <1>1 DEF Crash, LockInv, NoStaleSave, OneTick, bootPc, InTick
  <2>5. HandInv'
    BY <1>1, <2>1 DEF Crash, HandInv, bootPc, bootOp
  <2>6. QED
    BY <2>2, <2>3, <2>4, <2>5 DEF IInv
<1>2. QED
  BY <1>1

-----------------------------------------------------------------------------
(* Theorems                                                                *)

\* The inductive invariant holds in every state, over any number of crashes.
THEOREM Invariance == Spec => []IInv
<1>1. IInv /\ [Next]_vars => IInv'
  <2>1. ASSUME IInv, UNCHANGED vars PROVE IInv'
    <3>1. UNCHANGED <<ledger, lock, tickLock, pc, op, draft, plan>>
      BY <2>1 DEF vars
    <3>2. QED
      BY <2>1, <3>1 DEF IInv, TypeOK, LockInv, HandInv, AtMostOneOpenGoal, Open,
                        NoStaleSave, OneTick
  <2>2. QED
    BY <2>1, RequestInv, LoadInv, RefuseInv, SaveInv, TickInv, CrashInv DEF Next
<1>2. QED
  BY <1>1, InitInv, PTL DEF Spec

\* The row has one open goal, no save is stale, and ticks exclude each other:
\* for any number of operators, goals and tasks.
THEOREM LedgerIsSafe == Spec => []LedgerInv
BY Invariance, PTL DEF IInv, LedgerInv

\* Every variable keeps its type.
THEOREM TypeCorrectness == Spec => []TypeOK
BY Invariance, PTL DEF IInv

\* There is never a second open goal, whatever requests, ticks and restarts race.
THEOREM PrimaryGoalIsUnique == Spec => []AtMostOneOpenGoal
BY Invariance, PTL DEF IInv

\* No operation saves over a row it has not read.
THEOREM SavesAreCurrent == Spec => []NoStaleSave
BY Invariance, PTL DEF IInv

\* Ticks of the loop and of POST /v1/goals/plan exclude each other.
THEOREM TicksExclude == Spec => []OneTick
BY Invariance, PTL DEF IInv

\* Only a save changes the row, and it does so by one operation.
LEMMA WriteIsOperation ==
  ASSUME IInv, [Next]_vars, ledger' # ledger
  PROVE  \E o \in Operations : ledger' \in Results(o, ledger)
<1>1. PICK a \in Actors : Save(a)
  BY DEF Next, vars, Request, Load, Refuse, BeginTick, EnterTick, ChooseGoal,
         CheckUnresolved, Propose, ProposeFails, Announce, Crash
<1>2. op[a] \in Operations /\ draft[a] \in Results(op[a], ledger) /\ ledger' = draft[a]
  BY <1>1 DEF Save, IInv, HandInv, NoStaleSave
<1>3. QED
  BY <1>2

\* The planner adds work only to an active goal that has none unresolved, at
\* the moment of the write: the pause of a goal holds against every stale read.
THEOREM PauseHolds == Spec => PlansOnlyWhenDue
<1> DEFINE Due ==
      \A t \in Tasks :
        ledger.state[t] = "absent" /\ ledger'.state[t] # "absent" =>
          /\ ledger.status[ledger'.of[t]] = "active"
          /\ Unresolved(ledger, ledger'.of[t]) = {}
<1>1. IInv /\ [Next]_vars => [Due]_vars
  <2>1. ASSUME IInv, [Next]_vars, ledger' = ledger PROVE Due
    BY <2>1
  <2>2. ASSUME IInv, [Next]_vars, ledger' # ledger PROVE Due
    <3>1. PICK o \in Operations : ledger' \in Results(o, ledger)
      BY <2>2, WriteIsOperation
    <3>2. ledger \in Ledgers
      BY <2>2 DEF IInv, TypeOK
    <3>3. QED
      BY <3>1, <3>2, ResultDue
  <2>3. QED
    BY <2>1, <2>2
<1>2. QED
  BY <1>1, Invariance, PTL DEF Spec, PlansOnlyWhenDue

\* No write undoes another: there are no lost updates.
THEOREM NoLostUpdate == Spec => NothingUndone
<1> DEFINE Kept ==
      /\ \A t \in Tasks : ledger.state[t] # "absent" =>
           /\ ledger'.of[t] = ledger.of[t]
           /\ \/ ledger'.state[t] = ledger.state[t]
              \/ ledger'.state[t] \in ALLOWED_TASK_TRANSITIONS[ledger.state[t]]
      /\ \A g \in Goals : ledger.status[g] \notin OpenStatus \cup {"absent"} =>
           ledger'.status[g] = ledger.status[g]
<1>1. IInv /\ [Next]_vars => [Kept]_vars
  <2>1. ASSUME IInv, [Next]_vars, ledger' = ledger PROVE Kept
    BY <2>1
  <2>2. ASSUME IInv, [Next]_vars, ledger' # ledger PROVE Kept
    <3>1. PICK o \in Operations : ledger' \in Results(o, ledger)
      BY <2>2, WriteIsOperation
    <3>2. ledger \in Ledgers
      BY <2>2 DEF IInv, TypeOK
    <3>3. QED
      BY <3>1, <3>2, ResultUndoesNothing
  <2>3. QED
    BY <2>1, <2>2
<1>2. QED
  BY <1>1, Invariance, PTL DEF Spec, NothingUndone

\* To whoever reads the row, the manager is a serial ledger: its lock, drafts
\* and crashes leave one operation after another on the row as it is.
THEOREM WritesAreSerial == Spec => SerialLedger
<1>1. Init => ledger = EmptyLedger
  BY DEF Init
<1>2. IInv /\ [Next]_vars => [\E o \in Operations : ledger' \in Results(o, ledger)]_ledger
  <2>1. ASSUME IInv, [Next]_vars, ledger' # ledger
        PROVE  \E o \in Operations : ledger' \in Results(o, ledger)
    BY <2>1, WriteIsOperation
  <2>2. QED
    BY <2>1
<1>3. QED
  BY <1>1, <1>2, Invariance, PTL DEF Spec, SerialLedger

\* Writes are serial and none undoes another.
THEOREM WritesAreSafe == Spec => WritesHold
BY WritesAreSerial, NoLostUpdate, PTL DEF WritesHold

=============================================================================
