---------------------------- MODULE SelfModify ----------------------------
(***************************************************************************)
(* Scrappy changing its own code (core/identity): self.propose_change puts *)
(* work on a branch, self.apply_change merges a branch into main, and      *)
(* self.rollback resets main to the tag last-good.                         *)
(*                                                                         *)
(* A request is a coroutine of the server.  It asks for the branch's diff, *)
(* guards it, and sends a fixed shell script, both over the worker bridge: *)
(* a remote call (RemoteCall) that runs at most once, perhaps after the    *)
(* request has been told that it failed.  The one worker runs one command  *)
(* at a time in the one checkout and kills a script at its timeout,        *)
(* wherever it stands.                                                     *)
(***************************************************************************)
EXTENDS Naturals, Sequences, SequencesExt

CONSTANTS Applies,   \* calls of self.apply_change
          Rollbacks, \* calls of self.rollback
          Branches,  \* proposal branches
          MaxRev,    \* bound: how often a branch is proposed
          None

Requests == Applies \cup Rollbacks

\* What a request may tell its caller.
Results == {"refused", "applied", "rolled back", "incomplete", "restored", "not restored"}

\* What a proposal commits, and whether that changes a protected file.
Commits == [branch : Branches, rev : 1..MaxRev, touches : {"scoped", "protected"}]

\* What stands for a merge on main: whose, of what, and the commits it brought in.
Merged == [by : Requests, branch : Branches, rev : 0..MaxRev, brings : SUBSET Commits]

\* A diff: of which revision, and of a main that had which commits.
Diffs == [rev : 0..MaxRev, base : SUBSET Commits]

ASSUME SelfAssumption ==
  /\ None \notin Requests \cup Branches \cup Results
  /\ None \notin Seq(Merged) \cup Diffs
  /\ MaxRev \in Nat

VARIABLES
  \* the server
  frozen,   \* the kill switch of `scrappy freeze`
  pc,       \* where a request stands
  target,   \* the branch it applies; None if it rolls back
  seen,     \* the diff of which the guard was shown all the paths, if it was
  out,      \* what the bridge has for it of its script: the marker, or a failure
  result,   \* what it has told its caller
  restart,  \* the marker that asks for a restart
  \* the worker and its checkout
  rev,      \* each branch's revision, 0 when it does not exist
  work,     \* the commits in its history, beyond what main began with
  script,   \* where a request's script stands
  main,     \* what has been merged into main, in order
  lastGood, \* the tag last-good: a state of main, or None
  \* history
  known,    \* the states of main whose tests have passed, and those at which a
            \* script was cut short or could not reset
  untagged  \* how often the tag could not be set since it last was

serverVars == <<frozen, pc, target, seen, out, result, restart>>
branchVars == <<rev, work>>
logVars == <<main, lastGood, known, untagged>>
repoVars == <<script, logVars>>
vars == <<serverVars, branchVars, repoVars>>

Running == {"tagged", "merged", "red"}

TypeOK ==
  /\ frozen \in BOOLEAN
  /\ pc \in [Requests -> {"idle", "diff", "script", "audit", "done", "dead"}]
  /\ target \in [Requests -> Branches \cup {None}]
  /\ seen \in [Requests -> Diffs \cup {None}]
  /\ out \in [Requests -> {"none", "ok", "rolled back", "failed"}]
  /\ result \in [Requests -> Results \cup {None}]
  /\ restart \in BOOLEAN
  /\ rev \in [Branches -> 0..MaxRev]
  /\ work \in [Branches -> SUBSET Commits]
  /\ script \in [Requests -> {"none", "queued", "over"} \cup Running]
  /\ main \in Seq(Merged)
  /\ lastGood \in Seq(Merged) \cup {None}
  /\ known \subseteq Seq(Merged)
  /\ untagged \in Nat

Init ==
  /\ frozen = FALSE
  /\ pc = [r \in Requests |-> "idle"]
  /\ target = [r \in Requests |-> None]
  /\ seen = [r \in Requests |-> None]
  /\ out = [r \in Requests |-> "none"]
  /\ result = [r \in Requests |-> None]
  /\ restart = FALSE
  /\ rev = [b \in Branches |-> 0]
  /\ work = [b \in Branches |-> {}]
  /\ script = [r \in Requests |-> "none"]
  /\ main = <<>>
  /\ lastGood = None
  /\ known = {<<>>}
  /\ untagged = 0

\* The commits of a log, and what a branch has beyond those of main: its diff
\* against the place where the two part.
Contents(log) == UNION {log[i].brings : i \in DOMAIN log}
News(b) == work[b] \ Contents(main)

WorkerFree == \A r \in Requests : script[r] \notin Running

-----------------------------------------------------------------------------
(* The operator and Claude Code                                            *)

Freeze ==
  /\ frozen' = ~ frozen
  /\ UNCHANGED <<pc, target, seen, out, result, restart, branchVars, repoVars>>

\* self.propose_change has Claude Code commit to the branch, on the worker, on
\* top of what is checked out: the branch itself or another one, or main.  Its
\* guard advises only: whatever the diff, and though it may have been asked
\* before a freeze, the branch is there.
Propose(b) ==
  /\ WorkerFree
  /\ rev[b] < MaxRev
  /\ rev' = [rev EXCEPT ![b] = @ + 1]
  /\ \E base \in {work[c] : c \in Branches} \cup {Contents(main)},
        touches \in {"scoped", "protected"} :
       work' = [work EXCEPT ![b] =
                  base \cup {[branch |-> b, rev |-> rev[b] + 1, touches |-> touches]}]
  /\ UNCHANGED <<serverVars, repoVars>>

-----------------------------------------------------------------------------
(* Requests on the server                                                  *)

Answer(r, res) ==
  /\ pc' = [pc EXCEPT ![r] = "done"]
  /\ result' = [result EXCEPT ![r] = res]

\* Frozen, no worker connected, or not a proposal branch.
Refuse(r) ==
  /\ pc[r] = "idle"
  /\ Answer(r, "refused")
  /\ UNCHANGED <<frozen, target, seen, out, restart, branchVars, repoVars>>

Apply(r, b) ==
  /\ r \in Applies
  /\ pc[r] = "idle"
  /\ ~ frozen
  /\ target' = [target EXCEPT ![r] = b]
  /\ pc' = [pc EXCEPT ![r] = "diff"]
  /\ UNCHANGED <<frozen, seen, out, result, restart, branchVars, repoVars>>

Rollback(r) ==
  /\ r \in Rollbacks
  /\ pc[r] = "idle"
  /\ ~ frozen
  /\ pc' = [pc EXCEPT ![r] = "script"]
  /\ script' = [script EXCEPT ![r] = "queued"]
  /\ UNCHANGED <<frozen, target, seen, result, restart, branchVars, out, logVars>>

SeenOf(b, lines) ==
  IF lines \in {"scoped", "protected"} THEN [rev |-> rev[b], base |-> Contents(main)] ELSE None

\* Fault: a verdict that nobody acts on.
GuardAdvises(r, lines) ==
  /\ seen' = [seen EXCEPT ![r] = SeenOf(target[r], lines)]
  /\ pc' = [pc EXCEPT ![r] = "script"]
  /\ script' = [script EXCEPT ![r] = "queued"]
  /\ UNCHANGED <<frozen, target, result, restart, branchVars, out, logVars>>

\* check_change() on the lines returned for the diff: a protected path is
\* refused; any other text passes for paths in scope.
Guard(r, lines) ==
  /\ seen' = [seen EXCEPT ![r] = SeenOf(target[r], lines)]
  /\ IF lines = "protected"
     THEN /\ Answer(r, "refused")
          /\ UNCHANGED script
     ELSE /\ pc' = [pc EXCEPT ![r] = "script"]
          /\ script' = [script EXCEPT ![r] = "queued"]
          /\ UNCHANGED result
  /\ UNCHANGED <<frozen, target, restart, branchVars, out, logVars>>

\* What the worker may return for git diff --name-only main...b: git's error or
\* the worker's own "(no output)", or the paths of what main has not at this
\* moment; "cut" is the first 4096 characters of them, without the protected ones.
DiffOutputs(b) ==
  IF News(b) = {} THEN {"text"}
  ELSE IF \E c \in News(b) : c.touches = "protected" THEN {"protected", "cut"}
  ELSE {"scoped"}

DiffAnswered(r) ==
  /\ pc[r] = "diff"
  /\ WorkerFree
  /\ \E lines \in DiffOutputs(target[r]) : Guard(r, lines)

\* The bridge or the worker returns its own message in place of an output.
DiffLost(r) ==
  /\ pc[r] = "diff"
  /\ Guard(r, "text")

\* The script's marker, or none, becomes the answer; an applied change is first
\* written to memory.
ScriptAnswered(r) ==
  /\ pc[r] = "script"
  /\ script[r] = "over"
  /\ out[r] # "none"
  /\ \/ /\ target[r] = None
        /\ Answer(r, IF out[r] = "ok" THEN "restored" ELSE "not restored")
     \/ /\ target[r] # None /\ out[r] # "ok"
        /\ Answer(r, IF out[r] = "rolled back" THEN "rolled back" ELSE "incomplete")
     \/ /\ target[r] # None /\ out[r] = "ok"
        /\ pc' = [pc EXCEPT ![r] = "audit"]
        /\ UNCHANGED result
  /\ out' = [out EXCEPT ![r] = "none"]
  /\ UNCHANGED <<frozen, target, seen, restart, branchVars, repoVars>>

\* The marker on disk: it outlives the process it asks to restart.
RequestRestart == restart' = TRUE

\* The memory is written or has failed; a restart before that asks for none.
Audited(r) ==
  /\ pc[r] = "audit"
  /\ RequestRestart
  /\ Answer(r, "applied")
  /\ UNCHANGED <<frozen, target, seen, out, branchVars, repoVars>>

\* Fault: a script that has not answered is sent once more.
ScriptTimesOutResends(r) ==
  /\ pc[r] = "script"
  /\ Answer(r, IF target[r] = None THEN "not restored" ELSE "incomplete")
  /\ script' = [script EXCEPT ![r] = IF @ = "over" THEN "queued" ELSE @]
  /\ out' = [out EXCEPT ![r] = "none"]
  /\ UNCHANGED <<frozen, target, seen, restart, branchVars, logVars>>

\* The bridge gives up waiting; the script may run later, or be running.
ScriptTimesOut(r) ==
  /\ pc[r] = "script"
  /\ Answer(r, IF target[r] = None THEN "not restored" ELSE "incomplete")
  /\ out' = [out EXCEPT ![r] = "none"]
  /\ UNCHANGED <<frozen, target, seen, restart, branchVars, repoVars>>

\* The server process restarts: requests and the bridge's queue are gone, the
\* worker goes on with what it runs or has just fetched, and `scrappy up` clears
\* the marker.
Restart ==
  /\ pc' = [r \in Requests |-> IF pc[r] \in {"diff", "script", "audit"} THEN "dead" ELSE pc[r]]
  /\ \E fetched \in Requests \cup {None} :
       script' = [r \in Requests |->
                    IF script[r] = "queued" /\ r # fetched THEN "over" ELSE script[r]]
  /\ out' = [r \in Requests |-> "none"]
  /\ restart' = FALSE
  /\ UNCHANGED <<frozen, target, seen, result, branchVars, logVars>>

-----------------------------------------------------------------------------
(* The scripts on the worker                                               *)

\* One command of a request's script, after which it stands at s with output o,
\* which the bridge drops when nobody waits for it.
Runs(r, s, o) ==
  /\ script' = [script EXCEPT ![r] = s]
  /\ out' = [out EXCEPT ![r] = IF pc[r] = "script" THEN o ELSE "none"]
  /\ UNCHANGED <<frozen, pc, target, seen, result, restart, branchVars>>

\* The command never reaches the worker, or the main branch cannot be checked
\* out, before anything is done.
NotRun(r) ==
  /\ script[r] = "queued"
  /\ \E o \in {"none", "failed"} : Runs(r, "over", o)
  /\ UNCHANGED logVars

\* Fault: the tag is set without -f, so that it stays where it was first set.
TagUnforced(r) ==
  /\ script[r] = "queued"
  /\ target[r] # None
  /\ WorkerFree
  /\ lastGood' = IF lastGood = None THEN main ELSE lastGood
  /\ untagged' = 0
  /\ Runs(r, "tagged", "none")
  /\ UNCHANGED <<main, known>>

\* git tag -f last-good HEAD.  Its status is not looked at: when the tag cannot be
\* set, the script goes on with the old one, or with none.
Tag(r) ==
  /\ script[r] = "queued"
  /\ target[r] # None
  /\ WorkerFree
  /\ \/ lastGood' = main /\ untagged' = 0
     \/ untagged' = untagged + 1 /\ UNCHANGED lastGood
  /\ Runs(r, "tagged", "none")
  /\ UNCHANGED <<main, known>>

\* The merge of a request.
Commit(r) ==
  [by |-> r, branch |-> target[r], rev |-> rev[target[r]], brings |-> News(target[r])]

\* Fault: the tag is set after the merge.
MergeThenTag(r) ==
  /\ script[r] = "tagged"
  /\ rev[target[r]] > 0
  /\ main' = IF News(target[r]) = {} THEN main ELSE Append(main, Commit(r))
  /\ lastGood' = main'
  /\ Runs(r, "merged", "none")
  /\ UNCHANGED <<known, untagged>>

\* git merge --no-ff: a branch that is merged already changes nothing.
Merge(r) ==
  /\ script[r] = "tagged"
  /\ rev[target[r]] > 0
  /\ main' = IF News(target[r]) = {} THEN main ELSE Append(main, Commit(r))
  /\ Runs(r, "merged", "none")
  /\ UNCHANGED <<lastGood, known, untagged>>

\* A conflict, or no such branch.
MergeFails(r) ==
  /\ script[r] = "tagged"
  /\ rev[target[r]] > 0 => News(target[r]) # {}
  /\ Runs(r, "over", "failed")
  /\ UNCHANGED logVars

TestsPass(r) ==
  /\ script[r] = "merged"
  /\ known' = known \cup {main}
  /\ Runs(r, "over", "ok")
  /\ UNCHANGED <<main, lastGood, untagged>>

TestsFail(r) ==
  /\ script[r] = "merged"
  /\ Runs(r, "red", "none")
  /\ UNCHANGED logVars

\* Fault: the merge is undone with git reset --hard HEAD~1.
ResetToParent(r) ==
  /\ script[r] = "red"
  /\ main' = IF main = <<>> THEN main ELSE Front(main)
  /\ Runs(r, "over", "rolled back")
  /\ UNCHANGED <<lastGood, known, untagged>>

\* git reset --hard last-good
Reset(r) ==
  /\ script[r] = "red"
  /\ lastGood # None
  /\ main' = lastGood
  /\ Runs(r, "over", "rolled back")
  /\ UNCHANGED <<lastGood, known, untagged>>

\* The reset fails, as it does without a tag, and nobody looks: the script says
\* that it has rolled back all the same.
ResetFails(r) ==
  /\ script[r] = "red"
  /\ known' = known \cup {main}
  /\ Runs(r, "over", "rolled back")
  /\ UNCHANGED <<main, lastGood, untagged>>

\* The rollback's script has one effect, before or after which it may be killed;
\* without a tag, or when the reset fails, it has none.
RollbackRuns(r) ==
  /\ script[r] = "queued"
  /\ target[r] = None
  /\ WorkerFree
  /\ \/ /\ lastGood # None
        /\ main' = lastGood
        /\ \E o \in {"ok", "failed"} : Runs(r, "over", o)
     \/ /\ Runs(r, "over", "failed")
        /\ UNCHANGED main
  /\ UNCHANGED <<lastGood, known, untagged>>

\* The command's timeout, or the end of the worker, kills the shell.
Kill(r) ==
  /\ script[r] \in Running
  /\ known' = known \cup {main}
  /\ Runs(r, "over", "failed")
  /\ UNCHANGED <<main, lastGood, untagged>>

-----------------------------------------------------------------------------
\* The connector's self.apply_change and self.rollback.
Invoke(r) == Refuse(r) \/ Rollback(r) \/ \E b \in Branches : Apply(r, b)

ServerStep(r) ==
  \/ Invoke(r) \/ DiffAnswered(r) \/ DiffLost(r)
  \/ ScriptAnswered(r) \/ ScriptTimesOut(r) \/ Audited(r)

ScriptStep(r) ==
  \/ NotRun(r) \/ Tag(r) \/ Merge(r) \/ MergeFails(r) \/ TestsPass(r)
  \/ TestsFail(r) \/ Reset(r) \/ ResetFails(r) \/ RollbackRuns(r) \/ Kill(r)

Next ==
  \/ Freeze
  \/ \E b \in Branches : Propose(b)
  \/ \E r \in Requests : ServerStep(r) \/ ScriptStep(r)
  \/ Restart

Spec == Init /\ [][Next]_vars

-----------------------------------------------------------------------------
(* Properties                                                              *)

\* The tag only ever points back: resetting to it takes changes off main and
\* never brings one in.
LastGoodIsBehind == lastGood # None => IsPrefix(lastGood, main)

\* But while a merge is being tested, main is a state whose tests have passed, or
\* one at which a script was cut short or could not reset: failures, conflicts,
\* tags that could not be set and rollbacks lead to no other.
MainIsGreen ==
  (\A r \in Requests : script[r] \notin {"merged", "red"}) => main \in known

\* A request merges once at most, whatever is lost, late or repeated, and one
\* that was refused not at all.
MergesOnce ==
  /\ \A i, j \in DOMAIN main : main[i].by = main[j].by => i = j
  /\ \A i \in DOMAIN main : result[main[i].by] # "refused"

\* What the guard does ensure: when it was shown all the paths of a revision, that
\* revision is what is merged, and what main had when the diff was taken it still
\* has, then no protected file changes on main.  A main that was taken back
\* meanwhile gets more than the guard was shown.
GuardHolds == \A i \in DOMAIN main :
  LET m == main[i]
      s == seen[m.by]
      before == UNION {main[j].brings : j \in 1..(i - 1)}
  IN  s # None /\ s.rev = m.rev /\ s.base \subseteq before
        => \A c \in m.brings : c.touches = "scoped"

\* Scripts, kills, lost answers and rollbacks in any order leave main a log that
\* only grows by one change for each attempt to set last-good: a rollback undoes
\* "the most recent apply" (self_mod/connector.py:105), and one more for each
\* tag that could not be set.
Log == INSTANCE MainLog WITH
  Changes <- Merged, Unmarked <- None, log <- main, mark <- lastGood, missed <- untagged

KeepsLog == Log!Spec

-----------------------------------------------------------------------------
(* Together                                                                *)

\* Main, and the tag it goes back to.
RepoInv == TypeOK /\ LastGoodIsBehind /\ MainIsGreen

\* What is on main was merged once and by the guard's leave.
MergesAreGuarded == MergesOnce /\ GuardHolds
=============================================================================
