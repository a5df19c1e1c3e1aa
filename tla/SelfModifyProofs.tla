-------------------------- MODULE SelfModifyProofs --------------------------
(***************************************************************************)
(* Theorems about SelfModify for any requests, branches and revisions, and *)
(* below about Vault.                                                      *)
(***************************************************************************)
EXTENDS SelfModify, Vault, SequenceTheorems, FiniteSetTheorems, WellFoundedInduction, TLAPS

\* One script runs in the checkout at a time.
OneScript == \A r, s \in Requests : script[r] \in Running /\ script[s] \in Running => r = s

\* A script is sent once, and a request that was refused sends none.
SentOnce == \A r \in Requests :
  /\ pc[r] \in {"idle", "diff"} => script[r] = "none"
  /\ result[r] = "refused" => pc[r] = "done" /\ script[r] = "none"

\* What is diffed, guarded and merged is a branch, and what is sent at once is not.
HasTarget == \A r \in Requests :
  /\ pc[r] = "idle" => target[r] = None
  /\ pc[r] = "diff" => target[r] \in Branches
  /\ script[r] \in Running => target[r] \in Branches

\* Main is few changes ahead of the tag, and fewer before the merge.
FewBehind ==
  /\ Log!FewAhead
  /\ (\E r \in Requests : script[r] = "tagged") => Len(main) <= Len(Log!Base) + untagged

\* Every way back is to a known state.
WaysBackAreKnown == lastGood # None => lastGood \in known

\* Who is on main has got as far as the merge.
HasMerged == \A i \in DOMAIN main : script[main[i].by] \in {"merged", "red", "over"}

\* What the guard was shown still tells of what would be merged, as long as the
\* branch is at the revision it was shown.
GuardIsCurrent == \A r \in Requests :
  script[r] \in {"queued", "tagged"} /\ target[r] # None /\ seen[r] # None =>
    /\ seen[r].rev <= rev[target[r]]
    /\ seen[r].rev = rev[target[r]]
         => \A c \in work[target[r]] \ seen[r].base : c.touches = "scoped"

\* The inductive invariant.
IInv ==
  /\ RepoInv
  /\ MergesAreGuarded
  /\ OneScript /\ SentOnce /\ HasTarget /\ FewBehind
  /\ WaysBackAreKnown /\ HasMerged /\ GuardIsCurrent

-----------------------------------------------------------------------------
(* Sequences                                                               *)

\* A sequence is a prefix of itself, and the empty one of every sequence.
LEMMA PrefixRefl ==
  ASSUME NEW S, NEW s \in Seq(S)
  PROVE  IsPrefix(s, s) /\ IsPrefix(<<>>, s)
BY DEF IsPrefix

\* A prefix stays one when the longer sequence grows.
LEMMA PrefixAppend ==
  ASSUME NEW S, NEW s \in Seq(S), NEW t \in Seq(S), NEW e \in S, IsPrefix(s, t)
  PROVE  IsPrefix(s, Append(t, e))
BY DEF IsPrefix

\* A prefix has the longer sequence's elements.
LEMMA PrefixElements ==
  ASSUME NEW S, NEW s \in Seq(S), NEW t \in Seq(S), IsPrefix(s, t)
  PROVE  \A i \in DOMAIN s : i \in DOMAIN t /\ s[i] = t[i]
BY DEF IsPrefix

\* What was appended is the last, and what it was appended to comes before.
LEMMA AppendEnds ==
  ASSUME NEW S, NEW s \in Seq(S), NEW e \in S
  PROVE  /\ Append(s, e) # <<>> /\ Front(Append(s, e)) = s /\ Last(Append(s, e)) = e
         /\ Len(Append(s, e)) = Len(s) + 1
<1>1. Len(Append(s, e)) = Len(s) + 1
  OBVIOUS
<1>2. Front(Append(s, e)) = s
  BY <1>1 DEF Front
<1>3. QED
  BY <1>1, <1>2 DEF Last

\* MainLog's sequence operators are the ones used here.
LEMMA LogNames ==
  ASSUME NEW s, NEW t
  PROVE  /\ Log!IsPrefix(s, t) <=> IsPrefix(s, t)
         /\ Log!Front(s) = Front(s) /\ Log!Last(s) = Last(s)
BY DEF IsPrefix, Log!IsPrefix, Front, Log!Front, Last, Log!Last


-----------------------------------------------------------------------------
(* Types                                                                   *)

\* The commits of main are commits, and so are those a branch has beyond them.
LEMMA ContentTypes ==
  ASSUME TypeOK, NEW b \in Branches
  PROVE  Contents(main) \subseteq Commits /\ News(b) \subseteq Commits /\ rev[b] \in 0..MaxRev
<1>1. main \in Seq(Merged) /\ work[b] \subseteq Commits /\ rev[b] \in 0..MaxRev
  BY DEF TypeOK
<1>2. \A i \in DOMAIN main : main[i] \in Merged
  BY <1>1
<1>3. \A i \in DOMAIN main : main[i].brings \subseteq Commits
  BY <1>2 DEF Merged
<1>4. QED
  BY <1>1, <1>3 DEF Contents, News

\* The initial state has the right types.
LEMMA InitType == Init => TypeOK
<1> SUFFICES ASSUME Init PROVE TypeOK
  OBVIOUS
<1>1. /\ frozen \in BOOLEAN /\ restart \in BOOLEAN
      /\ pc \in [Requests -> {"idle", "diff", "script", "audit", "done", "dead"}]
      /\ target \in [Requests -> Branches \cup {None}]
      /\ seen \in [Requests -> Diffs \cup {None}]
      /\ result \in [Requests -> Results \cup {None}]
      /\ out \in [Requests -> {"none", "ok", "rolled back", "failed"}]
  BY DEF Init
<1>2. /\ rev \in [Branches -> 0..MaxRev]
      /\ work \in [Branches -> SUBSET Commits]
  BY SelfAssumption DEF Init
<1>3. script \in [Requests -> {"none", "queued", "over"} \cup Running]
  BY DEF Init
<1>4. /\ main \in Seq(Merged) /\ lastGood \in Seq(Merged) \cup {None} /\ known \subseteq Seq(Merged)
      /\ untagged \in Nat
  BY DEF Init
<1>5. QED
  BY <1>1, <1>2, <1>3, <1>4 DEF TypeOK

\* Steps of the operator and of the server.
LEMMA ServerType ==
  ASSUME TypeOK, NEW r \in Requests,
         Refuse(r) \/ (\E b \in Branches : Apply(r, b)) \/ Rollback(r)
           \/ ScriptAnswered(r) \/ ScriptTimesOut(r) \/ Audited(r)
  PROVE  TypeOK'
<1>1. UNCHANGED <<seen, rev, work, main, lastGood, known, untagged>>
  BY DEF Refuse, Apply, Rollback, ScriptAnswered, ScriptTimesOut, Audited, branchVars, repoVars, logVars
<1>2. frozen' \in BOOLEAN /\ restart' \in BOOLEAN
  BY DEF TypeOK, Refuse, Apply, Rollback, ScriptAnswered, ScriptTimesOut, Audited, RequestRestart
<1>3. pc' \in [Requests -> {"idle", "diff", "script", "audit", "done", "dead"}]
  BY DEF TypeOK, Refuse, Apply, Rollback, ScriptAnswered, ScriptTimesOut, Audited, Answer
<1>4. target' \in [Requests -> Branches \cup {None}]
  BY DEF TypeOK, Refuse, Apply, Rollback, ScriptAnswered, ScriptTimesOut, Audited
<1>5. result' \in [Requests -> Results \cup {None}]
  BY DEF TypeOK, Refuse, Apply, Rollback, ScriptAnswered, ScriptTimesOut, Audited, Answer, Results
<1>6. script' \in [Requests -> {"none", "queued", "over"} \cup Running]
  BY DEF TypeOK, Refuse, Apply, Rollback, ScriptAnswered, ScriptTimesOut, Audited, repoVars
<1>7. out' \in [Requests -> {"none", "ok", "rolled back", "failed"}]
  BY DEF TypeOK, Refuse, Apply, Rollback, ScriptAnswered, ScriptTimesOut, Audited
<1>8. QED
  BY <1>1, <1>2, <1>3, <1>4, <1>5, <1>6, <1>7 DEF TypeOK

\* A proposal counts a branch's revision up to the bound.
LEMMA ProposeType ==
  ASSUME TypeOK, NEW b \in Branches, Propose(b)
  PROVE  TypeOK'
<1>1. UNCHANGED <<frozen, pc, target, seen, out, result, restart, script,
                  main, lastGood, known, untagged>>
  BY DEF Propose, serverVars, repoVars, logVars
<1>2. rev \in [Branches -> 0..MaxRev] /\ rev[b] + 1 \in 1..MaxRev
  <2>1. rev \in [Branches -> 0..MaxRev]
    BY DEF TypeOK
  <2>2. rev[b] \in 0..MaxRev /\ rev[b] < MaxRev
    BY <2>1 DEF Propose
  <2>3. QED
    BY <2>1, <2>2, SelfAssumption
<1>3. rev' \in [Branches -> 0..MaxRev]
  BY <1>2, SelfAssumption DEF Propose
<1>4. work' \in [Branches -> SUBSET Commits]
  <2>1. PICK base \in {work[c] : c \in Branches} \cup {Contents(main)},
             touches \in {"scoped", "protected"} :
          work' = [work EXCEPT ![b] =
                     base \cup {[branch |-> b, rev |-> rev[b] + 1, touches |-> touches]}]
    BY DEF Propose
  <2>2. work \in [Branches -> SUBSET Commits] /\ Contents(main) \subseteq Commits
    BY ContentTypes DEF TypeOK
  <2>3. [branch |-> b, rev |-> rev[b] + 1, touches |-> touches] \in Commits
    BY <1>2 DEF Commits
  <2>4. base \subseteq Commits
    BY <2>1, <2>2
  <2>5. QED
    BY <2>1, <2>2, <2>3, <2>4
<1>5. QED
  BY <1>1, <1>3, <1>4 DEF TypeOK

\* A verdict keeps what the guard was shown.
LEMMA GuardType ==
  ASSUME TypeOK, NEW r \in Requests, target[r] \in Branches, NEW lines, Guard(r, lines)
  PROVE  TypeOK'
<1>1. UNCHANGED <<frozen, target, out, restart, rev, work, main, lastGood, known, untagged>>
  BY DEF Guard, branchVars, logVars
<1>2. seen' \in [Requests -> Diffs \cup {None}]
  <2>1. rev[target[r]] \in 0..MaxRev /\ Contents(main) \in SUBSET Commits
    BY ContentTypes
  <2>2. SeenOf(target[r], lines) \in Diffs \cup {None}
    BY <2>1 DEF SeenOf, Diffs
  <2>3. QED
    BY <2>2 DEF Guard, TypeOK
<1>3. pc' \in [Requests -> {"idle", "diff", "script", "audit", "done", "dead"}]
  BY DEF TypeOK, Guard, Answer
<1>4. result' \in [Requests -> Results \cup {None}]
  BY DEF TypeOK, Guard, Answer, Results
<1>5. script' \in [Requests -> {"none", "queued", "over"} \cup Running]
  BY DEF TypeOK, Guard
<1>6. QED
  BY <1>1, <1>2, <1>3, <1>4, <1>5 DEF TypeOK

\* A restart of the server keeps the types.
LEMMA RestartType ==
  ASSUME TypeOK, Restart
  PROVE  TypeOK'
<1>1. UNCHANGED <<frozen, target, seen, result, rev, work, main, lastGood, known, untagged>>
  BY DEF Restart, branchVars, logVars
<1>2. restart' \in BOOLEAN /\ out' \in [Requests -> {"none", "ok", "rolled back", "failed"}]
  BY DEF Restart
<1>3. pc' \in [Requests -> {"idle", "diff", "script", "audit", "done", "dead"}]
  BY DEF TypeOK, Restart
<1>4. script' \in [Requests -> {"none", "queued", "over"} \cup Running]
  BY DEF TypeOK, Restart
<1>5. QED
  BY <1>1, <1>2, <1>3, <1>4 DEF TypeOK

\* A request's commit.
LEMMA CommitType ==
  ASSUME TypeOK, NEW r \in Requests, target[r] \in Branches
  PROVE  Commit(r) \in Merged
BY ContentTypes DEF Commit, Merged

\* A command of a script keeps the types: main and the tag are sequences of merges.
LEMMA ScriptType ==
  ASSUME TypeOK, NEW r \in Requests, ScriptStep(r),
         script[r] \in Running => target[r] \in Branches
  PROVE  TypeOK'
<1>1. UNCHANGED <<frozen, pc, target, seen, result, restart, rev, work>>
  BY DEF ScriptStep, NotRun, Tag, Merge, MergeFails, TestsPass, TestsFail, Reset, ResetFails,
     RollbackRuns, Kill, Runs, branchVars
<1>2. script' \in [Requests -> {"none", "queued", "over"} \cup Running]
  BY ZenonT(60) DEF TypeOK, ScriptStep, NotRun, Tag, Merge, MergeFails, TestsPass, TestsFail, Reset,
     ResetFails, RollbackRuns, Kill, Runs, Running
<1>3. out' \in [Requests -> {"none", "ok", "rolled back", "failed"}]
  BY DEF TypeOK, ScriptStep, NotRun, Tag, Merge, MergeFails, TestsPass, TestsFail, Reset,
     ResetFails, RollbackRuns, Kill, Runs
<1>4. /\ main \in Seq(Merged) /\ lastGood \in Seq(Merged) \cup {None} /\ known \subseteq Seq(Merged)
      /\ untagged \in Nat
  BY DEF TypeOK
<1>5. main' \in Seq(Merged)
  <2>1. CASE Merge(r)
    BY <2>1, <1>4, CommitType DEF Merge, Running
  <2>2. CASE Reset(r)
    BY <2>2, <1>4 DEF Reset
  <2>3. CASE RollbackRuns(r)
    BY <2>3, <1>4 DEF RollbackRuns
  <2>4. CASE NotRun(r) \/ Tag(r) \/ MergeFails(r) \/ TestsPass(r) \/ TestsFail(r)
             \/ ResetFails(r) \/ Kill(r)
    BY <2>4, <1>4 DEF NotRun, Tag, MergeFails, TestsPass, TestsFail, ResetFails, Kill, logVars
  <2>5. QED
    BY <2>1, <2>2, <2>3, <2>4 DEF ScriptStep
<1>6. lastGood' \in Seq(Merged) \cup {None} /\ untagged' \in Nat
  <2>1. CASE Tag(r)
    BY <2>1, <1>4 DEF Tag
  <2>2. CASE ~ Tag(r)
    <3>1. UNCHANGED <<lastGood, untagged>>
      BY <2>2 DEF ScriptStep, NotRun, Merge, MergeFails, TestsPass, TestsFail, Reset, ResetFails,
         RollbackRuns, Kill, logVars
    <3>2. QED
      BY <3>1, <1>4
  <2>3. QED
    BY <2>1, <2>2
<1>7. known' \subseteq Seq(Merged)
  BY <1>4 DEF ScriptStep, NotRun, Tag, Merge, MergeFails, TestsPass, TestsFail, Reset, ResetFails,
     RollbackRuns, Kill, logVars
<1>8. QED
  BY <1>1, <1>2, <1>3, <1>5, <1>6, <1>7 DEF TypeOK

\* What the proofs below need of the types.
LEMMA Facts ==
  ASSUME TypeOK
  PROVE  /\ DOMAIN pc = Requests /\ DOMAIN target = Requests /\ DOMAIN seen = Requests
         /\ DOMAIN result = Requests /\ DOMAIN script = Requests
         /\ \A r \in Requests : target[r] # None => target[r] \in Branches
         /\ \A r \in Requests : seen[r] # None => seen[r].rev \in Nat
         /\ \A b \in Branches : rev[b] \in Nat
         /\ \A i \in DOMAIN main : main[i] \in Merged /\ main[i].by \in Requests
<1>1. /\ DOMAIN pc = Requests /\ DOMAIN target = Requests /\ DOMAIN seen = Requests
      /\ DOMAIN result = Requests /\ DOMAIN script = Requests
  BY DEF TypeOK
<1>2. \A r \in Requests : target[r] # None => target[r] \in Branches
  BY DEF TypeOK
<1>3. \A r \in Requests : seen[r] # None => seen[r].rev \in Nat
  <2>1. seen \in [Requests -> Diffs \cup {None}]
    BY DEF TypeOK
  <2>2. QED
    BY <2>1, SelfAssumption DEF Diffs
<1>4. \A b \in Branches : rev[b] \in Nat
  <2>1. rev \in [Branches -> 0..MaxRev]
    BY DEF TypeOK
  <2>2. QED
    BY <2>1, SelfAssumption
<1>5. \A i \in DOMAIN main : main[i] \in Merged /\ main[i].by \in Requests
  <2>1. main \in Seq(Merged)
    BY DEF TypeOK
  <2>2. \A i \in DOMAIN main : main[i] \in Merged
    BY <2>1
  <2>3. QED
    BY <2>2 DEF Merged
<1>6. QED
  BY <1>1, <1>2, <1>3, <1>4, <1>5

\* Where the tag is, the log can go back to.
LEMMA BaseFacts ==
  ASSUME TypeOK, LastGoodIsBehind
  PROVE  /\ Log!Base \in Seq(Merged) /\ IsPrefix(Log!Base, main)
         /\ main \in Seq(Merged) /\ untagged \in Nat
<1>1. main \in Seq(Merged) /\ lastGood \in Seq(Merged) \cup {None} /\ untagged \in Nat
  BY DEF TypeOK
<1>2. QED
  BY <1>1, PrefixRefl DEF Log!Base, LastGoodIsBehind

-----------------------------------------------------------------------------
(* Steps of the operator and of the server: main and the tag stay          *)

\* The invariant holds at first.
LEMMA InitInv == Init => IInv
<1> SUFFICES ASSUME Init PROVE IInv
  OBVIOUS
<1>1. TypeOK
  BY InitType
<1>2. LastGoodIsBehind /\ MainIsGreen /\ WaysBackAreKnown
  BY DEF Init, LastGoodIsBehind, MainIsGreen, WaysBackAreKnown
<1>3. MergesAreGuarded /\ HasMerged
  BY DEF Init, MergesAreGuarded, MergesOnce, GuardHolds, HasMerged
<1>4. OneScript /\ SentOnce /\ HasTarget /\ GuardIsCurrent
  BY SelfAssumption DEF Init, OneScript, SentOnce, HasTarget, GuardIsCurrent, Running, Results
<1>5. FewBehind
  <2>1. main = <<>> /\ lastGood = None /\ untagged = 0
    BY DEF Init
  <2>2. Log!Base = <<>> /\ Len(main) = 0
    BY <2>1 DEF Log!Base
  <2>3. IsPrefix(Log!Base, main)
    BY <1>1, <1>2, BaseFacts
  <2>4. Len(main) <= Len(Log!Base) + untagged /\ Len(main) <= Len(Log!Base) + untagged + 1
    BY <2>1, <2>2
  <2>5. QED
    BY <2>3, <2>4, LogNames DEF FewBehind, Log!FewAhead
<1>6. QED
  BY <1>1, <1>2, <1>3, <1>4, <1>5 DEF IInv, RepoInv

\* What is said of main, its tag and the scripts on it alone.
LEMMA LogKept ==
  ASSUME IInv, UNCHANGED logVars,
         \A r \in Requests : script'[r] \in Running \/ script[r] \in Running
                               => script'[r] = script[r]
  PROVE  /\ LastGoodIsBehind' /\ MainIsGreen' /\ OneScript' /\ FewBehind' /\ WaysBackAreKnown'
<1>1. UNCHANGED <<main, lastGood, known, untagged>>
  BY DEF logVars
<1>2. Log!Base' = Log!Base
  BY <1>1 DEF Log!Base
<1>3. LastGoodIsBehind' /\ MainIsGreen' /\ OneScript' /\ WaysBackAreKnown'
  BY <1>1 DEF IInv, RepoInv, LastGoodIsBehind, MainIsGreen, OneScript, WaysBackAreKnown, Running
<1>4. FewBehind'
  BY <1>1, <1>2 DEF IInv, FewBehind, Log!FewAhead, Running
<1>5. QED
  BY <1>3, <1>4

\* Steps that leave the scripts and the repository, and what the guard was shown.
LEMMA RequestInv ==
  ASSUME IInv, NEW r \in Requests,
         Refuse(r) \/ (\E b \in Branches : Apply(r, b)) \/ ScriptAnswered(r)
           \/ ScriptTimesOut(r) \/ Audited(r)
  PROVE  IInv'
<1>1. UNCHANGED <<seen, rev, work, script, main, logVars>>
  BY DEF Refuse, Apply, ScriptAnswered, ScriptTimesOut, Audited, branchVars, repoVars, logVars
<1>2. TypeOK /\ TypeOK'
  BY ServerType DEF IInv, RepoInv
<1>3. \A q \in Requests : q # r =>
        pc'[q] = pc[q] /\ target'[q] = target[q] /\ result'[q] = result[q]
  BY <1>2, Facts DEF Refuse, Apply, ScriptAnswered, ScriptTimesOut, Audited, Answer
<1>4. DOMAIN pc = Requests /\ DOMAIN target = Requests /\ DOMAIN result = Requests
  BY <1>2, Facts
<1>5. \/ pc[r] = "idle" /\ pc'[r] = "done" /\ result'[r] = "refused" /\ target'[r] = target[r]
      \/ pc[r] = "idle" /\ pc'[r] = "diff" /\ result'[r] = result[r] /\ target'[r] \in Branches
      \/ /\ pc[r] \in {"script", "audit"} /\ pc'[r] \in {"done", "audit"}
         /\ result'[r] = result[r] \/ result'[r] # "refused"
         /\ target'[r] = target[r]
  <2>1. CASE Refuse(r)
    BY <2>1, <1>4 DEF Refuse, Answer
  <2>2. CASE \E b \in Branches : Apply(r, b)
    BY <2>2, <1>4 DEF Apply
  <2>3. CASE ScriptAnswered(r)
    BY <2>3, <1>4 DEF ScriptAnswered, Answer
  <2>4. CASE ScriptTimesOut(r) \/ Audited(r)
    BY <2>4, <1>4 DEF ScriptTimesOut, Audited, Answer
  <2>5. QED
    BY <2>1, <2>2, <2>3, <2>4
<1>6. SentOnce'
  BY <1>1, <1>3, <1>5 DEF IInv, SentOnce
<1>7. HasTarget'
  BY <1>1, <1>3, <1>5 DEF IInv, HasTarget, SentOnce
<1>8. \A q \in Requests : script[q] # "none" => target'[q] = target[q]
  BY <1>3, <1>5 DEF IInv, SentOnce
<1>9. GuardIsCurrent'
  BY <1>1, <1>8 DEF IInv, GuardIsCurrent
<1>10. MergesOnce'
  BY <1>1, <1>2, <1>6, Facts DEF IInv, MergesAreGuarded, MergesOnce, HasMerged, SentOnce
<1>11. GuardHolds' /\ HasMerged'
  BY <1>1 DEF IInv, MergesAreGuarded, GuardHolds, HasMerged
<1>12. LastGoodIsBehind' /\ MainIsGreen' /\ OneScript' /\ FewBehind' /\ WaysBackAreKnown'
  BY <1>1, LogKept
<1>13. QED
  BY <1>2, <1>6, <1>7, <1>9, <1>10, <1>11, <1>12 DEF IInv, RepoInv, MergesAreGuarded

\* A freeze or a proposal: a branch that is proposed anew is no longer at the revision the guard was shown.
LEMMA OperatorInv ==
  ASSUME IInv, Freeze \/ \E b \in Branches : Propose(b)
  PROVE  IInv'
<1>1. UNCHANGED <<pc, target, seen, result, script, main, logVars>>
  BY DEF Freeze, Propose, serverVars, repoVars, logVars
<1>2. TypeOK /\ TypeOK'
  <2>1. TypeOK
    BY DEF IInv, RepoInv
  <2>2. CASE \E b \in Branches : Propose(b)
    BY <2>1, <2>2, ProposeType
  <2>3. CASE Freeze
    BY <2>1, <2>3 DEF Freeze, TypeOK, branchVars, repoVars, logVars
  <2>4. QED
    BY <2>1, <2>2, <2>3
<1>3. GuardIsCurrent'
  <2>1. CASE UNCHANGED <<rev, work>>
    BY <1>1, <2>1 DEF IInv, GuardIsCurrent
  <2>2. CASE \E b \in Branches : Propose(b)
    <3>1. PICK b \in Branches : Propose(b)
      BY <2>2
    <3>2. /\ \A c \in Branches : rev[c] \in Nat
          /\ \A q \in Requests : seen[q] # None => seen[q].rev \in Nat
      BY <1>2, Facts
    <3>3. /\ rev'[b] = rev[b] + 1
          /\ \A c \in Branches : c # b => rev'[c] = rev[c] /\ work'[c] = work[c]
      BY <3>1, <1>2 DEF Propose, TypeOK
    <3>4. \A q \in Requests : target[q] # None => target[q] \in Branches
      BY <1>2, Facts
    <3>5. QED
      BY <1>1, <3>2, <3>3, <3>4 DEF IInv, GuardIsCurrent
  <2>3. QED
    BY <2>1, <2>2 DEF Freeze, branchVars
<1>4. MergesAreGuarded'
  BY <1>1 DEF IInv, MergesAreGuarded, MergesOnce, GuardHolds
<1>5. SentOnce' /\ HasTarget' /\ HasMerged'
  BY <1>1 DEF IInv, SentOnce, HasTarget, HasMerged
<1>6. LastGoodIsBehind' /\ MainIsGreen' /\ OneScript' /\ FewBehind' /\ WaysBackAreKnown'
  BY <1>1, LogKept
<1>7. QED
  BY <1>2, <1>3, <1>4, <1>5, <1>6 DEF IInv, RepoInv

\* A script is sent, or refused by the guard.
LEMMA QueueInv ==
  ASSUME IInv, NEW r \in Requests, Rollback(r) \/ DiffAnswered(r) \/ DiffLost(r)
  PROVE  IInv'
<1> DEFINE Told(lines) ==
      /\ pc[r] = "diff"
      /\ Guard(r, lines)
      /\ lines = "scoped" => \A c \in News(target[r]) : c.touches = "scoped"
<1>1. TypeOK /\ SentOnce /\ OneScript
  BY DEF IInv, RepoInv
<1>2. Rollback(r) \/ \E lines \in {"text", "scoped", "protected", "cut"} : Told(lines)
  <2>1. CASE DiffAnswered(r)
    <3>1. target[r] \in Branches
      BY <2>1 DEF IInv, HasTarget, DiffAnswered
    <3>2. \A c \in News(target[r]) : c.touches \in {"scoped", "protected"}
      BY <3>1, <1>1, ContentTypes DEF Commits
    <3>3. \A lines \in DiffOutputs(target[r]) :
            /\ lines \in {"text", "scoped", "protected", "cut"}
            /\ lines = "scoped" => \A c \in News(target[r]) : c.touches = "scoped"
      BY <3>2 DEF DiffOutputs
    <3>4. QED
      BY <3>3, <2>1 DEF DiffAnswered
  <2>2. QED
    BY <2>1 DEF DiffLost
<1>3. UNCHANGED <<target, rev, work, main, logVars>> /\ script[r] = "none"
  BY <1>1, <1>2 DEF Rollback, Guard, SentOnce, branchVars, logVars
<1>4. TypeOK'
  <2>1. CASE Rollback(r)
    BY <1>1, <2>1, ServerType
  <2>2. CASE \E lines \in {"text", "scoped", "protected", "cut"} : Told(lines)
    BY <1>1, <2>2, GuardType DEF IInv, HasTarget
  <2>3. QED
    BY <1>2, <2>1, <2>2
<1>5. /\ \A q \in Requests : q # r =>
           /\ pc'[q] = pc[q] /\ script'[q] = script[q]
           /\ result'[q] = result[q] /\ seen'[q] = seen[q]
      /\ result[r] # "refused"
  BY <1>1, <1>2, Facts DEF Rollback, Guard, Answer, SentOnce
<1>6. \/ pc'[r] = "script" /\ script'[r] = "queued" /\ result'[r] = result[r]
      \/ pc'[r] = "done" /\ script'[r] = "none" /\ result'[r] = "refused"
  BY <1>1, <1>2, <1>3, Facts DEF Rollback, Guard, Answer
<1>7. SentOnce'
  BY <1>1, <1>5, <1>6 DEF SentOnce
<1>8. HasTarget'
  BY <1>1, <1>3, <1>5, <1>6 DEF IInv, HasTarget, Running
<1>9. LastGoodIsBehind' /\ MainIsGreen' /\ OneScript' /\ FewBehind' /\ WaysBackAreKnown'
  <2>1. \A q \in Requests : script'[q] \in Running \/ script[q] \in Running
                              => script'[q] = script[q]
    BY <1>3, <1>5, <1>6 DEF Running
  <2>2. QED
    BY <2>1, <1>3, LogKept
<1>10. \A i \in DOMAIN main : main[i].by \in Requests /\ main[i].by # r
  BY <1>1, <1>3, Facts DEF IInv, HasMerged
<1>11. HasMerged' /\ MergesOnce' /\ GuardHolds'
  BY <1>3, <1>5, <1>10 DEF IInv, HasMerged, MergesAreGuarded, MergesOnce, GuardHolds
<1>12. GuardIsCurrent'
  <2>1. CASE Rollback(r)
    BY <2>1, <1>3, <1>5 DEF Rollback, IInv, GuardIsCurrent, HasTarget
  <2>2. CASE \E lines \in {"text", "scoped", "protected", "cut"} : Told(lines)
    <3>1. PICK lines \in {"text", "scoped", "protected", "cut"} : Told(lines)
      BY <2>2
    <3>2. target[r] \in Branches /\ rev[target[r]] \in Nat
      BY <3>1, <1>1, Facts DEF IInv, HasTarget
    <3>3. seen'[r] = SeenOf(target[r], lines)
      BY <3>1, <1>1, Facts DEF Guard
    <3>4. lines = "protected" => script'[r] = "none"
      BY <3>1, <1>3 DEF Guard
    <3>5. script'[r] = "queued" /\ seen'[r] # None =>
            /\ seen'[r].rev = rev[target[r]]
            /\ \A c \in work[target[r]] \ seen'[r].base : c.touches = "scoped"
      BY <3>1, <3>3, <3>4 DEF SeenOf, News
    <3>6. QED
      BY <3>2, <3>4, <3>5, <1>3, <1>5, <1>6 DEF IInv, GuardIsCurrent
  <2>3. QED
    BY <1>2, <2>1, <2>2
<1>13. QED
  BY <1>4, <1>7, <1>8, <1>9, <1>11, <1>12 DEF IInv, RepoInv, MergesAreGuarded

\* The server goes down: scripts that nobody has fetched are gone.
LEMMA RestartInv ==
  ASSUME IInv, Restart
  PROVE  IInv'
<1>1. TypeOK /\ TypeOK'
  BY RestartType DEF IInv, RepoInv
<1>2. UNCHANGED <<target, seen, result, rev, work, main, logVars>>
  BY DEF Restart, branchVars, logVars
<1>3. \A r \in Requests : script'[r] = script[r] \/ (script[r] = "queued" /\ script'[r] = "over")
  <2>1. PICK fetched \in Requests \cup {None} :
          script' = [r \in Requests |->
                       IF script[r] = "queued" /\ r # fetched THEN "over" ELSE script[r]]
    BY DEF Restart
  <2>2. QED
    BY <2>1
<1>4. \A r \in Requests : pc'[r] = pc[r] \/ (pc[r] \in {"diff", "script", "audit"} /\ pc'[r] = "dead")
  BY DEF Restart
<1>5. \A r \in Requests : script'[r] \in Running \/ script[r] \in Running
                            => script'[r] = script[r]
  BY <1>3 DEF Running
<1>6. SentOnce' /\ HasTarget'
  BY <1>2, <1>3, <1>4, <1>5 DEF IInv, SentOnce, HasTarget
<1>7. LastGoodIsBehind' /\ MainIsGreen' /\ OneScript' /\ FewBehind' /\ WaysBackAreKnown'
  BY <1>2, <1>5, LogKept
<1>8. HasMerged' /\ MergesOnce' /\ GuardHolds'
  BY <1>1, <1>2, <1>3, Facts DEF IInv, HasMerged, MergesAreGuarded, MergesOnce, GuardHolds
<1>9. GuardIsCurrent'
  BY <1>2, <1>3 DEF IInv, GuardIsCurrent
<1>10. QED
  BY <1>1, <1>6, <1>7, <1>8, <1>9 DEF IInv, RepoInv, MergesAreGuarded

-----------------------------------------------------------------------------
(* Steps of the scripts                                                    *)

\* A command of a script moves its request's script, and nobody else's.
LEMMA RunsOnly ==
  ASSUME TypeOK, NEW r \in Requests, NEW s, NEW o, Runs(r, s, o)
  PROVE  /\ UNCHANGED <<pc, target, seen, result, rev, work>>
         /\ script'[r] = s
         /\ \A q \in Requests : q # r => script'[q] = script[q]
<1>1. DOMAIN script = Requests
  BY Facts
<1>2. QED
  BY <1>1 DEF Runs, branchVars

\* What every command keeps: who is on main stays on it, or nobody new comes.
LEMMA ScriptKeeps ==
  ASSUME IInv, NEW r \in Requests, NEW s \in {"tagged", "merged", "red", "over"}, NEW o,
         Runs(r, s, o),
         script[r] \in {"queued"} \cup Running,
         script[r] \in {"merged", "red"} => s \in {"merged", "red", "over"},
         s = "tagged" => script[r] = "queued",
         \A i \in DOMAIN main' : i \in DOMAIN main /\ main'[i] = main[i],
         \A i \in DOMAIN main' : \A j \in 1..(i - 1) : j \in DOMAIN main'
  PROVE  SentOnce' /\ GuardIsCurrent' /\ HasMerged' /\ MergesAreGuarded'
<1>1. TypeOK
  BY DEF IInv, RepoInv
<1>2. /\ UNCHANGED <<pc, target, seen, result, rev, work>>
      /\ script'[r] = s
      /\ \A q \in Requests : q # r => script'[q] = script[q]
  BY <1>1, RunsOnly
<1>3. SentOnce'
  BY <1>2 DEF IInv, SentOnce, Running
<1>4. GuardIsCurrent'
  BY <1>2 DEF IInv, GuardIsCurrent
<1>5. \A i \in DOMAIN main : main[i].by \in Requests
  BY <1>1, Facts
<1>6. HasMerged'
  BY <1>2, <1>5 DEF IInv, HasMerged, Running
<1>7. MergesOnce'
  BY <1>2, <1>5 DEF IInv, MergesAreGuarded, MergesOnce
<1>8. GuardHolds'
  <2>1. \A i \in DOMAIN main' : {main'[j].brings : j \in 1..(i - 1)} = {main[j].brings : j \in 1..(i - 1)}
    OBVIOUS
  <2>2. QED
    BY <1>2, <2>1 DEF IInv, MergesAreGuarded, GuardHolds
<1>9. QED
  BY <1>3, <1>4, <1>6, <1>7, <1>8 DEF MergesAreGuarded

\* A log that is main or the tag has no more than main has, in the same order.
LEMMA Shorter ==
  ASSUME IInv, TypeOK', main' = main \/ (lastGood # None /\ main' = lastGood)
  PROVE  /\ \A i \in DOMAIN main' : i \in DOMAIN main /\ main'[i] = main[i]
         /\ \A i \in DOMAIN main' : \A j \in 1..(i - 1) : j \in DOMAIN main'
         /\ lastGood' = lastGood => LastGoodIsBehind'
         /\ UNCHANGED <<lastGood, untagged>> => Log!FewAhead'
         /\ main \in known => main' \in known
<1>1. /\ TypeOK /\ LastGoodIsBehind /\ Log!FewAhead
      /\ main \in Seq(Merged) /\ main' \in Seq(Merged) /\ untagged \in Nat
      /\ lastGood # None => lastGood \in Seq(Merged) /\ IsPrefix(lastGood, main) /\ lastGood \in known
  BY DEF IInv, RepoInv, TypeOK, FewBehind, WaysBackAreKnown, LastGoodIsBehind
<1>2. \A i \in DOMAIN main' : i \in DOMAIN main /\ main'[i] = main[i]
  BY <1>1, PrefixElements
<1>3. \A i \in DOMAIN main' : \A j \in 1..(i - 1) : j \in DOMAIN main'
  BY <1>1
<1>4. lastGood' = lastGood => LastGoodIsBehind'
  BY <1>1, PrefixRefl DEF LastGoodIsBehind
<1>5. ASSUME UNCHANGED <<lastGood, untagged>> PROVE Log!FewAhead'
  <2>1. Log!Base' = Log!Base
    BY <1>5 DEF Log!Base
  <2>2. CASE main' = main
    BY <1>1, <1>5, <2>1, <2>2 DEF Log!FewAhead
  <2>3. CASE lastGood # None /\ main' = lastGood
    <3>1. Log!Base = main'
      BY <2>3 DEF Log!Base
    <3>2. Len(main') <= Len(main') + untagged + 1
      BY <1>1
    <3>3. QED
      BY <1>1, <1>5, <2>1, <3>1, <3>2, PrefixRefl, LogNames DEF Log!FewAhead
  <2>4. QED
    BY <2>2, <2>3
<1>6. QED
  BY <1>1, <1>2, <1>3, <1>4, <1>5

\* A script that fails before it has done anything.
LEMMA NotRunInv ==
  ASSUME IInv, NEW r \in Requests, NotRun(r)
  PROVE  IInv'
<1>1. TypeOK /\ TypeOK'
  BY ScriptType DEF IInv, RepoInv, HasTarget, ScriptStep
<1>2. PICK o \in {"none", "failed"} : Runs(r, "over", o)
  BY DEF NotRun
<1>3. UNCHANGED <<main, logVars>> /\ script[r] = "queued"
  BY DEF NotRun, logVars
<1>4. /\ UNCHANGED <<pc, target, seen, result, rev, work>>
      /\ script'[r] = "over"
      /\ \A q \in Requests : q # r => script'[q] = script[q]
  BY <1>1, <1>2, RunsOnly
<1>5. SentOnce' /\ GuardIsCurrent' /\ HasMerged' /\ MergesAreGuarded'
  BY <1>1, <1>2, <1>3, ScriptKeeps, Shorter DEF Running
<1>6. \A q \in Requests : script'[q] \in Running \/ script[q] \in Running => script'[q] = script[q]
  BY <1>3, <1>4 DEF Running
<1>7. LastGoodIsBehind' /\ MainIsGreen' /\ OneScript' /\ FewBehind' /\ WaysBackAreKnown'
  BY <1>3, <1>6, LogKept
<1>8. HasTarget'
  BY <1>4, <1>6 DEF IInv, HasTarget
<1>9. QED
  BY <1>1, <1>5, <1>7, <1>8 DEF IInv, RepoInv

\* The tag is set where main stands, or stays, and no other script is on main.
LEMMA TagInv ==
  ASSUME IInv, NEW r \in Requests, Tag(r)
  PROVE  IInv'
<1>1. TypeOK /\ TypeOK'
  BY ScriptType DEF IInv, RepoInv, HasTarget, ScriptStep
<1>2. /\ Runs(r, "tagged", "none") /\ script[r] = "queued" /\ WorkerFree
      /\ UNCHANGED <<main, known>>
      /\ \/ lastGood' = main /\ untagged' = 0
         \/ untagged' = untagged + 1 /\ lastGood' = lastGood
  BY DEF Tag
<1>3. /\ UNCHANGED <<pc, target, seen, result, rev, work>>
      /\ script'[r] = "tagged"
      /\ \A q \in Requests : q # r => script'[q] = script[q]
  BY <1>1, <1>2, RunsOnly
<1>4. SentOnce' /\ GuardIsCurrent' /\ HasMerged' /\ MergesAreGuarded'
  BY <1>1, <1>2, ScriptKeeps, Shorter DEF Running
<1>5. target[r] \in Branches
  BY <1>1, Facts DEF Tag
<1>6. main \in Seq(Merged) /\ main \in known
  BY <1>1, <1>2 DEF TypeOK, IInv, RepoInv, MainIsGreen, WorkerFree, Running
<1>7. OneScript' /\ HasTarget'
  BY <1>3, <1>2, <1>5 DEF IInv, OneScript, HasTarget, WorkerFree, Running
<1>8. LastGoodIsBehind'
  BY <1>2, <1>6, PrefixRefl DEF IInv, RepoInv, LastGoodIsBehind
<1>9. MainIsGreen' /\ WaysBackAreKnown'
  BY <1>2, <1>6 DEF MainIsGreen, IInv, WaysBackAreKnown
<1>10. FewBehind'
  <2>1. /\ IsPrefix(Log!Base, main) /\ Log!Base \in Seq(Merged) /\ untagged \in Nat
        /\ Len(main) <= Len(Log!Base) + untagged + 1
    BY <1>1, BaseFacts DEF IInv, RepoInv, FewBehind, Log!FewAhead
  <2>2. CASE lastGood' = main /\ untagged' = 0
    <3>1. Log!Base' = main
      BY <2>2, <1>2, <1>6, SelfAssumption DEF Log!Base
    <3>2. QED
      BY <1>2, <1>6, <2>2, <3>1, PrefixRefl, LogNames DEF FewBehind, Log!FewAhead
  <2>3. CASE untagged' = untagged + 1 /\ lastGood' = lastGood
    <3>1. Log!Base' = Log!Base
      BY <2>3 DEF Log!Base
    <3>2. Len(main) <= Len(Log!Base) + (untagged + 1)
      BY <2>1, <1>6
    <3>3. Len(main) <= Len(Log!Base) + (untagged + 1) + 1
      BY <2>1, <3>2, <1>6
    <3>4. QED
      BY <1>2, <2>1, <2>3, <3>1, <3>2, <3>3, LogNames DEF FewBehind, Log!FewAhead
  <2>4. QED
    BY <1>2, <2>2, <2>3
<1>11. QED
  BY <1>1, <1>4, <1>7, <1>8, <1>9, <1>10 DEF IInv, RepoInv

\* A merge adds at most the request's own commit: it has none yet, was not
\* refused, and its guard was shown this revision and this main, or others.
LEMMA MergeInv ==
  ASSUME IInv, NEW r \in Requests, Merge(r)
  PROVE  IInv'
<1> DEFINE b == target[r]
<1>1. TypeOK /\ TypeOK'
  BY ScriptType DEF IInv, RepoInv, HasTarget, ScriptStep
<1>2. /\ Runs(r, "merged", "none") /\ script[r] = "tagged" /\ UNCHANGED <<lastGood, known, untagged>>
      /\ main' = main \/ main' = Append(main, Commit(r))
  BY DEF Merge
<1>3. /\ UNCHANGED <<pc, target, seen, result, rev, work>>
      /\ script'[r] = "merged"
      /\ \A q \in Requests : q # r => script'[q] = script[q]
  BY <1>1, <1>2, RunsOnly
<1>4. /\ b \in Branches
      /\ \A q \in Requests : q # r => script[q] \notin Running
  BY <1>2 DEF IInv, HasTarget, OneScript, Running
<1>5. Commit(r) \in Merged /\ main \in Seq(Merged)
  BY <1>1, <1>4, CommitType DEF TypeOK
<1>6. \A i \in DOMAIN main : main[i].by \in Requests /\ main[i].by # r
  BY <1>1, <1>2, Facts DEF IInv, HasMerged
<1>7. \A i \in DOMAIN main' :
        /\ \/ i \in DOMAIN main /\ main'[i] = main[i]
           \/ i = Len(main) + 1 /\ main'[i] = Commit(r)
        /\ \A j \in 1..(i - 1) : j \in DOMAIN main /\ main'[j] = main[j]
  <2> TAKE i \in DOMAIN main'
  <2>2. DOMAIN main = 1..Len(main) /\ Len(main) \in Nat
    BY <1>5
  <2>3. CASE main' = main
    <3>1. i \in 1..Len(main)
      BY <2>2, <2>3
    <3>2. \A j \in 1..(i - 1) : j \in 1..Len(main)
      BY <2>2, <3>1
    <3>3. QED
      BY <2>2, <2>3, <3>1, <3>2
  <2>4. CASE main' = Append(main, Commit(r))
    <3>1. /\ DOMAIN main' = 1..(Len(main) + 1)
          /\ main'[Len(main) + 1] = Commit(r)
          /\ \A k \in 1..Len(main) : main'[k] = main[k]
      BY <1>5, <2>4
    <3>2. i \in 1..Len(main) \/ i = Len(main) + 1
      BY <2>2, <3>1
    <3>3. \A j \in 1..(i - 1) : j \in 1..Len(main)
      BY <2>2, <3>2
    <3>4. QED
      BY <2>2, <3>1, <3>2, <3>3
  <2>5. QED
    BY <1>2, <2>3, <2>4
<1>8. result[r] # "refused" /\ Commit(r).by = r
  BY <1>2 DEF IInv, SentOnce, Commit
<1>9. MergesOnce' /\ HasMerged'
  BY <1>3, <1>6, <1>7, <1>8 DEF IInv, MergesAreGuarded, MergesOnce, HasMerged
<1>10. seen[r] # None /\ seen[r].rev = rev[b]
         => \A c \in work[b] \ seen[r].base : c.touches = "scoped"
  BY <1>1, <1>2, <1>4, SelfAssumption DEF IInv, GuardIsCurrent
<1>11. GuardHolds'
  <2>1. \A i \in DOMAIN main' :
          {main'[j].brings : j \in 1..(i - 1)} = {main[j].brings : j \in 1..(i - 1)}
    BY <1>7
  <2>2. {main[j].brings : j \in 1..(Len(main) + 1 - 1)} = {main[j].brings : j \in DOMAIN main}
    BY <1>5
  <2>3. UNION {main[j].brings : j \in 1..(Len(main) + 1 - 1)} = Contents(main)
    BY <2>2 DEF Contents
  <2>4. /\ Commit(r).rev = rev[b] /\ Commit(r).brings = work[b] \ Contents(main)
    BY DEF Commit, News
  <2>5. SUFFICES ASSUME NEW i \in DOMAIN main', seen'[main'[i].by] # None,
                        seen'[main'[i].by].rev = main'[i].rev,
                        seen'[main'[i].by].base \subseteq UNION {main'[j].brings : j \in 1..(i - 1)},
                        NEW c \in main'[i].brings
                 PROVE  c.touches = "scoped"
    BY DEF GuardHolds
  <2>6. CASE i \in DOMAIN main /\ main'[i] = main[i]
    BY <2>1, <2>5, <2>6, <1>3 DEF IInv, MergesAreGuarded, GuardHolds
  <2>7. CASE i = Len(main) + 1 /\ main'[i] = Commit(r)
    <3>1. seen[r] # None /\ seen[r].rev = rev[b]
      BY <2>5, <2>7, <2>4, <1>3, <1>8
    <3>2. seen[r].base \subseteq Contents(main)
      <4>1. seen[r].base \subseteq UNION {main'[j].brings : j \in 1..(i - 1)}
        BY <2>5, <2>7, <1>3, <1>8
      <4>2. UNION {main'[j].brings : j \in 1..(i - 1)} = UNION {main[j].brings : j \in 1..(i - 1)}
        BY <2>1
      <4>3. UNION {main[j].brings : j \in 1..(i - 1)} = Contents(main)
        BY <2>3, <2>7
      <4>4. QED
        BY <4>1, <4>2, <4>3
    <3>3. c \in work[b] \ seen[r].base
      BY <3>2, <2>4, <2>5, <2>7
    <3>4. QED
      BY <3>1, <3>3, <1>10
  <2>8. QED
    BY <1>7, <2>6, <2>7
<1>12. MainIsGreen' /\ WaysBackAreKnown'
  BY <1>2, <1>3 DEF MainIsGreen, IInv, WaysBackAreKnown
<1>13. OneScript' /\ HasTarget'
  BY <1>2, <1>3, <1>4 DEF IInv, OneScript, HasTarget, Running
<1>14. LastGoodIsBehind'
  <2>1. lastGood' = lastGood /\ lastGood \in Seq(Merged) \cup {None}
    BY <1>1, <1>2 DEF TypeOK
  <2>2. lastGood # None => IsPrefix(lastGood, main)
    BY DEF IInv, RepoInv, LastGoodIsBehind
  <2>3. lastGood # None => IsPrefix(lastGood, main')
    BY <1>2, <1>5, <2>1, <2>2, PrefixAppend
  <2>4. QED
    BY <2>1, <2>3 DEF LastGoodIsBehind
<1>15. SentOnce' /\ GuardIsCurrent'
  BY <1>2, <1>3 DEF IInv, SentOnce, GuardIsCurrent
<1>16. FewBehind'
  <2>1. /\ IsPrefix(Log!Base, main) /\ Log!Base \in Seq(Merged) /\ untagged \in Nat
        /\ Len(main) <= Len(Log!Base) + untagged
    BY <1>1, <1>2, BaseFacts DEF IInv, RepoInv, FewBehind
  <2>2. Log!Base' = Log!Base
    BY <1>2 DEF Log!Base
  <2>3. \A q \in Requests : script'[q] # "tagged"
    BY <1>3, <1>4 DEF Running
  <2>4. IsPrefix(Log!Base, main')
    BY <1>2, <1>5, <2>1, PrefixAppend
  <2>5. Len(main') <= Len(Log!Base) + untagged + 1
    BY <1>2, <1>5, <2>1, AppendEnds
  <2>6. QED
    BY <1>2, <2>2, <2>3, <2>4, <2>5, LogNames DEF FewBehind, Log!FewAhead
<1>17. QED
  BY <1>1, <1>9, <1>11, <1>12, <1>13, <1>14, <1>15, <1>16 DEF IInv, RepoInv, MergesAreGuarded

\* The end of a merge, by whatever way, leaves main where its way back is, or
\* where it is known to have been left.
LEMMA MergeEndsInv ==
  ASSUME IInv, NEW r \in Requests,
         MergeFails(r) \/ TestsPass(r) \/ TestsFail(r) \/ Reset(r) \/ ResetFails(r) \/ Kill(r)
  PROVE  IInv'
<1>1. TypeOK /\ TypeOK'
  BY ScriptType DEF IInv, RepoInv, HasTarget, ScriptStep
<1>2. PICK to \in {"red", "over"}, o \in {"none", "ok", "rolled back", "failed"} :
        /\ Runs(r, to, o)
        /\ to = "red" => script[r] = "merged" /\ main' = main
        /\ \/ main' = main /\ known' = known /\ (to = "red" \/ script[r] = "tagged")
           \/ main' = main /\ known' = known \cup {main}
           \/ lastGood # None /\ main' = lastGood /\ known' = known
  <2>1. CASE MergeFails(r)
    BY <2>1 DEF MergeFails, logVars
  <2>2. CASE TestsPass(r)
    BY <2>2 DEF TestsPass
  <2>3. CASE TestsFail(r)
    BY <2>3 DEF TestsFail, logVars
  <2>4. CASE Reset(r)
    BY <2>4 DEF Reset
  <2>5. CASE ResetFails(r) \/ Kill(r)
    BY <2>5 DEF ResetFails, Kill
  <2>6. QED
    BY <2>1, <2>2, <2>3, <2>4, <2>5
<1>3. script[r] \in Running /\ UNCHANGED <<lastGood, untagged>>
  BY DEF MergeFails, TestsPass, TestsFail, Reset, ResetFails, Kill, Running, logVars
<1>4. /\ UNCHANGED <<pc, target, seen, result, rev, work>>
      /\ script'[r] = to
      /\ \A q \in Requests : q # r => script'[q] = script[q]
  BY <1>1, <1>2, RunsOnly
<1>5. /\ target[r] \in Branches
      /\ \A q \in Requests : q # r => script[q] \notin Running
  BY <1>3 DEF IInv, HasTarget, OneScript
<1>6. SentOnce' /\ GuardIsCurrent' /\ HasMerged' /\ MergesAreGuarded'
  BY <1>1, <1>2, <1>3, ScriptKeeps, Shorter DEF Running
<1>7. OneScript' /\ HasTarget'
  BY <1>2, <1>3, <1>4, <1>5 DEF IInv, OneScript, HasTarget, Running
<1>8. LastGoodIsBehind'
  BY <1>1, <1>2, <1>3, Shorter
<1>9. FewBehind'
  <2>1. Log!FewAhead'
    BY <1>1, <1>2, <1>3, Shorter
  <2>2. \A q \in Requests : script'[q] # "tagged"
    BY <1>2, <1>4, <1>5 DEF Running
  <2>3. QED
    BY <2>1, <2>2 DEF FewBehind
<1>10. WaysBackAreKnown'
  BY <1>2, <1>3 DEF IInv, WaysBackAreKnown
<1>11. MainIsGreen'
  <2>1. CASE to = "red"
    BY <2>1, <1>4 DEF MainIsGreen
  <2>2. CASE main' = main /\ known' = known /\ script[r] = "tagged"
    BY <2>2, <1>5 DEF MainIsGreen, IInv, RepoInv, Running
  <2>3. CASE main' = main /\ known' = known \cup {main}
    BY <2>3 DEF MainIsGreen
  <2>4. CASE lastGood # None /\ main' = lastGood /\ known' = known
    BY <2>4 DEF MainIsGreen, IInv, WaysBackAreKnown
  <2>5. QED
    BY <1>2, <2>1, <2>2, <2>3, <2>4
<1>12. QED
  BY <1>1, <1>6, <1>7, <1>8, <1>9, <1>10, <1>11 DEF IInv, RepoInv

\* A rollback takes main back to the tag, when no other script runs.
LEMMA RollbackRunsInv ==
  ASSUME IInv, NEW r \in Requests, RollbackRuns(r)
  PROVE  IInv'
<1>1. TypeOK /\ TypeOK'
  BY ScriptType DEF IInv, RepoInv, HasTarget, ScriptStep
<1>2. PICK o \in {"failed", "ok"} : Runs(r, "over", o)
  BY DEF RollbackRuns
<1>3. /\ script[r] = "queued" /\ WorkerFree /\ UNCHANGED <<lastGood, known, untagged>>
      /\ main' = main \/ (lastGood # None /\ main' = lastGood)
  BY DEF RollbackRuns
<1>4. /\ UNCHANGED <<pc, target, seen, result, rev, work>>
      /\ script'[r] = "over"
      /\ \A q \in Requests : q # r => script'[q] = script[q]
  BY <1>1, <1>2, RunsOnly
<1>5. SentOnce' /\ GuardIsCurrent' /\ HasMerged' /\ MergesAreGuarded'
  BY <1>1, <1>2, <1>3, ScriptKeeps, Shorter DEF Running
<1>6. \A q \in Requests : script'[q] \notin Running
  BY <1>3, <1>4 DEF WorkerFree, Running
<1>7. OneScript' /\ HasTarget'
  BY <1>4, <1>6 DEF IInv, OneScript, HasTarget, Running
<1>8. LastGoodIsBehind' /\ FewBehind'
  BY <1>1, <1>3, <1>6, Shorter DEF FewBehind, Running
<1>9. main \in known
  BY <1>3 DEF IInv, RepoInv, MainIsGreen, WorkerFree, Running
<1>10. WaysBackAreKnown' /\ MainIsGreen'
  BY <1>1, <1>3, <1>9, Shorter DEF IInv, WaysBackAreKnown, MainIsGreen
<1>11. QED
  BY <1>1, <1>5, <1>7, <1>8, <1>10 DEF IInv, RepoInv

-----------------------------------------------------------------------------
(* The theorems                                                            *)

\* Every reachable state satisfies the inductive invariant.
THEOREM Invariance == Spec => []IInv
<1>1. Init => IInv
  BY InitInv
<1>2. ASSUME IInv, [Next]_vars PROVE IInv'
  <2>1. CASE Freeze \/ \E b \in Branches : Propose(b)
    BY <1>2, <2>1, OperatorInv
  <2>2. ASSUME NEW r \in Requests, ServerStep(r) PROVE IInv'
    BY <1>2, <2>2, RequestInv, QueueInv DEF ServerStep, Invoke
  <2>3. ASSUME NEW r \in Requests, ScriptStep(r) PROVE IInv'
    BY <1>2, <2>3, NotRunInv, TagInv, MergeInv, MergeEndsInv, RollbackRunsInv DEF ScriptStep
  <2>4. CASE Restart
    BY <1>2, <2>4, RestartInv
  <2>5. CASE UNCHANGED vars
    <3>1. UNCHANGED <<frozen, pc, target, seen, out, result, restart, rev, work,
                      script, main, lastGood, known, untagged, logVars>>
      BY <2>5 DEF vars, serverVars, branchVars, repoVars, logVars
    <3>2. TypeOK'
      BY <1>2, <3>1 DEF IInv, RepoInv, TypeOK
    <3>3. MergesAreGuarded' /\ HasMerged' /\ GuardIsCurrent'
      BY <1>2, <3>1 DEF IInv, MergesAreGuarded, MergesOnce, GuardHolds, HasMerged, GuardIsCurrent
    <3>4. SentOnce' /\ HasTarget'
      BY <1>2, <3>1 DEF IInv, SentOnce, HasTarget
    <3>5. LastGoodIsBehind' /\ MainIsGreen' /\ OneScript' /\ FewBehind' /\ WaysBackAreKnown'
      BY <1>2, <3>1, LogKept
    <3>6. QED
      BY <3>2, <3>3, <3>4, <3>5 DEF IInv, RepoInv
  <2>6. QED
    BY <1>2, <2>1, <2>2, <2>3, <2>4, <2>5 DEF Next
<1>3. QED
  BY <1>1, <1>2, PTL DEF Spec

\* The tag last-good only points back, and but while a merge is being tested main
\* is a state whose tests have passed, or one that a script that was cut short or
\* a reset that failed has left: self.apply_change and self.rollback may be lost,
\* late and repeated in any order, and any command may fail.
THEOREM RepoIsSafe == Spec => []RepoInv
<1>1. IInv => RepoInv
  BY DEF IInv
<1>2. QED
  BY <1>1, Invariance, PTL

\* A request merges once at most and one that was refused not at all, and what
\* the guard was shown in full, of a main that was not taken back since, brings
\* no protected file onto main.
THEOREM MergesAreSafe == Spec => []MergesAreGuarded
<1>1. IInv => MergesAreGuarded
  BY DEF IInv
<1>2. QED
  BY <1>1, Invariance, PTL

\* One step of a script is a step of the log, or none.
LEMMA ScriptRefines ==
  ASSUME IInv, NEW r \in Requests, ScriptStep(r)
  PROVE  [Log!Next]_(Log!vars)
<1>1. TypeOK /\ main \in Seq(Merged)
  <2>1. TypeOK
    BY DEF IInv, RepoInv
  <2>2. QED
    BY <2>1 DEF TypeOK
<1>2. CASE NotRun(r) \/ MergeFails(r) \/ TestsPass(r) \/ TestsFail(r) \/ ResetFails(r) \/ Kill(r)
  <2>1. UNCHANGED <<main, lastGood, untagged>>
    BY <1>2 DEF NotRun, MergeFails, TestsPass, TestsFail, ResetFails, Kill, logVars
  <2>2. QED
    BY <2>1 DEF Log!vars
<1>3. CASE Tag(r)
  BY <1>3 DEF Tag, Log!Next, Log!SetMark, Log!MissMark
<1>4. CASE Merge(r)
  <2>1. /\ UNCHANGED <<lastGood, untagged>> /\ script[r] = "tagged"
        /\ main' = main \/ main' = Append(main, Commit(r))
    BY <1>4 DEF Merge
  <2>2. Len(main) <= Len(Log!Base) + untagged
    BY <2>1 DEF IInv, FewBehind
  <2>3. target[r] \in Branches
    BY <2>1 DEF IInv, HasTarget, Running
  <2>4. Commit(r) \in Merged /\ Commit(r).by = r
    BY <1>1, <2>3, CommitType DEF Commit
  <2>5. \A i \in DOMAIN main : main[i].by # r
    BY <2>1 DEF IInv, HasMerged
  <2>6. \A i \in DOMAIN main : main[i] # Commit(r)
    BY <2>4, <2>5
  <2>7. CASE main' = Append(main, Commit(r))
    <3>1. main' # <<>> /\ Front(main') = main /\ Last(main') = Commit(r)
      BY <1>1, <2>4, <2>7, AppendEnds
    <3>2. Log!Extend
      BY <2>1, <2>2, <2>4, <2>6, <3>1, LogNames DEF Log!Extend
    <3>3. QED
      BY <3>2 DEF Log!Next
  <2>8. CASE main' = main
    BY <2>1, <2>8 DEF Log!vars
  <2>9. QED
    BY <2>1, <2>7, <2>8
<1>5. CASE Reset(r)
  BY <1>5 DEF Reset, Log!Next, Log!GoBack
<1>6. CASE RollbackRuns(r)
  <2>1. /\ UNCHANGED <<lastGood, untagged>>
        /\ main' = main \/ (lastGood # None /\ main' = lastGood)
    BY <1>6 DEF RollbackRuns
  <2>2. QED
    BY <2>1 DEF Log!Next, Log!GoBack, Log!vars
<1>7. QED
  BY <1>2, <1>3, <1>4, <1>5, <1>6 DEF ScriptStep

\* Whatever fails, is cut short, lost or late, main is a log that grows by one
\* change that is not on it yet for each attempt to set last-good, and else only
\* goes back to it.
THEOREM MainIsALog == Spec => KeepsLog
<1>1. Init => Log!Init
  BY DEF Init, Log!Init
<1>2. IInv /\ [Next]_vars => [Log!Next]_(Log!vars)
  <2>1. ASSUME NEW r \in Requests, ServerStep(r) PROVE UNCHANGED <<main, lastGood, untagged>>
    BY <2>1 DEF ServerStep, Invoke, Refuse, Rollback, Apply, DiffAnswered, DiffLost, Guard,
                ScriptAnswered, ScriptTimesOut, Audited, repoVars, logVars
  <2>2. ASSUME Freeze \/ (\E b \in Branches : Propose(b)) \/ Restart \/ UNCHANGED vars
        PROVE  UNCHANGED <<main, lastGood, untagged>>
    BY <2>2 DEF Freeze, Propose, Restart, vars, repoVars, logVars
  <2>3. ASSUME UNCHANGED <<main, lastGood, untagged>> PROVE UNCHANGED Log!vars
    BY <2>3 DEF Log!vars
  <2>4. QED
    BY <2>1, <2>2, <2>3, ScriptRefines DEF Next
<1>3. QED
  BY <1>1, <1>2, Invariance, PTL DEF Spec, KeepsLog, Log!Spec

\* One rollback, or any number of them, undoes the most recent apply, and at most
\* one more for each time that last-good could not be set since it was.
THEOREM RollbackUndoesFew == Spec => []Log!FewAhead
<1>1. IInv => Log!FewAhead
  BY DEF IInv, FewBehind
<1>2. QED
  BY <1>1, Invariance, PTL

-----------------------------------------------------------------------------
(***************************************************************************)
(* What a change of the program must not cost, its memory outside of the   *)
(* table: theorems about Vault for any processes, requests and messages.   *)
(***************************************************************************)
\* A sequence that names its last member nowhere else.
EndsWith(s, z, S) ==
  s \in Seq(S) /\ s # <<>> /\ \A i \in 1..Len(s) : s[i] = z <=> i = Len(s)

\* What a process is in the middle of is a record of these fields.
Record(o) ==
  o = [kind |-> o.kind, at |-> o.at, gen |-> o.gen, todo |-> o.todo, got |-> o.got,
       turns |-> o.turns, alone |-> o.alone, expect |-> o.expect]

\* Where it may stand, and what it has yet to write or read there.
Placed(o) ==
  \/ o = Idle
  \/ /\ o.kind = "export" /\ o.at \in {"open", "close"} /\ o.gen # 0
     /\ EndsWith(o.todo, "manifest", BundleFiles)
  \/ /\ o.kind = "publish" /\ o.at \in {"open", "close"} /\ o.gen # 0 /\ o.alone
     /\ EndsWith(o.todo, "checksums", Range(CapsuleOrder))
  \/ /\ o.kind = "import"
     /\ \/ o.at = "read" /\ o.todo \in Seq(BundleFiles) /\ o.todo # <<>>
        \/ o.at = "merge" /\ o.todo = <<>>
  \/ /\ o.kind = "backup"
     /\ \/ o.at \in {"ingest", "fetch"}
        \/ o.at \in {"sent", "stage", "seal", "tag"} /\ o.gen # 0
  \/ o.kind = "restore" /\ o.at \in {"decrypt", "verify", "upload", "merge"}
  \/ o.kind = "check" /\ o.at \in {"decrypt", "verify"}

Form(o, m) ==
  /\ Record(o) /\ o.kind \in Kinds /\ o.gen \in 0..m /\ o.expect \in 0..m
  /\ o.turns \in BOOLEAN /\ o.alone \in BOOLEAN
  /\ Placed(o)

Marked(d, files, m) ==
  DOMAIN d \subseteq files /\ \A f \in DOMAIN d : d[f].of \subseteq 0..m /\ d[f].cut \in BOOLEAN

\* What the variables hold.
TypesInv ==
  /\ made \in Nat /\ last \in 0..made /\ exports \in 0..made /\ killed \in BOOLEAN
  /\ plain \subseteq Procs \X {"client", "server"}
  /\ backup = [capsule |-> backup.capsule, sealed |-> backup.sealed] /\ backup.sealed \in BOOLEAN
  /\ op = [p \in Procs |-> op[p]] /\ \A p \in Procs : Form(op[p], made)
  /\ Marked(bundle, BundleFiles, made) /\ Marked(public, Range(CapsuleOrder), made)
  /\ \A p \in Procs : op[p].at = "close" => Head(op[p].todo) \in DOMAIN Directory(p)

Written(d, o, files) ==
  \A f \in files \ Range(o.todo) : f \in DOMAIN d /\ d[f] = Whole(o.gen)

HasRead(o, g) ==
  /\ DOMAIN o.got \cup Range(o.todo) = BundleFiles
  /\ \A f \in DOMAIN o.got : o.got[f] = Whole(g)

\* An import that expects a generation reads that one, and in a directory that has seen one
\* export what it left.
ImportInv(o) ==
  o.kind = "import" =>
    /\ exports # 0
    /\ o.expect # 0 => o.expect = last /\ HasRead(o, last)
    /\ exports = 1 =>
         \/ o.todo = ReadOrder /\ DOMAIN o.got = {}
         \/ \E g \in 1..made : IsWhole(bundle, g) /\ HasRead(o, g)

\* Without a writer the directory is what the last export has left; a writer that is alone has
\* left what it has written; the manifest of the first export comes last.
BundleInv ==
  /\ last # 0 => Exporting = {} /\ IsWhole(bundle, last)
  /\ exports = 0 => DOMAIN bundle = {} /\ Exporting = {}
  /\ \A p \in Exporting :
       /\ op[p].alone => Exporting = {p} /\ Written(bundle, op[p], BundleFiles)
       /\ exports = 1 => op[p].alone
  /\ exports = 1 /\ "manifest" \in DOMAIN bundle /\ ~ bundle["manifest"].cut =>
       Exporting = {} /\ \E g \in 1..made : IsWhole(bundle, g)
  /\ \A p \in Procs : ImportInv(op[p])

Summed(c, g) ==
  /\ c.of = {g} /\ c.cut = FALSE /\ DOMAIN c.sums = Range(CapsuleOrder) \ {"checksums"}
  /\ \A f \in DOMAIN c.sums : c.sums[f] = Whole(g)

\* The digests in the public directory are those of one generation, written after the rest.
PublicInv ==
  /\ \A p, q \in Procs : op[p].kind = "publish" /\ op[q].kind = "publish" => p = q
  /\ \A p \in Procs : op[p].kind = "publish" => Written(public, op[p], Range(CapsuleOrder))
  /\ "checksums" \in DOMAIN public /\ ~ public["checksums"].cut =>
       \E g \in 1..made : Summed(public["checksums"], g)

\* Where a process may have private text at a server, and in the command's directory.
AtServer == {"sent", "merge"}
AtClient == {"sent", "stage", "seal", "tag", "verify", "upload", "merge"}

\* Private text is only with those that work on it, unless a process was killed.
PlainInv ==
  ~ killed => \A p \in Procs :
    /\ <<p, "server">> \in plain => op[p].at \in AtServer
    /\ <<p, "client">> \in plain => op[p].at \in AtClient

Capsule(c, m) ==
  /\ VerifyCapsule(c)
  /\ DOMAIN c \subseteq DOMAIN c["checksums"].sums \cup {"checksums"}
  /\ \E g \in 1..m : IsWhole(Embedded(c), g)

Carries(o, m) ==
  /\ o.at = "stage" => o.got = [f \in BundleFiles |-> Whole(o.gen)]
  /\ o.at \in {"seal", "tag", "verify"} => Capsule(o.got, m)
  /\ o.kind = "restore" /\ o.at \in {"upload", "merge"} => \E g \in 1..m : IsWhole(o.got, g)

\* What is sealed and what is carried is right.
SealInv ==
  /\ backup.sealed => Capsule(backup.capsule, made)
  /\ \A p \in Procs : Carries(op[p], made)

\* The inductive invariant.
VaultInv == TypesInv /\ BundleInv /\ PublicInv /\ PlainInv /\ SealInv

\* The head and the tail of a sequence have what it has.
LEMMA HeadTail ==
  ASSUME NEW S, NEW s \in Seq(S), s # <<>>
  PROVE  /\ Head(s) \in S /\ Tail(s) \in Seq(S) /\ Range(s) \subseteq S
         /\ Range(s) = {Head(s)} \cup Range(Tail(s))
<1>1. s # <<>>
  OBVIOUS
<1>2. PICK n \in Nat : n = Len(s) /\ n # 0 /\ DOMAIN s = 1..n
  BY <1>1
<1>3. PICK t : t = Tail(s)
  OBVIOUS
<1>4. t \in Seq(S) /\ Len(t) = n - 1 /\ DOMAIN t = 1..(n - 1) /\ \A i \in 1..(n - 1) : t[i] = s[i + 1]
  BY <1>1, <1>2, <1>3
<1>5. Head(s) = s[1] /\ s[1] \in S /\ \A i \in 1..n : s[i] \in S
  BY <1>1, <1>2
<1>6. Range(s) \subseteq S
  BY <1>2, <1>5 DEF Range
<1>7. Range(s) = {Head(s)} \cup Range(t)
  <2>1. ASSUME NEW i \in 1..n PROVE s[i] \in {s[1]} \cup Range(t)
    <3>1. CASE i = 1
      BY <3>1
    <3>2. CASE i # 1
      <4>1. PICK j \in 1..(n - 1) : j + 1 = i
        <5>1. i - 1 \in 1..(n - 1) /\ (i - 1) + 1 = i
          BY <1>2, <3>2
        <5>2. QED
          BY <5>1
      <4>2. t[j] = s[i]
        BY <1>4, <4>1
      <4>3. QED
        BY <1>4, <4>2 DEF Range
    <3>3. QED
      BY <3>1, <3>2
  <2>2. ASSUME NEW j \in 1..(n - 1) PROVE t[j] \in Range(s)
    <3>1. PICK i \in 1..n : i = j + 1
      BY <1>2
    <3>2. t[j] = s[i]
      BY <1>4, <3>1
    <3>3. QED
      BY <1>2, <3>2 DEF Range
  <2>3. s[1] \in Range(s)
    <3>1. 1 \in 1..n
      BY <1>2
    <3>2. QED
      BY <1>2, <3>1 DEF Range
  <2>4. Range(s) \subseteq {s[1]} \cup Range(t)
    BY <2>1, <1>2 DEF Range
  <2>5. Range(t) \subseteq Range(s)
    BY <2>2, <1>4 DEF Range
  <2>6. QED
    BY <2>3, <2>4, <2>5, <1>5
<1>8. QED
  BY <1>3, <1>4, <1>5, <1>6, <1>7

\* Head and tail of a sequence that names its last member nowhere else.
LEMMA Ending ==
  ASSUME NEW S, NEW z, NEW s, EndsWith(s, z, S)
  PROVE  /\ Head(s) \in S /\ Range(s) \subseteq S /\ z \in Range(s)
         /\ Range(s) = {Head(s)} \cup Range(Tail(s))
         /\ Head(s) = z <=> Tail(s) = <<>>
         /\ Tail(s) # <<>> => EndsWith(Tail(s), z, S)
<1>1. s \in Seq(S) /\ s # <<>> /\ \A i \in 1..Len(s) : s[i] = z <=> i = Len(s)
  BY DEF EndsWith
<1>2. PICK n \in Nat : n = Len(s) /\ n # 0 /\ DOMAIN s = 1..n
  BY <1>1
<1>3. PICK t : t = Tail(s)
  OBVIOUS
<1>4. t \in Seq(S) /\ Len(t) = n - 1 /\ DOMAIN t = 1..(n - 1) /\ \A i \in 1..(n - 1) : t[i] = s[i + 1]
  BY <1>1, <1>2, <1>3
<1>5. Head(s) = s[1] /\ s[1] \in S /\ \A i \in 1..n : s[i] \in S
  BY <1>1, <1>2
<1>6. Range(s) \subseteq S /\ z \in Range(s)
  <2>1. n \in 1..n /\ s[n] = z
    BY <1>1, <1>2
  <2>2. QED
    BY <1>2, <1>5, <2>1 DEF Range
<1>7. Range(s) = {Head(s)} \cup Range(t)
  BY <1>1, <1>3, HeadTail
<1>8. Head(s) = z <=> t = <<>>
  <2>1. s[1] = z <=> 1 = n
    BY <1>1, <1>2
  <2>2. t = <<>> <=> n = 1
    BY <1>2, <1>4
  <2>3. QED
    BY <2>1, <2>2, <1>5
<1>9. ASSUME t # <<>> PROVE EndsWith(t, z, S)
  <2>1. ASSUME NEW i \in 1..(n - 1) PROVE t[i] = z <=> i = n - 1
    <3>1. PICK j \in 1..n : j = i + 1
      BY <1>2
    <3>2. t[i] = s[j] /\ (s[j] = z <=> j = n)
      BY <1>1, <1>2, <1>4, <3>1
    <3>3. QED
      BY <3>1, <3>2, <1>2
  <2>2. QED
    BY <1>4, <1>9, <2>1 DEF EndsWith
<1>10. QED
  BY <1>3, <1>5, <1>6, <1>7, <1>8, <1>9

\* The files and the orders in which they are written and read.
LEMMA Files ==
  /\ BundleFiles = {"manifest", "identity", "directives", "memories", "episodes", "state"}
  /\ Range(CapsuleOrder) = {"constitution", "bootstrap", "manifest", "checksums"}
  /\ Range(WriteOrder) = BundleFiles /\ EndsWith(WriteOrder, "manifest", BundleFiles)
  /\ EndsWith(CapsuleOrder, "checksums", Range(CapsuleOrder))
  /\ ReadOrder \in Seq(BundleFiles) /\ ReadOrder # <<>> /\ Head(ReadOrder) = "manifest"
  /\ Range(ReadOrder) = BundleFiles
<1>1. BundleFiles = {"manifest", "identity", "directives", "memories", "episodes", "state"}
  <2>1. DOMAIN ReadOrder = 1..6
    BY DEF ReadOrder
  <2>2. \A i \in 1..6 : i = 1 \/ i = 2 \/ i = 3 \/ i = 4 \/ i = 5 \/ i = 6
    OBVIOUS
  <2>3. QED
    BY <2>1, <2>2 DEF BundleFiles, Range, ReadOrder
<1>2. Range(CapsuleOrder) = {"constitution", "bootstrap", "manifest", "checksums"}
  <2>1. DOMAIN CapsuleOrder = 1..4
    BY DEF CapsuleOrder
  <2>2. \A i \in 1..4 : i = 1 \/ i = 2 \/ i = 3 \/ i = 4
    OBVIOUS
  <2>3. QED
    BY <2>1, <2>2 DEF Range, CapsuleOrder
<1>3. Range(WriteOrder) = BundleFiles
  <2>1. DOMAIN WriteOrder = 1..6
    BY DEF WriteOrder
  <2>2. \A i \in 1..6 : i = 1 \/ i = 2 \/ i = 3 \/ i = 4 \/ i = 5 \/ i = 6
    OBVIOUS
  <2>3. QED
    BY <1>1, <2>1, <2>2 DEF Range, WriteOrder
<1>4. EndsWith(WriteOrder, "manifest", BundleFiles)
  <2>1. WriteOrder \in Seq(BundleFiles) /\ Len(WriteOrder) = 6
    BY <1>1 DEF WriteOrder
  <2>2. \A i \in 1..6 : i = 1 \/ i = 2 \/ i = 3 \/ i = 4 \/ i = 5 \/ i = 6
    OBVIOUS
  <2>3. \A i \in 1..6 : WriteOrder[i] = "manifest" <=> i = 6
    BY <2>2 DEF WriteOrder
  <2>4. QED
    BY <2>1, <2>3, SMTT(60) DEF EndsWith
<1>5. EndsWith(CapsuleOrder, "checksums", Range(CapsuleOrder))
  <2>1. CapsuleOrder \in Seq(Range(CapsuleOrder)) /\ Len(CapsuleOrder) = 4
    BY <1>2 DEF CapsuleOrder
  <2>2. \A i \in 1..4 : i = 1 \/ i = 2 \/ i = 3 \/ i = 4
    OBVIOUS
  <2>3. \A i \in 1..4 : CapsuleOrder[i] = "checksums" <=> i = 4
    BY <2>2 DEF CapsuleOrder
  <2>4. QED
    BY <2>1, <2>3 DEF EndsWith
<1>6. ReadOrder \in Seq(BundleFiles) /\ ReadOrder # <<>> /\ Head(ReadOrder) = "manifest"
  BY <1>1 DEF ReadOrder
<1>7. QED
  BY <1>1, <1>2, <1>3, <1>4, <1>5, <1>6 DEF BundleFiles

\* Every file of a capsule has its digest.
Sound(c) ==
  /\ Range(CapsuleOrder) \subseteq DOMAIN c
  /\ ~ c["manifest"].cut /\ ~ c["checksums"].cut
  /\ "checksums" \notin DOMAIN c["checksums"].sums
  /\ DOMAIN c = DOMAIN c["checksums"].sums \cup {"checksums"}
  /\ \A f \in DOMAIN c["checksums"].sums : c[f] = c["checksums"].sums[f]

\* Files that were changed or added are summed anew.
LEMMA Resummed ==
  ASSUME NEW c, Sound(c), NEW d, d = [x \in DOMAIN d |-> d[x]], NEW fs, "checksums" \notin fs,
         DOMAIN d = DOMAIN c \cup fs, d["checksums"] = c["checksums"],
         \A x \in DOMAIN c \ fs : d[x] = c[x], ~ d["manifest"].cut,
         c["checksums"] = Content(c["checksums"].of, c["checksums"].cut, c["checksums"].has, c["checksums"].sums),
         NEW r, r = Resum(d, fs)
  PROVE  /\ Sound(r) /\ r = [x \in DOMAIN r |-> r[x]] /\ DOMAIN r = DOMAIN d
         /\ \A x \in DOMAIN d : x # "checksums" => r[x] = d[x]
         /\ r["checksums"].of = d["checksums"].of
         /\ r["checksums"] = Content(r["checksums"].of, r["checksums"].cut, r["checksums"].has, r["checksums"].sums)
<1>1. PICK k : k = c["checksums"]
  OBVIOUS
<1>2. "checksums" \in DOMAIN d /\ d["checksums"] = k
      /\ "checksums" \notin DOMAIN k.sums /\ DOMAIN c = DOMAIN k.sums \cup {"checksums"} /\ ~ k.cut
      /\ \A f \in DOMAIN k.sums : c[f] = k.sums[f]
  BY <1>1 DEF Sound
<1>3. PICK u : u = [f \in DOMAIN k.sums \cup fs |-> IF f \in fs THEN d[f] ELSE k.sums[f]]
  OBVIOUS
<1>4. k = [of |-> k.of, cut |-> k.cut, has |-> k.has, sums |-> k.sums]
  BY <1>1 DEF Content
<1>5. PICK n : n = [k EXCEPT !.sums = u]
  OBVIOUS
<1>6. n.of = k.of /\ n.cut = k.cut /\ n.sums = u /\ n = Content(n.of, n.cut, n.has, n.sums)
  BY <1>4, <1>5 DEF Content
<1>8. r = [d EXCEPT !["checksums"] = n]
  BY <1>2, <1>3, <1>5 DEF Resum
<1>9. /\ DOMAIN r = DOMAIN d /\ r = [x \in DOMAIN r |-> r[x]]
      /\ r["checksums"] = n /\ \A x \in DOMAIN d : x # "checksums" => r[x] = d[x]
  BY <1>2, <1>8
<1>10. DOMAIN u = DOMAIN k.sums \cup fs /\ \A f \in DOMAIN u : d[f] = u[f]
  BY <1>2, <1>3
<1>11. "manifest" \in DOMAIN d /\ "manifest" # "checksums"
  BY Files DEF Sound
<1>12. Sound(r)
  <2>1. Range(CapsuleOrder) \subseteq DOMAIN r
    BY <1>9 DEF Sound
  <2>2. ~ r["manifest"].cut /\ ~ r["checksums"].cut
    BY <1>2, <1>6, <1>9, <1>11
  <2>3. r["checksums"].sums = u /\ "checksums" \notin DOMAIN u /\ DOMAIN u \subseteq DOMAIN d
    BY <1>2, <1>6, <1>9, <1>10
  <2>4. DOMAIN r = DOMAIN u \cup {"checksums"}
    BY <1>2, <1>9, <1>10
  <2>5. \A f \in DOMAIN u : r[f] = u[f]
    BY <1>9, <1>10, <2>3
  <2>6. QED
    BY <2>1, <2>2, <2>3, <2>4, <2>5 DEF Sound
<1>13. QED
  BY <1>2, <1>6, <1>9, <1>12

\* The names of the bundle's files in a capsule are not those of its texts, nor of each
\* other.
LEMMA Names ==
  /\ \A f, h \in BundleFiles : VaultFile(f) = VaultFile(h) => f = h
  /\ \A f \in BundleFiles : VaultFile(f) \notin Range(CapsuleOrder) \cup {"turns"}
<1>1. BundleFiles = {"manifest", "identity", "directives", "memories", "episodes", "state"}
  BY Files
<1>2. /\ VaultFile("manifest") = "vault_manifest" /\ VaultFile("identity") = "vault_identity"
      /\ VaultFile("state") = "vault_state" /\ VaultFile("directives") = "vault_directives"
      /\ VaultFile("memories") = "vault_memories" /\ VaultFile("episodes") = "vault_episodes"
  BY DEF VaultFile, VaultNames
<1>3. QED
  BY <1>1, <1>2, Files

\* What is written of the archive is the bundle.
LEMMA Unpacked ==
  ASSUME NEW b, NEW g, IsWhole(b, g)
  PROVE  IsWhole(WriteVaultArchive(b), g)
BY DEF IsWhole, WriteVaultArchive

\* What is staged is a capsule with the whole bundle.
LEMMA Staged ==
  ASSUME NEW m \in Nat, NEW g \in 1..m, NEW b, b = [f \in BundleFiles |-> Whole(g)]
  PROVE  LET c == AttachVaultBundle(WriteCapsule(g), b)
         IN  Capsule(c, m) /\ Capsule(AugmentPrivateCapsule(c, g), m)
<1>1. PICK c : c = WriteCapsule(g)
  OBVIOUS
<1>2. PICK P : P = Range(CapsuleOrder) /\ P = {"constitution", "bootstrap", "manifest", "checksums"}
  BY Files
<1>3. PICK ts : ts = [f \in P \ {"checksums"} |-> Whole(g)]
  OBVIOUS
<1>4. PICK k : k = CapsuleContent(ts, "checksums", g)
  OBVIOUS
<1>5. ChecksumsFor(ts) = ts
  BY <1>3 DEF ChecksumsFor
<1>6. k.of = {g} /\ k.cut = FALSE /\ k.sums = ts /\ k = Content(k.of, k.cut, k.has, k.sums)
  BY <1>4, <1>5 DEF CapsuleContent, Whole, Content
<1>7. c = Put(ts, "checksums", k)
  BY <1>1, <1>2, <1>3, <1>4 DEF WriteCapsule
<1>8. c = [x \in P |-> IF x = "checksums" THEN k ELSE Whole(g)]
  BY <1>2, <1>3, <1>7 DEF Put
<1>9. Whole(g).cut = FALSE /\ Whole(g) = Content({g}, FALSE, {}, <<>>)
  BY DEF Whole, Content
<1>10. Sound(c)
  <2>1. DOMAIN c = P /\ c["checksums"] = k /\ \A x \in P \ {"checksums"} : c[x] = Whole(g)
    BY <1>2, <1>8
  <2>2. QED
    BY <1>2, <1>3, <1>6, <1>9, <2>1 DEF Sound
<1>11. PICK E : E = {VaultFile(f) : f \in BundleFiles}
  OBVIOUS
<1>12. /\ \A f \in BundleFiles : VaultFile(f) \in E /\ VaultFile(f) \notin P
       /\ \A x \in E : x \notin P /\ x # "turns" /\ \E f \in BundleFiles : VaultFile(f) = x
  BY <1>2, <1>11, Names
<1>13. PICK v : v = [Whole(g) EXCEPT !.has = @ \cup {"vault"}]
  OBVIOUS
<1>14. v.cut = FALSE /\ v = Content(v.of, v.cut, v.has, v.sums)
  BY <1>13 DEF Whole, Content
<1>15. PICK wi : wi = [x \in P \cup E |->
                        IF x \in P THEN c[x] ELSE b[CHOOSE f \in BundleFiles : VaultFile(f) = x]]
  OBVIOUS
<1>16. PICK d : d = [wi EXCEPT !["manifest"].has = @ \cup {"vault"}]
  OBVIOUS
<1>17. /\ DOMAIN d = P \cup E /\ d = [x \in DOMAIN d |-> d[x]] /\ d["manifest"] = v
       /\ \A x \in P : x # "manifest" => d[x] = c[x]
       /\ \A x \in E : d[x] = Whole(g)
  <2>1. wi["manifest"] = Whole(g) /\ "manifest" \in P
    BY <1>2, <1>8, <1>15
  <2>2. ASSUME NEW x \in E PROVE wi[x] = Whole(g)
    <3>1. (CHOOSE f \in BundleFiles : VaultFile(f) = x) \in BundleFiles
      BY <1>12
    <3>2. x \in P \cup E /\ x \notin P
      BY <1>12
    <3>3. wi[x] = b[CHOOSE f \in BundleFiles : VaultFile(f) = x]
      BY <1>15, <3>2
    <3>4. QED
      BY <3>1, <3>3
  <2>3. DOMAIN wi = P \cup E /\ \A x \in P : wi[x] = c[x]
    BY <1>15
  <2>4. d = [wi EXCEPT !["manifest"] = v]
    BY <1>13, <1>16, <2>1, <2>3
  <2>5. DOMAIN d = P \cup E /\ d = [x \in DOMAIN d |-> d[x]] /\ d["manifest"] = v
    BY <2>1, <2>3, <2>4
  <2>6. \A x \in P \cup E : x # "manifest" => d[x] = wi[x]
    BY <2>3, <2>4
  <2>7. "manifest" \notin E
    BY <1>12, <2>1
  <2>8. QED
    BY <2>2, <2>3, <2>5, <2>6, <2>7
<1>18. PICK e : e = Resum(d, E \cup {"manifest"})
  OBVIOUS
<1>19. e = AttachVaultBundle(WriteCapsule(g), b)
  <2>1. DOMAIN c = P /\ DOMAIN b = BundleFiles
    BY <1>8
  <2>2. QED
    BY <1>1, <1>11, <1>15, <1>16, <1>18, <2>1 DEF AttachVaultBundle
<1>20. /\ Sound(e) /\ e = [x \in DOMAIN e |-> e[x]] /\ DOMAIN e = P \cup E
       /\ \A x \in P \cup E : x # "checksums" => e[x] = d[x]
       /\ e["checksums"] = Content(e["checksums"].of, e["checksums"].cut, e["checksums"].has, e["checksums"].sums)
  <2>1. c["checksums"] = k /\ "checksums" \in P /\ DOMAIN c = P /\ "manifest" \in P
    BY <1>2, <1>8
  <2>2. d["checksums"] = c["checksums"]
    BY <1>17, <2>1
  <2>3. "checksums" \notin E \cup {"manifest"} /\ DOMAIN d = DOMAIN c \cup (E \cup {"manifest"})
    BY <1>12, <1>17, <2>1
  <2>4. \A x \in DOMAIN c \ (E \cup {"manifest"}) : d[x] = c[x]
    BY <1>17, <2>1
  <2>5. ~ d["manifest"].cut
    BY <1>14, <1>17
  <2>6. c["checksums"] = Content(c["checksums"].of, c["checksums"].cut, c["checksums"].has, c["checksums"].sums)
    BY <1>6, <2>1
  <2>7. PICK fs : fs = E \cup {"manifest"}
    OBVIOUS
  <2>8. /\ d = [x \in DOMAIN d |-> d[x]] /\ "checksums" \notin fs /\ DOMAIN d = DOMAIN c \cup fs
        /\ \A x \in DOMAIN c \ fs : d[x] = c[x]
    BY <1>17, <2>3, <2>4, <2>7
  <2>9. e = Resum(d, fs)
    BY <1>18, <2>7
  <2>10. /\ Sound(e) /\ e = [x \in DOMAIN e |-> e[x]] /\ DOMAIN e = DOMAIN d
         /\ \A x \in DOMAIN d : x # "checksums" => e[x] = d[x]
         /\ e["checksums"] = Content(e["checksums"].of, e["checksums"].cut, e["checksums"].has, e["checksums"].sums)
    BY <1>10, <2>2, <2>5, <2>6, <2>8, <2>9, Resummed
  <2>11. QED
    BY <1>17, <2>10
<1>21. \A f \in BundleFiles : VaultFile(f) \in DOMAIN e /\ e[VaultFile(f)] = Whole(g)
  <2>1. \A f \in BundleFiles : VaultFile(f) \in E /\ VaultFile(f) # "checksums"
    BY <1>2, <1>12
  <2>2. QED
    BY <1>17, <1>20, <2>1
<1>22. ASSUME NEW s, Sound(s), \A f \in BundleFiles : VaultFile(f) \in DOMAIN s /\ s[VaultFile(f)] = Whole(g)
       PROVE  Capsule(s, m)
  <2>1. VerifyCapsule(s) /\ DOMAIN s \subseteq DOMAIN s["checksums"].sums \cup {"checksums"}
    BY <1>22 DEF Sound, VerifyCapsule
  <2>2. {x \in BundleFiles : VaultFile(x) \in DOMAIN s} = BundleFiles
    BY <1>22
  <2>3. IsWhole(Embedded(s), g)
    BY <1>22, <2>2 DEF IsWhole, Embedded
  <2>4. QED
    BY <2>1, <2>3 DEF Capsule
<1>23. PICK pt : pt = Put(e, "turns", Whole(g))
  OBVIOUS
<1>24. PICK a : a = [pt EXCEPT !["manifest"].has = @ \cup {"turns"}]
  OBVIOUS
<1>25. PICK r : r = Resum(a, {"turns", "manifest"})
  OBVIOUS
<1>26. r = AugmentPrivateCapsule(e, g)
  BY <1>23, <1>24, <1>25 DEF AugmentPrivateCapsule
<1>27. PICK h : h = [v EXCEPT !.has = @ \cup {"turns"}]
  OBVIOUS
<1>28. h.cut = FALSE
  BY <1>14, <1>27 DEF Content
<1>29. /\ DOMAIN a = DOMAIN e \cup {"turns", "manifest"} /\ a = [x \in DOMAIN a |-> a[x]]
       /\ a["manifest"] = h
       /\ \A x \in DOMAIN e \ {"turns", "manifest"} : a[x] = e[x]
  <2>1. "manifest" \in DOMAIN e /\ e["manifest"] = v /\ "manifest" # "turns" /\ "manifest" # "checksums"
    BY <1>2, <1>17, <1>20
  <2>2. DOMAIN pt = DOMAIN e \cup {"turns"} /\ \A x \in DOMAIN e : x # "turns" => pt[x] = e[x]
    BY <1>23 DEF Put
  <2>3. pt["manifest"] = v
    BY <2>1, <2>2
  <2>4. a = [pt EXCEPT !["manifest"] = h]
    BY <1>24, <1>27, <2>1, <2>2, <2>3
  <2>5. pt = [x \in DOMAIN pt |-> pt[x]]
    BY <1>23 DEF Put
  <2>6. QED
    BY <2>1, <2>2, <2>4, <2>5
<1>30. Sound(r) /\ DOMAIN r = DOMAIN a /\ \A x \in DOMAIN a : x # "checksums" => r[x] = a[x]
  <2>1. "checksums" \in DOMAIN e /\ "checksums" \notin {"turns", "manifest"}
    BY <1>2, <1>20
  <2>2. a["checksums"] = e["checksums"] /\ ~ a["manifest"].cut
    BY <1>28, <1>29, <2>1
  <2>3. PICK fs : fs = {"turns", "manifest"}
    OBVIOUS
  <2>4. /\ a = [x \in DOMAIN a |-> a[x]] /\ "checksums" \notin fs /\ DOMAIN a = DOMAIN e \cup fs
        /\ \A x \in DOMAIN e \ fs : a[x] = e[x]
    BY <1>29, <2>1, <2>3
  <2>5. r = Resum(a, fs)
    BY <1>25, <2>3
  <2>6. QED
    BY <1>20, <2>2, <2>4, <2>5, Resummed
<1>31. \A f \in BundleFiles : VaultFile(f) \in DOMAIN r /\ r[VaultFile(f)] = Whole(g)
  <2>1. \A f \in BundleFiles : VaultFile(f) # "checksums" /\ VaultFile(f) \notin {"turns", "manifest"}
    BY <1>2, Names
  <2>2. QED
    BY <1>21, <1>29, <1>30, <2>1
<1>32. QED
  BY <1>19, <1>20, <1>21, <1>22, <1>26, <1>30, <1>31

\* What a process is in the middle of, by where it stands.
LEMMA Stands ==
  ASSUME NEW o, Placed(o)
  PROVE  /\ o.kind = "none" => o = Idle
         /\ o.at \in {"open", "close"} =>
              /\ o.gen # 0
              /\ \/ o.kind = "export" /\ EndsWith(o.todo, "manifest", BundleFiles)
                 \/ o.kind = "publish" /\ o.alone /\ EndsWith(o.todo, "checksums", Range(CapsuleOrder))
         /\ o.at = "read" => o.kind = "import" /\ o.todo \in Seq(BundleFiles) /\ o.todo # <<>>
         /\ o.kind = "import" => \/ o.at = "read" /\ o.todo \in Seq(BundleFiles) /\ o.todo # <<>>
                                 \/ o.at = "merge" /\ o.todo = <<>>
         /\ o.at \in {"sent", "stage", "seal", "tag"} => o.kind = "backup" /\ o.gen # 0
         /\ o.at \in {"ingest", "fetch"} => o.kind = "backup"
         /\ o.at \in {"decrypt", "verify"} => o.kind \in {"restore", "check"}
         /\ o.at = "upload" => o.kind = "restore"
         /\ o.at = "merge" => o.kind \in {"import", "restore"}
BY DEF Placed, Idle

\* Later generations make no form wrong.
LEMMA Later ==
  ASSUME NEW m \in Nat, NEW k \in Nat, m <= k, NEW o, Form(o, m)
  PROVE  Form(o, k)
<1>1. 0..m \subseteq 0..k
  OBVIOUS
<1>2. QED
  BY <1>1 DEF Form

\* The same for a directory and for a sealed capsule.
LEMMA LaterFiles ==
  ASSUME NEW m \in Nat, NEW k \in Nat, m <= k
  PROVE  /\ \A d, files : Marked(d, files, m) => Marked(d, files, k)
         /\ \A c : Capsule(c, m) => Capsule(c, k)
         /\ \A o : Carries(o, m) => Carries(o, k)
<1>1. 0..m \subseteq 0..k /\ 1..m \subseteq 1..k
  OBVIOUS
<1>2. \A d, files : Marked(d, files, m) => Marked(d, files, k)
  BY <1>1 DEF Marked
<1>3. \A c : Capsule(c, m) => Capsule(c, k)
  BY <1>1 DEF Capsule
<1>4. \A o : Carries(o, m) => Carries(o, k)
  BY <1>1, <1>3 DEF Carries
<1>5. QED
  BY <1>2, <1>3, <1>4

\* A step that gives one process something else to do keeps the types.
LEMMA TypesKept ==
  ASSUME TypesInv, NEW p \in Procs, NEW n, op' = [op EXCEPT ![p] = n],
         made' \in Nat, made <= made', Form(n, made'),
         DOMAIN bundle \subseteq DOMAIN bundle', DOMAIN public \subseteq DOMAIN public',
         n.at = "close" => Head(n.todo) \in DOMAIN (IF n.kind = "export" THEN bundle' ELSE public'),
         Marked(bundle', BundleFiles, made'), Marked(public', Range(CapsuleOrder), made'),
         last' \in 0..made', exports' \in 0..made', killed' \in BOOLEAN,
         plain' \subseteq Procs \X {"client", "server"},
         backup' = [capsule |-> backup.capsule, sealed |-> backup.sealed]', backup'.sealed \in BOOLEAN
  PROVE  TypesInv'
<1>1. op = [q \in Procs |-> op[q]] /\ \A q \in Procs : Form(op[q], made)
  BY DEF TypesInv
<1>2. op' = [q \in Procs |-> op'[q]] /\ op'[p] = n /\ \A q \in Procs : q # p => op'[q] = op[q]
  BY <1>1
<1>3. made \in Nat
  BY DEF TypesInv
<1>4. \A q \in Procs : Form(op'[q], made')
  BY <1>1, <1>2, <1>3, Later
<1>5. ASSUME NEW q \in Procs, op'[q].at = "close" PROVE Head(op'[q].todo) \in DOMAIN Directory(q)'
  <2>1. CASE q = p
    BY <1>2, <1>5, <2>1 DEF Directory
  <2>2. CASE q # p
    <3>1. op'[q] = op[q]
      BY <1>2, <2>2
    <3>2. Head(op[q].todo) \in DOMAIN Directory(q)
      BY <1>5, <3>1 DEF TypesInv
    <3>3. QED
      BY <3>1, <3>2 DEF Directory
  <2>3. QED
    BY <2>1, <2>2
<1>6. QED
  BY <1>2, <1>4, <1>5 DEF TypesInv

\* What is not an export or an import leaves what holds of the bundle's directory.
LEMMA BundleApart ==
  ASSUME TypesInv, BundleInv,
         \A q \in Procs : op'[q].kind \in {"export", "import"} => op'[q] = op[q],
         made' \in Nat, made <= made', UNCHANGED <<bundle, last, exports>>
  PROVE  BundleInv'
<1>1. made \in Nat
  BY DEF TypesInv
<1>2. Exporting' \subseteq Exporting /\ \A q \in Exporting' : op'[q] = op[q]
  BY DEF Exporting
<1>3. 1..made \subseteq 1..made'
  BY <1>1
<1>4. last' # 0 => Exporting' = {} /\ IsWhole(bundle', last')
  BY <1>2 DEF BundleInv
<1>5. exports' = 0 => DOMAIN bundle' = {} /\ Exporting' = {}
  BY <1>2 DEF BundleInv
<1>6. ASSUME NEW q \in Exporting'
      PROVE  /\ op'[q].alone => Exporting' = {q} /\ Written(bundle', op'[q], BundleFiles)
             /\ exports' = 1 => op'[q].alone
  <2>1. q \in Exporting /\ op'[q] = op[q]
    BY <1>2
  <2>2. op[q].alone => Exporting = {q} /\ Written(bundle, op[q], BundleFiles)
    BY <2>1 DEF BundleInv
  <2>3. exports = 1 => op[q].alone
    BY <2>1 DEF BundleInv
  <2>4. ASSUME op'[q].alone PROVE Exporting' = {q} /\ Written(bundle', op'[q], BundleFiles)
    BY <1>2, <2>1, <2>2, <2>4
  <2>5. QED
    BY <2>1, <2>3, <2>4
<1>7. exports' = 1 /\ "manifest" \in DOMAIN bundle' /\ ~ bundle'["manifest"].cut =>
        Exporting' = {} /\ \E g \in 1..made' : IsWhole(bundle', g)
  BY <1>2, <1>3 DEF BundleInv
<1>8. ASSUME NEW q \in Procs PROVE ImportInv(op[q])'
  <2>1. CASE op'[q].kind = "import"
    <3>1. op'[q] = op[q] /\ ImportInv(op[q])
      BY <2>1 DEF BundleInv
    <3>2. QED
      BY <1>3, <2>1, <3>1 DEF ImportInv
  <2>2. CASE op'[q].kind # "import"
    BY <2>2 DEF ImportInv
  <2>3. QED
    BY <2>1, <2>2
<1>9. QED
  BY <1>4, <1>5, <1>6, <1>7, <1>8 DEF BundleInv

\* What does not publish leaves what holds of the public capsule.
LEMMA PublicApart ==
  ASSUME TypesInv, PublicInv, \A q \in Procs : op'[q].kind = "publish" => op'[q] = op[q],
         made' \in Nat, made <= made', UNCHANGED public
  PROVE  PublicInv'
<1>1. made \in Nat
  BY DEF TypesInv
<1>2. 1..made \subseteq 1..made'
  BY <1>1
<1>3. \A q, r \in Procs : op'[q].kind = "publish" /\ op'[r].kind = "publish" => q = r
  BY DEF PublicInv
<1>4. \A q \in Procs : op'[q].kind = "publish" => Written(public', op'[q], Range(CapsuleOrder))
  BY DEF PublicInv
<1>5. "checksums" \in DOMAIN public' /\ ~ public'["checksums"].cut =>
        \E g \in 1..made' : Summed(public'["checksums"], g)
  BY <1>2 DEF PublicInv
<1>6. QED
  BY <1>3, <1>4, <1>5 DEF PublicInv

\* A step takes private text along with the process that holds it.
LEMMA PlainKept ==
  ASSUME TypesInv, PlainInv, NEW p \in Procs, NEW n, op' = [op EXCEPT ![p] = n],
         killed' = killed \/ killed' = TRUE,
         \A q \in Procs : q # p => \A w : <<q, w>> \in plain' => <<q, w>> \in plain,
         ~ killed' /\ <<p, "server">> \in plain' => n.at \in AtServer,
         ~ killed' /\ <<p, "client">> \in plain' => n.at \in AtClient
  PROVE  PlainInv'
<1>1. op = [q \in Procs |-> op[q]]
  BY DEF TypesInv
<1>2. op'[p] = n /\ \A q \in Procs : q # p => op'[q] = op[q]
  BY <1>1
<1>3. CASE killed' = TRUE
  BY <1>3 DEF PlainInv
<1>4. CASE killed' = killed
  BY <1>2, <1>4 DEF PlainInv
<1>5. QED
  BY <1>3, <1>4

\* What a backup and a restore carry stays what it was, or is right when it is new.
LEMMA SealKept ==
  ASSUME TypesInv, SealInv, NEW p \in Procs, NEW n, op' = [op EXCEPT ![p] = n],
         made' \in Nat, made <= made', Carries(n, made'),
         backup'.sealed => Capsule(backup'.capsule, made')
  PROVE  SealInv'
<1>1. op = [q \in Procs |-> op[q]] /\ made \in Nat
  BY DEF TypesInv
<1>2. op'[p] = n /\ \A q \in Procs : q # p => op'[q] = op[q]
  BY <1>1
<1>3. \A q \in Procs : Carries(op[q], made)
  BY DEF SealInv
<1>4. \A q \in Procs : Carries(op'[q], made')
  BY <1>1, <1>2, <1>3, LaterFiles
<1>5. QED
  BY <1>4 DEF SealInv

\* A step of one process that neither writes nor reads a directory.
Moves(p, n) ==
  /\ op' = [op EXCEPT ![p] = n] /\ n.at # "close"
  /\ n.kind \notin {"export", "import", "publish"} \/ n = op[p]
  /\ made' \in Nat /\ made <= made'
  /\ UNCHANGED <<bundle, public, last, exports>>

\* Private text that comes is with that process, which is where it may have some.
PlainMoves(p, n) ==
  /\ plain' \subseteq Procs \X {"client", "server"} /\ (killed' = killed \/ killed' = TRUE)
  /\ \A q \in Procs : q # p => \A w : <<q, w>> \in plain' => <<q, w>> \in plain
  /\ ~ killed' /\ <<p, "server">> \in plain' => n.at \in AtServer
  /\ ~ killed' /\ <<p, "client">> \in plain' => n.at \in AtClient

\* The backup is a file, and sealed only as a capsule.
Sealing(b, m) ==
  /\ b = [capsule |-> b.capsule, sealed |-> b.sealed] /\ b.sealed \in BOOLEAN
  /\ b.sealed => Capsule(b.capsule, m)

\* What neither writes nor reads a directory keeps it all.
LEMMA Kept ==
  ASSUME VaultInv, NEW p \in Procs, NEW n, Moves(p, n), Form(n, made'), Carries(n, made'),
         PlainMoves(p, n), Sealing(backup', made')
  PROVE  VaultInv'
<1>0. /\ op' = [op EXCEPT ![p] = n] /\ made' \in Nat /\ made <= made' /\ n.at # "close"
      /\ n.kind \notin {"export", "import", "publish"} \/ n = op[p]
      /\ UNCHANGED <<bundle, public, last, exports>>
  BY DEF Moves
<1>1. TypesInv /\ BundleInv /\ PublicInv /\ PlainInv /\ SealInv
  BY DEF VaultInv
<1>2. /\ made \in Nat /\ last \in 0..made /\ exports \in 0..made /\ killed \in BOOLEAN
      /\ Marked(bundle, BundleFiles, made) /\ Marked(public, Range(CapsuleOrder), made)
  BY <1>1 DEF TypesInv
<1>3. last' \in 0..made' /\ exports' \in 0..made'
  BY <1>0, <1>2
<1>4. Marked(bundle', BundleFiles, made') /\ Marked(public', Range(CapsuleOrder), made')
  BY <1>0, <1>2, LaterFiles
<1>5. TypesInv'
  <2>1. killed' \in BOOLEAN
    BY <1>2, Zenon DEF PlainMoves
  <2>2. plain' \subseteq Procs \X {"client", "server"}
    BY DEF PlainMoves
  <2>3. backup' = [capsule |-> backup.capsule, sealed |-> backup.sealed]' /\ backup'.sealed \in BOOLEAN
    BY DEF Sealing
  <2>4. QED
    BY <1>0, <1>1, <1>3, <1>4, <2>1, <2>2, <2>3, TypesKept
<1>6. BundleInv' /\ PublicInv'
  <2>1. op = [q \in Procs |-> op[q]]
    BY <1>1 DEF TypesInv
  <2>2. \A q \in Procs : op'[q].kind \in {"export", "import", "publish"} => op'[q] = op[q]
    BY <1>0, <2>1
  <2>3. QED
    BY <1>0, <1>1, <2>2, BundleApart, PublicApart
<1>7. PlainInv'
  BY <1>0, <1>1, PlainKept DEF PlainMoves
<1>8. SealInv'
  BY <1>0, <1>1, SealKept DEF Sealing
<1>9. QED
  BY <1>5, <1>6, <1>7, <1>8 DEF VaultInv

\* What holds of one process before a step.
LEMMA Before ==
  ASSUME VaultInv, NEW p \in Procs
  PROVE  /\ Form(op[p], made) /\ Record(op[p]) /\ Placed(op[p]) /\ Carries(op[p], made)
         /\ made \in Nat /\ plain \subseteq Procs \X {"client", "server"}
         /\ Sealing(backup, made)
         /\ ~ killed => /\ <<p, "server">> \in plain => op[p].at \in AtServer
                        /\ <<p, "client">> \in plain => op[p].at \in AtClient
<1>1. TypesInv /\ PlainInv /\ SealInv
  BY DEF VaultInv
<1>2. Form(op[p], made) /\ made \in Nat /\ plain \subseteq Procs \X {"client", "server"}
  BY <1>1 DEF TypesInv
<1>3. Record(op[p]) /\ Placed(op[p])
  BY <1>2 DEF Form
<1>4. Carries(op[p], made)
  BY <1>1 DEF SealInv
<1>5. Sealing(backup, made)
  BY <1>1 DEF SealInv, TypesInv, Sealing
<1>6. ~ killed => /\ <<p, "server">> \in plain => op[p].at \in AtServer
                  /\ <<p, "client">> \in plain => op[p].at \in AtClient
  BY <1>1 DEF PlainInv
<1>7. QED
  BY <1>2, <1>3, <1>4, <1>5, <1>6

\* A process that has ended.
LEMMA Nothing ==
  ASSUME NEW m \in Nat
  PROVE  Form(Idle, m) /\ Carries(Idle, m) /\ Idle.kind = "none" /\ Idle.at = "idle"
<1>1. Form(Idle, m)
  BY DEF Form, Idle, Record, Placed, Kinds
<1>2. Carries(Idle, m) /\ Idle.kind = "none" /\ Idle.at = "idle"
  BY DEF Carries, Idle
<1>3. QED
  BY <1>1, <1>2

\* Ending: what is left behind is nothing, or the process was killed.
LEMMA EndKeeps ==
  ASSUME VaultInv, NEW p \in Procs, Ends(p), UNCHANGED <<bundle, public, made, last, exports>>,
         plain' \subseteq plain, killed' = killed \/ killed' = TRUE,
         ~ killed' => \A w : <<p, w>> \notin plain',
         Sealing(backup', made)
  PROVE  VaultInv'
<1>1. op' = [op EXCEPT ![p] = Idle]
  BY DEF Ends, Does
<1>2. made \in Nat /\ plain \subseteq Procs \X {"client", "server"}
  BY Before
<1>3. Form(Idle, made) /\ Carries(Idle, made) /\ Idle.kind = "none" /\ Idle.at = "idle"
  BY <1>2, Nothing
<1>4. Moves(p, Idle)
  BY <1>1, <1>2, <1>3 DEF Moves
<1>5. PlainMoves(p, Idle)
  BY <1>2, Zenon DEF PlainMoves
<1>6. Form(Idle, made') /\ Carries(Idle, made') /\ Sealing(backup', made')
  BY <1>3
<1>7. QED
  BY <1>4, <1>5, <1>6, Kept

\* Private text that stays may stay where the process goes.
LEMMA TextStays ==
  ASSUME VaultInv, NEW p \in Procs, NEW n, UNCHANGED <<plain, killed>>,
         op[p].at \in AtServer => n.at \in AtServer, op[p].at \in AtClient => n.at \in AtClient
  PROVE  PlainMoves(p, n)
<1>1. plain \subseteq Procs \X {"client", "server"}
  BY Before
<1>2. ~ killed => /\ <<p, "server">> \in plain => op[p].at \in AtServer
                  /\ <<p, "client">> \in plain => op[p].at \in AtClient
  BY Before
<1>3. QED
  BY <1>1, <1>2, Zenon DEF PlainMoves

\* A process takes private text along only to where it may be.
LEMMA TextComes ==
  ASSUME VaultInv, NEW p \in Procs, NEW n, UNCHANGED killed,
         plain' \subseteq plain \cup ({p} \X {"client", "server"}), n.at \in AtClient,
         \/ n.at \in AtServer
         \/ <<p, "server">> \notin plain'
         \/ op[p].at \notin AtServer /\ (<<p, "server">> \in plain' => <<p, "server">> \in plain)
  PROVE  PlainMoves(p, n)
<1>1. plain \subseteq Procs \X {"client", "server"}
  BY Before
<1>2. plain' \subseteq Procs \X {"client", "server"}
  BY <1>1
<1>3. \A q \in Procs : q # p => \A w : <<q, w>> \in plain' => <<q, w>> \in plain
  OBVIOUS
<1>4. ~ killed => (<<p, "server">> \in plain => op[p].at \in AtServer)
  BY Before
<1>5. QED
  BY <1>2, <1>3, <1>4, Zenon DEF PlainMoves

\* A sealed backup stays one while more is made.
LEMMA SealStays ==
  ASSUME VaultInv, NEW p \in Procs, UNCHANGED backup, made' \in Nat, made <= made'
  PROVE  Sealing(backup', made')
<1>1. Sealing(backup, made) /\ made \in Nat
  BY Before
<1>2. QED
  BY <1>1, LaterFiles DEF Sealing

\* A step that raised ends, and takes its private text along.
LEMMA FailsKeeps ==
  ASSUME VaultInv, NEW p \in Procs, Fails(p)
  PROVE  VaultInv'
<1>1. Ends(p) /\ plain' = plain \ ({p} \X {"client", "server"})
      /\ UNCHANGED <<bundle, public, backup, made, last, exports, killed>>
  BY DEF Fails, Touches, History
<1>2. plain \subseteq Procs \X {"client", "server"} /\ Sealing(backup, made)
  BY Before
<1>3. \A w : <<p, w>> \notin plain'
  BY <1>1, <1>2
<1>4. QED
  BY <1>1, <1>2, <1>3, EndKeeps

\* A kill leaves it, and says so.
LEMMA KilledKeeps ==
  ASSUME VaultInv, NEW p \in Procs, Killed(p)
  PROVE  VaultInv'
<1>1. Ends(p) /\ killed' = TRUE /\ UNCHANGED <<bundle, public, backup, plain, made, last, exports>>
  BY DEF Killed, Touches
<1>2. Sealing(backup, made)
  BY Before
<1>3. QED
  BY <1>1, <1>2, EndKeeps

\* The host's directories go with its import.
LEMMA MergesKeep ==
  ASSUME VaultInv, NEW p \in Procs, Merges(p)
  PROVE  VaultInv'
<1>1. Ends(p) /\ plain' = plain \ ({p} \X {"client", "server"})
      /\ UNCHANGED <<bundle, public, backup, made, last, exports, killed>>
  BY DEF Merges, Touches, History
<1>2. plain \subseteq Procs \X {"client", "server"} /\ Sealing(backup, made)
  BY Before
<1>3. \A w : <<p, w>> \notin plain'
  BY <1>1, <1>2
<1>4. QED
  BY <1>1, <1>2, <1>3, EndKeeps

\* A backup that begins has nothing yet.
LEMMA BackupKeeps ==
  ASSUME VaultInv, NEW p \in Procs, Backup(p)
  PROVE  VaultInv'
<1>1. PICK t \in BOOLEAN :
        op' = [op EXCEPT ![p] = [Idle EXCEPT !.kind = "backup", !.at = IF t THEN "ingest" ELSE "fetch",
                                             !.turns = t]]
  BY DEF Backup, Does
<1>2. op[p].kind = "none" /\ UNCHANGED <<bundle, public, backup, plain, made, last, exports, killed>>
  BY DEF Backup, Starts, Touches, History
<1>3. PICK n : n = [Idle EXCEPT !.kind = "backup", !.at = IF t THEN "ingest" ELSE "fetch", !.turns = t]
  OBVIOUS
<1>4. n.kind = "backup" /\ n.at \in {"ingest", "fetch"} /\ n.gen = 0 /\ n.expect = 0
      /\ n.turns \in BOOLEAN /\ n.alone \in BOOLEAN /\ Record(n)
  BY <1>3 DEF Idle, Record
<1>5. Form(n, made) /\ Carries(n, made) /\ made \in Nat
  <2>1. made \in Nat
    BY Before
  <2>2. Placed(n)
    BY <1>4 DEF Placed
  <2>3. Form(n, made)
    BY <1>4, <2>1, <2>2 DEF Form, Kinds
  <2>4. QED
    BY <1>4, <2>1, <2>3 DEF Carries
<1>6. op[p].at = "idle"
  <2>1. op[p] = Idle
    BY <1>2, Before, Stands
  <2>2. QED
    BY <2>1 DEF Idle
<1>7. op' = [op EXCEPT ![p] = n]
  BY <1>1, <1>3
<1>8. Moves(p, n)
  BY <1>2, <1>4, <1>5, <1>7 DEF Moves
<1>9. PlainMoves(p, n)
  <2>1. op[p].at \notin AtServer /\ op[p].at \notin AtClient
    BY <1>6 DEF AtServer, AtClient
  <2>2. QED
    BY <1>2, <2>1, TextStays
<1>10. Sealing(backup', made')
  BY <1>2, <1>5, SealStays
<1>11. QED
  BY <1>2, <1>5, <1>8, <1>9, <1>10, Kept

\* What it takes of a conversation is not in any file yet.
LEMMA IngestKeeps ==
  ASSUME VaultInv, NEW p \in Procs, IngestConversationExport(p)
  PROVE  VaultInv'
<1>1. op[p].at = "ingest" /\ op' = [op EXCEPT ![p].at = "fetch"]
      /\ UNCHANGED <<bundle, public, backup, plain, made, last, exports, killed>>
  BY DEF IngestConversationExport, Touches, History
<1>2. PICK o : o = op[p]
  OBVIOUS
<1>3. Form(o, made) /\ Record(o) /\ o.kind = "backup" /\ o.at = "ingest" /\ made \in Nat
  BY <1>1, <1>2, Before, Stands
<1>4. PICK n : n = [o EXCEPT !.at = "fetch"]
  OBVIOUS
<1>5. n.kind = "backup" /\ n.at = "fetch" /\ n.gen = o.gen /\ n.expect = o.expect
      /\ n.turns = o.turns /\ n.alone = o.alone /\ Record(n)
  BY <1>3, <1>4 DEF Record
<1>6. Form(n, made) /\ Carries(n, made)
  <2>1. Placed(n) /\ Carries(n, made)
    BY <1>5 DEF Placed, Carries
  <2>2. QED
    BY <1>3, <1>5, <2>1 DEF Form
<1>7. op' = [op EXCEPT ![p] = n]
  BY <1>1, <1>2, <1>4
<1>8. Moves(p, n)
  <2>1. made' \in Nat /\ made <= made'
    BY <1>1, <1>3
  <2>2. QED
    BY <1>1, <1>5, <1>7, <2>1 DEF Moves
<1>9. PlainMoves(p, n)
  <2>1. op[p].at \notin AtServer /\ op[p].at \notin AtClient
    BY <1>1 DEF AtServer, AtClient
  <2>2. QED
    BY <1>1, <2>1, TextStays
<1>10. Sealing(backup', made')
  BY <1>1, <1>3, SealStays
<1>11. QED
  BY <1>1, <1>6, <1>8, <1>9, <1>10, Kept

\* A bundle is made for it, in places where private text may be.
LEMMA ExportArchiveKeeps ==
  ASSUME VaultInv, NEW p \in Procs, ExportVaultArchive(p)
  PROVE  VaultInv'
<1>1. op[p].at = "fetch" /\ made' = made + 1 /\ plain' = plain \cup {<<p, "client">>, <<p, "server">>}
      /\ op' = [op EXCEPT ![p] = [op[p] EXCEPT !.at = "sent", !.gen = made']]
      /\ UNCHANGED <<bundle, public, backup, last, exports, killed>>
  BY DEF ExportVaultArchive, Does, Touches, History
<1>2. PICK o : o = op[p]
  OBVIOUS
<1>3. Form(o, made) /\ Record(o) /\ o.kind = "backup" /\ made \in Nat
  BY <1>1, <1>2, Before, Stands
<1>4. PICK n : n = [o EXCEPT !.at = "sent", !.gen = made']
  OBVIOUS
<1>5. n.kind = "backup" /\ n.at = "sent" /\ n.gen = made' /\ n.expect = o.expect
      /\ n.turns = o.turns /\ n.alone = o.alone /\ Record(n)
  BY <1>3, <1>4 DEF Record
<1>6. made' \in Nat /\ made' # 0 /\ made <= made'
  BY <1>1, <1>3
<1>7. Form(n, made') /\ Carries(n, made')
  <2>1. Placed(n) /\ Carries(n, made')
    BY <1>5, <1>6 DEF Placed, Carries
  <2>2. Form(o, made')
    BY <1>3, <1>6, Later
  <2>3. n.gen \in 0..made'
    BY <1>5, <1>6
  <2>4. n.kind \in Kinds
    BY <1>5 DEF Kinds
  <2>5. QED
    BY <1>5, <2>1, <2>2, <2>3, <2>4, Zenon DEF Form
<1>8. op' = [op EXCEPT ![p] = n]
  BY <1>1, <1>2, <1>4
<1>9. Moves(p, n)
  BY <1>1, <1>5, <1>6, <1>8 DEF Moves
<1>10. PlainMoves(p, n)
  <2>1. n.at \in AtServer /\ n.at \in AtClient
    BY <1>5 DEF AtServer, AtClient
  <2>2. plain' \subseteq plain \cup ({p} \X {"client", "server"})
    BY <1>1
  <2>3. QED
    BY <1>1, <2>1, <2>2, TextComes
<1>11. Sealing(backup', made')
  BY <1>1, <1>6, SealStays
<1>12. QED
  BY <1>7, <1>9, <1>10, <1>11, Kept

\* What it downloads is the whole bundle,
LEMMA DownloadedKeeps ==
  ASSUME VaultInv, NEW p \in Procs, Downloaded(p)
  PROVE  VaultInv'
<1>1. PICK o : o = op[p]
  OBVIOUS
<1>2. PICK a : a = WriteVaultArchive([f \in BundleFiles |-> Whole(o.gen)])
  OBVIOUS
<1>3. /\ o.at = "sent" /\ plain' = plain \ {<<p, "server">>}
      /\ op' = [op EXCEPT ![p] = [o EXCEPT !.at = "stage", !.got = a]]
      /\ UNCHANGED <<bundle, public, backup, made, last, exports, killed>>
  BY <1>1, <1>2 DEF Downloaded, Does, Touches, History
<1>4. Form(o, made) /\ Record(o) /\ o.kind = "backup" /\ o.gen # 0 /\ made \in Nat
  BY <1>1, <1>3, Before, Stands
<1>5. PICK n : n = [o EXCEPT !.at = "stage", !.got = a]
  OBVIOUS
<1>6. n.kind = "backup" /\ n.at = "stage" /\ n.gen = o.gen /\ n.expect = o.expect
      /\ n.turns = o.turns /\ n.alone = o.alone /\ n.got = a /\ Record(n)
  BY <1>4, <1>5 DEF Record
<1>7. a = [f \in BundleFiles |-> Whole(o.gen)]
  BY <1>2 DEF WriteVaultArchive
<1>8. Form(n, made) /\ Carries(n, made)
  <2>1. Placed(n)
    BY <1>4, <1>6 DEF Placed
  <2>2. Form(n, made)
    BY <1>4, <1>6, <2>1 DEF Form
  <2>3. Carries(n, made)
    BY <1>6, <1>7 DEF Carries
  <2>4. QED
    BY <2>2, <2>3
<1>9. Moves(p, n)
  <2>1. op' = [op EXCEPT ![p] = n]
    BY <1>3, <1>5
  <2>2. made' \in Nat /\ made <= made'
    BY <1>3, <1>4
  <2>3. QED
    BY <1>3, <1>6, <2>1, <2>2 DEF Moves
<1>10. PlainMoves(p, n)
  <2>1. n.at \in AtClient
    BY <1>6 DEF AtClient
  <2>2. plain' \subseteq plain \cup ({p} \X {"client", "server"}) /\ <<p, "server">> \notin plain'
    BY <1>3
  <2>3. QED
    BY <1>3, <2>1, <2>2, TextComes
<1>11. Sealing(backup', made')
  BY <1>3, <1>4, SealStays
<1>12. QED
  BY <1>3, <1>8, <1>9, <1>10, <1>11, Kept

\* what it stages a sound capsule around it,
LEMMA StageKeeps ==
  ASSUME VaultInv, NEW p \in Procs, Stage(p)
  PROVE  VaultInv'
<1>1. PICK o : o = op[p]
  OBVIOUS
<1>2. PICK c : c = AttachVaultBundle(WriteCapsule(o.gen), o.got)
  OBVIOUS
<1>3. PICK a : a = IF o.turns THEN AugmentPrivateCapsule(c, o.gen) ELSE c
  OBVIOUS
<1>4. /\ o.at = "stage" /\ op' = [op EXCEPT ![p] = [o EXCEPT !.at = "seal", !.got = a]]
      /\ UNCHANGED <<bundle, public, backup, plain, made, last, exports, killed>>
  BY <1>1, <1>2, <1>3 DEF Stage, Does, Touches, History
<1>5. Form(o, made) /\ Record(o) /\ o.kind = "backup" /\ o.gen # 0 /\ made \in Nat /\ Carries(o, made)
  BY <1>1, <1>4, Before, Stands
<1>6. PICK n : n = [o EXCEPT !.at = "seal", !.got = a]
  OBVIOUS
<1>7. n.kind = "backup" /\ n.at = "seal" /\ n.gen = o.gen /\ n.expect = o.expect
      /\ n.turns = o.turns /\ n.alone = o.alone /\ n.got = a /\ Record(n)
  BY <1>5, <1>6 DEF Record
<1>8. Capsule(a, made)
  <2>1. o.gen \in 1..made
    <3>1. o.gen \in 0..made
      BY <1>5 DEF Form
    <3>2. QED
      BY <1>5, <3>1
  <2>2. o.got = [f \in BundleFiles |-> Whole(o.gen)]
    BY <1>4, <1>5 DEF Carries
  <2>3. Capsule(c, made) /\ Capsule(AugmentPrivateCapsule(c, o.gen), made)
    BY <1>2, <1>5, <2>1, <2>2, Staged
  <2>4. QED
    BY <1>3, <2>3
<1>9. Form(n, made) /\ Carries(n, made)
  <2>1. Placed(n)
    BY <1>5, <1>7 DEF Placed
  <2>2. Form(n, made)
    BY <1>5, <1>7, <2>1 DEF Form
  <2>3. Carries(n, made)
    BY <1>7, <1>8 DEF Carries
  <2>4. QED
    BY <2>2, <2>3
<1>10. Moves(p, n)
  <2>1. op' = [op EXCEPT ![p] = n]
    BY <1>4, <1>6
  <2>2. made' \in Nat /\ made <= made'
    BY <1>4, <1>5
  <2>3. QED
    BY <1>4, <1>7, <2>1, <2>2 DEF Moves
<1>11. PlainMoves(p, n)
  <2>1. op[p].at \notin AtServer /\ n.at \in AtClient
    BY <1>1, <1>4, <1>7 DEF AtServer, AtClient
  <2>2. QED
    BY <1>4, <2>1, TextStays
<1>12. Sealing(backup', made')
  BY <1>4, <1>5, SealStays
<1>13. QED
  BY <1>4, <1>9, <1>10, <1>11, <1>12, Kept

\* What it seals is that capsule, or nothing that authenticates.
LEMMA TaggedKeeps ==
  ASSUME VaultInv, NEW p \in Procs, Tagged(p)
  PROVE  VaultInv'
<1>1. PICK sd \in BOOLEAN : backup' = [capsule |-> op[p].got, sealed |-> sd]
  <2>1. PICK sd \in IF op[p].alone /\ backup.capsule = op[p].got THEN {TRUE} ELSE BOOLEAN :
          backup' = [capsule |-> op[p].got, sealed |-> sd]
    BY DEF Tagged
  <2>2. sd \in BOOLEAN
    BY <2>1
  <2>3. QED
    BY <2>1, <2>2
<1>2. /\ op[p].at = "tag" /\ Ends(p) /\ plain' = plain \ {<<p, "client">>}
      /\ UNCHANGED <<bundle, public, made, last, exports, killed>>
  BY DEF Tagged, History
<1>3. Capsule(op[p].got, made)
  BY <1>2, Before DEF Carries
<1>4. Sealing(backup', made')
  BY <1>1, <1>2, <1>3 DEF Sealing
<1>5. ASSUME ~ killed', NEW w, <<p, w>> \in plain' PROVE FALSE
  <2>1. <<p, w>> \in plain /\ w # "client"
    BY <1>2, <1>5
  <2>2. w = "server"
    BY <2>1, Before
  <2>3. op[p].at \in AtServer
    BY <1>2, <1>5, <2>1, <2>2, Before
  <2>4. QED
    BY <1>2, <2>3 DEF AtServer
<1>6. QED
  BY <1>2, <1>4, <1>5, EndKeeps

\* A restore that begins has nothing yet.
LEMMA RestoreKeeps ==
  ASSUME VaultInv, NEW p \in Procs, Restore(p) \/ VerifyEncrypted(p)
  PROVE  VaultInv'
<1>1. PICK k \in {"restore", "check"} : op' = [op EXCEPT ![p] = [Idle EXCEPT !.kind = k, !.at = "decrypt"]]
  BY DEF Restore, VerifyEncrypted, Does
<1>2. op[p].kind = "none" /\ UNCHANGED <<bundle, public, backup, plain, made, last, exports, killed>>
  BY DEF Restore, VerifyEncrypted, Touches, History
<1>3. PICK n : n = [Idle EXCEPT !.kind = k, !.at = "decrypt"]
  OBVIOUS
<1>4. n.kind = k /\ n.at = "decrypt" /\ n.gen = 0 /\ n.expect = 0
      /\ n.turns \in BOOLEAN /\ n.alone \in BOOLEAN /\ Record(n)
  BY <1>3 DEF Idle, Record
<1>5. made \in Nat
  BY Before
<1>6. Form(n, made) /\ Carries(n, made)
  <2>1. Placed(n)
    BY <1>4 DEF Placed
  <2>2. Form(n, made)
    BY <1>4, <1>5, <2>1 DEF Form, Kinds
  <2>3. Carries(n, made)
    BY <1>4 DEF Carries
  <2>4. QED
    BY <2>2, <2>3
<1>7. Moves(p, n)
  <2>1. op' = [op EXCEPT ![p] = n]
    BY <1>1, <1>3
  <2>2. made' \in Nat /\ made <= made'
    BY <1>2, <1>5
  <2>3. QED
    BY <1>2, <1>4, <2>1, <2>2 DEF Moves
<1>8. PlainMoves(p, n)
  <2>1. op[p] = Idle
    BY <1>2, Before, Stands
  <2>2. op[p].at \notin AtServer /\ op[p].at \notin AtClient
    BY <2>1 DEF AtServer, AtClient, Idle
  <2>3. QED
    BY <1>2, <2>2, TextStays
<1>9. Sealing(backup', made')
  BY <1>2, <1>5, SealStays
<1>10. QED
  BY <1>2, <1>6, <1>7, <1>8, <1>9, Kept

\* What authenticates is a sound capsule,
LEMMA DecryptKeeps ==
  ASSUME VaultInv, NEW p \in Procs, DecryptPrivateCapsule(p)
  PROVE  VaultInv'
<1>1. PICK o : o = op[p]
  OBVIOUS
<1>2. PICK a : a = backup.capsule
  OBVIOUS
<1>3. /\ o.at = "decrypt" /\ backup.sealed /\ plain' = plain \cup {<<p, "client">>}
      /\ op' = [op EXCEPT ![p] = [o EXCEPT !.at = "verify", !.got = a]]
      /\ UNCHANGED <<bundle, public, backup, made, last, exports, killed>>
  BY <1>1, <1>2 DEF DecryptPrivateCapsule, Does, Touches, History
<1>4. Form(o, made) /\ Record(o) /\ o.kind \in {"restore", "check"} /\ made \in Nat
  BY <1>1, <1>3, Before, Stands
<1>5. PICK n : n = [o EXCEPT !.at = "verify", !.got = a]
  OBVIOUS
<1>6. n.kind = o.kind /\ n.at = "verify" /\ n.gen = o.gen /\ n.expect = o.expect
      /\ n.turns = o.turns /\ n.alone = o.alone /\ n.got = a /\ Record(n)
  BY <1>4, <1>5 DEF Record
<1>7. Capsule(a, made)
  BY <1>2, <1>3, Before DEF Sealing
<1>8. Form(n, made) /\ Carries(n, made)
  <2>1. Placed(n)
    BY <1>4, <1>6 DEF Placed
  <2>2. Form(n, made)
    BY <1>4, <1>6, <2>1 DEF Form
  <2>3. Carries(n, made)
    BY <1>6, <1>7 DEF Carries
  <2>4. QED
    BY <2>2, <2>3
<1>9. Moves(p, n)
  <2>1. op' = [op EXCEPT ![p] = n]
    BY <1>3, <1>5
  <2>2. made' \in Nat /\ made <= made'
    BY <1>3, <1>4
  <2>3. QED
    BY <1>3, <1>4, <1>6, <2>1, <2>2 DEF Moves
<1>10. PlainMoves(p, n)
  <2>1. n.at \in AtClient /\ op[p].at \notin AtServer
    BY <1>1, <1>3, <1>6 DEF AtClient, AtServer
  <2>2. plain' \subseteq plain \cup ({p} \X {"client", "server"})
        /\ (<<p, "server">> \in plain' => <<p, "server">> \in plain)
    BY <1>3
  <2>3. QED
    BY <1>3, <2>1, <2>2, TextComes
<1>11. Sealing(backup', made')
  BY <1>3, <1>4, SealStays
<1>12. QED
  BY <1>3, <1>8, <1>9, <1>10, <1>11, Kept

\* so that what is packed for the host is whole,
LEMMA VerifyKeeps ==
  ASSUME VaultInv, NEW p \in Procs, Verify(p)
  PROVE  VaultInv'
<1>1. PICK o : o = op[p]
  OBVIOUS
<1>2. PICK a : a = WriteVaultArchive(Embedded(o.got))
  OBVIOUS
<1>3. o.at = "verify" /\ UNCHANGED <<bundle, public, backup, made, last, exports, killed>>
  BY <1>1 DEF Verify, Touches, History
<1>4. \/ /\ o.kind = "restore" /\ op' = [op EXCEPT ![p] = [o EXCEPT !.at = "upload", !.got = a]]
         /\ UNCHANGED plain
      \/ Ends(p) /\ plain' = plain \ {<<p, "client">>}
  BY <1>1, <1>2 DEF Verify, Does
<1>5. Form(o, made) /\ Record(o) /\ made \in Nat /\ Carries(o, made) /\ Sealing(backup, made)
      /\ plain \subseteq Procs \X {"client", "server"}
  BY <1>1, <1>3, Before
<1>6. CASE Ends(p) /\ plain' = plain \ {<<p, "client">>}
  <2>1. ASSUME ~ killed', NEW w, <<p, w>> \in plain' PROVE FALSE
    <3>1. <<p, w>> \in plain /\ w # "client"
      BY <1>6, <2>1
    <3>2. w = "server"
      BY <1>5, <3>1
    <3>3. op[p].at \in AtServer
      BY <1>3, <2>1, <3>1, <3>2, Before
    <3>4. QED
      BY <1>1, <1>3, <3>3 DEF AtServer
  <2>2. Sealing(backup', made')
    BY <1>3, <1>5
  <2>3. QED
    BY <1>3, <1>6, <2>1, <2>2, EndKeeps
<1>7. CASE /\ o.kind = "restore" /\ op' = [op EXCEPT ![p] = [o EXCEPT !.at = "upload", !.got = a]]
           /\ UNCHANGED plain
  <2>1. PICK n : n = [o EXCEPT !.at = "upload", !.got = a]
    OBVIOUS
  <2>2. n.kind = "restore" /\ n.at = "upload" /\ n.gen = o.gen /\ n.expect = o.expect
        /\ n.turns = o.turns /\ n.alone = o.alone /\ n.got = a /\ Record(n)
    BY <1>5, <1>7, <2>1 DEF Record
  <2>3. PICK g \in 1..made : IsWhole(a, g)
    <3>1. PICK g \in 1..made : IsWhole(Embedded(o.got), g)
      BY <1>3, <1>5 DEF Carries, Capsule
    <3>2. IsWhole(a, g)
      BY <1>2, <3>1, Unpacked
    <3>3. QED
      BY <3>2
  <2>4. Form(n, made) /\ Carries(n, made)
    <3>1. Placed(n)
      BY <2>2 DEF Placed
    <3>2. Form(n, made)
      BY <1>5, <1>7, <2>2, <3>1 DEF Form
    <3>3. Carries(n, made)
      BY <2>2, <2>3 DEF Carries
    <3>4. QED
      BY <3>2, <3>3
  <2>5. Moves(p, n)
    <3>1. op' = [op EXCEPT ![p] = n]
      BY <1>7, <2>1
    <3>2. made' \in Nat /\ made <= made'
      BY <1>3, <1>5
    <3>3. QED
      BY <1>3, <2>2, <3>1, <3>2 DEF Moves
  <2>6. PlainMoves(p, n)
    <3>1. op[p].at \notin AtServer /\ n.at \in AtClient
      BY <1>1, <1>3, <2>2 DEF AtServer, AtClient
    <3>2. QED
      BY <1>3, <1>7, <3>1, TextStays
  <2>7. Sealing(backup', made')
    BY <1>3, <1>5
  <2>8. QED
    BY <1>3, <2>4, <2>5, <2>6, <2>7, Kept
<1>8. QED
  BY <1>4, <1>6, <1>7

\* and arrives so.
LEMMA ImportArchiveKeeps ==
  ASSUME VaultInv, NEW p \in Procs, ImportVaultArchive(p)
  PROVE  VaultInv'
<1>1. PICK o : o = op[p]
  OBVIOUS
<1>2. /\ o.at = "upload" /\ plain' = plain \cup {<<p, "server">>}
      /\ op' = [op EXCEPT ![p] = [o EXCEPT !.at = "merge"]]
      /\ UNCHANGED <<bundle, public, backup, made, last, exports, killed>>
  BY <1>1 DEF ImportVaultArchive, Does, Touches, History
<1>3. Form(o, made) /\ Record(o) /\ o.kind = "restore" /\ made \in Nat /\ Carries(o, made)
  BY <1>1, <1>2, Before, Stands
<1>4. PICK n : n = [o EXCEPT !.at = "merge"]
  OBVIOUS
<1>5. n.kind = "restore" /\ n.at = "merge" /\ n.gen = o.gen /\ n.expect = o.expect
      /\ n.turns = o.turns /\ n.alone = o.alone /\ n.got = o.got /\ Record(n)
  BY <1>3, <1>4 DEF Record
<1>6. Form(n, made) /\ Carries(n, made)
  <2>1. Placed(n)
    BY <1>5 DEF Placed
  <2>2. Form(n, made)
    BY <1>3, <1>5, <2>1 DEF Form
  <2>3. Carries(n, made)
    BY <1>2, <1>3, <1>5 DEF Carries
  <2>4. QED
    BY <2>2, <2>3
<1>7. Moves(p, n)
  <2>1. op' = [op EXCEPT ![p] = n]
    BY <1>2, <1>4
  <2>2. made' \in Nat /\ made <= made'
    BY <1>2, <1>3
  <2>3. QED
    BY <1>2, <1>5, <2>1, <2>2 DEF Moves
<1>8. PlainMoves(p, n)
  <2>1. n.at \in AtClient /\ n.at \in AtServer
    BY <1>5 DEF AtClient, AtServer
  <2>2. plain' \subseteq plain \cup ({p} \X {"client", "server"})
    BY <1>2
  <2>3. QED
    BY <1>2, <2>1, <2>2, TextComes
<1>9. Sealing(backup', made')
  BY <1>2, <1>3, SealStays
<1>10. QED
  BY <1>2, <1>6, <1>7, <1>8, <1>9, Kept

\* A command that gives up takes its own text along.
LEMMA GivesUpKeeps ==
  ASSUME VaultInv, NEW p \in Procs, GivesUp(p)
  PROVE  VaultInv'
<1>1. /\ op[p].at = "merge" /\ plain' = plain \ {<<p, "client">>} /\ op' = [op EXCEPT ![p] = op[p]]
      /\ UNCHANGED <<bundle, public, backup, made, last, exports, killed>>
  BY DEF GivesUp, Does, Touches, History
<1>2. Form(op[p], made) /\ made \in Nat /\ Carries(op[p], made) /\ Sealing(backup, made)
  BY Before
<1>3. Moves(p, op[p])
  <2>1. made' \in Nat /\ made <= made'
    BY <1>1, <1>2
  <2>2. QED
    BY <1>1, <2>1 DEF Moves
<1>4. PlainMoves(p, op[p])
  <2>1. op[p].at \in AtClient /\ op[p].at \in AtServer
    BY <1>1 DEF AtClient, AtServer
  <2>2. plain' \subseteq plain \cup ({p} \X {"client", "server"})
    BY <1>1
  <2>3. QED
    BY <1>1, <2>1, <2>2, TextComes
<1>5. PICK n : n = op[p]
  OBVIOUS
<1>6. Moves(p, n) /\ PlainMoves(p, n) /\ Form(n, made') /\ Carries(n, made')
  BY <1>1, <1>2, <1>3, <1>4, <1>5
<1>7. QED
  BY <1>1, <1>2, <1>6, Kept

\* and what it begins to write is not sealed yet.
LEMMA EncryptKeeps ==
  ASSUME VaultInv, NEW p \in Procs, EncryptFile(p)
  PROVE  VaultInv'
<1>1. /\ op[p].at = "seal" /\ backup' = [capsule |-> op[p].got, sealed |-> FALSE]
      /\ UNCHANGED <<bundle, public, plain, made, last, exports, killed>>
  BY DEF EncryptFile, History
<1>2. PICK b \in BOOLEAN :
        op' = [q \in Procs |-> IF q = p THEN [op[p] EXCEPT !.at = "tag", !.alone = b]
                               ELSE IF op[q].at = "tag" THEN [op[q] EXCEPT !.alone = FALSE]
                               ELSE op[q]]
  <2>1. PICK b : b = (\A r \in Procs : op[r].at # "tag")
    OBVIOUS
  <2>2. b \in BOOLEAN
    BY <2>1
  <2>3. op' = [q \in Procs |-> CASE q = p -> [op[p] EXCEPT !.at = "tag", !.alone = b]
                                 [] op[q].at = "tag" -> [op[q] EXCEPT !.alone = FALSE]
                                 [] OTHER -> op[q]]
    BY <2>1 DEF EncryptFile
  <2>4. ASSUME NEW q \in Procs
        PROVE  op'[q] = IF q = p THEN [op[p] EXCEPT !.at = "tag", !.alone = b]
                        ELSE IF op[q].at = "tag" THEN [op[q] EXCEPT !.alone = FALSE] ELSE op[q]
    <3>1. CASE q = p
      BY <1>1, <2>3, <3>1
    <3>2. CASE q # p
      BY <2>3, <3>2
    <3>3. QED
      BY <3>1, <3>2
  <2>5. QED
    BY <2>2, <2>3, <2>4
<1>3. TypesInv /\ BundleInv /\ PublicInv /\ PlainInv /\ SealInv
  BY DEF VaultInv
<1>4. ASSUME NEW q \in Procs
      PROVE  /\ Form(op'[q], made) /\ Carries(op'[q], made)
             /\ \/ op'[q] = op[q]
                \/ op[q].kind = "backup" /\ op'[q].kind = "backup" /\ op'[q].at = "tag"
             /\ op'[q].at # op[q].at => op'[q].at = "tag" /\ op[q].at = "seal"
  <2>1. PICK o : o = op[q]
    OBVIOUS
  <2>2. Form(o, made) /\ Record(o) /\ Carries(o, made)
    BY <2>1, Before
  <2>3. CASE op'[q] = op[q]
    <3>1. op'[q] = o
      BY <2>1, <2>3
    <3>2. Form(op'[q], made) /\ Carries(op'[q], made)
      BY <2>2, <3>1
    <3>3. QED
      BY <2>3, <3>2
  <2>4. CASE op'[q] # op[q]
    <3>1. PICK a \in BOOLEAN : op'[q] = [o EXCEPT !.at = "tag", !.alone = a]
      <4>1. CASE q = p
        BY <1>2, <2>1, <4>1
      <4>2. CASE q # p
        <5>1. o.at = "tag" /\ op'[q] = [o EXCEPT !.alone = FALSE]
          BY <1>2, <2>1, <2>4, <4>2
        <5>2. op'[q] = [o EXCEPT !.at = "tag", !.alone = FALSE]
          BY <2>2, <5>1 DEF Record
        <5>3. QED
          BY <5>2
      <4>3. QED
        BY <4>1, <4>2
    <3>2. o.at \in {"seal", "tag"}
      BY <1>1, <1>2, <2>1, <2>4
    <3>3. o.kind = "backup" /\ o.gen # 0
      BY <2>1, <3>2, Before, Stands
    <3>4. PICK n : n = op'[q]
      OBVIOUS
    <3>5. n.kind = "backup" /\ n.at = "tag" /\ n.gen = o.gen /\ n.expect = o.expect
          /\ n.turns = o.turns /\ n.alone \in BOOLEAN /\ n.got = o.got /\ Record(n)
      BY <2>2, <3>1, <3>3, <3>4 DEF Record
    <3>6. Placed(n)
      BY <3>3, <3>5 DEF Placed
    <3>7. Form(n, made)
      BY <2>2, <3>3, <3>5, <3>6 DEF Form
    <3>8. Carries(n, made)
      BY <2>2, <3>2, <3>5 DEF Carries
    <3>9. QED
      BY <2>1, <3>2, <3>3, <3>4, <3>5, <3>7, <3>8
  <2>5. QED
    BY <2>3, <2>4
<1>5. TypesInv'
  <2>1. op' = [q \in Procs |-> op'[q]]
    BY <1>2
  <2>2. ASSUME NEW q \in Procs, op'[q].at = "close" PROVE Head(op'[q].todo) \in DOMAIN Directory(q)'
    <3>1. op'[q] = op[q]
      BY <1>4, <2>2
    <3>2. Head(op[q].todo) \in DOMAIN Directory(q)
      BY <1>3, <2>2, <3>1 DEF TypesInv
    <3>3. QED
      BY <1>1, <3>1, <3>2 DEF Directory
  <2>3. Sealing(backup', made')
    BY <1>1 DEF Sealing
  <2>4. \A q \in Procs : Form(op'[q], made')
    BY <1>1, <1>4
  <2>5. /\ made' \in Nat /\ last' \in 0..made' /\ exports' \in 0..made' /\ killed' \in BOOLEAN
        /\ plain' \subseteq Procs \X {"client", "server"}
        /\ Marked(bundle', BundleFiles, made') /\ Marked(public', Range(CapsuleOrder), made')
    BY <1>1, <1>3 DEF TypesInv
  <2>6. QED
    BY <2>1, <2>2, <2>3, <2>4, <2>5 DEF TypesInv, Sealing
<1>6. made' \in Nat /\ made <= made'
  BY <1>1, <1>3 DEF TypesInv
<1>7. BundleInv' /\ PublicInv'
  <2>1. \A q \in Procs : op'[q].kind \in {"export", "import", "publish"} => op'[q] = op[q]
    BY <1>4
  <2>2. QED
    BY <1>1, <1>3, <1>6, <2>1, BundleApart, PublicApart
<1>8. PlainInv'
  <2>1. ASSUME NEW q \in Procs PROVE /\ op[q].at \in AtServer => op'[q].at \in AtServer
                                     /\ op[q].at \in AtClient => op'[q].at \in AtClient
    BY <1>4 DEF AtServer, AtClient
  <2>2. QED
    BY <1>1, <1>3, <2>1 DEF PlainInv
<1>9. SealInv'
  BY <1>1, <1>4 DEF SealInv
<1>10. QED
  BY <1>5, <1>7, <1>8, <1>9 DEF VaultInv

\* With an export that begins nobody is alone any more, and nothing is expected.
LEMMA ExportKeeps ==
  ASSUME VaultInv, NEW p \in Procs, Export(p)
  PROVE  VaultInv'
<1>1. /\ op[p].kind = "none" /\ made' = made + 1 /\ exports' = exports + 1 /\ last' = 0
      /\ UNCHANGED <<bundle, public, backup, plain, killed>>
  BY DEF Export, Starts, Touches
<1>2. TypesInv /\ BundleInv /\ PublicInv /\ PlainInv /\ SealInv
  BY DEF VaultInv
<1>3. made \in Nat /\ made' \in Nat /\ made <= made' /\ made' # 0 /\ exports \in 0..made
  BY <1>1, <1>2 DEF TypesInv
<1>4. op[p] = Idle
  BY <1>1, Before, Stands
<1> DEFINE n == [Idle EXCEPT !.kind = "export", !.at = "open", !.gen = made',
                             !.todo = WriteOrder, !.alone = Exporting = {}]
<1>5. op' = [q \in Procs |->
               CASE q = p -> n
                 [] q \in Exporting -> [op[q] EXCEPT !.alone = FALSE]
                 [] op[q].kind = "import" -> [op[q] EXCEPT !.expect = 0]
                 [] OTHER -> op[q]]
  BY DEF Export
<1>6. n.kind = "export" /\ n.at = "open" /\ n.gen = made' /\ n.expect = 0 /\ n.todo = WriteOrder
      /\ n.turns \in BOOLEAN /\ n.alone = (Exporting = {}) /\ Record(n)
  <2>1. PICK e \in BOOLEAN : e = (Exporting = {})
    OBVIOUS
  <2>2. n = [Idle EXCEPT !.kind = "export", !.at = "open", !.gen = made', !.todo = WriteOrder, !.alone = e]
    BY <2>1, Zenon
  <2> HIDE DEF n
  <2>3. n.kind = "export" /\ n.at = "open" /\ n.gen = made' /\ n.expect = 0 /\ n.todo = WriteOrder
        /\ n.turns \in BOOLEAN /\ n.alone = e /\ Record(n)
    BY <2>2 DEF Idle, Record
  <2>4. QED
    BY <2>1, <2>3
<1> HIDE DEF n
<1>7. p \notin Exporting
  BY <1>1 DEF Exporting
<1>8. /\ op' = [q \in Procs |-> op'[q]] /\ op'[p] = n
      /\ \A q \in Procs : q # p =>
           op'[q] = IF q \in Exporting THEN [op[q] EXCEPT !.alone = FALSE]
                    ELSE IF op[q].kind = "import" THEN [op[q] EXCEPT !.expect = 0]
                    ELSE op[q]
  <2>1. ASSUME NEW q \in Procs, q # p
        PROVE  op'[q] = IF q \in Exporting THEN [op[q] EXCEPT !.alone = FALSE]
                        ELSE IF op[q].kind = "import" THEN [op[q] EXCEPT !.expect = 0]
                        ELSE op[q]
    <3>1. CASE q \in Exporting
      <4>1. op[q].kind # "import"
        BY <3>1 DEF Exporting
      <4>2. QED
        BY <1>5, <2>1, <3>1, <4>1
    <3>2. CASE q \notin Exporting
      BY <1>5, <2>1, <3>2
    <3>3. QED
      BY <3>1, <3>2
  <2>2. op'[p] = n
    BY <1>1, <1>7, <1>5
  <2>3. QED
    BY <1>5, <2>1, <2>2
<1>9. Form(n, made') /\ Carries(n, made')
  <2>1. Placed(n)
    BY <1>3, <1>6, Files DEF Placed
  <2>2. n.alone \in BOOLEAN
    BY <1>6
  <2>3. n.gen \in 0..made' /\ n.expect \in 0..made'
    BY <1>3, <1>6
  <2>4. Form(n, made')
    BY <1>6, <2>1, <2>2, <2>3, Zenon DEF Form, Kinds
  <2>5. Carries(n, made')
    BY <1>6 DEF Carries
  <2>6. QED
    BY <2>4, <2>5
<1>10. ASSUME NEW q \in Procs, q # p
       PROVE  /\ Form(op'[q], made') /\ Carries(op'[q], made')
              /\ op'[q].kind = op[q].kind /\ op'[q].at = op[q].at /\ op'[q].todo = op[q].todo
              /\ op'[q].kind = "export" => ~ op'[q].alone
              /\ op'[q].kind = "import" => op'[q].expect = 0
              /\ op'[q].kind = "publish" => op'[q] = op[q]
  <2>1. PICK o : o = op[q]
    OBVIOUS
  <2>2. Form(o, made') /\ Record(o) /\ Carries(o, made') /\ Placed(o)
    BY <1>3, <2>1, Before, Later, LaterFiles
  <2>3. PICK k : k = op'[q]
    OBVIOUS
  <2>4. CASE q \in Exporting
    <3>1. k = [o EXCEPT !.alone = FALSE] /\ o.kind = "export"
      BY <1>8, <1>10, <2>1, <2>3, <2>4 DEF Exporting
    <3>2. k.kind = "export" /\ k.at = o.at /\ k.gen = o.gen /\ k.todo = o.todo /\ k.got = o.got
          /\ k.turns = o.turns /\ k.alone = FALSE /\ k.expect = o.expect /\ Record(k)
      BY <2>2, <3>1 DEF Record
    <3>3. o.at \in {"open", "close"} /\ o.gen # 0 /\ EndsWith(o.todo, "manifest", BundleFiles)
      BY <2>2, <3>1 DEF Placed, Idle
    <3>4. Placed(k)
      BY <3>2, <3>3 DEF Placed
    <3>5. Form(k, made')
      BY <2>2, <3>1, <3>2, <3>4, Zenon DEF Form
    <3>6. Carries(k, made')
      BY <2>2, <3>1, <3>2 DEF Carries
    <3>7. QED
      BY <2>1, <2>3, <3>1, <3>2, <3>5, <3>6
  <2>5. CASE o.kind = "import"
    <3>1. q \notin Exporting
      BY <2>1, <2>5 DEF Exporting
    <3>2. k = [o EXCEPT !.expect = 0]
      BY <1>8, <1>10, <2>1, <2>3, <2>5, <3>1
    <3>3. k.kind = "import" /\ k.at = o.at /\ k.gen = o.gen /\ k.todo = o.todo /\ k.got = o.got
          /\ k.turns = o.turns /\ k.alone = o.alone /\ k.expect = 0 /\ Record(k)
      BY <2>2, <2>5, <3>2 DEF Record
    <3>4. \/ o.at = "read" /\ o.todo \in Seq(BundleFiles) /\ o.todo # <<>>
          \/ o.at = "merge" /\ o.todo = <<>>
      BY <2>2, <2>5, Stands
    <3>5. Placed(k)
      BY <3>3, <3>4 DEF Placed
    <3>6. 0 \in 0..made'
      BY <1>3
    <3>7. Form(k, made')
      BY <2>2, <2>5, <3>3, <3>5, <3>6, Zenon DEF Form
    <3>8. Carries(k, made')
      BY <2>2, <2>5, <3>3 DEF Carries
    <3>9. QED
      BY <2>1, <2>3, <2>5, <3>3, <3>7, <3>8
  <2>6. CASE q \notin Exporting /\ o.kind # "import"
    <3>1. k = o
      BY <1>8, <1>10, <2>1, <2>3, <2>6
    <3>2. o.kind # "export"
      BY <2>1, <2>6 DEF Exporting
    <3>3. QED
      BY <2>1, <2>2, <2>3, <2>6, <3>1, <3>2
  <2>7. QED
    BY <2>1, <2>4, <2>5, <2>6
<1>11. TypesInv'
  <2>1. \A q \in Procs : Form(op'[q], made')
    BY <1>8, <1>9, <1>10
  <2>2. ASSUME NEW q \in Procs, op'[q].at = "close" PROVE Head(op'[q].todo) \in DOMAIN Directory(q)'
    <3>1. q # p
      BY <1>6, <1>8, <2>2
    <3>2. op'[q].kind = op[q].kind /\ op'[q].at = op[q].at /\ op'[q].todo = op[q].todo
      BY <1>10, <3>1
    <3>3. Head(op[q].todo) \in DOMAIN Directory(q)
      BY <1>2, <2>2, <3>2 DEF TypesInv
    <3>4. QED
      BY <1>1, <3>2, <3>3 DEF Directory
  <2>3. Sealing(backup', made')
    BY <1>1, <1>3, SealStays
  <2>4. last' \in 0..made' /\ exports' \in 0..made'
    BY <1>1, <1>3
  <2>5. Marked(bundle', BundleFiles, made') /\ Marked(public', Range(CapsuleOrder), made')
    BY <1>1, <1>2, <1>3, LaterFiles DEF TypesInv
  <2>6. killed' \in BOOLEAN /\ plain' \subseteq Procs \X {"client", "server"}
    BY <1>1, <1>2 DEF TypesInv
  <2>7. op' = [q \in Procs |-> op'[q]]
    BY <1>8
  <2>8. QED
    BY <1>3, <2>1, <2>2, <2>3, <2>4, <2>5, <2>6, <2>7 DEF TypesInv, Sealing
<1>12. BundleInv'
  <2>1. exports' # 0 /\ (exports' = 1 => exports = 0)
    BY <1>1, <1>3
  <2>2. Exporting' = Exporting \cup {p}
    BY <1>6, <1>8, <1>10 DEF Exporting
  <2>3. ASSUME NEW q \in Exporting'
        PROVE  /\ op'[q].alone => Exporting' = {q} /\ Written(bundle', op'[q], BundleFiles)
               /\ exports' = 1 => op'[q].alone
    <3>1. CASE q = p
      <4>1. Written(bundle', op'[q], BundleFiles)
        BY <1>6, <1>8, <3>1, Files DEF Written
      <4>2. exports = 0 => Exporting = {}
        BY <1>2 DEF BundleInv
      <4>3. op'[q].alone = (Exporting = {})
        BY <1>6, <1>8, <3>1
      <4>4. op'[q].alone => Exporting' = {q}
        BY <2>2, <3>1, <4>3
      <4>5. exports' = 1 => op'[q].alone
        BY <2>1, <4>2, <4>3
      <4>6. QED
        BY <4>1, <4>4, <4>5
    <3>2. CASE q # p
      <4>1. q \in Exporting /\ q \in Procs
        BY <2>2, <3>2 DEF Exporting
      <4>2. exports # 0
        BY <1>2, <4>1 DEF BundleInv
      <4>3. op'[q].kind = "export"
        BY <1>10, <3>2, <4>1 DEF Exporting
      <4>4. ~ op'[q].alone
        BY <1>10, <3>2, <4>1, <4>3
      <4>5. QED
        BY <2>1, <4>2, <4>4
    <3>3. QED
      BY <3>1, <3>2
  <2>4. ~ (exports' = 1 /\ "manifest" \in DOMAIN bundle' /\ ~ bundle'["manifest"].cut)
    <3>1. exports = 0 => DOMAIN bundle = {}
      BY <1>2 DEF BundleInv
    <3>2. QED
      BY <1>1, <2>1, <3>1
  <2>5. ASSUME NEW q \in Procs PROVE ImportInv(op[q])'
    <3>1. CASE op'[q].kind = "import"
      <4>1. q # p /\ op'[q].expect = 0 /\ op[q].kind = "import"
        BY <1>6, <1>8, <1>10, <3>1
      <4>2. exports # 0
        BY <1>2, <4>1 DEF BundleInv, ImportInv
      <4>3. QED
        BY <2>1, <4>1, <4>2 DEF ImportInv
    <3>2. CASE op'[q].kind # "import"
      BY <3>2 DEF ImportInv
    <3>3. QED
      BY <3>1, <3>2
  <2>6. QED
    BY <1>1, <2>1, <2>3, <2>4, <2>5 DEF BundleInv
<1>13. PublicInv'
  <2>1. \A q \in Procs : op'[q].kind = "publish" => op'[q] = op[q]
    BY <1>6, <1>8, <1>10
  <2>2. QED
    BY <1>1, <1>2, <1>3, <2>1, PublicApart
<1>14. PlainInv'
  <2>1. op[p].at \notin AtServer /\ op[p].at \notin AtClient
    BY <1>4 DEF Idle, AtServer, AtClient
  <2>2. QED
    BY <1>1, <1>2, <1>10, <2>1 DEF PlainInv
<1>15. SealInv'
  <2>1. Sealing(backup', made')
    BY <1>1, <1>3, SealStays
  <2>2. QED
    BY <1>8, <1>9, <1>10, <2>1 DEF SealInv, Sealing
<1>16. QED
  BY <1>11, <1>12, <1>13, <1>14, <1>15 DEF VaultInv

\* A public capsule that is begun has nothing written.
LEMMA PublishKeeps ==
  ASSUME VaultInv, NEW p \in Procs, Publish(p)
  PROVE  VaultInv'
<1>1. /\ op[p].kind = "none" /\ \A q \in Procs : op[q].kind # "publish" /\ made' = made + 1
      /\ op' = [op EXCEPT ![p] = [Idle EXCEPT !.kind = "publish", !.at = "open", !.gen = made',
                                              !.todo = CapsuleOrder]]
      /\ UNCHANGED <<bundle, public, backup, plain, last, exports, killed>>
  BY DEF Publish, Starts, Does, Touches, History
<1>2. PICK n : n = [Idle EXCEPT !.kind = "publish", !.at = "open", !.gen = made', !.todo = CapsuleOrder]
  OBVIOUS
<1>3. n.kind = "publish" /\ n.at = "open" /\ n.gen = made' /\ n.expect = 0 /\ n.todo = CapsuleOrder
      /\ n.turns \in BOOLEAN /\ n.alone = TRUE /\ Record(n)
  BY <1>2 DEF Idle, Record
<1>4. TypesInv /\ BundleInv /\ PublicInv /\ PlainInv /\ SealInv
  BY DEF VaultInv
<1>5. made \in Nat /\ made' \in Nat /\ made <= made' /\ made' # 0
  BY <1>1, <1>4 DEF TypesInv
<1>6. Form(n, made') /\ Carries(n, made')
  <2>1. Placed(n)
    BY <1>3, <1>5, Files DEF Placed
  <2>2. n.gen \in 0..made' /\ n.expect \in 0..made'
    BY <1>3, <1>5
  <2>3. n.kind \in Kinds /\ n.turns \in BOOLEAN /\ n.alone \in BOOLEAN
    BY <1>3 DEF Kinds
  <2>4. Form(n, made')
    BY <1>3, <2>1, <2>2, <2>3, Zenon DEF Form
  <2>5. Carries(n, made')
    BY <1>3 DEF Carries
  <2>6. QED
    BY <2>4, <2>5
<1>7. op' = [op EXCEPT ![p] = n]
  BY <1>1, <1>2
<1>8. op'[p] = n /\ \A q \in Procs : q # p => op'[q] = op[q]
  BY <1>4, <1>7 DEF TypesInv
<1>9. Sealing(backup', made')
  BY <1>1, <1>5, SealStays
<1>10. TypesInv'
  <2>1. last' \in 0..made' /\ exports' \in 0..made'
    BY <1>1, <1>4, <1>5 DEF TypesInv
  <2>2. killed' \in BOOLEAN /\ plain' \subseteq Procs \X {"client", "server"}
    BY <1>1, <1>4 DEF TypesInv
  <2>3. Marked(bundle', BundleFiles, made') /\ Marked(public', Range(CapsuleOrder), made')
    BY <1>1, <1>4, <1>5, LaterFiles DEF TypesInv
  <2>4. backup' = [capsule |-> backup.capsule, sealed |-> backup.sealed]' /\ backup'.sealed \in BOOLEAN
    BY <1>9 DEF Sealing
  <2>5. n.at # "close"
    BY <1>3
  <2>6. QED
    BY <1>1, <1>4, <1>5, <1>6, <1>7, <2>1, <2>2, <2>3, <2>4, <2>5, TypesKept
<1>11. BundleInv'
  <2>1. \A q \in Procs : op'[q].kind \in {"export", "import"} => op'[q] = op[q]
    BY <1>3, <1>8
  <2>2. QED
    BY <1>1, <1>4, <1>5, <2>1, BundleApart
<1>12. PublicInv'
  <2>1. \A q \in Procs : op'[q].kind = "publish" => q = p
    BY <1>1, <1>8
  <2>2. Written(public', op'[p], Range(CapsuleOrder))
    BY <1>3, <1>8 DEF Written
  <2>3. 1..made \subseteq 1..made'
    BY <1>5
  <2>4. "checksums" \in DOMAIN public' /\ ~ public'["checksums"].cut =>
          \E g \in 1..made' : Summed(public'["checksums"], g)
    BY <1>1, <1>4, <2>3 DEF PublicInv
  <2>5. QED
    BY <2>1, <2>2, <2>4 DEF PublicInv
<1>13. PlainInv'
  <2>1. op[p] = Idle
    BY <1>1, Before, Stands
  <2>2. op[p].at \notin AtServer /\ op[p].at \notin AtClient
    BY <2>1 DEF Idle, AtServer, AtClient
  <2>3. QED
    BY <1>1, <1>4, <1>8, <2>2 DEF PlainInv
<1>14. SealInv'
  BY <1>4, <1>5, <1>6, <1>7, <1>9, SealKept DEF Sealing
<1>15. QED
  BY <1>10, <1>11, <1>12, <1>13, <1>14 DEF VaultInv

\* An import that begins expects what the last export has left.
LEMMA ImportKeeps ==
  ASSUME VaultInv, NEW p \in Procs, Import(p)
  PROVE  VaultInv'
<1>1. /\ op[p].kind = "none" /\ exports > 0
      /\ op' = [op EXCEPT ![p] = [Idle EXCEPT !.kind = "import", !.at = "read", !.todo = ReadOrder,
                                              !.expect = last]]
      /\ UNCHANGED <<bundle, public, backup, plain, made, last, exports, killed>>
  BY DEF Import, Does, Touches, History
<1>2. PICK n : n = [Idle EXCEPT !.kind = "import", !.at = "read", !.todo = ReadOrder, !.expect = last]
  OBVIOUS
<1>3. n.kind = "import" /\ n.at = "read" /\ n.gen = 0 /\ n.expect = last /\ n.todo = ReadOrder
      /\ n.turns \in BOOLEAN /\ n.alone = TRUE /\ n.got = <<>> /\ Record(n)
  BY <1>2 DEF Idle, Record
<1>4. TypesInv /\ BundleInv /\ PublicInv /\ PlainInv /\ SealInv
  BY DEF VaultInv
<1>5. made \in Nat /\ made' \in Nat /\ made <= made' /\ last \in 0..made /\ exports \in 0..made
  BY <1>1, <1>4 DEF TypesInv
<1>6. Form(n, made') /\ Carries(n, made')
  <2>1. Placed(n)
    BY <1>3, Files DEF Placed
  <2>2. n.gen \in 0..made' /\ n.expect \in 0..made'
    BY <1>1, <1>3, <1>5
  <2>3. n.kind \in Kinds /\ n.turns \in BOOLEAN /\ n.alone \in BOOLEAN
    BY <1>3 DEF Kinds
  <2>4. Form(n, made')
    BY <1>3, <2>1, <2>2, <2>3, Zenon DEF Form
  <2>5. Carries(n, made')
    BY <1>3 DEF Carries
  <2>6. QED
    BY <2>4, <2>5
<1>7. op' = [op EXCEPT ![p] = n]
  BY <1>1, <1>2
<1>8. op'[p] = n /\ \A q \in Procs : q # p => op'[q] = op[q]
  BY <1>4, <1>7 DEF TypesInv
<1>9. Sealing(backup', made')
  BY <1>1, <1>5, SealStays
<1>10. TypesInv'
  <2>1. last' \in 0..made' /\ exports' \in 0..made'
    BY <1>1, <1>5
  <2>2. killed' \in BOOLEAN /\ plain' \subseteq Procs \X {"client", "server"}
    BY <1>1, <1>4 DEF TypesInv
  <2>3. Marked(bundle', BundleFiles, made') /\ Marked(public', Range(CapsuleOrder), made')
    BY <1>1, <1>4 DEF TypesInv
  <2>4. backup' = [capsule |-> backup.capsule, sealed |-> backup.sealed]' /\ backup'.sealed \in BOOLEAN
    BY <1>9 DEF Sealing
  <2>5. n.at # "close"
    BY <1>3
  <2>6. QED
    BY <1>1, <1>4, <1>5, <1>6, <1>7, <2>1, <2>2, <2>3, <2>4, <2>5, TypesKept
<1>11. BundleInv'
  <2>1. Exporting' \subseteq Exporting /\ \A q \in Exporting' : op'[q] = op[q]
    BY <1>3, <1>8 DEF Exporting
  <2>2. p \notin Exporting
    BY <1>1 DEF Exporting
  <2>3. ASSUME NEW q \in Exporting'
        PROVE  /\ op'[q].alone => Exporting' = {q} /\ Written(bundle', op'[q], BundleFiles)
               /\ exports' = 1 => op'[q].alone
    <3>1. q \in Exporting /\ op'[q] = op[q]
      BY <2>1
    <3>2. (op[q].alone => Exporting = {q} /\ Written(bundle, op[q], BundleFiles))
          /\ (exports = 1 => op[q].alone)
      BY <1>4, <3>1 DEF BundleInv
    <3>3. QED
      BY <1>1, <2>1, <3>1, <3>2
  <2>4. ASSUME NEW q \in Procs PROVE ImportInv(op[q])'
    <3>1. CASE q = p
      <4>1. exports' # 0
        BY <1>1, <1>5
      <4>2. DOMAIN n.got = {} /\ DOMAIN n.got \cup Range(n.todo) = BundleFiles
        BY <1>3, Files
      <4>3. HasRead(n, last)
        BY <4>2 DEF HasRead
      <4>4. QED
        BY <1>1, <1>3, <1>8, <3>1, <4>1, <4>2, <4>3 DEF ImportInv
    <3>2. CASE q # p
      <4>1. op'[q] = op[q] /\ ImportInv(op[q])
        BY <1>4, <1>8, <3>2 DEF BundleInv
      <4>2. QED
        BY <1>1, <4>1 DEF ImportInv
    <3>3. QED
      BY <3>1, <3>2
  <2>5. /\ last' # 0 => Exporting' = {} /\ IsWhole(bundle', last')
        /\ exports' = 0 => DOMAIN bundle' = {} /\ Exporting' = {}
    BY <1>1, <1>4, <2>1 DEF BundleInv
  <2>6. exports' = 1 /\ "manifest" \in DOMAIN bundle' /\ ~ bundle'["manifest"].cut =>
          Exporting' = {} /\ \E g \in 1..made' : IsWhole(bundle', g)
    BY <1>1, <1>4, <2>1 DEF BundleInv
  <2>7. QED
    BY <2>3, <2>4, <2>5, <2>6 DEF BundleInv
<1>12. PublicInv'
  <2>1. \A q \in Procs : op'[q].kind = "publish" => op'[q] = op[q]
    BY <1>3, <1>8
  <2>2. QED
    BY <1>1, <1>4, <1>5, <2>1, PublicApart
<1>13. PlainInv'
  <2>1. op[p] = Idle
    BY <1>1, Before, Stands
  <2>2. op[p].at \notin AtServer /\ op[p].at \notin AtClient
    BY <2>1 DEF Idle, AtServer, AtClient
  <2>3. QED
    BY <1>1, <1>4, <1>8, <2>2 DEF PlainInv
<1>14. SealInv'
  BY <1>4, <1>5, <1>6, <1>7, <1>9, SealKept DEF Sealing
<1>15. QED
  BY <1>10, <1>11, <1>12, <1>13, <1>14 DEF VaultInv

\* One more file of a whole bundle has been read.
LEMMA ReadOne ==
  ASSUME NEW b, NEW g, IsWhole(b, g), NEW o, NEW f, NEW rest, HasRead(o, g),
         Range(o.todo) = {f} \cup Range(rest), f \in BundleFiles,
         NEW n, n.got = Put(o.got, f, b[f]), n.todo = rest
  PROVE  HasRead(n, g)
<1>1. b[f] = Whole(g)
  BY DEF IsWhole
<1>2. DOMAIN o.got \cup ({f} \cup Range(rest)) = BundleFiles /\ \A x \in DOMAIN o.got : o.got[x] = Whole(g)
  BY DEF HasRead
<1>3. DOMAIN n.got = DOMAIN o.got \cup {f} /\ n.got[f] = Whole(g)
      /\ \A x \in DOMAIN o.got : x # f => n.got[x] = o.got[x]
  <2>1. PICK w : w = Whole(g)
    OBVIOUS
  <2>2. n.got = [x \in DOMAIN o.got \cup {f} |-> IF x = f THEN w ELSE o.got[x]]
    BY <1>1, <2>1 DEF Put
  <2>3. QED
    BY <2>1, <2>2
<1>4. DOMAIN n.got \cup Range(n.todo) = BundleFiles
  BY <1>2, <1>3
<1>5. \A x \in DOMAIN n.got : n.got[x] = Whole(g)
  BY <1>2, <1>3
<1>6. QED
  BY <1>4, <1>5 DEF HasRead

\* An import reads on.
LEMMA ReadsOn ==
  ASSUME VaultInv, NEW p \in Procs, op[p].at = "read", op[p].kind = "import",
         Readable(bundle, Head(op[p].todo)), NEW n, n.kind = "import", n.expect = op[p].expect,
         n.todo = Tail(op[p].todo),
         n.got = IF Head(op[p].todo) \in DOMAIN bundle
                   THEN Put(op[p].got, Head(op[p].todo), bundle[Head(op[p].todo)]) ELSE op[p].got
  PROVE  ImportInv(n)
<1>1. PICK o : o = op[p]
  OBVIOUS
<1>2. PICK f : f = Head(o.todo)
  OBVIOUS
<1>3. ImportInv(o) /\ (last # 0 => IsWhole(bundle, last))
      /\ (exports = 1 /\ "manifest" \in DOMAIN bundle /\ ~ bundle["manifest"].cut =>
            \E g \in 1..made : IsWhole(bundle, g))
  BY <1>1 DEF VaultInv, BundleInv
<1>4. o.todo \in Seq(BundleFiles) /\ o.todo # <<>>
  BY <1>1, Before, Stands
<1>5. f \in BundleFiles /\ Range(o.todo) = {f} \cup Range(n.todo)
  BY <1>1, <1>2, <1>4, HeadTail
<1>6. ASSUME NEW g, IsWhole(bundle, g), HasRead(o, g) PROVE HasRead(n, g)
  <2>1. f \in DOMAIN bundle
    BY <1>5, <1>6 DEF IsWhole
  <2>2. n.got = Put(o.got, f, bundle[f])
    BY <1>1, <1>2, <2>1
  <2>3. PICK rest : rest = n.todo
    OBVIOUS
  <2>4. Range(o.todo) = {f} \cup Range(rest) /\ n.todo = rest
    BY <1>5, <2>3
  <2>5. QED
    BY <1>5, <1>6, <2>2, <2>4, ReadOne
<1>7. exports # 0
  BY <1>1, <1>3 DEF ImportInv
<1>8. ASSUME n.expect # 0 PROVE n.expect = last /\ HasRead(n, last)
  <2>1. o.expect = last /\ HasRead(o, last) /\ last # 0
    BY <1>1, <1>3, <1>8 DEF ImportInv
  <2>2. HasRead(n, last)
    BY <1>3, <1>6, <2>1
  <2>3. QED
    BY <1>1, <2>1, <2>2
<1>9. ASSUME exports = 1 PROVE \E g \in 1..made : IsWhole(bundle, g) /\ HasRead(n, g)
  <2>1. CASE o.todo = ReadOrder /\ DOMAIN o.got = {}
    <3>1. f = "manifest"
      BY <1>2, <2>1, Files
    <3>2. f \in DOMAIN bundle /\ ~ bundle[f].cut
      BY <1>1, <1>2, <3>1 DEF Readable, Lists
    <3>3. PICK g \in 1..made : IsWhole(bundle, g)
      BY <1>3, <1>9, <3>1, <3>2
    <3>4. HasRead(o, g)
      BY <2>1, Files DEF HasRead
    <3>5. QED
      BY <1>6, <3>3, <3>4
  <2>2. CASE \E g \in 1..made : IsWhole(bundle, g) /\ HasRead(o, g)
    BY <1>6, <2>2
  <2>3. QED
    BY <1>1, <1>3, <1>9, <2>1, <2>2 DEF ImportInv
<1>10. QED
  BY <1>7, <1>8, <1>9 DEF ImportInv

\* With every file an import reads on, or gives up.
LEMMA ReadKeeps ==
  ASSUME VaultInv, NEW p \in Procs, Read(p)
  PROVE  VaultInv'
<1>1. PICK f : f = Head(op[p].todo)
  OBVIOUS
<1>2. PICK rest : rest = Tail(op[p].todo)
  OBVIOUS
<1>3. PICK g : g = IF f \in DOMAIN bundle THEN Put(op[p].got, f, bundle[f]) ELSE op[p].got
  OBVIOUS
<1>4. PICK a : a = IF rest = <<>> THEN "merge" ELSE op[p].at
  OBVIOUS
<1>5. /\ op[p].at = "read" /\ op[p].kind = "import"
      /\ UNCHANGED <<bundle, public, backup, plain, made, last, exports, killed>>
  BY DEF Read, Touches, History
<1>6. \/ Ends(p)
      \/ Readable(bundle, f) /\ op' = [op EXCEPT ![p] = [op[p] EXCEPT !.got = g, !.todo = rest, !.at = a]]
  BY <1>1, <1>2, <1>3, <1>4 DEF Read, Does
<1>7. CASE Ends(p)
  <2>1. ASSUME ~ killed', NEW w, <<p, w>> \in plain' PROVE FALSE
    <3>1. w \in {"client", "server"}
      BY <1>5, <2>1, Before
    <3>2. op[p].at \in AtServer \/ op[p].at \in AtClient
      BY <1>5, <2>1, <3>1, Before
    <3>3. QED
      BY <1>5, <3>2 DEF AtServer, AtClient
  <2>2. Sealing(backup', made')
    BY <1>5, Before
  <2>3. QED
    BY <1>5, <1>7, <2>1, <2>2, EndKeeps
<1>8. CASE Readable(bundle, f) /\ op' = [op EXCEPT ![p] = [op[p] EXCEPT !.got = g, !.todo = rest, !.at = a]]
  <2>1. PICK o : o = op[p]
    OBVIOUS
  <2>2. PICK n : n = [o EXCEPT !.got = g, !.todo = rest, !.at = a]
    OBVIOUS
  <2>3. TypesInv /\ BundleInv /\ PublicInv /\ PlainInv /\ SealInv
    BY DEF VaultInv
  <2>4. Form(o, made) /\ Record(o) /\ made \in Nat /\ made' \in Nat /\ made <= made'
        /\ o.todo \in Seq(BundleFiles) /\ o.todo # <<>>
    <3>1. Form(o, made) /\ Record(o) /\ Placed(o) /\ made \in Nat
      BY <2>1, Before
    <3>2. o.todo \in Seq(BundleFiles) /\ o.todo # <<>>
      BY <1>5, <2>1, <3>1, Stands
    <3>3. made' \in Nat /\ made <= made'
      BY <1>5, <3>1
    <3>4. QED
      BY <3>1, <3>2, <3>3
  <2>5. n.kind = "import" /\ n.at = a /\ n.gen = o.gen /\ n.expect = o.expect /\ n.todo = rest
        /\ n.turns = o.turns /\ n.alone = o.alone /\ n.got = g /\ Record(n)
    BY <1>5, <2>1, <2>2, <2>4 DEF Record
  <2>6. Form(n, made') /\ Carries(n, made') /\ n.at # "close"
    <3>1. rest \in Seq(BundleFiles) /\ a = IF rest = <<>> THEN "merge" ELSE "read"
      BY <1>2, <1>4, <1>5, <2>1, <2>4, HeadTail
    <3>2. Placed(n)
      BY <2>5, <3>1 DEF Placed
    <3>3. n.kind \in Kinds
      BY <2>5 DEF Kinds
    <3>4. Form(n, made')
      BY <1>5, <2>4, <2>5, <3>2, <3>3, Zenon DEF Form
    <3>5. a \in {"merge", "read"}
      BY <3>1
    <3>6. Carries(n, made')
      BY <2>5, <3>5 DEF Carries
    <3>7. QED
      BY <2>5, <3>4, <3>5, <3>6
  <2>7. op' = [op EXCEPT ![p] = n]
    BY <1>8, <2>1, <2>2
  <2>8. op'[p] = n /\ \A q \in Procs : q # p => op'[q] = op[q]
    BY <2>3, <2>7 DEF TypesInv
  <2>9. Sealing(backup', made')
    BY <1>5, <2>4, SealStays
  <2>10. TypesInv'
    <3>1. last' \in 0..made' /\ exports' \in 0..made'
      BY <1>5, <2>3 DEF TypesInv
    <3>2. killed' \in BOOLEAN /\ plain' \subseteq Procs \X {"client", "server"}
      BY <1>5, <2>3 DEF TypesInv
    <3>3. Marked(bundle', BundleFiles, made') /\ Marked(public', Range(CapsuleOrder), made')
      BY <1>5, <2>3 DEF TypesInv
    <3>4. backup' = [capsule |-> backup.capsule, sealed |-> backup.sealed]' /\ backup'.sealed \in BOOLEAN
      BY <2>9 DEF Sealing
    <3>5. QED
      BY <1>5, <2>3, <2>4, <2>6, <2>7, <3>1, <3>2, <3>3, <3>4, TypesKept
  <2>11. BundleInv'
    <3>1. Exporting' \subseteq Exporting /\ \A q \in Exporting' : op'[q] = op[q]
      BY <2>5, <2>8 DEF Exporting
    <3>2. ASSUME NEW q \in Exporting'
          PROVE  /\ op'[q].alone => Exporting' = {q} /\ Written(bundle', op'[q], BundleFiles)
                 /\ exports' = 1 => op'[q].alone
      <4>1. q \in Exporting /\ op'[q] = op[q]
        BY <3>1
      <4>2. (op[q].alone => Exporting = {q} /\ Written(bundle, op[q], BundleFiles))
            /\ (exports = 1 => op[q].alone)
        BY <2>3, <4>1 DEF BundleInv
      <4>3. QED
        BY <1>5, <3>1, <4>1, <4>2
    <3>3. ASSUME NEW q \in Procs PROVE ImportInv(op[q])'
      <4>1. CASE q = p
        <5>1. ImportInv(n)
          BY <1>1, <1>2, <1>3, <1>5, <1>8, <2>1, <2>5, ReadsOn
        <5>2. QED
          BY <1>5, <2>8, <4>1, <5>1 DEF ImportInv
      <4>2. CASE q # p
        <5>1. op'[q] = op[q] /\ ImportInv(op[q])
          BY <2>3, <2>8, <4>2 DEF BundleInv
        <5>2. QED
          BY <1>5, <5>1 DEF ImportInv
      <4>3. QED
        BY <4>1, <4>2
    <3>4. /\ last' # 0 => Exporting' = {} /\ IsWhole(bundle', last')
          /\ exports' = 0 => DOMAIN bundle' = {} /\ Exporting' = {}
      BY <1>5, <2>3, <3>1 DEF BundleInv
    <3>5. exports' = 1 /\ "manifest" \in DOMAIN bundle' /\ ~ bundle'["manifest"].cut =>
            Exporting' = {} /\ \E h \in 1..made' : IsWhole(bundle', h)
      BY <1>5, <2>3, <3>1 DEF BundleInv
    <3>6. QED
      BY <3>2, <3>3, <3>4, <3>5 DEF BundleInv
  <2>12. PublicInv'
    <3>1. \A q \in Procs : op'[q].kind = "publish" => op'[q] = op[q]
      BY <2>5, <2>8
    <3>2. QED
      BY <1>5, <2>3, <2>4, <3>1, PublicApart
  <2>13. PlainInv'
    <3>1. op[p].at \notin AtServer /\ op[p].at \notin AtClient
      BY <1>5 DEF AtServer, AtClient
    <3>2. QED
      BY <1>5, <2>3, <2>8, <3>1 DEF PlainInv
  <2>14. SealInv'
    BY <2>3, <2>4, <2>6, <2>7, <2>9, SealKept DEF Sealing
  <2>15. QED
    BY <2>10, <2>11, <2>12, <2>13, <2>14 DEF VaultInv
<1>9. QED
  BY <1>6, <1>7, <1>8

\* What has been written in a directory after one more file.
LEMMA WrittenOn ==
  ASSUME NEW d, NEW o, NEW files, Written(d, o, files), NEW n, n.gen = o.gen, NEW f, NEW c,
         Range(o.todo) \subseteq Range(n.todo) \cup {f}, f \in Range(n.todo) \/ c = Whole(n.gen),
         f \in Range(o.todo)
  PROVE  Written(Put(d, f, c), n, files)
<1>1. ASSUME NEW x \in files \ Range(n.todo)
      PROVE  x \in DOMAIN Put(d, f, c) /\ Put(d, f, c)[x] = Whole(n.gen)
  <2>1. CASE x = f
    BY <1>1, <2>1 DEF Put
  <2>2. CASE x # f
    <3>1. x \in DOMAIN d /\ d[x] = Whole(n.gen)
      BY <1>1, <2>2 DEF Written
    <3>2. QED
      BY <2>2, <3>1 DEF Put
  <2>3. QED
    BY <2>1, <2>2
<1>2. QED
  BY <1>1 DEF Written

\* While anybody exports, no export has ended undisturbed, and the manifest of the first one
\* is not there.
LEMMA WhileExporting ==
  ASSUME VaultInv, NEW p \in Exporting
  PROVE  /\ last = 0 /\ exports # 0 /\ (op[p].alone => Exporting = {p} /\ Written(bundle, op[p], BundleFiles))
         /\ exports = 1 => op[p].alone /\ ~ ("manifest" \in DOMAIN bundle /\ ~ bundle["manifest"].cut)
         /\ \A q \in Procs : op[q].kind = "import" =>
              op[q].expect = 0 /\ (exports = 1 => op[q].todo = ReadOrder /\ DOMAIN op[q].got = {})
<1>1. BundleInv
  BY DEF VaultInv
<1>2. last = 0 /\ exports # 0 /\ (op[p].alone => Exporting = {p} /\ Written(bundle, op[p], BundleFiles))
      /\ (exports = 1 => op[p].alone)
  BY <1>1 DEF BundleInv
<1>3. exports = 1 => ~ ("manifest" \in DOMAIN bundle /\ ~ bundle["manifest"].cut)
  BY <1>1 DEF BundleInv
<1>4. ASSUME NEW g, IsWhole(bundle, g) PROVE "manifest" \in DOMAIN bundle /\ ~ bundle["manifest"].cut
  BY <1>4, Files DEF IsWhole, Whole, Content
<1>5. ASSUME NEW q \in Procs, op[q].kind = "import"
      PROVE  op[q].expect = 0 /\ (exports = 1 => op[q].todo = ReadOrder /\ DOMAIN op[q].got = {})
  <2>1. ImportInv(op[q])
    BY <1>1 DEF BundleInv
  <2>2. op[q].expect = 0
    BY <1>2, <1>5, <2>1 DEF ImportInv
  <2>3. exports = 1 => op[q].todo = ReadOrder /\ DOMAIN op[q].got = {}
    BY <1>3, <1>4, <1>5, <2>1 DEF ImportInv
  <2>4. QED
    BY <2>2, <2>3
<1>6. QED
  BY <1>2, <1>3, <1>5

\* An export that goes on writing.
LEMMA ExportWrites ==
  ASSUME VaultInv, NEW p \in Exporting, NEW n, op' = [op EXCEPT ![p] = n], n.kind = "export",
         n.alone = op[p].alone, UNCHANGED <<made, last, exports>>,
         NEW f, NEW c, bundle' = Put(bundle, f, c), f = "manifest" => c.cut,
         op[p].alone => Written(bundle', n, BundleFiles)
  PROVE  BundleInv'
<1>1. op'[p] = n /\ p \in Procs /\ \A q \in Procs : q # p => op'[q] = op[q]
  BY DEF VaultInv, TypesInv, Exporting
<1>2. Exporting' = Exporting
  BY <1>1 DEF Exporting
<1>3. /\ last = 0 /\ exports # 0 /\ (op[p].alone => Exporting = {p})
      /\ exports = 1 => op[p].alone /\ ~ ("manifest" \in DOMAIN bundle /\ ~ bundle["manifest"].cut)
      /\ \A q \in Procs : op[q].kind = "import" =>
           op[q].expect = 0 /\ (exports = 1 => op[q].todo = ReadOrder /\ DOMAIN op[q].got = {})
  BY WhileExporting
<1>4. ASSUME NEW q \in Exporting'
      PROVE  /\ op'[q].alone => Exporting' = {q} /\ Written(bundle', op'[q], BundleFiles)
             /\ exports' = 1 => op'[q].alone
  <2>1. CASE q = p
    BY <1>1, <1>2, <1>3, <2>1
  <2>2. CASE q # p
    <3>1. op'[q] = op[q] /\ q \in Exporting
      BY <1>1, <1>2, <2>2 DEF Exporting
    <3>2. (op[q].alone => Exporting = {q}) /\ (exports = 1 => op[q].alone)
      BY <3>1, WhileExporting
    <3>3. ~ op[q].alone
      BY <2>2, <3>2
    <3>4. QED
      BY <3>1, <3>2, <3>3
  <2>3. QED
    BY <2>1, <2>2
<1>5. ~ (exports' = 1 /\ "manifest" \in DOMAIN bundle' /\ ~ bundle'["manifest"].cut)
  <2>1. CASE f = "manifest"
    <3>1. bundle'["manifest"] = c
      BY <2>1 DEF Put
    <3>2. QED
      BY <2>1, <3>1
  <2>2. CASE f # "manifest"
    <3>1. DOMAIN bundle' = DOMAIN bundle \cup {f}
          /\ ("manifest" \in DOMAIN bundle => bundle'["manifest"] = bundle["manifest"])
      BY <2>2 DEF Put
    <3>2. QED
      BY <1>3, <2>2, <3>1
  <2>3. QED
    BY <2>1, <2>2
<1>6. ASSUME NEW q \in Procs PROVE ImportInv(op[q])'
  <2>1. op'[q].kind = "import" => op'[q] = op[q]
    BY <1>1
  <2>2. QED
    BY <1>3, <2>1 DEF ImportInv
<1>7. QED
  BY <1>3, <1>4, <1>5, <1>6 DEF BundleInv

\* An export that has written its last file.
LEMMA ExportEnds ==
  ASSUME VaultInv, NEW p \in Exporting, op' = [op EXCEPT ![p] = Idle], op[p].gen \in 1..made,
         UNCHANGED <<made, exports>>, last' = IF op[p].alone THEN op[p].gen ELSE last,
         op[p].alone => IsWhole(bundle', op[p].gen)
  PROVE  BundleInv'
<1>1. op'[p] = Idle /\ p \in Procs /\ \A q \in Procs : q # p => op'[q] = op[q]
  BY DEF VaultInv, TypesInv, Exporting
<1>2. Idle.kind = "none"
  BY DEF Idle
<1>3. Exporting' = Exporting \ {p}
  BY <1>1, <1>2 DEF Exporting
<1>4. /\ last = 0 /\ exports # 0 /\ (op[p].alone => Exporting = {p}) /\ (exports = 1 => op[p].alone)
      /\ \A q \in Procs : op[q].kind = "import" =>
           op[q].expect = 0 /\ (exports = 1 => op[q].todo = ReadOrder /\ DOMAIN op[q].got = {})
  BY WhileExporting
<1>5. ASSUME NEW q \in Exporting'
      PROVE  /\ op'[q].alone => Exporting' = {q} /\ Written(bundle', op'[q], BundleFiles)
             /\ exports' = 1 => op'[q].alone
  <2>1. q # p /\ q \in Exporting /\ op'[q] = op[q]
    BY <1>1, <1>3 DEF Exporting
  <2>2. (op[q].alone => Exporting = {q}) /\ (exports = 1 => op[q].alone)
    BY <2>1, WhileExporting
  <2>3. ~ op[q].alone
    BY <2>1, <2>2
  <2>4. QED
    BY <2>1, <2>2, <2>3
<1>6. last' # 0 => Exporting' = {} /\ IsWhole(bundle', last')
  BY <1>3, <1>4
<1>7. exports' = 1 => Exporting' = {} /\ \E g \in 1..made' : IsWhole(bundle', g)
  BY <1>3, <1>4
<1>8. ASSUME NEW q \in Procs PROVE ImportInv(op[q])'
  <2>1. op'[q].kind = "import" => op'[q] = op[q]
    BY <1>1, <1>2
  <2>2. QED
    BY <1>4, <2>1 DEF ImportInv
<1>9. QED
  BY <1>4, <1>5, <1>6, <1>7, <1>8 DEF BundleInv

\* A public capsule that is written, or whose writer is through.
LEMMA PublishWrites ==
  ASSUME VaultInv, NEW p \in Procs, op[p].kind = "publish", NEW n, op' = [op EXCEPT ![p] = n],
         n.kind = "publish" => Written(public', n, Range(CapsuleOrder)), made' = made,
         NEW f, NEW c, public' = Put(public, f, c),
         f = "checksums" => c.cut \/ \E g \in 1..made : Summed(c, g)
  PROVE  PublicInv'
<1>1. op'[p] = n /\ \A q \in Procs : q # p => op'[q] = op[q]
  BY DEF VaultInv, TypesInv
<1>2. PublicInv
  BY DEF VaultInv
<1>3. \A q \in Procs : op'[q].kind = "publish" => q = p
  BY <1>1, <1>2 DEF PublicInv
<1>4. "checksums" \in DOMAIN public' /\ ~ public'["checksums"].cut =>
        \E g \in 1..made' : Summed(public'["checksums"], g)
  <2>1. CASE f = "checksums"
    <3>1. public'["checksums"] = c
      BY <2>1 DEF Put
    <3>2. QED
      BY <2>1, <3>1
  <2>2. CASE f # "checksums"
    <3>1. DOMAIN public' = DOMAIN public \cup {f}
          /\ ("checksums" \in DOMAIN public => public'["checksums"] = public["checksums"])
      BY <2>2 DEF Put
    <3>2. QED
      BY <1>2, <2>2, <3>1 DEF PublicInv
  <2>3. QED
    BY <2>1, <2>2
<1>5. QED
  BY <1>1, <1>3, <1>4 DEF PublicInv

\* Writing a file keeps the types, and what is held elsewhere.
LEMMA WriteKept ==
  ASSUME VaultInv, NEW p \in Procs, op[p].at \in {"open", "close"}, NEW n, op' = [op EXCEPT ![p] = n],
         Form(n, made), Carries(n, made), UNCHANGED <<backup, plain, made, exports, killed>>,
         last' \in 0..made, NEW f, NEW c, c.of \subseteq 0..made, c.cut \in BOOLEAN,
         f \in (IF op[p].kind = "export" THEN BundleFiles ELSE Range(CapsuleOrder)),
         Holds(p, Put(Directory(p), f, c)),
         n.at = "close" => n.kind = op[p].kind /\ Head(n.todo) = f
  PROVE  TypesInv' /\ PlainInv' /\ SealInv'
<1>1. TypesInv /\ PlainInv /\ SealInv
  BY DEF VaultInv
<1>2. op'[p] = n /\ \A q \in Procs : q # p => op'[q] = op[q]
  BY <1>1 DEF TypesInv
<1>3. /\ made \in Nat /\ exports \in 0..made /\ killed \in BOOLEAN
      /\ plain \subseteq Procs \X {"client", "server"}
      /\ Marked(bundle, BundleFiles, made) /\ Marked(public, Range(CapsuleOrder), made)
  BY <1>1 DEF TypesInv
<1>4. ASSUME NEW d, NEW files, Marked(d, files, made), f \in files
      PROVE  Marked(Put(d, f, c), files, made) /\ DOMAIN d \subseteq DOMAIN Put(d, f, c) /\ f \in DOMAIN Put(d, f, c)
  <2>1. PICK e : e = Put(d, f, c)
    OBVIOUS
  <2>2. DOMAIN e = DOMAIN d \cup {f} /\ e[f] = c /\ \A x \in DOMAIN d : x # f => e[x] = d[x]
    BY <2>1 DEF Put
  <2>3. DOMAIN d \subseteq files /\ \A x \in DOMAIN d : d[x].of \subseteq 0..made /\ d[x].cut \in BOOLEAN
    BY <1>4 DEF Marked
  <2>4. ASSUME NEW x \in DOMAIN e PROVE e[x].of \subseteq 0..made /\ e[x].cut \in BOOLEAN
    <3>1. CASE x = f
      BY <2>2, <3>1, Zenon
    <3>2. CASE x # f
      BY <2>2, <2>3, <3>2, Zenon
    <3>3. QED
      BY <3>1, <3>2
  <2>5. DOMAIN e \subseteq files
    BY <1>4, <2>2, <2>3
  <2>6. QED
    BY <2>1, <2>2, <2>4, <2>5 DEF Marked
<1>5. /\ Marked(bundle', BundleFiles, made) /\ Marked(public', Range(CapsuleOrder), made)
      /\ DOMAIN bundle \subseteq DOMAIN bundle' /\ DOMAIN public \subseteq DOMAIN public'
      /\ f \in DOMAIN (IF op[p].kind = "export" THEN bundle' ELSE public')
  <2>1. CASE op[p].kind = "export"
    <3>1. bundle' = Put(bundle, f, c) /\ public' = public /\ f \in BundleFiles
      BY <2>1 DEF Holds, Directory
    <3>2. QED
      BY <1>3, <1>4, <2>1, <3>1
  <2>2. CASE op[p].kind # "export"
    <3>1. public' = Put(public, f, c) /\ bundle' = bundle /\ f \in Range(CapsuleOrder)
      BY <2>2 DEF Holds, Directory
    <3>2. QED
      BY <1>3, <1>4, <2>2, <3>1
  <2>3. QED
    BY <2>1, <2>2
<1>6. Sealing(backup', made') /\ made' \in Nat /\ made <= made'
  <2>1. made' \in Nat /\ made <= made'
    BY <1>3
  <2>2. QED
    BY <2>1, SealStays
<1>7. TypesInv'
  <2>1. n.at = "close" => Head(n.todo) \in DOMAIN (IF n.kind = "export" THEN bundle' ELSE public')
    BY <1>5
  <2>2. exports' \in 0..made' /\ last' \in 0..made' /\ killed' \in BOOLEAN
        /\ plain' \subseteq Procs \X {"client", "server"}
    BY <1>3
  <2>3. Marked(bundle', BundleFiles, made') /\ Marked(public', Range(CapsuleOrder), made') /\ Form(n, made')
    BY <1>5
  <2>4. backup' = [capsule |-> backup.capsule, sealed |-> backup.sealed]' /\ backup'.sealed \in BOOLEAN
    BY <1>6 DEF Sealing
  <2>5. QED
    BY <1>1, <1>5, <1>6, <2>1, <2>2, <2>3, <2>4, TypesKept
<1>8. PlainInv'
  <2>1. op[p].at \notin AtServer /\ op[p].at \notin AtClient
    BY DEF AtServer, AtClient
  <2>2. QED
    BY <1>1, <1>2, <2>1 DEF PlainInv
<1>9. SealInv'
  <2>1. Carries(n, made')
    OBVIOUS
  <2>2. QED
    BY <1>1, <1>6, <2>1, SealKept DEF Sealing
<1>10. QED
  BY <1>7, <1>8, <1>9

\* A file that is opened is cut, and was not written yet.
LEMMA OpenKeeps ==
  ASSUME VaultInv, NEW p \in Procs, Open(p)
  PROVE  VaultInv'
<1>1. PICK o : o = op[p]
  OBVIOUS
<1>2. PICK f : f = Head(o.todo)
  OBVIOUS
<1>3. PICK c \in {Lost, [Lost EXCEPT !.of = {o.gen}]} : Holds(p, Put(Directory(p), f, c))
  BY <1>1, <1>2 DEF Open
<1>4. /\ o.at = "open" /\ op' = [op EXCEPT ![p] = [o EXCEPT !.at = "close"]]
      /\ UNCHANGED <<backup, plain, made, last, exports, killed>>
  BY <1>1 DEF Open, Does, History
<1>5. Form(o, made) /\ Record(o) /\ made \in Nat /\ Placed(o) /\ TypesInv
  BY <1>1, Before DEF VaultInv
<1>6. PICK n : n = [o EXCEPT !.at = "close"]
  OBVIOUS
<1>7. n.kind = o.kind /\ n.at = "close" /\ n.gen = o.gen /\ n.expect = o.expect /\ n.todo = o.todo
      /\ n.turns = o.turns /\ n.alone = o.alone /\ n.got = o.got /\ Record(n)
  BY <1>5, <1>6 DEF Record
<1>8. op' = [op EXCEPT ![p] = n]
  BY <1>4, <1>6
<1>9. /\ o.gen # 0 /\ o.kind \in {"export", "publish"}
      /\ o.kind = "export" => EndsWith(o.todo, "manifest", BundleFiles)
      /\ o.kind = "publish" => o.alone /\ EndsWith(o.todo, "checksums", Range(CapsuleOrder))
  BY <1>4, <1>5, Stands
<1>10. c.cut = TRUE /\ c.of \subseteq 0..made
  <2>1. o.gen \in 0..made
    BY <1>5 DEF Form
  <2>2. c.cut = TRUE /\ (c.of = {} \/ c.of = {o.gen})
    BY <1>3 DEF Lost, Content
  <2>3. QED
    BY <2>1, <2>2
<1>11. Placed(n) /\ n.kind # "restore"
  BY <1>7, <1>9 DEF Placed
<1>12. Form(n, made) /\ Carries(n, made)
  BY <1>5, <1>7, <1>11 DEF Form, Carries
<1>13. f \in (IF o.kind = "export" THEN BundleFiles ELSE Range(CapsuleOrder)) /\ f \in Range(o.todo)
  <2>1. CASE o.kind = "export"
    <3>1. EndsWith(o.todo, "manifest", BundleFiles)
      BY <1>9, <2>1
    <3>2. PICK t : t = o.todo
      OBVIOUS
    <3>3. EndsWith(t, "manifest", BundleFiles)
      BY <3>1, <3>2
    <3>4. /\ Head(t) \in BundleFiles /\ Range(t) \subseteq BundleFiles /\ "manifest" \in Range(t)
          /\ Range(t) = {Head(t)} \cup Range(Tail(t))
          /\ Head(t) = "manifest" <=> Tail(t) = <<>>
          /\ Tail(t) # <<>> => EndsWith(Tail(t), "manifest", BundleFiles)
      BY <3>3, Ending
    <3>5. QED
      BY <1>2, <2>1, <3>2, <3>4
  <2>2. CASE o.kind = "publish"
    <3>1. EndsWith(o.todo, "checksums", Range(CapsuleOrder))
      BY <1>9, <2>2
    <3>2. PICK t : t = o.todo
      OBVIOUS
    <3>3. EndsWith(t, "checksums", Range(CapsuleOrder))
      BY <3>1, <3>2
    <3>4. /\ Head(t) \in Range(CapsuleOrder) /\ Range(t) \subseteq Range(CapsuleOrder) /\ "checksums" \in Range(t)
          /\ Range(t) = {Head(t)} \cup Range(Tail(t))
          /\ Head(t) = "checksums" <=> Tail(t) = <<>>
          /\ Tail(t) # <<>> => EndsWith(Tail(t), "checksums", Range(CapsuleOrder))
      BY <3>3, Ending
    <3>5. QED
      BY <1>2, <2>2, <3>2, <3>4
  <2>3. QED
    BY <1>9, <2>1, <2>2
<1>14. TypesInv' /\ PlainInv' /\ SealInv'
  <2>1. last' \in 0..made
    BY <1>4, <1>5 DEF TypesInv
  <2>2. c.cut \in BOOLEAN
    BY <1>10
  <2>3. Head(n.todo) = f /\ n.kind = op[p].kind /\ op[p].at \in {"open", "close"}
    BY <1>1, <1>2, <1>4, <1>7
  <2>4. f \in (IF op[p].kind = "export" THEN BundleFiles ELSE Range(CapsuleOrder))
    BY <1>1, <1>13
  <2>5. QED
    BY <1>3, <1>4, <1>8, <1>10, <1>12, <2>1, <2>2, <2>3, <2>4, WriteKept
<1>15. BundleInv'
  <2>1. CASE o.kind = "export"
    <3>1. p \in Exporting /\ bundle' = Put(bundle, f, c)
      BY <1>1, <1>3, <2>1 DEF Exporting, Holds, Directory
    <3>2. ASSUME op[p].alone PROVE Written(bundle', n, BundleFiles)
      <4>1. Written(bundle, o, BundleFiles)
        BY <1>1, <3>1, <3>2, WhileExporting
      <4>2. f \in Range(n.todo) /\ f \in Range(o.todo) /\ Range(o.todo) \subseteq Range(n.todo) \cup {f}
        BY <1>7, <1>13
      <4>3. Written(Put(bundle, f, c), n, BundleFiles)
        BY <1>7, <4>1, <4>2, WrittenOn
      <4>4. QED
        BY <3>1, <4>3
    <3>3. n.kind = "export" /\ n.alone = op[p].alone /\ (f = "manifest" => c.cut)
      BY <1>1, <1>7, <1>10, <2>1
    <3>4. UNCHANGED <<made, last, exports>>
      BY <1>4
    <3>5. QED
      BY <1>8, <3>1, <3>2, <3>3, <3>4, ExportWrites
  <2>2. CASE o.kind = "publish"
    <3>1. UNCHANGED bundle
      BY <1>1, <1>3, <2>2 DEF Holds
    <3>2. \A q \in Procs : op'[q].kind \in {"export", "import"} => op'[q] = op[q]
      BY <1>5, <1>7, <1>8, <2>2 DEF TypesInv
    <3>3. made' \in Nat /\ made <= made' /\ BundleInv
      BY <1>4, <1>5 DEF VaultInv
    <3>4. QED
      BY <1>4, <1>5, <3>1, <3>2, <3>3, BundleApart
  <2>3. QED
    BY <1>9, <2>1, <2>2
<1>16. PublicInv'
  <2>1. CASE o.kind = "export"
    <3>1. UNCHANGED public
      BY <1>1, <1>3, <2>1 DEF Holds
    <3>2. \A q \in Procs : op'[q].kind = "publish" => op'[q] = op[q]
      BY <1>5, <1>7, <1>8, <2>1 DEF TypesInv
    <3>3. made' \in Nat /\ made <= made' /\ PublicInv
      BY <1>4, <1>5 DEF VaultInv
    <3>4. QED
      BY <1>5, <3>1, <3>2, <3>3, PublicApart
  <2>2. CASE o.kind = "publish"
    <3>1. public' = Put(public, f, c)
      BY <1>1, <1>3, <2>2 DEF Holds, Directory
    <3>2. Written(public, o, Range(CapsuleOrder))
      BY <1>1, <2>2 DEF VaultInv, PublicInv
    <3>3. f \in Range(n.todo) /\ f \in Range(o.todo) /\ Range(o.todo) \subseteq Range(n.todo) \cup {f}
      BY <1>7, <1>13
    <3>4. Written(public', n, Range(CapsuleOrder))
      <4>1. Written(Put(public, f, c), n, Range(CapsuleOrder))
        BY <1>7, <3>2, <3>3, WrittenOn
      <4>2. QED
        BY <3>1, <4>1
    <3>5. QED
      BY <1>1, <1>4, <1>8, <1>10, <2>2, <3>1, <3>4, PublishWrites
  <2>3. QED
    BY <1>9, <2>1, <2>2
<1>17. QED
  BY <1>14, <1>15, <1>16 DEF VaultInv

\* What is closed is whole, unless another has written into it.
LEMMA Closed ==
  ASSUME VaultInv, NEW p \in Procs, op[p].at = "close", NEW f, f = Head(op[p].todo),
         NEW c \in Outcomes(p, f)
  PROVE  /\ c.of \subseteq 0..made /\ c.cut \in BOOLEAN
         /\ op[p].kind = "export" => (op[p].alone => c = Whole(op[p].gen)) /\ c.of # {}
         /\ op[p].kind = "publish" => c = CapsuleContent(public, f, op[p].gen)
<1>1. PICK o : o = op[p]
  OBVIOUS
<1>2. Form(o, made) /\ made \in Nat /\ Placed(o) /\ TypesInv
  BY <1>1, Before DEF VaultInv
<1>3. o.gen \in 0..made /\ o.kind \in {"export", "publish"} /\ (o.kind = "publish" => o.alone)
  <2>1. o.gen \in 0..made
    BY <1>2 DEF Form
  <2>2. QED
    BY <1>1, <1>2, <2>1, Stands
<1>4. PICK was : was = Directory(p)[f]
  OBVIOUS
<1>5. was.of \subseteq 0..made
  <2>1. f \in DOMAIN Directory(p)
    BY <1>2 DEF TypesInv
  <2>2. \A x \in DOMAIN Directory(p) : Directory(p)[x].of \subseteq 0..made
    BY <1>2 DEF TypesInv, Marked, Directory
  <2>3. QED
    BY <1>4, <2>1, <2>2
<1>6. PICK is : is = IF o.kind = "export" THEN Whole(o.gen) ELSE CapsuleContent(public, f, o.gen)
  OBVIOUS
<1>7. c = is \/ (~ o.alone /\ c = Content(was.of \cup {o.gen}, TRUE, {}, <<>>))
  BY <1>1, <1>4, <1>6 DEF Outcomes
<1>8. is.of = {o.gen} /\ is.cut = FALSE
  BY <1>6 DEF Whole, Content, CapsuleContent
<1>9. CASE c = is
  <2>1. c.of \subseteq 0..made /\ c.cut \in BOOLEAN /\ c.of # {}
    BY <1>3, <1>8, <1>9
  <2>2. QED
    BY <1>1, <1>6, <1>9, <2>1
<1>10. CASE ~ o.alone /\ c = Content(was.of \cup {o.gen}, TRUE, {}, <<>>)
  <2>1. c.of = was.of \cup {o.gen} /\ c.cut = TRUE
    BY <1>10 DEF Content
  <2>2. c.of \subseteq 0..made /\ c.of # {}
    BY <1>3, <1>5, <2>1
  <2>3. QED
    BY <1>1, <1>3, <1>10, <2>1, <2>2
<1>11. QED
  BY <1>7, <1>9, <1>10

\* The digests of a public capsule that is whole but for them.
LEMMA Digests ==
  ASSUME VaultInv, NEW g, \A f \in Range(CapsuleOrder) \ {"checksums"} : f \in DOMAIN public /\ public[f] = Whole(g)
  PROVE  Summed(CapsuleContent(public, "checksums", g), g)
<1>1. PICK u : u = ChecksumsFor(public)
  OBVIOUS
<1>2. DOMAIN public \subseteq Range(CapsuleOrder)
  BY DEF VaultInv, TypesInv, Marked
<1>3. DOMAIN u = Range(CapsuleOrder) \ {"checksums"} /\ \A f \in DOMAIN u : u[f] = Whole(g)
  BY <1>1, <1>2 DEF ChecksumsFor
<1>4. PICK c : c = CapsuleContent(public, "checksums", g)
  OBVIOUS
<1>5. c.of = {g} /\ c.cut = FALSE /\ c.sums = u
  BY <1>1, <1>4 DEF CapsuleContent, Whole, Content
<1>6. QED
  BY <1>3, <1>4, <1>5 DEF Summed

\* A file that is closed is written, and with the last one the directory is whole.
LEMMA CloseKeeps ==
  ASSUME VaultInv, NEW p \in Procs, Close(p)
  PROVE  VaultInv'
<1>1. PICK o : o = op[p]
  OBVIOUS
<1>2. PICK f : f = Head(o.todo)
  OBVIOUS
<1>3. PICK rest : rest = Tail(o.todo)
  OBVIOUS
<1>4. PICK c \in Outcomes(p, f) : Holds(p, Put(Directory(p), f, c))
  BY <1>1, <1>2 DEF Close
<1>5. o.at = "close" /\ UNCHANGED <<backup, plain, made, exports, killed>>
  BY <1>1 DEF Close
<1>6. \/ rest # <<>> /\ op' = [op EXCEPT ![p] = [o EXCEPT !.at = "open", !.todo = rest]] /\ UNCHANGED last
      \/ /\ rest = <<>> /\ op' = [op EXCEPT ![p] = Idle]
         /\ last' = IF o.kind = "export" /\ o.alone THEN o.gen ELSE last
  BY <1>1, <1>3 DEF Close, Does, Ends
<1>7. Form(o, made) /\ Record(o) /\ made \in Nat /\ Placed(o) /\ TypesInv
  BY <1>1, Before DEF VaultInv
<1>8. /\ o.gen # 0 /\ o.kind \in {"export", "publish"}
      /\ o.kind = "export" => EndsWith(o.todo, "manifest", BundleFiles)
      /\ o.kind = "publish" => o.alone /\ EndsWith(o.todo, "checksums", Range(CapsuleOrder))
  BY <1>5, <1>7, Stands
<1>9. o.gen \in 1..made
  <2>1. o.gen \in 0..made
    BY <1>7 DEF Form
  <2>2. QED
    BY <1>7, <1>8, <2>1
<1>10. /\ c.of \subseteq 0..made /\ c.cut \in BOOLEAN
       /\ o.kind = "export" /\ o.alone => c = Whole(o.gen)
       /\ o.kind = "publish" => c = CapsuleContent(public, f, o.gen)
  BY <1>1, <1>2, <1>4, <1>5, Closed
<1>11. /\ f \in (IF o.kind = "export" THEN BundleFiles ELSE Range(CapsuleOrder))
       /\ Range(o.todo) = {f} \cup Range(rest)
       /\ o.kind = "export" =>
            (f = "manifest" <=> rest = <<>>) /\ (rest # <<>> => EndsWith(rest, "manifest", BundleFiles))
       /\ o.kind = "publish" =>
            (f = "checksums" <=> rest = <<>>)
            /\ (rest # <<>> => EndsWith(rest, "checksums", Range(CapsuleOrder)))
  <2>1. CASE o.kind = "export"
    <3>1. EndsWith(o.todo, "manifest", BundleFiles)
      BY <1>8, <2>1
    <3>2. PICK t : t = o.todo
      OBVIOUS
    <3>3. EndsWith(t, "manifest", BundleFiles)
      BY <3>1, <3>2
    <3>4. /\ Head(t) \in BundleFiles /\ Range(t) \subseteq BundleFiles /\ "manifest" \in Range(t)
          /\ Range(t) = {Head(t)} \cup Range(Tail(t))
          /\ Head(t) = "manifest" <=> Tail(t) = <<>>
          /\ Tail(t) # <<>> => EndsWith(Tail(t), "manifest", BundleFiles)
      BY <3>3, Ending
    <3>5. QED
      BY <1>2, <1>3, <2>1, <3>2, <3>4
  <2>2. CASE o.kind = "publish"
    <3>1. EndsWith(o.todo, "checksums", Range(CapsuleOrder))
      BY <1>8, <2>2
    <3>2. PICK t : t = o.todo
      OBVIOUS
    <3>3. EndsWith(t, "checksums", Range(CapsuleOrder))
      BY <3>1, <3>2
    <3>4. /\ Head(t) \in Range(CapsuleOrder) /\ Range(t) \subseteq Range(CapsuleOrder) /\ "checksums" \in Range(t)
          /\ Range(t) = {Head(t)} \cup Range(Tail(t))
          /\ Head(t) = "checksums" <=> Tail(t) = <<>>
          /\ Tail(t) # <<>> => EndsWith(Tail(t), "checksums", Range(CapsuleOrder))
      BY <3>3, Ending
    <3>5. QED
      BY <1>2, <1>3, <2>2, <3>2, <3>4
  <2>3. QED
    BY <1>8, <2>1, <2>2
<1>12. last \in 0..made
  BY <1>7 DEF TypesInv
<1>13. PICK n : n = IF rest = <<>> THEN Idle ELSE [o EXCEPT !.at = "open", !.todo = rest]
  OBVIOUS
<1>14. op' = [op EXCEPT ![p] = n]
  BY <1>6, <1>13
<1>15. Idle.kind = "none" /\ Idle.at = "idle"
  BY DEF Idle
<1>16. rest # <<>> => n.kind = o.kind /\ n.at = "open" /\ n.gen = o.gen /\ n.expect = o.expect
         /\ n.todo = rest /\ n.turns = o.turns /\ n.alone = o.alone /\ n.got = o.got /\ Record(n)
  BY <1>7, <1>13 DEF Record
<1>17. Form(n, made) /\ Carries(n, made) /\ n.at # "close"
  <2>1. CASE rest = <<>>
    BY <1>7, <1>13, <1>15, <2>1, Nothing
  <2>2. CASE rest # <<>>
    <3>1. Placed(n)
      BY <1>8, <1>11, <1>16, <2>2 DEF Placed
    <3>2. Form(n, made)
      BY <1>7, <1>16, <2>2, <3>1 DEF Form
    <3>3. Carries(n, made)
      BY <1>16, <2>2 DEF Carries
    <3>4. QED
      BY <1>16, <2>2, <3>2, <3>3
  <2>3. QED
    BY <2>1, <2>2
<1>18. TypesInv' /\ PlainInv' /\ SealInv'
  <2>1. last' \in 0..made
    BY <1>6, <1>7, <1>9, <1>12
  <2>2. op[p].at \in {"open", "close"}
        /\ f \in (IF op[p].kind = "export" THEN BundleFiles ELSE Range(CapsuleOrder))
    BY <1>1, <1>5, <1>11
  <2>3. QED
    BY <1>4, <1>5, <1>10, <1>14, <1>17, <2>1, <2>2, WriteKept
<1>19. BundleInv'
  <2>1. CASE o.kind = "export"
    <3>1. p \in Exporting /\ bundle' = Put(bundle, f, c)
      BY <1>1, <1>4, <2>1 DEF Exporting, Holds, Directory
    <3>2. ASSUME o.alone, NEW k, k.gen = o.gen, k.todo = rest PROVE Written(bundle', k, BundleFiles)
      <4>1. Written(bundle, o, BundleFiles)
        BY <1>1, <3>1, <3>2, WhileExporting
      <4>2. f \in Range(o.todo) /\ Range(o.todo) \subseteq Range(k.todo) \cup {f}
        BY <1>11, <3>2
      <4>3. c = Whole(k.gen)
        BY <1>10, <2>1, <3>2
      <4>4. Written(Put(bundle, f, c), k, BundleFiles)
        BY <3>2, <4>1, <4>2, <4>3, WrittenOn
      <4>5. QED
        BY <3>1, <4>4
    <3>3. CASE rest # <<>>
      <4>1. n.kind = "export" /\ n.alone = op[p].alone /\ UNCHANGED <<made, last, exports>>
        BY <1>1, <1>5, <1>6, <1>16, <2>1, <3>3
      <4>2. f = "manifest" => c.cut
        BY <1>11, <2>1, <3>3
      <4>3. op[p].alone => Written(bundle', n, BundleFiles)
        BY <1>1, <1>16, <3>2, <3>3
      <4>4. QED
        BY <1>14, <3>1, <4>1, <4>2, <4>3, ExportWrites
    <3>4. CASE rest = <<>>
      <4>1. ASSUME o.alone PROVE IsWhole(bundle', o.gen)
        <5>1. PICK k : k = [gen |-> o.gen, todo |-> rest]
          OBVIOUS
        <5>2. k.gen = o.gen /\ k.todo = rest
          BY <5>1
        <5>3. Written(bundle', k, BundleFiles)
          BY <3>2, <4>1, <5>2
        <5>4. Range(k.todo) = {}
          BY <3>4, <5>2 DEF Range
        <5>5. \A x \in BundleFiles : x \in DOMAIN bundle' /\ bundle'[x] = Whole(o.gen)
          BY <5>2, <5>3, <5>4 DEF Written
        <5>6. DOMAIN bundle' \subseteq BundleFiles
          BY <1>18 DEF TypesInv, Marked
        <5>7. QED
          BY <5>5, <5>6 DEF IsWhole
      <4>2. last' = IF op[p].alone THEN op[p].gen ELSE last
        BY <1>1, <1>6, <2>1, <3>4
      <4>3. op' = [op EXCEPT ![p] = Idle] /\ op[p].gen \in 1..made
        BY <1>1, <1>6, <1>9, <3>4
      <4>4. op[p].alone => IsWhole(bundle', op[p].gen)
        BY <1>1, <4>1
      <4>5. QED
        BY <1>5, <3>1, <4>2, <4>3, <4>4, ExportEnds
    <3>5. QED
      BY <3>3, <3>4
  <2>2. CASE o.kind = "publish"
    <3>1. UNCHANGED <<bundle, last>>
      BY <1>1, <1>4, <1>6, <2>2 DEF Holds
    <3>2. n.kind \in {"none", "publish"}
      BY <1>13, <1>15, <1>16, <2>2
    <3>3. \A q \in Procs : op'[q].kind \in {"export", "import"} => op'[q] = op[q]
      BY <1>7, <1>14, <3>2 DEF TypesInv
    <3>4. made' \in Nat /\ made <= made' /\ BundleInv
      BY <1>5, <1>7 DEF VaultInv
    <3>5. QED
      BY <1>5, <1>7, <3>1, <3>3, <3>4, BundleApart
  <2>3. QED
    BY <1>8, <2>1, <2>2
<1>20. PublicInv'
  <2>1. CASE o.kind = "export"
    <3>1. UNCHANGED public
      BY <1>1, <1>4, <2>1 DEF Holds
    <3>2. n.kind # "publish"
      BY <1>13, <1>15, <1>16, <2>1
    <3>3. \A q \in Procs : op'[q].kind = "publish" => op'[q] = op[q]
      BY <1>7, <1>14, <3>2 DEF TypesInv
    <3>4. made' \in Nat /\ made <= made' /\ PublicInv
      BY <1>5, <1>7 DEF VaultInv
    <3>5. QED
      BY <1>7, <3>1, <3>3, <3>4, PublicApart
  <2>2. CASE o.kind = "publish"
    <3>1. public' = Put(public, f, c) /\ c = CapsuleContent(public, f, o.gen)
      BY <1>1, <1>4, <1>10, <2>2 DEF Holds, Directory
    <3>2. Written(public, o, Range(CapsuleOrder))
      BY <1>1, <2>2 DEF VaultInv, PublicInv
    <3>3. ASSUME n.kind = "publish" PROVE Written(public', n, Range(CapsuleOrder))
      <4>1. rest # <<>>
        BY <1>13, <1>15, <3>3
      <4>2. f # "checksums"
        BY <1>11, <2>2, <4>1
      <4>3. c = Whole(n.gen) /\ n.gen = o.gen /\ n.todo = rest
        BY <1>16, <3>1, <4>1, <4>2 DEF CapsuleContent
      <4>4. f \in Range(o.todo) /\ Range(o.todo) \subseteq Range(n.todo) \cup {f}
        BY <1>11, <4>3
      <4>5. Written(Put(public, f, c), n, Range(CapsuleOrder))
        BY <3>2, <4>3, <4>4, WrittenOn
      <4>6. QED
        BY <3>1, <4>5
    <3>4. ASSUME f = "checksums" PROVE \E g \in 1..made : Summed(c, g)
      <4>1. rest = <<>>
        BY <1>11, <2>2, <3>4
      <4>2. Range(rest) = {}
        BY <4>1 DEF Range
      <4>3. Range(o.todo) = {"checksums"}
        BY <1>11, <3>4, <4>2
      <4>4. \A x \in Range(CapsuleOrder) \ {"checksums"} : x \in DOMAIN public /\ public[x] = Whole(o.gen)
        BY <3>2, <4>3 DEF Written
      <4>5. Summed(CapsuleContent(public, "checksums", o.gen), o.gen)
        BY <4>4, Digests
      <4>6. QED
        BY <1>9, <3>1, <3>4, <4>5
    <3>5. QED
      BY <1>1, <1>5, <1>14, <2>2, <3>1, <3>3, <3>4, PublishWrites
  <2>3. QED
    BY <1>8, <2>1, <2>2
<1>21. QED
  BY <1>18, <1>19, <1>20 DEF VaultInv

\* The invariant holds of empty directories,
LEMMA VaultInvInit == VaultInit => VaultInv
<1> SUFFICES ASSUME VaultInit PROVE VaultInv
  OBVIOUS
<1>1. /\ bundle = <<>> /\ public = <<>> /\ backup = [capsule |-> <<>>, sealed |-> FALSE]
      /\ op = [p \in Procs |-> Idle] /\ plain = {} /\ made = 0 /\ last = 0 /\ exports = 0 /\ killed = FALSE
  BY DEF VaultInit
<1>2. DOMAIN bundle = {} /\ DOMAIN public = {}
  BY <1>1
<1>3. \A p \in Procs : op[p] = Idle
  BY <1>1
<1>4. Form(Idle, made) /\ Carries(Idle, made) /\ Idle.kind = "none" /\ Idle.at = "idle"
  <2>1. made \in Nat
    BY <1>1
  <2>2. QED
    BY <2>1, Nothing
<1>5. Exporting = {}
  BY <1>3, <1>4 DEF Exporting
<1>6. TypesInv
  <2>1. made \in Nat /\ last \in 0..made /\ exports \in 0..made
    BY <1>1
  <2>0. killed \in BOOLEAN
    BY <1>1, Zenon
  <2>2. Marked(bundle, BundleFiles, made) /\ Marked(public, Range(CapsuleOrder), made)
    BY <1>2 DEF Marked
  <2>3. plain \subseteq Procs \X {"client", "server"}
    BY <1>1
  <2>4. backup = [capsule |-> backup.capsule, sealed |-> backup.sealed] /\ backup.sealed \in BOOLEAN
    BY <1>1
  <2>5. op = [p \in Procs |-> op[p]]
    BY <1>1
  <2>6. \A p \in Procs : Form(op[p], made) /\ op[p].at # "close"
    BY <1>3, <1>4
  <2>7. QED
    BY <2>0, <2>1, <2>2, <2>3, <2>4, <2>5, <2>6 DEF TypesInv
<1>7. BundleInv
  <2>1. \A p \in Procs : ImportInv(op[p])
    BY <1>3, <1>4 DEF ImportInv
  <2>2. QED
    BY <1>1, <1>2, <1>5, <2>1 DEF BundleInv
<1>8. PublicInv
  BY <1>2, <1>3, <1>4 DEF PublicInv
<1>9. PlainInv
  BY <1>1 DEF PlainInv
<1>10. SealInv
  BY <1>1, <1>3, <1>4 DEF SealInv
<1>11. QED
  BY <1>6, <1>7, <1>8, <1>9, <1>10 DEF VaultInv

\* of a step that changes nothing,
LEMMA VaultInvStutter == VaultInv /\ UNCHANGED vaultVars => VaultInv'
<1> SUFFICES ASSUME VaultInv, UNCHANGED vaultVars PROVE VaultInv'
  OBVIOUS
<1>1. UNCHANGED <<bundle, public, backup, op, plain, made, last, exports, killed>>
  BY DEF vaultVars
<1>2. TypesInv' /\ PlainInv' /\ SealInv'
  BY <1>1 DEF VaultInv, TypesInv, PlainInv, SealInv, Directory
<1>3. BundleInv' /\ PublicInv'
  BY <1>1 DEF VaultInv, BundleInv, PublicInv, ImportInv, Exporting
<1>4. QED
  BY <1>2, <1>3 DEF VaultInv

\* of every step,
LEMMA VaultInvStep == VaultInv /\ [VaultNext]_vaultVars => VaultInv'
<1> SUFFICES ASSUME VaultInv, [VaultNext]_vaultVars PROVE VaultInv'
  OBVIOUS
<1>1. CASE VaultNext
  <2>1. PICK p \in Procs : Request(p) \/ Step(p) \/ Fails(p) \/ Killed(p)
    BY <1>1 DEF VaultNext
  <2>2. CASE Export(p)
    BY <2>2, ExportKeeps
  <2>3. CASE Publish(p)
    BY <2>3, PublishKeeps
  <2>4. CASE Import(p)
    BY <2>4, ImportKeeps
  <2>5. CASE Backup(p)
    BY <2>5, BackupKeeps
  <2>6. CASE Restore(p) \/ VerifyEncrypted(p)
    BY <2>6, RestoreKeeps
  <2>7. CASE Open(p)
    BY <2>7, OpenKeeps
  <2>8. CASE Close(p)
    BY <2>8, CloseKeeps
  <2>9. CASE Read(p)
    BY <2>9, ReadKeeps
  <2>10. CASE IngestConversationExport(p)
    BY <2>10, IngestKeeps
  <2>11. CASE ExportVaultArchive(p)
    BY <2>11, ExportArchiveKeeps
  <2>12. CASE Downloaded(p)
    BY <2>12, DownloadedKeeps
  <2>13. CASE Stage(p)
    BY <2>13, StageKeeps
  <2>14. CASE EncryptFile(p)
    BY <2>14, EncryptKeeps
  <2>15. CASE Tagged(p)
    BY <2>15, TaggedKeeps
  <2>16. CASE DecryptPrivateCapsule(p)
    BY <2>16, DecryptKeeps
  <2>17. CASE Verify(p)
    BY <2>17, VerifyKeeps
  <2>18. CASE ImportVaultArchive(p)
    BY <2>18, ImportArchiveKeeps
  <2>19. CASE GivesUp(p)
    BY <2>19, GivesUpKeeps
  <2>20. CASE Merges(p)
    BY <2>20, MergesKeep
  <2>21. CASE Fails(p)
    BY <2>21, FailsKeeps
  <2>22. CASE Killed(p)
    BY <2>22, KilledKeeps
  <2>23. QED
    BY <2>1, <2>2, <2>3, <2>4, <2>5, <2>6, <2>7, <2>8, <2>9, <2>10, <2>11, <2>12, <2>13, <2>14,
       <2>15, <2>16, <2>17, <2>18, <2>19, <2>20, <2>21, <2>22 DEF Request, Step
<1>2. CASE UNCHANGED vaultVars
  BY <1>2, VaultInvStutter
<1>3. QED
  BY <1>1, <1>2

\* The invariant says what a directory gives back, and that what must not stay does not.
LEMMA DiskFollows == VaultInv => DiskInv
<1> SUFFICES ASSUME VaultInv PROVE DiskInv
  OBVIOUS
<1>1. TypesInv /\ BundleInv /\ PublicInv /\ PlainInv
  BY DEF VaultInv
<1>2. VaultTypeOK
  <2>1. /\ DOMAIN bundle \subseteq BundleFiles /\ \A f \in DOMAIN bundle : bundle[f].of \subseteq 0..made
        /\ DOMAIN public \subseteq Range(CapsuleOrder) /\ \A f \in DOMAIN public : public[f].of \subseteq 0..made
    BY <1>1 DEF TypesInv, Marked
  <2>2. ASSUME NEW p \in Procs
        PROVE  /\ op[p].kind \in Kinds /\ op[p].gen \in 0..made
               /\ (op[p].kind = "none") = (op[p] = Idle)
               /\ op[p].turns \in BOOLEAN /\ op[p].alone \in BOOLEAN /\ op[p].expect \in 0..made
    <3>1. Form(op[p], made) /\ Placed(op[p])
      BY Before
    <3>2. op[p].kind = "none" <=> op[p] = Idle
      <4>1. op[p].kind = "none" => op[p] = Idle
        BY <3>1, Stands
      <4>2. op[p] = Idle => op[p].kind = "none"
        BY DEF Idle
      <4>3. QED
        BY <4>1, <4>2
    <3>3. (op[p].kind = "none") = (op[p] = Idle)
      BY <3>2, Zenon
    <3>4. QED
      BY <3>1, <3>3, Zenon DEF Form
  <2>3. /\ backup.sealed \in BOOLEAN /\ plain \subseteq Procs \X {"client", "server"}
        /\ last \in 0..made /\ exports \in 0..made /\ killed \in BOOLEAN
    BY <1>1 DEF TypesInv
  <2>4. QED
    BY <2>1, <2>2, <2>3 DEF VaultTypeOK
<1>3. ReadOrder # <<>> /\ Range(<<>>) = {}
  BY Files DEF Range
<1>4. ASSUME NEW p \in Procs, Imported(p)
      PROVE  /\ op[p].expect # 0 => IsWhole(op[p].got, op[p].expect)
             /\ exports = 1 => \E g \in 1..made : IsWhole(op[p].got, g)
  <2>1. op[p].kind = "import" /\ op[p].todo = <<>>
    BY <1>4, Before, Stands DEF Imported
  <2>2. ImportInv(op[p])
    BY <1>1 DEF BundleInv
  <2>3. \A g : HasRead(op[p], g) => IsWhole(op[p].got, g)
    BY <1>3, <2>1 DEF HasRead, IsWhole
  <2>4. op[p].expect # 0 => IsWhole(op[p].got, op[p].expect)
    BY <2>1, <2>2, <2>3 DEF ImportInv
  <2>5. exports = 1 => \E g \in 1..made : HasRead(op[p], g)
    BY <1>3, <2>1, <2>2 DEF ImportInv
  <2>6. QED
    BY <2>3, <2>4, <2>5
<1>5. ReadsBack /\ FirstManifest
  BY <1>4 DEF ReadsBack, FirstManifest
<1>6. VerifiedIsOneCapsule
  <2>1. SUFFICES ASSUME VerifyCapsule(public)
                 PROVE  \E g \in 1..made : \A f \in DOMAIN public : public[f].of = {g} /\ ~ public[f].cut
    BY DEF VerifiedIsOneCapsule
  <2>2. "checksums" \in DOMAIN public /\ ~ public["checksums"].cut
    BY <2>1, Files DEF VerifyCapsule
  <2>3. PICK g \in 1..made : Summed(public["checksums"], g)
    BY <1>1, <2>2 DEF PublicInv
  <2>4. ASSUME NEW f \in DOMAIN public PROVE public[f].of = {g} /\ ~ public[f].cut
    <3>1. CASE f = "checksums"
      BY <2>3, <3>1 DEF Summed
    <3>2. CASE f # "checksums"
      <4>1. f \in Range(CapsuleOrder)
        BY <1>1 DEF TypesInv, Marked
      <4>2. f \in DOMAIN public["checksums"].sums
        BY <2>3, <3>2, <4>1 DEF Summed
      <4>3. public[f] = Whole(g)
        BY <2>1, <2>3, <4>2 DEF Summed, VerifyCapsule
      <4>4. QED
        BY <4>3 DEF Whole, Content
    <3>3. QED
      BY <3>1, <3>2
  <2>5. QED
    BY <2>4
<1>7. PlaintextGoes
  <2>1. SUFFICES ASSUME \A p \in Procs : op[p] = Idle, ~ killed, NEW x \in plain PROVE FALSE
    BY DEF PlaintextGoes
  <2>2. PICK p \in Procs, w \in {"client", "server"} : x = <<p, w>>
    BY <1>1, <2>1 DEF TypesInv
  <2>3. op[p].at \in AtServer \/ op[p].at \in AtClient
    BY <1>1, <2>1, <2>2 DEF PlainInv
  <2>4. op[p].at = "idle"
    BY <2>1 DEF Idle
  <2>5. QED
    BY <2>3, <2>4 DEF AtServer, AtClient
<1>8. QED
  BY <1>2, <1>5, <1>6, <1>7 DEF DiskInv

\* The invariant says that what is sealed is verified, and what is restored whole.
LEMMA BackupFollows == VaultInv => BackupHolds
<1> SUFFICES ASSUME VaultInv PROVE BackupHolds
  OBVIOUS
<1>1. SealInv
  BY DEF VaultInv
<1>2. BackupVerifies
  BY <1>1 DEF SealInv, Capsule, BackupVerifies
<1>3. RestoreIsWhole
  BY <1>1 DEF SealInv, Carries, RestoreIsWhole
<1>4. QED
  BY <1>2, <1>3 DEF BackupHolds

\* and so always.
LEMMA AlwaysVaultInv == VaultSpec => []VaultInv
BY VaultInvInit, VaultInvStep, PTL DEF VaultSpec

\* An import that nobody writes under reads back what the last export has written, the
\* first manifest means that the rest is complete, a public capsule that verifies is one,
\* and private text goes unless a process is killed, for any number of processes, requests
\* and messages.
THEOREM DirectoriesAreSound == VaultSpec => []DiskInv
BY AlwaysVaultInv, DiskFollows, PTL

\* A backup that is sealed verifies and holds one whole bundle, and so is what a restore
\* gives to a host, whatever failed or was killed while it was made.
THEOREM BackupsHold == VaultSpec => []BackupHolds
BY AlwaysVaultInv, BackupFollows, PTL

-----------------------------------------------------------------------------
(* Induction over numbers                                                   *)

\* A set of numbers has a least one: what induction over numbers comes down to.
LEMMA LeastNumber ==
  ASSUME NEW T, T \subseteq Nat, T # {}
  PROVE  \E n \in T : \A m \in T : n <= m
<1> DEFINE R == OpToRel(<, Nat)
<1>1. IsWellFoundedOn(R, Nat)
  BY NatLessThanWellFounded
<1>2. \A x, y \in Nat : y < x => <<y, x>> \in R
  BY DEF OpToRel
<1> HIDE DEF R
<1>3. PICK x \in T : \A y \in T : ~ (<<y, x>> \in R)
  BY <1>1, WFMin
<1>4. ASSUME NEW m \in T PROVE x <= m
  <2>1. m \in Nat /\ x \in Nat
    OBVIOUS
  <2>2. ~ (m < x)
    BY <1>2, <1>3, <2>1
  <2>3. QED
    BY <2>1, <2>2
<1>5. QED
  BY <1>4

\* A set of numbers that has 0 and with each number the next has them all.
LEMMA EveryNumber ==
  ASSUME NEW P, 0 \in P, \A n \in Nat : n \in P => n + 1 \in P
  PROVE  Nat \subseteq P
<1> DEFINE T == Nat \ P
<1>1. SUFFICES ASSUME T # {} PROVE FALSE
  OBVIOUS
<1>2. PICK n \in T : \A m \in T : n <= m
  BY <1>1, LeastNumber
<1>3. n \in Nat /\ n \notin P /\ n # 0
  OBVIOUS
<1>4. n - 1 \in Nat /\ ~ (n <= n - 1) /\ (n - 1) + 1 = n
  BY <1>3
<1>5. n - 1 \in P
  BY <1>2, <1>4
<1>6. QED
  BY <1>3, <1>4, <1>5

\* A function can be applied again and again.
LEMMA Iterates ==
  ASSUME NEW S, NEW a \in S, NEW f \in [S -> S]
  PROVE  \E w \in [Nat -> S] : w[0] = a /\ \A n \in Nat : w[n + 1] = f[w[n]]
<1> DEFINE Goes(g, n) == g[0] = a /\ \A k \in 0..n : k # n => g[k + 1] = f[g[k]]
           P == {n \in Nat : \E g \in [0..n -> S] : Goes(g, n)}
<1>1. Nat \subseteq P
  <2>1. 0 \in P
    <3> DEFINE g == [k \in 0..0 |-> a]
    <3>1. g \in [0..0 -> S] /\ g[0] = a
      OBVIOUS
    <3>2. \A k \in 0..0 : k = 0
      OBVIOUS
    <3>3. Goes(g, 0)
      BY <3>1, <3>2
    <3>4. QED
      BY <3>1, <3>3
  <2>2. ASSUME NEW n \in Nat, n \in P PROVE n + 1 \in P
    <3>1. PICK g \in [0..n -> S] : Goes(g, n)
      BY <2>2
    <3> DEFINE h == [k \in 0..(n + 1) |-> IF k = n + 1 THEN f[g[n]] ELSE g[k]]
    <3>2. n \in 0..n /\ g[n] \in S /\ f[g[n]] \in S
      OBVIOUS
    <3>3. \A k \in 0..(n + 1) : k # n + 1 => k \in 0..n
      OBVIOUS
    <3>4. h \in [0..(n + 1) -> S]
      BY <3>2, <3>3
    <3>5. Goes(h, n + 1)
      <4>1. h[0] = a
        BY <3>1
      <4>2. ASSUME NEW k \in 0..(n + 1), k # n + 1 PROVE h[k + 1] = f[h[k]]
        <5>1. CASE k = n
          BY <5>1
        <5>2. CASE k # n
          <6>1. k \in 0..n /\ k + 1 \in 0..n /\ k + 1 # n + 1 /\ k + 1 \in 0..(n + 1)
            BY <4>2, <5>2
          <6>2. h[k + 1] = g[k + 1] /\ h[k] = g[k]
            BY <4>2, <6>1
          <6>3. QED
            BY <3>1, <5>2, <6>1, <6>2
        <5>3. QED
          BY <5>1, <5>2
      <4>3. QED
        BY <4>1, <4>2
    <3>6. QED
      BY <3>4, <3>5
  <2> HIDE DEF P
  <2>3. QED
    BY <2>1, <2>2, EveryNumber
<1>2. ASSUME NEW m \in Nat, NEW n \in Nat, m <= n,
             NEW g \in [0..m -> S], Goes(g, m), NEW h \in [0..n -> S], Goes(h, n)
      PROVE  g[m] = h[m]
  <2> DEFINE Q == {k \in Nat : k <= m => g[k] = h[k]}
  <2>1. 0 \in Q
    BY <1>2
  <2>2. ASSUME NEW k \in Nat, k \in Q PROVE k + 1 \in Q
    <3>1. SUFFICES ASSUME k + 1 <= m PROVE g[k + 1] = h[k + 1]
      OBVIOUS
    <3>2. k \in 0..m /\ k # m /\ k \in 0..n /\ k # n /\ k <= m
      BY <1>2, <3>1
    <3>3. g[k] = h[k]
      BY <2>2, <3>2
    <3>4. QED
      BY <1>2, <3>2, <3>3
  <2>3. Nat \subseteq Q
    <3> HIDE DEF Q
    <3>1. QED
      BY <2>1, <2>2, EveryNumber
  <2>4. QED
    BY <2>3
<1> DEFINE G(n) == CHOOSE g \in [0..n -> S] : Goes(g, n)
           w == [n \in Nat |-> G(n)[n]]
<1>3. \A n \in Nat : G(n) \in [0..n -> S] /\ Goes(G(n), n)
  BY <1>1
<1> HIDE DEF G
<1>4. w \in [Nat -> S]
  BY <1>3
<1>5. w[0] = a
  BY <1>3
<1>6. ASSUME NEW n \in Nat PROVE w[n + 1] = f[w[n]]
  <2>1. n + 1 \in Nat /\ n <= n + 1 /\ n \in 0..(n + 1) /\ n # n + 1
    OBVIOUS
  <2>2. /\ G(n) \in [0..n -> S] /\ Goes(G(n), n)
        /\ G(n + 1) \in [0..(n + 1) -> S] /\ Goes(G(n + 1), n + 1)
    BY <1>3, <2>1
  <2>3. G(n)[n] = G(n + 1)[n]
    BY <1>2, <2>1, <2>2, SMTT(60)
  <2>4. G(n + 1)[n + 1] = f[G(n + 1)[n]]
    BY <2>1, <2>2
  <2>5. QED
    BY <2>1, <2>3, <2>4
<1>7. QED
  BY <1>4, <1>5, <1>6

-----------------------------------------------------------------------------
(* The walk along a conversation's active branch                            *)

\* Where the walk may stand.
Walks == [at : Nodes \cup {NoParent}, seen : SUBSET Nodes, said : Seq(Nodes)]

Start(t) == [at |-> t.current, seen |-> {}, said |-> <<>>]

\* A turn of the loop leads from one place to another.
LEMMA UpType ==
  ASSUME NEW t \in Trees, NEW w \in Walks
  PROVE  Up(t, w) \in Walks
<1>1. t.parent \in [Nodes -> Nodes \cup {NoParent}]
  BY DEF Trees
<1>2. /\ w.at \in Nodes \cup {NoParent} /\ w.seen \in SUBSET Nodes /\ w.said \in Seq(Nodes)
  BY DEF Walks
<1>3. CASE w.at = NoParent \/ w.at \in w.seen
  BY <1>3 DEF Up
<1>4. CASE ~ (w.at = NoParent \/ w.at \in w.seen)
  <2>1. w.at \in Nodes /\ t.parent[w.at] \in Nodes \cup {NoParent}
    BY <1>1, <1>2, <1>4
  <2>2. (IF w.at \in t.silent THEN w.said ELSE Append(w.said, w.at)) \in Seq(Nodes)
    BY <1>2, <2>1
  <2>3. QED
    BY <1>2, <1>4, <2>1, <2>2 DEF Up, Walks
<1>5. QED
  BY <1>3, <1>4

\* The loop is what it says: turn after turn from the current message.
LEMMA WalkSteps ==
  ASSUME NEW t \in Trees
  PROVE  /\ Walk(t) \in [Nat -> Walks]
         /\ Walk(t)[0] = Start(t)
         /\ \A n \in Nat : Walk(t)[n + 1] = Up(t, Walk(t)[n])
<1> DEFINE f == [w \in Walks |-> Up(t, w)]
           Is(w) == w = [n \in Nat |-> IF n = 0 THEN Start(t) ELSE Up(t, w[n - 1])]
<1>1. f \in [Walks -> Walks]
  BY UpType
<1>2. Start(t) \in Walks
  BY DEF Start, Walks, Trees, NoCurrent, NoParent
<1>3. PICK w \in [Nat -> Walks] : w[0] = Start(t) /\ \A n \in Nat : w[n + 1] = f[w[n]]
  <2> HIDE DEF f
  <2>1. \A a \in Walks : \E w \in [Nat -> Walks] : w[0] = a /\ \A n \in Nat : w[n + 1] = f[w[n]]
    BY <1>1, Iterates, SMTT(60)
  <2>2. QED
    BY <1>2, <2>1
<1>4. Is(w)
  <2>1. ASSUME NEW n \in Nat, n # 0 PROVE w[n] = Up(t, w[n - 1])
    <3>1. n - 1 \in Nat /\ (n - 1) + 1 = n
      BY <2>1
    <3>2. w[(n - 1) + 1] = f[w[n - 1]] /\ w[n - 1] \in Walks
      BY <1>3, <3>1
    <3>3. QED
      BY <3>1, <3>2
  <2>2. \A n \in Nat : w[n] = IF n = 0 THEN Start(t) ELSE Up(t, w[n - 1])
    BY <1>3, <2>1
  <2>3. QED
    BY <2>2
<1>5. Walk(t) = CHOOSE x : Is(x)
  BY DEF Walk, Start
<1>6. Is(Walk(t))
  <2> HIDE DEF Is
  <2>1. QED
    BY <1>4, <1>5
<1>7. \A n \in Nat : Walk(t)[n] = IF n = 0 THEN Start(t) ELSE Up(t, Walk(t)[n - 1])
  BY <1>6
<1>8. Walk(t)[0] = Start(t)
  BY <1>7
<1>9. ASSUME NEW n \in Nat PROVE Walk(t)[n + 1] = Up(t, Walk(t)[n])
  <2>1. n + 1 \in Nat /\ n + 1 # 0 /\ (n + 1) - 1 = n
    OBVIOUS
  <2>2. QED
    BY <1>7, <2>1
<1>10. \A n \in Nat : Walk(t)[n] \in Walks
  <2> DEFINE P == {n \in Nat : Walk(t)[n] \in Walks}
  <2>1. 0 \in P
    BY <1>2, <1>8
  <2>2. \A n \in Nat : n \in P => n + 1 \in P
    BY <1>9, UpType
  <2> HIDE DEF P
  <2>3. Nat \subseteq P
    BY <2>1, <2>2, EveryNumber
  <2>4. QED
    BY <2>3 DEF P
<1>11. DOMAIN Walk(t) = Nat
  BY <1>6
<1>12. Walk(t) \in [Nat -> Walks]
  BY <1>6, <1>10, <1>11
<1>13. QED
  BY <1>8, <1>9, <1>12

\* A message's ancestors are all the messages that can be reached from it.
LEMMA AncestorsUp ==
  ASSUME NEW t \in Trees, NEW n \in Nodes, NEW m \in Ancestors(t, n) \cup {n},
         t.parent[m] \in Nodes
  PROVE  m \in Nodes /\ t.parent[m] \in Ancestors(t, n)
<1> DEFINE Within(S) == /\ t.parent[n] \in S \cup {NoParent}
                        /\ \A k \in S : t.parent[k] \in S \cup {NoParent}
<1>1. Ancestors(t, n) = {k \in Nodes : \A S \in SUBSET Nodes : Within(S) => k \in S}
  BY DEF Ancestors
<1>2. m \in Nodes
  BY <1>1
<1>3. 0 \notin Nodes
  BY VaultAssumption
<1>4. ASSUME NEW S \in SUBSET Nodes, Within(S) PROVE t.parent[m] \in S
  <2>1. m = n \/ m \in S
    BY <1>1, <1>4
  <2>2. t.parent[m] \in S \cup {NoParent}
    BY <1>4, <2>1
  <2>3. QED
    BY <1>3, <2>2 DEF NoParent
<1> HIDE DEF Within
<1>5. QED
  BY <1>1, <1>2, <1>4

\* What has the message that one answers, and with each message that one, has its ancestors.
LEMMA AncestorsClosed ==
  ASSUME NEW t \in Trees, NEW n \in Nodes, NEW S \in SUBSET Nodes,
         t.parent[n] \in S \cup {NoParent},
         \A m \in S : t.parent[m] \in S \cup {NoParent}
  PROVE  Ancestors(t, n) \subseteq S
BY DEF Ancestors

\* What holds of the walk at every turn.
Followed(t, w) ==
  /\ t.current \in w.seen \cup {w.at}
  /\ \A m \in w.seen : t.parent[m] \in w.seen \cup {w.at, NoParent}

Upward(t, w) ==
  /\ w.seen \cup ({w.at} \cap Nodes) \subseteq Ancestors(t, t.current) \cup {t.current}
  /\ \A m \in w.seen : w.at \in Nodes => w.at \in Ancestors(t, m)

Noted(t, w) ==
  /\ Range(w.said) = w.seen \ t.silent
  /\ Len(w.said) = Cardinality(w.seen \ t.silent)
  /\ \A i, j \in DOMAIN w.said : i < j => w.said[j] \in Ancestors(t, w.said[i])

Stuck(w) == w.at = NoParent \/ w.at \in w.seen

WalkGoes(t, w, n) ==
  Followed(t, w) /\ Upward(t, w) /\ Noted(t, w) /\ (Stuck(w) \/ Cardinality(w.seen) = n)

\* It holds where the walk starts,
LEMMA WalkStarts ==
  ASSUME NEW t \in Trees, t.current \in Nodes
  PROVE  WalkGoes(t, Start(t), 0)
<1>1. Start(t).at = t.current /\ Start(t).seen = {} /\ Start(t).said = <<>>
  BY DEF Start
<1>2. Cardinality({}) = 0 /\ {} \ t.silent = {}
  BY FS_EmptySet
<1>3. Range(<<>>) = {} /\ DOMAIN <<>> = {} /\ Len(<<>>) = 0
  BY DEF Range
<1>4. Followed(t, Start(t)) /\ Upward(t, Start(t))
  BY <1>1 DEF Followed, Upward
<1>5. Noted(t, Start(t))
  BY <1>1, <1>2, <1>3 DEF Noted
<1>6. QED
  BY <1>1, <1>2, <1>4, <1>5 DEF WalkGoes

\* what is noted goes on to be the branch,
LEMMA NotedUp ==
  ASSUME NEW t \in Trees, t.current \in Nodes, NEW w \in Walks, ~ Stuck(w),
         Upward(t, w), Noted(t, w)
  PROVE  Noted(t, Up(t, w))
<1>1. /\ w.at \in Nodes /\ w.at \notin w.seen /\ w.seen \in SUBSET Nodes /\ w.said \in Seq(Nodes)
  BY DEF Walks, Stuck
<1>2. /\ Up(t, w).seen = w.seen \cup {w.at}
      /\ Up(t, w).said = IF w.at \in t.silent THEN w.said ELSE Append(w.said, w.at)
  BY DEF Up, Stuck
<1>3. CASE w.at \in t.silent
  <2>1. Up(t, w).said = w.said /\ Up(t, w).seen \ t.silent = w.seen \ t.silent
    BY <1>2, <1>3
  <2>2. QED
    BY <2>1 DEF Noted
<1>4. CASE w.at \notin t.silent
  <2>1. /\ Up(t, w).said = Append(w.said, w.at)
        /\ Up(t, w).seen \ t.silent = (w.seen \ t.silent) \cup {w.at}
        /\ w.at \notin w.seen \ t.silent
    BY <1>1, <1>2, <1>4
  <2>2. IsFiniteSet(w.seen \ t.silent) /\ Cardinality(w.seen \ t.silent) \in Nat
    <3>1. IsFiniteSet(Nodes)
      BY VaultAssumption
    <3>2. \A T \in SUBSET Nodes : IsFiniteSet(T)
      BY <3>1, FS_Subset
    <3>3. w.seen \ t.silent \in SUBSET Nodes
      BY <1>1
    <3>4. IsFiniteSet(w.seen \ t.silent)
      BY <3>2, <3>3
    <3>5. QED
      BY <3>4, FS_CardinalityType
  <2>3. Cardinality((w.seen \ t.silent) \cup {w.at}) = Cardinality(w.seen \ t.silent) + 1
    BY <2>1, <2>2, FS_AddElement
  <2> DEFINE s == w.said
             a == w.at
             r == Append(s, a)
  <2>4. s \in Seq(Nodes) /\ a \in Nodes
    BY <1>1
  <2>5. /\ Len(r) = Len(s) + 1 /\ DOMAIN r = 1..(Len(s) + 1) /\ DOMAIN s = 1..Len(s)
        /\ r[Len(s) + 1] = a /\ \A i \in 1..Len(s) : r[i] = s[i]
        /\ Len(s) \in Nat
    BY <2>4
  <2> HIDE DEF r
  <2>6. /\ Range(s) = w.seen \ t.silent /\ Len(s) = Cardinality(w.seen \ t.silent)
        /\ \A i, j \in DOMAIN s : i < j => s[j] \in Ancestors(t, s[i])
    BY DEF Noted
  <2>7. Range(r) = Range(s) \cup {a}
    <3>1. \A i \in DOMAIN r : r[i] \in Range(s) \cup {a}
      <4>1. ASSUME NEW i \in DOMAIN r PROVE r[i] \in Range(s) \cup {a}
        <5>1. i \in 1..Len(s) \/ i = Len(s) + 1
          BY <2>5
        <5>2. QED
          BY <2>5, <5>1 DEF Range
      <4>2. QED
        BY <4>1
    <3>2. \A i \in DOMAIN s : s[i] \in Range(r)
      <4>1. ASSUME NEW i \in DOMAIN s PROVE s[i] \in Range(r)
        <5>1. i \in DOMAIN r /\ r[i] = s[i]
          BY <2>5
        <5>2. QED
          BY <5>1 DEF Range
      <4>2. QED
        BY <4>1
    <3>3. a \in Range(r)
      <4>1. Len(s) + 1 \in DOMAIN r
        BY <2>5
      <4>2. QED
        BY <2>5, <4>1 DEF Range
    <3>4. QED
      BY <3>1, <3>2, <3>3 DEF Range
  <2>8. ASSUME NEW i \in DOMAIN r, NEW j \in DOMAIN r, i < j
        PROVE  r[j] \in Ancestors(t, r[i])
    <3>1. i \in 1..Len(s) /\ (j \in 1..Len(s) \/ j = Len(s) + 1)
      BY <2>5, <2>8
    <3>2. CASE j \in 1..Len(s)
      <4>1. r[i] = s[i] /\ r[j] = s[j] /\ i \in DOMAIN s /\ j \in DOMAIN s
        BY <2>5, <3>1, <3>2
      <4>2. QED
        BY <2>6, <2>8, <4>1
    <3>3. CASE j = Len(s) + 1
      <4>1. r[i] = s[i] /\ r[j] = a /\ i \in DOMAIN s
        BY <2>5, <3>1, <3>3
      <4>2. s[i] \in Range(s)
        BY <4>1 DEF Range
      <4>3. s[i] \in w.seen
        BY <2>6, <4>2
      <4>4. QED
        BY <2>4, <4>1, <4>3 DEF Upward
    <3>4. QED
      BY <3>1, <3>2, <3>3
  <2>9. Up(t, w).said = r
    BY <2>1 DEF r
  <2>10. Len(r) = Cardinality((w.seen \ t.silent) \cup {w.at})
    BY <2>3, <2>5, <2>6
  <2>11. QED
    BY <2>1, <2>6, <2>7, <2>8, <2>9, <2>10 DEF Noted
<1>5. QED
  BY <1>3, <1>4

\* and a turn of the loop keeps it.
LEMMA WalkGoesOn ==
  ASSUME NEW t \in Trees, t.current \in Nodes, NEW w \in Walks, NEW n \in Nat,
         WalkGoes(t, w, n)
  PROVE  WalkGoes(t, Up(t, w), n + 1)
<1>1. CASE Stuck(w)
  <2>1. Up(t, w) = w
    BY <1>1 DEF Up, Stuck
  <2>2. QED
    BY <1>1, <2>1 DEF WalkGoes
<1>2. CASE ~ Stuck(w)
  <2>1. /\ w.at \in Nodes /\ w.at \notin w.seen /\ w.seen \in SUBSET Nodes
        /\ t.parent \in [Nodes -> Nodes \cup {NoParent}]
    BY <1>2 DEF Walks, Stuck, Trees
  <2>2. Up(t, w).seen = w.seen \cup {w.at} /\ Up(t, w).at = t.parent[w.at]
    BY <1>2 DEF Up, Stuck
  <2>3. Followed(t, w) /\ Upward(t, w) /\ Noted(t, w) /\ Cardinality(w.seen) = n
    BY <1>2 DEF WalkGoes
  <2>4. Followed(t, Up(t, w))
    BY <2>1, <2>2, <2>3 DEF Followed
  <2>5. Upward(t, Up(t, w))
    <3>1. w.at \in Ancestors(t, t.current) \cup {t.current}
      BY <2>1, <2>3 DEF Upward
    <3>2. t.parent[w.at] \in Nodes => t.parent[w.at] \in Ancestors(t, t.current)
      BY <3>1, AncestorsUp
    <3>3. ASSUME NEW m \in w.seen \cup {w.at}, t.parent[w.at] \in Nodes
          PROVE  t.parent[w.at] \in Ancestors(t, m)
      <4>1. m \in Nodes /\ w.at \in Ancestors(t, m) \cup {m}
        BY <2>1, <2>3 DEF Upward
      <4>2. QED
        BY <3>3, <4>1, AncestorsUp
    <3>4. QED
      BY <2>2, <2>3, <3>1, <3>2, <3>3 DEF Upward
  <2>6. Noted(t, Up(t, w))
    BY <1>2, <2>3, NotedUp
  <2>7. Cardinality(Up(t, w).seen) = n + 1
    <3>1. IsFiniteSet(Nodes)
      BY VaultAssumption
    <3>2. IsFiniteSet(w.seen)
      BY <2>1, <3>1, FS_Subset
    <3>3. QED
      BY <2>1, <2>2, <2>3, <3>2, FS_AddElement
  <2>8. QED
    BY <2>4, <2>5, <2>6, <2>7 DEF WalkGoes
<1>3. QED
  BY <1>1, <1>2

\* After as many turns as there are messages the walk has come to its end, and has
\* been where it had to be.
LEMMA WalkEnds ==
  ASSUME NEW t \in Trees, t.current \in Nodes
  PROVE  /\ Cardinality(Nodes) \in Nat
         /\ Noted(t, Walk(t)[Cardinality(Nodes)])
         /\ Walk(t)[Cardinality(Nodes)].seen = Ancestors(t, t.current) \cup {t.current}
         /\ Walk(t)[Cardinality(Nodes)] \in Walks
<1> DEFINE P == {n \in Nat : WalkGoes(t, Walk(t)[n], n)}
           N == Cardinality(Nodes)
           w == Walk(t)[N]
<1>1. IsFiniteSet(Nodes) /\ 0 \notin Nodes
  BY VaultAssumption
<1>2. N \in Nat
  BY <1>1, FS_CardinalityType
<1>3. /\ Walk(t) \in [Nat -> Walks] /\ Walk(t)[0] = Start(t)
      /\ \A n \in Nat : Walk(t)[n + 1] = Up(t, Walk(t)[n])
  BY WalkSteps
<1>4. 0 \in P
  BY <1>3, WalkStarts
<1>5. ASSUME NEW n \in Nat, n \in P PROVE n + 1 \in P
  <2>1. Walk(t)[n] \in Walks /\ WalkGoes(t, Walk(t)[n], n)
    BY <1>3, <1>5
  <2>2. WalkGoes(t, Up(t, Walk(t)[n]), n + 1)
    BY <2>1, WalkGoesOn
  <2>3. QED
    BY <1>3, <2>2
<1>6. WalkGoes(t, w, N)
  <2> HIDE DEF P
  <2>1. Nat \subseteq P
    BY <1>4, <1>5, EveryNumber
  <2>2. QED
    BY <1>2, <2>1 DEF P
<1>7. w \in Walks
  BY <1>2, <1>3
<1> HIDE DEF P, w
<1>8. Followed(t, w) /\ Upward(t, w) /\ Noted(t, w)
  BY <1>6 DEF WalkGoes
<1>9. w.seen \in SUBSET Nodes /\ w.at \in Nodes \cup {NoParent}
  BY <1>7 DEF Walks
<1>10. Stuck(w)
  <2>1. CASE Cardinality(w.seen) = N
    <3>1. w.seen = Nodes
      BY <1>1, <1>9, <2>1, FS_Subset
    <3>2. QED
      BY <1>9, <3>1 DEF Stuck
  <2>2. QED
    BY <1>6, <2>1 DEF WalkGoes
<1>11. t.current \in w.seen
  BY <1>1, <1>8, <1>10 DEF Followed, Stuck, NoParent
<1>12. \A m \in w.seen : t.parent[m] \in w.seen \cup {NoParent}
  BY <1>8, <1>10 DEF Followed, Stuck
<1>13. Ancestors(t, t.current) \subseteq w.seen
  BY <1>9, <1>11, <1>12, AncestorsClosed
<1>14. w.seen \subseteq Ancestors(t, t.current) \cup {t.current}
  BY <1>8 DEF Upward
<1>15. w.seen = Ancestors(t, t.current) \cup {t.current}
  BY <1>11, <1>13, <1>14
<1>16. QED
  BY <1>2, <1>7, <1>8, <1>15 DEF w

\* The turns of a conversation that says which message is current are its branch.
LEMMA TurnsAreBranch ==
  ASSUME NEW t \in Trees, t.current \in Nodes
  PROVE  LET said == (Ancestors(t, t.current) \cup {t.current}) \ t.silent
         IN  /\ Range(Turns(t)) = said /\ Len(Turns(t)) = Cardinality(said)
             /\ \A i, j \in DOMAIN Turns(t) : i < j => Turns(t)[i] \in Ancestors(t, Turns(t)[j])
<1> DEFINE N == Cardinality(Nodes)
           s == Walk(t)[N].said
           L == Len(s)
           r == Turns(t)
           said == (Ancestors(t, t.current) \cup {t.current}) \ t.silent
<1>1. /\ s \in Seq(Nodes) /\ Range(s) = said /\ Len(s) = Cardinality(said)
      /\ \A i, j \in DOMAIN s : i < j => s[j] \in Ancestors(t, s[i])
  BY WalkEnds DEF Noted, Walks
<1>2. r = Reverse(s)
  BY VaultAssumption DEF Turns, NoCurrent
<1> HIDE DEF s, r, said
<1>3. L \in Nat /\ DOMAIN s = 1..L
  BY <1>1
<1>4. r = [i \in 1..L |-> s[(L - i) + 1]]
  BY <1>2 DEF Reverse
<1>5. /\ DOMAIN r = 1..L /\ \A i \in 1..L : r[i] = s[(L - i) + 1]
      /\ \A i \in 1..L : (L - i) + 1 \in 1..L /\ (L - ((L - i) + 1)) + 1 = i
  BY <1>3, <1>4
<1>6. Len(r) = L
  <2>1. r \in Seq(Nodes)
    <3>1. \A i \in 1..L : s[(L - i) + 1] \in Nodes
      BY <1>1, <1>3, <1>5
    <3>2. r \in [1..L -> Nodes]
      BY <1>4, <3>1
    <3>3. QED
      BY <1>3, <3>2
  <2>2. QED
    BY <1>3, <1>5, <2>1
<1>7. Range(r) = Range(s)
  <2>1. \A i \in DOMAIN r : r[i] \in Range(s)
    BY <1>3, <1>5 DEF Range
  <2>2. \A i \in DOMAIN s : s[i] \in Range(r)
    <3>1. ASSUME NEW i \in 1..L PROVE s[i] \in Range(r)
      <4>1. (L - i) + 1 \in DOMAIN r /\ r[(L - i) + 1] = s[i]
        BY <1>5
      <4>2. QED
        BY <4>1 DEF Range
    <3>2. QED
      BY <1>3, <3>1
  <2>3. QED
    BY <2>1, <2>2 DEF Range
<1>8. ASSUME NEW i \in DOMAIN r, NEW j \in DOMAIN r, i < j
      PROVE  r[i] \in Ancestors(t, r[j])
  <2>1. /\ (L - j) + 1 \in DOMAIN s /\ (L - i) + 1 \in DOMAIN s
        /\ (L - j) + 1 < (L - i) + 1
    BY <1>3, <1>5, <1>8
  <2>2. s[(L - i) + 1] \in Ancestors(t, s[(L - j) + 1])
    BY <1>1, <2>1
  <2>3. QED
    BY <1>5, <2>2
<1>9. Range(r) = said /\ Len(r) = Cardinality(said)
  BY <1>1, <1>6, <1>7
<1>10. QED
  BY <1>8, <1>9 DEF r, said

\* The conversation that has just been read is one that there can be, with its turns.
ChainInv == chain = NoChain \/ \E t \in Trees : chain = [tree |-> t, turns |-> Turns(t)]

\* It holds at first,
LEMMA ChainInvInit == VaultInit => ChainInv
BY DEF VaultInit, ChainInv

\* every step keeps it,
LEMMA ChainInvStep == ChainInv /\ [VaultNext]_vaultVars => ChainInv'
<1> SUFFICES ASSUME ChainInv, [VaultNext]_vaultVars PROVE ChainInv'
  OBVIOUS
<1>1. CASE VaultNext
  <2>1. PICK p \in Procs : Request(p) \/ Step(p) \/ Fails(p) \/ Killed(p)
    BY <1>1 DEF VaultNext
  <2>2. CASE IngestConversationExport(p)
    <3>1. chain' = NoChain \/ \E t \in Trees : chain' = [tree |-> t, turns |-> Turns(t)]
      BY <2>2 DEF IngestConversationExport
    <3>2. QED
      BY <3>1 DEF ChainInv
  <2>3. CASE Request(p) \/ Fails(p) \/ Killed(p)
    <3>1. chain' = NoChain
      BY <2>3 DEF Request, Fails, Killed, Export, Publish, Import, Backup, Restore, VerifyEncrypted,
                  Ends, Does
    <3>2. QED
      BY <3>1 DEF ChainInv
  <2>4. CASE Open(p) \/ Close(p) \/ Read(p)
    <3>1. chain' = NoChain
      BY <2>4 DEF Open, Close, Read, Ends, Does
    <3>2. QED
      BY <3>1 DEF ChainInv
  <2>5. CASE \/ ExportVaultArchive(p) \/ Downloaded(p) \/ Stage(p) \/ EncryptFile(p) \/ Tagged(p)
             \/ DecryptPrivateCapsule(p) \/ Verify(p) \/ ImportVaultArchive(p) \/ GivesUp(p)
             \/ Merges(p)
    <3>1. chain' = NoChain
      BY <2>5 DEF ExportVaultArchive, Downloaded, Stage, EncryptFile, Tagged, DecryptPrivateCapsule,
                  Verify, ImportVaultArchive, GivesUp, Merges, Ends, Does
    <3>2. QED
      BY <3>1 DEF ChainInv
  <2>6. QED
    BY <2>1, <2>2, <2>3, <2>4, <2>5 DEF Step
<1>2. CASE UNCHANGED vaultVars
  BY <1>2 DEF ChainInv, vaultVars
<1>3. QED
  BY <1>1, <1>2

\* and it makes the turns a branch.
LEMMA BranchFollows == ChainInv => ActiveBranch
<1> SUFFICES ASSUME ChainInv, chain # NoChain, chain.tree.current # NoCurrent PROVE ActiveBranch
  BY DEF ActiveBranch
<1>1. PICK t \in Trees : chain = [tree |-> t, turns |-> Turns(t)]
  BY DEF ChainInv
<1>2. chain.tree = t /\ chain.turns = Turns(t) /\ t.current \in Nodes
  BY <1>1 DEF Trees
<1>3. QED
  BY <1>2, TurnsAreBranch DEF ActiveBranch

\* The turns that are taken from an exported conversation are the current message and
\* all that it answers, each once and each after those it answers, in any export, one
\* whose parents go round included.
THEOREM TurnsAreActiveBranch == VaultSpec => []ActiveBranch
<1>1. VaultSpec => []ChainInv
  BY ChainInvInit, ChainInvStep, PTL DEF VaultSpec
<1>2. QED
  BY <1>1, BranchFollows, PTL
=============================================================================
