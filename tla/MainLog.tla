------------------------------ MODULE MainLog ------------------------------
(***************************************************************************)
(* What self-modification promises about the main branch: a log of changes *)
(* with a mark at a place it can go back to.                               *)
(*                                                                         *)
(*  - the mark is set at the end of the log, or cannot be set and stays;   *)
(*  - the log grows by one change that is not in it, once for each attempt *)
(*    to set the mark;                                                     *)
(*  - otherwise it only ever goes back to the mark.                        *)
(*                                                                         *)
(* So going back, at any time, by whomever and however often, undoes one   *)
(* change, and one more for each time the mark was missed.                 *)
(***************************************************************************)
EXTENDS Naturals, Sequences, SequencesExt

CONSTANTS Changes,  \* what may be merged
          Unmarked  \* what the mark is before it is set

VARIABLES log, mark,
          missed    \* how often the mark could not be set since it last was

vars == <<log, mark, missed>>

Base == IF mark = Unmarked THEN <<>> ELSE mark

Init == log = <<>> /\ mark = Unmarked /\ missed = 0

SetMark == mark' = log /\ missed' = 0 /\ UNCHANGED log

MissMark == missed' = missed + 1 /\ UNCHANGED <<log, mark>>

Extend ==
  /\ Len(log) <= Len(Base) + missed
  /\ log' # <<>> /\ Front(log') = log
  /\ Last(log') \in {c \in Changes : \A i \in DOMAIN log : log[i] # c}
  /\ UNCHANGED <<mark, missed>>

GoBack ==
  /\ mark # Unmarked
  /\ log' = mark
  /\ UNCHANGED <<mark, missed>>

Next == SetMark \/ MissMark \/ Extend \/ GoBack

Spec == Init /\ [][Next]_vars

\* Going back takes off the end of the log, one change when the mark was set for
\* it, and at most one more for each time that it was missed.
FewAhead == IsPrefix(Base, log) /\ Len(log) <= Len(Base) + missed + 1
=============================================================================
