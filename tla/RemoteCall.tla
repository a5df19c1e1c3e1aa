---------------------------- MODULE RemoteCall ----------------------------
(***************************************************************************)
(* What the worker bridge promises to the code that calls submit(): a      *)
(* remote call with at-most-once execution.                                *)
(*                                                                         *)
(*  - a call is made once, and ends at most once: answered or failed;      *)
(*  - a worker starts the command at most once, possibly after the caller  *)
(*    has given up, never before the call;                                 *)
(*  - an answer is the output of the caller's own command, and a worker    *)
(*    has executed that command before the answer is given.                *)
(*                                                                         *)
(* Several calls may fail in one step: the calls are held in the memory    *)
(* of one server process and die with it.                                  *)
(***************************************************************************)
EXTENDS Naturals

CONSTANTS Commands,  \* the calls; each submit() draws a fresh command id
          NoAnswer   \* what an unanswered call holds

VARIABLES call,    \* how far the caller of each command has got
          runs,    \* how many times a worker started the command
          answer   \* the command whose output the caller was given

vars == <<call, runs, answer>>

Init ==
  /\ call = [c \in Commands |-> "idle"]
  /\ runs = [c \in Commands |-> 0]
  /\ answer = [c \in Commands |-> NoAnswer]

Call(c) ==
  /\ call[c] = "idle"
  /\ call' = [call EXCEPT ![c] = "open"]
  /\ UNCHANGED <<runs, answer>>

Execute(c) ==
  /\ call[c] # "idle"
  /\ runs[c] = 0
  /\ runs' = [runs EXCEPT ![c] = 1]
  /\ UNCHANGED <<call, answer>>

Answer(c) ==
  /\ call[c] = "open"
  /\ runs[c] = 1
  /\ call' = [call EXCEPT ![c] = "answered"]
  /\ answer' = [answer EXCEPT ![c] = c]
  /\ UNCHANGED runs

\* One caller gives up, or all those of a server that stops.
Fail(S) ==
  /\ S # {}
  /\ \A c \in S : call[c] = "open"
  /\ call' = [c \in Commands |-> IF c \in S THEN "failed" ELSE call[c]]
  /\ UNCHANGED <<runs, answer>>

Next ==
  \/ \E c \in Commands : Call(c) \/ Execute(c) \/ Answer(c)
  \/ \E S \in SUBSET Commands : Fail(S)

Spec == Init /\ [][Next]_vars
=============================================================================
