--------------------------- MODULE MCChatTurn -------------------------------
(* One turn, which is all a context ever sees, with a tool of each kind: one*)
(* that runs at once, one behind the gate, an expert, and one of the Mac's  *)
(* that needs approval too.                                                 *)
EXTENDS ChatTurn

\* What Selected computes, on every session that is checked: the messages that pass
\* the test, in their order.
ASSUME SelectedIsSelectSeq ==
  \A msgs \in UNION {[1..n -> Messages] : n \in 0..MaxPast + MaxLate + 1} :
    /\ Selected(msgs, {i \in DOMAIN msgs : msgs[i].role # "tool"})
         = SelectSeq(msgs, LAMBDA msg : msg.role # "tool")
    /\ Selected(msgs, {i \in DOMAIN msgs : msgs[i] # Question})
         = SelectSeq(msgs, LAMBDA msg : msg # Question)
=============================================================================
