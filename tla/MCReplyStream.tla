---------------------------- MODULE MCReplyStream ----------------------------
(* Every reply up to a length over the letters that each stage tells apart,   *)
(* with markers of two letters that begin alike.                              *)
EXTENDS ReplyStream

Over(alphabet, n) == BoundedSeq(alphabet, n)

To(to, by, texts) == {[to |-> to, by |-> by, items |-> t] : t \in texts}

MCTagStart == <<"<", "f">>
MCTagEnd == <<"<", "/">>

MCReplies ==
  UNION {
    To("terminal", "openai", Over({"<", "f", "/", ">", "n"}, 4)),
    To("terminal", "openai", {s \o MCTagStart \o t \o MCTagEnd \o u :
                                s, u \in Over({"<", "f", "/"}, 1), t \in Over({"<", "f", "/", ">"}, 2)}),
    To("terminal", "openai", {MCTagStart \o t \o MCTagEnd \o MCTagStart \o u \o MCTagEnd :
                                t, u \in {<<">">>, <<"f", ">">>}}),
    To("terminal", "openai", Over({"x", " ", "n"}, 6)),
    To("terminal", "openai", Over({"call0", "call1", "tools", "x"}, 4)),
    To("terminal", "openai", {s \o MCTagStart \o <<">">> \o MCTagEnd \o t :
                                s, t \in Over({"call0", "call1", "tools"}, 2)}),
    To("terminal", "ollama", Over({"<", "f", "n"}, 3)),
    To("voice", "openai", Over({"x", ".", " ", "n"}, 5)),
    To("voice", "openai", Over({"x", " ", "call0", "tools"}, 4)),
    To("companion", "openai", {<<"R">> \o t : t \in Over({"x", "q", "b", "u", "d"}, 4)}),
    To("companion", "openai", {<<"E", "R", "b", "u">> \o t : t \in Over({"b", "q", "d"}, 3)}),
    To("companion", "openai", {<<"R">> \o t \o <<"q", "E">> : t \in Over({"x"}, 2)})}
=============================================================================
