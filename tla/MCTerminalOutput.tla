-------------------------- MODULE MCTerminalOutput --------------------------
(* TerminalOutput for TLC: frames with short and long, empty and prompting  *)
(* outputs, noise before them, a changed DEBUG trap and a lost identity.    *)
EXTENDS TerminalOutput

MCSymbols == {"x", "y", "o", NewLine, Sudo, Token, Escape[1], Escape[2]}

Frame(before, out) ==
  [before |-> before, out |-> out, trap |-> <<>>, health |-> TRUE, exit |-> "0"]
Plainest == Frame(<<>>, <<"x", "n">>)
Outs == BoundedSeq({"x", "n"}, 3)
        \union {<<"x", "x", "y", "x", "n", "y">>, <<"x", "n", "n", "y", "x", "y">>}
        \union {<<Sudo, Token>> \o s : s \in {<<>>, <<"x">>, Escape, Escape \o <<"n", "x">>,
                                             <<"n", Sudo, Token>>}}
MCFrames ==
  {Frame(<<>>, out) : out \in Outs}
  \union {Frame(before, <<"x">>) : before \in {Query \o <<"o">> \o Query, Escape,
                                               <<"o", "o", "o", "o", "n">>}}
  \union {[Plainest EXCEPT !.trap = <<"x", "n">>], [Plainest EXCEPT !.health = FALSE],
          [Plainest EXCEPT !.exit = "1"]}
MCRawFrames == {Frame(<<>>, <<"x", "x", "y", "x", "n", "y">>), [Plainest EXCEPT !.health = FALSE]}
LongFrames == {Frame(<<>>, <<"x", "x", "y", "x", "n", "y">>)}
=============================================================================
