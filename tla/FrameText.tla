----------------------------- MODULE FrameText -----------------------------
(***************************************************************************)
(* What a framed command writes to its terminal.  A symbol stands for a    *)
(* piece of text that may be cut from its neighbours but not cut itself; a *)
(* marker line and an escape sequence are two symbols, so that they can    *)
(* arrive in pieces.                                                       *)
(***************************************************************************)
EXTENDS Naturals, SequencesExt

CONSTANTS
  MaxBytes,    \* max_output_bytes: the limit of the output, and of the ring buffer
  None         \* no outcome, no line, no exit status

ASSUME MaxBytesAssumption == MaxBytes \in Nat \ {0}

NewLine == "n"
Line(text) == Append(text, NewLine)
Begin      == <<"B", "b">>       \* the marker lines of one token
DebugBegin == <<"D", "d">>
DebugEnd   == <<"F", "f">>
EndMark    == <<"E", "e">>       \* followed by the exit status
CwdMark    == <<"C", "c">>       \* followed by the directory
Health     == <<"H", "h">>
MarkerSymbols == {Begin[1], DebugBegin[1], DebugEnd[1], EndMark[1], CwdMark[1], Health[1]}
Escape     == <<"e1", "e2">>     \* a terminal escape sequence
Query      == Escape             \* the one that asks the host for an answer
Sudo       == "s"                \* sudo's prompt up to the colon
Token      == "t"                \* the operation's token at its end

\* command_wrapper: the stream of a command with output f.out, after what other programs
\* left in the terminal (f.before); f.trap is what trap -p DEBUG printed, f.health says
\* whether the shell could still prove its identity.
Stream(f) ==
  f.before \o <<NewLine>> \o Line(Begin) \o f.out \o <<NewLine>>
  \o Line(DebugBegin) \o f.trap \o Line(DebugEnd)
  \o IF f.health
     THEN <<NewLine>> \o Line(Append(EndMark, f.exit)) \o Line(Append(CwdMark, "w")) \o Line(Health)
     ELSE <<>>

\* ANSI_ESCAPE.sub, from left to right: only a whole escape sequence is recognized.
Stripped(text, c) ==
  IF c = Escape[2] /\ text # <<>> /\ Last(text) = Escape[1] THEN Front(text) ELSE Append(text, c)
Plain(s) ==
  LET text[i \in 0..Len(s)] == IF i = 0 THEN <<>> ELSE Stripped(text[i - 1], s[i])
  IN  text[Len(s)]

Newest(s, limit) == IF Len(s) > limit THEN SubSeq(s, Len(s) - limit + 1, Len(s)) ELSE s

\* What execute returns for a verified frame, and for any other end.
Completed(exit, output, truncated) ==
  [status |-> "completed", exit |-> exit, output |-> output, truncated |-> truncated]
Unverified == [status |-> "unknown"]
=============================================================================
