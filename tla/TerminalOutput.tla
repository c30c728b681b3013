--------------------------- MODULE TerminalOutput ---------------------------
(***************************************************************************)
(* The way of terminal output to a result: the ConPTY reader thread, the   *)
(* ring buffer, the session's reads at its cursor, the prompt detector and *)
(* the incremental frame parser; and the client's own cursor in raw mode.  *)
(* The session is either executing a framed command or in raw mode.        *)
(***************************************************************************)
EXTENDS FrameText, FiniteSets

CONSTANTS
  Frames,        \* the frames of commands
  Symbols,       \* what programs write, cut into symbols
  RawFrames,     \* those whose text a program writes in raw mode
  LineLimit,     \* _PARTIAL_LINE_LIMIT
  HistoryLimit,  \* history_characters
  TailLength,    \* the tail kept for terminal queries
  MaxChunk       \* bound: the symbols of one read of the reader thread

ASSUME TerminalBounds ==
  /\ {LineLimit, HistoryLimit, TailLength, MaxChunk} \subseteq Nat \ {0}
  /\ LineLimit >= Len(Append(EndMark, "0"))   \* a marker line fits

\* What a program may write: anything but the marker lines, which carry a token drawn for
\* this command; what trap -p DEBUG prints is nothing, or ends with the word DEBUG.
FrameOf(f) ==
  /\ f.before \in Seq(Symbols) /\ f.out \in Seq(Symbols) /\ f.trap \in Seq(Symbols)
  /\ f.health \in BOOLEAN /\ f.exit \in {"0", "1"}
  /\ f.trap # <<>> => /\ Last(f.trap) = NewLine
                      /\ Len(f.trap) > 1
                      /\ f.trap[Len(f.trap) - 1] \notin {NewLine, Escape[1], Escape[2]}

ASSUME FramesAssumption ==
  /\ Symbols \intersect MarkerSymbols = {}
  /\ \A f \in Frames \union RawFrames : FrameOf(f)

\* None is nothing a line, an exit status or a result can be.
Alphabet == Symbols \union MarkerSymbols \union {"b", "d", "f", "e", "c", "h", "w", "0", "1", NewLine}
ASSUME NoneAssumption ==
  /\ None \notin {"0", "1"} \union Seq(Alphabet)
  /\ None # Unverified
  /\ None \notin [status : {"completed"}, exit : {"0", "1"}, output : Seq(Alphabet),
                  truncated : BOOLEAN]

VARIABLES
  mode,      \* command or raw
  frame,     \* the command's frame; in raw mode its text is what a program writes
  sent,      \* symbols the reader thread has taken from the terminal
  running,   \* the terminal's process is alive
  ring, start, closed,   \* TerminalRingBuffer: _data, _start, _closed
  replies, tail,         \* terminal queries answered, _protocol_tail
  cursor,    \* the session's cursor
  parser,    \* CommandFrameParser
  detector,  \* PromptDetector, for sudo's prompt
  gate,      \* the single authentication gate: passwords typed, interrupts sent
  outcome,   \* what execute, or the raw read, returned at last
  client,    \* raw mode: the client's cursor, what it has read, and whether loss was reported
  lossy,     \* ghost: the session missed symbols
  cut        \* ghost: a read ended within an escape sequence

readerVars == <<sent, ring, start, closed, replies, tail>>
sessionVars == <<cursor, parser, detector, gate, outcome, lossy, cut>>
outVars == <<mode, frame, running, readerVars, sessionVars, client>>

-----------------------------------------------------------------------------
(* TerminalRingBuffer and the reader thread.                               *)

Text == Stream(frame)
EndCursor == start + Len(ring)

\* A mutant: _start is not moved when old data is deleted.
Append_start_kept(data) ==
  ring' = Newest(ring \o data, MaxBytes) /\ UNCHANGED start

\* append: the oldest data goes, the start moves with it.
append(data) ==
  LET overflow == Len(ring \o data) - MaxBytes IN
  /\ ring' = Newest(ring \o data, MaxBytes)
  /\ start' = IF overflow > 0 THEN start + overflow ELSE start

\* A mutant: dropped data is not reported.
ReadFrom_silent(c) ==
  LET offset == IF c > start THEN c - start ELSE 0
  IN  [data |-> SubSeq(ring, offset + 1, Len(ring)), next |-> EndCursor, dropped |-> FALSE]

\* _read_locked.
ReadFrom(c) ==
  LET effective == IF c > start THEN c ELSE start
      offset == IF effective - start < Len(ring) THEN effective - start ELSE Len(ring)
  IN  [data |-> SubSeq(ring, offset + 1, Len(ring)), next |-> EndCursor, dropped |-> c < start]

\* combined.count of a query, which is two symbols and may arrive in two reads.
Queries(text) == Cardinality({i \in 1..(Len(text) - 1) : text[i] = Query[1] /\ text[i + 1] = Query[2]})

\* The replies so far are compared with the queries in the tail and the new text.
Answered(count) == replies' = IF count > replies THEN count ELSE replies

\* _read_output: a chunk is appended and its queries answered.  The thread looks for the
\* process only between two reads.
ReadOutput(k) ==
  /\ ~closed /\ sent + k <= Len(Text)
  /\ LET chunk == SubSeq(Text, sent + 1, sent + k) IN
     /\ append(chunk)
     /\ Answered(Queries(tail \o chunk))
     /\ tail' = Newest(tail \o chunk, TailLength)
  /\ sent' = sent + k /\ closed' = ~running
  /\ UNCHANGED <<mode, frame, running, sessionVars, client>>

\* The process has ended, a read or the write of a reply failed.
ReaderEnds ==
  /\ ~closed /\ closed' = TRUE
  /\ UNCHANGED <<mode, frame, running, sent, ring, start, replies, tail, sessionVars, client>>

ChildExits ==
  /\ running /\ running' = FALSE
  /\ UNCHANGED <<mode, frame, readerVars, sessionVars, client>>

-----------------------------------------------------------------------------
(* CommandFrameParser.                                                     *)

NewParser ==
  [scan |-> <<>>, started |-> FALSE, debug |-> "unseen", exit |-> None, cwd |-> FALSE,
   line |-> None, output |-> <<>>, truncated |-> FALSE, verdict |-> "open"]

Invalid(p) == [p EXCEPT !.verdict = "invalid"]

\* A mutant: the cut is made without saying so.
_store_output_silently(p, data) == [p EXCEPT !.output = Newest(p.output \o data, MaxBytes)]

_store_output(p, data) ==
  [p EXCEPT !.output = Newest(p.output \o data, MaxBytes),
            !.truncated = p.truncated \/ Len(p.output \o data) > MaxBytes]

\* The line kept back is output after all.
StorePending(p) ==
  IF p.line = None THEN p ELSE [_store_output(p, Line(p.line)) EXCEPT !.line = None]

\* The newline before the closing marker belongs to the frame.
_flush_final_output_line(p) ==
  IF p.line = None THEN p ELSE [_store_output(p, p.line) EXCEPT !.line = None]

\* _consume_line, before the exit status is known.
ConsumeOutput(p, raw, line) ==
  IF p.debug = "inside"
  THEN IF line = DebugEnd THEN [p EXCEPT !.debug = "seen"]
       ELSE IF line # <<>> THEN Invalid(p) ELSE p
  ELSE IF line = DebugBegin THEN [_flush_final_output_line(p) EXCEPT !.debug = "inside"]
  ELSE IF IsPrefix(DebugBegin, line) THEN Invalid(p)
  ELSE IF ~IsPrefix(EndMark, line) THEN [StorePending(p) EXCEPT !.line = raw]
  ELSE IF p.debug = "seen" /\ Len(line) = 3 /\ line[3] \in {"0", "1"}
  THEN [_flush_final_output_line(p) EXCEPT !.exit = line[3]] ELSE Invalid(p)

\* _consume_line.
_consume_line(p) ==
  LET line == Plain(p.scan)
      q == [p EXCEPT !.scan = <<>>]
  IN  IF ~p.started
      THEN IF line = Begin THEN [q EXCEPT !.started = TRUE]
           ELSE IF IsPrefix(Begin, line) THEN Invalid(q) ELSE q
      ELSE IF p.exit = None THEN ConsumeOutput(q, p.scan, line)
      ELSE IF ~p.cwd
      THEN IF IsPrefix(CwdMark, line) THEN [q EXCEPT !.cwd = TRUE] ELSE Invalid(q)
      ELSE IF line = Health THEN [q EXCEPT !.verdict = "complete"] ELSE Invalid(q)

\* _bound_partial_line: a long line of output is flushed but for its end.
_bound_partial_line(p) ==
  IF p.verdict # "open" \/ Len(p.scan) <= LineLimit THEN p
  ELSE IF ~p.started \/ p.exit # None THEN Invalid(p)
  ELSE LET flush == Len(p.scan) - LineLimit IN
       [_store_output(StorePending(p), SubSeq(p.scan, 1, flush)) EXCEPT
          !.scan = SubSeq(p.scan, flush + 1, Len(p.scan))]

\* feed: symbol by symbol, a line at its end, until the frame is complete or invalid.
Take(p, c) ==
  IF p.verdict # "open" THEN p
  ELSE IF c = NewLine THEN _consume_line(p)
  ELSE [p EXCEPT !.scan = Append(@, c)]
feed(p, data) ==
  LET after[i \in 0..Len(data)] == IF i = 0 THEN p ELSE Take(after[i - 1], data[i])
  IN  _bound_partial_line(after[Len(data)])

-----------------------------------------------------------------------------
(* PromptDetector, for the prompts an elevated command may raise.          *)

NewDetector == [history |-> <<>>, base |-> 0, seen |-> 0]

\* The first prompt of a line; it reaches to the end of the line, or of what is there.
Heads(h) == {i \in DOMAIN h : h[i] = Sudo /\ \A j \in 1..(i - 1) :
                                h[j] = Sudo => \E k \in j..i : h[k] = NewLine}
Ending(h, i) == CHOOSE j \in i..Len(h) :
                  /\ \A k \in i..j : h[k] # NewLine
                  /\ j = Len(h) \/ h[j + 1] = NewLine


\* A prompt that ends behind everything reported before.
Fresh(d, i) == d.base + Ending(d.history, i) > d.seen

\* PromptDetector.feed: the new history, and how many fresh prompts carry the token.
Detect(d, data) ==
  LET h == d.history \o Plain(data)
      drop == IF Len(h) > HistoryLimit THEN Len(h) - HistoryLimit ELSE 0
      e == [d EXCEPT !.history = Newest(h, HistoryLimit), !.base = d.base + drop]
      new == {i \in Heads(e.history) : Fresh(e, i)}
      ends == {e.base + Ending(e.history, i) : i \in new}
  IN  [detector |-> [e EXCEPT !.seen = IF ends = {} THEN @ ELSE Max(ends)],
       prompts  |-> Cardinality({i \in new : \E j \in i..Ending(e.history, i) :
                                               e.history[j] = Token})]

\* _single_authentication_gate: the first is answered, the next interrupts once.
Pass(g, n) ==
  IF n = 0 THEN g
  ELSE [typed |-> 1,
        interrupts |-> IF g.typed + n > 1 THEN 1 ELSE g.interrupts]

-----------------------------------------------------------------------------
(* The session.                                                            *)

\* _read_and_handle_prompts and the turn of execute's loop around it.
SessionRead ==
  /\ mode = "command" /\ outcome = None
  /\ LET read == ReadFrom(cursor)
         seen == Detect(detector, read.data)
         p == feed(parser, read.data)
     IN /\ cursor' = read.next
        /\ lossy' = (lossy \/ read.dropped)
        /\ cut' = (cut \/ (read.data # <<>> /\ Last(read.data) = Escape[1]))
        /\ detector' = seen.detector
        /\ gate' = Pass(gate, seen.prompts)
        /\ parser' = p
        /\ outcome' = IF p.verdict = "complete" /\ running
                      THEN Completed(p.exit, Plain(p.output), p.truncated)
                      ELSE IF p.verdict # "open" \/ ~running THEN Unverified
                      ELSE None
  /\ UNCHANGED <<mode, frame, running, readerVars, client>>

\* The command's deadline: what follows is the session's recovery.
TimesOut ==
  /\ mode = "command" /\ outcome = None
  /\ outcome' = Unverified
  /\ UNCHANGED <<mode, frame, running, readerVars, cursor, parser, detector, gate, lossy, cut, client>>

\* InteractiveTerminalController.read at the client's cursor, after a read at the session's.
RawRead ==
  /\ mode = "raw" /\ outcome = None /\ ~client.told
  /\ cursor' = EndCursor
  /\ LET read == ReadFrom(client.cursor) IN
     IF running
     THEN /\ client' = [cursor |-> read.next, got |-> client.got \o read.data,
                        told |-> client.told \/ read.dropped]
          /\ UNCHANGED outcome
     ELSE outcome' = Unverified /\ UNCHANGED client
  /\ UNCHANGED <<mode, frame, running, readerVars, parser, detector, gate, lossy, cut>>

-----------------------------------------------------------------------------
Init ==
  /\ \/ mode = "command" /\ frame \in Frames
     \/ mode = "raw" /\ frame \in RawFrames
  /\ sent = 0 /\ running = TRUE
  /\ ring = <<>> /\ start = 0 /\ closed = FALSE /\ replies = 0 /\ tail = <<>>
  /\ cursor = 0 /\ parser = NewParser /\ detector = NewDetector
  /\ gate = [typed |-> 0, interrupts |-> 0] /\ outcome = None
  /\ client = [cursor |-> 0, got |-> <<>>, told |-> FALSE]
  /\ lossy = FALSE /\ cut = FALSE

Next ==
  \/ \E k \in 1..MaxChunk : ReadOutput(k)
  \/ ReaderEnds \/ ChildExits
  \/ SessionRead \/ TimesOut \/ RawRead

Spec == Init /\ [][Next]_outVars

-----------------------------------------------------------------------------
TypeOK ==
  /\ mode \in {"command", "raw"} /\ {running, closed, lossy, cut} \subseteq BOOLEAN
  /\ sent \in 0..Len(Text) /\ cursor \in 0..sent /\ client.cursor \in 0..sent
  /\ start + Len(ring) = sent /\ Len(ring) <= MaxBytes
  /\ Len(parser.output) <= MaxBytes
  /\ parser.verdict \in {"open", "invalid", "complete"}
  /\ Len(detector.history) <= HistoryLimit
  /\ gate.typed \in 0..1 /\ gate.interrupts \in 0..1

\* However the stream is cut into chunks and reads, and wherever a marker line or a long
\* line is cut, a result is the one of the whole frame (CommandStream): incremental parsing,
\* the ring buffer and the cursors implement it.
Promised == INSTANCE CommandStream
              WITH MaxBytes <- MaxBytes, None <- None,
                   frame <- frame, sent <- sent, lossy <- lossy, outcome <- outcome
OutputIsWhole == Promised!Spec

\* Raw reads at the client's cursor return the stream without a gap, unless loss was
\* reported, which is never done without loss.
RawReadsAreExact ==
  mode = "raw" =>
    IF client.told THEN start > 0 ELSE client.got = SubSeq(Text, 1, client.cursor)

\* No password is typed that was not asked for; wherever the stream is cut and unless symbols
\* of it are lost, the first prompt is answered and a second one interrupts the command.  An
\* interrupt without a second prompt needs text behind the token on the prompt's own line, which
\* makes the prompt longer and fresh again, or a read that ended within an escape sequence,
\* whose parts then count as such text.
PromptsHandled ==
  LET prompts == {i \in 1..cursor : Text[i] = Token}
      longer == \E i \in prompts : \E j \in i + 1 .. cursor :
                  /\ Text[j] \notin {Escape[1], Escape[2]}
                  /\ \A k \in i..j : Text[k] # NewLine
  IN  mode = "command" =>
        /\ gate.typed = 1 => prompts # {}
        /\ ~lossy => /\ prompts # {} => gate.typed = 1
                     /\ Cardinality(prompts) > 1 => gate.interrupts = 1
                     /\ gate.interrupts = 1 => Cardinality(prompts) > 1 \/ longer \/ cut

\* The reader thread replies no more often than it was asked, and to the first query, without
\* whose answer the child may not even start, also when that arrives in two reads.  A later
\* query that stands alone need not be answered: the replies are counted over the whole
\* stream, the queries only in the tail and the new text.
QueriesAnswered ==
  LET asked == Queries(SubSeq(Text, 1, sent)) IN
  replies <= asked /\ (asked > 0 => replies > 0)


\* docs/session-worker.md: "if the configured limit is exceeded, the newest portion is
\* returned with `truncated = true`".
LimitIsReported ==
  outcome # None /\ outcome # Unverified /\ Len(frame.out) > MaxBytes => outcome.truncated
=============================================================================
