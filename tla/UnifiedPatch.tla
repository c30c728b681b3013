---------------------------- MODULE UnifiedPatch ----------------------------
(***************************************************************************)
(* apply_unified_patch: parsing a unified diff and applying its hunks to a *)
(* text.  A text is a sequence of lines; a line is a pair of its contents  *)
(* and whether it ends with a newline.  A line of a patch is a tuple whose *)
(* first element says what the line starts with:                           *)
(*   <<"header", old_start, old_count, new_count>>                         *)
(*   <<"context", line>>  <<"removed", line>>  <<"added", line>>           *)
(*   <<"no_newline">>                           the no-newline marker      *)
(*   <<"blank">>  <<"diff">>  <<"junk">>        other text                 *)
(* "--- name" and "+++ name" are removed and added lines with FileName:    *)
(* inside a hunk the code takes them for a removed and an added line.      *)
(***************************************************************************)
EXTENDS Integers, SequencesExt

FileName == <<"name", TRUE>>

Failed(code) == [code |-> code]
Marks == {"context", "removed", "added"}

\* The lines of a hunk and of a patch of texts with the given lines.
BodyLines(lines) == (Marks \X lines) \union {<<"no_newline">>}
PatchLines(lines) == ({"header"} \X Nat \X Nat \X Nat) \union BodyLines(lines)
                     \union {<<"blank">>, <<"diff">>, <<"junk">>}

\* Outside a hunk: file names, "diff", "index" and blank lines are passed over.
Skipped(line) ==
  \/ line[1] \in {"blank", "diff"}
  \/ line[1] \in {"removed", "added"} /\ line[2] = FileName

\* One turn of the loops of _parse_hunks.
ParseLine(state, line) ==
  IF state.code # "ok" THEN state
  ELSE IF line[1] = "header"
    THEN [state EXCEPT !.open = TRUE,
            !.hunks = Append(@, [old_start |-> line[2], old_count |-> line[3],
                                 new_count |-> line[4], lines |-> <<>>])]
  ELSE IF state.open /\ line[1] \in Marks \union {"no_newline"}
    THEN [state EXCEPT !.hunks[Len(state.hunks)].lines = Append(@, line)]
  ELSE IF Skipped(line) THEN [state EXCEPT !.open = FALSE]
  ELSE [state EXCEPT !.code = "patch_invalid"]

_parse_hunks(patch) ==
  LET state[i \in 0..Len(patch)] ==
        IF i = 0 THEN [code |-> "ok", open |-> FALSE, hunks |-> <<>>]
        ELSE ParseLine(state[i - 1], patch[i])
      end == state[Len(patch)]
  IN  IF end.code = "ok" /\ end.hunks = <<>> THEN [end EXCEPT !.code = "patch_invalid"] ELSE end

\* The marker takes the newline from the line before it; a marker without one is an error.
WithoutNewline(line) == <<line[1], FALSE>>
NormalizeLine(done, line) ==
  IF done.code # "ok" THEN done
  ELSE IF line[1] # "no_newline" THEN [done EXCEPT !.lines = Append(@, line)]
  ELSE IF done.lines = <<>> THEN [done EXCEPT !.code = "patch_invalid"]
  ELSE [done EXCEPT !.lines[Len(done.lines)] = <<@[1], WithoutNewline(@[2])>>]

_normalize_no_newline_markers(lines) ==
  LET done[i \in 0..Len(lines)] == IF i = 0 THEN [code |-> "ok", lines |-> <<>>]
                                   ELSE NormalizeLine(done[i - 1], lines[i])
  IN  done[Len(lines)]

_require_source_line(source, index, value) == index < Len(source) /\ source[index + 1] = value

\* One line of a hunk; state holds the loop's result, source_index, consumed and produced.
HunkLine(source, state, line) ==
  IF state.code # "ok" THEN state
  ELSE IF line[1] = "added"
    THEN [state EXCEPT !.result = Append(@, line[2]), !.produced = @ + 1]
  ELSE IF ~_require_source_line(source, state.index, line[2])
    THEN [state EXCEPT !.code = "file_conflict"]
  ELSE [state EXCEPT !.index = @ + 1, !.consumed = @ + 1,
          !.result = IF line[1] = "context" THEN Append(@, line[2]) ELSE @,
          !.produced = IF line[1] = "context" THEN @ + 1 ELSE @]

\* A mutant: an insertion starts where a replacement would.
TargetIndex_one_based(hunk) == hunk.old_start - 1

\* Where a hunk starts: the header counts from one, except before an insertion.
TargetIndex(hunk) == IF hunk.old_count > 0 THEN hunk.old_start - 1 ELSE hunk.old_start

\* The lines of a hunk, one after the other.
HunkLines(source, before, lines) ==
  LET state[i \in 0..Len(lines)] == IF i = 0 THEN before ELSE HunkLine(source, state[i - 1], lines[i])
  IN  state[Len(lines)]

\* One hunk; index is the loop's cursor when the hunk begins and when it ends.
Hunk(source, state, hunk) ==
  LET target == TargetIndex(hunk)
      normal == _normalize_no_newline_markers(hunk.lines)
      before == [state EXCEPT !.result = @ \o SubSeq(source, state.index + 1, target),
                   !.index = target, !.consumed = 0, !.produced = 0]
      after  == HunkLines(source, before, normal.lines)
  IN  IF state.code # "ok" THEN state
      ELSE IF target < state.index \/ target > Len(source)
        THEN [state EXCEPT !.code = "file_conflict"]
      ELSE IF normal.code # "ok" THEN [state EXCEPT !.code = normal.code]
      ELSE IF after.code = "ok" /\ (after.consumed # hunk.old_count
                                     \/ after.produced # hunk.new_count)
        THEN [after EXCEPT !.code = "patch_invalid"]
      ELSE after

\* The hunks of a patch, one after the other.
Hunks(source, hunks) ==
  LET state[i \in 0..Len(hunks)] ==
        IF i = 0 THEN [code |-> "ok", result |-> <<>>, index |-> 0, consumed |-> 0, produced |-> 0]
        ELSE Hunk(source, state[i - 1], hunks[i])
  IN  state[Len(hunks)]

\* The code of the error raised, or "ok" and the patched text.
apply_unified_patch(source, patch) ==
  LET parsed == _parse_hunks(patch)
      end    == Hunks(source, parsed.hunks)
  IN  IF parsed.code # "ok" THEN Failed(parsed.code)
      ELSE IF end.code # "ok" THEN Failed(end.code)
      ELSE [code |-> "ok", text |-> end.result \o SubSeq(source, end.index + 1, Len(source))]

-----------------------------------------------------------------------------
(* Reference: what a unified diff means.  A hunk says that the lines Old   *)
(* stand at a place of the source and become the lines New; the hunks come *)
(* in order and do not overlap.                                            *)

Side(hunk, mark) ==
  LET lines == _normalize_no_newline_markers(hunk.lines).lines
      side[i \in 0..Len(lines)] ==
        IF i = 0 THEN <<>>
        ELSE IF lines[i][1] \in {"context", mark} THEN Append(side[i - 1], lines[i][2])
        ELSE side[i - 1]
  IN  side[Len(lines)]

\* The number of source lines before a hunk.
Before(hunk) == IF Side(hunk, "removed") = <<>> THEN hunk.old_start ELSE hunk.old_start - 1

\* The number of source lines up to the end of the i-th hunk.
Behind(hunks, i) == IF i = 0 THEN 0 ELSE Before(hunks[i]) + Len(Side(hunks[i], "removed"))

WellFormed(hunk) ==
  /\ hunk.lines # <<>> => hunk.lines[1][1] # "no_newline"
  /\ Len(Side(hunk, "removed")) = hunk.old_count
  /\ Len(Side(hunk, "added")) = hunk.new_count

Fits(source, hunk) ==
  /\ Before(hunk) \in 0..Len(source)
  /\ Before(hunk) + Len(Side(hunk, "removed")) <= Len(source)
  /\ SubSeq(source, Before(hunk) + 1, Before(hunk) + Len(Side(hunk, "removed"))) = Side(hunk, "removed")

InOrder(hunks) ==
  \A i, j \in DOMAIN hunks : i < j => Behind(hunks, i) <= Before(hunks[j])

\* The source with every hunk's old lines replaced, put together from its pieces.
Replaced(source, hunks) ==
  LET text[i \in 0..Len(hunks)] ==
        IF i = 0 THEN <<>>
        ELSE text[i - 1] \o SubSeq(source, Behind(hunks, i - 1) + 1, Before(hunks[i]))
             \o Side(hunks[i], "added")
  IN  text[Len(hunks)] \o SubSeq(source, Behind(hunks, Len(hunks)) + 1, Len(source))

\* The patch applies exactly when its hunks fit, and then replaces their lines and no others.
MeansItsHunks(source, patch) ==
  LET hunks == _parse_hunks(patch).hunks
      fits  == /\ _parse_hunks(patch).code = "ok"
               /\ \A i \in DOMAIN hunks : WellFormed(hunks[i]) /\ Fits(source, hunks[i])
               /\ InOrder(hunks)
      done  == apply_unified_patch(source, patch)
  IN  /\ (done.code = "ok") <=> fits
      /\ fits => done.text = Replaced(source, hunks)
=============================================================================
