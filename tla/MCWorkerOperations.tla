------------------------- MODULE MCWorkerOperations -------------------------
(* The two services of a held session that run helpers of their own: one   *)
(* structured file request, or a sequence of guided elevation requests.    *)
EXTENDS RemoteFiles, Elevation, TLC
CONSTANTS a, b, c, r, o

X == <<"x", TRUE>>
Y == <<"y", TRUE>>
MCEntries == {None, File(<<X, Y>>, TRUE), File(<<X, Y, X>>, TRUE), File(<<X, Y>>, FALSE),
              Dir("nothing"), Dir("foreign"), Link(a), Link(b), Link(o)}

Simple == << <<"header", 1, 1, 1>>, <<"removed", X>>, <<"added", Y>> >>
Body == {<<m, v>> : m \in Marks, v \in {X, Y}} \union {<<"no_newline">>}
Count(body, m) == Len(SelectSeq(body, LAMBDA l : l[1] \in {"context", m}))
H(body, s, d) == << <<"header", s, Count(body, "removed") + d, Count(body, "added")>> >> \o body
OneHunk == {H(body, s, d) : body \in BoundedSeq(Body, 2), s \in 0..2, d \in 0..1}
\* Two hunks, in order, touching, overlapping or reversed, with file names or other lines around.
TwoHunks == {H(<< <<"removed", v>> >>, i, 0) \o between \o H(body, j, 0) :
               v \in {X, Y}, i, j \in 0..2,
               between \in {<<>>, << <<"diff">>, <<"removed", FileName>> >>, << <<"junk">> >>},
               body \in {<< <<"added", X>> >>, << <<"removed", Y>>, <<"added", X>> >>}}
MCPatches == {Simple} \union OneHunk \union TwoHunks
MCRaced == {Simple}

NoElevation == /\ mode = "disabled" /\ usable = FALSE /\ ticket = FALSE /\ nopasswd = FALSE /\ epc = "idle"
               /\ action = Absent /\ reply = Absent /\ count = 0
               /\ ran = 0 /\ typed = 0 /\ granted = FALSE
NoFiles == /\ op = Request("stat", Here) /\ foreign = 0 /\ fpc = "ended"
           /\ fs = [n \in Paths |-> None]
           /\ temp = None /\ trapped = FALSE /\ local = Blank /\ answer = None
           /\ did = None /\ moved = "no"

Init == (InitFiles /\ NoElevation) \/ (NoFiles /\ InitElevation)
Next == \/ FilesNext /\ UNCHANGED elevationVars
        \/ ElevationNext /\ UNCHANGED fileVars
Spec == Init /\ [][Next]_<<fileVars, elevationVars>>
Symmetry == Permutations({a, b})

\* The types of both services; a listing never has more rows than its limit, and a reply is
\* one its action can give.
OperationsTypeOK == FilesTypeOK /\ ElevationTypeOK
=============================================================================
