----------------------------- MODULE RemoteFiles -----------------------------
(***************************************************************************)
(* Structured remote files: RemoteFileService of the worker, the Bash      *)
(* helpers FileShellBuilder sends over the held SSH session, and the       *)
(* remote directory they work on, which other processes change too.        *)
(*                                                                         *)
(* One request is carried out.  A step of a helper ends where a value it   *)
(* read is kept for later use, or where it changes the directory; tests    *)
(* that keep nothing are part of the step that follows them.  The hash of  *)
(* a text is the text: sha256sum has no collisions, and the pipe to awk    *)
(* turns its failure into an empty hash (None), never into hash_failed.    *)
(***************************************************************************)
EXTENDS UnifiedPatch, FiniteSets

CONSTANTS
  Names,       \* entry names in the directory that is the allowed root
  Here,        \* that directory itself
  Outside,     \* a file outside every allowed root
  Roots,       \* the directories among Names that are allowed roots too
  Entries,     \* what may stand under a name: at first, and after others changed it
  Words,       \* what the lines of texts and patches may say
  Patches,     \* the patches a client sends
  Raced,       \* bound: the patches under which others also change the directory
  ByteLimit,   \* the size limit of a read, in lines
  RowLimit,    \* max_results
  MaxForeign,  \* bound: the changes other processes make
  None         \* no entry, no hash, no text, no answer

Paths == Names \union {Here, Outside}

ASSUME NamesAssumption ==
  {Here, Outside} \intersect Names = {} /\ Roots \subseteq Names /\ None \notin Paths
ASSUME FileBounds ==
  ByteLimit \in Nat /\ RowLimit \in Nat /\ MaxForeign \in Nat /\ Raced \subseteq Patches

VARIABLES
  fs,       \* the entry under each name
  temp,     \* the text of the temporary file, None when there is none
  trapped,  \* the helper's EXIT trap removes the temporary file
  op,       \* the request
  fpc,      \* where the service or its helper stands
  local,    \* what the helper or the service keeps
  answer,   \* what the service returned or raised
  foreign,  \* changes other processes may still make
  did,      \* ghost: what the helper did to the directory
  moved     \* ghost: others changed the directory: not at all, before the last test, after it

fileVars == <<fs, temp, trapped, op, fpc, local, answer, foreign, did, moved>>

-----------------------------------------------------------------------------
File(text, mine) == [kind |-> "file", text |-> text, mine |-> mine]
Dir(inside) == [kind |-> "dir", inside |-> inside, mine |-> TRUE]
Link(to) == [kind |-> "link", to |-> to, mine |-> TRUE]

\* What a directory holds under a name; None is no entry.
IsEntry(e) ==
  \/ e = None
  \/ e.kind = "file" /\ e = File(e.text, e.mine)
  \/ e.kind = "dir" /\ e = Dir(e.inside)
  \/ e.kind = "link" /\ e = Link(e.to) /\ e.to \in Paths

\* What a directory below a root holds, and whose it is.
Insides == {"nothing", "mine", "foreign"}

ASSUME EntriesAssumption == \A e \in Entries : IsEntry(e)
ASSUME DirectoriesAssumption ==
  /\ IsFiniteSet(Names)
  /\ \A e \in Entries : e # None /\ e.kind = "dir" => e.inside \in Insides

Content == << <<"new", TRUE>> >>             \* the text of a write_text request
Query   == <<"x", TRUE>>                     \* the line a search_text request matches
Partial == << <<"partial", FALSE>> >>        \* any proper prefix of a transferred text

Lines == Words \X BOOLEAN                    \* the word, and whether a newline ends the line
IsKind(n, kind) == fs[n] # None /\ fs[n].kind = kind   \* the entry itself, as stat and find see it
TextsIn == {e.text : e \in {e \in Entries : e # None /\ e.kind = "file"}}
TextOf(e) == IF e # None /\ e.kind = "file" THEN e.text ELSE None
\* Texts and patches are made of lines.
ASSUME LinesAssumption ==
  TextsIn \subseteq Seq(Lines) /\ \A p \in Patches : p \in Seq(PatchLines(Lines))
ASSUME WordsAssumption == {"new", "partial"} \subseteq Words
Shortened(text) == IF Len(text) > ByteLimit THEN SubSeq(text, 1, ByteLimit) ELSE text

\* The texts somebody meant to be in a file: those others put there, the text of a write,
\* and what a patch makes of a text that was read.
FoundTexts == TextsIn \union {<<>>}
Patched == {done \in {apply_unified_patch(Shortened(t), p) : t \in FoundTexts, p \in Patches} :
              done.code = "ok"}
MeantTexts == FoundTexts \union {Content} \union {done.text : done \in Patched}

\* Partial stands for a text that nobody meant.
ASSUME TextsAssumption == None # Partial /\ {None, Partial} \intersect MeantTexts = {}

ReadActions == {"list", "stat", "hash", "read_text", "search_text"}
EditActions == {"write_text", "apply_patch", "mkdir", "rename", "remove"}

\* realpath: a link, or a link to a link, is followed; a missing last component is no error;
\* None is a loop.
Follow(n) == IF IsKind(n, "link") THEN fs[n].to ELSE n
realpath(n) ==
  LET last == Follow(Follow(n)) IN IF IsKind(last, "link") THEN None ELSE last

\* What test -f, test -d and the programs that read a file find under a name: they follow
\* links too, so a name that was resolved may have become a link since.
Followed(n) == IF realpath(n) = None THEN None ELSE fs[realpath(n)]
IsA(n, kind) == Followed(n) # None /\ Followed(n).kind = kind
Hash(n) == TextOf(Followed(n))

\* _serverops_allowed: a root, freshly resolved, or an entry of one.
Allowed(n) == n \in Names \union {Here} \/ \E r \in Roots : realpath(r) = n
IsRoot(n) == n = Here \/ \E r \in Roots : realpath(r) = n
ParentAllowed(n) == n \in Names
OwnedTree(n) == fs[n].mine /\ (fs[n].kind = "dir" => fs[n].inside # "foreign")

\* A service call: the request, and whether profile, session and fields admit it.
Request(name, path) ==
  [action |-> name, path |-> path, dest |-> path, patch |-> None, expected |-> None,
   range |-> None, recursive |-> FALSE, admitted |-> TRUE]

Blank == [existing |-> FALSE, target |-> None, before |-> None, sha |-> None, size |-> 0,
          text |-> None, names |-> {}, write |-> None]

Done(status) == [code |-> "ok", status |-> status]
Raised(code) == [code |-> code]

Keep(step, l) == fpc' = step /\ local' = l
Goto(step) == Keep(step, local)
ScriptVars == <<temp, trapped>>
Untouched == <<fs, did>>
Env == <<op, foreign, moved>>

\* The service answers; a client that lost the connection was answered before.
Answered(a) == answer' = IF answer = None THEN a ELSE answer

\* The helper's exit: the trap, if set, removes the temporary file.
Exit == /\ fpc' = "ended" /\ trapped' = FALSE
        /\ temp' = IF trapped THEN None ELSE temp
        /\ UNCHANGED local

\* _serverops_error: the rows of an error between the markers, then exit.
_serverops_error(code) == Exit /\ Answered(Raised(code))

\* _serverops_finish, parse_file_response and the result: output that other programs of the
\* terminal mixed in, or a response over the output limit, makes it a protocol error.
_serverops_finish(result) ==
  Exit /\ (Answered(result) \/ Answered(Raised("file_protocol_error")))

Refuse(code) == fpc' = "ended" /\ Answered(Raised(code)) /\ UNCHANGED <<local, ScriptVars>>

-----------------------------------------------------------------------------
(* WorkerSessionService.files and RemoteFileService.read, edit.            *)

\* Root sessions, disabled capabilities and malformed fields are refused before anything runs.
Begin ==
  /\ fpc = "request"
  /\ IF ~op.admitted THEN Refuse("refused")
     ELSE /\ UNCHANGED <<answer, ScriptVars>>
          /\ Goto(CASE op.action \in ReadActions \union {"apply_patch"} -> "resolve"
                    [] op.action = "write_text" -> "exists"
                    [] op.action = "mkdir" -> "new_entry"
                    [] OTHER -> "reference")
  /\ UNCHANGED <<Untouched, Env>>

\* _existing: the path is resolved and must be allowed.
Resolve ==
  /\ fpc = "resolve"
  /\ LET n == realpath(op.path) IN
     IF n = None THEN _serverops_error("path_not_found")
     ELSE IF ~Allowed(n) THEN _serverops_error("path_outside_roots")
     ELSE /\ UNCHANGED <<answer, ScriptVars>>
          /\ Keep(IF op.action = "apply_patch" THEN "read_text" ELSE op.action,
                  [local EXCEPT !.target = n])
  /\ UNCHANGED <<Untouched, Env>>

\* What find lists below n: it does not follow n itself.
Children(n) == CASE n = Here -> {m \in Names : fs[m] # None}
                 [] IsKind(n, "dir") -> {fs[n].inside} \ {"nothing"}
                 [] OTHER -> {}

\* The type of entry n whose target is m.
TypeOf(n, m) == CASE IsKind(n, "link") -> "symlink"
                  [] IsA(m, "dir") -> "directory"
                  [] IsA(m, "file") -> "file"
                  [] OTHER -> "other"

\* list: find names the children once; each is looked at later.
ListNames ==
  /\ fpc = "list"
  /\ IF ~IsA(local.target, "dir") THEN _serverops_error("not_a_directory")
     ELSE /\ Keep("rows", [local EXCEPT !.names = Children(local.target)])
          /\ UNCHANGED <<answer, ScriptVars>>
  /\ UNCHANGED <<Untouched, Env>>

\* search_text: the regular files below the path.
SearchFiles ==
  /\ fpc = "search_text"
  /\ Keep("rows", [local EXCEPT !.names =
                     {n \in Names : n = local.target \/ local.target = Here} \intersect
                     {n \in Names : IsKind(n, "file")}])
  /\ UNCHANGED <<answer, ScriptVars, Untouched, Env>>

\* The rows there are; a file that was found is searched where it now resolves to.
Searched == {n \in local.names : Hash(n) # None /\ Allowed(realpath(n))}
Found == IF op.action = "list"
         THEN {<<n, IF n \in Names THEN TypeOf(n, n) ELSE "file">> : n \in local.names}
         ELSE UNION {{<<n, i>> : i \in {i \in DOMAIN Hash(n) : Hash(n)[i] = Query}} :
                     n \in Searched}

\* A mutant: one row more than max_results.
Rows_one_more ==
  /\ fpc = "rows"
  /\ \E rows \in SUBSET Found :
       /\ Cardinality(rows) <= RowLimit + 1
       /\ _serverops_finish([code |-> "ok", status |-> "completed", rows |-> rows,
                             truncated |-> Cardinality(Found) > RowLimit])
  /\ UNCHANGED <<Untouched, Env>>

\* The rows of list and search_text, up to the limit; more than that is truncated.
Rows ==
  /\ fpc = "rows"
  /\ \E rows \in SUBSET Found :
       /\ Cardinality(rows) = IF Cardinality(Found) > RowLimit THEN RowLimit ELSE Cardinality(Found)
       /\ _serverops_finish([code |-> "ok", status |-> "completed", rows |-> rows,
                             truncated |-> Cardinality(Found) > RowLimit])
  /\ UNCHANGED <<Untouched, Env>>

\* stat: the type of the path itself; size, time and mode of what it resolved to.
Stat ==
  /\ fpc = "stat"
  /\ IF fs[local.target] = None THEN _serverops_error("stat_failed")
     ELSE _serverops_finish([code |-> "ok", status |-> "completed",
                             type |-> TypeOf(op.path, local.target)])
  /\ UNCHANGED <<Untouched, Env>>

\* hash and read_text: a regular file, and its hash.
HashFile ==
  /\ fpc \in {"hash", "read_text"}
  /\ IF ~IsA(local.target, "file") THEN _serverops_error("not_a_file")
     ELSE IF fpc = "hash"
       THEN _serverops_finish([code |-> "ok", status |-> "completed", sha |-> Hash(local.target)])
     ELSE /\ Keep("size", [local EXCEPT !.sha = Hash(local.target)])
          /\ UNCHANGED <<answer, ScriptVars>>
  /\ UNCHANGED <<Untouched, Env>>

\* The whole text, or the lines start_line to end_line.
Selected(text) ==
  IF op.range = None THEN text
  ELSE SubSeq(text, op.range[1], IF op.range[2] > Len(text) THEN Len(text) ELSE op.range[2])

\* The size of the selection.  wc of a file that is gone fails, sed in a pipe does not.
MeasureText ==
  /\ fpc = "size"
  /\ LET text == Hash(local.target) IN
     IF text = None /\ op.range = None THEN _serverops_error("read_failed")
     ELSE /\ Keep("content", [local EXCEPT !.size = IF text = None THEN 0 ELSE Len(Selected(text))])
          /\ UNCHANGED <<answer, ScriptVars>>
  /\ UNCHANGED <<Untouched, Env>>

\* head -c and the end of read_text.  A file that is gone by now reads as an empty text.
\* The service refuses control characters and invalid UTF-8.
ReadContent ==
  /\ fpc = "content"
  /\ LET hash == Hash(local.target)
         text == IF hash = None THEN <<>> ELSE Shortened(Selected(hash))
     IN \/ IF op.action = "apply_patch" /\ answer = None
           THEN /\ Keep("patch", [local EXCEPT !.text = text])
                /\ UNCHANGED <<answer, ScriptVars>>
           ELSE _serverops_finish([code |-> "ok", status |-> "completed", sha |-> local.sha,
                                   text |-> text, truncated |-> local.size > ByteLimit])
        \/ Refuse("binary_file") \/ Refuse("invalid_utf8")
        \/ Refuse("file_protocol_error")
  /\ UNCHANGED <<Untouched, Env>>

\* A mutant: the write that follows expects what the client expected.
Patch_client_hash ==
  /\ fpc = "patch"
  /\ LET done == apply_unified_patch(local.text, op.patch) IN
     IF local.size > ByteLimit THEN Refuse("file_too_large")
     ELSE IF op.expected # None /\ op.expected # local.sha THEN Refuse("file_conflict")
     ELSE IF done.code # "ok" THEN Refuse(done.code)
     ELSE \/ /\ Keep("exists", [local EXCEPT !.sha = op.expected, !.write = done.text])
             /\ UNCHANGED <<answer, ScriptVars>>
          \/ Refuse("invalid_request")
  /\ UNCHANGED <<Untouched, Env>>

\* _apply_patch: the text read is patched, and written under the hash that was read with it.
\* The session may be lost, or the patched text too long, before the write begins.
Patch ==
  /\ fpc = "patch"
  /\ LET done == apply_unified_patch(local.text, op.patch) IN
     IF local.size > ByteLimit THEN Refuse("file_too_large")
     ELSE IF op.expected # None /\ op.expected # local.sha THEN Refuse("file_conflict")
     ELSE IF done.code # "ok" THEN Refuse(done.code)
     ELSE \/ /\ Keep("exists", [local EXCEPT !.write = done.text])
             /\ UNCHANGED <<answer, ScriptVars>>
          \/ Refuse("invalid_request")
  /\ UNCHANGED <<Untouched, Env>>

-----------------------------------------------------------------------------
(* write_text, and the write of apply_patch.                               *)

NewText == IF op.action = "apply_patch" THEN local.write ELSE Content
Expected == IF op.action = "apply_patch" THEN local.sha ELSE op.expected

\* The path is there (a dangling link counts) or its parent has to be allowed.
TestExists ==
  /\ fpc = "exists"
  /\ IF fs[op.path] # None
     THEN Keep("inspect", [local EXCEPT !.existing = TRUE]) /\ UNCHANGED <<answer, ScriptVars>>
     ELSE IF Expected # None THEN _serverops_error("file_conflict")
     ELSE IF ~ParentAllowed(op.path) THEN _serverops_error("path_outside_roots")
     ELSE /\ Keep("mktemp", [local EXCEPT !.existing = FALSE, !.target = op.path])
          /\ UNCHANGED <<answer, ScriptVars>>
  /\ UNCHANGED <<Untouched, Env>>

InspectTarget ==
  /\ fpc = "inspect"
  /\ LET n == realpath(op.path) IN
     IF n = None THEN _serverops_error("path_not_found")
     ELSE IF ~Allowed(n) THEN _serverops_error("path_outside_roots")
     ELSE IF ~IsA(n, "file") THEN _serverops_error("not_a_file")
     ELSE \/ /\ Keep("before", [local EXCEPT !.target = n])
             /\ UNCHANGED <<answer, ScriptVars>>
          \/ _serverops_error("permission_denied")
  /\ UNCHANGED <<Untouched, Env>>

HashBefore ==
  /\ fpc = "before"
  /\ LET hash == Hash(local.target) IN
     IF Expected # None /\ hash # Expected THEN _serverops_error("file_conflict")
     ELSE Keep("owner", [local EXCEPT !.before = hash]) /\ UNCHANGED <<answer, ScriptVars>>
  /\ UNCHANGED <<Untouched, Env>>

TestOwner ==
  /\ fpc = "owner"
  /\ IF fs[local.target] = None THEN _serverops_error("stat_failed")
     ELSE IF ~fs[local.target].mine THEN _serverops_error("ownership_unsupported")
     ELSE Goto("mktemp") /\ UNCHANGED <<answer, ScriptVars>>
  /\ UNCHANGED <<Untouched, Env>>

MakeTemp ==
  /\ fpc = "mktemp"
  /\ \/ /\ Goto("trap") /\ temp' = <<>>
        /\ UNCHANGED <<answer, trapped>>
     \/ \E code \in {"permission_denied", "temporary_file_failed"} : _serverops_error(code)
  /\ UNCHANGED <<Untouched, Env>>

\* A mutant: the trap is set when the transfer is done.
SetTrap_late ==
  /\ fpc = "trap"
  /\ Goto("transfer")
  /\ UNCHANGED <<trapped, temp, answer, Untouched, Env>>

SetTrap ==
  /\ fpc = "trap"
  /\ Goto("transfer") /\ trapped' = TRUE
  /\ UNCHANGED <<temp, answer, Untouched, Env>>

\* base64 -d into the temporary file: all of it, a part of it, or an error after a part.
Transfer ==
  /\ fpc = "transfer"
  /\ \/ /\ Goto("verify") /\ temp' \in {NewText, Partial}
        /\ UNCHANGED <<answer, trapped>>
     \/ _serverops_error("transfer_failed")
  /\ UNCHANGED <<Untouched, Env>>

\* The temporary file's hash; then mode and group of the target are copied.
VerifyTemp ==
  /\ fpc = "verify"
  /\ IF temp # NewText THEN _serverops_error("transfer_failed")
     ELSE \/ /\ Goto(IF local.existing THEN "target" ELSE "absent")
             /\ UNCHANGED <<answer, ScriptVars>>
          \/ local.existing /\ _serverops_error("metadata_failed")
  /\ UNCHANGED <<Untouched, Env>>

\* The last tests of the path: it still leads to the same target, or there is still no entry.
RecheckTarget ==
  /\ fpc \in {"target", "absent"}
  /\ IF fpc = "target" /\ realpath(op.path) # local.target THEN _serverops_error("file_conflict")
     ELSE IF fpc = "absent" /\ fs[local.target] # None THEN _serverops_error("file_conflict")
     ELSE /\ Goto(IF fpc = "target" THEN "rehash" ELSE "move")
          /\ UNCHANGED <<answer, ScriptVars>>
  /\ UNCHANGED <<Untouched, Env>>

\* A mutant: the hash is not compared again.
RehashTarget_path_only ==
  /\ fpc = "rehash"
  /\ Goto("move") /\ UNCHANGED <<answer, ScriptVars>>
  /\ UNCHANGED <<Untouched, Env>>

\* The last test of an existing target: the hash it had before.
RehashTarget ==
  /\ fpc = "rehash"
  /\ IF Hash(local.target) # local.before THEN _serverops_error("file_conflict")
     ELSE Goto("move") /\ UNCHANGED <<answer, ScriptVars>>
  /\ UNCHANGED <<Untouched, Env>>

\* mv of entry e: a directory in the way, or a link to one, receives it; anything else that
\* stands under n is replaced.
Into(n) == IsA(n, "dir")
Mv(f, e, n) ==
  IF Into(n) THEN [f EXCEPT ![realpath(n)] = Dir(IF @.inside = "nothing" THEN "mine" ELSE @.inside)]
  ELSE [f EXCEPT ![n] = e]
Did(n, e) == [name |-> n, displaced |-> fs[n], placed |-> e]

\* mv -f of the temporary file.
MoveTemp ==
  /\ fpc = "move"
  /\ LET e == File(temp, TRUE) IN
     \/ /\ fs' = Mv(fs, e, local.target) /\ did' = Did(local.target, e)
        /\ temp' = None /\ Goto("after")
        /\ UNCHANGED <<answer, trapped>>
     \/ _serverops_error("replace_failed") /\ UNCHANGED Untouched
  /\ UNCHANGED Env

\* The trap is taken back, and the hash of the target decides what is reported.
VerifyTarget ==
  /\ fpc = "after"
  /\ IF Hash(local.target) # NewText THEN _serverops_error("replace_failed")
     ELSE _serverops_finish(Done(IF local.existing THEN "updated" ELSE "created"))
  /\ UNCHANGED <<Untouched, Env>>

-----------------------------------------------------------------------------
(* mkdir, rename, remove.                                                  *)

\* _new_entry of the path, or of a rename's destination.
NewName == IF op.action = "rename" THEN op.dest ELSE op.path
NewEntry ==
  /\ fpc = "new_entry"
  /\ IF ~ParentAllowed(NewName) THEN _serverops_error("path_outside_roots")
     ELSE IF fs[NewName] # None THEN _serverops_error("destination_exists")
     ELSE \/ Goto(op.action) /\ UNCHANGED <<answer, ScriptVars>>
          \/ _serverops_error("permission_denied")
  /\ UNCHANGED <<Untouched, Env>>

\* mkdir fails when anything is there.
MakeDirectory ==
  /\ fpc = "mkdir"
  /\ \/ /\ fs[op.path] = None
        /\ fs' = [fs EXCEPT ![op.path] = Dir("nothing")]
        /\ did' = Did(op.path, Dir("nothing"))
        /\ Goto("made") /\ UNCHANGED <<answer, ScriptVars>>
     \/ _serverops_error("mkdir_failed") /\ UNCHANGED Untouched
  /\ UNCHANGED Env

MadeDirectory ==
  /\ fpc = "made"
  /\ LET n == realpath(op.path) IN
     IF n = None THEN _serverops_error("mkdir_failed")
     ELSE IF ~Allowed(n) THEN _serverops_error("path_outside_roots")
     ELSE _serverops_finish(Done("created"))
  /\ UNCHANGED <<Untouched, Env>>

\* _entry_reference: parent and target allowed, the entry itself owned; roots are protected.
\* A rename looks for foreign owners below the entry now, a removal before it removes.
ReferenceEntry ==
  /\ fpc = "reference"
  /\ LET n == realpath(op.path) IN
     IF n = None THEN _serverops_error("path_not_found")
     ELSE IF ~ParentAllowed(op.path) \/ ~Allowed(n) THEN _serverops_error("path_outside_roots")
     ELSE IF fs[op.path] = None THEN _serverops_error("stat_failed")
     ELSE IF ~fs[op.path].mine THEN _serverops_error("ownership_unsupported")
     ELSE IF IsRoot(n) THEN _serverops_error("protected_root")
     ELSE IF op.action = "rename" /\ ~OwnedTree(op.path)
       THEN _serverops_error("ownership_unsupported")
     ELSE /\ Keep(IF op.action = "rename" THEN "new_entry"
                  ELSE IF op.expected # None THEN "expected" ELSE "remove",
                  [local EXCEPT !.target = n])
          /\ UNCHANGED <<answer, ScriptVars>>
  /\ UNCHANGED <<Untouched, Env>>

\* remove with expected_sha256: a regular file with that hash.
ExpectedHash ==
  /\ fpc = "expected"
  /\ IF ~IsA(local.target, "file") \/ Hash(local.target) # op.expected
     THEN _serverops_error("file_conflict")
     ELSE Goto("remove") /\ UNCHANGED <<answer, ScriptVars>>
  /\ UNCHANGED <<Untouched, Env>>

\* The entry still resolves to the same name; rm -rf wants a tree without foreign owners.
RecheckEntry ==
  /\ fpc \in {"rename", "remove"}
  /\ IF realpath(op.path) # local.target THEN _serverops_error("file_conflict")
     ELSE IF op.recursive /\ (fs[op.path] = None \/ ~OwnedTree(op.path))
       THEN _serverops_error("ownership_unsupported")
     ELSE Goto(IF fpc = "rename" THEN "mv" ELSE "rm") /\ UNCHANGED <<answer, ScriptVars>>
  /\ UNCHANGED <<Untouched, Env>>

LeadsTo(n, m) == IsKind(n, "link") /\ m \in {fs[n].to, Follow(fs[n].to)}

\* mv, which replaces what appeared under the destination, but no file by a directory and
\* no directory by itself.  A link that led to its own destination no longer resolves.
Rename ==
  /\ fpc = "mv"
  /\ \/ /\ fs[op.path] # None
        /\ fs[op.path].kind = "dir" => Into(op.dest) \/ fs[op.dest] = None
        /\ Into(op.dest) => realpath(op.dest) # op.path
        /\ fs' = [Mv(fs, fs[op.path], op.dest) EXCEPT ![op.path] = None]
        /\ did' = Did(op.dest, fs[op.path])
        /\ IF ~Into(op.dest) /\ LeadsTo(op.path, op.dest)
           THEN _serverops_error("rename_failed")
           ELSE _serverops_finish(Done("renamed"))
     \/ _serverops_error("rename_failed") /\ UNCHANGED Untouched
  /\ UNCHANGED Env

\* rm, rmdir or rm -rf of the entry itself.  rm -rf of a missing entry succeeds, and one
\* that fails may have removed a part of the tree.
RemoveEntry ==
  /\ fpc = "rm"
  /\ LET rmdir == IsKind(op.path, "dir") /\ ~op.recursive IN
     \/ /\ fs[op.path] # None \/ op.recursive
        /\ rmdir => fs[op.path].inside = "nothing"
        /\ fs' = [fs EXCEPT ![op.path] = None] /\ did' = Did(op.path, None)
        /\ _serverops_finish(Done("removed"))
     \/ /\ _serverops_error(IF rmdir THEN "directory_not_empty" ELSE "remove_failed")
        /\ UNCHANGED Untouched
     \/ /\ IsKind(op.path, "dir") /\ op.recursive
        /\ fs' = [fs EXCEPT ![op.path] = Dir("mine")] /\ did' = Did(op.path, fs[op.path])
        /\ _serverops_error("remove_failed")
  /\ UNCHANGED Env

-----------------------------------------------------------------------------
(* What happens to a helper from outside.                                  *)

HelperRuns == fpc \notin {"request", "patch", "ended"}

\* execute times out, interrupts the helper and sees the shell's prompt again.
HelperTimesOut == HelperRuns /\ answer = None /\ _serverops_error("command_timed_out")
                  /\ UNCHANGED <<Untouched, Env>>

\* Another process kills the helper: the shell reports its exit status.
HelperKilled ==
  /\ HelperRuns /\ answer = None
  /\ fpc' = "ended" /\ trapped' = FALSE /\ temp' \in {temp, IF trapped THEN None ELSE temp}
  /\ Answered(Raised("file_command_failed"))
  /\ UNCHANGED <<local, Untouched, Env>>

\* The SSH connection ends: the client is told so while the helper may still run.
ConnectionLost ==
  /\ HelperRuns /\ answer = None
  /\ Answered(Raised("outcome_unknown"))
  /\ UNCHANGED <<fpc, local, ScriptVars, Untouched, Env>>

\* The hangup reaches the orphaned helper, whose trap runs unless the machine is gone.
Hangup ==
  /\ HelperRuns /\ answer = Raised("outcome_unknown")
  /\ fpc' = "ended" /\ trapped' = FALSE /\ temp' \in {temp, IF trapped THEN None ELSE temp}
  /\ UNCHANGED <<local, answer, Untouched, Env>>

\* The tests after which a change by others goes unnoticed.  sha256sum follows links, so a
\* link to the same text, put in place once the path was tested, goes unnoticed too.
WindowPc == {"move", "mv", "rm", "remove"}
Unnoticed(n, e) ==
  \/ fpc \in WindowPc
  \/ fpc = "rehash" /\ n = local.target /\ e # None /\ e.kind = "link"

\* Another process changes an entry.
ForeignChange(n, e) ==
  /\ fpc # "ended" /\ foreign > 0 /\ fs[n] # e
  /\ fs' = [fs EXCEPT ![n] = e]
  /\ foreign' = foreign - 1
  /\ moved' = IF moved = "late" \/ Unnoticed(n, e) THEN "late" ELSE "early"
  /\ UNCHANGED <<temp, trapped, op, fpc, local, answer, did>>

-----------------------------------------------------------------------------
Hashes == TextsIn \union {None}
ReadLines(n) == [Request("read_text", n) EXCEPT !.range = <<2, 3>>]
Write(n, h) == [Request("write_text", n) EXCEPT !.expected = h]
RenameTo(n, m) == [Request("rename", n) EXCEPT !.dest = m]
Removal(n, h, b) == [Request("remove", n) EXCEPT !.expected = h, !.recursive = b]
PatchUnder(n, p, h) == [Request("apply_patch", n) EXCEPT !.patch = p, !.expected = h]
NotAdmitted(n) == [Request("remove", n) EXCEPT !.admitted = FALSE]
Requests ==
  {Request(a, n) : a \in ReadActions \union {"mkdir"}, n \in Paths}
  \union {ReadLines(n) : n \in Names} \union {NotAdmitted(n) : n \in Names}
  \union {Write(n, h) : n \in Paths, h \in Hashes}
  \union {RenameTo(n, m) : n \in Names, m \in Paths}
  \union {Removal(n, h, b) : n \in Paths, h \in Hashes, b \in BOOLEAN}
  \union {PatchUnder(n, p, None) : n \in Names, p \in Patches}
  \union {PatchUnder(n, p, h) : n \in Names, p \in Raced, h \in Hashes}

\* A patch no one else interferes with meets a directory that holds one file.
Undisturbed == op.action = "apply_patch" /\ op.patch \notin Raced

InitFiles ==
  /\ op \in Requests
  /\ \E found \in [Names \ Roots -> Entries] :
       /\ Undisturbed => \A n \in Names \ Roots : (found[n] = None <=> n # op.path)
       /\ fs = [n \in Paths |-> CASE n = Here -> Dir("mine")
                                 [] n = Outside -> File(<<>>, FALSE)
                                 [] n \in Roots -> Dir("nothing")
                                 [] OTHER -> found[n]]
  /\ foreign = IF Undisturbed THEN 0 ELSE MaxForeign
  /\ temp = None /\ trapped = FALSE
  /\ fpc = "request" /\ local = Blank /\ answer = None
  /\ did = None /\ moved = "no"

Helper ==
  \/ Resolve \/ ListNames \/ SearchFiles \/ Rows \/ Stat \/ HashFile \/ MeasureText \/ ReadContent
  \/ TestExists \/ InspectTarget \/ HashBefore \/ TestOwner \/ MakeTemp \/ SetTrap \/ Transfer
  \/ VerifyTemp \/ RecheckTarget \/ RehashTarget \/ MoveTemp \/ VerifyTarget
  \/ NewEntry \/ MakeDirectory \/ MadeDirectory
  \/ ReferenceEntry \/ ExpectedHash \/ RecheckEntry \/ Rename \/ RemoveEntry

FilesNext ==
  \/ Begin \/ Patch \/ Helper
  \/ HelperTimesOut \/ HelperKilled \/ ConnectionLost \/ Hangup
  \/ \E n \in Names \ Roots, e \in Entries : ForeignChange(n, e)

FilesSpec == InitFiles /\ [][FilesNext]_fileVars

-----------------------------------------------------------------------------
Text == Seq(Lines)
Code == {"ok", "refused", "invalid_request", "path_not_found", "path_outside_roots",
         "not_a_directory", "not_a_file", "stat_failed", "read_failed", "binary_file",
         "invalid_utf8", "file_protocol_error", "file_too_large", "file_conflict",
         "patch_invalid", "permission_denied", "ownership_unsupported",
         "temporary_file_failed", "transfer_failed", "metadata_failed", "replace_failed",
         "destination_exists", "mkdir_failed", "protected_root", "rename_failed",
         "directory_not_empty", "remove_failed", "command_timed_out", "file_command_failed",
         "outcome_unknown"}
FilesTypeOK ==
  /\ \A n \in Paths :
       /\ IsEntry(fs[n])
       /\ IsKind(n, "file") => fs[n].text \in Text
       /\ IsKind(n, "dir") => fs[n].inside \in Insides
  /\ temp \in Text \union {None} /\ trapped \in BOOLEAN
  /\ op \in Requests /\ foreign \in 0..MaxForeign
  /\ local.target \in Paths \union {None}
  /\ answer # None => answer.code \in Code
  /\ answer # None /\ "rows" \in DOMAIN answer => Cardinality(answer.rows) <= RowLimit

\* The hunks of a patch that reached the text the service read are applied as a unified
\* diff means them: apply_unified_patch succeeds exactly when they fit, and replaces their
\* lines and no others, at the edges of the text and for insertions too (files/patch.py).
PatchMeansItsHunks == fpc = "patch" => MeansItsHunks(local.text, op.patch)

\* A replacement is all or nothing: whoever reads a name, at any moment and whatever befell
\* the helper, finds a text somebody meant to be there, never a part of a transfer
\* (temporary file, hash and mv of write_text).
TextsAreWhole == \A n \in Paths : Hash(n) # Partial

\* A refusal is true: a request answered with one of the codes that say it was refused
\* has changed nothing.  Left out are the codes of a mutating command that failed itself,
\* of a helper whose end is not known, and the test mkdir makes of what it just created.
RefusedChangesNothing ==
  answer # None /\ did # None =>
    \/ answer.code \in {"ok", "replace_failed", "rename_failed", "mkdir_failed", "remove_failed",
                         "command_timed_out", "file_command_failed", "outcome_unknown",
                         "file_protocol_error"}
    \/ answer.code = "path_outside_roots" /\ op.action = "mkdir" /\ moved # "no"

\* What a result says was done was done: the text sent, or the patched text, was put in
\* place, and what it displaced is what the helper saw last (its hash, or no entry), and
\* what the client expected, unless others changed the directory after the last test.
ResultsAreTrue ==
  did # None /\ op.action \in {"write_text", "apply_patch"} =>
    /\ did.placed = File(NewText, TRUE)
    /\ moved # "late" => TextOf(did.displaced) = local.before
    /\ moved # "late" /\ op.expected # None => TextOf(did.displaced) = op.expected

\* A removal guarded by expected_sha256 removes the text the client expected.
GuardedRemoval ==
  did # None /\ op.action = "remove" /\ op.expected # None /\ moved # "late" =>
    did.displaced # None /\ (did.displaced.kind = "file" => did.displaced.text = op.expected)

\* A patch is written over the text it was made from, although _apply_patch reads hash and
\* text by two commands and writes later: one change by others in between is noticed.  Two
\* that put the first text back are not.
PatchReplacesItsSource ==
  did # None /\ op.action = "apply_patch" /\ moved # "late" /\ foreign + 1 >= MaxForeign =>
    TextOf(did.displaced) = local.text

\* Once a helper has reported itself, its temporary file is gone, under its own name and as
\* a file that mv put into a directory instead of replacing a file: that takes a change by
\* others.  A helper that was timed out, killed or lost may leave its temporary file behind.
NoTemporaryLeft ==
  /\ fpc = "ended" /\ temp # None =>
       answer.code \in {"command_timed_out", "file_command_failed", "outcome_unknown"}
  /\ did # None /\ op.action \in {"write_text", "apply_patch"} /\ moved = "no" =>
       did.displaced = None \/ did.displaced.kind = "file"

\* What a read returns is one state of the file, and it says truthfully whether that is all
\* of the selection, unless others changed the file meanwhile.
QuietReadIsExact ==
  answer # None /\ answer.code = "ok" /\ op.action = "read_text" /\ moved = "no" =>
    /\ answer.sha = Hash(realpath(op.path))
    /\ answer.truncated <=> Len(Selected(answer.sha)) > ByteLimit
    /\ answer.text = IF answer.truncated THEN SubSeq(Selected(answer.sha), 1, ByteLimit)
                     ELSE Selected(answer.sha)

\* What the client is told of a file request is true: refusals, results and reads.
FileAnswersAreTrue == RefusedChangesNothing /\ ResultsAreTrue /\ QuietReadIsExact

\* A hash in a request guards it: a removal and a patch displace the text they were meant
\* for, although hash, text and replacement are separate remote commands.
HashGuardsHold == GuardedRemoval /\ PatchReplacesItsSource

\* Wherever a write is cut off, no name ever shows a part of a text; a helper that reports
\* its own refusal, failure or result has also taken its temporary file away.
WritesAreClean == TextsAreWhole /\ NoTemporaryLeft
=============================================================================
