---------------------------- MODULE SessionStates ----------------------------
(***************************************************************************)
(* The session states of worker/state.py and the transitions its table     *)
(* allows.  The broker only ever sees these names in the payloads a worker *)
(* sends it; the worker moves between them.                                *)
(***************************************************************************)

\* SessionState(StrEnum).
SessionState ==
  {"created", "starting", "authentication_required", "ready", "executing",
   "interactive", "lost", "closing", "closed", "failed"}

\* ALLOWED_TRANSITIONS: the targets SessionStateMachine.transition accepts.
ALLOWED_TRANSITIONS ==
  [s \in SessionState |->
     CASE s = "created"     -> {"starting", "closing"}
       [] s = "starting"    -> {"authentication_required", "ready", "lost",
                                "failed", "closing"}
       [] s = "authentication_required" ->
                               {"starting", "executing", "lost", "failed",
                                "closing"}
       [] s = "ready"       -> {"executing", "interactive", "lost", "failed",
                                "closing"}
       [] s = "executing"   -> {"authentication_required", "ready", "lost",
                                "failed", "closing"}
       [] s = "interactive" -> {"ready", "lost", "failed", "closing"}
       [] s = "lost"        -> {"closing", "closed"}
       [] s = "failed"      -> {"closing", "closed"}
       [] s = "closing"     -> {"closed"}
       [] s = "closed"      -> {}]
=============================================================================
