--------------------------- MODULE CommandStream ---------------------------
(***************************************************************************)
(* What the output path promises to a command, without buffers, chunks and *)
(* parser states: a result is returned only for a frame that was sent to   *)
(* its end by a healthy shell; its exit status is the command's, and its   *)
(* output is the newest part of the command's output, all of it unless it  *)
(* says truncated.  A stream of which symbols were lost on the way keeps   *)
(* only the promises about the exit status and the identity of the shell.  *)
(***************************************************************************)
EXTENDS FrameText

VARIABLES
  frame,    \* the command's frame
  sent,     \* how much of its stream has arrived
  lossy,    \* symbols were lost
  outcome   \* what execute returned

Begun == outcome = None /\ sent = 0

Arrive == sent' \in sent .. Len(Stream(frame)) /\ UNCHANGED outcome

Complete ==
  /\ outcome = None /\ frame.health /\ sent = Len(Stream(frame))
  /\ UNCHANGED sent
  /\ outcome' # None
  /\ IF lossy' THEN outcome'.status = "completed" /\ outcome'.exit = frame.exit
     ELSE frame.trap = <<>> /\ outcome' =
            Completed(frame.exit, Plain(Newest(frame.out, MaxBytes)), Len(frame.out) > MaxBytes)

GiveUp == outcome = None /\ outcome' = Unverified /\ UNCHANGED sent

Spec == /\ Begun /\ lossy = FALSE
        /\ [][/\ UNCHANGED frame /\ lossy' \in {lossy, TRUE}
              /\ Arrive \/ Complete \/ GiveUp]_<<frame, sent, lossy, outcome>>
=============================================================================
