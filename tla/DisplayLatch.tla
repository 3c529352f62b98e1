---------------------------- MODULE DisplayLatch ----------------------------
(***************************************************************************)
(* What the shift register component promises to the rest of the firmware: *)
(* a job handed over with SendData eventually appears, whole, on the       *)
(* register outputs; the outputs are dark from the start of the transfer   *)
(* until the complete image is in place; and the component is busy exactly *)
(* while a job is in progress.  Clocks, bits and bytes do not exist here.  *)
(***************************************************************************)
CONSTANTS
  Job,          \* everything a caller may ask to be shown
  Image,        \* contents of the output latches
  Shows(_, _)   \* Shows(job, image): the image is a faithful picture of job

VARIABLES
  busy,         \* a job is in progress
  job,          \* the last job handed over
  shown,        \* the image held by the output latches
  lit           \* the outputs are enabled

vars == <<busy, job, shown, lit>>

Init ==
  /\ busy = FALSE
  /\ job \in Job
  /\ shown \in Image
  /\ lit = TRUE

(* A caller hands over a job.                                              *)
Send(j) ==
  /\ ~busy
  /\ busy' = TRUE
  /\ job' = j
  /\ UNCHANGED <<shown, lit>>

(* The outputs go dark before anything else happens.                       *)
Blank ==
  /\ busy
  /\ lit' = FALSE
  /\ UNCHANGED <<busy, job, shown>>

(* The whole image appears at once, behind dark outputs.                   *)
Latch ==
  /\ busy /\ ~lit
  /\ shown' \in Image /\ Shows(job, shown')
  /\ UNCHANGED <<busy, job, lit>>

(* The job ends, and only when it is on display.                           *)
Complete ==
  /\ busy /\ ~lit /\ Shows(job, shown)
  /\ busy' = FALSE
  /\ lit' = TRUE
  /\ UNCHANGED <<job, shown>>

(* Between jobs the outputs may be switched on and off.                    *)
SetEnabled(is_enabled) ==
  /\ ~busy
  /\ lit' = is_enabled
  /\ UNCHANGED <<busy, job, shown>>

Next ==
  \/ \E j \in Job : Send(j)
  \/ Blank
  \/ Latch
  \/ Complete
  \/ \E is_enabled \in BOOLEAN : SetEnabled(is_enabled)

Safety == Init /\ [][Next]_vars

Liveness == busy ~> ~busy

Spec == Safety /\ Liveness
=============================================================================
