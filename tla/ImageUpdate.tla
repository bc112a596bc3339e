----------------------------- MODULE ImageUpdate -----------------------------
(***************************************************************************)
(* What the boot loader, the file commit library and the over-the-air      *)
(* update promise together: the device runs the image it has committed to, *)
(* or once, when asked to, an image under test; the commitment changes     *)
(* only to the image that is running; and a reset may come at any time.    *)
(* OtaBoot implements this specification.                                  *)
(***************************************************************************)
CONSTANTS
  Images,   \* what an image file may hold
  NoImage

VARIABLES
  current,  \* the image the device has committed to
  trial,    \* the image that waits for its test
  chosen,   \* the image the boot loader has decided to run
  running   \* the image that runs

vars == <<current, trial, chosen, running>>

Init ==
  /\ current \in Images
  /\ trial = NoImage
  /\ chosen = NoImage
  /\ running = NoImage

\* The boot loader decides. The decision for a test uses the test up.
Choose ==
  /\ running = NoImage /\ chosen = NoImage
  /\ chosen' = IF trial = NoImage THEN current ELSE trial
  /\ trial' = NoImage
  /\ UNCHANGED <<current, running>>

Run ==
  /\ chosen # NoImage
  /\ running' = chosen
  /\ chosen' = NoImage
  /\ UNCHANGED <<current, trial>>

\* The running image asks for the test of another.
Arm ==
  /\ running # NoImage
  /\ trial' \in Images
  /\ UNCHANGED <<current, chosen, running>>

Commit ==
  /\ running # NoImage
  /\ current' = running
  /\ UNCHANGED <<trial, chosen, running>>

Reset ==
  /\ chosen' = NoImage
  /\ running' = NoImage
  /\ UNCHANGED <<current, trial>>

Next == Choose \/ Run \/ Arm \/ Commit \/ Reset

Spec == Init /\ [][Next]_vars
==============================================================================
