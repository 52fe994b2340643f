----------------------------- MODULE MCCapture ------------------------------
(* Up to three buffers granted where two are asked for (fewer, as many,    *)
(* more), and enough frames for a buffer to go round twice.                *)
EXTENDS Capture
=============================================================================
