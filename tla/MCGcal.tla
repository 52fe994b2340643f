------------------------------- MODULE MCGcal -------------------------------
(* A few runs after one another: the second and the third meet what the    *)
(* earlier ones left on disk, in the browser's tabs and at Google.         *)
EXTENDS Gcal
=============================================================================
