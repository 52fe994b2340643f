---------------------------- MODULE MCProgressBar ----------------------------
(* Three blocks, two animation characters and three threads, one more than *)
(* can be busy; reports within a block, across blocks, below 0 and beyond   *)
(* 100 %, in any order.                                                     *)
EXTENDS ProgressBar

MCReported == {-10, 40, 60, 110}
=============================================================================
