------------------------------- MODULE MCList -------------------------------
(* Lists of up to three nodes: first, middle and last are distinct, and an *)
(* address is reused as soon as it is free.                                *)
EXTENDS List
=============================================================================
