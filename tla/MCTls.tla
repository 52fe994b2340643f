------------------------------- MODULE MCTls --------------------------------
(* Two clients and a listen queue of one: a client can wait in the queue    *)
(* while another is served, and a third position does not exist.  Two lines *)
(* let s_client send before it has seen the answer to the first.            *)
EXTENDS Tls
=============================================================================
