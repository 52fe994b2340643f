---------------------------- MODULE OneShotCode -----------------------------
(***************************************************************************)
(* What loopback.h promises, without threads, mutexes or a server: the     *)
(* first request offered decides, and the call returns once, either with   *)
(* that request's code or with a failure.  A failure is allowed only while *)
(* no usable code has been offered (nothing arrived in time, the listener  *)
(* could not be set up, or the first request had no usable code).          *)
(***************************************************************************)
CONSTANTS Codes, NoCode, Acceptable(_)

VARIABLES offered, returned, value

vars == <<offered, returned, value>>

Init == offered = {} /\ returned = FALSE /\ value = NoCode

\* Requests after the first are answered and forgotten; one that comes after
\* the call has decided is too late to matter.
Offer(r) == /\ offered = {}
            /\ offered' = {r}
            /\ UNCHANGED <<returned, value>>

Deliver == /\ ~returned
           /\ \E r \in offered : Acceptable(r) /\ value' = r
           /\ returned' = TRUE
           /\ UNCHANGED offered

Fail == /\ ~returned
        /\ \A r \in offered : ~Acceptable(r)
        /\ returned' = TRUE
        /\ UNCHANGED <<offered, value>>

Next == (\E r \in Codes \cup {NoCode} : Offer(r)) \/ Deliver \/ Fail

Spec == Init /\ [][Next]_vars
=============================================================================
