------------------------------- MODULE NetScan -------------------------------
(***************************************************************************)
(* csharp/NetScan/NetScan/Program.cs: ping every address of the subnet and *)
(* list those that answer.  The pings run at once, and each continuation   *)
(* adds to the same List, which is not synchronised, on a pool thread of   *)
(* its own.  Ping, List and the thread pool are external.                  *)
(***************************************************************************)
EXTENDS Naturals, Sequences

CONSTANTS
    Hosts,          \* the addresses of the subnet
    Nothing         \* an entry of the list that was never stored

VARIABLES
    main,       \* where discoverAssignedAddressesAsync and MainAsync are
    ping,       \* per address, where its ping and its continuation are
    answered,   \* the addresses that answered
    result,     \* the list
    seen,       \* per address, the list as its Add found it
    overlapped, \* two calls of Add have run at once
    printed     \* what MainAsync printed

vars == <<main, ping, answered, result, seen, overlapped, printed>>

Init ==
    /\ main = "address" /\ ping = [h \in Hosts |-> "none"] /\ answered = {}
    /\ result = <<>> /\ seen = [h \in Hosts |-> <<>>] /\ overlapped = FALSE
    /\ printed = <<>>

-----------------------------------------------------------------------------
\* getLocalIPAddressAsync; without an IPv4 address Split throws.
LocalAddress ==
    /\ main = "address" /\ main' \in {"pings", "thrown"}
    /\ UNCHANGED <<ping, answered, result, seen, overlapped, printed>>

\* The loop starts the pings one by one; those under way go on meanwhile.
StartPing(h) ==
    /\ main = "pings" /\ ping[h] = "none"
    /\ ping' = [ping EXCEPT ![h] = "sent"]
    /\ main' = IF \A g \in Hosts \ {h} : ping[g] # "none" THEN "wait" ELSE main
    /\ UNCHANGED <<answered, result, seen, overlapped, printed>>

\* The ping ends: with an answer, without one, or with an exception, which
\* t.Result throws again.
PingEnds(h) ==
    /\ ping[h] = "sent"
    /\ \/ ping' = [ping EXCEPT ![h] = "add"] /\ answered' = answered \cup {h}
       \/ /\ ping' \in {[ping EXCEPT ![h] = "done"], [ping EXCEPT ![h] = "faulted"]}
          /\ UNCHANGED answered
    /\ UNCHANGED <<main, result, seen, overlapped, printed>>

\* result.Add reads the list's array and size ...
AddBegins(h) ==
    /\ ping[h] = "add" /\ ping' = [ping EXCEPT ![h] = "adding"]
    /\ seen' = [seen EXCEPT ![h] = result]
    /\ overlapped' = (overlapped \/ \E g \in Hosts : ping[g] = "adding")
    /\ UNCHANGED <<main, answered, result, printed>>

\* ... and stores the item and the new size.  What was added in between is
\* overwritten, or stays in an array that a resize has just replaced, or leaves
\* an entry unset, or makes the store throw.
AddEnds(h) ==
    LET behind(s) == Append(s, h)
        ends(state) == ping' = [ping EXCEPT ![h] = state]
    IN  /\ ping[h] = "adding"
        /\ \/ ends("done") /\ result' = behind(seen[h])
           \/ /\ result # seen[h] /\ ends("done")
              /\ result' \in {result, behind(result), Append(result, Nothing)}
           \/ result # seen[h] /\ ends("faulted") /\ UNCHANGED result
        /\ seen' = [seen EXCEPT ![h] = <<>>]
        /\ UNCHANGED <<main, answered, overlapped, printed>>

\* Fault: the first continuation to end is enough.
WaitAny ==
    /\ main = "wait" /\ \E h \in Hosts : ping[h] \in {"done", "faulted"}
    /\ IF \E h \in Hosts : ping[h] = "faulted"
       THEN main' = "thrown" /\ UNCHANGED printed
       ELSE main' = "printed" /\ printed' = result
    /\ UNCHANGED <<ping, answered, result, seen, overlapped>>

\* Task.WaitAll throws what a continuation threw; otherwise the list is
\* returned and printed.
WaitAll ==
    /\ main = "wait" /\ \A h \in Hosts : ping[h] \in {"done", "faulted"}
    /\ IF \E h \in Hosts : ping[h] = "faulted"
       THEN main' = "thrown" /\ UNCHANGED printed
       ELSE main' = "printed" /\ printed' = result
    /\ UNCHANGED <<ping, answered, result, seen, overlapped>>

Next ==
    \/ LocalAddress \/ WaitAll
    \/ \E h \in Hosts : StartPing(h) \/ PingEnds(h) \/ AddBegins(h) \/ AddEnds(h)

Spec == Init /\ [][Next]_vars

-----------------------------------------------------------------------------
(* Properties.                                                             *)

\* WaitAll and not the List keeps main apart from the continuations: nothing is
\* added while the list is printed, everything printed did answer, and unless
\* two continuations were in Add at once every address that answered is there
\* exactly once.
ScanTrue ==
    main = "printed" =>
        LET shown == {printed[k] : k \in DOMAIN printed}
        IN  /\ printed = result /\ \A h \in Hosts : ping[h] = "done"
            /\ shown \subseteq answered \cup {Nothing}
            /\ ~overlapped =>
                  /\ shown = answered
                  /\ \A j, k \in DOMAIN printed : printed[j] = printed[k] => j = k
=============================================================================
