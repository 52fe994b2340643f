-------------------------------- MODULE List --------------------------------
(***************************************************************************)
(* The singly linked list of c/utils (list.c), at the level of its memory: *)
(* nodes are addresses, malloc hands out any address that is not in use,   *)
(* so a freed node may come back as a new one, and a pointer to a freed    *)
(* node stays where it was until the code overwrites it.                   *)
(*                                                                         *)
(* One caller makes one call after another.  The calls that run a loop     *)
(* around a callback take one step per round; the callback's answer is     *)
(* free.  A value is only stored and given back and is left out; a call    *)
(* with a NULL argument logs and changes nothing and is left out too.      *)
(***************************************************************************)
EXTENDS Naturals, FiniteSets

CONSTANTS
    Nodes,      \* the addresses malloc may return
    NULL,
    MatchLast   \* may list_remove_if be asked to remove the last node?

ASSUME NodesAssumption == NULL \notin Nodes /\ IsFiniteSet(Nodes)
ASSUME MatchAssumption == MatchLast \in BOOLEAN

VARIABLES
    live, count, head, tail,    \* LIST, while it exists
    next, alloc,                \* LIST_NODE.next at every address; the nodes in use
    op, handle,                 \* the call under way and its node argument
    previous, current, go       \* its locals (go is continue_processing)

listVars == <<live, count, head, tail>>
heapVars == <<next, alloc>>
callVars == <<op, handle, previous, current, go>>
vars == <<listVars, heapVars, callVars>>

Pointers == Nodes \cup {NULL}

Init ==
    /\ live = FALSE /\ count = 0 /\ head = NULL /\ tail = NULL
    /\ next = [n \in Nodes |-> NULL] /\ alloc = {}
    /\ op = "idle" /\ handle = NULL
    /\ previous = NULL /\ current = NULL /\ go = TRUE

Idle == live /\ op = "idle"

\* A call returns; its locals are gone.
Returns == /\ op' = "idle" /\ handle' = NULL
           /\ previous' = NULL /\ current' = NULL /\ go' = TRUE

\* A call that walks the list starts at its head.
Walks(call, h) == /\ op' = call /\ handle' = h
                  /\ previous' = NULL /\ current' = head /\ go' = TRUE
                  /\ UNCHANGED <<listVars, heapVars>>

list_create ==
    /\ ~live /\ op = "idle"
    /\ live' = TRUE /\ count' = 0 /\ head' = NULL /\ tail' = NULL
    /\ UNCHANGED <<heapVars, callVars>>

\* Fault: an append to an empty list leaves head alone.
list_addTailOnly ==
    /\ Idle
    /\ \E n \in Nodes \ alloc :
         /\ alloc' = alloc \cup {n}
         /\ next' = [next EXCEPT ![n] = NULL,
                                 ![IF tail # NULL THEN tail ELSE n] =
                                   IF tail # NULL THEN n ELSE NULL]
         /\ tail' = n
    /\ count' = count + 1
    /\ UNCHANGED <<live, head, callVars>>

\* The tail, when there is one, is written through even if it was freed: when
\* malloc returned that very address the new node ends up pointing to itself.
list_add ==
    /\ Idle
    /\ \E n \in Nodes \ alloc :
         LET fresh == [next EXCEPT ![n] = NULL]
         IN  /\ alloc' = alloc \cup {n}
             /\ IF tail # NULL
                  THEN next' = [fresh EXCEPT ![tail] = n] /\ head' = head
                  ELSE next' = fresh /\ head' = n
             /\ tail' = n
    /\ count' = count + 1
    /\ UNCHANGED <<live, callVars>>

\* list_remove(list, h): h may be any address the caller still knows.
list_remove == Idle /\ \E h \in Nodes : Walks("remove", h)

\* One round of the loop.  A node other than the handle ends the round with
\* `current' where it was, so `previous' is never set.
RemoveRound ==
    /\ op = "remove" /\ current # NULL
    /\ IF current = handle
         THEN /\ IF previous = NULL
                   THEN /\ head' = next[current]
                        /\ tail' = IF tail = current THEN NULL ELSE tail
                        /\ next' = next
                   ELSE /\ next' = [next EXCEPT ![previous] = next[current]]
                        /\ UNCHANGED <<head, tail>>
              /\ alloc' = alloc \ {current} /\ count' = count - 1
              /\ UNCHANGED live /\ Returns
         ELSE UNCHANGED vars

\* An empty list: failure.
RemoveReturns ==
    /\ op = "remove" /\ current = NULL
    /\ Returns /\ UNCHANGED <<listVars, heapVars>>

\* list_find and list_foreach: each round asks the callback about `current',
\* which no round changes.
list_find == Idle /\ Walks("find", NULL)

FindRound ==
    /\ op = "find" /\ current # NULL
    /\ \/ Returns /\ UNCHANGED <<listVars, heapVars>>     \* a match
       \/ UNCHANGED vars

FindReturns ==
    /\ op = "find" /\ current = NULL
    /\ Returns /\ UNCHANGED <<listVars, heapVars>>

list_foreach == Idle /\ Walks("foreach", NULL)

ForeachRound ==
    /\ op = "foreach" /\ current # NULL
    /\ \/ Returns /\ UNCHANGED <<listVars, heapVars>>     \* the action said stop
       \/ UNCHANGED vars

ForeachReturns ==
    /\ op = "foreach" /\ current = NULL
    /\ Returns /\ UNCHANGED <<listVars, heapVars>>

list_remove_if == Idle /\ Walks("remove_if", NULL)

\* Fault: a removed node becomes the predecessor of the next one.
RemoveIfRoundStale ==
    /\ op = "remove_if" /\ current # NULL /\ go
    /\ go' \in BOOLEAN
    /\ \/ /\ MatchLast \/ next[current] # NULL
          /\ IF previous = NULL
               THEN head' = next[head] /\ next' = next
               ELSE next' = [next EXCEPT ![previous] = next[current]] /\ head' = head
          /\ alloc' = alloc \ {current} /\ count' = count - 1
       \/ UNCHANGED <<head, next, alloc, count>>
    /\ previous' = current /\ current' = next[current]
    /\ UNCHANGED <<live, tail, op, handle>>

\* Fault: the count is not decremented.
RemoveIfRoundUncounted ==
    /\ op = "remove_if" /\ current # NULL /\ go
    /\ go' \in BOOLEAN
    /\ \/ /\ MatchLast \/ next[current] # NULL
          /\ IF previous = NULL
               THEN head' = next[head] /\ next' = next
               ELSE next' = [next EXCEPT ![previous] = next[current]] /\ head' = head
          /\ alloc' = alloc \ {current} /\ UNCHANGED previous
       \/ previous' = current /\ UNCHANGED <<head, next, alloc>>
    /\ current' = next[current]
    /\ UNCHANGED <<live, count, tail, op, handle>>

\* One round: the successor is read before the callback is asked; tail is left
\* as it is whichever node goes.
RemoveIfRound ==
    /\ op = "remove_if" /\ current # NULL /\ go
    /\ go' \in BOOLEAN
    /\ \/ /\ MatchLast \/ next[current] # NULL
          /\ IF previous = NULL
               THEN head' = next[head] /\ next' = next
               ELSE next' = [next EXCEPT ![previous] = next[current]] /\ head' = head
          /\ alloc' = alloc \ {current} /\ count' = count - 1
          /\ UNCHANGED previous
       \/ previous' = current /\ UNCHANGED <<head, next, alloc, count>>
    /\ current' = next[current]
    /\ UNCHANGED <<live, tail, op, handle>>

RemoveIfReturns ==
    /\ op = "remove_if" /\ (current = NULL \/ ~go)
    /\ Returns /\ UNCHANGED <<listVars, heapVars>>

list_destroy == Idle /\ Walks("destroy", NULL)

\* Fault: the successor is not taken.
DestroyRoundStays ==
    /\ op = "destroy" /\ current # NULL
    /\ alloc' = alloc \ {current}
    /\ UNCHANGED <<listVars, next, callVars>>

\* The successor is read before the node is freed.
DestroyRound ==
    /\ op = "destroy" /\ current # NULL
    /\ current' = next[current] /\ alloc' = alloc \ {current}
    /\ UNCHANGED <<listVars, next, op, handle, previous, go>>

\* The LIST itself is freed; its fields are gone with it.
DestroyReturns ==
    /\ op = "destroy" /\ current = NULL
    /\ live' = FALSE /\ Returns
    /\ UNCHANGED <<count, head, tail, heapVars>>

Call == \/ list_create \/ list_add \/ list_remove \/ list_find
        \/ list_foreach \/ list_remove_if \/ list_destroy
Round == \/ RemoveRound \/ RemoveReturns \/ FindRound \/ FindReturns
         \/ ForeachRound \/ ForeachReturns \/ RemoveIfRound \/ RemoveIfReturns
         \/ DestroyRound \/ DestroyReturns

Next == Call \/ Round

Spec == Init /\ [][Next]_vars

\* A call that was made keeps running; nobody has to make one.
FairSpec == Spec /\ WF_vars(Round)

-----------------------------------------------------------------------------
\* list_get_head_node, then list_get_next_node k times.
Walk[k \in 0..Cardinality(Nodes)] ==
    IF k = 0 THEN head
    ELSE IF Walk[k - 1] = NULL THEN NULL ELSE next[Walk[k - 1]]

Contents == [k \in 1..count |-> Walk[k - 1]]

\* Every variable has its type.
TypeOK ==
    /\ live \in BOOLEAN /\ count \in 0..Cardinality(Nodes)
    /\ head \in Pointers /\ tail \in Pointers
    /\ next \in [Nodes -> Pointers] /\ alloc \in SUBSET Nodes
    /\ op \in {"idle", "remove", "find", "foreach", "remove_if", "destroy"}
    /\ handle \in Pointers /\ previous \in Pointers /\ current \in Pointers
    /\ go \in BOOLEAN

\* Between calls, walking from the head meets exactly `count' nodes, the last
\* of which is the tail, and these are all the nodes ever allocated and not
\* freed: no node is lost, none is shared, there is no cycle.  A list that was
\* destroyed has given back all of them.
WellFormed ==
    /\ Idle =>
        /\ \A k \in 0..count : Walk[k] = NULL <=> k = count
        /\ tail = (IF count = 0 THEN NULL ELSE Walk[count - 1])
        /\ alloc = {Walk[k] : k \in 0..(count - 1)}
    /\ ~live => alloc = {}

\* Whatever round a call is in, no pointer the code will follow leads to a
\* freed node.
NoDanglingPointer ==
    live /\ op # "destroy" =>
        /\ {head, tail, previous, current} \subseteq alloc \cup {NULL}
        /\ \A n \in alloc : next[n] \in alloc \cup {NULL}

\* list_get_head_node_test (tests/list_tests/main.c): a list with one node, just
\* added, has that node as its head.
SoleNodeIsHead == Idle /\ count = 1 => head # NULL /\ head = tail

\* list_remove answers a handle that is not in the list with a failure ("List
\* node is not part of this list.") and one that is with its removal.
RemoveEnds == (op = "remove") ~> (op = "idle")

\* list_remove_if and list_destroy reach the end of any list.
WalksEnd == (op \in {"remove_if", "destroy"}) ~> (op = "idle")

\* The list is a sequence: additions at the end, removals that leave the order
\* of the others alone, in one step each even inside list_remove_if.
Sequence == INSTANCE NodeSequence WITH
               items <- IF live /\ op # "destroy" THEN Contents ELSE <<>>
ImplementsSequence == Sequence!Spec
=============================================================================
