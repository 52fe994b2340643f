----------------------------- MODULE AtomicFile -----------------------------
(***************************************************************************)
(* What util.h promises of config.json: a file that is replaced as a whole *)
(* and read as a whole.  A save takes effect in one instant between its    *)
(* call and its return, or not at all, and its result says which; a load   *)
(* that succeeds returns the contents of the instant it opened the file.   *)
(***************************************************************************)
CONSTANTS
    Writers, Readers,
    Contents,   \* what the file may contain
    Nothing     \* a reader holds no contents

VARIABLES
    content,    \* the file
    save, new,  \* every writer: its save, and the contents it is to write
    load, seen  \* every reader: its load, and the contents it has or will get

vars == <<content, save, new, load, seen>>
writers == <<content, save, new>>
readers == <<load, seen>>

Init ==
    /\ content \in Contents
    /\ save = [w \in Writers |-> "idle"] /\ new \in [Writers -> Contents]
    /\ load = [r \in Readers |-> "idle"] /\ seen = [r \in Readers |-> Nothing]

SaveTo(w, result) == save' = [save EXCEPT ![w] = result]

\* A save is asked for; it may be refused at once.
Begin(w) ==
    /\ save[w] = "idle" /\ (SaveTo(w, "saving") \/ SaveTo(w, "failed"))
    /\ \E c \in Contents : new' = [new EXCEPT ![w] = c]
    /\ UNCHANGED <<content, readers>>

Commit(w) ==
    /\ save[w] = "saving" /\ SaveTo(w, "saved")
    /\ content' = new[w]
    /\ UNCHANGED <<new, readers>>

Abort(w) ==
    /\ save[w] = "saving" /\ SaveTo(w, "failed")
    /\ UNCHANGED <<content, new, readers>>

\* The caller has the result, or the process was killed before the commit.
End(w) ==
    /\ save[w] \in {"saving", "saved", "failed"} /\ SaveTo(w, "idle")
    /\ UNCHANGED <<content, new, readers>>

Open(r) ==
    /\ load[r] = "idle" /\ load' = [load EXCEPT ![r] = "read"]
    /\ seen' = [seen EXCEPT ![r] = content]
    /\ UNCHANGED writers

Load(r) ==
    /\ load[r] = "read" /\ load' = [load EXCEPT ![r] = "loaded"]
    /\ UNCHANGED <<writers, seen>>

Fail(r) ==
    /\ load[r] = "read" /\ load' = [load EXCEPT ![r] = "error"]
    /\ seen' = [seen EXCEPT ![r] = Nothing]
    /\ UNCHANGED writers

Again(r) ==
    /\ load[r] \in {"loaded", "error"} /\ load' = [load EXCEPT ![r] = "idle"]
    /\ seen' = [seen EXCEPT ![r] = Nothing]
    /\ UNCHANGED writers

Next == \/ \E w \in Writers : Begin(w) \/ Commit(w) \/ Abort(w) \/ End(w)
        \/ \E r \in Readers : Open(r) \/ Load(r) \/ Fail(r) \/ Again(r)

Spec == Init /\ [][Next]_vars
=============================================================================
