------------------------------ MODULE Loopback ------------------------------
(***************************************************************************)
(* The single-shot OAuth redirect listener of gmail-calendar               *)
(* (c/gmail-calendar/src/loopback.c).                                      *)
(*                                                                         *)
(* Two threads share the stack object loopback_ctx_t lc of                 *)
(* loopback_wait_for_code: the thread that called it, and the http-c       *)
(* worker that http_server_run_async started and that runs                 *)
(* oauth_callback_handler for every GET, one after the other.  The caller  *)
(* waits on lc.cond with an absolute deadline, copies the code out, stops  *)
(* the server, joins the worker and only then destroys lc.                 *)
(*                                                                         *)
(* A request is abstracted to the value of its `code' parameter, NoCode    *)
(* when it has none (a favicon, a health probe, or Google's ?error=...:    *)
(* the error branch of the handler only prints).  A code matters only      *)
(* through its identity and its length.                                    *)
(***************************************************************************)
EXTENDS Naturals

CONSTANTS
    Codes,      \* values of the `code' parameter that clients may send
    NoCode,     \* the absent or empty parameter
    CodeLen,    \* length in bytes of every code
    CodeMax,    \* LOOPBACK_CODE_MAX, the size of lc.code
    CodeCap     \* code_cap, the size of the caller's buffer

ASSUME CodesAssumption == /\ NoCode \notin Codes
                          /\ CodeLen \in [Codes -> Nat \ {0}]
ASSUME SizesAssumption == CodeMax \in Nat \ {0} /\ CodeCap \in Nat

Requests == Codes \cup {NoCode}

VARIABLES
    \* the calling thread: control state and locals of loopback_wait_for_code
    pc, rc, timed_out, got_code, code_buf, held,
    \* loopback_ctx_t lc, shared by both threads
    mutex, signalled, received, success, code,
    \* the http-c worker and the handler it runs
    wpc, req, stop,
    \* the wall clock, as far as it matters: is the deadline behind us?
    late,
    \* ghost: the first request whose handler entered the critical section,
    \* as a set of at most one element
    first

mainVars   == <<pc, rc, timed_out, got_code, code_buf, held>>
lcVars     == <<received, success, code>>
workerVars == <<wpc, req>>
vars == <<mainVars, mutex, signalled, lcVars, workerVars, stop, late, first>>

SetupSteps == {"mutex", "cond", "platform", "server", "route", "task"}
Waiting    == {"lock", "loop", "waiting", "relock"}
Returning  == {"stop", "join", "teardown", "done"}
MainStates == {"start"} \cup SetupSteps \cup Waiting \cup {"copy"} \cup Returning
Handling   == {"lock", "critical", "unlock"}   \* the handler still uses lc
WorkerStates == {"off", "idle", "respond", "flush", "exited"} \cup Handling
Resources  == {"mutex", "cond", "platform", "server", "task"}

\* span_get_size(code_span), lc.code_len
Size(r) == IF r = NoCode THEN 0 ELSE CodeLen[r]

\* A code that fits both buffers with its terminating NUL.
Acceptable(r) == Size(r) > 0 /\ Size(r) < CodeMax /\ Size(r) < CodeCap

Init ==
    /\ pc = "start" /\ rc = "OK"
    /\ timed_out = FALSE /\ got_code = FALSE /\ code_buf = NoCode /\ held = {}
    /\ mutex = "none" /\ signalled = FALSE
    /\ received = FALSE /\ success = FALSE /\ code = NoCode
    /\ wpc = "off" /\ req = NoCode /\ stop = FALSE
    /\ late = FALSE /\ first = {}

-----------------------------------------------------------------------------
(* loopback_wait_for_code: acquiring the resources, in the code's order.   *)
(* Each step may fail; it then undoes what the code names on that path and *)
(* returns false.                                                          *)

Acquired(step, resources, next) ==
    /\ pc = step
    /\ pc' = next
    /\ held' = held \cup resources

Failed(step, undone) ==
    /\ pc = step
    /\ pc' = "done"
    /\ held' = held \ undone

SetupFrame == UNCHANGED <<rc, timed_out, got_code, code_buf, mutex, signalled,
                          lcVars, req, stop, late, first>>

CheckArguments ==
    /\ pc = "start"
    /\ pc' = IF CodeCap = 0 THEN "done" ELSE "mutex"
    /\ UNCHANGED <<held, wpc>> /\ SetupFrame

InitMutex ==
    /\ \/ Acquired("mutex", {"mutex"}, "cond")
       \/ Failed("mutex", {})
    /\ UNCHANGED wpc /\ SetupFrame

InitCond ==
    /\ \/ Acquired("cond", {"cond"}, "platform")
       \/ Failed("cond", {"mutex"})
    /\ UNCHANGED wpc /\ SetupFrame

InitPlatform ==
    /\ \/ Acquired("platform", {"platform"}, "server")
       \/ Failed("platform", {"cond", "mutex"})
    /\ UNCHANGED wpc /\ SetupFrame

InitServer ==
    /\ \/ Acquired("server", {"server"}, "route")
       \/ Failed("server", {"platform", "cond", "mutex"})
    /\ UNCHANGED wpc /\ SetupFrame

AddRoute ==
    /\ \/ Acquired("route", {}, "task")
       \/ Failed("route", {"server", "platform", "cond", "mutex"})
    /\ UNCHANGED wpc /\ SetupFrame

\* http_server_run_async: from here on the worker takes requests.
RunAsync ==
    /\ \/ Acquired("task", {"task"}, "lock") /\ wpc' = "idle"
       \/ Failed("task", {"server", "platform", "cond", "mutex"}) /\ wpc' = wpc
    /\ SetupFrame

-----------------------------------------------------------------------------
(* loopback_wait_for_code: the wait, the copy and the teardown.            *)

MainFrame == UNCHANGED <<lcVars, workerVars, late, first>>

MainLock ==
    /\ pc = "lock" /\ mutex = "none"
    /\ mutex' = "main" /\ pc' = "loop"
    /\ UNCHANGED <<rc, timed_out, got_code, code_buf, held, signalled, stop>>
    /\ MainFrame

\* Fault: the caller waits without testing `received' first.
MainLoopBlind ==
    /\ pc = "loop"
    /\ IF ~timed_out
         THEN /\ mutex' = "none" /\ signalled' = FALSE
              /\ pc' = IF late THEN "relock" ELSE "waiting"
              /\ rc' = IF late THEN "ETIMEDOUT" ELSE "OK"
         ELSE pc' = "copy" /\ UNCHANGED <<mutex, signalled, rc>>
    /\ UNCHANGED <<timed_out, got_code, code_buf, held, stop>>
    /\ MainFrame

\* The loop test.  pthread_cond_timedwait releases the mutex and, when the
\* deadline has already passed, is bound to return ETIMEDOUT.
MainLoop ==
    /\ pc = "loop"
    /\ IF ~received /\ ~timed_out
         THEN /\ mutex' = "none" /\ signalled' = FALSE
              /\ pc' = IF late THEN "relock" ELSE "waiting"
              /\ rc' = IF late THEN "ETIMEDOUT" ELSE "OK"
         ELSE pc' = "copy" /\ UNCHANGED <<mutex, signalled, rc>>
    /\ UNCHANGED <<timed_out, got_code, code_buf, held, stop>>
    /\ MainFrame

\* The wait ends: by the broadcast, or spuriously as POSIX allows.
MainWake ==
    /\ pc = "waiting"
    /\ pc' = "relock" /\ rc' = "OK"
    /\ UNCHANGED <<timed_out, got_code, code_buf, held, mutex, signalled, stop>>
    /\ MainFrame

\* The wait ends by the deadline, possibly racing a broadcast.
MainDeadline ==
    /\ pc = "waiting" /\ late
    /\ pc' = "relock" /\ rc' = "ETIMEDOUT"
    /\ UNCHANGED <<timed_out, got_code, code_buf, held, mutex, signalled, stop>>
    /\ MainFrame

\* timedwait returns with the mutex held again; only then is rc examined.
MainRelock ==
    /\ pc = "relock" /\ mutex = "none"
    /\ mutex' = "main" /\ pc' = "loop"
    /\ timed_out' = (timed_out \/ rc = "ETIMEDOUT")
    /\ UNCHANGED <<rc, got_code, code_buf, held, signalled, stop>>
    /\ MainFrame

\* Copy the code out, unlock, report a timeout.
MainCopy ==
    /\ pc = "copy"
    /\ IF received /\ success /\ Size(code) > 0 /\ Size(code) < CodeCap
         THEN got_code' = TRUE /\ code_buf' = code
         ELSE UNCHANGED <<got_code, code_buf>>
    /\ mutex' = "none" /\ pc' = "stop"
    /\ UNCHANGED <<rc, timed_out, held, signalled, stop>>
    /\ MainFrame

\* Fault: the worker is joined without being told to stop.
MainStopSilent ==
    /\ pc = "stop"
    /\ pc' = "join"
    /\ UNCHANGED <<rc, timed_out, got_code, code_buf, held, mutex, signalled, stop>>
    /\ MainFrame

\* usleep(200 ms), during which the worker goes on, then http_server_stop.
MainStop ==
    /\ pc = "stop"
    /\ stop' = TRUE /\ pc' = "join"
    /\ UNCHANGED <<rc, timed_out, got_code, code_buf, held, mutex, signalled>>
    /\ MainFrame

\* Fault: everything is torn down without waiting for the worker.
MainJoinNoWait ==
    /\ pc = "join"
    /\ pc' = "done" /\ held' = {}
    /\ UNCHANGED <<rc, timed_out, got_code, code_buf, mutex, signalled, stop>>
    /\ MainFrame

\* task_wait: blocks until the worker has returned.
MainJoin ==
    /\ pc = "join" /\ wpc = "exited"
    /\ pc' = "teardown"
    /\ UNCHANGED <<rc, timed_out, got_code, code_buf, held, mutex, signalled, stop>>
    /\ MainFrame

\* Fault: the result is wiped together with the rest.
MainTeardownWipes ==
    /\ pc = "teardown"
    /\ held' = held \ {"task", "server", "platform", "cond", "mutex"}
    /\ pc' = "done" /\ got_code' = FALSE /\ code_buf' = NoCode
    /\ UNCHANGED <<rc, timed_out, mutex, signalled, stop>>
    /\ MainFrame

MainTeardown ==
    /\ pc = "teardown"
    /\ held' = held \ {"task", "server", "platform", "cond", "mutex"}
    /\ pc' = "done"
    /\ UNCHANGED <<rc, timed_out, got_code, code_buf, mutex, signalled, stop>>
    /\ MainFrame

-----------------------------------------------------------------------------
(* The http-c worker (external) and oauth_callback_handler.                *)

WorkerFrame == UNCHANGED <<mainVars, stop, late>>

\* The worker accepts a connection and dispatches the route's handler, which
\* looks the parameters up in the path before it locks.
WorkerAccept(r) ==
    /\ wpc = "idle" /\ ~stop
    /\ wpc' = "lock" /\ req' = r
    /\ UNCHANGED <<mutex, signalled, lcVars, first>> /\ WorkerFrame

HandlerLock ==
    /\ wpc = "lock" /\ mutex = "none"
    /\ mutex' = "worker" /\ wpc' = "critical"
    /\ first' = IF first = {} THEN {req} ELSE first
    /\ UNCHANGED <<signalled, lcVars, req>> /\ WorkerFrame

\* Only the first request is looked at, whatever it carries.
HandlerCapture ==
    /\ wpc = "critical"
    /\ IF received
         THEN UNCHANGED <<lcVars, signalled>>
         ELSE /\ IF Size(req) > 0 /\ Size(req) < CodeMax
                   THEN code' = req /\ success' = TRUE
                   ELSE UNCHANGED <<code, success>>
              /\ received' = TRUE
              /\ signalled' = (pc = "waiting")
    /\ wpc' = "unlock"
    /\ UNCHANGED <<mutex, req, first>> /\ WorkerFrame

HandlerUnlock ==
    /\ wpc = "unlock"
    /\ mutex' = "none" /\ wpc' = "respond"
    /\ UNCHANGED <<signalled, lcVars, req, first>> /\ WorkerFrame

\* The page is a constant ("Authorization received") whatever was captured; it
\* is left out.  What matters is that lc is not touched any more.
HandlerRespond ==
    /\ wpc = "respond"
    /\ wpc' = "flush"
    /\ UNCHANGED <<mutex, signalled, lcVars, req, first>> /\ WorkerFrame

WorkerFlush ==
    /\ wpc = "flush"
    /\ wpc' = "idle"
    /\ UNCHANGED <<mutex, signalled, lcVars, req, first>> /\ WorkerFrame

WorkerExit ==
    /\ wpc = "idle" /\ stop
    /\ wpc' = "exited"
    /\ UNCHANGED <<mutex, signalled, lcVars, req, first>> /\ WorkerFrame

\* CLOCK_REALTIME reaches the deadline of line 204.
DeadlinePasses ==
    /\ ~late /\ pc \in Waiting \cup {"copy"} \cup Returning
    /\ late' = TRUE
    /\ UNCHANGED <<mainVars, mutex, signalled, lcVars, workerVars, stop, first>>

Setup == \/ CheckArguments \/ InitMutex \/ InitCond \/ InitPlatform
         \/ InitServer \/ AddRoute \/ RunAsync
Main == \/ Setup \/ MainLock \/ MainLoop \/ MainWake \/ MainDeadline
        \/ MainRelock \/ MainCopy \/ MainStop \/ MainJoin \/ MainTeardown
Handler == \/ HandlerLock \/ HandlerCapture \/ HandlerUnlock \/ HandlerRespond
Worker == \/ \E r \in Requests : WorkerAccept(r)
          \/ Handler \/ WorkerFlush \/ WorkerExit

Next == Main \/ Worker \/ DeadlinePasses

Spec == Init /\ [][Next]_vars

\* The threads keep running: every enabled step of the caller and of a handler
\* is eventually taken, and a mutex that is free again and again is eventually
\* granted (the browser sends finitely many requests, the model does not bound
\* them).  A request need never arrive, a spurious wakeup need never happen.
Fairness ==
    /\ WF_vars(Setup) /\ WF_vars(MainLoop) /\ WF_vars(MainCopy)
    /\ WF_vars(MainStop) /\ WF_vars(MainJoin) /\ WF_vars(MainTeardown)
    /\ WF_vars(signalled /\ MainWake) /\ WF_vars(MainDeadline)
    /\ SF_vars(MainLock) /\ SF_vars(MainRelock)
    /\ SF_vars(HandlerLock) /\ WF_vars(HandlerCapture) /\ WF_vars(HandlerUnlock)
    /\ WF_vars(HandlerRespond) /\ WF_vars(WorkerFlush) /\ WF_vars(WorkerExit)

\* No fairness for the clock: what is claimed without the deadline must not
\* depend on it.
FairSpec == Spec /\ Fairness

-----------------------------------------------------------------------------
\* Every variable has its type (the fields of loopback_ctx_t and the locals of
\* loopback_wait_for_code).
TypeOK ==
    /\ pc \in MainStates /\ rc \in {"OK", "ETIMEDOUT"}
    /\ timed_out \in BOOLEAN /\ got_code \in BOOLEAN
    /\ code_buf \in Requests /\ held \in SUBSET Resources
    /\ mutex \in {"none", "main", "worker"} /\ signalled \in BOOLEAN
    /\ received \in BOOLEAN /\ success \in BOOLEAN /\ code \in Requests
    /\ wpc \in WorkerStates /\ req \in Requests
    /\ stop \in BOOLEAN /\ late \in BOOLEAN /\ first \in SUBSET Requests

\* lc lives on the caller's stack: no handler may be anywhere between its
\* lookup of lc and its unlock once the mutex or the condition variable is
\* destroyed, and no worker may run on a server that was deinitialised.
NoUseAfterDestroy ==
    /\ wpc \in Handling => {"mutex", "cond"} \subseteq held
    /\ wpc \notin {"off", "exited"} => {"server", "platform"} \subseteq held

\* The caller tests or copies lc's fields while the handler is about to write
\* or has just written them: never both at once.
NoDataRace == ~(pc \in {"loop", "copy"} /\ wpc \in {"critical", "unlock"})

\* Both copies leave room for the terminating NUL (lines 92-96 and 215-218).
NoOverflow == /\ Size(code) < CodeMax
              /\ got_code => Size(code_buf) < CodeCap

\* Every way out of loopback_wait_for_code, the six setup failures included,
\* gives back everything it had acquired.
NoLeak == pc = "done" => held = {}

\* What must hold of lc, the record the two threads share, in every state of
\* both: it is never used after its destruction, never tested while it is
\* written, no copy into or out of it overruns, and nothing of it is leaked.
LcSafe == NoUseAfterDestroy /\ NoDataRace /\ NoOverflow /\ NoLeak

\* After the wait, "false" has a reason: the deadline passed, or the first
\* request did not carry a usable code.  A spurious wakeup is not a reason.
FailureExplained ==
    pc \in {"stop", "join", "teardown"} /\ ~got_code =>
        timed_out \/ (received /\ \A r \in first : ~Acceptable(r))

\* Once the deadline has passed the call returns: no waiting on a worker that
\* waits on the caller, whatever requests still arrive.
Terminates == late ~> (pc = "done")

\* Once a request was handled the caller returns without needing the deadline:
\* the broadcast reaches it or it sees `received' before it waits.
PromptReturn == [](received => <>(pc = "done"))

-----------------------------------------------------------------------------
(* What the listener promises, seen from oauth_run_auth_flow.              *)

OneShot == INSTANCE OneShotCode WITH
              Acceptable <- Acceptable,
              offered    <- IF received THEN first ELSE {},
              returned   <- pc \in Returning,
              value      <- code_buf

\* The listener implements the one-shot specification: the caller gets the
\* first request's code, or fails only when no usable code was captured yet.
ImplementsOneShot == OneShot!Spec

-----------------------------------------------------------------------------
(* The inductive invariant of the safety proofs (LoopbackProofs).          *)

MutexOwner ==
    /\ mutex = "main"   <=> pc \in {"loop", "copy"}
    /\ mutex = "worker" <=> wpc \in {"critical", "unlock"}

HeldAt ==
    /\ pc \in {"start", "mutex", "done"} => held = {}
    /\ pc = "cond"     => held = {"mutex"}
    /\ pc = "platform" => held = {"mutex", "cond"}
    /\ pc = "server"   => held = {"mutex", "cond", "platform"}
    /\ pc \in {"route", "task"} => held = {"mutex", "cond", "platform", "server"}
    /\ pc \in Waiting \cup {"copy", "stop", "join", "teardown"} => held = Resources

WorkerLifetime ==
    /\ pc \in {"start"} \cup SetupSteps => wpc = "off"
    /\ pc \in Waiting \cup {"copy", "stop", "join", "teardown"} => wpc # "off"
    /\ pc = "teardown" => wpc = "exited"
    /\ pc = "done" => wpc \in {"off", "exited"}
    /\ wpc = "exited" => stop
    /\ stop => pc \in {"join", "teardown", "done"}

FirstCaptured ==
    /\ first = {} \/ \E r \in Requests : first = {r}
    /\ received => first # {}
    /\ wpc = "off" => first = {}
    /\ wpc = "critical" => first # {}
    /\ first # {} /\ ~received => wpc = "critical" /\ first = {req}
    /\ ~received => ~success /\ code = NoCode
    /\ success => code \in first /\ Size(code) > 0 /\ Size(code) < CodeMax
    /\ received /\ ~success =>
          code = NoCode /\ \A r \in first : ~(Size(r) > 0 /\ Size(r) < CodeMax)

ResultIsCode ==
    /\ got_code => /\ pc \in Returning /\ success /\ code_buf = code
                   /\ Size(code) < CodeCap
    /\ ~got_code => code_buf = NoCode
    /\ pc \in {"start"} \cup SetupSteps => ~timed_out
    /\ pc = "copy" => received \/ timed_out

IInv == /\ TypeOK /\ MutexOwner /\ HeldAt /\ WorkerLifetime
        /\ FirstCaptured /\ ResultIsCode /\ FailureExplained
=============================================================================
