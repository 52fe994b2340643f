--------------------------- MODULE LoopbackProofs ---------------------------
(***************************************************************************)
(* Safety of the redirect listener for every set of codes, every length    *)
(* and every pair of buffer sizes: the inductive invariant IInv and what   *)
(* follows from it.                                                        *)
(***************************************************************************)
EXTENDS Loopback, TLAPS

\* The length of a request's code is a natural number, 0 only without a code.
LEMMA SizeType ==
    ASSUME NEW r \in Requests PROVE Size(r) \in Nat
BY CodesAssumption DEF Size, Requests

LEMMA NoCodeSize == Size(NoCode) = 0
BY DEF Size

\* The initial state satisfies the invariant: nothing acquired, no worker.
LEMMA InitInv == Init => IInv
BY CodesAssumption DEF Init, IInv, TypeOK, MutexOwner, HeldAt, WorkerLifetime,
   FirstCaptured, ResultIsCode, FailureExplained, MainStates, WorkerStates,
   SetupSteps, Waiting, Returning, Handling, Resources, Requests

\* Acquiring or failing to acquire a resource: no worker runs yet.
LEMMA SetupInv == ASSUME IInv, Setup PROVE IInv'
<1> USE DEF IInv, TypeOK, MutexOwner, HeldAt, WorkerLifetime, FirstCaptured,
        ResultIsCode, FailureExplained, MainStates, WorkerStates, SetupSteps,
        Waiting, Returning, Handling, Resources, SetupFrame, Acquired, Failed,
        lcVars, Size, Acceptable
<1>1. CASE CheckArguments BY <1>1 DEF CheckArguments
<1>2. CASE InitMutex BY <1>2 DEF InitMutex
<1>3. CASE InitCond BY <1>3 DEF InitCond
<1>4. CASE InitPlatform BY <1>4 DEF InitPlatform
<1>5. CASE InitServer BY <1>5 DEF InitServer
<1>6. CASE AddRoute BY <1>6 DEF AddRoute
<1>7. CASE RunAsync BY <1>7 DEF RunAsync
<1> QED BY <1>1, <1>2, <1>3, <1>4, <1>5, <1>6, <1>7 DEF Setup

\* A step of the caller after the setup.
LEMMA CallerInv ==
    ASSUME IInv,
           \/ MainLock \/ MainLoop \/ MainWake \/ MainDeadline \/ MainRelock
           \/ MainCopy \/ MainStop \/ MainJoin \/ MainTeardown
    PROVE  IInv'
<1> USE DEF IInv, TypeOK, MutexOwner, HeldAt, WorkerLifetime, FirstCaptured,
        ResultIsCode, FailureExplained, MainStates, WorkerStates, SetupSteps,
        Waiting, Returning, Handling, Resources, MainFrame, lcVars, workerVars,
        Size, Acceptable
<1>1. CASE MainLock BY <1>1 DEF MainLock
<1>2. CASE MainLoop
  <2>1. CASE ~received /\ ~timed_out BY <1>2, <2>1 DEF MainLoop
  <2>2. CASE ~(~received /\ ~timed_out) BY <1>2, <2>2 DEF MainLoop
  <2> QED BY <2>1, <2>2
<1>3. CASE MainWake BY <1>3 DEF MainWake
<1>4. CASE MainDeadline BY <1>4 DEF MainDeadline
<1>5. CASE MainRelock BY <1>5 DEF MainRelock
<1>6. CASE MainCopy
  <2> DEFINE Copies == received /\ success /\ Size(code) > 0 /\ Size(code) < CodeCap
  <2>1. CASE Copies BY <1>6, <2>1 DEF MainCopy
  <2>2. CASE ~Copies
    <3>1. TypeOK' /\ MutexOwner' /\ HeldAt' /\ WorkerLifetime' /\ FirstCaptured'
      BY <1>6, <2>2 DEF MainCopy
    <3>2. ResultIsCode' BY <1>6, <2>2 DEF MainCopy
    <3>3. FailureExplained' BY <1>6, <2>2 DEF MainCopy
    <3> QED BY <3>1, <3>2, <3>3
  <2> QED BY <2>1, <2>2
<1>7. CASE MainStop BY <1>7 DEF MainStop
<1>8. CASE MainJoin BY <1>8 DEF MainJoin
<1>9. CASE MainTeardown BY <1>9 DEF MainTeardown
<1> QED BY <1>1, <1>2, <1>3, <1>4, <1>5, <1>6, <1>7, <1>8, <1>9

\* A step of the worker or of the handler it runs.
LEMMA WorkerInv == ASSUME IInv, Worker PROVE IInv'
<1> USE DEF IInv, TypeOK, MutexOwner, HeldAt, WorkerLifetime, FirstCaptured,
        ResultIsCode, FailureExplained, MainStates, WorkerStates, SetupSteps,
        Waiting, Returning, Handling, Resources, WorkerFrame, lcVars, mainVars,
        Acceptable
<1>1. ASSUME NEW r \in Requests, WorkerAccept(r) PROVE IInv'
  BY <1>1 DEF WorkerAccept
<1>2. CASE HandlerLock BY <1>2 DEF HandlerLock
<1>3. CASE HandlerCapture
  <2>1. TypeOK' /\ MutexOwner' /\ HeldAt' /\ WorkerLifetime'
    <3>1. TypeOK'
      <4>1. CASE received BY <1>3, <4>1 DEF HandlerCapture
      <4>2. CASE ~received BY <1>3, <4>2, Zenon DEF HandlerCapture
      <4> QED BY <4>1, <4>2
    <3>2. MutexOwner' /\ HeldAt' /\ WorkerLifetime' BY <1>3 DEF HandlerCapture
    <3> QED BY <3>1, <3>2
  <2>2. FirstCaptured' /\ ResultIsCode' /\ FailureExplained'
    <3>1. CASE received BY <1>3, <3>1 DEF HandlerCapture
    <3>2. CASE ~received
      <4>1. first = {req} /\ ~success /\ code = NoCode
        BY <1>3, <3>2 DEF HandlerCapture
      <4>2. FirstCaptured'
        BY <1>3, <3>2, <4>1, SizeType, NoCodeSize DEF HandlerCapture
      <4>3. ResultIsCode' BY <1>3, <3>2, <4>1 DEF HandlerCapture
      <4>4. FailureExplained' BY <1>3, <3>2, <4>1 DEF HandlerCapture
      <4> QED BY <4>2, <4>3, <4>4
    <3> QED BY <3>1, <3>2
  <2> QED BY <2>1, <2>2
<1>4. CASE HandlerUnlock BY <1>4 DEF HandlerUnlock
<1>5. CASE HandlerRespond BY <1>5 DEF HandlerRespond
<1>6. CASE WorkerFlush BY <1>6 DEF WorkerFlush
<1>7. CASE WorkerExit BY <1>7 DEF WorkerExit
<1> QED BY <1>1, <1>2, <1>3, <1>4, <1>5, <1>6, <1>7 DEF Worker, Handler

\* The clock reaching the deadline touches nothing else.
LEMMA ClockInv == ASSUME IInv, DeadlinePasses PROVE IInv'
BY DEF DeadlinePasses, IInv, TypeOK, MutexOwner, HeldAt, WorkerLifetime,
   FirstCaptured, ResultIsCode, FailureExplained, lcVars, mainVars, workerVars,
   Size, Acceptable

LEMMA StepInv == IInv /\ [Next]_vars => IInv'
<1> SUFFICES ASSUME IInv, [Next]_vars PROVE IInv' OBVIOUS
<1>1. CASE Next
  BY <1>1, SetupInv, CallerInv, WorkerInv, ClockInv DEF Next, Main
<1>2. CASE UNCHANGED vars
  BY <1>2 DEF vars, mainVars, lcVars, workerVars, IInv, TypeOK, MutexOwner,
     HeldAt, WorkerLifetime, FirstCaptured, ResultIsCode, FailureExplained,
     Size, Acceptable
<1> QED BY <1>1, <1>2

\* IInv holds in every reachable state: in particular every variable keeps its
\* type, and the caller's "false" after the wait is always explained.
THEOREM Invariance == Spec => []IInv
BY InitInv, StepInv, PTL DEF Spec

\* Type correctness of the listener.
THEOREM TypeCorrect == Spec => []TypeOK
<1>1. IInv => TypeOK BY DEF IInv
<1> QED BY <1>1, Invariance, PTL

\* No handler ever runs on a destroyed mutex, condition variable or server.
THEOREM UseAfterDestroyFree == Spec => []NoUseAfterDestroy
<1>1. IInv => NoUseAfterDestroy
  BY DEF IInv, TypeOK, NoUseAfterDestroy, HeldAt, WorkerLifetime, MainStates,
     WorkerStates, SetupSteps, Waiting, Returning, Handling, Resources
<1> QED BY <1>1, Invariance, PTL

\* The caller and a handler never access lc's fields at the same time.
THEOREM DataRaceFree == Spec => []NoDataRace
<1>1. IInv => NoDataRace BY DEF IInv, NoDataRace, MutexOwner
<1> QED BY <1>1, Invariance, PTL

\* Neither the handler's nor the caller's copy overruns its buffer.
THEOREM OverflowFree == Spec => []NoOverflow
<1>1. IInv => NoOverflow
  BY SizesAssumption, NoCodeSize
     DEF IInv, NoOverflow, TypeOK, FirstCaptured, ResultIsCode
<1> QED BY <1>1, Invariance, PTL

\* Every return of loopback_wait_for_code has released what it acquired.
THEOREM LeakFree == Spec => []NoLeak
<1>1. IInv => NoLeak BY DEF IInv, NoLeak, HeldAt
<1> QED BY <1>1, Invariance, PTL

\* The four together: the record the threads share is safe.
THEOREM LcSafety == Spec => []LcSafe
BY UseAfterDestroyFree, DataRaceFree, OverflowFree, LeakFree, PTL DEF LcSafe

\* After the wait, a failure is due to the deadline or to an unusable request.
THEOREM FailuresExplained == Spec => []FailureExplained
<1>1. IInv => FailureExplained BY DEF IInv
<1> QED BY <1>1, Invariance, PTL

-----------------------------------------------------------------------------
(* The refinement.  HandlerCapture of the first request is Offer, MainCopy  *)
(* is Deliver or Fail, a setup failure is Fail; every other step stutters.  *)

LEMMA InitRefines == Init => OneShot!Init
BY DEF Init, OneShot!Init, Returning

LEMMA SetupRefines == ASSUME IInv, Setup PROVE [OneShot!Next]_(OneShot!vars)
<1> USE DEF Returning, Waiting, SetupFrame, lcVars, Acquired, Failed,
        OneShot!vars, OneShot!Next, OneShot!Fail
<1>1. pc \in {"start"} \cup SetupSteps /\ ~received
  BY DEF Setup, CheckArguments, InitMutex, InitCond, InitPlatform, InitServer,
         AddRoute, RunAsync, IInv, WorkerLifetime, FirstCaptured, SetupSteps
<1>2. UNCHANGED <<received, first, code_buf>>
  BY DEF Setup, CheckArguments, InitMutex, InitCond, InitPlatform, InitServer,
         AddRoute, RunAsync
<1> QED BY <1>1, <1>2 DEF SetupSteps

LEMMA StepRefines == IInv /\ [Next]_vars => [OneShot!Next]_(OneShot!vars)
<1> SUFFICES ASSUME IInv, [Next]_vars PROVE [OneShot!Next]_(OneShot!vars)
  OBVIOUS
<1> USE DEF OneShot!vars, OneShot!Next
<1>1. CASE Setup BY <1>1, SetupRefines
<1>2. CASE MainCopy
  <2> USE DEF MainCopy, MainFrame, lcVars, Returning
  <2>1. CASE received /\ success /\ Size(code) > 0 /\ Size(code) < CodeCap
    BY <1>2, <2>1 DEF OneShot!Deliver, IInv, FirstCaptured, Acceptable
  <2>2. CASE ~(received /\ success /\ Size(code) > 0 /\ Size(code) < CodeCap)
    <3>1. \A r \in (IF received THEN first ELSE {}) : ~Acceptable(r)
      BY <2>2 DEF IInv, FirstCaptured, Acceptable
    <3> QED BY <1>2, <2>2, <3>1 DEF OneShot!Fail
  <2> QED BY <2>1, <2>2
<1>3. CASE MainLock \/ MainLoop \/ MainWake \/ MainDeadline \/ MainRelock
           \/ MainStop \/ MainJoin \/ MainTeardown
  BY <1>3 DEF MainLock, MainLoop, MainWake, MainDeadline, MainRelock, MainStop,
     MainJoin, MainTeardown, MainFrame, lcVars, Returning
<1>4. CASE HandlerCapture
  <2> USE DEF HandlerCapture, WorkerFrame, mainVars, lcVars
  <2>1. CASE received BY <1>4, <2>1
  <2>2. CASE ~received
    <3>1. first = {req} /\ req \in Codes \cup {NoCode}
      BY <1>4, <2>2 DEF IInv, FirstCaptured, TypeOK, Requests
    <3> QED BY <1>4, <2>2, <3>1 DEF OneShot!Offer
  <2> QED BY <2>1, <2>2
<1>5. CASE HandlerLock
  BY <1>5 DEF HandlerLock, WorkerFrame, mainVars, lcVars, IInv, FirstCaptured
<1>6. CASE \/ \E r \in Requests : WorkerAccept(r)
           \/ HandlerUnlock \/ HandlerRespond \/ WorkerFlush \/ WorkerExit
  BY <1>6 DEF WorkerAccept, HandlerUnlock, HandlerRespond, WorkerFlush,
     WorkerExit, WorkerFrame, mainVars, lcVars
<1>7. CASE DeadlinePasses BY <1>7 DEF DeadlinePasses, mainVars, lcVars
<1>8. CASE UNCHANGED vars BY <1>8 DEF vars, mainVars, lcVars
<1> QED
  BY <1>1, <1>2, <1>3, <1>4, <1>5, <1>6, <1>7, <1>8
     DEF Next, Main, Worker, Handler

\* The listener with its two threads implements the one-shot specification.
THEOREM Refinement == Spec => ImplementsOneShot
BY InitRefines, StepRefines, Invariance, PTL
   DEF Spec, ImplementsOneShot, OneShot!Spec
=============================================================================
