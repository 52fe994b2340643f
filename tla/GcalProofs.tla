----------------------------- MODULE GcalProofs -----------------------------
(***************************************************************************)
(* Safety of gcal_c_sample for any number of runs: the inductive invariant *)
(* IInv, and the four invariants and the action property that follow from  *)
(* it.                                                                     *)
(***************************************************************************)
EXTENDS Gcal, TLAPS

\* A run under way has a number, and was started with a mode.
RunNumbered == pc # "off" => run \in Runs /\ mode \in {"auth", "list"}

\* While a code is waited for and exchanged the verifier is this run's.
VerifierIsRuns ==
    pc \in {"browser", "wait", "exchange", "exchanging"} => verifier = run

\* http_helper_do is active exactly while one of its three callers waits for
\* it, and every one of its steps knows what it has open.
HelperAt ==
    /\ (hpc # "idle") <=> (pc \in Calls)
    /\ hpc \in {"idle", "init", "returned"} => hopen = {}
    /\ hpc = "connect" => hopen = {"endpoint"}

\* An exchange on the wire, however old, carries its own run's verifier.
WireOwn ==
    \A r \in wire : r.run \in Runs /\ (r.kind = "exchanging" => r.verifier = r.run)

\* What an exchange returned, and what is about to be saved, was issued for
\* this run's verifier.
GrantIsRuns ==
    /\ pc = "exchanging" /\ resp.refresh # None =>
           resp.refresh = run /\ run \in issued
    /\ pc \in {"store", "save"} => token = run /\ run \in issued
    /\ pc = "save" => cfg.refresh_token = token

\* Once the token is being used the run is not one that only authorises.
\* (After --auth main returns before the listing.)
ListsOnly == pc \in {"refresh", "refreshing", "listing"} => mode = "list"

FlowInv ==
    /\ RunNumbered /\ VerifierIsRuns /\ HelperAt /\ WireOwn /\ GrantIsRuns
    /\ ListsOnly /\ StoresOwnGrantOnly /\ AuthExitMeansStored /\ UsesStoredToken

IInv == TypeOK /\ FlowInv

-----------------------------------------------------------------------------
\* Nothing runs before the first start, and nothing is stored.
LEMMA InitInv == Init => IInv
<1> SUFFICES ASSUME Init PROVE IInv OBVIOUS
<1>1. TypeOK
  <2>1. MainType BY RunsAssumption DEF Init, MainType, None
  <2>2. OauthType BY DEF Init, OauthType, AccessTokens
  <2>3. ListenerType BY DEF Init, ListenerType
  <2>4. HttpType BY DEF Init, HttpType, Replies, NoResponse, AccessTokens
  <2>5. GoogleType BY DEF Init, GoogleType
  <2> QED BY <2>1, <2>2, <2>3, <2>4, <2>5 DEF TypeOK
<1>2. FlowInv
  BY DEF Init, FlowInv, RunNumbered, VerifierIsRuns, HelperAt, WireOwn, GrantIsRuns,
     ListsOnly, StoresOwnGrantOnly, AuthExitMeansStored, UsesStoredToken, None, Calls
<1> QED BY <1>1, <1>2 DEF IInv

\* What Google does with a request on the wire: the tokens issued only grow,
\* and a refresh token is the reply only to an exchange with its own verifier.
LEMMA ServeGrants ==
    ASSUME IInv, NEW request \in wire, NEW reply \in Replies, Serve(request, reply)
    PROVE  /\ used' \in SUBSET Runs /\ issued' \in SUBSET Runs
           /\ issued \subseteq issued'
           /\ reply.refresh # None =>
                  /\ request.kind = "exchanging"
                  /\ reply.refresh = request.run /\ request.run \in issued'
BY DEF IInv, FlowInv, TypeOK, GoogleType, WireOwn, Serve

\* Every step keeps the types.
LEMMA MainTypeInv == ASSUME IInv, [Next]_vars PROVE MainType'
BY RunsAssumption DEF IInv, TypeOK, MainType, Calls, Goto, ExitWith, None,
   mainVars, vars, HttpFrame, Next, Main, HttpHelper, HttpLocal, Start, LoadConfig, MakePkce,
   OpenBrowser, WaitDelivers, WaitFails, EncodeExchange, ExchangeReturns,
   StoreToken, SaveConfig, EncodeRefresh, RefreshReturns, ListReturns,
   EndpointInit, EndpointConnect, BuildHeaders, InitRequest, SendRequest,
   ReceiveResponse, ReceiveFails, Redirect, LateServe, Crash

LEMMA OauthTypeInv == ASSUME IInv, [Next]_vars PROVE OauthType'
<1> OauthType /\ MainType /\ HttpType BY DEF IInv, TypeOK
<1> USE DEF OauthType, oauthVars
<1>1. CASE Start BY <1>1 DEF Start, AccessTokens
<1>2. CASE LoadConfig
  <2>1. ASSUME NEW b \in BOOLEAN
        PROVE  [refresh_token |-> disk.token, have_refresh_token |-> b]
                  \in [refresh_token : {None} \cup Runs, have_refresh_token : BOOLEAN]
    OBVIOUS
  <2>2. cfg' = cfg \/ \E b \in BOOLEAN :
           cfg' = [refresh_token |-> disk.token, have_refresh_token |-> b]
    BY <1>2, Zenon DEF LoadConfig
  <2> QED BY <1>2, <2>1, <2>2 DEF LoadConfig
<1>3. CASE MakePkce BY <1>3, RunsAssumption DEF MakePkce, MainType, Runs, None
<1>4. CASE ExchangeReturns BY <1>4 DEF ExchangeReturns, HttpType, Replies
<1>5. CASE StoreToken BY <1>5 DEF StoreToken
<1>6. CASE SaveConfig
  <2>1. run \in Runs BY <1>6 DEF SaveConfig, IInv, FlowInv, RunNumbered
  <2>2. /\ cfg.refresh_token \in {None} \cup Runs
        /\ disk.escapes \in BOOLEAN
    OBVIOUS
  <2>3. ASSUME NEW b \in BOOLEAN
        PROVE  [token |-> cfg.refresh_token, by |-> run, parses |-> b,
                escapes |-> disk.escapes]
                  \in [token : {None} \cup Runs, by : {None} \cup Runs,
                       parses : BOOLEAN, escapes : BOOLEAN]
    BY <2>1, <2>2
  <2>4. disk' = disk \/ \E b \in BOOLEAN :
           disk' = [token |-> cfg.refresh_token, by |-> run, parses |-> b,
                    escapes |-> disk.escapes]
    BY <1>6, Zenon DEF SaveConfig
  <2> QED BY <1>6, <2>3, <2>4 DEF SaveConfig
<1>7. CASE RefreshReturns BY <1>7 DEF RefreshReturns, HttpType, Replies
<1>8. CASE UNCHANGED oauthVars BY <1>8
<1> QED BY <1>1, <1>2, <1>3, <1>4, <1>5, <1>6, <1>7, <1>8
        DEF vars, HttpFrame, Next, Main, HttpHelper, HttpLocal, OpenBrowser, WaitDelivers,
        WaitFails, EncodeExchange, EncodeRefresh, ListReturns,
        EndpointInit, EndpointConnect, BuildHeaders, InitRequest, SendRequest,
        ReceiveResponse, ReceiveFails, Redirect, LateServe, Crash

LEMMA NoResponseType == NoResponse \in Replies
BY DEF NoResponse, Replies, AccessTokens

LEMMA HttpTypeInv == ASSUME IInv, [Next]_vars PROVE HttpType'
<1> HttpType BY DEF IInv, TypeOK
<1> USE DEF HttpType, httpVars, HttpReturns
<1>1. CASE EncodeExchange \/ EncodeRefresh
  <2>1. resp' \in Replies BY <1>1, NoResponseType DEF EncodeExchange, EncodeRefresh
  <2> QED BY <1>1, <2>1 DEF EncodeExchange, EncodeRefresh
<1>2. CASE ExchangeReturns \/ RefreshReturns \/ ListReturns
  BY <1>2 DEF ExchangeReturns, RefreshReturns, ListReturns
<1>3. CASE EndpointInit
  <2>1. hopen' \in SUBSET {"endpoint", "conn"} BY <1>3 DEF EndpointInit
  <2> QED BY <1>3, <2>1 DEF EndpointInit
<1>4. CASE EndpointConnect
  <2>1. hopen' \in SUBSET {"endpoint", "conn"} BY <1>4 DEF EndpointConnect
  <2> QED BY <1>4, <2>1 DEF EndpointConnect
<1>5. CASE BuildHeaders
  <2>1. hopen' \in SUBSET {"endpoint", "conn"} BY <1>5 DEF BuildHeaders
  <2> QED BY <1>5, <2>1 DEF BuildHeaders
<1>6. CASE InitRequest
  <2>1. hopen' \in SUBSET {"endpoint", "conn"} BY <1>6 DEF InitRequest
  <2> QED BY <1>6, <2>1 DEF InitRequest
<1>7. CASE SendRequest
  <2>1. hopen' \in SUBSET {"endpoint", "conn"} BY <1>7 DEF SendRequest
  <2>2. resp' \in Replies BY <1>7, NoResponseType DEF SendRequest
  <2> QED BY <1>7, <2>1, <2>2 DEF SendRequest
<1>8. CASE ReceiveResponse BY <1>8 DEF ReceiveResponse
<1>9. CASE ReceiveFails BY <1>9 DEF ReceiveFails
<1>10. CASE Crash BY <1>10 DEF Crash
<1>11. CASE UNCHANGED httpVars BY <1>11
<1> QED BY <1>1, <1>2, <1>3, <1>4, <1>5, <1>6, <1>7, <1>8, <1>9, <1>10, <1>11
        DEF vars, Next, Main, HttpHelper, HttpLocal, Start, LoadConfig, MakePkce, OpenBrowser,
        WaitDelivers, WaitFails, StoreToken, SaveConfig, Redirect, LateServe

LEMMA ListenerTypeInv == ASSUME IInv, [Next]_vars PROVE ListenerType'
BY DEF IInv, TypeOK, ListenerType, GoogleType, lbVars, Listener!Offer,
   Listener!Deliver, Listener!Fail, vars, HttpFrame, Next, Main, HttpHelper, HttpLocal, Start,
   LoadConfig, MakePkce, OpenBrowser, WaitDelivers, WaitFails, EncodeExchange,
   ExchangeReturns, StoreToken, SaveConfig, EncodeRefresh, RefreshReturns,
   ListReturns, EndpointInit, EndpointConnect, BuildHeaders, InitRequest,
   SendRequest, ReceiveResponse, ReceiveFails, Redirect, LateServe, Crash

LEMMA GoogleTypeInv == ASSUME IInv, [Next]_vars PROVE GoogleType'
<1> GoogleType BY DEF IInv, TypeOK
<1> USE DEF GoogleType, googleVars
<1>1. CASE OpenBrowser
  BY <1>1 DEF OpenBrowser, IInv, FlowInv, VerifierIsRuns, RunNumbered
<1>2. CASE ReceiveResponse BY <1>2, ServeGrants DEF ReceiveResponse
<1>3. CASE LateServe BY <1>3, ServeGrants DEF LateServe
<1>4. CASE UNCHANGED <<tabs, used, issued>> BY <1>4
<1> QED BY <1>1, <1>2, <1>3, <1>4
        DEF vars, HttpFrame, Next, Main, HttpHelper, HttpLocal, Start, LoadConfig, MakePkce,
        WaitDelivers, WaitFails, EncodeExchange, ExchangeReturns, StoreToken,
        SaveConfig, EncodeRefresh, RefreshReturns, ListReturns, EndpointInit,
        EndpointConnect, BuildHeaders, InitRequest, SendRequest, ReceiveFails,
        Redirect, Crash

LEMMA TypeInv == ASSUME IInv, [Next]_vars PROVE TypeOK'
BY MainTypeInv, OauthTypeInv, ListenerTypeInv, HttpTypeInv, GoogleTypeInv DEF TypeOK

\* A new run.
LEMMA StartInv == ASSUME IInv, Start PROVE FlowInv'
BY RunsAssumption DEF Start, httpVars, googleVars, IInv, FlowInv, TypeOK, MainType,
   RunNumbered, VerifierIsRuns, HelperAt, WireOwn, GrantIsRuns, ListsOnly,
   StoresOwnGrantOnly, AuthExitMeansStored, UsesStoredToken, Runs, Calls

\* A step of main or of the OAuth flow.
LEMMA MainInv == ASSUME IInv, Main PROVE FlowInv'
<1> USE DEF IInv, FlowInv, RunNumbered, VerifierIsRuns, HelperAt, WireOwn,
        GrantIsRuns, ListsOnly, StoresOwnGrantOnly, AuthExitMeansStored,
        UsesStoredToken, Calls, Goto, ExitWith,
        mainVars, oauthVars, lbVars, httpVars, googleVars
<1>1. CASE LoadConfig
  <2>1. CASE disk.token = None
    <3>1. ASSUME cfg' = [refresh_token |-> disk.token,
                         have_refresh_token |-> disk.token # None]
          PROVE  ~cfg'.have_refresh_token
      BY <2>1, <3>1
    <3>2. pc' \in {"off", "pkce"} BY <1>1, <3>1, Zenon DEF LoadConfig
    <3> QED BY <1>1, <3>2 DEF LoadConfig
  <2>2. CASE disk.token # None BY <1>1, <2>2 DEF LoadConfig
  <2> QED BY <2>1, <2>2
<1>2. CASE MakePkce BY <1>2 DEF MakePkce
<1>3. CASE OpenBrowser BY <1>3 DEF OpenBrowser
<1>4. CASE WaitDelivers BY <1>4 DEF WaitDelivers, Listener!Deliver
<1>5. CASE WaitFails BY <1>5 DEF WaitFails, Listener!Fail
<1>6. CASE EncodeExchange BY <1>6 DEF EncodeExchange, NoResponse
<1>7. CASE ExchangeReturns BY <1>7 DEF ExchangeReturns, TokenEndpointAnswers
<1>8. CASE StoreToken BY <1>8 DEF StoreToken
<1>9. CASE SaveConfig
  <2>1. UsesStoredToken'
    <3>1. pc' \in {"refresh", "refreshing", "listing"} =>
             /\ disk'.by = run /\ disk'.token = cfg.refresh_token
             /\ disk'.parses = ~disk.escapes /\ disk'.escapes = disk.escapes
      BY <1>9 DEF SaveConfig
    <3>2. disk'.parses = ~disk.escapes /\ disk'.escapes = disk.escapes =>
             disk'.parses \/ disk'.escapes
      BY Zenon
    <3>3. cfg' = cfg /\ run' = run /\ run # None /\ cfg.refresh_token = run
      BY <1>9 DEF SaveConfig, Runs, None
    <3> QED BY <3>1, <3>2, <3>3, Zenon
  <2> QED BY <1>9, <2>1 DEF SaveConfig, Runs, None
<1>10. CASE EncodeRefresh BY <1>10 DEF EncodeRefresh
<1>11. CASE RefreshReturns BY <1>11 DEF RefreshReturns
<1>12. CASE ListReturns BY <1>12 DEF ListReturns
<1> QED BY <1>1, <1>2, <1>3, <1>4, <1>5, <1>6, <1>7, <1>8, <1>9, <1>10,
           <1>11, <1>12 DEF Main

\* A step of http_helper_do up to the request on the wire, or a failed receive.
LEMMA HelperInv == ASSUME IInv, HttpHelper \/ ReceiveFails PROVE FlowInv'
<1> USE DEF IInv, FlowInv, RunNumbered, VerifierIsRuns, HelperAt, WireOwn,
        GrantIsRuns, ListsOnly, StoresOwnGrantOnly, AuthExitMeansStored,
        UsesStoredToken, HttpFrame, HttpReturns, mainVars, oauthVars, lbVars
<1>1. CASE EndpointInit BY <1>1 DEF EndpointInit
<1>2. CASE EndpointConnect BY <1>2 DEF EndpointConnect
<1>3. CASE BuildHeaders BY <1>3 DEF BuildHeaders, TypeOK, HttpType
<1>4. CASE InitRequest BY <1>4 DEF InitRequest, TypeOK, HttpType
<1>5. CASE SendRequest
  <2>1. WireOwn' BY <1>5 DEF SendRequest, Calls
  <2>2. HelperAt' BY <1>5 DEF SendRequest, TypeOK, HttpType
  <2> QED BY <1>5, <2>1, <2>2 DEF SendRequest, NoResponse
<1>6. CASE ReceiveFails BY <1>6 DEF ReceiveFails, TypeOK, HttpType
<1> QED BY <1>1, <1>2, <1>3, <1>4, <1>5, <1>6 DEF HttpHelper, HttpLocal

\* The reply to the call under way.
LEMMA ReceiveInv == ASSUME IInv, ReceiveResponse PROVE FlowInv'
<1>1. PICK request \in wire, reply \in Replies :
         /\ request.kind = pc /\ request.run = run
         /\ Serve(request, reply)
         /\ wire' = wire \ {request}
         /\ resp' = reply
  BY DEF ReceiveResponse
<1>2. /\ issued \subseteq issued'
      /\ reply.refresh # None =>
             /\ request.kind = "exchanging"
             /\ reply.refresh = request.run /\ request.run \in issued'
  BY <1>1, ServeGrants
<1> QED BY <1>1, <1>2 DEF ReceiveResponse, HttpReturns, mainVars, oauthVars, lbVars,
        IInv, FlowInv, TypeOK, HttpType, RunNumbered, VerifierIsRuns, HelperAt, WireOwn,
        GrantIsRuns, ListsOnly, StoresOwnGrantOnly, AuthExitMeansStored,
        UsesStoredToken

\* A reply nobody waits for.
LEMMA LateServeInv == ASSUME IInv, LateServe PROVE FlowInv'
<1>1. issued \subseteq issued' /\ wire' \subseteq wire
  BY ServeGrants DEF LateServe
<1> QED BY <1>1 DEF LateServe, mainVars, oauthVars, lbVars, httpVars,
        IInv, FlowInv, RunNumbered, VerifierIsRuns, HelperAt, WireOwn,
        GrantIsRuns, ListsOnly, StoresOwnGrantOnly, AuthExitMeansStored,
        UsesStoredToken

\* A browser request reaches the listener.
LEMMA RedirectInv == ASSUME IInv, Redirect PROVE FlowInv'
BY DEF Redirect, Listener!Offer, mainVars, oauthVars, httpVars, googleVars,
   IInv, FlowInv, RunNumbered, VerifierIsRuns, HelperAt, WireOwn, GrantIsRuns,
   ListsOnly, StoresOwnGrantOnly, AuthExitMeansStored, UsesStoredToken

\* The run is killed wherever it is.
LEMMA CrashInv == ASSUME IInv, Crash PROVE FlowInv'
BY DEF Crash, oauthVars, lbVars, googleVars, IInv, FlowInv, RunNumbered,
   VerifierIsRuns, HelperAt, WireOwn, GrantIsRuns, ListsOnly, StoresOwnGrantOnly,
   AuthExitMeansStored, UsesStoredToken, Calls

LEMMA NextInv == ASSUME IInv, [Next]_vars PROVE IInv'
<1>1. CASE Next
  BY <1>1, TypeInv, StartInv, MainInv, HelperInv, ReceiveInv, LateServeInv,
     RedirectInv, CrashInv DEF Next, IInv
<1>2. CASE UNCHANGED vars
  BY <1>2, TypeInv DEF vars, mainVars, oauthVars, lbVars, httpVars, googleVars,
     IInv, FlowInv, RunNumbered, VerifierIsRuns, HelperAt, WireOwn, GrantIsRuns,
     ListsOnly, StoresOwnGrantOnly, AuthExitMeansStored, UsesStoredToken
<1> QED BY <1>1, <1>2

\* The invariant holds of every run of the program, for every bound on the
\* number of runs.
THEOREM Invariance == Spec => []IInv
BY InitInv, NextInv, PTL DEF Spec

-----------------------------------------------------------------------------
\* PKCE at work, for any number of runs and stale tabs: what is on disk was
\* issued by Google to the very run that wrote it.
THEOREM OwnGrant == Spec => []StoresOwnGrantOnly
<1>1. IInv => StoresOwnGrantOnly BY DEF IInv, FlowInv
<1> QED BY <1>1, Invariance, PTL

\* The promise of oauth.h: a run with --auth that exits 0 has its own token on
\* disk.
THEOREM AuthStored == Spec => []AuthExitMeansStored
<1>1. IInv => AuthExitMeansStored BY DEF IInv, FlowInv
<1> QED BY <1>1, Invariance, PTL

\* The token presented to Google is the one config.json holds, in a file that
\* loads unless this run has just saved strings that needed escaping.
THEOREM StoredTokenUsed == Spec => []UsesStoredToken
<1>1. IInv => UsesStoredToken BY DEF IInv, FlowInv
<1> QED BY <1>1, Invariance, PTL

\* Every return of http_helper_do has closed what it had opened.
THEOREM HelperReleases == Spec => []NoHttpLeak
<1>1. IInv => NoHttpLeak BY DEF IInv, FlowInv, HelperAt, NoHttpLeak
<1> QED BY <1>1, Invariance, PTL

\* The only step that writes the configuration writes the run's own grant, so a
\* stored token is replaced and never dropped.
LEMMA OnlySaveWrites ==
    ASSUME IInv, [Next]_vars, disk.token # None PROVE disk'.token # None
<1>1. CASE SaveConfig
  BY <1>1 DEF SaveConfig, IInv, FlowInv, RunNumbered, GrantIsRuns, Runs, None
<1>2. CASE [Next]_vars /\ ~SaveConfig
  BY <1>2 DEF Next, Main, HttpHelper, HttpLocal, Start, LoadConfig, MakePkce, OpenBrowser,
     WaitDelivers, WaitFails, EncodeExchange, ExchangeReturns, StoreToken,
     EncodeRefresh, RefreshReturns, ListReturns, EndpointInit, EndpointConnect,
     BuildHeaders, InitRequest, SendRequest, ReceiveResponse, ReceiveFails,
     Redirect, LateServe, Crash, HttpFrame, vars, oauthVars
<1> QED BY <1>1, <1>2

\* A stored refresh token survives every later run, whatever happens to it.
THEOREM TokenKept == Spec => TokenNotLost
<1>1. IInv /\ [Next]_vars => [disk.token # None => disk'.token # None]_disk
  BY OnlySaveWrites
<1> QED BY <1>1, Invariance, PTL DEF Spec, TokenNotLost
=============================================================================
