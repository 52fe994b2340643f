-------------------------------- MODULE Gcal --------------------------------
(***************************************************************************)
(* A run of gcal_c_sample (c/gmail-calendar): main.c, the OAuth flow of    *)
(* oauth.c, the HTTPS calls of http_helper.c and the listing of            *)
(* calendar.c, against Google's endpoints and a user's browser; and one    *)
(* run after another, because a run may fail or be killed anywhere and the *)
(* next one starts from what is on disk.                                   *)
(*                                                                         *)
(* The listener is its abstract specification OneShotCode, which Loopback  *)
(* implements; saving the configuration is one step, old or new, which     *)
(* ConfigFile shows it to be for runs that follow one another.             *)
(*                                                                         *)
(* Everything that PKCE ties together is named by the run that generated   *)
(* the verifier: the verifier itself, the URL with its challenge, a code   *)
(* granted on that URL, the refresh token exchanged for that code.         *)
(***************************************************************************)
EXTENDS Naturals

CONSTANT MaxRuns    \* bound on the number of runs

ASSUME RunsAssumption == MaxRuns \in Nat \ {0}

Runs == 1..MaxRuns
None == 0

VARIABLES
    pc, mode, exit, run,         \* main
    cfg, verifier, token, access, \* gcal_oauth_t; locals of the flow and of main
    disk,                        \* config.json
    offered, returned, value,    \* the loopback listener of this run
    hpc, hopen, hret,            \* http_helper_do
    resp,                        \* what it received
    wire, tabs, used, issued     \* the network, the browser, Google

mainVars   == <<pc, mode, exit, run>>
oauthVars  == <<cfg, verifier, token, access, disk>>
lbVars     == <<offered, returned, value>>
httpVars   == <<hpc, hopen, hret, resp>>
googleVars == <<wire, tabs, used, issued>>
vars == <<mainVars, oauthVars, lbVars, httpVars, googleVars>>

Listener == INSTANCE OneShotCode WITH
    Codes <- Runs, NoCode <- None, Acceptable <- LAMBDA c : c # None

\* The access token of a reply: absent, an empty string, short enough for a
\* request header, or accepted by oauth.c and too long for http_helper.c.
AccessTokens == {"missing", "empty", "short", "long"}
NoResponse == [ok |-> FALSE, access |-> "missing", refresh |-> None]
Calls == {"exchanging", "refreshing", "listing"}

\* The configuration the user wrote, well formed and without a token; some
\* string of it may hold a quotation mark, escaped as JSON wants it.
Init ==
    /\ pc = "off" /\ mode = "list" /\ exit = None /\ run = 0
    /\ cfg = [refresh_token |-> None, have_refresh_token |-> FALSE]
    /\ verifier = None /\ token = None /\ access = "missing"
    /\ \E e \in BOOLEAN :
          disk = [token |-> None, parses |-> TRUE, by |-> None, escapes |-> e]
    /\ offered = {} /\ returned = FALSE /\ value = None
    /\ hpc = "idle" /\ hopen = {} /\ hret = 0 /\ resp = NoResponse
    /\ wire = {} /\ tabs = {} /\ used = {} /\ issued = {}

-----------------------------------------------------------------------------
(* main                                                                     *)

Goto(p) == pc' = p /\ UNCHANGED <<mode, exit, run>>

\* The run returns this status from main.
ExitWith(status) == pc' = "off" /\ exit' = status /\ UNCHANGED <<mode, run>>

\* A new run: the arguments choose the mode; a wrong argument prints the usage.
Start ==
    /\ pc = "off" /\ run < MaxRuns
    /\ run' = run + 1
    /\ \/ mode' \in {"auth", "list"} /\ pc' = "load" /\ exit' = None
       \/ mode' = "usage" /\ pc' = "off" /\ exit' = 1
    /\ offered' = {} /\ returned' = FALSE /\ value' = None
    /\ verifier' = None /\ token' = None /\ access' = "missing"
    /\ UNCHANGED <<cfg, disk, httpVars, googleVars>>

\* oauth_load_config: fails when the file cannot be read or parsed; the token
\* is optional.  main then decides whether to authorise first.
LoadConfig ==
    /\ pc = "load"
    /\ \/ ExitWith(1) /\ UNCHANGED cfg
       \/ /\ disk.parses
          /\ cfg' = [refresh_token |-> disk.token,
                     have_refresh_token |-> disk.token # None]
          /\ Goto(IF mode = "auth" \/ ~cfg'.have_refresh_token
                    THEN "pkce" ELSE "refresh")
    /\ UNCHANGED <<verifier, token, access, disk, lbVars, httpVars, googleVars>>

-----------------------------------------------------------------------------
(* oauth_run_auth_flow                                                      *)

\* Fault: the verifier is generated once and kept for every flow.
MakePkceOnce ==
    /\ pc = "pkce"
    /\ verifier' = 1 /\ Goto("browser")
    /\ UNCHANGED <<cfg, token, access, disk, lbVars, httpVars, googleVars>>

\* make_pkce: fresh random bytes for every flow.
MakePkce ==
    /\ pc = "pkce"
    /\ \/ verifier' = run /\ Goto("browser")
       \/ ExitWith(2) /\ UNCHANGED verifier
    /\ UNCHANGED <<cfg, token, access, disk, lbVars, httpVars, googleVars>>

\* The URL is built (it may not fit) and shown; open_browser's result is
\* ignored.  The user can approve from now on, the listener is not up yet.
OpenBrowser ==
    /\ pc = "browser"
    /\ \/ tabs' = tabs \cup {verifier} /\ Goto("wait")
       \/ ExitWith(2) /\ UNCHANGED tabs
    /\ UNCHANGED <<oauthVars, lbVars, httpVars, wire, used, issued>>

\* A browser request reaches the listener while it is up: a redirect with a
\* code granted on any URL opened so far, an old tab's included, or a request
\* without a code.
Redirect ==
    /\ pc = "wait"
    /\ \E c \in tabs \cup {None} : Listener!Offer(c)
    /\ UNCHANGED <<mainVars, oauthVars, httpVars, googleVars>>

\* loopback_wait_for_code returns true.
WaitDelivers ==
    /\ pc = "wait" /\ Listener!Deliver
    /\ Goto("exchange")
    /\ UNCHANGED <<oauthVars, httpVars, googleVars>>

\* Fault: a failed authorisation erases the stored token.
WaitFailsErases ==
    /\ pc = "wait" /\ Listener!Fail
    /\ ExitWith(2)
    /\ disk' = [disk EXCEPT !.token = None, !.by = None]
    /\ UNCHANGED <<cfg, verifier, token, access, httpVars, googleVars>>

\* Fault: the listener waits without a deadline.
WaitFailsOnRequest ==
    /\ pc = "wait" /\ Listener!Fail /\ offered # {}
    /\ ExitWith(2)
    /\ UNCHANGED <<oauthVars, httpVars, googleVars>>

\* It returns false: set-up failure, timeout, or an unusable first request.
WaitFails ==
    /\ pc = "wait" /\ Listener!Fail
    /\ ExitWith(2)
    /\ UNCHANGED <<oauthVars, httpVars, googleVars>>

\* The code is encoded into the body of the token request, which may not fit.
EncodeExchange ==
    /\ pc = "exchange"
    /\ \/ Goto("exchanging") /\ hpc' = "init" /\ resp' = NoResponse
       \/ ExitWith(2) /\ UNCHANGED <<hpc, resp>>
    /\ UNCHANGED <<oauthVars, lbVars, hopen, hret, googleVars>>

\* token_endpoint_post, back from http_helper_do: a 2xx answer that parses and
\* has an access token.  The refresh token is optional here.
TokenEndpointAnswers == hret = 0 /\ resp.ok /\ resp.access # "missing"

\* oauth_run_auth_flow insists on a refresh token.
ExchangeReturns ==
    /\ pc = "exchanging" /\ hpc = "returned"
    /\ IF TokenEndpointAnswers /\ resp.refresh # None
         THEN token' = resp.refresh /\ Goto("store")
         ELSE ExitWith(2) /\ UNCHANGED token
    /\ hpc' = "idle"
    /\ UNCHANGED <<cfg, verifier, access, disk, lbVars, hopen, hret, resp, googleVars>>

\* The configuration in memory gets the token before it is saved.
StoreToken ==
    /\ pc = "store"
    /\ cfg' = [refresh_token |-> token, have_refresh_token |-> TRUE]
    /\ Goto("save")
    /\ UNCHANGED <<verifier, token, access, disk, lbVars, httpVars, googleVars>>

\* Fault: a failed save is reported only in --auth mode.
SaveConfigLenient ==
    /\ pc = "save"
    /\ \/ /\ disk' = [token |-> cfg.refresh_token, by |-> run,
                      parses |-> ~disk.escapes, escapes |-> disk.escapes]
          /\ IF mode = "auth" THEN ExitWith(0) ELSE Goto("refresh")
       \/ /\ UNCHANGED disk
          /\ IF mode = "auth" THEN ExitWith(2) ELSE Goto("refresh")
    /\ UNCHANGED <<cfg, verifier, token, access, lbVars, httpVars, googleVars>>

\* Fault: the result of oauth_save_config is ignored at the end of --auth.
SaveConfigIgnored ==
    /\ pc = "save"
    /\ \/ /\ disk' = [token |-> cfg.refresh_token, by |-> run,
                      parses |-> ~disk.escapes, escapes |-> disk.escapes]
          /\ IF mode = "auth" THEN ExitWith(0) ELSE Goto("refresh")
       \/ UNCHANGED disk /\ ExitWith(IF mode = "auth" THEN 0 ELSE 2)
    /\ UNCHANGED <<cfg, verifier, token, access, lbVars, httpVars, googleVars>>

\* oauth_save_config.  The strings are written as they are, unescaped, so that
\* a configuration that needs an escape cannot be loaded again.
SaveConfig ==
    /\ pc = "save"
    /\ \/ /\ disk' = [token |-> cfg.refresh_token, by |-> run,
                      parses |-> ~disk.escapes, escapes |-> disk.escapes]
          /\ IF mode = "auth" THEN ExitWith(0) ELSE Goto("refresh")
       \/ ExitWith(2) /\ UNCHANGED disk
    /\ UNCHANGED <<cfg, verifier, token, access, lbVars, httpVars, googleVars>>

-----------------------------------------------------------------------------
(* oauth_get_access_token and calendar_list_events                          *)

EncodeRefresh ==
    /\ pc = "refresh"
    /\ \/ /\ cfg.have_refresh_token
          /\ Goto("refreshing") /\ hpc' = "init" /\ resp' = NoResponse
       \/ ExitWith(3) /\ UNCHANGED <<hpc, resp>>
    /\ UNCHANGED <<oauthVars, lbVars, hopen, hret, googleVars>>

RefreshReturns ==
    /\ pc = "refreshing" /\ hpc = "returned"
    /\ IF TokenEndpointAnswers
         THEN access' = resp.access /\ Goto("listing") /\ hpc' = "init"
         ELSE UNCHANGED access /\ ExitWith(3) /\ hpc' = "idle"
    /\ UNCHANGED <<cfg, verifier, token, disk, lbVars, hopen, hret, resp, googleVars>>

\* The status, then the shape of the JSON, then every event must be right.
ListReturns ==
    /\ pc = "listing" /\ hpc = "returned"
    /\ \/ hret = 0 /\ resp.ok /\ ExitWith(0)
       \/ ExitWith(4)
    /\ hpc' = "idle"
    /\ UNCHANGED <<oauthVars, lbVars, hopen, hret, resp, googleVars>>

-----------------------------------------------------------------------------
(* http_helper_do: each step may fail with its own code, after releasing    *)
(* what the code names on that path.                                        *)

HttpFrame == UNCHANGED <<mainVars, oauthVars, lbVars, tabs, used, issued>>

HttpReturns(code, released) ==
    /\ hret' = code /\ hpc' = "returned" /\ hopen' = hopen \ released

EndpointInit ==
    /\ hpc = "init"
    /\ \/ hpc' = "connect" /\ hopen' = hopen \cup {"endpoint"} /\ hret' = hret
       \/ HttpReturns(1, {})
    /\ UNCHANGED <<resp, wire>> /\ HttpFrame

\* Fault: a failed connect forgets endpoint_deinit.
EndpointConnectLeaks ==
    /\ hpc = "connect"
    /\ \/ hpc' = "headers" /\ hopen' = hopen \cup {"conn"} /\ hret' = hret
       \/ HttpReturns(2, {})
    /\ UNCHANGED <<resp, wire>> /\ HttpFrame

EndpointConnect ==
    /\ hpc = "connect"
    /\ \/ hpc' = "headers" /\ hopen' = hopen \cup {"conn"} /\ hret' = hret
       \/ HttpReturns(2, {"endpoint"})
    /\ UNCHANGED <<resp, wire>> /\ HttpFrame

\* req->bearer_token: only the calendar request has one.
Bearer == IF pc = "listing" THEN access ELSE "missing"

\* A bearer token that oauth.c accepted (2047 characters) may still be too long
\* for auth_buf (504 characters after "Bearer ").
BuildHeaders ==
    /\ hpc = "headers"
    /\ \/ /\ Bearer # "long"
          /\ hpc' = "request" /\ UNCHANGED <<hopen, hret>>
       \/ HttpReturns(3, {"conn", "endpoint"})
       \/ /\ Bearer = "long"
          /\ HttpReturns(4, {"conn", "endpoint"})
    /\ UNCHANGED <<resp, wire>> /\ HttpFrame

InitRequest ==
    /\ hpc = "request"
    /\ \/ hpc' = "send" /\ UNCHANGED <<hopen, hret>>
       \/ HttpReturns(5, {"conn", "endpoint"})
    /\ UNCHANGED <<resp, wire>> /\ HttpFrame

\* The body goes out; a failed send may or may not have reached the server.
SendRequest ==
    /\ hpc = "send"
    /\ LET request == [kind |-> pc, run |-> run, code |-> value,
                       verifier |-> verifier, refresh |-> cfg.refresh_token, bearer |-> Bearer]
       IN  \/ wire' = wire \cup {request} /\ hpc' = "receive" /\ UNCHANGED <<hopen, hret>>
           \/ wire' \in {wire, wire \cup {request}} /\ HttpReturns(6, {"conn", "endpoint"})
    /\ resp' = NoResponse
    /\ HttpFrame

\* Google serves a request, now or long after the client gave up.  A code is
\* good for one exchange with the verifier of its own URL.  (External.)
Serve(request, reply) ==
    \/ /\ request.kind = "exchanging"
       /\ IF request.code = request.verifier /\ request.code \notin used
            THEN /\ used' = used \cup {request.code}
                 /\ \/ /\ issued' = issued \cup {request.code}
                       /\ reply.ok /\ reply.refresh = request.code
                    \/ UNCHANGED issued /\ reply.refresh = None
            ELSE ~reply.ok /\ reply.refresh = None /\ UNCHANGED <<used, issued>>
    \/ /\ request.kind = "refreshing"
       /\ reply.ok => request.refresh \in issued
       /\ reply.refresh = None /\ UNCHANGED <<used, issued>>
    \/ /\ request.kind = "listing"
       /\ reply.ok => request.bearer = "short"
       /\ reply.refresh = None /\ UNCHANGED <<used, issued>>

Replies == [ok : BOOLEAN, access : AccessTokens, refresh : {None} \cup Runs]

\* The answer to the call under way arrives and is parsed.
ReceiveResponse ==
    /\ hpc = "receive"
    /\ \E request \in wire, reply \in Replies :
         /\ request.kind = pc /\ request.run = run
         /\ Serve(request, reply)
         /\ wire' = wire \ {request}
         /\ resp' = reply
    /\ HttpReturns(0, {"conn", "endpoint"})
    /\ UNCHANGED <<mainVars, oauthVars, lbVars, tabs>>

\* The connection breaks, or the answer does not fit the buffer.
ReceiveFails ==
    /\ hpc = "receive"
    /\ HttpReturns(7, {"conn", "endpoint"})
    /\ UNCHANGED <<resp, wire>> /\ HttpFrame

\* A request the client no longer waits for is served all the same.
LateServe ==
    /\ \E request \in wire, reply \in Replies :
         /\ ~(hpc = "receive" /\ request.kind = pc /\ request.run = run)
         /\ Serve(request, reply)
         /\ wire' = wire \ {request}
    /\ UNCHANGED <<mainVars, oauthVars, lbVars, httpVars, tabs>>

-----------------------------------------------------------------------------
\* The run is killed; the kernel closes its sockets, memory is gone.
Crash ==
    /\ pc # "off"
    /\ pc' = "off" /\ exit' = 9 /\ UNCHANGED <<mode, run>>
    /\ hpc' = "idle" /\ hopen' = {} /\ UNCHANGED <<hret, resp>>
    /\ UNCHANGED <<oauthVars, lbVars, googleVars>>

Main == \/ LoadConfig \/ MakePkce \/ OpenBrowser \/ WaitDelivers \/ WaitFails
        \/ EncodeExchange \/ ExchangeReturns \/ StoreToken \/ SaveConfig
        \/ EncodeRefresh \/ RefreshReturns \/ ListReturns
HttpLocal == EndpointInit \/ BuildHeaders \/ InitRequest
HttpHelper == HttpLocal \/ EndpointConnect \/ SendRequest
Next == \/ Start \/ Main \/ HttpHelper \/ ReceiveResponse \/ ReceiveFails
        \/ Redirect \/ LateServe \/ Crash

Spec == Init /\ [][Next]_vars

\* The process runs; nobody promises that a user, a browser or Google answers,
\* nor that a blocking call of http-c (connect, send, receive) comes back.
FairSpec == Spec /\ WF_vars(Main) /\ WF_vars(HttpLocal)

-----------------------------------------------------------------------------
MainType ==
    /\ pc \in {"off", "load", "pkce", "browser", "wait", "exchange", "store",
               "save", "refresh"} \cup Calls
    /\ mode \in {"auth", "list", "usage"} /\ exit \in {0, 1, 2, 3, 4, 9}
    /\ run \in 0..MaxRuns

OauthType ==
    /\ cfg \in [refresh_token : {None} \cup Runs, have_refresh_token : BOOLEAN]
    /\ verifier \in {None} \cup Runs /\ token \in {None} \cup Runs
    /\ access \in AccessTokens
    /\ disk \in [token : {None} \cup Runs, by : {None} \cup Runs,
                 parses : BOOLEAN, escapes : BOOLEAN]

ListenerType ==
    /\ offered \in SUBSET ({None} \cup Runs) /\ returned \in BOOLEAN
    /\ value \in {None} \cup Runs

HttpType ==
    /\ hpc \in {"idle", "init", "connect", "headers", "request", "send",
                "receive", "returned"}
    /\ hopen \in SUBSET {"endpoint", "conn"} /\ hret \in 0..7 /\ resp \in Replies

GoogleType == tabs \in SUBSET Runs /\ used \in SUBSET Runs /\ issued \in SUBSET Runs

\* Every variable has its type: main's, the flow's, the listener's, the HTTPS
\* helper's and those of Google and the browser.
TypeOK == MainType /\ OauthType /\ ListenerType /\ HttpType /\ GoogleType

\* oauth.h: "On success, cfg->refresh_token is set and the config has been
\* written to disk": a run with --auth that exits 0 leaves on disk a token that
\* Google issued to this very run.
AuthExitMeansStored ==
    pc = "off" /\ mode = "auth" /\ exit = 0 =>
        disk.by = run /\ disk.token = run /\ disk.token \in issued

\* A failed save never lets the run go on with a token that only memory holds:
\* what is presented to Google is what config.json holds.  The file can be
\* loaded by the next run as well, except when this very run has just written
\* strings into it that needed escaping (oauth.c:122).
UsesStoredToken ==
    pc \in {"refresh", "refreshing", "listing"} =>
        /\ cfg.refresh_token = disk.token /\ disk.token # None
        /\ disk.parses \/ (disk.escapes /\ disk.by = run)

\* "Persist the refresh_token (and the rest of the config) back to disk"
\* (oauth.h:44), "Each run uses the saved refresh_token" (README.md:249): what
\* oauth_save_config wrote, oauth_load_config can read.
SavedConfigLoads == disk.by # None => disk.parses

\* PKCE at work: a redirect from an old tab, approved for an earlier run, never
\* ends up as the token a later run stores.
StoresOwnGrantOnly ==
    /\ disk.token = disk.by
    /\ disk.token # None => disk.token \in issued

\* Each of http_helper_do's eight returns has closed the connection and the
\* endpoint, exactly those it had opened.
NoHttpLeak == hpc \in {"idle", "returned"} => hopen = {}

\* A stored refresh token is never dropped by a later run that fails, is killed
\* or gets an answer without one.
TokenNotLost == [][disk.token # None => disk'.token # None]_disk

\* The three calls of http-c that wait for the other side, with no timeout.
Blocking == {"connect", "send", "receive"}

\* Every run comes to its end, if none of the HTTPS calls blocks for ever: the
\* listener has a deadline of its own and needs neither user nor browser.
RunEndsUnlessBlocked == []<>(hpc \notin Blocking) => ((pc # "off") ~> (pc = "off"))
=============================================================================
