-------------------------------- MODULE Tls ---------------------------------
(***************************************************************************)
(* The TLS samples: client.c and server.c of c/openssl, and the echo       *)
(* server of c/openssl_more, which its test.sh drives with openssl         *)
(* s_client.  One server process, the clients, the listen queue, and per   *)
(* connection the data under way in each direction.  Sockets, the TLS      *)
(* library and s_client are external.                                      *)
(*                                                                         *)
(* A server that blocks in SSL_accept or SSL_read serves nobody else;      *)
(* neither side sets a timeout, ignores SIGPIPE or restarts.               *)
(***************************************************************************)
EXTENDS Naturals, Sequences, SequencesExt, FiniteSets

CONSTANTS Clients,      \* client processes, each run once
          Backlog,      \* length of the listen queue (10, SOMAXCONN)
          MaxLines,     \* bound: lines a user types into s_client
          NoConn        \* accept failed, or no connection

ASSUME TlsAssumption ==
    /\ IsFiniteSet(Clients) /\ NoConn \notin Clients
    /\ Backlog \in Nat \ {0} /\ MaxLines \in Nat \ {0}

VARIABLES
    prog,       \* which server runs: "server" (server.c) or "echo"
    sv,         \* the server: pc, connection served, handshake result, buffer
    listening,  \* the listening socket is open
    queue,      \* connections established by the kernel, not yet accepted
    cl,         \* each client: pc and handshake result
    sent, got,  \* lines each client has written, and has received
    up, down,   \* data under way to the server, to the client
    copen,      \* the client's end of the connection is open
    sopen       \* the server's end is open

vars == <<prog, sv, listening, queue, cl, sent, got, up, down, copen, sopen>>
net == <<sent, got, up, down, copen, sopen>>
server == <<prog, sv, listening, queue>>

\* daftpunk/123, anything else, and the buffer SSL_read did not fill.
Lines == {"valid", "other"}
NoLine == "empty"

\* SSL_accept and SSL_connect return 1, 0 or -1; the code of c/openssl
\* compares with -1 only.
Results == {"ok", "zero", "fail"}

Init ==
    /\ prog \in {"server", "echo"}
    /\ sv = [pc |-> "init", conn |-> NoConn, hs |-> "fail", buf |-> NoLine]
    /\ listening = FALSE /\ queue = <<>>
    /\ cl = [c \in Clients |-> [pc |-> "init", hs |-> "fail"]]
    /\ sent = [c \in Clients |-> <<>>] /\ got = [c \in Clients |-> <<>>]
    /\ up = [c \in Clients |-> <<>>] /\ down = [c \in Clients |-> <<>>]
    /\ copen = [c \in Clients |-> FALSE] /\ sopen = [c \in Clients |-> FALSE]

-----------------------------------------------------------------------------
(* The server process.                                                     *)

At(pc) == sv.pc = pc
Goto(pc) == sv' = [sv EXCEPT !.pc = pc]

\* The process ends, whichever way: the kernel closes what it had open.
ServerExits ==
    /\ sv' = [sv EXCEPT !.pc = "dead", !.conn = NoConn]
    /\ listening' = FALSE /\ queue' = <<>>
    /\ sopen' = [c \in Clients |-> FALSE]
    /\ UNCHANGED <<prog, cl, sent, got, up, down, copen>>

\* isRoot, the usage check, InitServerCTX, LoadCertificates, OpenListener.
ServerMain ==
    /\ At("init") /\ prog = "server"
    /\ \/ ServerExits
       \/ /\ Goto("accept") /\ listening' = TRUE
          /\ UNCHANGED <<prog, queue, cl, net>>

\* The echo server binds and listens before it has a context.
EchoMain ==
    /\ At("init") /\ prog = "echo"
    /\ \/ ServerExits
       \/ /\ Goto("accept") /\ listening' = TRUE
          /\ UNCHANGED <<prog, queue, cl, net>>

\* accept hands over the first connection of the queue.
Accept ==
    /\ At("accept") /\ prog = "server" /\ queue # <<>>
    /\ sv' = [sv EXCEPT !.pc = "handshake", !.conn = Head(queue)]
    /\ queue' = Tail(queue)
    /\ UNCHANGED <<prog, listening, cl, net>>

\* accept fails (a connection reset in the queue, no descriptors): server.c
\* does not look at its result and hands -1 to SSL_set_fd, so that
\* SSL_accept fails and -1 is closed.
AcceptError ==
    /\ At("accept") /\ prog = "server"
    /\ sv' = [sv EXCEPT !.pc = "close", !.conn = NoConn, !.hs = "fail"]
    /\ UNCHANGED <<prog, listening, queue, cl, net>>

\* accept, and only then the context, the certificate, the key and the SSL
\* object; any failure returns from main.
EchoAccept ==
    /\ At("accept") /\ prog = "echo"
    /\ \/ ServerExits
       \/ /\ queue # <<>>
          /\ sv' = [sv EXCEPT !.pc = "handshake", !.conn = Head(queue)]
          /\ queue' = Tail(queue)
          /\ UNCHANGED <<prog, listening, cl, net>>

\* What SSL_accept's result r makes of the server: server.c goes on unless it
\* is -1, the echo server shuts down and returns unless it is positive.
AfterAccept(r) ==
    sv' = [sv EXCEPT !.hs = r,
                     !.pc = IF r = "ok" \/ (prog = "server" /\ r = "zero")
                            THEN "read" ELSE "close"]

\* SSL_accept when the client is gone.
AcceptFails ==
    /\ At("handshake") /\ ~copen[sv.conn]
    /\ \E r \in Results \ {"ok"} : AfterAccept(r)
    /\ UNCHANGED <<prog, listening, queue, cl, net>>

\* SSL_read has data: one record, one line.
ReadData ==
    /\ At("read") /\ sv.hs = "ok" /\ up[sv.conn] # <<>>
    /\ sv' = [sv EXCEPT !.pc = "write", !.buf = Head(up[sv.conn])]
    /\ up' = [up EXCEPT ![sv.conn] = Tail(@)]
    /\ UNCHANGED <<prog, listening, queue, cl, sent, got, down, copen, sopen>>

ReadEnds == At("read") /\ (sv.hs # "ok" \/ (up[sv.conn] = <<>> /\ ~copen[sv.conn]))

\* SSL_read returns 0 or -1.  With -1, server.c stores into buf[-1]: the
\* process may crash, and bytes, should it lie there, becomes positive and
\* buf, all zeros, is answered.
ReadNothing ==
    /\ ReadEnds
    /\ \/ Goto("close") /\ UNCHANGED <<prog, listening, queue, cl, net>>
       \/ /\ prog = "server"
          /\ sv' = [sv EXCEPT !.pc = "write", !.buf = NoLine]
          /\ UNCHANGED <<prog, listening, queue, cl, net>>
       \/ prog = "server" /\ ServerExits

\* Fault: strcmp used as if it returned true for equal strings.
AnswerSwapped(l) ==
    IF l = "valid" THEN "InvalidMessage" ELSE "ServerResponse"

\* Servlet's comparison with cpValidMessage.
Answer(l) ==
    IF l = "valid" THEN "ServerResponse" ELSE "InvalidMessage"

Response == IF prog = "echo" THEN sv.buf ELSE Answer(sv.buf)

\* SSL_write to a client that is gone fails, or raises SIGPIPE.  Servlet then
\* ends; the echo server reads again whatever the result.
Write ==
    /\ At("write")
    /\ \/ /\ Goto(IF prog = "echo" THEN "read" ELSE "close")
          /\ down' = IF sv.hs = "ok" /\ copen[sv.conn]
                     THEN [down EXCEPT ![sv.conn] = Append(@, Response)] ELSE down
          /\ UNCHANGED <<prog, listening, queue, cl, sent, got, up, copen, sopen>>
       \/ ~copen[sv.conn] /\ ServerExits

\* Fault: the early return that skips close when SSL_accept failed.
ServletCloseSkipped ==
    /\ At("close") /\ prog = "server"
    /\ sv' = [sv EXCEPT !.pc = "accept", !.conn = NoConn, !.buf = NoLine]
    /\ sopen' = [c \in Clients |-> sopen[c] /\ (c # sv.conn \/ sv.hs = "fail")]
    /\ UNCHANGED <<prog, listening, queue, cl, sent, got, up, down, copen>>

\* The end of Servlet: SSL_free, close, and back to accept.
ServletClose ==
    /\ At("close") /\ prog = "server"
    /\ sv' = [sv EXCEPT !.pc = "accept", !.conn = NoConn, !.buf = NoLine]
    /\ sopen' = [c \in Clients |-> sopen[c] /\ c # sv.conn]
    /\ UNCHANGED <<prog, listening, queue, cl, sent, got, up, down, copen>>

\* The echo server returns from main.
EchoReturns == At("close") /\ prog = "echo" /\ ServerExits

Server == \/ ServerMain \/ EchoMain \/ Accept \/ AcceptError \/ EchoAccept
          \/ AcceptFails \/ ReadData \/ ReadNothing \/ Write \/ ServletClose \/ EchoReturns

-----------------------------------------------------------------------------
(* The clients.                                                            *)

ClientEnds(c) ==
    /\ cl' = [cl EXCEPT ![c].pc = "done"]
    /\ copen' = [copen EXCEPT ![c] = FALSE]
    /\ UNCHANGED <<server, sent, got, up, down, sopen>>

\* InitCTX, gethostbyname and connect; each failure aborts.  The kernel
\* completes the connection while the queue has room.
OpenConnection(c) ==
    /\ cl[c].pc = "init"
    /\ \/ ClientEnds(c)
       \/ /\ listening /\ Len(queue) < Backlog
          /\ queue' = Append(queue, c)
          /\ copen' = [copen EXCEPT ![c] = TRUE]
          /\ sopen' = [sopen EXCEPT ![c] = TRUE]
          /\ cl' = [cl EXCEPT ![c].pc = "handshake"]
          /\ UNCHANGED <<prog, sv, listening, sent, got, up, down>>

\* What SSL_connect's result makes of the client: only -1 is an error.
AfterConnect(c, r) ==
    cl' = [cl EXCEPT ![c].hs = r,
                     ![c].pc = IF r = "fail" THEN "close" ELSE "prompt"]

\* SSL_accept and SSL_connect with each other; either side may see it fail.
Handshake(c) ==
    /\ At("handshake") /\ sv.conn = c /\ cl[c].pc = "handshake"
    /\ \E r, s \in Results : AfterConnect(c, r) /\ AfterAccept(s)
    /\ UNCHANGED <<prog, listening, queue, net>>

\* SSL_connect when the server closed the connection.
ConnectFails(c) ==
    /\ cl[c].pc = "handshake" /\ ~sopen[c]
    /\ \E r \in Results \ {"ok"} : AfterConnect(c, r)
    /\ UNCHANGED <<server, net>>

\* SSL_write of line l by client c.
SslWrite(c, l) ==
    /\ sent' = [sent EXCEPT ![c] = Append(@, l)]
    /\ up' = IF cl[c].hs = "ok" /\ sopen[c]
             THEN [up EXCEPT ![c] = Append(@, l)] ELSE up
    /\ UNCHANGED <<server, got, down, copen, sopen>>

\* The user of client.c types a name and a password, and they are sent.
TypeCredentials(c) ==
    /\ cl[c].pc = "prompt" /\ prog = "server"
    /\ \/ \E l \in Lines : SslWrite(c, l) /\ cl' = [cl EXCEPT ![c].pc = "read"]
       \/ ~sopen[c] /\ ClientEnds(c)

\* SSL_read with data.
Receive(c) ==
    /\ cl[c].pc = "read" /\ cl[c].hs = "ok" /\ down[c] # <<>>
    /\ got' = [got EXCEPT ![c] = Append(@, Head(down[c]))]
    /\ down' = [down EXCEPT ![c] = Tail(@)]
    /\ cl' = [cl EXCEPT ![c].pc = "close"]
    /\ UNCHANGED <<server, sent, up, copen, sopen>>

\* Fault: the client reads until it gets something.
ReceiveNothingRetries(c) ==
    /\ cl[c].pc = "read" /\ (cl[c].hs # "ok" \/ (down[c] = <<>> /\ ~sopen[c]))
    /\ UNCHANGED vars

\* SSL_read without: buf[-1] = 0 may crash the client or do nothing, and it
\* closes its socket either way.
ReceiveNothing(c) ==
    /\ cl[c].pc = "read" /\ (cl[c].hs # "ok" \/ (down[c] = <<>> /\ ~sopen[c]))
    /\ cl' = [cl EXCEPT ![c].pc = "close"]
    /\ UNCHANGED <<server, net>>

CloseClient(c) == cl[c].pc = "close" /\ ClientEnds(c)

\* openssl s_client, against the echo server: the user sends lines when he
\* likes, answers are shown as they come, and the session ends with the
\* user's or the server's end.
SClientSends(c) ==
    /\ cl[c].pc = "prompt" /\ prog = "echo" /\ Len(sent[c]) < MaxLines
    /\ \E l \in Lines : SslWrite(c, l) /\ UNCHANGED cl
SClientShows(c) ==
    /\ cl[c].pc = "prompt" /\ prog = "echo" /\ down[c] # <<>>
    /\ got' = [got EXCEPT ![c] = Append(@, Head(down[c]))]
    /\ down' = [down EXCEPT ![c] = Tail(@)]
    /\ UNCHANGED <<server, cl, sent, up, copen, sopen>>
SClientLoses(c) ==
    /\ cl[c].pc = "prompt" /\ prog = "echo" /\ down[c] = <<>> /\ ~sopen[c]
    /\ ClientEnds(c)

\* A client can be interrupted at any time.
Interrupt(c) == cl[c].pc \notin {"init", "done"} /\ ClientEnds(c)

Client(c) == \/ OpenConnection(c) \/ ConnectFails(c) \/ Receive(c)
             \/ ReceiveNothing(c) \/ CloseClient(c)
             \/ SClientShows(c) \/ SClientLoses(c)
User(c) == TypeCredentials(c) \/ SClientSends(c) \/ Interrupt(c)

Next == Server \/ \E c \in Clients : Client(c) \/ User(c) \/ Handshake(c)

Spec == Init /\ [][Next]_vars

\* The processes are scheduled, and accept does not fail for ever while a
\* connection is waiting; nothing is assumed of the users.
Fairness == /\ WF_vars(Server) /\ SF_vars(Accept)
            /\ \A c \in Clients : WF_vars(Client(c)) /\ WF_vars(Handshake(c))

FairSpec == Spec /\ Fairness

-----------------------------------------------------------------------------
(* Properties.                                                             *)

Pcs == {"init", "accept", "handshake", "read", "write", "close", "dead"}

\* Every variable has its type.
TypeOK ==
    /\ prog \in {"server", "echo"} /\ listening \in BOOLEAN
    /\ sv \in [pc : Pcs, conn : Clients \cup {NoConn}, hs : Results,
               buf : Lines \cup {NoLine}]
    /\ Range(queue) \subseteq Clients /\ Len(queue) <= Backlog
    /\ cl \in [Clients -> [pc : {"init", "handshake", "prompt", "read", "close",
                                 "done"}, hs : Results]]
    /\ \A c \in Clients : Range(sent[c]) \cup Range(up[c]) \subseteq Lines
    /\ {copen, sopen} \subseteq [Clients -> BOOLEAN]

\* What a client shows is the answer to its own lines, in their order: an
\* earlier client's request, a line read twice or one that was never read is
\* not answered, even after SSL_read failed and buf[-1] was written.
OwnAnswers ==
    \A c \in Clients :
        IsPrefix(got[c] \o down[c],
                 [i \in DOMAIN sent[c] |->
                    IF prog = "echo" THEN sent[c][i]
                    ELSE IF sent[c][i] = "valid" THEN "ServerResponse"
                         ELSE "InvalidMessage"])

\* Whenever server.c is back at accept it has closed every connection it
\* accepted, also after a failed accept, handshake or read.
NothingHeldAtAccept ==
    prog = "server" /\ At("accept") =>
        \A c \in Clients : sopen[c] => c \in Range(queue)

\* If no user stays at his prompt for ever, every client that connected gets
\* through: answered, refused or cut off, also when the server dies with its
\* connection in the listen queue.
ClientsFinish ==
    (\A c \in Clients : []<>(cl[c].pc # "prompt"))
        => \A c \in Clients : (cl[c].pc = "handshake") ~> (cl[c].pc = "done")
=============================================================================
