----------------------------- MODULE TlsProofs ------------------------------
(***************************************************************************)
(* Safety of the TLS samples for any number of clients, any backlog and    *)
(* any number of lines: who holds which end of a connection, and where     *)
(* between client and server each line and each answer is.                 *)
(***************************************************************************)
EXTENDS Tls, SequenceTheorems, TLAPS

\* The answer a line is due from the server that runs.
Due(l) == IF prog = "echo" THEN l
          ELSE IF l = "valid" THEN "ServerResponse" ELSE "InvalidMessage"

Answers == Lines \cup {NoLine, "ServerResponse", "InvalidMessage"}

ServerType ==
    /\ prog \in {"server", "echo"} /\ listening \in BOOLEAN
    /\ sv \in [pc : Pcs, conn : Clients \cup {NoConn}, hs : Results,
               buf : Lines \cup {NoLine}]
    /\ queue \in Seq(Clients) /\ Len(queue) <= Backlog

ClientType ==
    /\ cl \in [Clients -> [pc : {"init", "handshake", "prompt", "read", "close",
                                 "done"}, hs : Results]]
    /\ copen \in [Clients -> BOOLEAN] /\ sopen \in [Clients -> BOOLEAN]

DataType ==
    /\ sent \in [Clients -> Seq(Lines)] /\ up \in [Clients -> Seq(Lines)]
    /\ got \in [Clients -> Seq(Answers)] /\ down \in [Clients -> Seq(Answers)]

\* The server's ends that are open are those in the queue and the one being
\* served; a connection is in one of these places once.
Ends ==
    /\ sv.pc \in {"init", "accept", "dead"} => sv.conn = NoConn
    /\ sv.pc \in {"handshake", "read", "write"} => sv.conn \in Clients
    /\ sv.conn \in Clients => sopen[sv.conn]
    /\ \A i \in 1 .. Len(queue) : sopen[queue[i]] /\ queue[i] # sv.conn
    /\ \A i, j \in 1 .. Len(queue) : queue[i] = queue[j] => i = j
    /\ \A c \in Clients :
          sopen[c] => c = sv.conn \/ \E i \in 1 .. Len(queue) : queue[i] = c

\* Nothing exists of a connection that was not made, and nothing is sent over
\* one whose handshake is not done.
Young(c) ==
    /\ cl[c].pc = "init" => ~copen[c] /\ ~sopen[c]
    /\ cl[c].pc \in {"init", "handshake"} =>
          sent[c] = <<>> /\ up[c] = <<>> /\ cl[c].hs = "fail"

\* The line in the server's hands, read and not yet answered.
InHand(c) == IF sv.conn = c /\ sv.pc = "write" /\ sv.hs = "ok" THEN 1 ELSE 0

Answered(c) == Len(got[c]) + Len(down[c])

\* What was shown and what is on its way to the client answers the first lines
\* it sent, one by one.
AnswersDue(c) ==
    /\ Answered(c) <= Len(sent[c])
    /\ \A i \in 1 .. Len(got[c]) : got[c][i] = Due(sent[c][i])
    /\ \A i \in 1 .. Len(down[c]) : down[c][i] = Due(sent[c][Len(got[c]) + i])

\* While both ends are open every line sent over a good handshake is answered,
\* in the server's hands, or on its way, in this order.  Once an end is closed
\* lines may get lost, and nothing is answered any more.
LinesKept(c) ==
    copen[c] /\ sopen[c] =>
        /\ Len(up[c]) > 0 \/ InHand(c) = 1 => cl[c].hs = "ok"
        /\ cl[c].hs = "ok" =>
              Len(sent[c]) = Answered(c) + InHand(c) + Len(up[c])
        /\ InHand(c) = 1 => sv.buf = sent[c][Answered(c) + 1]
        /\ \A i \in 1 .. Len(up[c]) :
              up[c][i] = sent[c][Answered(c) + InHand(c) + i]

IInv == /\ ServerType /\ ClientType /\ DataType /\ Ends
        /\ \A c \in Clients : Young(c) /\ AnswersDue(c) /\ LinesKept(c)

-----------------------------------------------------------------------------
LEMMA Appending ==
    ASSUME NEW S, NEW s \in Seq(S), NEW e \in S
    PROVE  /\ Append(s, e) \in Seq(S) /\ Len(Append(s, e)) = Len(s) + 1
           /\ Append(s, e)[Len(s) + 1] = e
           /\ \A k \in 1 .. Len(s) : Append(s, e)[k] = s[k]
OBVIOUS

LEMMA Dropping ==
    ASSUME NEW S, NEW s \in Seq(S), s # <<>>
    PROVE  /\ Tail(s) \in Seq(S) /\ Len(Tail(s)) = Len(s) - 1 /\ Len(s) > 0
           /\ Head(s) \in S /\ Head(s) = s[1]
           /\ \A k \in 1 .. Len(s) - 1 : Tail(s)[k] = s[k + 1]
OBVIOUS

LEMMA Joining ==
    ASSUME NEW S, NEW s \in Seq(S), NEW t \in Seq(S)
    PROVE  /\ s \o t \in Seq(S) /\ Len(s \o t) = Len(s) + Len(t)
           /\ \A k \in 1 .. Len(s) : (s \o t)[k] = s[k]
           /\ \A k \in 1 .. Len(t) : (s \o t)[Len(s) + k] = t[k]
OBVIOUS

LEMMA SameStart ==
    ASSUME NEW S, NEW s \in Seq(S), NEW t \in Seq(S), Len(s) <= Len(t),
           \A i \in 1 .. Len(s) : s[i] = t[i]
    PROVE  IsPrefix(s, t)
<1>1. SubSeq(s, 1, Len(s)) \in Seq(S) /\ SubSeq(t, 1, Len(s)) \in Seq(S) OBVIOUS
<1>2. Len(SubSeq(s, 1, Len(s))) = Len(s) /\ Len(SubSeq(t, 1, Len(s))) = Len(s) OBVIOUS
<1>3. \A i \in 1 .. Len(s) : SubSeq(s, 1, Len(s))[i] = SubSeq(t, 1, Len(s))[i] OBVIOUS
<1>4. SubSeq(s, 1, Len(s)) = SubSeq(t, 1, Len(s)) BY <1>1, <1>2, <1>3, SeqEqual
<1> QED BY <1>4 DEF IsPrefix

\* A position within a plus b is one of the first a, or one of the b after them.
LEMMA Positions ==
    \A a, b \in Nat : \A i \in 1 .. a + b :
        i \in 1 .. a \/ \E k \in 1 .. b : i = a + k
<1> TAKE a, b \in Nat
<1> TAKE i \in 1 .. a + b
<1>1. i > a => i - a \in 1 .. b /\ i = a + (i - a) OBVIOUS
<1>2. i <= a => i \in 1 .. a OBVIOUS
<1> QED BY <1>1, <1>2

LEMMA OneMore ==
    \A a, b \in Nat : /\ a + b \in Nat /\ a + (b + 1) = (a + b) + 1
                     /\ (a + 1) + b = a + (b + 1)
                     /\ (a + 1) + (b - 1) = a + b
OBVIOUS

LEMMA Within ==
    \A a, b, n \in Nat :
        a + b <= n => /\ \A i \in 1 .. a : i \in 1 .. n
                      /\ \A i \in 1 .. b : a + i \in 1 .. n
OBVIOUS

LEMMA InitInv == Init => IInv
<1> SUFFICES ASSUME Init PROVE IInv OBVIOUS
<1> USE TlsAssumption DEF Init
<1>1. queue \in Seq(Clients) /\ Len(queue) = 0 OBVIOUS
<1>8. sv \in [pc : Pcs, conn : Clients \cup {NoConn}, hs : Results,
               buf : Lines \cup {NoLine}]
  BY DEF Pcs, Results, Lines, NoLine
<1>9. prog \in {"server", "echo"} /\ listening \in BOOLEAN OBVIOUS
<1>10. Len(queue) <= Backlog BY <1>1
<1>2. ServerType BY <1>1, <1>8, <1>9, <1>10, Zenon DEF ServerType
<1>3. ClientType BY DEF ClientType, Results
<1>4. \A S : <<>> \in Seq(S) OBVIOUS
<1>5. DataType BY <1>4 DEF DataType
<1>6. Ends BY <1>1 DEF Ends
<1>7. ASSUME NEW c \in Clients PROVE Young(c) /\ AnswersDue(c) /\ LinesKept(c)
  <2>1. sent[c] = <<>> /\ up[c] = <<>> /\ got[c] = <<>> /\ down[c] = <<>>
    OBVIOUS
  <2>2. ~copen[c] /\ ~sopen[c] /\ cl[c].hs = "fail" OBVIOUS
  <2>3. AnswersDue(c) BY <2>1 DEF AnswersDue, Answered
  <2> QED BY <2>1, <2>2, <2>3 DEF Young, LinesKept
<1> QED BY <1>2, <1>3, <1>5, <1>6, <1>7 DEF IInv

\* Steps that move no line: what holds of the lines of c stays.
LEMMA Still ==
    ASSUME IInv, NEW c \in Clients, UNCHANGED prog,
           sent'[c] = sent[c], got'[c] = got[c], up'[c] = up[c], down'[c] = down[c],
           copen'[c] /\ sopen'[c] =>
              /\ copen[c] /\ sopen[c] /\ cl'[c].hs = cl[c].hs
              /\ InHand(c)' = InHand(c) /\ (InHand(c) = 1 => sv'.buf = sv.buf)
    PROVE  AnswersDue(c)' /\ LinesKept(c)'
<1> AnswersDue(c) /\ LinesKept(c) BY DEF IInv
<1>0. Answered(c)' = Answered(c) BY DEF Answered
<1>1. AnswersDue(c)' BY <1>0 DEF AnswersDue, Due
<1>2. LinesKept(c)' BY <1>0 DEF LinesKept
<1> QED BY <1>1, <1>2

\* The server's process ends: every end of its is closed, its queue is gone.
LEMMA Exits == IInv /\ ServerExits => IInv'
<1> SUFFICES ASSUME IInv, ServerExits PROVE IInv' OBVIOUS
<1> USE TlsAssumption DEF IInv, ServerExits
<1>1. queue' \in Seq(Clients) /\ Len(queue') = 0 OBVIOUS
<1>2. sv' \in [pc : Pcs, conn : Clients \cup {NoConn}, hs : Results,
                buf : Lines \cup {NoLine}]
  BY DEF ServerType, Pcs
<1>9. prog' \in {"server", "echo"} /\ listening' \in BOOLEAN BY DEF ServerType
<1>10. Len(queue') <= Backlog BY <1>1
<1>3. ServerType' BY <1>1, <1>2, <1>9, <1>10, Zenon DEF ServerType
<1>4. ClientType' BY DEF ClientType
<1>5. DataType' BY DEF DataType
<1>6. sv'.pc = "dead" /\ sv'.conn = NoConn BY DEF ServerType
<1>7. Ends' BY <1>1, <1>6 DEF Ends
<1>8. ASSUME NEW c \in Clients PROVE (Young(c) /\ AnswersDue(c) /\ LinesKept(c))'
  <2>1. AnswersDue(c)' /\ LinesKept(c)' BY Still
  <2> QED BY <2>1 DEF Young
<1> QED BY <1>3, <1>4, <1>5, <1>7, <1>8

\* The server moves to another place with the connection it has, or without
\* one at accept, and reads or writes nothing.
LEMMA Moves ==
    ASSUME IInv, UNCHANGED <<prog, queue, cl, net>>, listening' \in BOOLEAN,
           sv'.conn = sv.conn, sv' \in [pc : Pcs, conn : Clients \cup {NoConn},
                                       hs : Results, buf : Lines \cup {NoLine}],
           sv'.pc \in {"accept", "handshake", "read", "write", "close"},
           sv'.pc \in {"read", "write"} => sv.pc \in {"handshake", "read", "write"},
           sv'.pc = "accept" => sv.conn = NoConn,
           sv'.pc = "handshake" => sv.conn \in Clients,
           sv.pc # "write",
           sv'.pc = "write" => sv.conn \in Clients /\ (sv'.hs # "ok" \/ ~copen[sv.conn])
    PROVE  IInv'
<1> USE TlsAssumption DEF IInv, net
<1>1. ServerType' BY SMT DEF ServerType
<1>2. ClientType' BY DEF ClientType
<1>3. DataType' BY DEF DataType
<1>4. Ends' BY DEF Ends
<1>5. ASSUME NEW c \in Clients PROVE (Young(c) /\ AnswersDue(c) /\ LinesKept(c))'
  <2>1. copen[c] => InHand(c)' = 0 /\ InHand(c) = 0 BY DEF InHand
  <2>2. AnswersDue(c)' /\ LinesKept(c)' BY <2>1, Still
  <2> QED BY <2>2 DEF Young
<1> QED BY <1>1, <1>2, <1>3, <1>4, <1>5

\* accept takes the first connection of the queue.
Accepts == /\ At("accept") /\ queue # <<>>
           /\ sv' = [sv EXCEPT !.pc = "handshake", !.conn = Head(queue)]
           /\ queue' = Tail(queue)
           /\ UNCHANGED <<prog, listening, cl, net>>

LEMMA AcceptsInv == IInv /\ Accepts => IInv'
<1> SUFFICES ASSUME IInv, Accepts PROVE IInv' OBVIOUS
<1> USE TlsAssumption DEF IInv, Accepts, net, At
<1>0. /\ Tail(queue) \in Seq(Clients) /\ Len(Tail(queue)) = Len(queue) - 1
      /\ Len(queue) > 0 /\ Head(queue) \in Clients /\ Head(queue) = queue[1]
      /\ \A k \in 1 .. Len(queue) - 1 : Tail(queue)[k] = queue[k + 1]
  BY Dropping DEF ServerType
<1>1. Len(queue) \in Nat /\ Len(queue) <= Backlog BY DEF ServerType
<1>2. sv' \in [pc : Pcs, conn : Clients \cup {NoConn}, hs : Results,
                buf : Lines \cup {NoLine}]
  BY <1>0 DEF ServerType, Pcs
<1>3. ServerType' BY <1>0, <1>1, <1>2, SMT DEF ServerType
<1>4. ClientType' BY DEF ClientType
<1>5. DataType' BY DEF DataType
<1>6. sv'.pc = "handshake" /\ sv'.conn = queue[1] BY <1>0 DEF ServerType
<1>7. Ends'
  <2> USE DEF Ends
  <2>1. sopen[queue[1]] /\ queue[1] \in Clients BY <1>0, <1>1
  <2>2. \A i \in 1 .. Len(queue') :
           /\ i + 1 \in 1 .. Len(queue) /\ queue'[i] = queue[i + 1]
           /\ sopen[queue'[i]] /\ queue'[i] # queue[1]
    BY <1>0, <1>1
  <2>3. \A i, j \in 1 .. Len(queue') : queue'[i] = queue'[j] => i = j
    BY <1>0, <1>1, <2>2
  <2>4. ASSUME NEW c \in Clients, sopen[c], c # queue[1]
        PROVE  \E i \in 1 .. Len(queue') : queue'[i] = c
    <3>1. PICK i \in 1 .. Len(queue) : queue[i] = c BY <2>4
    <3>2. i # 1 /\ i - 1 \in 1 .. Len(queue') BY <2>4, <3>1, <1>0, <1>1
    <3>3. queue'[i - 1] = c BY <3>1, <3>2, <1>0, <1>1
    <3> QED BY <3>2, <3>3
  <2> QED BY <1>6, <2>1, <2>2, <2>3, <2>4
<1>8. ASSUME NEW c \in Clients PROVE (Young(c) /\ AnswersDue(c) /\ LinesKept(c))'
  <2>1. InHand(c)' = 0 /\ InHand(c) = 0 BY <1>6 DEF InHand
  <2>2. AnswersDue(c)' /\ LinesKept(c)' BY <2>1, Still
  <2> QED BY <2>2 DEF Young
<1> QED BY <1>3, <1>4, <1>5, <1>7, <1>8

\* SSL_read: the first line under way comes into the server's hands.
LEMMA ReadDataInv == IInv /\ ReadData => IInv'
<1> SUFFICES ASSUME IInv, ReadData PROVE IInv' OBVIOUS
<1> USE TlsAssumption DEF IInv, ReadData, At
<1>d. PICK d \in Clients : d = sv.conn BY DEF Ends
<1>0. d \in Clients /\ sopen[d] BY <1>d DEF Ends
<1>1. up[d] \in Seq(Lines) BY <1>0 DEF DataType
<1>2. /\ Tail(up[d]) \in Seq(Lines) /\ Len(Tail(up[d])) = Len(up[d]) - 1
      /\ Len(up[d]) > 0 /\ Head(up[d]) \in Lines /\ Head(up[d]) = up[d][1]
      /\ \A k \in 1 .. Len(up[d]) - 1 : Tail(up[d])[k] = up[d][k + 1]
  BY <1>1, <1>d, Dropping
<1>3. sv' \in [pc : Pcs, conn : Clients \cup {NoConn}, hs : Results,
                buf : Lines \cup {NoLine}]
  BY <1>2, <1>d DEF ServerType, Pcs
<1>4. ServerType' BY <1>3, Zenon DEF ServerType
<1>5. ClientType' BY DEF ClientType
<1>6. DataType' BY <1>0, <1>2, <1>d DEF DataType
<1>7. /\ sv'.pc = "write" /\ sv'.conn = d /\ sv'.hs = "ok" /\ sv'.buf = Head(up[d])
      /\ up'[d] = Tail(up[d]) /\ \A c \in Clients \ {d} : up'[c] = up[c]
  BY <1>0, <1>d DEF ServerType, DataType
<1>r. sv.pc = "read" /\ UNCHANGED <<prog, listening, queue, cl, sent, got, down, copen, sopen>>
  OBVIOUS
<1> HIDE DEF ReadData
<1>8. Ends' BY <1>0, <1>7, <1>d, <1>r DEF Ends
<1>9. ASSUME NEW c \in Clients, c # d
      PROVE  (Young(c) /\ AnswersDue(c) /\ LinesKept(c))'
  <2>1. InHand(c)' = 0 /\ InHand(c) = 0 BY <1>7, <1>9, <1>d, <1>r DEF InHand
  <2>2. AnswersDue(c)' /\ LinesKept(c)' BY <1>7, <1>9, <1>r, <2>1, Still
  <2> QED BY <1>7, <1>9, <1>r, <2>2 DEF Young
<1>10. (Young(d) /\ AnswersDue(d) /\ LinesKept(d))'
  <2>1. InHand(d)' = 1 /\ InHand(d) = 0 BY <1>7, <1>d, <1>r DEF InHand
  <2>2. Answered(d)' = Answered(d) /\ AnswersDue(d)'
    BY <1>0, <1>r DEF AnswersDue, Answered, Due
  <2>3. Young(d)' BY <1>0, <1>2, <1>r DEF Young
  <2>4. Answered(d) \in Nat /\ Len(up[d]) \in Nat BY <1>0, <1>1 DEF Answered, DataType
  <2>5. LinesKept(d)
    BY <1>0
  <2>6. LinesKept(d)'
    <3> SUFFICES ASSUME copen[d] PROVE LinesKept(d)' BY <1>r DEF LinesKept
    <3>1. /\ cl[d].hs = "ok" /\ Len(sent[d]) = Answered(d) + Len(up[d])
          /\ \A i \in 1 .. Len(up[d]) : up[d][i] = sent[d][Answered(d) + i]
      BY <1>0, <1>2, <2>1, <2>4, <2>5 DEF LinesKept
    <3>2. up[d][1] = sent[d][Answered(d) + 1] BY <1>2, <2>4, <3>1
    <3>3. \A i \in 1 .. Len(up'[d]) : up'[d][i] = sent[d][Answered(d) + 1 + i]
      <4> TAKE i \in 1 .. Len(up'[d])
      <4>1. i + 1 \in 1 .. Len(up[d]) /\ i \in 1 .. Len(up[d]) - 1 BY <1>2, <1>7, <2>4
      <4>2. up'[d][i] = up[d][i + 1] BY <1>2, <1>7, <4>1
      <4>3. up[d][i + 1] = sent[d][Answered(d) + (i + 1)] BY <3>1, <4>1
      <4>4. Answered(d) + (i + 1) = Answered(d) + 1 + i BY <2>4
      <4> QED BY <4>2, <4>3, <4>4
    <3>4. Len(sent[d]) = Answered(d) + 1 + Len(up'[d]) BY <1>2, <1>7, <2>4, <3>1
    <3> QED BY <1>2, <1>7, <1>r, <2>1, <2>2, <3>1, <3>2, <3>3, <3>4 DEF LinesKept
  <2> QED BY <2>2, <2>3, <2>6
<1> QED BY <1>4, <1>5, <1>6, <1>8, <1>9, <1>10

\* SSL_write: the line in hand is answered if the client is there.
LEMMA WriteInv == IInv /\ Write => IInv'
<1> SUFFICES ASSUME IInv, Write, ~ServerExits PROVE IInv' BY Exits
<1> USE TlsAssumption DEF IInv, Write, At, Goto
<1>d. PICK d \in Clients : d = sv.conn BY DEF Ends
<1> DEFINE heard == sv.hs = "ok" /\ copen[d]
<1>0. d \in Clients /\ sopen[d] BY <1>d DEF Ends
<1>1. sv' \in [pc : Pcs, conn : Clients \cup {NoConn}, hs : Results,
                buf : Lines \cup {NoLine}]
  BY DEF ServerType, Pcs
<1>2. ServerType' BY <1>1, Zenon DEF ServerType
<1>3. ClientType' BY DEF ClientType
<1>4. /\ sv'.pc \in {"read", "close"} /\ sv'.conn = d /\ sv'.hs = sv.hs
      /\ sv'.buf = sv.buf
  BY <1>d DEF ServerType
<1>r. sv.pc = "write" OBVIOUS
<1>5. down[d] \in Seq(Answers) /\ Response \in Answers
  BY <1>0 DEF ServerType, DataType, Response, Answer, Answers
<1>6. /\ Append(down[d], Response) \in Seq(Answers)
      /\ Len(Append(down[d], Response)) = Len(down[d]) + 1
      /\ Append(down[d], Response)[Len(down[d]) + 1] = Response
      /\ \A k \in 1 .. Len(down[d]) : Append(down[d], Response)[k] = down[d][k]
  BY <1>5, Appending
<1>7. /\ down' = IF heard THEN [down EXCEPT ![d] = Append(@, Response)] ELSE down
      /\ UNCHANGED <<prog, listening, queue, cl, sent, got, up, copen, sopen>>
  BY <1>d
<1>8. /\ heard => down'[d] = Append(down[d], Response)
      /\ ~heard => down'[d] = down[d]
      /\ \A c \in Clients \ {d} : down'[c] = down[c]
  BY <1>0, <1>7 DEF DataType
<1>9. down' \in [Clients -> Seq(Answers)] BY <1>0, <1>6, <1>7 DEF DataType
<1>10. DataType' BY <1>9 DEF DataType
<1> HIDE DEF heard, Write, At, Goto
<1>11. Ends' BY <1>0, <1>4, <1>7, <1>d, <1>r DEF Ends
<1>12. ASSUME NEW c \in Clients, c # d \/ ~heard
      PROVE  (Young(c) /\ AnswersDue(c) /\ LinesKept(c))'
  <2>1. copen[c] => InHand(c)' = 0 /\ InHand(c) = 0
    BY <1>4, <1>12, <1>d, <1>r DEF InHand, heard
  <2>2. down'[c] = down[c] BY <1>8, <1>12
  <2>3. AnswersDue(c)' /\ LinesKept(c)' BY <1>7, <2>1, <2>2, Still
  <2> QED BY <1>7, <2>3 DEF Young
<1>13. ASSUME heard PROVE (Young(d) /\ AnswersDue(d) /\ LinesKept(d))'
  <2>1. InHand(d)' = 0 /\ InHand(d) = 1 BY <1>4, <1>13, <1>d, <1>r DEF InHand, heard
  <2>2. Young(d)' BY <1>0, <1>7 DEF Young
  <2>3. /\ Len(up[d]) \in Nat /\ Len(got[d]) \in Nat /\ Len(down[d]) \in Nat
        /\ Len(sent[d]) \in Nat
    BY <1>0 DEF DataType
  <2>14. Answered(d) \in Nat BY <1>0 DEF Answered, DataType
  <2>13. Len(got[d]) + (Len(down[d]) + 1) = Answered(d) + 1
    BY <2>3, OneMore, Zenon DEF Answered
  <2>4. Answered(d)' = Answered(d) + 1
    BY <1>6, <1>7, <1>8, <1>13, <2>13, Zenon DEF Answered
  <2>5. copen[d] /\ LinesKept(d) BY <1>0, <1>13 DEF heard
  <2>6. /\ cl[d].hs = "ok" /\ Len(sent[d]) = Answered(d) + 1 + Len(up[d])
        /\ sv.buf = sent[d][Answered(d) + 1]
        /\ \A i \in 1 .. Len(up[d]) : up[d][i] = sent[d][Answered(d) + 1 + i]
    BY <1>0, <2>1, <2>5 DEF LinesKept
  <2>7. LinesKept(d)'
    BY <1>7, <2>1, <2>3, <2>4, <2>6, <2>14 DEF LinesKept
  <2>8. Response = Due(sent[d][Answered(d) + 1])
    BY <2>6 DEF Response, Answer, Due
  <2>9. AnswersDue(d) BY <1>0
  <2>10. \A i \in 1 .. Len(down'[d]) : down'[d][i] = Due(sent[d][Len(got[d]) + i])
    <3> TAKE i \in 1 .. Len(down'[d])
    <3>1. CASE i = Len(down[d]) + 1
      <4>1. Len(got[d]) + i = Answered(d) + 1 BY <2>13, <3>1, Zenon
      <4> QED BY <1>6, <1>8, <1>13, <2>8, <3>1, <4>1
    <3>2. CASE i # Len(down[d]) + 1
      <4>1. i \in 1 .. Len(down[d]) BY <1>6, <1>8, <1>13, <2>3, <3>2
      <4> QED BY <1>6, <1>8, <1>13, <2>9, <4>1 DEF AnswersDue
    <3> QED BY <3>1, <3>2
  <2>11. Answered(d)' <= Len(sent[d]) BY <2>3, <2>4, <2>6, <2>14
  <2>12. AnswersDue(d)' BY <1>7, <2>9, <2>10, <2>11 DEF AnswersDue, Due
  <2> QED BY <2>2, <2>7, <2>12
<1> QED BY <1>2, <1>3, <1>10, <1>11, <1>12, <1>13

\* The end of Servlet closes the connection served.
LEMMA ServletCloseInv == IInv /\ ServletClose => IInv'
<1> SUFFICES ASSUME IInv, ServletClose PROVE IInv' OBVIOUS
<1> USE TlsAssumption DEF IInv, ServletClose, At
<1>1. sv' \in [pc : Pcs, conn : Clients \cup {NoConn}, hs : Results,
                buf : Lines \cup {NoLine}]
  BY DEF ServerType, Pcs
<1>2. ServerType' BY <1>1, Zenon DEF ServerType
<1>3. ClientType' BY DEF ClientType
<1>4. DataType' BY DEF DataType
<1>5. sv'.pc = "accept" /\ sv'.conn = NoConn BY DEF ServerType
<1>6. \A c \in Clients : sopen'[c] <=> sopen[c] /\ c # sv.conn OBVIOUS
<1>7. \A i \in 1 .. Len(queue) : queue[i] \in Clients BY DEF ServerType
<1>8. Ends' BY <1>5, <1>6, <1>7 DEF Ends
<1>9. ASSUME NEW c \in Clients PROVE (Young(c) /\ AnswersDue(c) /\ LinesKept(c))'
  <2>1. InHand(c)' = 0 /\ InHand(c) = 0 BY <1>5 DEF InHand
  <2>2. AnswersDue(c)' /\ LinesKept(c)' BY <1>6, <2>1, Still
  <2> QED BY <1>6, <2>2 DEF Young
<1> QED BY <1>2, <1>3, <1>4, <1>8, <1>9

\* A client goes away: its end is closed, and nothing is asked of its lines
\* from now on.
LEMMA ClientEndsInv ==
    ASSUME IInv, NEW d \in Clients, ClientEnds(d) PROVE IInv'
<1> USE TlsAssumption DEF IInv, ClientEnds, server
<1>1. ServerType' BY Zenon DEF ServerType
<1>2. ClientType' BY DEF ClientType
<1>3. DataType' BY DEF DataType
<1>4. Ends' BY DEF Ends
<1>5. ASSUME NEW c \in Clients PROVE (Young(c) /\ AnswersDue(c) /\ LinesKept(c))'
  <2>1. /\ copen'[c] => copen[c] /\ c # d /\ cl'[c] = cl[c]
        /\ cl'[c].hs = cl[c].hs
        /\ \/ cl'[c].pc = cl[c].pc /\ (c # d => copen'[c] = copen[c])
           \/ cl'[c].pc = "done"
    BY DEF ClientType
  <2>2. InHand(c)' = InHand(c) BY DEF InHand
  <2>3. AnswersDue(c)' /\ LinesKept(c)' BY <2>1, <2>2, Still
  <2> QED BY <2>1, <2>3 DEF Young
<1> QED BY <1>1, <1>2, <1>3, <1>4, <1>5

\* The kernel completes a connection and queues it.
LEMMA Queued ==
    ASSUME IInv, NEW d \in Clients, cl[d].pc = "init", Len(queue) < Backlog,
           queue' = Append(queue, d), copen' = [copen EXCEPT ![d] = TRUE],
           sopen' = [sopen EXCEPT ![d] = TRUE],
           cl' = [cl EXCEPT ![d].pc = "handshake"],
           UNCHANGED <<prog, sv, listening, sent, got, up, down>>
    PROVE  IInv'
<1> USE TlsAssumption DEF IInv
<1>0. /\ queue \in Seq(Clients) /\ Len(queue) \in Nat
      /\ queue' \in Seq(Clients) /\ Len(queue') = Len(queue) + 1
      /\ queue'[Len(queue) + 1] = d
      /\ \A k \in 1 .. Len(queue) : queue'[k] = queue[k]
  BY Appending DEF ServerType
<1>1. Len(queue') <= Backlog BY <1>0
<1>2. ServerType' BY <1>0, <1>1, Zenon DEF ServerType
<1>3. ClientType' BY DEF ClientType
<1>4. DataType' BY DEF DataType
<1>5. /\ sopen'[d] /\ \A c \in Clients \ {d} : sopen'[c] = sopen[c]
      /\ \A c \in Clients \ {d} : copen'[c] = copen[c] /\ cl'[c] = cl[c]
      /\ cl'[d].pc = "handshake" /\ cl'[d].hs = cl[d].hs
  BY DEF ClientType
<1>6. ~sopen[d] /\ ~copen[d] BY DEF Young
<1>7. d # sv.conn /\ \A i \in 1 .. Len(queue) : queue[i] # d BY <1>6 DEF Ends
<1>8. \A i \in 1 .. Len(queue) : queue[i] \in Clients BY <1>0
<1>9. Ends'
  <2>1. \A i \in 1 .. Len(queue') : i \in 1 .. Len(queue) \/ i = Len(queue) + 1
    BY <1>0
  <2>2. 1 .. Len(queue) \subseteq 1 .. Len(queue') /\ Len(queue) + 1 \in 1 .. Len(queue')
    BY <1>0
  <2>3. \A i \in 1 .. Len(queue') : sopen'[queue'[i]] /\ queue'[i] # sv'.conn
    BY <1>0, <1>5, <1>7, <1>8, <2>1 DEF Ends
  <2>4. \A i, j \in 1 .. Len(queue') : queue'[i] = queue'[j] => i = j
    <3> TAKE i, j \in 1 .. Len(queue')
    <3>1. CASE i \in 1 .. Len(queue) /\ j \in 1 .. Len(queue) BY <1>0, <3>1 DEF Ends
    <3>2. CASE i = Len(queue) + 1 \/ j = Len(queue) + 1 BY <1>0, <1>7, <2>1, <3>2
    <3> QED BY <2>1, <3>1, <3>2
  <2>5. \A c \in Clients :
          sopen'[c] => c = sv'.conn \/ \E i \in 1 .. Len(queue') : queue'[i] = c
    <3> SUFFICES ASSUME NEW c \in Clients, sopen'[c], c # sv'.conn
                 PROVE  \E i \in 1 .. Len(queue') : queue'[i] = c
      OBVIOUS
    <3>1. CASE c = d BY <1>0, <2>2, <3>1
    <3>2. CASE c # d
      <4>1. PICK i \in 1 .. Len(queue) : queue[i] = c BY <1>5, <3>2 DEF Ends
      <4> QED BY <1>0, <2>2, <4>1
    <3> QED BY <3>1, <3>2
  <2>6. sv'.conn \in Clients => sopen'[sv'.conn] BY <1>5, <1>7 DEF Ends
  <2> QED BY <2>3, <2>4, <2>5, <2>6 DEF Ends
<1>10. ASSUME NEW c \in Clients, c # d
       PROVE  (Young(c) /\ AnswersDue(c) /\ LinesKept(c))'
  <2>1. InHand(c)' = InHand(c) BY DEF InHand
  <2>2. AnswersDue(c)' /\ LinesKept(c)' BY <1>5, <1>10, <2>1, Still
  <2> QED BY <1>5, <1>10, <2>2 DEF Young
<1>11. (Young(d) /\ AnswersDue(d) /\ LinesKept(d))'
  <2>1. Young(d)' BY <1>5 DEF Young
  <2>2. AnswersDue(d)' BY DEF AnswersDue, Answered, Due
  <2>3. up'[d] = <<>> /\ cl'[d].hs = "fail" /\ InHand(d)' = 0
    BY <1>5, <1>7 DEF Young, InHand
  <2>4. LinesKept(d)' BY <2>3 DEF LinesKept
  <2> QED BY <2>1, <2>2, <2>4
<1> QED BY <1>2, <1>3, <1>4, <1>9, <1>10, <1>11

\* A client's own program moves on, alone or in a handshake with the server; a
\* result of SSL_connect is only set when no line has been sent.
LEMMA ClientMoves ==
    ASSUME IInv, NEW d \in Clients, NEW p \in {"prompt", "read", "close"}, NEW r \in Results,
           cl' = [cl EXCEPT ![d].pc = p, ![d].hs = r],
           cl[d].pc = "handshake" \/ r = cl[d].hs, cl[d].pc # "init",
           UNCHANGED <<prog, net, queue, listening>>,
           sv' \in [pc : Pcs, conn : Clients \cup {NoConn}, hs : Results,
                   buf : Lines \cup {NoLine}],
           \/ sv' = sv
           \/ /\ sv.pc = "handshake" /\ sv'.pc \in {"read", "close"}
              /\ sv'.conn = sv.conn
    PROVE  IInv'
<1> USE TlsAssumption DEF IInv, net
<1>1. ServerType' BY Zenon DEF ServerType
<1>2. ClientType' BY DEF ClientType
<1>3. DataType' BY DEF DataType
<1>4. Ends' BY DEF Ends
<1>5. /\ cl'[d].pc = p /\ cl'[d].hs = r /\ \A c \in Clients \ {d} : cl'[c] = cl[c]
  BY DEF ClientType
<1>6. ASSUME NEW c \in Clients
      PROVE  InHand(c)' = InHand(c) /\ (InHand(c) = 1 => sv'.buf = sv.buf)
  BY DEF InHand
<1>7. ASSUME NEW c \in Clients, c # d \/ r = cl[d].hs
      PROVE (Young(c) /\ AnswersDue(c) /\ LinesKept(c))'
  <2>1. cl'[c].hs = cl[c].hs BY <1>5, <1>7
  <2>2. AnswersDue(c)' /\ LinesKept(c)' BY <1>6, <2>1, Still
  <2> QED BY <1>5, <2>1, <2>2 DEF Young
<1>8. ASSUME cl[d].pc = "handshake" PROVE (Young(d) /\ AnswersDue(d) /\ LinesKept(d))'
  <2>1. sent[d] = <<>> /\ up[d] = <<>> /\ cl[d].hs = "fail" BY <1>8 DEF Young
  <2>2. AnswersDue(d)' BY DEF AnswersDue, Answered, Due
  <2>3. Len(sent[d]) = 0 /\ Len(up[d]) = 0 BY <2>1
  <2>4. Answered(d) = 0 /\ Answered(d)' = Answered(d)
    BY <2>3 DEF AnswersDue, Answered, DataType
  <2>5. copen[d] /\ sopen[d] => InHand(d)' = 0
    BY <1>6, <2>1 DEF LinesKept, InHand
  <2>6. LinesKept(d)' BY <2>3, <2>4, <2>5 DEF LinesKept
  <2> QED BY <1>5, <2>2, <2>6 DEF Young
<1> QED BY <1>1, <1>2, <1>3, <1>4, <1>7, <1>8

\* SSL_write of a client: one more line sent, and under way if it can be.
LEMMA Sends ==
    ASSUME IInv, NEW d \in Clients, NEW l \in Lines, SslWrite(d, l),
           cl[d].pc = "prompt",
           UNCHANGED cl \/ cl' = [cl EXCEPT ![d].pc = "read"]
    PROVE  IInv'
<1> USE TlsAssumption DEF IInv, SslWrite, server
<1>1. ServerType' BY Zenon DEF ServerType
<1>2. ClientType' BY DEF ClientType
<1>0. sent[d] \in Seq(Lines) /\ up[d] \in Seq(Lines) BY DEF DataType
<1>3. /\ Append(sent[d], l) \in Seq(Lines)
      /\ Len(Append(sent[d], l)) = Len(sent[d]) + 1
      /\ Append(sent[d], l)[Len(sent[d]) + 1] = l
      /\ \A k \in 1 .. Len(sent[d]) : Append(sent[d], l)[k] = sent[d][k]
  BY <1>0, Appending
<1>4. /\ Append(up[d], l) \in Seq(Lines)
      /\ Len(Append(up[d], l)) = Len(up[d]) + 1
      /\ Append(up[d], l)[Len(up[d]) + 1] = l
      /\ \A k \in 1 .. Len(up[d]) : Append(up[d], l)[k] = up[d][k]
  BY <1>0, Appending
<1>5. sent' \in [Clients -> Seq(Lines)] BY <1>3 DEF DataType
<1>6. up' \in [Clients -> Seq(Lines)] BY <1>4 DEF DataType
<1>7. DataType' BY <1>5, <1>6 DEF DataType
<1>8. Ends' BY DEF Ends
<1>9. /\ sent'[d] = Append(sent[d], l)
      /\ cl[d].hs = "ok" /\ sopen[d] => up'[d] = Append(up[d], l)
      /\ ~(cl[d].hs = "ok" /\ sopen[d]) => up'[d] = up[d]
      /\ \A c \in Clients \ {d} : sent'[c] = sent[c] /\ up'[c] = up[c]
  BY DEF DataType
<1>10. /\ \A c \in Clients : cl'[c].hs = cl[c].hs
       /\ \A c \in Clients \ {d} : cl'[c] = cl[c]
       /\ cl'[d].pc \in {"prompt", "read"}
  BY DEF ClientType
<1>s. UNCHANGED <<prog, sv, listening, queue, got, down, copen, sopen>> OBVIOUS
<1> HIDE DEF SslWrite
<1>11. ASSUME NEW c \in Clients PROVE InHand(c)' = InHand(c) BY <1>s DEF InHand
<1>12. ASSUME NEW c \in Clients, c # d
       PROVE  (Young(c) /\ AnswersDue(c) /\ LinesKept(c))'
  <2>1. AnswersDue(c)' /\ LinesKept(c)' BY <1>9, <1>10, <1>11, <1>12, <1>s, Still
  <2> QED BY <1>9, <1>10, <1>12, <1>s, <2>1 DEF Young
<1>13. (Young(d) /\ AnswersDue(d) /\ LinesKept(d))'
  <2>1. Young(d)' BY <1>10 DEF Young
  <2>2. /\ Len(got[d]) \in Nat /\ Len(down[d]) \in Nat /\ Len(up[d]) \in Nat
        /\ Len(sent[d]) \in Nat
    BY DEF DataType
  <2>3. Answered(d) \in Nat /\ Answered(d)' = Answered(d)
    BY <2>2, <1>s, OneMore, Zenon DEF Answered
  <2>4. AnswersDue(d) /\ LinesKept(d) OBVIOUS
  <2>5. AnswersDue(d)'
    <3>1. Answered(d) <= Len(sent[d]) /\ Answered(d)' <= Len(sent'[d])
      BY <1>3, <1>9, <2>2, <2>3, <2>4 DEF AnswersDue
    <3>2. /\ \A i \in 1 .. Len(got[d]) : i \in 1 .. Len(sent[d])
          /\ \A i \in 1 .. Len(down[d]) : Len(got[d]) + i \in 1 .. Len(sent[d])
      BY <2>2, <3>1, Within, Zenon DEF Answered
    <3> QED BY <1>3, <1>9, <1>s, <2>4, <3>1, <3>2 DEF AnswersDue, Due
  <2>6. LinesKept(d)'
    <3> SUFFICES ASSUME copen[d], sopen[d] PROVE LinesKept(d)' BY <1>s DEF LinesKept
    <3> DEFINE k == Answered(d) + InHand(d)
    <3>1. k \in Nat /\ InHand(d) \in Nat BY <2>3 DEF InHand
    <3>2. /\ Len(up[d]) > 0 \/ InHand(d) = 1 => cl[d].hs = "ok"
          /\ cl[d].hs = "ok" => Len(sent[d]) = k + Len(up[d])
          /\ InHand(d) = 1 => sv.buf = sent[d][Answered(d) + 1]
          /\ \A i \in 1 .. Len(up[d]) : up[d][i] = sent[d][k + i]
      BY <2>4 DEF LinesKept
    <3> HIDE DEF k
    <3>3. CASE cl[d].hs = "ok"
      <4>1. Len(sent'[d]) = k + Len(up'[d])
        <5>1. k + (Len(up[d]) + 1) = (k + Len(up[d])) + 1
          BY <2>2, <3>1, OneMore, Zenon
        <5>2. Len(sent'[d]) = Len(sent[d]) + 1 /\ Len(up'[d]) = Len(up[d]) + 1
          BY <1>3, <1>4, <1>9, <3>3, Zenon
        <5> QED BY <3>2, <3>3, <5>1, <5>2, Zenon
      <4>2. ASSUME InHand(d) = 1 PROVE sv.buf = sent'[d][Answered(d) + 1]
        <5>1. Answered(d) + 1 \in 1 .. Len(sent[d])
          BY <2>2, <2>3, <3>1, <3>2, <3>3, <4>2 DEF k
        <5> QED BY <1>3, <1>9, <3>2, <4>2, <5>1
      <4>3. \A i \in 1 .. Len(up'[d]) : up'[d][i] = sent'[d][k + i]
        <5> TAKE i \in 1 .. Len(up'[d])
        <5>1. CASE i = Len(up[d]) + 1
          <6>1. k + (Len(up[d]) + 1) = Len(sent[d]) + 1
            <7>1. k + (Len(up[d]) + 1) = (k + Len(up[d])) + 1
              BY <2>2, <3>1, OneMore, Zenon
            <7> QED BY <3>2, <3>3, <7>1, Zenon
          <6> QED BY <1>3, <1>4, <1>9, <3>3, <5>1, <6>1
        <5>2. CASE i # Len(up[d]) + 1
          <6>1. i \in 1 .. Len(up[d]) BY <1>4, <1>9, <2>2, <3>3, <5>2
          <6>2. k + i \in 1 .. Len(sent[d]) BY <2>2, <3>1, <3>2, <3>3, <6>1
          <6> QED BY <1>3, <1>4, <1>9, <3>2, <3>3, <6>1, <6>2
        <5> QED BY <5>1, <5>2
      <4>4. cl'[d].hs = "ok" BY <1>10, <3>3
      <4> QED BY <1>11, <1>s, <2>3, <4>1, <4>2, <4>3, <4>4 DEF LinesKept, k
    <3>4. CASE cl[d].hs # "ok"
      <4>1. Len(up[d]) = 0 /\ InHand(d) # 1 BY <2>2, <3>2, <3>4
      <4>2. up'[d] = up[d] /\ cl'[d].hs # "ok" BY <1>9, <1>10, <3>4
      <4> QED BY <1>11, <4>1, <4>2 DEF LinesKept
    <3> QED BY <3>3, <3>4
  <2> QED BY <2>1, <2>5, <2>6
<1> QED BY <1>1, <1>2, <1>7, <1>8, <1>12, <1>13

\* SSL_read of a client: the first answer under way is shown.
Takes(d) == /\ down[d] # <<>>
            /\ got' = [got EXCEPT ![d] = Append(@, Head(down[d]))]
            /\ down' = [down EXCEPT ![d] = Tail(@)]
            /\ UNCHANGED <<server, sent, up, copen, sopen>>

LEMMA Shows ==
    ASSUME IInv, NEW d \in Clients, Takes(d), cl[d].pc \notin {"init", "handshake"},
           UNCHANGED cl \/ cl' = [cl EXCEPT ![d].pc = "close"]
    PROVE  IInv'
<1> USE TlsAssumption DEF IInv, Takes, server
<1>1. ServerType' BY Zenon DEF ServerType
<1>2. ClientType' BY DEF ClientType
<1>0. got[d] \in Seq(Answers) /\ down[d] \in Seq(Answers) BY DEF DataType
<1>3. /\ Tail(down[d]) \in Seq(Answers) /\ Len(Tail(down[d])) = Len(down[d]) - 1
      /\ Len(down[d]) > 0 /\ Head(down[d]) \in Answers /\ Head(down[d]) = down[d][1]
      /\ \A k \in 1 .. Len(down[d]) - 1 : Tail(down[d])[k] = down[d][k + 1]
  BY <1>0, Dropping
<1> DEFINE a == Head(down[d])
<1>4. /\ Append(got[d], a) \in Seq(Answers)
      /\ Len(Append(got[d], a)) = Len(got[d]) + 1
      /\ Append(got[d], a)[Len(got[d]) + 1] = a
      /\ \A k \in 1 .. Len(got[d]) : Append(got[d], a)[k] = got[d][k]
  BY <1>0, <1>3, Appending
<1>5. got' \in [Clients -> Seq(Answers)] BY <1>4 DEF DataType
<1>6. down' \in [Clients -> Seq(Answers)] BY <1>3 DEF DataType
<1>7. DataType' BY <1>5, <1>6 DEF DataType
<1>8. Ends' BY DEF Ends
<1>9. /\ got'[d] = Append(got[d], a) /\ down'[d] = Tail(down[d])
      /\ \A c \in Clients \ {d} : got'[c] = got[c] /\ down'[c] = down[c]
  BY DEF DataType
<1>10. /\ \A c \in Clients : cl'[c].hs = cl[c].hs
       /\ \A c \in Clients \ {d} : cl'[c] = cl[c]
       /\ cl'[d].pc \notin {"init", "handshake"}
  BY DEF ClientType
<1>s. UNCHANGED <<prog, sv, listening, queue, sent, up, copen, sopen>> OBVIOUS
<1> HIDE DEF Takes, a
<1>11. ASSUME NEW c \in Clients PROVE InHand(c)' = InHand(c) BY <1>s DEF InHand
<1>12. ASSUME NEW c \in Clients, c # d
       PROVE  (Young(c) /\ AnswersDue(c) /\ LinesKept(c))'
  <2>1. AnswersDue(c)' /\ LinesKept(c)' BY <1>9, <1>10, <1>11, <1>12, <1>s, Still
  <2> QED BY <1>10, <1>12, <1>s, <2>1 DEF Young
<1>13. (Young(d) /\ AnswersDue(d) /\ LinesKept(d))'
  <2>1. Young(d)' BY <1>10 DEF Young
  <2>2. Len(got[d]) \in Nat /\ Len(down[d]) \in Nat /\ Len(sent[d]) \in Nat
    BY DEF DataType
  <2>3. (Len(got[d]) + 1) + (Len(down[d]) - 1) = Len(got[d]) + Len(down[d])
    BY <2>2, OneMore, Zenon
  <2>4. Answered(d)' = Answered(d) BY <1>3, <1>4, <1>9, <2>3, Zenon DEF Answered
  <2>5. LinesKept(d)' BY <1>10, <1>11, <1>s, <2>4 DEF LinesKept
  <2>6. AnswersDue(d) OBVIOUS
  <2>7. \A i \in 1 .. Len(got'[d]) : got'[d][i] = Due(sent[d][i])
    <3> TAKE i \in 1 .. Len(got'[d])
    <3>1. CASE i = Len(got[d]) + 1
      <4>1. 1 \in 1 .. Len(down[d]) BY <1>3, <2>2
      <4>2. down[d][1] = Due(sent[d][Len(got[d]) + 1]) BY <2>6, <4>1 DEF AnswersDue
      <4> QED BY <1>3, <1>4, <1>9, <3>1, <4>2 DEF a
    <3>2. CASE i # Len(got[d]) + 1
      <4>1. i \in 1 .. Len(got[d]) BY <1>4, <1>9, <2>2, <3>2
      <4> QED BY <1>4, <1>9, <2>6, <4>1 DEF AnswersDue
    <3> QED BY <3>1, <3>2
  <2>8. \A i \in 1 .. Len(down'[d]) : down'[d][i] = Due(sent[d][Len(got'[d]) + i])
    <3> TAKE i \in 1 .. Len(down'[d])
    <3>1. i \in 1 .. Len(down[d]) - 1 /\ i + 1 \in 1 .. Len(down[d]) /\ i \in Nat
      BY <1>3, <1>9, <2>2
    <3>2. down'[d][i] = Due(sent[d][Len(got[d]) + (i + 1)])
      BY <1>3, <1>9, <2>6, <3>1 DEF AnswersDue
    <3>3. Len(got[d]) + (i + 1) = (Len(got[d]) + 1) + i
      BY <2>2, <3>1, OneMore, Zenon
    <3>4. Len(got'[d]) = Len(got[d]) + 1 BY <1>4, <1>9
    <3> QED BY <3>2, <3>3, <3>4
  <2>9. AnswersDue(d)' BY <1>s, <2>4, <2>6, <2>7, <2>8 DEF AnswersDue, Due
  <2> QED BY <2>1, <2>5, <2>9
<1> QED BY <1>1, <1>2, <1>7, <1>8, <1>12, <1>13

-----------------------------------------------------------------------------
LEMMA ServerInv == IInv /\ Server => IInv'
<1> SUFFICES ASSUME IInv, Server PROVE IInv' OBVIOUS
<1> USE TlsAssumption
<1>t. sv \in [pc : Pcs, conn : Clients \cup {NoConn}, hs : Results,
              buf : Lines \cup {NoLine}]
  BY DEF IInv, ServerType
<1>e. /\ sv.pc \in {"init", "accept", "dead"} => sv.conn = NoConn
      /\ sv.pc \in {"handshake", "read", "write"} => sv.conn \in Clients
  BY DEF IInv, Ends
<1>0. CASE ServerExits BY <1>0, Exits
<1>1. CASE (ServerMain \/ EchoMain) /\ ~ServerExits
  BY <1>1, <1>t, <1>e, Moves DEF ServerMain, EchoMain, At, Goto, Pcs
<1>2. CASE Accept BY <1>2, AcceptsInv DEF Accept, Accepts
<1>3. CASE EchoAccept /\ ~ServerExits BY <1>3, AcceptsInv DEF EchoAccept, Accepts
<1>4. CASE AcceptError
  <2>1. listening' \in BOOLEAN BY <1>4 DEF AcceptError, IInv, ServerType
  <2>2. /\ sv' \in [pc : Pcs, conn : Clients \cup {NoConn}, hs : Results,
                    buf : Lines \cup {NoLine}]
        /\ sv'.pc = "close" /\ sv'.conn = sv.conn /\ sv.pc = "accept"
    BY <1>4, <1>t, <1>e DEF AcceptError, At, Pcs, Results
  <2> QED BY <1>4, <2>1, <2>2, Moves DEF AcceptError
<1>5. CASE AcceptFails
  <2>1. listening' \in BOOLEAN BY <1>5 DEF AcceptFails, IInv, ServerType
  <2>2. /\ sv' \in [pc : Pcs, conn : Clients \cup {NoConn}, hs : Results,
                    buf : Lines \cup {NoLine}]
        /\ sv'.pc \in {"read", "close"} /\ sv'.conn = sv.conn /\ sv.pc = "handshake"
    BY <1>5, <1>t DEF AcceptFails, AfterAccept, At, Pcs, Results
  <2> QED BY <1>5, <2>1, <2>2, Moves DEF AcceptFails
<1>6. CASE ReadData BY <1>6, ReadDataInv
<1>7. CASE ReadNothing /\ ~ServerExits
  <2>1. listening' \in BOOLEAN BY <1>7 DEF ReadNothing, IInv, ServerType
  <2>2. /\ sv' \in [pc : Pcs, conn : Clients \cup {NoConn}, hs : Results,
                    buf : Lines \cup {NoLine}]
        /\ sv'.pc \in {"write", "close"} /\ sv'.conn = sv.conn /\ sv.pc = "read"
        /\ sv'.hs = sv.hs
    BY <1>7, <1>t DEF ReadNothing, ReadEnds, Goto, At, Pcs
  <2>3. sv.hs # "ok" \/ ~copen[sv.conn] BY <1>7 DEF ReadNothing, ReadEnds
  <2> QED BY <1>7, <1>e, <2>1, <2>2, <2>3, Moves DEF ReadNothing
<1>8. CASE Write BY <1>8, WriteInv
<1>9. CASE ServletClose BY <1>9, ServletCloseInv
<1>10. CASE EchoReturns BY <1>10, <1>0 DEF EchoReturns
<1> QED
  BY <1>0, <1>1, <1>2, <1>3, <1>4, <1>5, <1>6, <1>7, <1>8, <1>9, <1>10 DEF Server

LEMMA ClientInv ==
    ASSUME IInv, NEW c \in Clients, Client(c) \/ User(c) \/ Handshake(c)
    PROVE  IInv'
<1> USE TlsAssumption
<1>t. /\ sv \in [pc : Pcs, conn : Clients \cup {NoConn}, hs : Results,
                 buf : Lines \cup {NoLine}]
      /\ cl \in [Clients -> [pc : {"init", "handshake", "prompt", "read", "close",
                                   "done"}, hs : Results]]
  BY DEF IInv, ServerType, ClientType
<1>0. CASE ClientEnds(c) BY <1>0, ClientEndsInv
<1>1. CASE OpenConnection(c) /\ ~ClientEnds(c) BY <1>1, Queued DEF OpenConnection
<1>2. CASE ConnectFails(c)
  <2>1. PICK r \in Results \ {"ok"} : AfterConnect(c, r) BY <1>2 DEF ConnectFails
  <2>2. PICK p \in {"prompt", "close"} : cl' = [cl EXCEPT ![c].pc = p, ![c].hs = r]
    BY <1>t, <2>1 DEF AfterConnect
  <2>3. /\ cl[c].pc = "handshake" /\ UNCHANGED <<prog, net, queue, listening>>
        /\ sv' = sv
    BY <1>2 DEF ConnectFails, server
  <2> QED BY <1>t, <2>2, <2>3, ClientMoves
<1>3. CASE Handshake(c)
  <2>1. PICK r, s \in Results : AfterConnect(c, r) /\ AfterAccept(s)
    BY <1>3 DEF Handshake
  <2>2. PICK p \in {"prompt", "close"} : cl' = [cl EXCEPT ![c].pc = p, ![c].hs = r]
    BY <1>t, <2>1 DEF AfterConnect
  <2>3. /\ cl[c].pc = "handshake" /\ UNCHANGED <<prog, net, queue, listening>>
        /\ sv.pc = "handshake"
    BY <1>3 DEF Handshake, At
  <2>4. /\ sv' \in [pc : Pcs, conn : Clients \cup {NoConn}, hs : Results,
                    buf : Lines \cup {NoLine}]
        /\ sv'.pc \in {"read", "close"} /\ sv'.conn = sv.conn
    BY <1>t, <2>1 DEF AfterAccept, Pcs
  <2> QED BY <2>2, <2>3, <2>4, ClientMoves
<1>4. CASE ReceiveNothing(c)
  <2>1. /\ cl' = [cl EXCEPT ![c].pc = "close", ![c].hs = cl[c].hs]
        /\ cl[c].hs \in Results /\ cl[c].pc = "read"
    BY <1>4, <1>t DEF ReceiveNothing
  <2>2. UNCHANGED <<prog, net, queue, listening>> /\ sv' = sv
    BY <1>4 DEF ReceiveNothing, server
  <2> QED BY <1>t, <2>1, <2>2, ClientMoves
<1>5. CASE Receive(c) BY <1>5, Shows DEF Receive, Takes
<1>6. CASE SClientShows(c) BY <1>6, Shows DEF SClientShows, Takes, server
<1>7. CASE TypeCredentials(c) /\ ~ClientEnds(c) BY <1>7, Sends DEF TypeCredentials
<1>8. CASE SClientSends(c) BY <1>8, Sends DEF SClientSends
<1> QED
  BY <1>0, <1>1, <1>2, <1>3, <1>4, <1>5, <1>6, <1>7, <1>8
  DEF Client, User, CloseClient, SClientLoses, Interrupt

\* The inductive invariant holds of every reachable state of the servers and
\* their clients.
THEOREM Invariance == Spec => []IInv
<1>1. Init => IInv BY InitInv
<1>2. IInv /\ [Next]_vars => IInv'
  <2> SUFFICES ASSUME IInv, [Next]_vars PROVE IInv' OBVIOUS
  <2>1. CASE Server BY <2>1, ServerInv
  <2>2. CASE \E c \in Clients : Client(c) \/ User(c) \/ Handshake(c) BY <2>2, ClientInv
  <2>3. CASE UNCHANGED vars
    <3> USE <2>3 DEF vars, IInv
    <3>1. ServerType' /\ ClientType' /\ DataType' /\ Ends'
      BY Zenon DEF ServerType, ClientType, DataType, Ends
    <3>2. ASSUME NEW c \in Clients PROVE (Young(c) /\ AnswersDue(c) /\ LinesKept(c))'
      <4>1. InHand(c)' = InHand(c) BY DEF InHand
      <4>2. AnswersDue(c)' /\ LinesKept(c)' BY <4>1, Still
      <4> QED BY <4>2 DEF Young
    <3> QED BY <3>1, <3>2
  <2> QED BY <2>1, <2>2, <2>3 DEF Next
<1> QED BY <1>1, <1>2, PTL DEF Spec

\* Every variable has its type: the listen queue never outgrows the backlog, and
\* what the servers and the clients hold are lines, clients and results.
THEOREM TypeCorrect == Spec => []TypeOK
<1>1. IInv => TypeOK
  <2> SUFFICES ASSUME IInv PROVE TypeOK OBVIOUS
  <2>1. Range(queue) \subseteq Clients BY DEF IInv, ServerType, Range
  <2>2. ASSUME NEW c \in Clients PROVE Range(sent[c]) \cup Range(up[c]) \subseteq Lines
    <3>1. sent[c] \in Seq(Lines) /\ up[c] \in Seq(Lines) BY DEF IInv, DataType
    <3> QED BY <3>1 DEF Range
  <2>3. {copen, sopen} \subseteq [Clients -> BOOLEAN] BY Zenon DEF IInv, ClientType
  <2> QED BY <2>1, <2>2, <2>3 DEF IInv, ServerType, ClientType, TypeOK
<1> QED BY <1>1, Invariance, PTL

\* Servlet's answers: whatever a client shows, or will show, are the answers to
\* its own first lines in their order, for any number of clients, also when
\* SSL_read, SSL_write or a handshake failed before or the client vanished.
THEOREM OwnAnswersAlways == Spec => []OwnAnswers
<1>1. IInv => OwnAnswers
  <2> SUFFICES ASSUME IInv, NEW c \in Clients
               PROVE  IsPrefix(got[c] \o down[c],
                        [i \in DOMAIN sent[c] |->
                           IF prog = "echo" THEN sent[c][i]
                           ELSE IF sent[c][i] = "valid" THEN "ServerResponse"
                                ELSE "InvalidMessage"])
    BY DEF OwnAnswers
  <2> DEFINE shown == got[c] \o down[c]
             due == [i \in DOMAIN sent[c] |-> Due(sent[c][i])]
  <2>1. /\ got[c] \in Seq(Answers) /\ down[c] \in Seq(Answers) /\ sent[c] \in Seq(Lines)
        /\ AnswersDue(c)
    BY DEF IInv, DataType
  <2>2. /\ shown \in Seq(Answers) /\ Len(shown) = Len(got[c]) + Len(down[c])
        /\ \A k \in 1 .. Len(got[c]) : shown[k] = got[c][k]
        /\ \A k \in 1 .. Len(down[c]) : shown[Len(got[c]) + k] = down[c][k]
    <3>1. /\ got[c] \o down[c] \in Seq(Answers)
          /\ Len(got[c] \o down[c]) = Len(got[c]) + Len(down[c])
          /\ \A k \in 1 .. Len(got[c]) : (got[c] \o down[c])[k] = got[c][k]
          /\ \A k \in 1 .. Len(down[c]) : (got[c] \o down[c])[Len(got[c]) + k] = down[c][k]
      <4> DEFINE g == got[c]
                 e == down[c]
      <4>1. g \in Seq(Answers) /\ e \in Seq(Answers) BY <2>1
      <4> HIDE DEF g, e
      <4>2. /\ g \o e \in Seq(Answers) /\ Len(g \o e) = Len(g) + Len(e)
            /\ \A k \in 1 .. Len(g) : (g \o e)[k] = g[k]
            /\ \A k \in 1 .. Len(e) : (g \o e)[Len(g) + k] = e[k]
        BY <4>1, Joining
      <4> QED BY <4>2 DEF g, e
    <3> QED BY <3>1, Zenon
  <2>3. due \in Seq(Answers) /\ Len(due) = Len(sent[c])
    BY <2>1 DEF Due, Answers, Lines
  <2>8. \A i \in 1 .. Len(sent[c]) : due[i] = Due(sent[c][i]) BY <2>1
  <2>9. Len(got[c]) \in Nat /\ Len(down[c]) \in Nat /\ Len(sent[c]) \in Nat BY <2>1
  <2> HIDE DEF shown, due
  <2>10. Len(got[c]) + Len(down[c]) <= Len(sent[c]) BY <2>1 DEF AnswersDue, Answered
  <2>4. Len(shown) <= Len(due) BY <2>2, <2>3, <2>10
  <2>11. /\ \A k \in 1 .. Len(got[c]) : k \in 1 .. Len(sent[c])
         /\ \A k \in 1 .. Len(down[c]) : Len(got[c]) + k \in 1 .. Len(sent[c])
    BY <2>9, <2>10, Within, Zenon
  <2>5. ASSUME NEW i \in 1 .. Len(shown) PROVE shown[i] = due[i]
    <3>1. i \in 1 .. Len(got[c]) \/ \E k \in 1 .. Len(down[c]) : i = Len(got[c]) + k
      <4>1. i \in 1 .. Len(got[c]) + Len(down[c]) BY <2>2
      <4> QED BY <2>9, <4>1, Positions, Zenon
    <3>2. CASE i \in 1 .. Len(got[c]) BY <2>1, <2>2, <2>8, <2>11, <3>2 DEF AnswersDue
    <3>3. ASSUME NEW k \in 1 .. Len(down[c]), i = Len(got[c]) + k PROVE shown[i] = due[i]
      BY <2>1, <2>2, <2>8, <2>11, <3>3, Zenon DEF AnswersDue
    <3> QED BY <3>1, <3>2, <3>3
  <2>7. IsPrefix(shown, due) BY <2>2, <2>3, <2>4, <2>5, SameStart
  <2> QED BY <2>7 DEF shown, due, Due
<1> QED BY <1>1, Invariance, PTL

\* Servlet always closes what accept returned: back at accept, every end of
\* server.c that is open belongs to a connection that still waits in the queue.
THEOREM NothingHeld == Spec => []NothingHeldAtAccept
<1>1. IInv => NothingHeldAtAccept
  <2> SUFFICES ASSUME IInv, At("accept"), NEW c \in Clients, sopen[c]
               PROVE  c \in Range(queue)
    BY DEF NothingHeldAtAccept
  <2>1. sv.conn = NoConn BY DEF IInv, Ends, At
  <2>2. PICK i \in 1 .. Len(queue) : queue[i] = c
    BY <2>1, TlsAssumption DEF IInv, Ends
  <2>3. DOMAIN queue = 1 .. Len(queue) BY DEF IInv, ServerType
  <2> QED BY <2>2, <2>3 DEF Range
<1> QED BY <1>1, Invariance, PTL
=============================================================================
