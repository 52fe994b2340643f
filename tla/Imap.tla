-------------------------------- MODULE Imap --------------------------------
(***************************************************************************)
(* csharp/Imap/ConsoleApp/Program.cs: a session of IMAP commands, each     *)
(* followed by one read of the connection.  An answer may come in several  *)
(* pieces, and what a read leaves behind is read as the answer of the next *)
(* command.  The server, the connection and the console are external.      *)
(***************************************************************************)
EXTENDS Naturals, Sequences

CONSTANT MaxPieces      \* bound: pieces an answer may come in

VARIABLES
    step,       \* the number of the step in Steps
    asked,      \* the step's command is written, its answer not yet read
    sw, ssl, tcpc,      \* the report file and the connection are open
    wire,       \* pieces of answers sent and not read, as <<whose, number>>
    backlog,    \* how many there were when the last FETCH was written
    parts,      \* pieces of the answer to the last FETCH
    content,    \* the pieces appended to content
    lost,       \* the connection is lost
    saved       \* eReceipt.pdf was written

vars == <<step, asked, sw, ssl, tcpc, wire, backlog, parts, content, lost, saved>>

\* What Main does, in order: "greeting" is receiveResponse(""), "prompt" asks
\* for the e-mail's number, "save" cuts the attachment out of content.
Steps == <<"connect", "greeting", "LOGIN", "LIST", "SELECT", "STATUS", "SEARCH",
           "prompt", "FETCH_header", "FETCH_text", "FETCH_body",
           "FETCH_bodystructure", "FETCH_multipart", "NOOP", "save", "LOGOUT",
           "finally", "end">>
Number(name) == CHOOSE i \in DOMAIN Steps : Steps[i] = name
At(name) == step = Number(name)
Command == Steps[step] \notin {"connect", "prompt", "save", "finally", "end"}

Init ==
    /\ At("connect") /\ asked = FALSE /\ sw = FALSE /\ ssl = FALSE /\ tcpc = FALSE
    /\ wire = <<>> /\ backlog = 0 /\ parts = 0
    /\ content = <<>> /\ lost = FALSE /\ saved = FALSE

-----------------------------------------------------------------------------
\* The file is created, the connection made and authenticated; what has been
\* opened before a failure stays for the finally block.
Connect ==
    /\ At("connect")
    /\ \E opened \in 0 .. 3, done \in BOOLEAN :
          /\ sw' = (opened >= 1) /\ tcpc' = (opened >= 2) /\ ssl' = (opened = 3)
          /\ done => opened = 3
          /\ step' = IF done THEN step + 1 ELSE Number("finally")
    /\ UNCHANGED <<asked, wire, backlog, parts, content, lost, saved>>

\* The pieces of the answer to this step's command.
Answer(n) ==
    [i \in 1 .. n |-> IF At("FETCH_multipart") THEN <<"multipart", i>> ELSE <<"other", 0>>]

\* receiveResponse writes the command, and the server answers in pieces.
Ask ==
    /\ Command /\ ~asked /\ asked' = TRUE
    /\ \E n \in 1 .. MaxPieces :
          /\ wire' = IF lost THEN wire ELSE wire \o Answer(n)
          /\ IF At("FETCH_multipart") THEN backlog' = Len(wire) /\ parts' = n
             ELSE UNCHANGED <<backlog, parts>>
    /\ UNCHANGED <<step, sw, ssl, tcpc, content, lost, saved>>

\* Fault: the answer of NOOP is not appended.
AppendedOnce(response) ==
    IF At("FETCH_multipart") THEN response ELSE content

\* content, the answer of the last FETCH and of the NOOP behind it.
Appended(response) ==
    IF At("FETCH_multipart") \/ At("NOOP") THEN content \o response ELSE content

\* The rest of receiveResponse: one Read, of one piece or, once the connection
\* is lost, of nothing.
Receive ==
    /\ asked /\ asked' = FALSE /\ step' = step + 1
    /\ \/ /\ wire # <<>> /\ wire' = Tail(wire)
          /\ content' = Appended(<<Head(wire)>>)
       \/ /\ lost /\ wire = <<>> /\ UNCHANGED wire
          /\ content' = Appended(<<>>)
    /\ UNCHANGED <<sw, ssl, tcpc, backlog, parts, lost, saved>>

\* The number is read, or is none and throws.
Prompt ==
    /\ At("prompt") /\ step' \in {step + 1, Number("finally")}
    /\ UNCHANGED <<asked, sw, ssl, tcpc, wire, backlog, parts, content, lost, saved>>

\* The attachment is cut out of content and written; when there is none the
\* search from index -1 throws.
Save ==
    /\ At("save")
    /\ \/ saved' = TRUE /\ step' = step + 1
       \/ step' = Number("finally") /\ UNCHANGED saved
    /\ UNCHANGED <<asked, sw, ssl, tcpc, wire, backlog, parts, content, lost>>

\* The connection is lost, with what was on its way or without.
Lose ==
    /\ Command /\ ~lost /\ lost' = TRUE
    /\ wire' \in {<<>>, wire}
    /\ UNCHANGED <<step, asked, sw, ssl, tcpc, backlog, parts, content, saved>>

\* Writing to or reading from the lost connection throws.
Throw ==
    /\ Command /\ lost /\ step' = Number("finally") /\ asked' = FALSE
    /\ UNCHANGED <<sw, ssl, tcpc, wire, backlog, parts, content, lost, saved>>

\* The finally block.
Finally ==
    /\ At("finally") /\ step' = step + 1
    /\ sw' = FALSE /\ ssl' = FALSE /\ tcpc' = FALSE
    /\ UNCHANGED <<asked, wire, backlog, parts, content, lost, saved>>

Next == \/ Connect \/ Ask \/ Receive \/ Prompt \/ Save \/ Lose \/ Throw \/ Finally

Spec == Init /\ [][Next]_vars

-----------------------------------------------------------------------------
(* Properties.                                                             *)

\* Every way out of Main has closed the report and the connection.
AllReleased == At("end") => ~sw /\ ~ssl /\ ~tcpc

\* "workaround to read last bytes from previous command" (Program.cs:72): with
\* the answer of NOOP appended content holds the whole answer to the last FETCH
\* as long as its pieces and the unread ones of earlier answers are two at most,
\* and never otherwise.
LastBytesRead ==
    At("save") /\ ~lost =>
        LET got == {content[i] : i \in DOMAIN content}
        IN  {<<"multipart", i>> : i \in 1 .. parts} \subseteq got
              <=> backlog + parts <= 2
=============================================================================
