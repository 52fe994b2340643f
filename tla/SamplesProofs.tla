---------------------------- MODULE SamplesProofs ----------------------------
(***************************************************************************)
(* Safety of the small programs, each by an inductive invariant of its     *)
(* own: a step of one leaves the state of the others alone.                *)
(***************************************************************************)
EXTENDS Samples, SequenceTheorems, WellFoundedInduction, TLAPS

\* A step is one of the program that runs, and no program sees another's.
LEMMA OneProgram ==
    [Next]_vars => /\ Card!Next \/ UNCHANGED cardVars
                   /\ Wav!Next \/ UNCHANGED wavVars
                   /\ Search!Next \/ UNCHANGED searchVars
                   /\ Mail!Next \/ UNCHANGED mailVars
                   /\ Util!Next \/ UNCHANGED utilVars
                   /\ Scan!Next \/ UNCHANGED scanVars
                   /\ Sql!Next \/ UNCHANGED sqlVars
                   /\ Db!Next \/ UNCHANGED dbVars
BY Zenon DEF Next, vars

-----------------------------------------------------------------------------
(* SdCard.                                                                 *)

CardType ==
    /\ boot \in Nat /\ file \in Seq(Nat) /\ card_buffer \in Seq(Nat)
    /\ s_card \in BOOLEAN /\ vfs \in BOOLEAN /\ errors \in BOOLEAN

\* What is taken and mounted at each point of app_main.
CardMounted ==
    /\ card_pc \in {"mount", "vfs_mount", "aborted", "write", "panic", "fprintf", "fflush",
               "fsync", "fclose", "read", "list", "unmount", "idle"}
    /\ card_pc \in {"mount", "aborted"} => bus = "free" /\ ~s_card /\ ~vfs
    /\ card_pc = "idle" =>
          ~s_card /\ ((bus = "free" /\ ~vfs) \/ (bus = "kept" /\ errors))
    /\ card_pc = "vfs_mount" => bus = "taken" /\ ~s_card /\ ~vfs
    /\ card_pc \notin {"mount", "aborted", "idle", "vfs_mount"} =>
          bus = "taken" /\ s_card /\ vfs

\* Where the two lines are: in the buffer up to fflush, on the card after it.
CardLines ==
    /\ card_pc = "fprintf" => file = <<>>
    /\ card_pc = "fflush" => file = <<>> /\ (errors \/ card_buffer = <<boot, boot>>)
    /\ card_pc \in {"fsync", "fclose", "read", "list", "unmount", "idle"} =>
          errors \/ file = <<boot, boot>>

CardInv == CardType /\ CardMounted /\ CardLines

LEMMA TwoLines ==
    \A b \in Nat : [k \in 1 .. 2 |-> b] = <<b, b>>
OBVIOUS

LEMMA CardInit == Init => CardInv
<1> SUFFICES ASSUME Card!Init PROVE CardInv BY DEF Init
<1>1. boot \in Nat /\ file \in Seq(Nat) /\ card_buffer \in Seq(Nat) BY DEF Card!Init
<1>4. CardType BY <1>1 DEF Card!Init, CardType
<1>2. CardMounted BY DEF Card!Init, CardMounted
<1>3. CardLines BY DEF Card!Init, CardLines
<1> QED BY <1>2, <1>3, <1>4 DEF CardInv

LEMMA CardNext == CardInv /\ (Card!Next \/ UNCHANGED cardVars) => CardInv'
<1> SUFFICES ASSUME CardInv, Card!Next \/ UNCHANGED cardVars PROVE CardInv' OBVIOUS
<1> USE DEF CardInv, CardType, CardMounted, CardLines
<1>1. CASE Card!BusInit BY <1>1 DEF Card!BusInit
<1>2. CASE Card!VfsMount BY <1>2 DEF Card!VfsMount
<1>3. CASE Card!VfsMountFails BY <1>3 DEF Card!VfsMountFails
<1>4. CASE Card!OpenForWriting BY <1>4 DEF Card!OpenForWriting
<1>5. CASE Card!OpenForWritingFails BY <1>5 DEF Card!OpenForWritingFails
<1>6. CASE Card!Fprintf
  <2>1. PICK n \in 0 .. 2 : /\ card_buffer' = [k \in 1 .. n |-> boot]
                            /\ errors' = (errors \/ n < 2)
    BY <1>6 DEF Card!Fprintf
  <2>2. card_buffer' \in Seq(Nat) BY <2>1
  <2>3. n # 2 \/ card_buffer' = <<boot, boot>> BY <2>1, TwoLines
  <2>4. n = 2 \/ n < 2 OBVIOUS
  <2>5. errors' \/ card_buffer' = <<boot, boot>> BY <2>1, <2>3, <2>4, Zenon
  <2> QED BY <1>6, <2>1, <2>2, <2>5 DEF Card!Fprintf
<1>7. CASE Card!Fflush
  <2>1. CASE file' = file \o card_buffer /\ card_buffer' = <<>> /\ UNCHANGED errors
    <3>1. file' = card_buffer BY <1>7, <2>1 DEF Card!Fflush
    <3> QED BY <1>7, <2>1, <3>1 DEF Card!Fflush
  <2>2. CASE /\ \E n \in 0 .. Len(card_buffer) - 1 :
                    file' = file \o SubSeq(card_buffer, 1, n)
             /\ card_buffer' = <<>> /\ errors' = TRUE
    <3>1. file' \in Seq(Nat) BY <2>2
    <3> QED BY <1>7, <2>2, <3>1 DEF Card!Fflush
  <2> QED BY <1>7, <2>1, <2>2 DEF Card!Fflush, Card!Flush
<1>8. CASE Card!Fsync
  <2>1. \A n \in 0 .. Len(file) : SubSeq(file, 1, n) \in Seq(Nat) OBVIOUS
  <2>2. file' \in Seq(Nat) BY <1>8, <2>1, Zenon DEF Card!Fsync
  <2> QED BY <1>8, <2>2 DEF Card!Fsync
<1>9. CASE Card!Fclose BY <1>9 DEF Card!Fclose
<1>10. CASE Card!ReadTestFile BY <1>10 DEF Card!ReadTestFile
<1>11. CASE Card!ListRoot BY <1>11 DEF Card!ListRoot
<1>12. CASE Card!Unmount BY <1>12 DEF Card!Unmount
<1>13. CASE Card!Reset
  <2>1. file' \in Seq(Nat) BY <1>13 DEF Card!Reset
  <2>2. boot' \in Nat BY <1>13 DEF Card!Reset
  <2>3. card_buffer' \in Seq(Nat) BY <1>13 DEF Card!Reset
  <2> QED BY <1>13, <2>1, <2>2, <2>3 DEF Card!Reset
<1>14. CASE UNCHANGED cardVars BY <1>14 DEF cardVars
<1> QED
  BY <1>1, <1>2, <1>3, <1>4, <1>5, <1>6, <1>7, <1>8, <1>9, <1>10, <1>11, <1>12,
     <1>13, <1>14 DEF Card!Next

-----------------------------------------------------------------------------
(* NetScan.                                                                *)

ScanType ==
    /\ ping \in [Hosts -> {"none", "sent", "add", "adding", "done", "faulted"}]
    /\ answered \subseteq Hosts
    /\ result_list \in Seq(Hosts \cup {Nothing})
    /\ seen \in [Hosts -> Seq(Hosts \cup {Nothing})]

\* A continuation adds its address only after the answer, and main prints only
\* when all continuations have ended.
ScanOrder ==
    /\ \A h \in Hosts :
          /\ ping[h] \in {"none", "sent"} => h \notin answered
          /\ ping[h] \in {"add", "adding"} => h \in answered
    /\ scan_main = "printed" =>
          printed = result_list /\ \A h \in Hosts : ping[h] = "done"

\* Nothing but answers and entries never stored gets into the list.
ScanEntries ==
    /\ \A k \in DOMAIN result_list : result_list[k] \in answered \cup {Nothing}
    /\ \A h \in Hosts : \A k \in DOMAIN seen[h] : seen[h][k] \in answered \cup {Nothing}

\* As long as no two calls of Add have overlapped, the list has exactly the
\* answers whose continuation has ended, and Add sees the list as it is.
ScanAlone ==
    ~overlapped =>
        /\ \A g, h \in Hosts : ping[g] = "adding" /\ ping[h] = "adding" => g = h
        /\ \A h \in Hosts : ping[h] = "adding" => seen[h] = result_list
        /\ \A h \in answered :
              ping[h] = "done" <=> \E k \in DOMAIN result_list : result_list[k] = h
        /\ \A k \in DOMAIN result_list : result_list[k] \in answered
        /\ \A j, k \in DOMAIN result_list : result_list[j] = result_list[k] => j = k

ScanInv == ScanType /\ ScanOrder /\ ScanEntries /\ ScanAlone

LEMMA ScanInit == Init => ScanInv
<1> SUFFICES ASSUME Scan!Init PROVE ScanInv BY DEF Init
<1>1. ScanType BY DEF Scan!Init, ScanType
<1>2. ScanOrder BY DEF Scan!Init, ScanOrder
<1>3. ScanEntries BY DEF Scan!Init, ScanEntries
<1>4. ScanAlone BY DEF Scan!Init, ScanAlone
<1> QED BY <1>1, <1>2, <1>3, <1>4 DEF ScanInv

\* What is behind a list after Append.
LEMMA Appending ==
    ASSUME NEW S, NEW s \in Seq(S), NEW e \in S
    PROVE  /\ Append(s, e) \in Seq(S) /\ Len(Append(s, e)) = Len(s) + 1
           /\ DOMAIN Append(s, e) = 1 .. Len(s) + 1 /\ DOMAIN s = 1 .. Len(s)
           /\ Append(s, e)[Len(s) + 1] = e
           /\ \A k \in DOMAIN s : Append(s, e)[k] = s[k]
OBVIOUS

LEMMA ScanNext == ScanInv /\ (Scan!Next \/ UNCHANGED scanVars) => ScanInv'
<1> SUFFICES ASSUME ScanInv, Scan!Next \/ UNCHANGED scanVars PROVE ScanInv' OBVIOUS
<1> USE DEF ScanInv
<1>1. CASE Scan!LocalAddress
  BY <1>1 DEF Scan!LocalAddress, ScanType, ScanOrder, ScanEntries, ScanAlone
<1>2. CASE Scan!WaitAll
  <2>1. ScanType' BY <1>2 DEF Scan!WaitAll, ScanType
  <2>2. ScanOrder' BY <1>2 DEF Scan!WaitAll, ScanType, ScanOrder
  <2>3. ScanEntries' BY <1>2 DEF Scan!WaitAll, ScanEntries
  <2>4. ScanAlone' BY <1>2 DEF Scan!WaitAll, ScanAlone
  <2> QED BY <2>1, <2>2, <2>3, <2>4
<1>3. ASSUME NEW h \in Hosts, Scan!StartPing(h) PROVE ScanInv'
  <2>1. ScanType' BY <1>3 DEF Scan!StartPing, ScanType
  <2>2. ScanOrder' BY <1>3 DEF Scan!StartPing, ScanType, ScanOrder
  <2>3. ScanEntries' BY <1>3 DEF Scan!StartPing, ScanEntries
  <2>4. ScanAlone' BY <1>3 DEF Scan!StartPing, ScanType, ScanOrder, ScanAlone
  <2> QED BY <2>1, <2>2, <2>3, <2>4
<1>4. ASSUME NEW h \in Hosts, Scan!PingEnds(h) PROVE ScanInv'
  <2>1. ScanType' BY <1>4 DEF Scan!PingEnds, ScanType
  <2>2. ScanOrder' BY <1>4 DEF Scan!PingEnds, ScanType, ScanOrder
  <2>3. ScanEntries' BY <1>4 DEF Scan!PingEnds, ScanEntries
  <2>4. ScanAlone'
    <3>1. CASE ping' = [ping EXCEPT ![h] = "add"] /\ answered' = answered \cup {h}
      <4> SUFFICES ASSUME ~overlapped PROVE ScanAlone'
        BY <1>4 DEF Scan!PingEnds, ScanAlone
      <4>1. h \notin answered BY <1>4 DEF Scan!PingEnds, ScanOrder
      <4>2. \A k \in DOMAIN result_list : result_list[k] # h BY <4>1 DEF ScanAlone
      <4> QED BY <1>4, <3>1, <4>1, <4>2 DEF Scan!PingEnds, ScanType, ScanAlone
    <3>2. CASE /\ ping' \in {[ping EXCEPT ![h] = "done"], [ping EXCEPT ![h] = "faulted"]}
               /\ UNCHANGED answered
      <4>1. h \notin answered BY <1>4 DEF Scan!PingEnds, ScanOrder
      <4>2. \A g \in answered : ping'[g] = ping[g] BY <3>2, <4>1 DEF ScanType
      <4>3. \A g \in Hosts : ping'[g] = "adding" => ping[g] = "adding"
        BY <3>2 DEF ScanType
      <4> QED BY <1>4, <3>2, <4>2, <4>3 DEF Scan!PingEnds, ScanAlone
    <3> QED BY <1>4, <3>1, <3>2 DEF Scan!PingEnds
  <2> QED BY <2>1, <2>2, <2>3, <2>4
<1>5. ASSUME NEW h \in Hosts, Scan!AddBegins(h) PROVE ScanInv'
  <2>1. ScanType' BY <1>5 DEF Scan!AddBegins, ScanType
  <2>2. ScanOrder' BY <1>5 DEF Scan!AddBegins, ScanType, ScanOrder
  <2>3. ScanEntries' BY <1>5 DEF Scan!AddBegins, ScanType, ScanEntries
  <2>4. ScanAlone' BY <1>5 DEF Scan!AddBegins, ScanType, ScanOrder, ScanAlone
  <2> QED BY <2>1, <2>2, <2>3, <2>4
<1>6. ASSUME NEW h \in Hosts, Scan!AddEnds(h) PROVE ScanInv'
  <2>0. /\ ping[h] = "adding"
        /\ \/ ping' = [ping EXCEPT ![h] = "done"]
           \/ ping' = [ping EXCEPT ![h] = "faulted"]
        /\ result_list = seen[h] => ping' = [ping EXCEPT ![h] = "done"]
        /\ \/ result_list' = Append(seen[h], h)
           \/ /\ result_list # seen[h]
              /\ \/ result_list' = result_list
                 \/ result_list' = Append(result_list, h)
                 \/ result_list' = Append(result_list, Nothing)
        /\ seen' = [seen EXCEPT ![h] = <<>>]
        /\ UNCHANGED <<scan_main, answered, overlapped, printed>>
    BY <1>6, Zenon DEF Scan!AddEnds
  <2>a. h \in answered BY <2>0 DEF ScanOrder
  <2>1. ScanType'
    <3>1. ping' \in [Hosts -> {"none", "sent", "add", "adding", "done", "faulted"}]
      BY <2>0 DEF ScanType
    <3>2. result_list' \in Seq(Hosts \cup {Nothing})
      <4>1. \A s \in Seq(Hosts \cup {Nothing}), e \in Hosts \cup {Nothing} :
               Append(s, e) \in Seq(Hosts \cup {Nothing})
        BY Appending
      <4>2. /\ seen[h] \in Seq(Hosts \cup {Nothing}) /\ h \in Hosts \cup {Nothing}
            /\ result_list \in Seq(Hosts \cup {Nothing}) /\ Nothing \in Hosts \cup {Nothing}
        BY DEF ScanType
      <4> QED BY <2>0, <4>1, <4>2, Zenon
    <3>3. seen' \in [Hosts -> Seq(Hosts \cup {Nothing})] BY <2>0 DEF ScanType
    <3> QED BY <2>0, <3>1, <3>2, <3>3 DEF ScanType
  <2>2. ScanOrder' BY <1>6 DEF Scan!AddEnds, ScanType, ScanOrder
  <2>3. ScanEntries'
    <3>1. ASSUME NEW s \in Seq(Hosts \cup {Nothing}), NEW e \in answered \cup {Nothing},
                 \A k \in DOMAIN s : s[k] \in answered \cup {Nothing}
          PROVE  \A k \in DOMAIN Append(s, e) : Append(s, e)[k] \in answered \cup {Nothing}
      <4>1. e \in Hosts \cup {Nothing} BY DEF ScanType
      <4> QED BY <3>1, <4>1, Appending
    <3>2. \A k \in DOMAIN result_list' : result_list'[k] \in answered \cup {Nothing}
      <4>1. CASE result_list' = Append(seen[h], h)
        BY <2>a, <3>1, <4>1 DEF ScanType, ScanEntries
      <4>2. CASE result_list' = result_list BY <4>2 DEF ScanEntries
      <4>3. CASE result_list' = Append(result_list, h)
        BY <2>a, <3>1, <4>3 DEF ScanType, ScanEntries
      <4>4. CASE result_list' = Append(result_list, Nothing)
        BY <3>1, <4>4 DEF ScanType, ScanEntries
      <4> QED BY <2>0, <4>1, <4>2, <4>3, <4>4
    <3>3. \A g \in Hosts : \A k \in DOMAIN seen'[g] : seen'[g][k] \in answered \cup {Nothing}
      <4> TAKE g \in Hosts
      <4>1. CASE g = h
        <5>1. seen'[g] = <<>> BY <2>0, <4>1 DEF ScanType
        <5> QED BY <5>1
      <4>2. CASE g # h BY <2>0, <4>2 DEF ScanType, ScanEntries
      <4> QED BY <4>1, <4>2
    <3> QED BY <2>0, <3>2, <3>3 DEF ScanEntries
  <2>4. ScanAlone'
    <3> SUFFICES ASSUME ~overlapped PROVE ScanAlone' BY <2>0 DEF ScanAlone
    <3>1. result_list' = Append(result_list, h) BY <2>0 DEF ScanAlone
    <3>2. /\ DOMAIN result_list' = 1 .. Len(result_list) + 1
          /\ DOMAIN result_list = 1 .. Len(result_list) /\ Len(result_list) \in Nat
          /\ result_list'[Len(result_list) + 1] = h
          /\ \A k \in DOMAIN result_list : result_list'[k] = result_list[k]
      BY <3>1, Appending DEF ScanType
    <3>3. \A k \in DOMAIN result_list : result_list[k] # h BY <2>0, <2>a DEF ScanAlone
    <3>4. \A g \in Hosts : ping'[g] # "adding" BY <2>0 DEF ScanAlone, ScanType
    <3>5. \A g \in answered :
             ping'[g] = "done" <=> \E k \in DOMAIN result_list' : result_list'[k] = g
      <4> TAKE g \in answered
      <4>1. CASE g = h
        <5>0. result_list = seen[h] BY <2>0 DEF ScanAlone
        <5>1. ping'[g] = "done" BY <2>0, <4>1, <5>0 DEF ScanType
        <5>2. Len(result_list) + 1 \in DOMAIN result_list' BY <3>2
        <5> QED BY <3>2, <4>1, <5>1, <5>2
      <4>2. CASE g # h
        <5>1. ping'[g] = ping[g] BY <2>0, <4>2 DEF ScanType
        <5>2. (\E k \in DOMAIN result_list' : result_list'[k] = g)
                <=> \E k \in DOMAIN result_list : result_list[k] = g
          BY <3>2, <4>2
        <5> QED BY <5>1, <5>2 DEF ScanAlone
      <4> QED BY <4>1, <4>2
    <3>6. \A k \in DOMAIN result_list' : result_list'[k] \in answered
      BY <2>a, <3>2 DEF ScanAlone
    <3>7. \A j, k \in DOMAIN result_list' : result_list'[j] = result_list'[k] => j = k
      BY <3>2, <3>3 DEF ScanAlone
    <3> QED BY <2>0, <3>4, <3>5, <3>6, <3>7 DEF ScanAlone
  <2> QED BY <2>1, <2>2, <2>3, <2>4
<1>7. CASE UNCHANGED scanVars
  BY <1>7 DEF scanVars, ScanType, ScanOrder, ScanEntries, ScanAlone
<1> QED BY <1>1, <1>2, <1>3, <1>4, <1>5, <1>6, <1>7 DEF Scan!Next

\* What the invariant says of the list that is printed.
LEMMA ScanInvTrue == ScanInv => ScanTrue
<1> SUFFICES ASSUME ScanInv, scan_main = "printed" PROVE ScanTrue
  BY DEF ScanTrue, Scan!ScanTrue
<1> USE DEF ScanInv, ScanType, ScanOrder, ScanEntries, ScanAlone
<1>1. printed = result_list /\ \A h \in Hosts : ping[h] = "done" OBVIOUS
<1>2. {printed[k] : k \in DOMAIN printed} \subseteq answered \cup {Nothing} BY <1>1
<1>3. ASSUME ~overlapped
      PROVE  /\ {printed[k] : k \in DOMAIN printed} = answered
             /\ \A j, k \in DOMAIN printed : printed[j] = printed[k] => j = k
  BY <1>1, <1>3
<1> QED BY <1>1, <1>2, <1>3 DEF ScanTrue, Scan!ScanTrue

-----------------------------------------------------------------------------
(* Sqlite.                                                                 *)

\* A statement lives only between its prepare and its finalize, so that every
\* close finds none and closes.
SqlInv ==
    /\ stmt \in BOOLEAN
    /\ stmt => sql_pc \in {"step", "finalize"}
    /\ sql_pc = "exit" => db = Sql!Closed

LEMMA SqlInit == Init => SqlInv
<1> SUFFICES ASSUME Sql!Init PROVE SqlInv BY DEF Init
<1> QED BY DEF Sql!Init, SqlInv

LEMMA SqlNext == SqlInv /\ (Sql!Next \/ UNCHANGED sqlVars) => SqlInv'
<1> SUFFICES ASSUME SqlInv, Sql!Next \/ UNCHANGED sqlVars PROVE SqlInv' OBVIOUS
<1> USE DEF SqlInv
<1>1. CASE Sql!RemoveLeftover BY <1>1 DEF Sql!RemoveLeftover
<1>2. CASE Sql!Open BY <1>2 DEF Sql!Open, Sql!die, Sql!CloseDb
<1>3. CASE Sql!CreateTable BY <1>3 DEF Sql!CreateTable, Sql!die, Sql!CloseDb
<1>4. CASE Sql!Begin BY <1>4 DEF Sql!Begin
<1>5. CASE Sql!Commit BY <1>5 DEF Sql!Commit, Sql!Advance
<1>6. CASE Sql!Prepare BY <1>6 DEF Sql!Prepare
<1>7. CASE Sql!PrepareFails
  BY <1>7 DEF Sql!PrepareFails, Sql!Advance, Sql!die, Sql!CloseDb
<1>8. CASE Sql!StepWrite BY <1>8 DEF Sql!StepWrite
<1>9. CASE Sql!StepRead BY <1>9 DEF Sql!StepRead
<1>10. CASE Sql!Finalize BY <1>10 DEF Sql!Finalize, Sql!Advance
<1>11. CASE Sql!DropTable BY <1>11 DEF Sql!DropTable, Sql!die, Sql!CloseDb
<1>12. CASE Sql!CloseAndRemove BY <1>12 DEF Sql!CloseAndRemove, Sql!CloseDb
<1>13. CASE Sql!Kill BY <1>13 DEF Sql!Kill
<1>14. CASE Sql!Restart BY <1>14 DEF Sql!Restart
<1>15. CASE UNCHANGED sqlVars BY <1>15 DEF sqlVars
<1> QED
  BY <1>1, <1>2, <1>3, <1>4, <1>5, <1>6, <1>7, <1>8, <1>9, <1>10, <1>11, <1>12,
     <1>13, <1>14, <1>15 DEF Sql!Next, Sql!Main

\* The statements by their numbers.
LEMMA Statements ==
    /\ DOMAIN Sql!Script = 1 .. 12 /\ Len(Sql!Script) = 12
    /\ \A k \in 1 .. 4 : Sql!Script[k].do = "insert"
    /\ Sql!Script[1].name = "Alice" /\ Sql!Script[2].name = "Bob"
    /\ Sql!Script[3].name = "Charlie" /\ Sql!Script[4].name = "Dave"
    /\ Sql!Script[5].do = "commit" /\ Sql!Script[7].do = "update"
    /\ Sql!Script[11].do = "delete"
    /\ \A k \in {6, 8, 12} : Sql!Script[k].do = "print"
    /\ \A k \in {9, 10} : Sql!Script[k].do = "search"
BY DEF Sql!Script, Sql!Insert

\* The program counter and the statement it is at.
SqlAt ==
    /\ sql_pc \in {"remove", "open", "create", "begin", "prepare", "step", "finalize",
                   "drop", "close", "exit"}
    /\ op \in 1 .. 13 /\ run \in Nat
    /\ sql_pc \in {"remove", "open", "create", "begin"} => op = 1
    /\ sql_pc \in {"prepare", "step", "finalize"} => op <= 12
    /\ sql_pc \in {"step", "finalize"} => op # 5
    /\ sql_pc \in {"drop", "close"} => op = 13

\* No row is of a run to come.
SqlPast ==
    /\ \A r \in dbfile.rows : r.run \in Nat /\ r.run <= run
    /\ \A r \in db.view.rows : r.run \in Nat /\ r.run <= run

\* Once the leftover is removed, every row is of this run.
SqlOwn ==
    "remove_leftover" \notin sql_failed =>
        /\ sql_pc \notin {"remove", "exit"} => \A r \in dbfile.rows : r.run = run
        /\ \A r \in db.view.rows \cup shown : r.run = run

\* The users of this run in contents c, and those that the first n statements
\* insert.
Users(R) == {r.name : r \in {x \in R : x.run = run}}
UsersIn(c) == Users(c.rows)
Inserted(n) == {Sql!Script[k].name : k \in 1 .. n}

\* The users go into the connection's view one by one, and into the file all
\* at once.
SqlAtomic ==
    {"begin", "insert", "commit"} \cap sql_failed = {} /\ op <= 10 =>
        /\ sql_pc \in {"remove", "open", "create", "begin"} => UsersIn(dbfile) = {}
        /\ sql_pc \in {"create", "begin"} => UsersIn(db.view) = {}
        /\ sql_pc \in {"prepare", "step", "finalize"} /\ op <= 5 =>
              /\ db.txn /\ UsersIn(dbfile) = {}
              /\ UsersIn(db.view) = Inserted(IF sql_pc = "finalize" THEN op ELSE op - 1)
        /\ sql_pc \in {"prepare", "step", "finalize"} /\ op > 5 =>
              ~db.txn /\ UsersIn(dbfile) = Inserted(4) /\ UsersIn(db.view) = Inserted(4)
        /\ sql_pc = "exit" => UsersIn(dbfile) = {} \/ UsersIn(dbfile) = Inserted(4)

RowsInv == SqlAt /\ SqlPast /\ SqlOwn /\ SqlAtomic

LEMMA RowsInit == Init => RowsInv
<1> SUFFICES ASSUME Sql!Init PROVE RowsInv BY DEF Init
<1>1. SqlAt BY DEF Sql!Init, SqlAt
<1>2. SqlPast BY DEF Sql!Init, SqlPast, Sql!NoTable, Sql!Closed
<1>3. SqlOwn BY DEF Sql!Init, SqlOwn, Sql!NoTable, Sql!Closed
<1>4. SqlAtomic BY DEF Sql!Init, SqlAtomic, Sql!NoTable, Sql!Closed, UsersIn, Users
<1> QED BY <1>1, <1>2, <1>3, <1>4 DEF RowsInv

LEMMA InsertedUsers ==
    /\ Inserted(0) = {} /\ Inserted(4) = {"Alice", "Bob", "Charlie", "Dave"}
    /\ \A n \in 1 .. 4 : Inserted(n) = Inserted(n - 1) \cup {Sql!Script[n].name}
BY Statements DEF Inserted

\* What a statement does to the runs and the names of the rows.
LEMMA Effects ==
    ASSUME NEW R, NEW S, S = Sql!Effect(R)
    PROVE  /\ \A r \in S : r.run = run \/ \E x \in R : r.run = x.run
           /\ Sql!Script[op].do = "insert" => Users(S) = Users(R) \cup {Sql!Script[op].name}
           /\ Sql!Script[op].do = "update" => Users(S) = Users(R)
<1> DEFINE s == Sql!Script[op]
<1>1. CASE s.do = "insert"
  <2>1. S = R \cup {[name |-> s.name, age |-> s.age, run |-> run]}
    BY <1>1 DEF Sql!Effect, Sql!Row
  <2> DEFINE new == [name |-> s.name, age |-> s.age, run |-> run]
  <2>2. new.name = s.name /\ new.run = run OBVIOUS
  <2> HIDE DEF new, s
  <2>3. S = R \cup {new} BY <2>1 DEF new
  <2>4. \A r \in S : r.run = run \/ \E x \in R : r.run = x.run BY <2>2, <2>3
  <2>5. Users(S) = Users(R) \cup {s.name} BY <2>2, <2>3 DEF Users
  <2> QED BY <1>1, <2>4, <2>5 DEF s
<1>2. CASE s.do = "update"
  <2>1. S = {IF r.name = "Bob" THEN [name |-> r.name, age |-> 26, run |-> r.run] ELSE r :
               r \in R}
    BY <1>2, Zenon DEF Sql!Effect
  <2>2. \A r \in S : \E x \in R : r.name = x.name /\ r.run = x.run BY <2>1
  <2>3. ASSUME NEW x \in R PROVE \E r \in S : r.name = x.name /\ r.run = x.run
    <3>1. CASE x.name = "Bob"
      <4> DEFINE new == [name |-> x.name, age |-> 26, run |-> x.run]
      <4>1. new \in S BY <2>1, <3>1
      <4>2. new.name = x.name /\ new.run = x.run OBVIOUS
      <4> HIDE DEF new
      <4> QED BY <4>1, <4>2
    <3>2. CASE x.name # "Bob" BY <2>1, <3>2
    <3> QED BY <3>1, <3>2
  <2> QED BY <1>2, <2>2, <2>3 DEF Users
<1>3. CASE s.do # "insert" /\ s.do # "update"
  <2>1. S \subseteq R BY <1>3 DEF Sql!Effect
  <2> QED BY <1>3, <2>1
<1> QED BY <1>1, <1>2, <1>3

LEMMA RowsNext == RowsInv /\ (Sql!Next \/ UNCHANGED sqlVars) => RowsInv'
<1> SUFFICES ASSUME RowsInv, Sql!Next \/ UNCHANGED sqlVars PROVE RowsInv' OBVIOUS
<1> USE DEF RowsInv
<1>1. CASE Sql!RemoveLeftover
  <2>1. SqlAt' BY <1>1 DEF Sql!RemoveLeftover, SqlAt
  <2>2. SqlPast' BY <1>1 DEF Sql!RemoveLeftover, Sql!RemoveFile, SqlPast, Sql!NoTable
  <2>3. SqlOwn'
    BY <1>1 DEF Sql!RemoveLeftover, Sql!RemoveFile, Sql!Fails, SqlOwn, Sql!NoTable
  <2>4. SqlAtomic'
    BY <1>1 DEF Sql!RemoveLeftover, Sql!RemoveFile, Sql!Fails, SqlAtomic, SqlAt, UsersIn,
      Users, Sql!NoTable
  <2> QED BY <2>1, <2>2, <2>3, <2>4
<1>2. CASE Sql!Open
  <2>1. SqlAt' BY <1>2 DEF Sql!Open, Sql!die, SqlAt
  <2>2. SqlPast'
    BY <1>2 DEF Sql!Open, Sql!die, Sql!CloseDb, SqlPast, Sql!NoTable, Sql!Closed
  <2>3. SqlOwn'
    BY <1>2 DEF Sql!Open, Sql!die, Sql!CloseDb, Sql!Fails, SqlOwn, Sql!NoTable, Sql!Closed
  <2>4. SqlAtomic'
    BY <1>2 DEF Sql!Open, Sql!die, Sql!Fails, SqlAtomic, SqlAt, UsersIn, Users
  <2> QED BY <2>1, <2>2, <2>3, <2>4
<1>3. CASE Sql!CreateTable
  <2>1. SqlAt' BY <1>3 DEF Sql!CreateTable, Sql!die, SqlAt
  <2>2. SqlPast'
    BY <1>3 DEF Sql!CreateTable, Sql!Store, Sql!die, Sql!CloseDb, SqlPast, Sql!NoTable,
      Sql!Closed
  <2>3. SqlOwn'
    BY <1>3 DEF Sql!CreateTable, Sql!Store, Sql!die, Sql!CloseDb, Sql!Fails, SqlOwn,
      Sql!NoTable, Sql!Closed
  <2>4. SqlAtomic'
    <3>1. CASE Sql!Fails("create") /\ Sql!die
        BY <1>3, <3>1 DEF Sql!CreateTable, Sql!Fails, Sql!die, SqlAtomic, SqlAt, UsersIn,
          Users
    <3>2. CASE /\ Sql!Store([table |-> TRUE, rows |-> db.view.rows]) /\ sql_pc' = "begin"
               /\ UNCHANGED <<run, op, exists, stmt, shown, sql_failed, status>>
      <4>1. UsersIn(db.view)' = UsersIn(db.view) BY <3>2 DEF Sql!Store, UsersIn, Users
      <4>2. UsersIn(dbfile)' \in {UsersIn(dbfile), UsersIn(db.view)}
        BY <3>2 DEF Sql!Store, UsersIn, Users
      <4> QED BY <1>3, <3>2, <4>1, <4>2 DEF Sql!CreateTable, SqlAtomic, SqlAt
    <3> QED BY <1>3, <3>1, <3>2 DEF Sql!CreateTable
  <2> QED BY <2>1, <2>2, <2>3, <2>4
<1>4. CASE Sql!Begin
  <2>1. SqlAt' BY <1>4 DEF Sql!Begin, SqlAt
  <2>2. SqlPast' BY <1>4 DEF Sql!Begin, SqlPast
  <2>3. SqlOwn' BY <1>4 DEF Sql!Begin, Sql!Fails, SqlOwn
  <2>4. SqlAtomic'
    BY <1>4, InsertedUsers DEF Sql!Begin, Sql!Fails, SqlAtomic, SqlAt, UsersIn, Users
  <2> QED BY <2>1, <2>2, <2>3, <2>4
<1>5. CASE Sql!Commit
  <2>1. SqlAt' BY <1>5, Statements DEF Sql!Commit, Sql!Advance, Sql!Now, SqlAt
  <2>2. SqlPast' BY <1>5 DEF Sql!Commit, Sql!FailedWrite, SqlPast
  <2>3. SqlOwn' BY <1>5 DEF Sql!Commit, Sql!Fails, Sql!FailedWrite, SqlOwn
  <2>4. SqlAtomic'
    BY <1>5, Statements, InsertedUsers DEF Sql!Commit, Sql!Advance, Sql!Now, Sql!Fails,
      Sql!FailedWrite, SqlAtomic, SqlAt, UsersIn, Users
  <2> QED BY <2>1, <2>2, <2>3, <2>4
<1>6. CASE Sql!Prepare
  <2>1. SqlAt' BY <1>6, Statements DEF Sql!Prepare, Sql!Now, SqlAt
  <2>2. SqlPast' BY <1>6 DEF Sql!Prepare, SqlPast
  <2>3. SqlOwn' BY <1>6 DEF Sql!Prepare, SqlOwn
  <2>4. SqlAtomic'
    BY <1>6, Statements DEF Sql!Prepare, Sql!Now, SqlAtomic, SqlAt, UsersIn, Users
  <2> QED BY <2>1, <2>2, <2>3, <2>4
<1>7. CASE Sql!PrepareFails
  <2>1. SqlAt'
    BY <1>7, Statements DEF Sql!PrepareFails, Sql!Now, Sql!Advance, Sql!die, SqlAt
  <2>2. SqlPast'
    BY <1>7 DEF Sql!PrepareFails, Sql!die, Sql!CloseDb, SqlPast, Sql!NoTable, Sql!Closed
  <2>3. SqlOwn'
    BY <1>7 DEF Sql!PrepareFails, Sql!die, Sql!CloseDb, Sql!Fails, SqlOwn, Sql!NoTable,
      Sql!Closed
  <2>4. SqlAtomic'
    BY <1>7, Statements DEF Sql!PrepareFails, Sql!Now, Sql!Advance, Sql!die, Sql!CloseDb,
      Sql!Fails, SqlAtomic, SqlAt, UsersIn, Users
  <2> QED BY <2>1, <2>2, <2>3, <2>4
<1>8. CASE Sql!StepWrite
  <2>1. SqlAt'
    BY <1>8 DEF Sql!StepWrite, SqlAt
  <2>a. /\ sql_pc = "step" /\ sql_pc' = "finalize" /\ op \in 1 .. 12
        /\ Sql!Script[op].do \in {"insert", "update", "delete"}
        /\ UNCHANGED <<run, op, exists, stmt, shown, status>>
    BY <1>8 DEF Sql!StepWrite, Sql!Now, SqlAt
  <2>b. CASE Sql!Fails(Sql!Script[op].do) /\ Sql!FailedWrite
    <3>1. SqlPast' BY <2>a, <2>b DEF Sql!FailedWrite, SqlPast
    <3>2. SqlOwn' BY <2>a, <2>b DEF Sql!FailedWrite, Sql!Fails, SqlOwn
    <3>3. SqlAtomic'
      <4> SUFFICES ASSUME {"begin", "insert", "commit"} \cap sql_failed' = {}, op <= 10
                   PROVE  SqlAtomic'
        BY <2>a DEF SqlAtomic
      <4>1. Sql!Script[op].do # "insert" /\ {"begin", "insert", "commit"} \cap sql_failed = {}
        BY <2>b DEF Sql!Fails
      <4>2. op = 7 BY <2>a, <4>1, Statements
      <4>3. ~db.txn /\ db' = db /\ dbfile' = dbfile
        BY <2>a, <2>b, <4>1, <4>2 DEF Sql!FailedWrite, SqlAtomic
      <4> QED BY <2>a, <4>1, <4>2, <4>3 DEF SqlAtomic, UsersIn, Users
    <3> QED BY <2>1, <3>1, <3>2, <3>3
  <2>c. CASE /\ Sql!Store([table |-> db.view.table, rows |-> Sql!Effect(db.view.rows)])
             /\ UNCHANGED sql_failed
    <3> DEFINE S == Sql!Effect(db.view.rows)
    <3>0. /\ db'.txn = db.txn /\ db'.view.rows = S
          /\ \/ db.txn /\ dbfile' = dbfile
             \/ ~db.txn /\ dbfile'.rows = S
      BY <2>c DEF Sql!Store
    <3> HIDE DEF S
    <3>1. \A r \in S : r.run = run \/ \E x \in db.view.rows : r.run = x.run
      BY Effects DEF S
    <3>2. SqlPast' BY <2>a, <3>0, <3>1 DEF SqlPast, SqlAt
    <3>3. SqlOwn' BY <2>a, <2>c, <3>0, <3>1 DEF SqlOwn
    <3>4. SqlAtomic'
      <4> SUFFICES ASSUME {"begin", "insert", "commit"} \cap sql_failed = {}, op <= 10
                   PROVE  SqlAtomic'
        BY <2>a, <2>c DEF SqlAtomic
      <4>1. UsersIn(db.view)' = Users(S)
        BY <2>a, <3>0 DEF UsersIn, Users
      <4>2. CASE op \in 1 .. 4
        <5>1. db.txn /\ UsersIn(dbfile) = {} /\ UsersIn(db.view) = Inserted(op - 1)
          BY <2>a, <4>2 DEF SqlAtomic
        <5>a. Sql!Script[op].do = "insert" BY <4>2, Statements
        <5>b. S = Sql!Effect(db.view.rows) BY DEF S
        <5>c. Users(S) = Users(db.view.rows) \cup {Sql!Script[op].name}
          BY <5>a, <5>b, Effects
        <5>2. UsersIn(db.view)' = UsersIn(db.view) \cup {Sql!Script[op].name}
          BY <4>1, <5>c DEF UsersIn
        <5>3. UsersIn(db.view)' = Inserted(op) BY <4>2, <5>1, <5>2, InsertedUsers
        <5>4. UsersIn(dbfile)' = {} BY <2>a, <3>0, <5>1 DEF UsersIn, Users
        <5> QED BY <2>a, <3>0, <4>2, <5>1, <5>3, <5>4 DEF SqlAtomic, Inserted
      <4>3. CASE op = 7
        <5>1. ~db.txn /\ UsersIn(db.view) = Inserted(4) BY <2>a, <4>3 DEF SqlAtomic
        <5>2. UsersIn(db.view)' = UsersIn(db.view)
          <6>1. Sql!Script[op].do = "update" BY <4>3, Statements
          <6>2. S = Sql!Effect(db.view.rows) BY DEF S
          <6>3. Users(S) = Users(db.view.rows) BY <6>1, <6>2, Effects
          <6> QED BY <4>1, <6>3 DEF UsersIn
        <5>3. UsersIn(dbfile)' = UsersIn(db.view)' BY <3>0, <5>1 DEF UsersIn, Users
        <5> QED BY <2>a, <3>0, <4>3, <5>1, <5>2, <5>3 DEF SqlAtomic, Inserted
      <4> QED BY <2>a, <4>2, <4>3, Statements
    <3> QED BY <2>1, <3>2, <3>3, <3>4
  <2> QED BY <1>8, <2>b, <2>c DEF Sql!StepWrite
<1>9. CASE Sql!StepRead
  <2>1. SqlAt' BY <1>9 DEF Sql!StepRead, Sql!Now, SqlAt
  <2>2. SqlPast' BY <1>9 DEF Sql!StepRead, SqlPast
  <2>3. SqlOwn' BY <1>9 DEF Sql!StepRead, Sql!Fails, SqlOwn
  <2>4. SqlAtomic'
    BY <1>9, Statements
    DEF Sql!StepRead, Sql!Now, Sql!Fails, SqlAtomic, SqlAt, UsersIn, Users
  <2> QED BY <2>1, <2>2, <2>3, <2>4
<1>10. CASE Sql!Finalize
  <2>1. SqlAt' BY <1>10, Statements DEF Sql!Finalize, Sql!Advance, SqlAt
  <2>2. SqlPast' BY <1>10 DEF Sql!Finalize, SqlPast
  <2>3. SqlOwn' BY <1>10 DEF Sql!Finalize, SqlOwn
  <2>4. SqlAtomic'
    BY <1>10, Statements, InsertedUsers DEF Sql!Finalize, Sql!Advance, SqlAtomic, SqlAt,
      UsersIn, Users
  <2> QED BY <2>1, <2>2, <2>3, <2>4
<1>11. CASE Sql!DropTable
  <2>1. SqlAt' BY <1>11 DEF Sql!DropTable, Sql!die, SqlAt
  <2>2. SqlPast'
    BY <1>11 DEF Sql!DropTable, Sql!Store, Sql!die, Sql!CloseDb, SqlPast, Sql!NoTable,
      Sql!Closed
  <2>3. SqlOwn'
    BY <1>11 DEF Sql!DropTable, Sql!Store, Sql!die, Sql!CloseDb, Sql!Fails, SqlOwn,
      Sql!NoTable, Sql!Closed
  <2>4. SqlAtomic'
    BY <1>11 DEF Sql!DropTable, Sql!Store, Sql!die, Sql!CloseDb, Sql!Fails, SqlAtomic,
      SqlAt, UsersIn, Users, Sql!NoTable, Sql!Closed
  <2> QED BY <2>1, <2>2, <2>3, <2>4
<1>12. CASE Sql!CloseAndRemove
  <2>1. SqlAt' BY <1>12 DEF Sql!CloseAndRemove, SqlAt
  <2>2. SqlPast'
    BY <1>12 DEF Sql!CloseAndRemove, Sql!CloseDb, Sql!RemoveFile, SqlPast, Sql!NoTable,
      Sql!Closed
  <2>3. SqlOwn'
    BY <1>12 DEF Sql!CloseAndRemove, Sql!CloseDb, Sql!RemoveFile, Sql!Fails, SqlOwn,
      Sql!NoTable, Sql!Closed
  <2>4. SqlAtomic'
    BY <1>12 DEF Sql!CloseAndRemove, Sql!CloseDb, Sql!RemoveFile, Sql!Fails, SqlAtomic,
      SqlAt, UsersIn, Users, Sql!NoTable, Sql!Closed
  <2> QED BY <2>1, <2>2, <2>3, <2>4
<1>13. CASE Sql!Kill
  <2>1. SqlAt' BY <1>13 DEF Sql!Kill, SqlAt
  <2>2. SqlPast' BY <1>13 DEF Sql!Kill, SqlPast, Sql!NoTable, Sql!Closed
  <2>3. SqlOwn' BY <1>13 DEF Sql!Kill, SqlOwn, Sql!NoTable, Sql!Closed
  <2>4. SqlAtomic' BY <1>13 DEF Sql!Kill, SqlAtomic, SqlAt, UsersIn, Users
  <2> QED BY <2>1, <2>2, <2>3, <2>4
<1>14. CASE Sql!Restart
  <2>1. SqlAt' BY <1>14 DEF Sql!Restart, SqlAt
  <2>2. SqlPast' BY <1>14 DEF Sql!Restart, SqlPast, SqlAt, Sql!NoTable, Sql!Closed
  <2>3. SqlOwn' BY <1>14 DEF Sql!Restart, SqlOwn, Sql!NoTable, Sql!Closed
  <2>4. SqlAtomic'
    BY <1>14 DEF Sql!Restart, SqlAtomic, SqlAt, SqlPast, UsersIn, Users, Sql!NoTable,
      Sql!Closed
  <2> QED BY <2>1, <2>2, <2>3, <2>4
<1>15. CASE UNCHANGED sqlVars
  BY <1>15 DEF sqlVars, SqlAt, SqlPast, SqlOwn, SqlAtomic, UsersIn, Users
<1> QED
  BY <1>1, <1>2, <1>3, <1>4, <1>5, <1>6, <1>7, <1>8, <1>9, <1>10, <1>11, <1>12,
     <1>13, <1>14, <1>15 DEF Sql!Next, Sql!Main

-----------------------------------------------------------------------------
(* YtSearch.                                                               *)

SearchType ==
    /\ i \in Nat /\ results \in Seq(Nat)
    /\ yt_pc \in {"create_url", "http_get", "perform", "parser", "parse", "list", "fail",
                  "exit", "crash"}

\* What is held at each point; a description is in the list unless memory ran
\* out.
SearchHeld ==
    /\ yt_pc = "create_url" => ~url
    /\ yt_pc \in {"create_url", "http_get", "parser", "parse", "fail", "list", "exit"} => ~curl
    /\ yt_pc \in {"create_url", "http_get", "fail", "list", "exit"} => page = <<>>
    /\ yt_pc \in {"list", "exit"} => ~url
    /\ yt_pc \in {"create_url", "http_get", "perform", "parser", "fail"} => items = {}
    /\ yt_pc \in {"parse", "list"} /\ "memory" \notin faults =>
          \A x \in items : \E k \in DOMAIN results : results[k] = x
    /\ yt_pc = "exit" /\ "memory" \notin faults => items = {}

SearchInv == SearchType /\ SearchHeld

LEMMA SearchInit == Init => SearchInv
<1> SUFFICES ASSUME Search!Init PROVE SearchInv BY DEF Init
<1>1. SearchType BY DEF Search!Init, SearchType
<1>2. SearchHeld BY DEF Search!Init, SearchHeld
<1> QED BY <1>1, <1>2 DEF SearchInv

LEMMA SearchNext == SearchInv /\ (Search!Next \/ UNCHANGED searchVars) => SearchInv'
<1> SUFFICES ASSUME SearchInv, Search!Next \/ UNCHANGED searchVars PROVE SearchInv'
  OBVIOUS
<1> USE DEF SearchInv, SearchType, SearchHeld
<1>1. CASE Search!CreateUrl BY <1>1 DEF Search!CreateUrl
<1>2. CASE Search!CurlInit BY <1>2 DEF Search!CurlInit
<1>3. CASE Search!Chunk BY <1>3 DEF Search!Chunk
<1>4. CASE Search!Performed BY <1>4 DEF Search!Performed
<1>12. CASE Search!StartParser BY <1>12 DEF Search!StartParser
<1>5. CASE Search!Parse
  <2>1. /\ yt_pc = "parse" /\ i' = i + 1
        /\ UNCHANGED <<yt_pc, url, curl, sent, page, listed>>
    BY <1>5 DEF Search!Parse
  <2>2. CASE UNCHANGED results /\ UNCHANGED items /\ UNCHANGED faults
    BY <2>1, <2>2
  <2>3. CASE UNCHANGED results /\ UNCHANGED items /\ faults' = faults \cup {"memory"}
    BY <2>1, <2>3
  <2>4. CASE results' = Append(results, i) /\ items' = items \cup {i} /\ UNCHANGED faults
    <3>1. /\ results' \in Seq(Nat) /\ DOMAIN results' = 1 .. Len(results) + 1
          /\ DOMAIN results = 1 .. Len(results) /\ Len(results) \in Nat
          /\ results'[Len(results) + 1] = i
          /\ \A k \in DOMAIN results : results'[k] = results[k]
      BY <2>4, Appending
    <3>2. Len(results) + 1 \in DOMAIN results' /\ DOMAIN results \subseteq DOMAIN results'
      BY <3>1
    <3>3. "memory" \notin faults' => \A x \in items' : \E k \in DOMAIN results' : results'[k] = x
      BY <2>1, <2>4, <3>1, <3>2
    <3> QED BY <2>1, <2>4, <3>1, <3>3
  <2> QED BY <1>5, <2>2, <2>3, <2>4, Zenon DEF Search!Parse, Search!AddItem
<1>6. CASE Search!ParseListLost BY <1>6 DEF Search!ParseListLost
<1>7. CASE Search!Parsed BY <1>7 DEF Search!Parsed
<1>8. CASE Search!Failed BY <1>8 DEF Search!Failed
<1>9. CASE Search!List BY <1>9 DEF Search!List
<1>10. CASE Search!Destroy BY <1>10 DEF Search!Destroy
<1>11. CASE UNCHANGED searchVars BY <1>11 DEF searchVars
<1> QED
  BY <1>1, <1>2, <1>3, <1>4, <1>12, <1>5, <1>6, <1>7, <1>8, <1>9, <1>10, <1>11
  DEF Search!Next

\* A set of numbers that is not empty has a least one.
LEMMA Least ==
    ASSUME NEW T, T \subseteq Nat, T # {}
    PROVE  \E n \in T : \A m \in T : n <= m
<1> DEFINE Less == OpToRel(<, Nat)
<1>1. \A x, y \in Nat : x < y => <<x, y>> \in Less BY DEF OpToRel
<1>2. IsWellFoundedOn(Less, Nat) BY NatLessThanWellFounded
<1> HIDE DEF Less
<1>3. PICK n \in T : \A m \in T : <<m, n>> \notin Less BY <1>2, WFMin
<1>4. \A m \in T : m \in Nat /\ n \in Nat /\ ~(m < n) BY <1>1, <1>3
<1>5. \A m \in T : n <= m BY <1>4
<1> QED BY <1>5

\* A link with a title to something the program knows.
Matches(a) ==
    /\ \E j \in DOMAIN a : a[j].key = "title"
    /\ \E j \in DOMAIN a : a[j].key = "href" /\ a[j].value # "unknown"

\* The attribute loop takes an anchor exactly when it matches, wherever its
\* attributes stand.
LEMMA WantedMatches ==
    ASSUME NEW a \in Anchors
    PROVE  Search!Wanted(a) <=> Matches(a)
<1>1. a \in Seq([key : STRING, value : STRING]) BY AnchorsAssumption
<1>2. PICK n \in Nat : DOMAIN a = 1 .. n BY <1>1
<1>3. \A j, k \in DOMAIN a : a[j].key = "href" /\ a[k].key = "href" => j = k
  BY AnchorsAssumption
<1> DEFINE ks == {k \in DOMAIN a : /\ \E j \in 1 .. k : a[j].key = "href"
                                   /\ \E j \in 1 .. k : a[j].key = "title"}
           b == CHOOSE k \in ks : \A m \in ks : k <= m
<1>4. Search!Both(a) = IF ks = {} THEN 0 ELSE b BY DEF Search!Both
<1>5. ks \subseteq Nat BY <1>2
<1>6. ASSUME ks # {}
      PROVE  /\ b \in DOMAIN a /\ b # 0
             /\ \E j \in 1 .. b : a[j].key = "href"
             /\ \E j \in 1 .. b : a[j].key = "title"
  <2>1. b \in ks
    <3>1. \E k \in ks : \A m \in ks : k <= m BY <1>5, <1>6, Least
    <3> HIDE DEF ks
    <3> QED BY <3>1
  <2> HIDE DEF b
  <2> QED BY <1>2, <2>1
<1>7. ASSUME NEW k \in DOMAIN a, NEW j \in 1 .. k, a[j].key = "href"
      PROVE  Search!Href(a, k) = a[j].value /\ j \in DOMAIN a
  <2>1. j \in DOMAIN a BY <1>2
  <2>2. \A m \in 1 .. k : m \in DOMAIN a BY <1>2
  <2>3. \A m \in j + 1 .. k : a[m].key # "href" BY <1>2, <1>3, <1>7, <2>1, <2>2
  <2>4. \A m \in 1 .. k : a[m].key = "href" => m = j BY <1>3, <1>7, <2>1, <2>2
  <2>5. (CHOOSE m \in 1 .. k : /\ a[m].key = "href"
                               /\ \A x \in m + 1 .. k : a[x].key # "href") = j
    BY <1>7, <2>3, <2>4
  <2> QED BY <2>1, <2>5 DEF Search!Href
<1> HIDE DEF b
<1>8. ASSUME Search!Wanted(a) PROVE Matches(a)
  <2>1. ks # {} /\ Search!Both(a) = b BY <1>4, <1>8 DEF Search!Wanted
  <2>2. PICK j \in 1 .. b : a[j].key = "href" BY <1>6, <2>1
  <2>3. b \in DOMAIN a BY <1>6, <2>1
  <2>4. a[j].value # "unknown" /\ j \in DOMAIN a
    BY <1>7, <1>8, <2>1, <2>2, <2>3 DEF Search!Wanted
  <2>5. \E x \in DOMAIN a : a[x].key = "title" BY <1>2, <1>6, <2>1
  <2> QED BY <2>2, <2>4, <2>5 DEF Matches
<1>9. ASSUME Matches(a) PROVE Search!Wanted(a)
  <2>1. PICK t \in DOMAIN a : a[t].key = "title" BY <1>9 DEF Matches
  <2>2. PICK h \in DOMAIN a : a[h].key = "href" /\ a[h].value # "unknown"
    BY <1>9 DEF Matches
  <2>3. ks # {}
    <3>1. CASE t <= h
      <4>1. h \in ks BY <1>2, <2>1, <2>2, <3>1
      <4> QED BY <4>1
    <3>2. CASE h <= t
      <4>1. t \in ks BY <1>2, <2>1, <2>2, <3>2
      <4> QED BY <4>1
    <3> QED BY <1>2, <3>1, <3>2
  <2>4. PICK j \in 1 .. b : a[j].key = "href" BY <1>6, <2>3
  <2>5. b \in DOMAIN a /\ b # 0 BY <1>6, <2>3
  <2>6. Search!Href(a, b) = a[j].value /\ j \in DOMAIN a BY <1>7, <2>4, <2>5
  <2>7. j = h BY <1>3, <2>2, <2>4, <2>6
  <2> QED BY <1>4, <2>2, <2>3, <2>5, <2>6, <2>7 DEF Search!Wanted
<1> QED BY <1>8, <1>9

\* The list r has, in order and once, the matching anchors among the first n.
Finds(r, n) ==
    /\ \A k \in DOMAIN r : r[k] \in DOMAIN sent /\ r[k] <= n /\ Matches(sent[r[k]])
    /\ \A m \in DOMAIN sent : m <= n /\ Matches(sent[m]) => \E k \in DOMAIN r : r[k] = m
    /\ \A j, k \in DOMAIN r : j < k => r[j] < r[k]

\* Nothing is parsed yet; the page is what was sent.
SearchBefore ==
    yt_pc \in {"create_url", "http_get", "perform", "parser", "fail"} =>
        i = 1 /\ results = <<>> /\ listed = <<>>

SearchPage ==
    faults = {} =>
        /\ yt_pc \in {"create_url", "http_get"} => sent = <<>>
        /\ yt_pc = "perform" => page = (IF sent = <<>> THEN <<>> ELSE <<sent>>)
        /\ yt_pc \in {"parser", "parse"} => page = <<sent>>

\* The list has what the anchors parsed so far give, and main prints it in
\* order.
SearchFound ==
    /\ sent \in Seq(Anchors) /\ listed \in Seq(Nat)
    /\ faults = {} =>
        /\ yt_pc = "parse" => Finds(results, i - 1) /\ listed = <<>> /\ i \in 1 .. Len(sent) + 1
        /\ yt_pc = "list" =>
              /\ Finds(results, Len(sent)) /\ Len(listed) <= Len(results)
              /\ \A k \in DOMAIN listed : listed[k] = results[k]
        /\ yt_pc = "exit" => i = 1 \/ Finds(listed, Len(sent))

FindInv == SearchBefore /\ SearchPage /\ SearchFound

LEMMA FindInit == Init => FindInv
<1> SUFFICES ASSUME Search!Init PROVE FindInv BY DEF Init
<1>1. SearchBefore BY DEF Search!Init, SearchBefore
<1>2. SearchPage BY DEF Search!Init, SearchPage
<1>3. SearchFound
  <2>1. sent \in Seq(Anchors) /\ listed \in Seq(Nat) BY DEF Search!Init
  <2> QED BY <2>1 DEF Search!Init, SearchFound
<1> QED BY <1>1, <1>2, <1>3 DEF FindInv

LEMMA FindNext ==
    SearchInv /\ FindInv /\ (Search!Next \/ UNCHANGED searchVars) => FindInv'
<1> SUFFICES ASSUME SearchInv, FindInv, Search!Next \/ UNCHANGED searchVars
             PROVE  FindInv'
  OBVIOUS
<1> USE DEF FindInv
<1>1. CASE Search!CreateUrl
  BY <1>1 DEF Search!CreateUrl, SearchBefore, SearchPage, SearchFound, Finds
<1>2. CASE Search!CurlInit
  BY <1>2 DEF Search!CurlInit, SearchBefore, SearchPage, SearchFound, Finds,
              SearchInv, SearchHeld
<1>3. CASE Search!Chunk
  <2>1. SearchBefore' BY <1>3 DEF Search!Chunk, SearchBefore
  <2>2. SearchPage' BY <1>3 DEF Search!Chunk, SearchPage, SearchFound
  <2>3. SearchFound' BY <1>3 DEF Search!Chunk, SearchFound
  <2> QED BY <2>1, <2>2, <2>3
<1>4. CASE Search!Performed
  <2>1. SearchBefore' BY <1>4 DEF Search!Performed, SearchBefore
  <2>2. SearchPage' BY <1>4 DEF Search!Performed, SearchPage
  <2>3. SearchFound' BY <1>4 DEF Search!Performed, SearchFound, SearchBefore, Finds
  <2> QED BY <2>1, <2>2, <2>3
<1>12. CASE Search!StartParser
  <2>1. SearchBefore' BY <1>12 DEF Search!StartParser, SearchBefore
  <2>2. SearchPage' BY <1>12 DEF Search!StartParser, SearchPage
  <2>3. SearchFound' BY <1>12 DEF Search!StartParser, SearchFound, SearchBefore, Finds
  <2> QED BY <2>1, <2>2, <2>3
<1>5. CASE Search!Parse
  <2>1. SearchBefore' BY <1>5 DEF Search!Parse, SearchBefore
  <2>2. SearchPage' BY <1>5 DEF Search!Parse, SearchPage
  <2>3. SearchFound'
    <3> SUFFICES ASSUME faults = {}, faults' = {} PROVE SearchFound'
      BY <1>5 DEF Search!Parse, SearchFound
    <3>1. /\ yt_pc = "parse" /\ yt_pc' = yt_pc /\ i <= Len(page[1]) /\ i' = i + 1
          /\ sent' = sent /\ listed' = listed
      BY <1>5 DEF Search!Parse
    <3>2. page[1] = sent BY <3>1 DEF SearchPage
    <3>3. /\ sent \in Seq(Anchors) /\ listed \in Seq(Nat) /\ listed = <<>>
          /\ Finds(results, i - 1) /\ i \in 1 .. Len(sent) /\ i \in Nat
          /\ DOMAIN sent = 1 .. Len(sent) /\ Len(sent) \in Nat
      BY <3>1, <3>2 DEF SearchFound
    <3>4. i \in DOMAIN sent /\ (Search!Wanted(sent[i]) <=> Matches(sent[i]))
      BY <3>3, WantedMatches
    <3>5. Finds(results', i)
      <4>1. CASE ~Search!Wanted(sent[i]) /\ results' = results
        BY <3>3, <3>4, <4>1 DEF Finds
      <4>2. CASE Search!Wanted(sent[i]) /\ results' = Append(results, i)
        <5>1. /\ DOMAIN results' = 1 .. Len(results) + 1
              /\ DOMAIN results = 1 .. Len(results) /\ Len(results) \in Nat
              /\ results'[Len(results) + 1] = i
              /\ \A k \in DOMAIN results : results'[k] = results[k]
              /\ \A k \in DOMAIN results : results[k] \in Nat
          BY <3>3, <4>2, Appending DEF SearchInv, SearchType
        <5>2. \A k \in DOMAIN results' : k \in DOMAIN results \/ k = Len(results) + 1
          BY <5>1
        <5>3. \A k \in DOMAIN results' : /\ results'[k] \in DOMAIN sent /\ results'[k] <= i
                                         /\ Matches(sent[results'[k]])
          BY <3>3, <3>4, <4>2, <5>1, <5>2 DEF Finds
        <5>4. ASSUME NEW m \in DOMAIN sent, m <= i, Matches(sent[m])
              PROVE  \E k \in DOMAIN results' : results'[k] = m
          <6>1. CASE m = i
            <7>1. Len(results) + 1 \in DOMAIN results' BY <5>1
            <7> QED BY <5>1, <6>1, <7>1
          <6>2. CASE m # i
            <7>1. m <= i - 1 BY <3>3, <5>4, <6>2
            <7>2. PICK k \in DOMAIN results : results[k] = m BY <3>3, <5>4, <7>1 DEF Finds
            <7>3. k \in DOMAIN results' BY <5>1
            <7> QED BY <5>1, <7>2, <7>3
          <6> QED BY <6>1, <6>2
        <5>5. ASSUME NEW j \in DOMAIN results', NEW k \in DOMAIN results', j < k
              PROVE  results'[j] < results'[k]
          <6>1. j \in DOMAIN results BY <5>1, <5>5
          <6>2. CASE k \in DOMAIN results BY <3>3, <5>1, <5>5, <6>1, <6>2 DEF Finds
          <6>3. CASE k = Len(results) + 1
            <7>1. results[j] <= i - 1 BY <3>3, <6>1 DEF Finds
            <7> QED BY <3>3, <5>1, <6>1, <6>3, <7>1
          <6> QED BY <5>2, <6>2, <6>3
        <5> QED BY <5>3, <5>4, <5>5 DEF Finds
      <4>3. "memory" \notin faults' OBVIOUS
      <4> QED BY <1>5, <3>2, <4>1, <4>2, <4>3, Zenon DEF Search!Parse, Search!AddItem
    <3>7. i' - 1 = i BY <3>1, <3>3
    <3> QED BY <3>1, <3>3, <3>5, <3>7 DEF SearchFound, Finds
  <2> QED BY <2>1, <2>2, <2>3
<1>6. CASE Search!ParseListLost
  BY <1>6 DEF Search!ParseListLost, SearchBefore, SearchPage, SearchFound
<1>7. CASE Search!Parsed
  <2>1. SearchBefore' BY <1>7 DEF Search!Parsed, SearchBefore
  <2>2. SearchPage' BY <1>7 DEF Search!Parsed, SearchPage
  <2>3. SearchFound'
    BY <1>7 DEF Search!Parsed, SearchFound, SearchPage, SearchInv, SearchType, Finds
  <2> QED BY <2>1, <2>2, <2>3
<1>8. CASE Search!Failed
  BY <1>8 DEF Search!Failed, SearchBefore, SearchPage, SearchFound, Finds
<1>9. CASE Search!List
  <2>1. SearchBefore' BY <1>9 DEF Search!List, SearchBefore
  <2>2. SearchPage' BY <1>9 DEF Search!List, SearchPage
  <2>3. SearchFound'
    <3>0. yt_pc = "list" /\ Len(listed) < Len(results) /\ UNCHANGED <<sent, results, i>>
      BY <1>9 DEF Search!List
    <3>1. CASE yt_pc' = "crash" /\ listed' = listed BY <3>0, <3>1 DEF SearchFound
    <3>2. CASE yt_pc' = yt_pc /\ listed' = Append(listed, results[Len(listed) + 1])
      <4>1. Len(listed) + 1 \in DOMAIN results /\ results[Len(listed) + 1] \in Nat
        BY <3>0 DEF SearchInv, SearchType, SearchFound
      <4>2. /\ listed' \in Seq(Nat) /\ Len(listed') = Len(listed) + 1
            /\ DOMAIN listed' = 1 .. Len(listed) + 1 /\ DOMAIN listed = 1 .. Len(listed)
            /\ listed'[Len(listed) + 1] = results[Len(listed) + 1]
            /\ \A k \in DOMAIN listed : listed'[k] = listed[k]
        BY <3>2, <4>1, Appending DEF SearchFound
      <4>3. Len(listed) \in Nat /\ Len(results) \in Nat
        BY DEF SearchInv, SearchType, SearchFound
      <4>4. faults' = {} => faults = {} BY <1>9 DEF Search!List
      <4>5. ASSUME faults = {}, NEW k \in DOMAIN listed' PROVE listed'[k] = results[k]
        <5>1. k \in DOMAIN listed \/ k = Len(listed) + 1 BY <4>2, <4>3
        <5>2. \A x \in DOMAIN listed : listed[x] = results[x]
          BY <3>0, <4>5 DEF SearchFound
        <5> QED BY <4>2, <5>1, <5>2
      <4> QED BY <3>0, <3>2, <4>2, <4>3, <4>4, <4>5 DEF SearchFound, Finds
    <3> QED BY <1>9, <3>1, <3>2, Zenon DEF Search!List
  <2> QED BY <2>1, <2>2, <2>3
<1>10. CASE Search!Destroy
  <2>1. SearchBefore' BY <1>10 DEF Search!Destroy, SearchBefore
  <2>2. SearchPage' BY <1>10 DEF Search!Destroy, SearchPage
  <2>3. SearchFound'
    <3>1. /\ yt_pc = "list" /\ Len(listed) = Len(results) /\ yt_pc' = "exit"
          /\ UNCHANGED <<sent, listed, faults>>
      BY <1>10 DEF Search!Destroy
    <3>2. ASSUME faults = {} PROVE Finds(listed, Len(sent))
      <4>1. DOMAIN listed = DOMAIN results BY <3>1 DEF SearchInv, SearchType, SearchFound
      <4>2. Finds(results, Len(sent)) /\ \A k \in DOMAIN results : listed[k] = results[k]
        BY <3>1, <3>2, <4>1 DEF SearchFound
      <4> QED BY <4>1, <4>2 DEF Finds
    <3> QED BY <3>1, <3>2 DEF SearchFound, Finds
  <2> QED BY <2>1, <2>2, <2>3
<1>11. CASE UNCHANGED searchVars
  BY <1>11 DEF searchVars, SearchBefore, SearchPage, SearchFound, Finds
<1> QED
  BY <1>1, <1>2, <1>3, <1>4, <1>12, <1>5, <1>6, <1>7, <1>8, <1>9, <1>10, <1>11
  DEF Search!Next

\* What the invariant says of the listing when the program has ended.
LEMMA FindInvComplete == FindInv => SearchComplete
<1> SUFFICES ASSUME FindInv, yt_pc = "exit", faults = {}, i > 1 PROVE SearchComplete
  BY DEF SearchComplete, Search!SearchComplete
<1>1. Finds(listed, Len(sent)) /\ sent \in Seq(Anchors) BY DEF FindInv, SearchFound
<1>2. {listed[j] : j \in DOMAIN listed} = {k \in DOMAIN sent : Matches(sent[k])}
  BY <1>1 DEF Finds
<1>3. \A j, k \in DOMAIN listed : j < k => listed[j] < listed[k] BY <1>1 DEF Finds
<1> QED BY <1>2, <1>3 DEF SearchComplete, Search!SearchComplete, Matches

-----------------------------------------------------------------------------
(* Imap.                                                                   *)

\* The numbers of the steps that the actions name.
LEMMA Numbers ==
    /\ Mail!Number("connect") = 1 /\ Mail!Number("prompt") = 8
    /\ Mail!Number("FETCH_multipart") = 13 /\ Mail!Number("NOOP") = 14
    /\ Mail!Number("save") = 15 /\ Mail!Number("finally") = 17
    /\ Mail!Number("end") = 18
<1>1. \A k \in DOMAIN Mail!Steps :
         /\ Mail!Steps[k] = "connect" <=> k = 1
         /\ Mail!Steps[k] = "prompt" <=> k = 8
         /\ Mail!Steps[k] = "FETCH_multipart" <=> k = 13
         /\ Mail!Steps[k] = "NOOP" <=> k = 14
         /\ Mail!Steps[k] = "save" <=> k = 15
         /\ Mail!Steps[k] = "finally" <=> k = 17
         /\ Mail!Steps[k] = "end" <=> k = 18
  BY DEF Mail!Steps
<1>2. DOMAIN Mail!Steps = 1 .. 18 BY DEF Mail!Steps
<1> QED BY <1>1, <1>2 DEF Mail!Number

LEMMA Commands ==
    \A k \in 1 .. 18 :
        Mail!Steps[k] \notin {"connect", "prompt", "save", "finally", "end"}
            <=> k \in 2 .. 7 \cup 9 .. 14 \cup {16}
BY DEF Mail!Steps

\* A command and its number.
LEMMA CommandSteps ==
    step \in 1 .. 18 => (Mail!Command <=> step \in 2 .. 7 \cup 9 .. 14 \cup {16})
BY Commands DEF Mail!Command

\* A piece of an answer, and the k-th of those that the last FETCH and the NOOP
\* read: the unread ones before it, its own, those of NOOP.
Piece == {"other", "multipart"} \X Nat
Stream(k) == IF k > backlog /\ k <= backlog + parts THEN <<"multipart", k - backlog>>
             ELSE <<"other", 0>>

MailType ==
    /\ step \in 1 .. 18 /\ wire \in Seq(Piece) /\ backlog \in Nat /\ parts \in Nat
    /\ asked => step \in 2 .. 7 \cup 9 .. 14 \cup {16}

MailClosed == step = 18 => ~sw /\ ~ssl /\ ~tcpc

\* Up to the last FETCH nothing on the way belongs to it; then the connection
\* delivers Stream, and content has taken what was read of it.
MailRead ==
    ~lost =>
        /\ step < 13 \/ (step = 13 /\ ~asked) =>
              content = <<>> /\ \A k \in DOMAIN wire : wire[k] = <<"other", 0>>
        /\ step = 13 /\ asked =>
              /\ content = <<>> /\ parts >= 1 /\ Len(wire) = backlog + parts
              /\ \A k \in DOMAIN wire : wire[k] = Stream(k)
        /\ step = 14 =>
              /\ content = <<Stream(1)>> /\ parts >= 1
              /\ Len(wire) >= backlog + parts - 1
              /\ \A k \in DOMAIN wire : wire[k] = Stream(k + 1)
        /\ step = 15 => content = <<Stream(1), Stream(2)>> /\ parts >= 1

MailInv == MailType /\ MailClosed /\ MailRead

LEMMA MailInit == Init => MailInv
<1> SUFFICES ASSUME Mail!Init PROVE MailInv BY DEF Init
<1>0. step = 1 BY Numbers DEF Mail!Init, Mail!At
<1>1. MailType
  <2>1. wire \in Seq(Piece) BY DEF Mail!Init
  <2> QED BY <1>0, <2>1 DEF Mail!Init, MailType
<1>2. MailClosed BY <1>0 DEF MailClosed
<1>3. MailRead BY <1>0 DEF Mail!Init, MailRead
<1> QED BY <1>1, <1>2, <1>3 DEF MailInv

\* A sequence put behind another, and what is behind the first element.
LEMMA Joining ==
    ASSUME NEW S, NEW s \in Seq(S), NEW t \in Seq(S)
    PROVE  /\ s \o t \in Seq(S) /\ Len(s \o t) = Len(s) + Len(t)
           /\ \A k \in DOMAIN (s \o t) :
                 IF k <= Len(s) THEN k \in DOMAIN s /\ (s \o t)[k] = s[k]
                 ELSE k - Len(s) \in DOMAIN t /\ (s \o t)[k] = t[k - Len(s)]
OBVIOUS

LEMMA Dropping ==
    ASSUME NEW S, NEW s \in Seq(S), s # <<>>
    PROVE  /\ Tail(s) \in Seq(S) /\ Len(Tail(s)) = Len(s) - 1
           /\ 1 \in DOMAIN s /\ Head(s) = s[1]
           /\ \A k \in DOMAIN Tail(s) : k \in Nat /\ k + 1 \in DOMAIN s /\ Tail(s)[k] = s[k + 1]
OBVIOUS

LEMMA TwoJoined ==
    ASSUME NEW x, NEW y
    PROVE  <<x>> \o <<y>> = <<x, y>>
<1>1. <<x>> \in Seq({x, y}) /\ <<y>> \in Seq({x, y}) OBVIOUS
<1>2. <<x>> \o <<y>> \in Seq({x, y}) /\ <<x, y>> \in Seq({x, y}) BY <1>1
<1>3. Len(<<x>> \o <<y>>) = 2 BY <1>1
<1>4. (<<x>> \o <<y>>)[1] = x /\ (<<x>> \o <<y>>)[2] = y BY <1>1
<1>5. \A k \in 1 .. 2 : (<<x>> \o <<y>>)[k] = <<x, y>>[k] BY <1>4
<1>6. Len(<<x, y>>) = 2 OBVIOUS
<1> QED BY <1>2, <1>3, <1>5, <1>6, SeqEqual

LEMMA MailNext == MailInv /\ (Mail!Next \/ UNCHANGED mailVars) => MailInv'
<1> SUFFICES ASSUME MailInv, Mail!Next \/ UNCHANGED mailVars PROVE MailInv' OBVIOUS
<1> USE DEF MailInv
<1>0. step \in 1 .. 18 BY DEF MailType
<1>1. CASE Mail!Connect
  <2>1. step = 1 /\ step' \in {2, 17} /\ UNCHANGED <<asked, wire, backlog, parts, content, lost>>
    BY <1>1, Numbers DEF Mail!Connect, Mail!At
  <2> QED BY <2>1 DEF MailType, MailClosed, MailRead
<1>2. CASE Mail!Ask
  <2>1. /\ step \in 2 .. 7 \cup 9 .. 14 \cup {16} /\ asked' = TRUE /\ ~asked
        /\ UNCHANGED <<step, sw, ssl, tcpc, content, lost>>
    BY <1>0, <1>2, CommandSteps DEF Mail!Ask
  <2>2. PICK n \in 1 .. MaxPieces :
          /\ wire' = IF lost THEN wire ELSE wire \o Mail!Answer(n)
          /\ IF step = 13 THEN backlog' = Len(wire) /\ parts' = n
             ELSE UNCHANGED <<backlog, parts>>
    BY <1>2, Numbers DEF Mail!Ask, Mail!At
  <2>3. n \in Nat /\ n >= 1 BY BoundsAssumption
  <2> DEFINE ans == Mail!Answer(n)
  <2>4. ans = [k \in 1 .. n |-> IF step = 13 THEN <<"multipart", k>> ELSE <<"other", 0>>]
    BY Numbers DEF Mail!Answer, Mail!At
  <2>5. ans \in Seq(Piece) /\ Len(ans) = n /\ DOMAIN ans = 1 .. n
    BY <2>3, <2>4 DEF Piece
  <2> HIDE DEF ans
  <2>6. MailType'
    <3>1. wire \o ans \in Seq(Piece) BY <2>5, Joining DEF MailType
    <3>2. wire' \in Seq(Piece) BY <2>2, <3>1 DEF MailType, ans
    <3> QED BY <2>1, <2>2, <2>3, <3>2 DEF MailType
  <2>7. MailClosed' BY <2>1 DEF MailClosed
  <2>8. MailRead'
    <3> SUFFICES ASSUME ~lost PROVE MailRead' BY <2>1 DEF MailRead
    <3>1. /\ wire' = wire \o ans /\ Len(wire') = Len(wire) + n /\ Len(wire) \in Nat
          /\ \A k \in DOMAIN wire' :
                IF k <= Len(wire) THEN k \in DOMAIN wire /\ wire'[k] = wire[k]
                ELSE k - Len(wire) \in DOMAIN ans /\ wire'[k] = ans[k - Len(wire)]
          /\ DOMAIN wire' = 1 .. Len(wire')
      <4>1. wire' = wire \o ans BY <2>2 DEF ans
      <4> QED BY <2>5, <4>1, Joining DEF MailType
    <3>2. CASE step < 13
      <4>1. \A k \in DOMAIN wire' : wire'[k] = <<"other", 0>>
        BY <2>4, <2>5, <3>1, <3>2 DEF MailRead
      <4> QED BY <2>1, <3>2, <4>1 DEF MailRead
    <3>3. CASE step = 13
      <4>1. backlog' = Len(wire) /\ parts' = n BY <2>2, <3>3
      <4>2. \A k \in DOMAIN wire' : wire'[k] = Stream(k)'
        <5> TAKE k \in DOMAIN wire'
        <5>0. k \in 1 .. Len(wire) + n BY <3>1
        <5>1. CASE k <= Len(wire)
          <6>1. wire'[k] = <<"other", 0>> BY <2>1, <3>1, <3>3, <5>1 DEF MailRead
          <6>2. ~(k > Len(wire)) BY <3>1, <5>0, <5>1
          <6> QED BY <4>1, <6>1, <6>2 DEF Stream
        <5>2. CASE ~(k <= Len(wire))
          <6>1. wire'[k] = <<"multipart", k - Len(wire)>>
            BY <2>4, <2>5, <3>1, <3>3, <5>2
          <6>2. k > Len(wire) /\ k <= Len(wire) + n BY <2>3, <3>1, <5>0, <5>2
          <6> QED BY <4>1, <6>1, <6>2 DEF Stream
        <5> QED BY <5>1, <5>2
      <4> QED BY <2>1, <2>3, <3>1, <3>3, <4>1, <4>2 DEF MailRead
    <3>4. CASE step = 14
      <4>1. backlog' = backlog /\ parts' = parts BY <2>2, <3>4
      <4>2. \A k : Stream(k)' = Stream(k) BY <4>1 DEF Stream
      <4>3. \A k \in DOMAIN wire' : wire'[k] = Stream(k + 1)
        <5> TAKE k \in DOMAIN wire'
        <5>1. CASE k <= Len(wire) BY <3>1, <3>4, <5>1 DEF MailRead
        <5>2. CASE ~(k <= Len(wire))
          <6>1. wire'[k] = <<"other", 0>> BY <2>4, <2>5, <3>1, <3>4, <5>2
          <6>2. k + 1 > backlog + parts
            BY <3>1, <3>4, <5>2 DEF MailRead, MailType
          <6> QED BY <3>1, <6>1, <6>2 DEF Stream, MailType
        <5> QED BY <5>1, <5>2
      <4>4. content = <<Stream(1)>> /\ parts >= 1 /\ Len(wire) >= backlog + parts - 1
        BY <3>4 DEF MailRead
      <4>5. Len(wire') >= backlog' + parts' - 1
        BY <2>3, <3>1, <4>1, <4>4 DEF MailType
      <4> QED BY <2>1, <3>4, <4>1, <4>2, <4>3, <4>4, <4>5 DEF MailRead
    <3>5. CASE step = 16 BY <2>1, <3>5 DEF MailRead
    <3> QED BY <2>1, <3>2, <3>3, <3>4, <3>5
  <2> QED BY <2>6, <2>7, <2>8
<1>3. CASE Mail!Receive
  <2>1. /\ asked /\ asked' = FALSE /\ step' = step + 1
        /\ UNCHANGED <<sw, ssl, tcpc, backlog, parts, lost>>
    BY <1>3 DEF Mail!Receive
  <2>2. \/ /\ wire # <<>> /\ wire' = Tail(wire)
           /\ content' = IF step \in {13, 14} THEN content \o <<Head(wire)>> ELSE content
        \/ lost /\ wire' = wire
    BY <1>3, Numbers DEF Mail!Receive, Mail!Appended, Mail!At
  <2>3. step \in 2 .. 7 \cup 9 .. 14 \cup {16} BY <2>1 DEF MailType
  <2>4. wire # <<>> => /\ Tail(wire) \in Seq(Piece) /\ Len(Tail(wire)) = Len(wire) - 1
                       /\ 1 \in DOMAIN wire /\ Head(wire) = wire[1]
                       /\ \A k \in DOMAIN Tail(wire) :
                             k \in Nat /\ k + 1 \in DOMAIN wire /\ Tail(wire)[k] = wire[k + 1]
    BY Dropping DEF MailType
  <2>5. MailType' BY <2>1, <2>2, <2>3, <2>4 DEF MailType
  <2>6. MailClosed' BY <2>1, <2>3 DEF MailClosed
  <2>7. MailRead'
    <3> SUFFICES ASSUME ~lost PROVE MailRead' BY <2>1 DEF MailRead
    <3>0. \A k : Stream(k)' = Stream(k) BY <2>1 DEF Stream
    <3>1. /\ wire # <<>> /\ wire' = Tail(wire)
          /\ content' = IF step \in {13, 14} THEN content \o <<Head(wire)>> ELSE content
      BY <2>2
    <3>2. CASE step < 13
      <4>1. \A k \in DOMAIN wire' : wire'[k] = <<"other", 0>>
        BY <2>4, <3>1, <3>2 DEF MailRead
      <4>2. content' = <<>> BY <3>1, <3>2 DEF MailRead, MailType
      <4> QED BY <2>1, <3>2, <4>1, <4>2 DEF MailRead, MailType
    <3>3. CASE step = 13
      <4>1. content = <<>> /\ parts >= 1 /\ Len(wire) = backlog + parts
            /\ \A k \in DOMAIN wire : wire[k] = Stream(k)
        BY <2>1, <3>3 DEF MailRead
      <4>2. content' = <<Stream(1)>> BY <2>4, <3>1, <3>3, <4>1
      <4>3. \A k \in DOMAIN wire' : wire'[k] = Stream(k + 1) BY <2>4, <3>1, <4>1
      <4>4. Len(wire') >= backlog + parts - 1 BY <2>4, <3>1, <4>1 DEF MailType
      <4> QED BY <2>1, <3>0, <3>3, <4>1, <4>2, <4>3, <4>4 DEF MailRead
    <3>4. CASE step = 14
      <4>1. content = <<Stream(1)>> /\ parts >= 1
            /\ \A k \in DOMAIN wire : wire[k] = Stream(k + 1)
        BY <3>4 DEF MailRead
      <4>2. Head(wire) = Stream(2) BY <2>4, <3>1, <4>1
      <4>3. content' = <<Stream(1)>> \o <<Stream(2)>> BY <3>1, <3>4, <4>1, <4>2
      <4>4. <<Stream(1)>> \o <<Stream(2)>> = <<Stream(1), Stream(2)>> BY TwoJoined
      <4> QED BY <2>1, <3>0, <3>4, <4>1, <4>3, <4>4 DEF MailRead
    <3>5. CASE step = 16 BY <2>1, <3>5 DEF MailRead
    <3> QED BY <2>3, <3>2, <3>3, <3>4, <3>5
  <2> QED BY <2>5, <2>6, <2>7
<1>4. CASE Mail!Prompt
  <2>1. /\ step = 8 /\ step' \in {9, 17}
        /\ UNCHANGED <<asked, wire, backlog, parts, content, lost>>
    BY <1>4, Numbers DEF Mail!Prompt, Mail!At
  <2> QED BY <2>1 DEF MailType, MailClosed, MailRead
<1>5. CASE Mail!Save
  <2>1. /\ step = 15 /\ step' \in {16, 17}
        /\ UNCHANGED <<asked, wire, backlog, parts, content, lost>>
    BY <1>5, Numbers DEF Mail!Save, Mail!At
  <2> QED BY <2>1 DEF MailType, MailClosed, MailRead
<1>6. CASE Mail!Lose
  <2>1. /\ step' = step /\ lost' = TRUE /\ wire' \in {<<>>, wire}
        /\ UNCHANGED <<step, asked, sw, ssl, tcpc, backlog, parts, content>>
    BY <1>6 DEF Mail!Lose
  <2>2. <<>> \in Seq(Piece) OBVIOUS
  <2>3. wire' \in Seq(Piece) BY <2>1, <2>2, Zenon DEF MailType
  <2> QED BY <2>1, <2>3 DEF MailType, MailClosed, MailRead
<1>7. CASE Mail!Throw
  <2>1. /\ lost /\ step' = 17 /\ asked' = FALSE
        /\ UNCHANGED <<wire, backlog, parts, content, lost>>
    BY <1>7, Numbers DEF Mail!Throw
  <2> QED BY <2>1 DEF MailType, MailClosed, MailRead
<1>8. CASE Mail!Finally
  <2>1. /\ step = 17 /\ step' = 18 /\ ~sw' /\ ~ssl' /\ ~tcpc'
        /\ UNCHANGED <<asked, wire, backlog, parts, content, lost>>
    BY <1>8, Numbers DEF Mail!Finally, Mail!At
  <2> QED BY <2>1 DEF MailType, MailClosed, MailRead
<1>9. CASE UNCHANGED mailVars
  BY <1>9 DEF mailVars, MailType, MailClosed, MailRead, Stream
<1> QED
  BY <1>1, <1>2, <1>3, <1>4, <1>5, <1>6, <1>7, <1>8, <1>9 DEF Mail!Next

\* What the invariant says of content when the attachment is cut out of it.
LEMMA MailInvRead == MailInv => LastBytesRead
<1> SUFFICES ASSUME MailInv, step = 15, ~lost
             PROVE  {<<"multipart", k>> : k \in 1 .. parts}
                        \subseteq {content[k] : k \in DOMAIN content}
                      <=> backlog + parts <= 2
  BY Numbers DEF LastBytesRead, Mail!LastBytesRead, Mail!At
<1>1. content = <<Stream(1), Stream(2)>> /\ parts >= 1 /\ parts \in Nat /\ backlog \in Nat
  BY DEF MailInv, MailRead, MailType
<1>2. {content[k] : k \in DOMAIN content} = {Stream(1), Stream(2)} BY <1>1
<1>3. ASSUME backlog + parts <= 2, NEW k \in 1 .. parts
      PROVE  <<"multipart", k>> \in {Stream(1), Stream(2)}
  <2>1. backlog + k \in {1, 2} BY <1>1, <1>3
  <2>2. Stream(backlog + k) = <<"multipart", k>> BY <1>1 DEF Stream
  <2> QED BY <2>1, <2>2
<1>4. ASSUME <<"multipart", parts>> \in {Stream(1), Stream(2)}
      PROVE  backlog + parts <= 2
  BY <1>1, <1>4 DEF Stream
<1>5. <<"multipart", parts>> \in {<<"multipart", k>> : k \in 1 .. parts} BY <1>1
<1> QED BY <1>2, <1>3, <1>4, <1>5

-----------------------------------------------------------------------------
(* Recorder.                                                               *)

Units == {"old", "header", "fresh", "stale", "torn"}
Configuring == {"set_access", "set_format", "set_channels", "set_rate_near",
                "set_period_size_near", "hw_params", "get_period_size", "malloc"}

WavType ==
    /\ rec_pc \in {"start", "fopen", "snd_pcm_open", "get_period_time", "open",
                   "writeWAVHeader", "record", "returned", "exit", "crash"} \cup Configuring
    /\ rate \in Nat /\ outwav \in Seq(Units) /\ offset \in Nat
    /\ frames \in Nat /\ offset <= Len(outwav)
    /\ rec_pc = "fopen" \/ rec_pc = "start" => offset = 0
    /\ rec_pc \in {"malloc", "get_period_time", "open", "writeWAVHeader", "record"} =>
          frames > 0

\* What is open and allocated at each point.
WavHeld ==
    /\ rec_pc = "start" => ~header /\ f = "none"
    /\ rec_pc \in {"start", "fopen", "snd_pcm_open"} => ~handle
    /\ rec_pc \in {"start", "fopen", "snd_pcm_open"} \cup Configuring => ~buffer
    /\ rec_pc \notin {"writeWAVHeader", "record", "crash"} => filedesc = "none"
    /\ rec_pc \notin {"start", "fopen", "exit", "crash"} => f \in {"open", "null"}
    /\ rec_pc \in {"returned", "exit"} => ~handle /\ ~buffer
    /\ rec_pc = "exit" => ~header /\ f = "none"

\* The file is the header and then as many periods as were read, while p are
\* still to come.
Recorded(p_) ==
    /\ Len(outwav) = offset /\ offset >= 1 /\ p_ \in Nat
    /\ offset + p_ = 1 + Micros \div (rate \div frames)
    /\ outwav[1] = "header"
    /\ \A k \in 2 .. offset : outwav[k] \in {"fresh", "stale"}

\* fopen has emptied the file, and so every write is behind the last one.
WavFile ==
    /\ f = "open" /\ rec_pc \in {"snd_pcm_open", "get_period_time", "open"} \cup Configuring =>
          outwav = <<>>
    /\ f = "open" /\ rec_pc = "writeWAVHeader" => outwav = <<>> /\ offset = 0
    /\ f = "open" /\ rec_pc = "record" => failed \/ Recorded(periods)
    /\ f = "open" /\ rec_pc = "returned" /\ result = "ok" => failed \/ Recorded(0)
    /\ rec_pc = "exit" /\ result = "ok" => failed \/ Recorded(0)
    /\ rec_pc # "returned" /\ rec_pc # "exit" /\ rec_pc # "crash" => result = "none"

WavInv == WavType /\ WavHeld /\ WavFile

LEMMA WavInit == Init => WavInv
<1> SUFFICES ASSUME Wav!Init PROVE WavInv BY DEF Init
<1>1. WavType
  <2>1. PICK n \in 0 .. MaxOld : outwav = [k \in 1 .. n |-> "old"] BY DEF Wav!Init
  <2>2. outwav \in Seq(Units) BY <2>1, RecorderAssumption DEF Units
  <2> QED BY <2>2 DEF Wav!Init, WavType
<1>2. WavHeld BY DEF Wav!Init, WavHeld, Configuring
<1>3. WavFile BY DEF Wav!Init, WavFile, Configuring
<1> QED BY <1>1, <1>2, <1>3 DEF WavInv

\* Overwriting the unit at the end of the file appends it.
LEMMA AppendsUnit ==
    ASSUME NEW s \in Seq(Units), NEW u \in Units, NEW n \in Nat, n <= Len(s)
    PROVE  /\ SubSeq(s, 1, n) \o <<u>> \o SubSeq(s, n + 2, Len(s)) \in Seq(Units)
           /\ Len(SubSeq(s, 1, n) \o <<u>> \o SubSeq(s, n + 2, Len(s))) >= n + 1
           /\ n = Len(s) => SubSeq(s, 1, n) \o <<u>> \o SubSeq(s, n + 2, Len(s)) = Append(s, u)
<1> DEFINE over == SubSeq(s, 1, n) \o <<u>> \o SubSeq(s, n + 2, Len(s))
<1> SUFFICES /\ over \in Seq(Units) /\ Len(over) >= n + 1
             /\ n = Len(s) => over = Append(s, u)
  BY Zenon
<1>1. CASE n = Len(s)
  <2>1. SubSeq(s, 1, n) = s BY <1>1
  <2>2. SubSeq(s, n + 2, Len(s)) = <<>> BY <1>1
  <2>3. <<u>> \in Seq(Units) OBVIOUS
  <2>4. s \o <<u>> \in Seq(Units) /\ Len(s \o <<u>>) = n + 1 BY <1>1, <2>3
  <2>5. (s \o <<u>>) \o <<>> = s \o <<u>> BY <2>4
  <2>6. s \o <<u>> = Append(s, u) OBVIOUS
  <2>7. over = s \o <<u>> BY <2>1, <2>2, <2>5, Zenon
  <2> HIDE DEF over
  <2> QED BY <2>4, <2>6, <2>7
<1>2. CASE n < Len(s)
  <2>1. SubSeq(s, 1, n) \in Seq(Units) /\ Len(SubSeq(s, 1, n)) = n BY <1>2
  <2>2. SubSeq(s, n + 2, Len(s)) \in Seq(Units)
    <3>1. \A k \in n + 2 .. Len(s) : s[k] \in Units BY <1>2
    <3> QED BY <3>1, SubSeqProperties
  <2>3. <<u>> \in Seq(Units) /\ Len(<<u>>) = 1 OBVIOUS
  <2>4. /\ SubSeq(s, 1, n) \o <<u>> \in Seq(Units)
        /\ Len(SubSeq(s, 1, n) \o <<u>>) = n + 1
    BY <2>1, <2>3
  <2> DEFINE a == SubSeq(s, 1, n) \o <<u>>
             b == SubSeq(s, n + 2, Len(s))
  <2>5. a \in Seq(Units) /\ Len(a) = n + 1 /\ b \in Seq(Units) BY <2>2, <2>4
  <2> HIDE DEF a, b
  <2>6. a \o b \in Seq(Units) /\ Len(a \o b) >= n + 1 BY <2>5
  <2>7. over = a \o b BY Zenon DEF a, b
  <2> HIDE DEF over
  <2> QED BY <1>2, <2>6, <2>7
<1> HIDE DEF over
<1> QED BY <1>1, <1>2

\* What a write does to the file, when it fails and when it does not.
LEMMA Writing ==
    ASSUME NEW u \in Units, WavType, Wav!Write(u)
    PROVE  /\ outwav' \in Seq(Units) /\ offset' \in Nat /\ offset' <= Len(outwav')
           /\ \/ failed'
              \/ /\ failed' = failed /\ offset' = offset + 1
                 /\ offset = Len(outwav) => outwav' = Append(outwav, u)
<1> DEFINE over(x) == SubSeq(outwav, 1, offset) \o <<x>>
                        \o SubSeq(outwav, offset + 2, Len(outwav))
<1>1. \A x \in Units : /\ over(x) \in Seq(Units) /\ Len(over(x)) >= offset + 1
                       /\ offset = Len(outwav) => over(x) = Append(outwav, x)
  BY AppendsUnit DEF WavType
<1>2. "torn" \in Units BY DEF Units
<1>3. CASE outwav' = over(u) /\ offset' = offset + 1 /\ UNCHANGED failed
  <2> HIDE DEF over
  <2> QED BY <1>1, <1>3 DEF WavType
<1>4. CASE outwav' = over("torn") /\ offset' = offset + 1 /\ failed' = TRUE
  <2> HIDE DEF over
  <2> QED BY <1>1, <1>2, <1>4 DEF WavType
<1>5. CASE failed' = TRUE /\ UNCHANGED <<outwav, offset>> BY <1>5 DEF WavType
<1> QED BY <1>3, <1>4, <1>5, Zenon DEF Wav!Write

\* The calls that configure the device, one after the other.
LEMMA Configured ==
    ASSUME Wav!Configure
    PROVE  /\ rec_pc \in Configuring \ {"malloc"} /\ rec_pc' \in Configuring
           /\ rate' = rate \/ rate' \in Rates
           /\ frames' = frames \/ frames' \in FrameCounts
           /\ rec_pc' = "malloc" => frames' \in FrameCounts
           /\ UNCHANGED <<header, f, handle, buffer, filedesc, periods, outwav, offset,
                          failed, result>>
<1>1. PICK k \in 1 .. 7 :
        /\ rec_pc = Wav!HwParams[k] /\ rec_pc' = Wav!HwParams[k + 1]
        /\ IF rec_pc = "set_rate_near" THEN rate' \in Rates ELSE UNCHANGED rate
        /\ IF rec_pc = "get_period_size" THEN frames' \in FrameCounts ELSE UNCHANGED frames
        /\ UNCHANGED <<header, f, handle, buffer, filedesc, periods, outwav, offset,
                       failed, result>>
  <2>1. Len(Wav!HwParams) - 1 = 7 BY DEF Wav!HwParams
  <2> QED BY <2>1, Zenon DEF Wav!Configure, Wav!held, Wav!written
<1>2. /\ rec_pc \in Configuring \ {"malloc"} /\ rec_pc' \in Configuring
      /\ rec_pc' = "malloc" => rec_pc = "get_period_size"
  BY <1>1 DEF Wav!HwParams, Configuring
<1> QED BY <1>1, <1>2

LEMMA ConfiguringNames == \A k \in 1 .. Len(Wav!HwParams) : Wav!HwParams[k] \in Configuring
BY DEF Wav!HwParams, Configuring

LEMMA WavNext == WavInv /\ (Wav!Next \/ UNCHANGED wavVars) => WavInv'
<1> SUFFICES ASSUME WavInv, Wav!Next \/ UNCHANGED wavVars PROVE WavInv' OBVIOUS
<1> USE DEF WavInv
<1>1. CASE Wav!Start
  <2>1. WavType' BY <1>1 DEF Wav!Start, Wav!format, Wav!written, WavType, Configuring
  <2>2. WavHeld' BY <1>1 DEF Wav!Start, WavHeld, Configuring
  <2>3. WavFile' BY <1>1 DEF Wav!Start, WavFile, Configuring
  <2> QED BY <2>1, <2>2, <2>3
<1>2. CASE Wav!Fopen
  <2>1. WavType'
    <3>1. <<>> \in Seq(Units) OBVIOUS
    <3>2. outwav' \in Seq(Units) /\ offset <= Len(outwav')
      <4>1. CASE outwav' = <<>> BY <1>2, <3>1, <4>1 DEF Wav!Fopen, WavType
      <4>2. CASE outwav' = outwav BY <4>2 DEF WavType
      <4> QED BY <1>2, <4>1, <4>2 DEF Wav!Fopen
    <3> QED BY <1>2, <3>2 DEF Wav!Fopen, Wav!format, WavType, Configuring
  <2>2. WavHeld' BY <1>2 DEF Wav!Fopen, WavHeld, Configuring
  <2>3. WavFile' BY <1>2 DEF Wav!Fopen, WavFile, WavHeld, Configuring
  <2> QED BY <2>1, <2>2, <2>3
<1>3. CASE Wav!SndPcmOpen
  <2>1. WavType' BY <1>3 DEF Wav!SndPcmOpen, Wav!format, Wav!written, WavType, Configuring
  <2>2. WavHeld' BY <1>3 DEF Wav!SndPcmOpen, WavHeld, Configuring
  <2>3. WavFile' BY <1>3 DEF Wav!SndPcmOpen, Wav!written, WavFile, Configuring
  <2> QED BY <2>1, <2>2, <2>3
<1>4. CASE Wav!Configure
  <2>1. /\ rec_pc \in Configuring \ {"malloc"} /\ rec_pc' \in Configuring
        /\ rate' = rate \/ rate' \in Rates
        /\ frames' = frames \/ frames' \in FrameCounts
        /\ rec_pc' = "malloc" => frames' \in FrameCounts
        /\ UNCHANGED <<header, f, handle, buffer, filedesc, periods, outwav, offset,
                       failed, result>>
    BY <1>4, Configured
  <2>a. rate' \in Nat /\ frames' \in Nat
    BY <2>1, RecorderAssumption DEF WavType
  <2>b. rec_pc' = "malloc" => frames' > 0
    <3>1. \A n \in FrameCounts : n \in Nat /\ n > 0 BY RecorderAssumption
    <3> QED BY <2>1, <3>1
  <2>2. WavType' BY <2>1, <2>a, <2>b DEF WavType, Configuring
  <2>3. WavHeld' BY <2>1 DEF WavHeld, Configuring
  <2>4. WavFile' BY <2>1 DEF WavFile, Configuring
  <2> QED BY <2>2, <2>3, <2>4
<1>5. CASE Wav!ConfigureFails
  <2>0. rec_pc \in Configuring BY <1>5, ConfiguringNames DEF Wav!ConfigureFails
  <2>1. WavType'
    BY <1>5 DEF Wav!ConfigureFails, Wav!format, Wav!written, WavType, Configuring
  <2>2. WavHeld' BY <1>5, <2>0 DEF Wav!ConfigureFails, WavHeld, Configuring
  <2>3. WavFile' BY <1>5, <2>0 DEF Wav!ConfigureFails, WavFile, Configuring
  <2> QED BY <2>1, <2>2, <2>3
<1>6. CASE Wav!Malloc
  <2>1. WavType' BY <1>6 DEF Wav!Malloc, Wav!format, Wav!written, WavType, Configuring
  <2>2. WavHeld' BY <1>6 DEF Wav!Malloc, WavHeld, Configuring
  <2>3. WavFile' BY <1>6 DEF Wav!Malloc, Wav!written, WavFile, Configuring
  <2> QED BY <2>1, <2>2, <2>3
<1>7. CASE Wav!GetPeriodTime
  <2>1. WavType'
    BY <1>7 DEF Wav!GetPeriodTime, Wav!format, Wav!written, WavType, Configuring
  <2>2. WavHeld' BY <1>7 DEF Wav!GetPeriodTime, WavHeld, Configuring
  <2>3. WavFile' BY <1>7 DEF Wav!GetPeriodTime, Wav!written, WavFile, Configuring
  <2> QED BY <2>1, <2>2, <2>3
<1>8. CASE Wav!Open
  <2>1. WavType' BY <1>8 DEF Wav!Open, Wav!format, WavType, Configuring
  <2>2. WavHeld' BY <1>8 DEF Wav!Open, WavHeld, Configuring
  <2>3. WavFile' BY <1>8 DEF Wav!Open, WavFile, Configuring
  <2> QED BY <2>1, <2>2, <2>3
<1>9. CASE Wav!WriteWAVHeader
  <2>0. /\ rec_pc = "writeWAVHeader" /\ Wav!Write("header")
        /\ \/ rec_pc' = "crash"
           \/ /\ rate \div frames # 0 /\ rec_pc' = "record"
              /\ periods' = Micros \div (rate \div frames)
        /\ UNCHANGED <<header, f, handle, buffer, filedesc, rate, frames, result>>
    BY <1>9, Zenon DEF Wav!WriteWAVHeader, Wav!held
  <2>1. /\ outwav' \in Seq(Units) /\ offset' \in Nat /\ offset' <= Len(outwav')
        /\ \/ failed'
           \/ /\ failed' = failed /\ offset' = offset + 1
              /\ offset = Len(outwav) => outwav' = Append(outwav, "header")
    BY <2>0, Writing DEF Units
  <2>2. WavType' BY <2>0, <2>1 DEF WavType, Configuring
  <2>3. WavHeld' BY <2>0 DEF WavHeld, Configuring
  <2>4. ASSUME f = "open", rec_pc' = "record", ~failed' PROVE Recorded(periods)'
    <3>1. outwav = <<>> /\ offset = 0 BY <2>0, <2>4 DEF WavFile
    <3>2. offset' = 1 /\ outwav' = <<"header">> BY <2>1, <2>4, <3>1
    <3>3. /\ rate \div frames \in Nat /\ Micros \div (rate \div frames) \in Nat
      BY <2>0, <2>4, RecorderAssumption DEF WavType
    <3>4. Len(outwav') = 1 /\ outwav'[1] = "header" BY <3>2
    <3>5. periods' \in Nat /\ periods' = Micros \div (rate \div frames)
      BY <2>0, <2>4, <3>3
    <3>6. offset' + periods' = 1 + (Micros \div (rate \div frames))' BY <2>0, <3>2, <3>5
    <3> QED BY <3>2, <3>4, <3>5, <3>6 DEF Recorded
  <2>5. WavFile' BY <2>0, <2>4 DEF WavFile, Configuring
  <2> QED BY <2>2, <2>3, <2>5
<1>10. CASE Wav!Record
  <2>0. /\ rec_pc = "record" /\ rec_pc' = rec_pc /\ periods > 0 /\ periods' = periods - 1
        /\ UNCHANGED <<header, f, handle, buffer, filedesc, rate, frames, result>>
    BY <1>10 DEF Wav!Record, Wav!held
  <2>a. PICK data \in {"fresh", "stale"} : Wav!Write(data)
    BY <1>10 DEF Wav!Record
  <2>1. /\ outwav' \in Seq(Units) /\ offset' \in Nat /\ offset' <= Len(outwav')
        /\ \/ failed'
           \/ /\ failed' = failed /\ offset' = offset + 1
              /\ offset = Len(outwav) => outwav' = Append(outwav, data)
    BY <2>a, Writing DEF Units
  <2>2. WavType' BY <2>0, <2>1 DEF WavType, Configuring
  <2>3. WavHeld' BY <2>0 DEF WavHeld, Configuring
  <2>4. ASSUME f = "open", ~failed' PROVE Recorded(periods)'
    <3>1. failed' = failed /\ offset' = offset + 1 /\ ~failed BY <2>1, <2>4
    <3>2. Recorded(periods) BY <2>0, <2>4, <3>1 DEF WavFile
    <3>3. outwav' = Append(outwav, data) BY <2>1, <2>4, <3>2 DEF Recorded
    <3>4. data \in Units BY DEF Units
    <3>5. /\ Len(outwav') = Len(outwav) + 1 /\ outwav'[Len(outwav) + 1] = data
          /\ \A k \in 1 .. Len(outwav) : outwav'[k] = outwav[k]
      BY <3>3, <3>4, Appending DEF WavType
    <3>6. periods' \in Nat BY <2>0, <3>2 DEF Recorded
    <3>7. offset' + periods' = 1 + (Micros \div (rate \div frames))'
      <4>1. offset + periods = 1 + Micros \div (rate \div frames) BY <3>2 DEF Recorded
      <4>2. offset' + periods' = offset + periods
        BY <2>0, <3>1, <3>2 DEF Recorded, WavType
      <4> QED BY <2>0, <4>1, <4>2
    <3>8. \A k \in 2 .. offset' : outwav'[k] \in {"fresh", "stale"}
      BY <3>1, <3>2, <3>5 DEF Recorded, WavType
    <3>9. Len(outwav') = offset' /\ offset' >= 1 /\ outwav'[1] = "header"
      BY <3>1, <3>2, <3>5 DEF Recorded, WavType
    <3> QED BY <3>6, <3>7, <3>8, <3>9 DEF Recorded
  <2>5. WavFile' BY <2>0, <2>4 DEF WavFile, Configuring
  <2> QED BY <2>2, <2>3, <2>5
<1>11. CASE Wav!RecordFails
  <2>1. WavType' BY <1>11 DEF Wav!RecordFails, Wav!format, Wav!written, WavType, Configuring
  <2>2. WavHeld' BY <1>11 DEF Wav!RecordFails, WavHeld, Configuring
  <2>3. WavFile' BY <1>11 DEF Wav!RecordFails, WavFile, Configuring
  <2> QED BY <2>1, <2>2, <2>3
<1>12. CASE Wav!RecordEnds
  <2>1. WavType' BY <1>12 DEF Wav!RecordEnds, Wav!format, Wav!written, WavType, Configuring
  <2>2. WavHeld' BY <1>12 DEF Wav!RecordEnds, WavHeld, Configuring
  <2>3. WavFile'
    BY <1>12 DEF Wav!RecordEnds, Wav!format, Wav!written, WavFile, Recorded, Configuring
  <2> QED BY <2>1, <2>2, <2>3
<1>13. CASE Wav!Finish
  <2>1. WavType' BY <1>13 DEF Wav!Finish, Wav!format, Wav!written, WavType, Configuring
  <2>2. WavHeld' BY <1>13 DEF Wav!Finish, WavHeld, Configuring
  <2>3. WavFile'
      BY <1>13 DEF Wav!Finish, Wav!format, Wav!written, WavFile, WavHeld, Recorded,
        Configuring
  <2> QED BY <2>1, <2>2, <2>3
<1>14. CASE UNCHANGED wavVars
  BY <1>14 DEF wavVars, WavType, WavHeld, WavFile, Recorded
<1> QED
  BY <1>1, <1>2, <1>3, <1>4, <1>5, <1>6, <1>7, <1>8, <1>9, <1>10, <1>11, <1>12,
     <1>13, <1>14 DEF Wav!Next

\* What the invariant says of the file of a recording that has ended well.
LEMMA WavInvFresh == WavInv => FileIsFresh
<1> SUFFICES ASSUME WavInv, rec_pc = "exit", result = "ok", ~failed PROVE FileIsFresh
  BY DEF FileIsFresh, Wav!FileIsFresh
<1>1. Recorded(0) /\ offset \in Nat BY DEF WavInv, WavFile, WavType
<1>2. offset = 1 + Micros \div (rate \div frames) BY <1>1 DEF Recorded
<1> QED BY <1>1, <1>2 DEF Recorded, FileIsFresh, Wav!FileIsFresh

-----------------------------------------------------------------------------
(* Mysql.  CREATE DATABASE acts as a lock: the owner of the database is    *)
(* the only run whose statements reach the table.                          *)

\* The initial state satisfies Inv: nobody is past create_database.
LEMMA DbInit == Init => Db!Inv
<1> SUFFICES ASSUME Db!Init PROVE Db!Inv BY DEF Init
<1> USE MysqlAssumption DEF Db!Init
<1>0. /\ done \in [Runs -> 0 .. Cars + 2]
      /\ cars_shown \in [Runs -> SUBSET (Runs \X (1 .. Cars))]
      /\ rows \in SUBSET (Runs \X (1 .. Cars))
  OBVIOUS
<1>1. Db!TypeOK BY <1>0 DEF Db!TypeOK, Db!Stages
<1>2. \A r \in Runs : ~Db!Middle(r) BY DEF Db!Middle
<1>3. Db!Exclusive /\ Db!ListsOwnCars /\ Db!SuccessIsComplete
  BY <1>2 DEF Db!Exclusive, Db!ListsOwnCars, Db!SuccessIsComplete
<1> QED BY <1>1, <1>2, <1>3 DEF Db!Inv

\* The cars inserted so far and the next one are the cars inserted after it.
LEMMA NextCar ==
    ASSUME NEW r, NEW n \in Nat
    PROVE  ({r} \X (1 .. n)) \cup {<<r, n + 1>>} = {r} \X (1 .. n + 1)
<1>1. 1 .. n + 1 = (1 .. n) \cup {n + 1} OBVIOUS
<1> QED BY <1>1

\* A run that leaves, with whatever status but 0, or only connects, takes
\* nothing from the others.
LEMMA DbExit ==
    ASSUME Db!Inv, NEW r \in Runs, NEW s \in {"1", "killed"}, stage[r] # "exit",
           Db!Exit(r, s), UNCHANGED <<done, cars_shown, skipped, Db!server>>
    PROVE  Db!Inv'
<1> USE DEF Db!server
<1>1. Db!TypeOK' BY DEF Db!Inv, Db!TypeOK, Db!Exit, Db!Stages
<1>2. \A q \in Runs : /\ q # r => stage'[q] = stage[q] /\ exit_status'[q] = exit_status[q]
                      /\ stage'[r] = "exit" /\ exit_status'[r] = s
  BY DEF Db!Inv, Db!TypeOK, Db!Exit
<1>3. Db!NoneSkipped' <=> Db!NoneSkipped BY DEF Db!NoneSkipped
<1>4. Db!Exclusive' BY <1>2, <1>3 DEF Db!Inv, Db!Exclusive, Db!Middle
<1>5. Db!ListsOwnCars' BY <1>3 DEF Db!Inv, Db!ListsOwnCars
<1>6. Db!SuccessIsComplete' BY <1>2, <1>3 DEF Db!Inv, Db!SuccessIsComplete
<1>7. (Db!NoneSkipped => \A q \in Runs : Db!Middle(q) => Db!Progress(q))'
  BY <1>2, <1>3 DEF Db!Inv, Db!Middle, Db!Progress
<1>8. /\ (\A q \in Runs : stage[q] # "exit" => exit_status[q] = "none")'
      /\ (\A q \in Runs : stage[q] = "create_database" => done[q] = 0)'
      /\ (testdb \/ owner = None)'
      /\ (\A q \in Runs : owner = q => stage[q] # "create_database")'
  BY <1>2 DEF Db!Inv
<1> QED BY <1>1, <1>4, <1>5, <1>6, <1>7, <1>8 DEF Db!Inv

\* Two runs are never both in the middle.
LEMMA Alone ==
    ASSUME Db!Inv, Db!NoneSkipped, NEW r \in Runs, Db!Middle(r), NEW q \in Runs, q # r
    PROVE  ~Db!Middle(q)
BY DEF Db!Inv, Db!Exclusive

\* mysql_init fails: the step is counted as skipped, or the run ends.
LEMMA DbInitFails ==
    ASSUME Db!Inv, NEW r \in Runs, Db!InitFails(r)
    PROVE  Db!Inv'
<1>1. CASE stage[r] \in {"create_database", "drop_database"}
  <2>1. /\ Db!StageReturns(r) /\ skipped' = [skipped EXCEPT ![r] = TRUE]
        /\ UNCHANGED <<done, cars_shown, Db!server>>
    BY <1>1 DEF Db!InitFails
  <2>2. ~Db!NoneSkipped' BY <2>1 DEF Db!Inv, Db!TypeOK, Db!NoneSkipped
  <2>3. Db!TypeOK' BY <1>1, <2>1 DEF Db!Inv, Db!TypeOK, Db!StageReturns, Db!Exit, Db!Following,
                                  Db!Stages, Db!server
  <2>4. /\ (\A q \in Runs : stage[q] # "exit" => exit_status[q] = "none")'
        /\ (\A q \in Runs : stage[q] = "create_database" => done[q] = 0)'
        /\ (testdb \/ owner = None)'
        /\ (\A q \in Runs : owner = q => stage[q] # "create_database")'
    BY <1>1, <2>1 DEF Db!Inv, Db!TypeOK, Db!StageReturns, Db!Exit, Db!Following, Db!server
  <2> QED BY <2>2, <2>3, <2>4 DEF Db!Inv, Db!Exclusive, Db!ListsOwnCars, Db!SuccessIsComplete
<1>2. CASE stage[r] \notin {"create_database", "drop_database"}
  BY <1>2, DbExit DEF Db!InitFails
<1> QED BY <1>1, <1>2

\* A run connects: only con changes.
LEMMA DbConnect ==
    ASSUME Db!Inv, NEW r \in Runs, Db!Connect(r)
    PROVE  Db!Inv'
<1> USE DEF Db!Connect, Db!server
<1>1. Db!TypeOK' BY DEF Db!Inv, Db!TypeOK
<1>2. /\ Db!Exclusive' /\ Db!ListsOwnCars' /\ Db!SuccessIsComplete'
      /\ (Db!NoneSkipped => \A q \in Runs : Db!Middle(q) => Db!Progress(q))'
  BY DEF Db!Inv, Db!Exclusive, Db!ListsOwnCars, Db!SuccessIsComplete, Db!NoneSkipped, Db!Middle,
         Db!Progress
<1> QED BY <1>1, <1>2 DEF Db!Inv

\* The database is created: it did not exist, so nobody is in the middle.
LEMMA DbCreate ==
    ASSUME Db!Inv, NEW r \in Runs, Db!create_database(r)
    PROVE  Db!Inv'
<1>1. /\ stage' = [stage EXCEPT ![r] = "create_table_and_insert"]
      /\ con' = [con EXCEPT ![r] = FALSE]
      /\ testdb' = TRUE /\ owner' = r /\ table' = FALSE /\ rows' = {}
      /\ UNCHANGED <<exit_status, done, cars_shown, skipped>>
      /\ stage[r] = "create_database" /\ ~testdb
  BY DEF Db!create_database, Db!StageReturns, Db!Following
<1>2. Db!TypeOK' BY <1>1 DEF Db!Inv, Db!TypeOK, Db!Stages
<1>3. Db!NoneSkipped' <=> Db!NoneSkipped BY <1>1 DEF Db!NoneSkipped
<1>4. Db!NoneSkipped => \A q \in Runs : ~Db!Middle(q) BY <1>1 DEF Db!Inv, Db!Exclusive
<1>5. Db!NoneSkipped => \A q \in Runs : Db!Middle(q)' => q = r
  BY <1>1, <1>4 DEF Db!Middle, Db!Inv, Db!TypeOK
<1>6. Db!Exclusive' BY <1>1, <1>3, <1>5 DEF Db!Exclusive
<1>7. Db!ListsOwnCars' BY <1>1, <1>3 DEF Db!Inv, Db!ListsOwnCars
<1>8. Db!SuccessIsComplete'
  BY <1>1, <1>3 DEF Db!Inv, Db!SuccessIsComplete
<1>9. Db!Progress(r)' BY <1>1, MysqlAssumption DEF Db!Inv, Db!TypeOK, Db!Progress
<1>10. /\ (\A q \in Runs : stage[q] # "exit" => exit_status[q] = "none")'
       /\ (\A q \in Runs : stage[q] = "create_database" => done[q] = 0)'
       /\ (\A q \in Runs : owner = q => stage[q] # "create_database")'
  BY <1>1 DEF Db!Inv, Db!TypeOK
<1> QED BY <1>1, <1>2, <1>3, <1>5, <1>6, <1>7, <1>8, <1>9, <1>10 DEF Db!Inv

\* A statement of create_table_and_insert: the run is the owner, and the rows
\* follow the number of statements done.
LEMMA DbFill ==
    ASSUME Db!Inv, NEW r \in Runs, Db!DropTable(r) \/ Db!CreateTable(r) \/ Db!InsertCar(r)
    PROVE  Db!Inv'
<1> DEFINE last == done[r] = Cars + 1
<1>1. /\ stage[r] = "create_table_and_insert" /\ testdb
      /\ done' = [done EXCEPT ![r] = @ + 1]
      /\ stage' = IF last THEN [stage EXCEPT ![r] = "query"] ELSE stage
      /\ con' = IF last THEN [con EXCEPT ![r] = FALSE] ELSE con
      /\ UNCHANGED <<exit_status, cars_shown, skipped, testdb, owner>>
  BY DEF Db!DropTable, Db!CreateTable, Db!InsertCar, Db!Filling, Db!StatementDone, Db!StageReturns,
         Db!Following
<1>2. done[r] \in 0 .. Cars + 1
  BY MysqlAssumption DEF Db!DropTable, Db!CreateTable, Db!InsertCar
<1>3. \/ done[r] \in {0, 1} /\ ~last /\ rows' \in {{}, rows} /\ (done[r] = 0 => rows' = {})
      \/ done[r] \in 2 .. Cars + 1 /\ rows' = rows \cup {<<r, done[r] - 1>>}
  BY MysqlAssumption DEF Db!DropTable, Db!CreateTable, Db!InsertCar
<1>4. table' \in BOOLEAN
  BY DEF Db!Inv, Db!TypeOK, Db!DropTable, Db!CreateTable, Db!InsertCar
<1>5. rows' \in SUBSET (Runs \X (1 .. Cars))
  BY <1>3, MysqlAssumption DEF Db!Inv, Db!TypeOK
<1>6. Db!TypeOK' BY <1>1, <1>2, <1>4, <1>5, MysqlAssumption DEF Db!Inv, Db!TypeOK, Db!Stages
<1>7. Db!NoneSkipped' <=> Db!NoneSkipped BY <1>1 DEF Db!NoneSkipped
<1>8. \A q \in Runs : /\ Db!Middle(q)' <=> Db!Middle(q)
                      /\ q # r => stage'[q] = stage[q] /\ done'[q] = done[q]
  BY <1>1 DEF Db!Middle, Db!Inv, Db!TypeOK
<1>9. Db!Exclusive' BY <1>1, <1>7, <1>8 DEF Db!Inv, Db!Exclusive
<1>10. Db!ListsOwnCars' BY <1>1, <1>7 DEF Db!Inv, Db!ListsOwnCars
<1>11. Db!SuccessIsComplete' BY <1>1, <1>7 DEF Db!Inv, Db!SuccessIsComplete
<1>12. ASSUME Db!NoneSkipped PROVE Db!Progress(r)'
  <2>1. /\ done[r] <= 1 => rows = {}
        /\ done[r] >= 2 => rows = {r} \X (1 .. done[r] - 2)
    BY <1>1, <1>12 DEF Db!Inv, Db!Middle, Db!Progress
  <2>2. done'[r] = done[r] + 1 BY <1>1 DEF Db!Inv, Db!TypeOK
  <2>3. CASE done[r] = 0
    BY <1>1, <1>3, <2>2, <2>3, MysqlAssumption DEF Db!Progress
  <2>4. CASE done[r] = 1
    <3>1. rows' = {} /\ ~last BY <1>3, <2>1, <2>4, MysqlAssumption
    <3>2. 1 .. 0 = {} OBVIOUS
    <3>3. rows' = {r} \X (1 .. done'[r] - 2) BY <2>2, <2>4, <3>1, <3>2
    <3> QED BY <1>1, <2>2, <2>4, <3>1, <3>3, MysqlAssumption DEF Db!Progress
  <2>5. CASE done[r] >= 2
    <3>1. rows' = ({r} \X (1 .. done[r] - 2)) \cup {<<r, done[r] - 1>>}
      BY <1>2, <1>3, <2>1, <2>5
    <3>2. done[r] - 2 \in Nat /\ (done[r] - 2) + 1 = done[r] - 1
      BY <1>2, <2>5, MysqlAssumption
    <3>3. rows' = {r} \X (1 .. done[r] - 1) BY <3>1, <3>2, NextCar
    <3>4. CASE last
      <4>1. rows' = {r} \X (1 .. Cars) BY <3>3, <3>4, MysqlAssumption
      <4> QED BY <1>1, <3>4, <4>1 DEF Db!Progress, Db!Inv, Db!TypeOK
    <3>5. CASE ~last
      <4>1. done'[r] \in 3 .. Cars + 1 /\ done'[r] - 2 = done[r] - 1
        BY <1>2, <2>2, <2>5, <3>5, MysqlAssumption
      <4>2. rows' = {r} \X (1 .. done'[r] - 2) BY <3>3, <4>1
      <4> QED BY <1>1, <3>5, <4>1, <4>2, MysqlAssumption DEF Db!Progress
    <3> QED BY <3>4, <3>5
  <2> QED BY <1>2, <2>3, <2>4, <2>5, MysqlAssumption
<1>13. (Db!NoneSkipped => \A q \in Runs : Db!Middle(q) => Db!Progress(q))'
  BY <1>1, <1>7, <1>8, <1>12, Alone DEF Db!Middle
<1>14. /\ (\A q \in Runs : stage[q] # "exit" => exit_status[q] = "none")'
       /\ (\A q \in Runs : stage[q] = "create_database" => done[q] = 0)'
       /\ (\A q \in Runs : owner = q => stage[q] # "create_database")'
       /\ (testdb \/ owner = None)'
  BY <1>1, <1>8 DEF Db!Inv, Db!TypeOK
<1> QED BY <1>6, <1>9, <1>10, <1>11, <1>13, <1>14 DEF Db!Inv

\* The listing: the owner prints the rows, which are all its own.
LEMMA DbQuery ==
    ASSUME Db!Inv, NEW r \in Runs, Db!query(r)
    PROVE  Db!Inv'
<1>1. /\ stage[r] = "query" /\ stage' = [stage EXCEPT ![r] = "drop_database"]
      /\ con' = [con EXCEPT ![r] = FALSE] /\ cars_shown' = [cars_shown EXCEPT ![r] = rows]
      /\ UNCHANGED <<exit_status, done, skipped, testdb, owner, table, rows>>
  BY DEF Db!query, Db!StageReturns, Db!Following, Db!server
<1>2. Db!TypeOK' BY <1>1 DEF Db!Inv, Db!TypeOK, Db!Stages
<1>3. Db!NoneSkipped' <=> Db!NoneSkipped BY <1>1 DEF Db!NoneSkipped
<1>4. \A q \in Runs : /\ Db!Middle(q)' <=> Db!Middle(q)
                      /\ q # r => stage'[q] = stage[q] /\ cars_shown'[q] = cars_shown[q]
  BY <1>1 DEF Db!Middle, Db!Inv, Db!TypeOK
<1>5. Db!NoneSkipped => cars_shown'[r] = {r} \X (1 .. Cars) /\ rows = {r} \X (1 .. Cars)
  BY <1>1 DEF Db!Inv, Db!TypeOK, Db!Middle, Db!Progress
<1>6. Db!Exclusive' BY <1>1, <1>3, <1>4 DEF Db!Inv, Db!Exclusive
<1>7. Db!ListsOwnCars' BY <1>3, <1>4, <1>5 DEF Db!Inv, Db!ListsOwnCars
<1>8. Db!SuccessIsComplete' BY <1>1, <1>3, <1>4, <1>5 DEF Db!Inv, Db!SuccessIsComplete
<1>9. Db!NoneSkipped => Db!Progress(r)' BY <1>1, <1>5 DEF Db!Progress, Db!Inv, Db!TypeOK
<1>10. (Db!NoneSkipped => \A q \in Runs : Db!Middle(q) => Db!Progress(q))'
  BY <1>1, <1>3, <1>4, <1>9, Alone DEF Db!Middle
<1>11. /\ (\A q \in Runs : stage[q] # "exit" => exit_status[q] = "none")'
       /\ (\A q \in Runs : stage[q] = "create_database" => done[q] = 0)'
       /\ (\A q \in Runs : owner = q => stage[q] # "create_database")'
       /\ (testdb \/ owner = None)'
  BY <1>1 DEF Db!Inv, Db!TypeOK
<1> QED BY <1>2, <1>6, <1>7, <1>8, <1>10, <1>11 DEF Db!Inv

\* The database is dropped: by its owner, so nobody else was using it.
LEMMA DbDrop ==
    ASSUME Db!Inv, NEW r \in Runs, Db!drop_database(r)
    PROVE  Db!Inv'
<1>1. /\ stage[r] = "drop_database" /\ stage' = [stage EXCEPT ![r] = "exit"]
      /\ exit_status' = [exit_status EXCEPT ![r] = "0"] /\ con' = [con EXCEPT ![r] = FALSE]
      /\ testdb' = FALSE /\ owner' = None /\ table' = FALSE /\ rows' = {}
      /\ UNCHANGED <<done, cars_shown, skipped>>
  BY DEF Db!drop_database, Db!StageReturns, Db!Exit
<1>2. Db!TypeOK' BY <1>1 DEF Db!Inv, Db!TypeOK, Db!Stages
<1>3. Db!NoneSkipped' <=> Db!NoneSkipped BY <1>1 DEF Db!NoneSkipped
<1>4. Db!NoneSkipped => \A q \in Runs : ~Db!Middle(q)'
  BY <1>1, Alone DEF Db!Middle, Db!Inv, Db!TypeOK
<1>5. Db!NoneSkipped => cars_shown[r] = {r} \X (1 .. Cars)
  BY <1>1 DEF Db!Inv, Db!Middle, Db!Progress
<1>6. Db!Exclusive' BY <1>3, <1>4 DEF Db!Exclusive
<1>7. Db!ListsOwnCars' BY <1>1, <1>3 DEF Db!Inv, Db!ListsOwnCars
<1>8. Db!SuccessIsComplete'
  BY <1>1, <1>3, <1>5, MysqlAssumption DEF Db!Inv, Db!TypeOK, Db!SuccessIsComplete
<1>9. /\ (\A q \in Runs : stage[q] # "exit" => exit_status[q] = "none")'
      /\ (\A q \in Runs : stage[q] = "create_database" => done[q] = 0)'
      /\ (\A q \in Runs : owner = q => stage[q] # "create_database")'
  BY <1>1, MysqlAssumption DEF Db!Inv, Db!TypeOK
<1> QED BY <1>1, <1>2, <1>3, <1>4, <1>6, <1>7, <1>8, <1>9 DEF Db!Inv

LEMMA DbNext == Db!Inv /\ (Db!Next \/ UNCHANGED dbVars) => Db!Inv'
<1> SUFFICES ASSUME Db!Inv, Db!Next \/ UNCHANGED dbVars PROVE Db!Inv' OBVIOUS
<1>1. CASE UNCHANGED dbVars
  BY <1>1 DEF dbVars, Db!Inv, Db!TypeOK, Db!Exclusive, Db!ListsOwnCars, Db!NoneSkipped,
              Db!SuccessIsComplete, Db!Middle, Db!Progress
<1>2. ASSUME NEW r \in Runs, Db!Run(r) \/ Db!Kill(r) PROVE Db!Inv'
  <2>1. CASE Db!finish_with_error(r) BY <2>1, DbExit DEF Db!finish_with_error
  <2>2. CASE Db!Kill(r) BY <2>2, DbExit DEF Db!Kill
  <2> QED BY <1>2, <2>1, <2>2, DbConnect, DbInitFails, DbCreate, DbFill, DbQuery,
             DbDrop DEF Db!Run
<1> QED BY <1>1, <1>2 DEF Db!Next

-----------------------------------------------------------------------------
(* Codec.                                                                  *)

Byte == 0 .. 255

\* What may stand in a buffer.
Symbols == {"nul", "junk", "char", "percent", "hex", "alnum", "+", "/", "=", "-", "_"}
           \X Nat

LEMMA EncodedIs ==
    ASSUME NEW c \in Byte
    PROVE  /\ Util!Encoded(c) \in Seq(Symbols)
           /\ \/ /\ Len(Util!Encoded(c)) = 1 /\ Util!Encoded(c)[1] = <<"char", c>>
              \/ /\ Len(Util!Encoded(c)) = 3
                 /\ Util!Encoded(c)[1] = <<"percent", 0>>
                 /\ Util!Encoded(c)[2] = <<"hex", c \div 16>>
                 /\ Util!Encoded(c)[3] = <<"hex", c % 16>>
<1>1. c \in Nat /\ c \div 16 \in Nat /\ c % 16 \in Nat /\ 0 \in Nat BY DEF Byte
<1>2. <<"char", c>> \in Symbols /\ <<"percent", 0>> \in Symbols
      /\ <<"hex", c \div 16>> \in Symbols /\ <<"hex", c % 16>> \in Symbols
  BY <1>1, Zenon DEF Symbols
<1>3. CASE Util!is_unreserved(c) BY <1>2, <1>3 DEF Util!Encoded
<1>4. CASE ~Util!is_unreserved(c) BY <1>2, <1>4 DEF Util!Encoded
<1> QED BY <1>3, <1>4

\* The sums of a row of numbers.
Sums(h, n, a) == h[0] = 0 /\ \A k \in 1 .. n : h[k] = h[k - 1] + a[k]

LEMMA SumsExist ==
    ASSUME NEW n \in Nat, NEW a \in [1 .. n -> Nat]
    PROVE  \E h \in [0 .. n -> Nat] : Sums(h, n, a)
<1> DEFINE T == {m \in 0 .. n : ~\E h \in [0 .. m -> Nat] : Sums(h, m, a)}
<1>0. SUFFICES ASSUME T # {} PROVE FALSE
  <2>1. n \in 0 .. n OBVIOUS
  <2> QED BY <2>1
<1>1. PICK m \in T : \A x \in T : m <= x
  <2>1. T \subseteq Nat OBVIOUS
  <2> HIDE DEF T
  <2> QED BY <1>0, <2>1, Least
<1>2. m \in 0 .. n /\ ~\E h \in [0 .. m -> Nat] : Sums(h, m, a) BY <1>1
<1>3. m # 0
  <2> SUFFICES ASSUME m = 0 PROVE FALSE OBVIOUS
  <2> DEFINE g == [k \in 0 .. 0 |-> 0]
  <2>1. g \in [0 .. m -> Nat] /\ Sums(g, m, a) BY DEF Sums
  <2> HIDE DEF g
  <2> QED BY <1>2, <2>1
<1>4. m - 1 \in 0 .. n /\ ~(m <= m - 1) BY <1>2, <1>3
<1>5. PICK h \in [0 .. m - 1 -> Nat] : Sums(h, m - 1, a) BY <1>1, <1>4
<1> DEFINE g == [k \in 0 .. m |-> IF k = m THEN h[m - 1] + a[m] ELSE h[k]]
<1>6. m \in Nat /\ m \in 1 .. n /\ m \in 0 .. m /\ m - 1 \in 0 .. m - 1 BY <1>2, <1>3
<1>7. \A k \in 0 .. m : k = m \/ k \in 0 .. m - 1 BY <1>6
<1>8. h[m - 1] + a[m] \in Nat BY <1>5, <1>6
<1>9. g \in [0 .. m -> Nat] BY <1>5, <1>7, <1>8
<1>10. \A k \in 0 .. m - 1 : k \in 0 .. m /\ k # m BY <1>6
<1>11. \A k \in 0 .. m - 1 : g[k] = h[k] BY <1>10
<1>12. g[m] = h[m - 1] + a[m] BY <1>6
<1> HIDE DEF g, T
<1>13. 0 \in 0 .. m - 1 BY <1>6
<1>14. g[0] = 0 BY <1>5, <1>11, <1>13 DEF Sums
<1>15. ASSUME NEW k \in 1 .. m PROVE g[k] = g[k - 1] + a[k]
  <2>1. CASE k = m BY <1>6, <1>11, <1>12, <2>1
  <2>2. CASE k # m
    <3>1. k \in 1 .. m - 1 /\ k \in 0 .. m - 1 /\ k - 1 \in 0 .. m - 1 BY <1>6, <2>2
    <3> QED BY <1>5, <1>11, <3>1 DEF Sums
  <2> QED BY <2>1, <2>2
<1> QED BY <1>2, <1>9, <1>14, <1>15 DEF Sums

\* What url_encode needs for the first bytes of a string.
LEMMA PlacesAre ==
    ASSUME NEW s \in Seq(Byte)
    PROVE  /\ Util!UrlPlaces(s) \in [0 .. Len(s) -> Nat]
           /\ Util!UrlPlaces(s)[0] = 0
           /\ \A k \in 1 .. Len(s) :
                 /\ Util!UrlPlaces(s)[k] = Util!UrlPlaces(s)[k - 1] + Len(Util!Encoded(s[k]))
                 /\ Len(Util!Encoded(s[k])) \in {1, 3}
<1> DEFINE n == Len(s)
           a == [k \in 1 .. n |-> Len(Util!Encoded(s[k]))]
           Round(h) == [k \in 0 .. n |-> IF k = 0 THEN 0
                                         ELSE h[k - 1] + Len(Util!Encoded(s[k]))]
           u == Util!UrlPlaces(s)
<1>0. n \in Nat OBVIOUS
<1>1. \A k \in 1 .. n : Len(Util!Encoded(s[k])) \in {1, 3}
  <2> TAKE k \in 1 .. n
  <2>1. s[k] \in Byte OBVIOUS
  <2> QED BY <2>1, EncodedIs
<1>2. a \in [1 .. n -> Nat] BY <1>1
<1>3. \A k \in 1 .. n : a[k] = Len(Util!Encoded(s[k])) OBVIOUS
<1>4. u = CHOOSE h : h = Round(h) BY DEF Util!UrlPlaces
<1> HIDE DEF n, a, u
<1>5. PICK h \in [0 .. n -> Nat] : Sums(h, n, a) BY <1>0, <1>2, SumsExist
<1>6. h = Round(h)
  <2>1. \A k \in 0 .. n : k # 0 => k \in 1 .. n BY <1>0
  <2>2. \A k \in 0 .. n : h[k] = Round(h)[k] BY <1>3, <1>5, <2>1 DEF Sums
  <2>3. h = [k \in 0 .. n |-> h[k]] OBVIOUS
  <2>4. \A k \in 0 .. n : h[k] = IF k = 0 THEN 0
                                 ELSE h[k - 1] + Len(Util!Encoded(s[k]))
    BY <2>2
  <2> QED BY <2>3, <2>4, Zenon
<1>7. u = Round(u) BY <1>4, <1>6
<1>8. \A k \in 0 .. n : u[k] = IF k = 0 THEN 0 ELSE u[k - 1] + Len(Util!Encoded(s[k]))
  BY <1>7
<1>9. \A k \in 0 .. n : u[k] = h[k]
  <2> DEFINE T == {k \in 0 .. n : u[k] # h[k]}
  <2> SUFFICES ASSUME T # {} PROVE FALSE OBVIOUS
  <2>1. T \subseteq Nat BY <1>0
  <2>2. PICK m \in T : \A x \in T : m <= x BY <2>1, Least
  <2>3. m \in 0 .. n /\ u[m] # h[m] BY <2>2
  <2>4. 0 \in 0 .. n BY <1>0
  <2>5. m # 0 BY <1>5, <1>8, <2>3, <2>4 DEF Sums
  <2>6. m \in 1 .. n /\ m - 1 \in 0 .. n /\ ~(m <= m - 1) BY <1>0, <2>3, <2>5
  <2>7. u[m - 1] = h[m - 1] BY <2>2, <2>6
  <2> QED BY <1>3, <1>5, <1>8, <2>3, <2>5, <2>6, <2>7 DEF Sums
<1>10. u = h
  <2>1. u = [k \in 0 .. n |-> u[k]] BY <1>7
  <2>2. h = [k \in 0 .. n |-> h[k]] OBVIOUS
  <2> QED BY <1>9, <2>1, <2>2, Zenon
<1>11. /\ u \in [0 .. n -> Nat] /\ u[0] = 0
       /\ \A k \in 1 .. n : u[k] = u[k - 1] + Len(Util!Encoded(s[k]))
  BY <1>3, <1>5, <1>10 DEF Sums
<1> QED BY <1>1, <1>11 DEF u, n

LEMMA PlacesGrow ==
    ASSUME NEW s \in Seq(Byte), NEW j \in 0 .. Len(s), NEW x \in j .. Len(s)
    PROVE  Util!UrlPlaces(s)[j] <= Util!UrlPlaces(s)[x]
<1> DEFINE u == Util!UrlPlaces(s)
           n == Len(s)
           T == {k \in j .. n : ~(u[j] <= u[k])}
<1>0. n \in Nat OBVIOUS
<1>1. /\ u \in [0 .. n -> Nat]
      /\ \A k \in 1 .. n : u[k] = u[k - 1] + Len(Util!Encoded(s[k]))
                           /\ Len(Util!Encoded(s[k])) \in {1, 3}
  BY PlacesAre
<1> HIDE DEF u, n
<1>2. SUFFICES ASSUME T # {} PROVE FALSE BY DEF u, n
<1>3. j \in 0 .. n BY DEF n
<1>4. T \subseteq Nat BY <1>0, <1>3
<1>5. PICK m \in T : \A k \in T : m <= k BY <1>2, <1>4, Least
<1>6. m \in j .. n /\ ~(u[j] <= u[m]) BY <1>5
<1>7. u[j] \in Nat BY <1>1, <1>3
<1>8. m # j BY <1>6, <1>7
<1>9. m \in 1 .. n /\ m - 1 \in j .. n /\ m - 1 \in 0 .. n /\ ~(m <= m - 1)
  BY <1>0, <1>3, <1>6, <1>8
<1>10. u[j] <= u[m - 1] BY <1>5, <1>9
<1>11. u[m - 1] \in Nat BY <1>1, <1>9
<1>12. u[m] = u[m - 1] + 1 \/ u[m] = u[m - 1] + 3 BY <1>1, <1>9
<1> HIDE DEF T
<1> QED BY <1>6, <1>7, <1>10, <1>11, <1>12

\* Sequences read from the back: at each place a value and the place to go on.
Chained(h, lo, n, c, d) == h[n + 1] = <<>> /\ \A k \in lo .. n : h[k] = <<c[k]>> \o h[d[k]]

LEMMA ChainsExist ==
    ASSUME NEW n \in Nat, NEW c, NEW d \in [1 .. n -> 1 .. n + 1],
           \A k \in 1 .. n : d[k] > k
    PROVE  \E h : h = [k \in 1 .. n + 1 |-> h[k]] /\ Chained(h, 1, n, c, d)
<1> DEFINE Good(m) == \E h : /\ h = [k \in n + 1 - m .. n + 1 |-> h[k]]
                             /\ Chained(h, n + 1 - m, n, c, d)
           T == {m \in 0 .. n : ~Good(m)}
<1>0. SUFFICES ASSUME T # {} PROVE FALSE
  <2>1. n \in 0 .. n /\ n + 1 - n = 1 OBVIOUS
  <2>2. Good(n) => \E h : h = [k \in 1 .. n + 1 |-> h[k]] /\ Chained(h, 1, n, c, d)
    BY <2>1
  <2> HIDE DEF Good
  <2>3. n \in T \/ Good(n) BY <2>1
  <2> QED BY <2>2, <2>3
<1>1. PICK m \in T : \A x \in T : m <= x
  <2>1. T \subseteq Nat OBVIOUS
  <2> HIDE DEF T
  <2> QED BY <1>0, <2>1, Least
<1> HIDE DEF Good
<1>2. m \in 0 .. n /\ ~Good(m) BY <1>1
<1>3. m # 0
  <2> SUFFICES ASSUME m = 0 PROVE FALSE OBVIOUS
  <2> DEFINE g == [k \in n + 1 - 0 .. n + 1 |-> <<>>]
  <2>1. n + 1 \in n + 1 - 0 .. n + 1 /\ \A k \in n + 1 - 0 .. n : FALSE OBVIOUS
  <2>2. g[n + 1] = <<>> BY <2>1
  <2>3. g = [k \in n + 1 - 0 .. n + 1 |-> g[k]] OBVIOUS
  <2> HIDE DEF g
  <2>4. Chained(g, n + 1 - 0, n, c, d) BY <2>1, <2>2 DEF Chained
  <2>5. Good(0) BY <2>3, <2>4 DEF Good
  <2> QED BY <1>2, <2>5
<1>4. m - 1 \in 0 .. n /\ ~(m <= m - 1) BY <1>2, <1>3
<1>5. Good(m - 1)
  <2>1. m - 1 \notin T BY <1>1, <1>4
  <2> QED BY <1>4, <2>1
<1> HIDE DEF T
<1>6. PICK b : b = n + 1 - m OBVIOUS
<1>7. b \in 1 .. n /\ n + 1 - (m - 1) = b + 1 /\ b \in Int BY <1>2, <1>3, <1>6
<1>8. PICK h : h = [k \in b + 1 .. n + 1 |-> h[k]] /\ Chained(h, b + 1, n, c, d)
  BY <1>5, <1>7 DEF Good
<1>9. d[b] \in b + 1 .. n + 1 BY <1>7
<1> DEFINE g == [k \in b .. n + 1 |-> IF k = b THEN <<c[b]>> \o h[d[b]] ELSE h[k]]
<1>10. /\ b \in b .. n + 1 /\ n + 1 \in b + 1 .. n + 1
       /\ \A k \in b + 1 .. n + 1 : k \in b .. n + 1 /\ k # b
       /\ \A k \in b .. n : k = b \/ (k \in b + 1 .. n /\ d[k] \in b + 1 .. n + 1)
  BY <1>7
<1>11. g[b] = <<c[b]>> \o h[d[b]] BY <1>10
<1>12. \A k \in b + 1 .. n + 1 : g[k] = h[k] BY <1>10
<1>13. g = [k \in b .. n + 1 |-> g[k]] OBVIOUS
<1> HIDE DEF g
<1>14. Chained(g, b, n, c, d)
  <2>1. g[n + 1] = <<>> BY <1>8, <1>10, <1>12 DEF Chained
  <2>2. ASSUME NEW k \in b .. n PROVE g[k] = <<c[k]>> \o g[d[k]]
    <3>1. CASE k = b BY <1>9, <1>11, <1>12, <3>1
    <3>2. CASE k # b
      <4>1. k \in b + 1 .. n /\ k \in b + 1 .. n + 1 /\ d[k] \in b + 1 .. n + 1
        BY <1>7, <1>10, <3>2
      <4>2. h[k] = <<c[k]>> \o h[d[k]] BY <1>8, <4>1 DEF Chained
      <4>3. g[k] = h[k] /\ g[d[k]] = h[d[k]] BY <1>12, <4>1
      <4> QED BY <4>2, <4>3
    <3> QED BY <3>1, <3>2
  <2> QED BY <2>1, <2>2 DEF Chained
<1>15. Good(m) BY <1>6, <1>13, <1>14 DEF Good
<1> QED BY <1>2, <1>15

\* The reader of a buffer in which no escape is cut short.
LEMMA DecodingIs ==
    ASSUME NEW o, NEW n \in Nat,
           \A k \in 1 .. n : o[k][1] = "percent" => k + 2 <= n
    PROVE  /\ Util!UrlDecoding(o, n)[n + 1] = <<>>
           /\ \A k \in 1 .. n : Util!UrlDecoding(o, n)[k] =
                 IF o[k][1] = "percent"
                 THEN <<16 * o[k + 1][2] + o[k + 2][2]>> \o Util!UrlDecoding(o, n)[k + 3]
                 ELSE <<o[k][2]>> \o Util!UrlDecoding(o, n)[k + 1]
<1> DEFINE Round(h) == [k \in 1 .. n + 1 |->
                           IF k > n THEN <<>>
                           ELSE IF o[k][1] = "percent"
                                THEN <<16 * o[k + 1][2] + o[k + 2][2]>> \o h[k + 3]
                                ELSE <<o[k][2]>> \o h[k + 1]]
           u == Util!UrlDecoding(o, n)
           c == [k \in 1 .. n |-> IF o[k][1] = "percent"
                                  THEN 16 * o[k + 1][2] + o[k + 2][2] ELSE o[k][2]]
           d == [k \in 1 .. n |-> IF o[k][1] = "percent" THEN k + 3 ELSE k + 1]
<1>1. u = CHOOSE h : h = Round(h) BY DEF Util!UrlDecoding
<1>2. d \in [1 .. n -> 1 .. n + 1] /\ \A k \in 1 .. n : d[k] > k OBVIOUS
<1>3. \A k \in 1 .. n : o[k][1] = "percent" =>
          c[k] = 16 * o[k + 1][2] + o[k + 2][2] /\ d[k] = k + 3
  OBVIOUS
<1>4. \A k \in 1 .. n : o[k][1] # "percent" => c[k] = o[k][2] /\ d[k] = k + 1 OBVIOUS
<1> HIDE DEF c, d, u
<1>5. PICK h : h = [k \in 1 .. n + 1 |-> h[k]] /\ Chained(h, 1, n, c, d)
  BY <1>2, ChainsExist
<1>6. \A k \in 1 .. n + 1 : h[k] =
          IF k > n THEN <<>>
          ELSE IF o[k][1] = "percent"
               THEN <<16 * o[k + 1][2] + o[k + 2][2]>> \o h[k + 3]
               ELSE <<o[k][2]>> \o h[k + 1]
  <2> TAKE k \in 1 .. n + 1
  <2>1. CASE k > n
    <3>1. k = n + 1 BY <2>1
    <3> QED BY <1>5, <2>1, <3>1 DEF Chained
  <2>2. CASE ~(k > n)
    <3>1. k \in 1 .. n BY <2>2
    <3>2. h[k] = <<c[k]>> \o h[d[k]] BY <1>5, <3>1 DEF Chained
    <3>3. CASE o[k][1] = "percent" BY <1>3, <2>2, <3>1, <3>2, <3>3, Zenon
    <3>4. CASE o[k][1] # "percent" BY <1>4, <2>2, <3>1, <3>2, <3>4, Zenon
    <3> QED BY <3>3, <3>4
  <2> QED BY <2>1, <2>2
<1>7. h = Round(h) BY <1>5, <1>6, Zenon
<1>8. u = Round(u) BY <1>1, <1>7
<1>9. \A k \in 1 .. n + 1 : u[k] = Round(u)[k] BY <1>8
<1>10. n + 1 \in 1 .. n + 1 /\ n + 1 > n BY Z3
<1>11. u[n + 1] = <<>> BY <1>9, <1>10
<1>12. \A k \in 1 .. n : k \in 1 .. n + 1 /\ ~(k > n) OBVIOUS
<1>13. \A k \in 1 .. n : u[k] =
                 IF o[k][1] = "percent"
                 THEN <<16 * o[k + 1][2] + o[k + 2][2]>> \o u[k + 3]
                 ELSE <<o[k][2]>> \o u[k + 1]
  BY <1>9, <1>12
<1> QED BY <1>11, <1>13 DEF u

\* The bytes and the buffer of a call; w is what has been written, or what is
\* left in rstrip.
UtilType ==
    /\ fn \in {"idle", "url_encode", "b64url_encode", "rstrip"}
    /\ fn = "idle" => ret = <<>>
    /\ input \in Seq(Byte) /\ cap \in Nat /\ w \in Nat /\ outside = FALSE
    /\ out \in Seq(Symbols) /\ Len(out) = cap

\* url_encode: the bytes read stand encoded one behind the other.
UtilUrl ==
    fn = "url_encode" =>
        /\ p \in 1 .. Len(input) + 1 /\ w = Util!UrlPlaces(input)[p - 1]
        /\ w = 0 \/ w < cap
        /\ \A j \in 1 .. p - 1 : \A k \in 1 .. Len(Util!Encoded(input[j])) :
              out[Util!UrlPlaces(input)[j - 1] + k] = Util!Encoded(input[j])[k]
        /\ \A k \in 1 .. w : out[k][1] = "percent" => k + 2 <= w
        /\ \/ ret = <<>>
           \/ ret = <<-1>> /\ Util!UrlPlaces(input)[Len(input)] >= cap
           \/ ret = <<w>> /\ w < cap /\ p = Len(input) + 1 /\ out[w + 1] = Util!Nul

\* The characters of the encoding that are no padding, and how one is kept.
Unpadded(n) == (4 * n + 2) \div 3
Kept(c) == CASE c[1] = "+" -> <<"-", 62>> [] c[1] = "/" -> <<"_", 63>> [] OTHER -> c

\* b64url_encode: behind p the encoding is as OpenSSL left it, up to w it is
\* translated, and w is behind p.
UtilB64 ==
    fn = "b64url_encode" =>
        /\ ret = <<-1>> => Util!EncodedLength(Len(input)) + 1 > cap \/ evp = "error"
        /\ ret # <<-1>> =>
              /\ Util!EncodedLength(Len(input)) + 1 <= cap
              /\ p \in 1 .. Util!EncodedLength(Len(input)) + 1
              /\ w <= Unpadded(Len(input)) /\ w <= p - 1
              /\ w = Unpadded(Len(input)) \/ w = p - 1
              /\ \A k \in p .. Util!EncodedLength(Len(input)) : out[k] = Util!Base64(input, k)
              /\ \A k \in 1 .. w : out[k] = Kept(Util!Base64(input, k))
              /\ \/ ret = <<>>
                 \/ /\ ret = <<w>> /\ p = Util!EncodedLength(Len(input)) + 1
                    /\ out[w + 1] = Util!Nul

\* rstrip: what has been cut off was white space.
UtilStrip ==
    fn = "rstrip" =>
        /\ cap = Len(input) + 1 /\ w <= Len(input)
        /\ \A k \in 1 .. w : out[k] = <<"char", input[k]>>
        /\ \A k \in w + 1 .. Len(input) : out[k] = Util!Nul /\ input[k] \in Util!White
        /\ \/ ret = <<>>
           \/ ret = <<w>> /\ (w > 0 => input[w] \notin Util!White)

UtilInv == UtilType /\ UtilUrl /\ UtilB64 /\ UtilStrip


LEMMA UtilInit == Init => UtilInv
<1> SUFFICES ASSUME Init PROVE UtilInv OBVIOUS
<1>1. fn = "idle" /\ input = <<>> /\ cap = 0 /\ out = <<>> /\ w = 0 /\ ret = <<>>
      /\ outside = FALSE
  BY Zenon DEF Init, Util!Init
<1>2. input \in Seq(Byte) /\ out \in Seq(Symbols) /\ Len(out) = cap BY <1>1
<1>3. UtilType BY <1>1, <1>2 DEF UtilType
<1> QED BY <1>1, <1>3 DEF UtilInv, UtilUrl, UtilB64, UtilStrip

\* A string of bytes given to a function.
LEMMA GivenBytes ==
    ASSUME NEW S, S \subseteq Byte, NEW n \in Nat, NEW s \in Util!Strings(S, n)
    PROVE  s \in Seq(Byte) /\ Len(s) \in Nat
<1>1. PICK k \in 0 .. n : s \in [1 .. k -> S] BY DEF Util!Strings
<1>2. k \in Nat BY <1>1
<1>3. s \in [1 .. k -> Byte] BY <1>1
<1>4. s \in Seq(Byte) BY <1>2, <1>3
<1> QED BY <1>4

\* What Store does to a buffer it stays in.
LEMMA Stored ==
    ASSUME out \in Seq(Symbols), NEW at \in Nat, NEW chars \in Seq(Symbols),
           at + Len(chars) <= Len(out), outside = FALSE, Util!Store(at, chars)
    PROVE  /\ out' \in Seq(Symbols) /\ Len(out') = Len(out) /\ outside' = FALSE
           /\ \A k \in 1 .. Len(out) :
                 /\ k \in at + 1 .. at + Len(chars) => out'[k] = chars[k - at]
                 /\ k \notin at + 1 .. at + Len(chars) => out'[k] = out[k]
<1>1. PICK n \in Nat : n = Len(chars) OBVIOUS
<1>2. PICK m \in Nat : m = Len(out) OBVIOUS
<1>3. DOMAIN out = 1 .. m BY <1>2
<1>4. out' = [k \in 1 .. m |-> IF k \in at + 1 .. at + n THEN chars[k - at] ELSE out[k]]
  BY <1>1, <1>3 DEF Util!Store
<1>5. \A k \in 1 .. m : k \in at + 1 .. at + n => k - at \in 1 .. n BY <1>1, <1>2
<1>6. \A k \in 1 .. n : chars[k] \in Symbols BY <1>1
<1>7. \A k \in 1 .. m : out[k] \in Symbols BY <1>2
<1>8. out' \in [1 .. m -> Symbols] BY <1>4, <1>5, <1>6, <1>7
<1>9. out' \in Seq(Symbols) /\ Len(out') = m BY <1>2, <1>8
<1>10. outside' = FALSE
  <2>1. ~(at + n > m) BY <1>1, <1>2
  <2>2. outside' = (outside \/ at + n > m) BY <1>1, <1>2 DEF Util!Store
  <2> QED BY <2>1, <2>2
<1>11. \A k \in 1 .. m : /\ k \in at + 1 .. at + n => out'[k] = chars[k - at]
                         /\ k \notin at + 1 .. at + n => out'[k] = out[k]
  BY <1>4
<1> QED BY <1>1, <1>2, <1>9, <1>10, <1>11

\* One character stored behind the first `at`.
LEMMA StoredOne ==
    ASSUME out \in Seq(Symbols), NEW at \in Nat, NEW c \in Symbols,
           at < Len(out), outside = FALSE, Util!Store(at, <<c>>)
    PROVE  /\ out' \in Seq(Symbols) /\ Len(out') = Len(out) /\ outside' = FALSE
           /\ out'[at + 1] = c
           /\ \A k \in 1 .. Len(out) : k # at + 1 => out'[k] = out[k]
<1> DEFINE s == <<c>>
<1>1. s \in Seq(Symbols) /\ Len(s) = 1 /\ s[1] = c OBVIOUS
<1>2. Util!Store(at, s) OBVIOUS
<1> HIDE DEF s
<1>3. at + Len(s) <= Len(out) BY <1>1
<1>4. /\ out' \in Seq(Symbols) /\ Len(out') = Len(out) /\ outside' = FALSE
      /\ \A k \in 1 .. Len(out) :
                 /\ k \in at + 1 .. at + Len(s) => out'[k] = s[k - at]
                 /\ k \notin at + 1 .. at + Len(s) => out'[k] = out[k]
  BY <1>1, <1>2, <1>3, Stored
<1>5. at + 1 \in 1 .. Len(out) /\ at + 1 \in at + 1 .. at + 1 /\ at + 1 - at = 1 OBVIOUS
<1>6. \A k \in 1 .. Len(out) : k # at + 1 => k \notin at + 1 .. at + 1 OBVIOUS
<1>7. out'[at + 1] = c BY <1>1, <1>4, <1>5
<1>8. \A k \in 1 .. Len(out) : k # at + 1 => out'[k] = out[k] BY <1>1, <1>4, <1>6
<1> QED BY <1>4, <1>7, <1>8

LEMMA NulSymbol == Util!Nul \in Symbols /\ Util!Junk \in Symbols
<1>1. 0 \in Nat OBVIOUS
<1> QED BY <1>1, Zenon DEF Util!Nul, Util!Junk, Symbols

LEMMA UrlCall == UtilInv /\ Util!CallUrlEncode => UtilInv'
<1> SUFFICES ASSUME UtilInv, Util!CallUrlEncode PROVE UtilInv' OBVIOUS
<1>0. fn' = "url_encode" /\ p' = 1 /\ w' = 0 /\ ret' = <<>> /\ outside' = FALSE
  BY DEF Util!CallUrlEncode, UtilInv, UtilType
<1>1. input' \in Util!Strings(UrlBytes, MaxUrl) /\ cap' \in 0 .. MaxCap
      /\ out' = [k \in 1 .. cap' |-> Util!Junk]
  BY DEF Util!CallUrlEncode
<1>2. input' \in Seq(Byte) BY <1>1, CodecAssumption, GivenBytes DEF Byte
<1>3. cap' \in Nat BY <1>1, CodecAssumption
<1>4. out' \in Seq(Symbols) /\ Len(out') = cap' BY <1>1, <1>3, NulSymbol
<1>5. UtilType' BY <1>0, <1>2, <1>3, <1>4, Zenon DEF UtilType
<1>6. UtilUrl'
  <2>1. Util!UrlPlaces(input')[0] = 0 BY <1>2, PlacesAre
  <2>2. p' \in 1 .. Len(input') + 1 /\ p' - 1 = 0 BY <1>0, <1>2
  <2>3. \A j \in 1 .. 0 : FALSE OBVIOUS
  <2> QED BY <1>0, <2>1, <2>2, <2>3 DEF UtilUrl
<1> QED BY <1>0, <1>5, <1>6 DEF UtilInv, UtilB64, UtilStrip

LEMMA UrlTurn == UtilInv /\ Util!UrlStep => UtilInv'
<1> SUFFICES ASSUME UtilInv, Util!UrlStep PROVE UtilInv' OBVIOUS
<1>0. /\ fn = "url_encode" /\ fn' = fn /\ input' = input /\ cap' = cap
      /\ ret = <<>> /\ p <= Len(input)
  BY DEF Util!UrlStep, Util!Running, Util!argument
<1>1. /\ input \in Seq(Byte) /\ cap \in Nat /\ w \in Nat /\ outside = FALSE
      /\ out \in Seq(Symbols) /\ Len(out) = cap
  BY DEF UtilInv, UtilType
<1>2. PICK L \in Nat : L = Len(input) BY <1>1
<1>3. p \in 1 .. L BY <1>0, <1>2 DEF UtilInv, UtilUrl
<1> DEFINE c == input[p]
           chars == Util!Encoded(c)
           u == Util!UrlPlaces(input)
<1>4. c \in Byte BY <1>1, <1>2, <1>3
<1>5. /\ chars \in Seq(Symbols)
      /\ \/ Len(chars) = 1 /\ chars[1] = <<"char", c>>
         \/ /\ Len(chars) = 3 /\ chars[1] = <<"percent", 0>>
            /\ chars[2] = <<"hex", c \div 16>> /\ chars[3] = <<"hex", c % 16>>
  BY <1>4, EncodedIs
<1>6. /\ w = u[p - 1] /\ (w = 0 \/ w < cap)
      /\ \A j \in 1 .. p - 1 : \A k \in 1 .. Len(Util!Encoded(input[j])) :
              out[u[j - 1] + k] = Util!Encoded(input[j])[k]
      /\ \A k \in 1 .. w : out[k][1] = "percent" => k + 2 <= w
  BY <1>0 DEF UtilInv, UtilUrl
<1>7. /\ u \in [0 .. L -> Nat] /\ u[0] = 0
      /\ \A k \in 1 .. L : /\ u[k] = u[k - 1] + Len(Util!Encoded(input[k]))
                           /\ Len(Util!Encoded(input[k])) \in {1, 3}
  BY <1>1, <1>2, PlacesAre
<1>8. u[p] = w + Len(chars) BY <1>3, <1>6, <1>7
<1>9. PICK n \in Nat : n = Len(chars) BY <1>5
<1>10. n = 1 \/ n = 3 BY <1>5, <1>9
<1>11. IF w + n >= cap
       THEN ret' = <<-1>> /\ out' = out /\ outside' = outside /\ p' = p /\ w' = w
       ELSE Util!Store(w, chars) /\ w' = w + n /\ p' = p + 1 /\ ret' = ret
  BY <1>9 DEF Util!UrlStep, Util!Return
<1>12. CASE w + n >= cap
  <2>1. ret' = <<-1>> /\ out' = out /\ outside' = outside /\ p' = p /\ w' = w
    BY <1>11, <1>12
  <2>2. u[L] >= cap
    <3>1. p \in 0 .. Len(input) /\ L \in p .. Len(input) BY <1>2, <1>3
    <3>2. u[p] <= u[L] BY <1>1, <3>1, PlacesGrow
    <3>3. u[L] \in Nat BY <1>7
    <3> HIDE DEF u, chars
    <3> QED BY <1>1, <1>8, <1>9, <1>12, <3>2, <3>3
  <2>3. UtilType' BY <1>0, <1>1, <2>1 DEF UtilType
  <2>4. UtilUrl'
    <3>1. p' \in 1 .. Len(input') + 1 BY <1>0, <1>2, <1>3, <2>1
    <3> QED BY <1>0, <1>2, <1>6, <2>1, <2>2, <3>1 DEF UtilUrl
  <2> QED BY <1>0, <2>3, <2>4 DEF UtilInv, UtilB64, UtilStrip
<1>13. CASE ~(w + n >= cap)
  <2>1. Util!Store(w, chars) /\ w' = w + n /\ p' = p + 1 /\ ret' = <<>>
    BY <1>0, <1>11, <1>13
  <2>2. w + n < cap BY <1>1, <1>13
  <2>3. w + Len(chars) <= Len(out) BY <1>1, <1>9, <2>2
  <2> HIDE DEF u, chars
  <2>4. /\ out' \in Seq(Symbols) /\ Len(out') = Len(out) /\ outside' = FALSE
        /\ \A k \in 1 .. Len(out) :
                 /\ k \in w + 1 .. w + Len(chars) => out'[k] = chars[k - w]
                 /\ k \notin w + 1 .. w + Len(chars) => out'[k] = out[k]
    BY <1>1, <1>5, <2>1, <2>3, Stored
  <2>5. \A k \in 1 .. n : out'[w + k] = chars[k]
    <3> TAKE k \in 1 .. n
    <3>1. w + k \in 1 .. Len(out) /\ w + k \in w + 1 .. w + Len(chars) /\ (w + k) - w = k
      BY <1>1, <1>9, <2>2
    <3> QED BY <2>4, <3>1
  <2>6. \A k \in 1 .. w : out'[k] = out[k]
    <3> TAKE k \in 1 .. w
    <3>1. k \in 1 .. Len(out) /\ k \notin w + 1 .. w + Len(chars) BY <1>1, <1>9, <2>2
    <3> QED BY <2>4, <3>1
  <2>7. UtilType'
    <3>1. w' \in Nat BY <1>1, <2>1
    <3> QED BY <1>0, <1>1, <2>1, <2>4, <3>1 DEF UtilType
  <2>8. p' \in 1 .. Len(input') + 1 /\ p' - 1 = p /\ w' < cap'
    BY <1>0, <1>2, <1>3, <2>1, <2>2
  <2>9. w' = u[p' - 1] BY <1>8, <1>9, <2>1, <2>8
  <2>10. ASSUME NEW j \in 1 .. p, NEW k \in 1 .. Len(Util!Encoded(input[j]))
         PROVE  out'[u[j - 1] + k] = Util!Encoded(input[j])[k]
    <3>1. CASE j = p
      BY <1>6, <1>9, <2>5, <3>1 DEF chars
    <3>2. CASE j # p
      <4>1. j \in 1 .. p - 1 /\ j - 1 \in 0 .. L /\ j \in 1 .. L BY <1>3, <3>2
      <4>2. out[u[j - 1] + k] = Util!Encoded(input[j])[k] BY <1>6, <4>1
      <4>3. PICK e \in Nat : e = Len(Util!Encoded(input[j])) BY <1>7, <4>1
      <4>4. u[j] = u[j - 1] + e /\ u[j - 1] \in Nat /\ k \in 1 .. e BY <1>7, <4>1, <4>3
      <4>5. j \in 0 .. Len(input) /\ p - 1 \in j .. Len(input) BY <1>2, <1>3, <4>1
      <4>6. u[j] <= u[p - 1] BY <1>1, <4>5, PlacesGrow DEF u
      <4>7. u[j - 1] + k \in 1 .. w BY <1>1, <1>6, <4>4, <4>6
      <4> QED BY <2>6, <4>2, <4>7
    <3> QED BY <3>1, <3>2
  <2>11. ASSUME NEW k \in 1 .. w + n, out'[k][1] = "percent" PROVE k + 2 <= w + n
    <3>1. CASE k <= w
      <4>1. k \in 1 .. w BY <3>1
      <4>2. k + 2 <= w BY <1>6, <2>6, <2>11, <4>1
      <4> QED BY <1>1, <4>1, <4>2
    <3>2. CASE k > w
      <4>1. PICK x \in 1 .. n : k = w + x
        <5>1. k - w \in 1 .. n /\ k = w + (k - w) BY <1>1, <3>2
        <5> QED BY <5>1
      <4>2. chars[x][1] = "percent" BY <2>5, <2>11, <4>1
      <4>3. x = 1 /\ n = 3
        <5>1. CASE Len(chars) = 1 /\ chars[1] = <<"char", c>>
          <6>1. x = 1 BY <1>9, <4>1, <5>1
          <6>2. chars[x][1] = "char" BY <5>1, <6>1
          <6> QED BY <4>2, <6>2
        <5>2. CASE /\ Len(chars) = 3 /\ chars[1] = <<"percent", 0>>
                   /\ chars[2] = <<"hex", c \div 16>> /\ chars[3] = <<"hex", c % 16>>
          <6>1. chars[2][1] = "hex" /\ chars[3][1] = "hex" BY <5>2
          <6>2. x = 1 \/ x = 2 \/ x = 3 BY <1>9, <4>1, <5>2
          <6>3. x = 1 BY <4>2, <6>1, <6>2
          <6> QED BY <1>9, <5>2, <6>3
        <5> QED BY <1>5, <5>1, <5>2
      <4> QED BY <1>1, <4>1, <4>3
    <3> QED BY <3>1, <3>2, <1>1
  <2>12. UtilUrl'
    <3>1. \A j \in 1 .. p' - 1 : \A k \in 1 .. Len(Util!Encoded(input'[j])) :
              out'[Util!UrlPlaces(input')[j - 1] + k] = Util!Encoded(input'[j])[k]
      BY <1>0, <2>8, <2>10 DEF u
    <3>2. \A k \in 1 .. w' : out'[k][1] = "percent" => k + 2 <= w' BY <2>1, <2>11
    <3>3. w' = Util!UrlPlaces(input')[p' - 1] BY <1>0, <2>9 DEF u
    <3> QED BY <2>1, <2>8, <3>1, <3>2, <3>3 DEF UtilUrl
  <2> QED BY <1>0, <2>7, <2>12 DEF UtilInv, UtilB64, UtilStrip
<1> QED BY <1>12, <1>13

LEMMA UrlReturn == UtilInv /\ Util!UrlEnd => UtilInv'
<1> SUFFICES ASSUME UtilInv, Util!UrlEnd PROVE UtilInv' OBVIOUS
<1>0. /\ fn = "url_encode" /\ fn' = fn /\ input' = input /\ cap' = cap
      /\ ret = <<>> /\ p > Len(input) /\ p' = p /\ w' = w
  BY DEF Util!UrlEnd, Util!Running, Util!argument
<1>1. /\ input \in Seq(Byte) /\ cap \in Nat /\ w \in Nat /\ outside = FALSE
      /\ out \in Seq(Symbols) /\ Len(out) = cap
  BY DEF UtilInv, UtilType
<1>2. PICK L \in Nat : L = Len(input) BY <1>1
<1>3. /\ p \in 1 .. L + 1 /\ w = Util!UrlPlaces(input)[p - 1]
      /\ w = 0 \/ w < cap
      /\ \A j \in 1 .. p - 1 : \A k \in 1 .. Len(Util!Encoded(input[j])) :
            out[Util!UrlPlaces(input)[j - 1] + k] = Util!Encoded(input[j])[k]
      /\ \A k \in 1 .. w : out[k][1] = "percent" => k + 2 <= w
  BY <1>0, <1>2 DEF UtilInv, UtilUrl
<1>4. p = L + 1 /\ p - 1 = L BY <1>0, <1>2, <1>3
<1>5. IF w >= cap THEN ret' = <<-1>> /\ out' = out /\ outside' = outside
      ELSE Util!Store(w, <<Util!Nul>>) /\ ret' = <<w>>
  BY DEF Util!UrlEnd, Util!Return
<1>6. CASE w >= cap
  <2>1. ret' = <<-1>> /\ out' = out /\ outside' = FALSE BY <1>1, <1>5, <1>6
  <2>2. UtilType' BY <1>0, <1>1, <2>1 DEF UtilType
  <2>3. UtilUrl' BY <1>0, <1>2, <1>3, <1>4, <1>6, <2>1 DEF UtilUrl
  <2> QED BY <1>0, <2>2, <2>3 DEF UtilInv, UtilB64, UtilStrip
<1>7. CASE ~(w >= cap)
  <2>1. w < cap BY <1>1, <1>7
  <2>2. Util!Store(w, <<Util!Nul>>) /\ ret' = <<w>> BY <1>5, <1>7
  <2>3. /\ out' \in Seq(Symbols) /\ Len(out') = Len(out) /\ outside' = FALSE
        /\ out'[w + 1] = Util!Nul
        /\ \A k \in 1 .. Len(out) : k # w + 1 => out'[k] = out[k]
    BY <1>1, <2>1, <2>2, NulSymbol, StoredOne
  <2>4. \A k \in 1 .. w : out'[k] = out[k]
    <3> TAKE k \in 1 .. w
    <3>1. k \in 1 .. Len(out) /\ k # w + 1 BY <1>1, <2>1
    <3> QED BY <2>3, <3>1
  <2>5. UtilType' BY <1>0, <1>1, <2>2, <2>3 DEF UtilType
  <2>6. ASSUME NEW j \in 1 .. L, NEW k \in 1 .. Len(Util!Encoded(input[j]))
        PROVE  out'[Util!UrlPlaces(input)[j - 1] + k] = Util!Encoded(input[j])[k]
    <3> DEFINE u == Util!UrlPlaces(input)
    <3>1. out[u[j - 1] + k] = Util!Encoded(input[j])[k] BY <1>3, <1>4
    <3>2. /\ u \in [0 .. L -> Nat]
          /\ \A x \in 1 .. L : /\ u[x] = u[x - 1] + Len(Util!Encoded(input[x]))
                               /\ Len(Util!Encoded(input[x])) \in {1, 3}
      BY <1>1, <1>2, PlacesAre
    <3>3. j \in 0 .. Len(input) /\ L \in j .. Len(input) /\ j - 1 \in 0 .. L BY <1>2
    <3>4. u[j] <= u[L] BY <1>1, <3>3, PlacesGrow
    <3>5. w = u[L] BY <1>3, <1>4
    <3> HIDE DEF u
    <3>6. PICK e \in Nat : e = Len(Util!Encoded(input[j])) BY <3>2
    <3>7. u[j] = u[j - 1] + e /\ u[j - 1] \in Nat /\ k \in 1 .. e BY <3>2, <3>3, <3>6
    <3>8. u[j - 1] + k \in 1 .. w BY <1>1, <3>4, <3>5, <3>7
    <3> QED BY <2>4, <3>1, <3>8 DEF u
  <2>7. UtilUrl'
    <3>1. \A j \in 1 .. p' - 1 : \A k \in 1 .. Len(Util!Encoded(input'[j])) :
              out'[Util!UrlPlaces(input')[j - 1] + k] = Util!Encoded(input'[j])[k]
      BY <1>0, <1>4, <2>6
    <3>2. \A k \in 1 .. w' : out'[k][1] = "percent" => k + 2 <= w' BY <1>0, <1>3, <2>4
    <3>3. w' = Util!UrlPlaces(input')[p' - 1] /\ p' \in 1 .. Len(input') + 1
          /\ p' = Len(input') + 1
      BY <1>0, <1>2, <1>3, <1>4
    <3> QED BY <1>0, <2>1, <2>2, <2>3, <3>1, <3>2, <3>3 DEF UtilUrl
  <2> QED BY <1>0, <2>5, <2>7 DEF UtilInv, UtilB64, UtilStrip
<1> QED BY <1>6, <1>7

LEMMA Hexadecimal ==
    ASSUME NEW c \in Byte
    PROVE  16 * (c \div 16) + (c % 16) = c
<1>1. c \in Nat BY DEF Byte
<1> QED BY <1>1

\* The rest of a sequence from a place on, taken apart.
LEMMA Rest ==
    ASSUME NEW s \in Seq(Byte), NEW j \in 1 .. Len(s)
    PROVE  SubSeq(s, j, Len(s)) = <<s[j]>> \o SubSeq(s, j + 1, Len(s))
<1> DEFINE a == SubSeq(s, j, Len(s))
           b == SubSeq(s, j + 1, Len(s))
<1>1. a \in Seq(Byte) /\ b \in Seq(Byte) OBVIOUS
<1>2. Len(a) = Len(s) - j + 1 /\ Len(b) = Len(s) - j OBVIOUS
<1>3. <<s[j]>> \in Seq(Byte) /\ Len(<<s[j]>>) = 1 OBVIOUS
<1>4. \A k \in 1 .. Len(s) - j + 1 : a[k] = s[j + k - 1] OBVIOUS
<1>5. \A k \in 1 .. Len(s) - j : b[k] = s[j + k] OBVIOUS
<1> HIDE DEF a, b
<1> DEFINE x == <<s[j]>>
<1>6. x[1] = s[j] OBVIOUS
<1> HIDE DEF x
<1>7. x \in Seq(Byte) /\ Len(x) = 1 BY <1>3 DEF x
<1>8. /\ x \o b \in Seq(Byte) /\ Len(x \o b) = 1 + Len(b)
      /\ \A k \in 1 .. 1 + Len(b) : (x \o b)[k] = IF k <= 1 THEN x[k] ELSE b[k - 1]
  <2>1. /\ x \o b \in Seq(Byte) /\ Len(x \o b) = Len(x) + Len(b)
        /\ \A k \in DOMAIN (x \o b) :
              IF k <= Len(x) THEN k \in DOMAIN x /\ (x \o b)[k] = x[k]
              ELSE k - Len(x) \in DOMAIN b /\ (x \o b)[k] = b[k - Len(x)]
    BY <1>1, <1>7, Joining
  <2>2. DOMAIN (x \o b) = 1 .. 1 + Len(b) BY <1>7, <2>1
  <2> QED BY <1>7, <2>1, <2>2
<1>9. Len(x \o b) = Len(a) BY <1>2, <1>8
<1>10. ASSUME NEW k \in 1 .. Len(a) PROVE a[k] = (x \o b)[k]
  <2>1. CASE k = 1 BY <1>2, <1>4, <1>6, <1>8, <2>1
  <2>2. CASE k # 1
    <3>1. k - 1 \in 1 .. Len(s) - j /\ k \in 1 .. 1 + Len(b) /\ ~(k <= 1)
          /\ j + (k - 1) = j + k - 1
      BY <1>2, <2>2
    <3> QED BY <1>2, <1>4, <1>5, <1>8, <3>1
  <2> QED BY <2>1, <2>2
<1>11. a = x \o b BY <1>1, <1>8, <1>9, <1>10, SeqEqual
<1> QED BY <1>11 DEF a, b, x

\* What url_encode returns is read as its input.
LEMMA UrlReadBack ==
    ASSUME UtilInv, fn = "url_encode", ret = <<w>>, w # -1
    PROVE  Util!UrlDecoding(out, w)[1] = input
<1> DEFINE u == Util!UrlPlaces(input)
           D == Util!UrlDecoding(out, w)
<1>1. input \in Seq(Byte) /\ cap \in Nat /\ w \in Nat BY DEF UtilInv, UtilType
<1>2. PICK L \in Nat : L = Len(input) BY <1>1
<1>0. ret # <<>> /\ ret # <<-1>> BY <1>1
<1>3. /\ p = L + 1 /\ w = u[p - 1]
      /\ \A j \in 1 .. p - 1 : \A k \in 1 .. Len(Util!Encoded(input[j])) :
            out[u[j - 1] + k] = Util!Encoded(input[j])[k]
      /\ \A k \in 1 .. w : out[k][1] = "percent" => k + 2 <= w
  BY <1>0, <1>2 DEF UtilInv, UtilUrl
<1>4. p - 1 = L /\ w = u[L] BY <1>3
<1>5. /\ D[w + 1] = <<>>
      /\ \A k \in 1 .. w : D[k] =
            IF out[k][1] = "percent"
            THEN <<16 * out[k + 1][2] + out[k + 2][2]>> \o D[k + 3]
            ELSE <<out[k][2]>> \o D[k + 1]
  <2>1. w \in Nat /\ \A k \in 1 .. w : out[k][1] = "percent" => k + 2 <= w BY <1>1, <1>3
  <2> QED BY <2>1, DecodingIs, Zenon
<1>6. /\ u \in [0 .. L -> Nat] /\ u[0] = 0
      /\ \A k \in 1 .. L : /\ u[k] = u[k - 1] + Len(Util!Encoded(input[k]))
                           /\ Len(Util!Encoded(input[k])) \in {1, 3}
  BY <1>1, <1>2, PlacesAre
<1>7. \A j \in 0 .. L : u[j] <= u[L]
  <2> TAKE j \in 0 .. L
  <2>1. j \in 0 .. Len(input) /\ L \in j .. Len(input) BY <1>2
  <2> QED BY <1>1, <2>1, PlacesGrow
<1> HIDE DEF u, D
\* From the back: behind the first L - m bytes the rest is read.
<1> DEFINE T == {m \in 0 .. L : D[u[L - m] + 1] # SubSeq(input, L - m + 1, L)}
<1>8. T = {}
  <2>1. SUFFICES ASSUME T # {} PROVE FALSE OBVIOUS
  <2>2. PICK m \in T : \A x \in T : m <= x
    <3>1. T \subseteq Nat BY <1>2
    <3> HIDE DEF T
    <3> QED BY <2>1, <3>1, Least
  <2>3. m \in 0 .. L /\ D[u[L - m] + 1] # SubSeq(input, L - m + 1, L) BY <2>2
  <2>4. m # 0
    <3>1. L - 0 = L /\ L - 0 + 1 = L + 1 BY <1>2
    <3>2. SubSeq(input, L + 1, L) = <<>> BY <1>1, <1>2
    <3> QED BY <1>4, <1>5, <2>3, <3>1, <3>2
  <2>5. m - 1 \in 0 .. L /\ ~(m <= m - 1) BY <1>2, <2>3, <2>4
  <2>6. PICK j : j = L - m + 1 OBVIOUS
  <2>7. j \in 1 .. L /\ L - m = j - 1 /\ L - (m - 1) = j BY <1>2, <2>3, <2>4, <2>6
  <2>8. D[u[j] + 1] = SubSeq(input, j + 1, L)
    <3>1. m - 1 \notin T BY <2>2, <2>5
    <3>2. D[u[L - (m - 1)] + 1] = SubSeq(input, L - (m - 1) + 1, L) BY <2>5, <3>1
    <3> QED BY <2>7, <3>2
  <2> HIDE DEF T
  <2>9. SubSeq(input, j, L) = <<input[j]>> \o SubSeq(input, j + 1, L)
    BY <1>1, <1>2, <2>7, Rest
  <2>10. PICK c \in Byte : c = input[j] BY <1>1, <1>2, <2>7
  <2>11. PICK v \in Nat : v = u[j - 1] BY <1>6, <2>7
  <2>12. u[j] = v + Len(Util!Encoded(c)) BY <1>6, <2>7, <2>10, <2>11
  <2>13. \A k \in 1 .. Len(Util!Encoded(c)) : out[v + k] = Util!Encoded(c)[k]
    BY <1>3, <1>4, <2>7, <2>10, <2>11
  <2>14. u[j] <= w BY <1>4, <1>7, <2>7
  <2>15. D[v + 1] = <<c>> \o D[u[j] + 1]
    <3>1. CASE Len(Util!Encoded(c)) = 1 /\ Util!Encoded(c)[1] = <<"char", c>>
      <4>1. out[v + 1] = <<"char", c>> BY <2>13, <3>1
      <4>2. v + 1 \in 1 .. w /\ u[j] = v + 1 BY <1>1, <2>12, <2>14, <3>1
      <4>3. out[v + 1][1] # "percent" /\ out[v + 1][2] = c BY <4>1
      <4> QED BY <1>5, <4>2, <4>3
    <3>2. CASE /\ Len(Util!Encoded(c)) = 3 /\ Util!Encoded(c)[1] = <<"percent", 0>>
               /\ Util!Encoded(c)[2] = <<"hex", c \div 16>>
               /\ Util!Encoded(c)[3] = <<"hex", c % 16>>
      <4>1. /\ out[v + 1] = <<"percent", 0>> /\ out[v + 2] = <<"hex", c \div 16>>
            /\ out[v + 3] = <<"hex", c % 16>>
        <5>1. 1 \in 1 .. Len(Util!Encoded(c)) /\ 2 \in 1 .. Len(Util!Encoded(c))
              /\ 3 \in 1 .. Len(Util!Encoded(c))
          BY <3>2
        <5> QED BY <2>13, <3>2, <5>1
      <4>2. /\ v + 1 \in 1 .. w /\ u[j] + 1 = (v + 1) + 3
            /\ v + 2 = (v + 1) + 1 /\ v + 3 = (v + 1) + 2
        BY <1>1, <2>12, <2>14, <3>2
      <4>3. PICK k \in 1 .. w : k = v + 1 BY <4>2
      <4>4. /\ out[k][1] = "percent" /\ out[k + 1][2] = c \div 16 /\ out[k + 2][2] = c % 16
        BY <4>1, <4>2, <4>3
      <4>5. D[k] = <<16 * out[k + 1][2] + out[k + 2][2]>> \o D[k + 3] BY <1>5, <4>3, <4>4
      <4>6. 16 * out[k + 1][2] + out[k + 2][2] = c
        <5>1. 16 * (c \div 16) + (c % 16) = c BY Hexadecimal
        <5> QED BY <4>4, <5>1
      <4> QED BY <4>2, <4>3, <4>5, <4>6
    <3> QED BY <2>10, <3>1, <3>2, EncodedIs
  <2> QED BY <2>3, <2>6, <2>7, <2>8, <2>9, <2>10, <2>11, <2>15
<1>9. L \in 0 .. L /\ L - L = 0 /\ 0 + 1 = 1 BY <1>2
<1>10. D[u[L - L] + 1] = SubSeq(input, L - L + 1, L) BY <1>8, <1>9
<1>11. D[1] = SubSeq(input, 1, L) BY <1>6, <1>9, <1>10
<1>12. SubSeq(input, 1, Len(input)) = input
  <2>1. SubSeq(input, 1, Len(input)) \in Seq(Byte)
        /\ Len(SubSeq(input, 1, Len(input))) = Len(input)
        /\ \A k \in 1 .. Len(input) : SubSeq(input, 1, Len(input))[k] = input[k]
    BY <1>1
  <2> QED BY <1>1, <2>1, SeqEqual
<1> QED BY <1>2, <1>11, <1>12 DEF D

LEMMA StripCall == UtilInv /\ Util!CallRstrip => UtilInv'
<1> SUFFICES ASSUME UtilInv, Util!CallRstrip PROVE UtilInv' OBVIOUS
<1>0. fn' = "rstrip" /\ ret' = <<>> /\ outside' = FALSE
  BY DEF Util!CallRstrip, UtilInv, UtilType
<1>1. input' \in Util!Strings(UrlBytes, MaxUrl) BY DEF Util!CallRstrip
<1>2. input' \in Seq(Byte) BY <1>1, CodecAssumption, GivenBytes DEF Byte
<1>3. PICK L \in Nat : L = Len(input') BY <1>2
<1>4. /\ cap' = L + 1 /\ w' = L
      /\ out' = [k \in 1 .. L |-> <<"char", input'[k]>>] \o <<Util!Nul>>
  BY <1>3 DEF Util!CallRstrip
<1> DEFINE a == [k \in 1 .. L |-> <<"char", input'[k]>>]
           b == <<Util!Nul>>
<1>5. \A k \in 1 .. L : <<"char", input'[k]>> \in Symbols
  <2> TAKE k \in 1 .. L
  <2>1. input'[k] \in Byte BY <1>2, <1>3
  <2>2. input'[k] \in Nat BY <2>1 DEF Byte
  <2> QED BY <2>2, Zenon DEF Symbols
<1>6. a \in Seq(Symbols) /\ Len(a) = L BY <1>5
<1>7. \A k \in 1 .. L : a[k] = <<"char", input'[k]>> OBVIOUS
<1>8. b \in Seq(Symbols) /\ Len(b) = 1 BY NulSymbol
<1>9. out' = a \o b BY <1>4
<1> HIDE DEF a, b
<1>10. /\ out' \in Seq(Symbols) /\ Len(out') = L + 1
       /\ \A k \in 1 .. L : out'[k] = a[k]
  <2>1. /\ a \o b \in Seq(Symbols) /\ Len(a \o b) = Len(a) + Len(b)
        /\ \A k \in DOMAIN (a \o b) :
              IF k <= Len(a) THEN k \in DOMAIN a /\ (a \o b)[k] = a[k]
              ELSE k - Len(a) \in DOMAIN b /\ (a \o b)[k] = b[k - Len(a)]
    BY <1>6, <1>8, Joining
  <2>2. Len(a \o b) = L + 1 BY <1>6, <1>8, <2>1
  <2>3. DOMAIN (a \o b) = 1 .. L + 1 BY <2>1, <2>2
  <2>4. \A k \in 1 .. L : k \in 1 .. L + 1 /\ k <= L OBVIOUS
  <2> QED BY <1>6, <1>9, <2>1, <2>2, <2>3, <2>4
<1>11. UtilType'
  <2>1. cap' \in Nat /\ w' \in Nat /\ Len(out') = cap' BY <1>4, <1>10
  <2> QED BY <1>0, <1>2, <1>10, <2>1 DEF UtilType
<1>12. UtilStrip'
  <2>1. \A k \in 1 .. w' : out'[k] = <<"char", input'[k]>> BY <1>4, <1>7, <1>10
  <2>2. cap' = Len(input') + 1 /\ w' <= Len(input') BY <1>3, <1>4
  <2>3. \A k \in w' + 1 .. Len(input') : FALSE BY <1>3, <1>4
  <2> QED BY <1>0, <2>1, <2>2, <2>3 DEF UtilStrip
<1> QED BY <1>0, <1>11, <1>12 DEF UtilInv, UtilUrl, UtilB64

LEMMA StripTurn == UtilInv /\ Util!RstripStep => UtilInv'
<1> SUFFICES ASSUME UtilInv, Util!RstripStep PROVE UtilInv' OBVIOUS
<1>0. fn = "rstrip" /\ fn' = fn /\ input' = input /\ cap' = cap /\ ret = <<>> /\ p' = p
  BY DEF Util!RstripStep, Util!Running, Util!argument
<1>1. /\ input \in Seq(Byte) /\ cap \in Nat /\ w \in Nat /\ outside = FALSE
      /\ out \in Seq(Symbols) /\ Len(out) = cap
  BY DEF UtilInv, UtilType
<1>2. PICK L \in Nat : L = Len(input) BY <1>1
<1>3. /\ cap = L + 1 /\ w <= L
      /\ \A k \in 1 .. w : out[k] = <<"char", input[k]>>
      /\ \A k \in w + 1 .. L : out[k] = Util!Nul /\ input[k] \in Util!White
  BY <1>0, <1>2 DEF UtilInv, UtilStrip
<1>4. IF w > 0 /\ out[w][2] \in Util!White
      THEN Util!Store(w - 1, <<Util!Nul>>) /\ w' = w - 1 /\ ret' = ret
      ELSE ret' = <<w>> /\ out' = out /\ outside' = outside /\ w' = w
  BY DEF Util!RstripStep, Util!Return
<1>5. w > 0 => out[w][2] = input[w]
  <2> SUFFICES ASSUME w > 0 PROVE out[w][2] = input[w] OBVIOUS
  <2>1. w \in 1 .. w BY <1>1
  <2>2. out[w] = <<"char", input[w]>> BY <1>3, <2>1
  <2> QED BY <2>2
<1>6. CASE w > 0 /\ out[w][2] \in Util!White
  <2>1. Util!Store(w - 1, <<Util!Nul>>) /\ w' = w - 1 /\ ret' = <<>> BY <1>0, <1>4, <1>6
  <2>2. w - 1 \in Nat /\ w - 1 < Len(out) /\ (w - 1) + 1 = w BY <1>1, <1>3, <1>6
  <2>3. /\ out' \in Seq(Symbols) /\ Len(out') = Len(out) /\ outside' = FALSE
        /\ out'[(w - 1) + 1] = Util!Nul
        /\ \A k \in 1 .. Len(out) : k # (w - 1) + 1 => out'[k] = out[k]
    BY <1>1, <2>1, <2>2, NulSymbol, StoredOne
  <2>4. UtilType' BY <1>0, <1>1, <2>1, <2>2, <2>3 DEF UtilType
  <2>5. \A k \in 1 .. w - 1 : out'[k] = <<"char", input[k]>>
    <3> TAKE k \in 1 .. w - 1
    <3>1. k \in 1 .. Len(out) /\ k # (w - 1) + 1 /\ k \in 1 .. w BY <1>1, <1>3
    <3> QED BY <1>3, <2>3, <3>1
  <2>6. \A k \in (w - 1) + 1 .. L : out'[k] = Util!Nul /\ input[k] \in Util!White
    <3> TAKE k \in (w - 1) + 1 .. L
    <3>1. CASE k = w BY <1>5, <1>6, <2>2, <2>3, <3>1
    <3>2. CASE k # w
      <4>1. k \in 1 .. Len(out) /\ k # (w - 1) + 1 /\ k \in w + 1 .. L BY <1>1, <1>3, <3>2
      <4> QED BY <1>3, <2>3, <4>1
    <3> QED BY <3>1, <3>2
  <2>7. UtilStrip'
    <3>1. w' <= Len(input') /\ cap' = Len(input') + 1 BY <1>0, <1>1, <1>2, <1>3, <2>1
    <3> QED BY <1>0, <1>2, <2>1, <2>5, <2>6, <3>1 DEF UtilStrip
  <2> QED BY <1>0, <2>4, <2>7 DEF UtilInv, UtilUrl, UtilB64
<1>7. CASE ~(w > 0 /\ out[w][2] \in Util!White)
  <2>1. ret' = <<w>> /\ out' = out /\ outside' = outside /\ w' = w BY <1>4, <1>7
  <2>2. UtilType' BY <1>0, <1>1, <2>1 DEF UtilType
  <2>3. UtilStrip' BY <1>0, <1>2, <1>3, <1>5, <1>7, <2>1 DEF UtilStrip
  <2> QED BY <1>0, <2>2, <2>3 DEF UtilInv, UtilUrl, UtilB64
<1> QED BY <1>6, <1>7

\* The six bits at place j of the four characters for the bytes behind g, and
\* the character they are written as.
ByteAt(s, m) == IF m <= Len(s) THEN s[m] ELSE 0
Sextet(s, g, j) ==
    CASE j = 0 -> ByteAt(s, g + 1) \div 4
      [] j = 1 -> (ByteAt(s, g + 1) % 4) * 16 + ByteAt(s, g + 2) \div 16
      [] j = 2 -> (ByteAt(s, g + 2) % 16) * 4 + ByteAt(s, g + 3) \div 64
      [] j = 3 -> ByteAt(s, g + 3) % 64
Char64(v) == IF v = 62 THEN <<"+", v>> ELSE IF v = 63 THEN <<"/", v>> ELSE <<"alnum", v>>
Written(s, g, j) ==
    IF j >= 2 /\ g + j > Len(s) THEN <<"=", 0>> ELSE Char64(Sextet(s, g, j))

LEMMA ByteAtIs ==
    ASSUME NEW s \in Seq(Byte), NEW m \in Nat \ {0}
    PROVE  ByteAt(s, m) \in Byte
<1>1. CASE m <= Len(s)
  <2>1. m \in 1 .. Len(s) BY <1>1
  <2>2. s[m] \in Byte BY <2>1
  <2> QED BY <1>1, <2>2 DEF ByteAt
<1>2. CASE ~(m <= Len(s)) BY <1>2 DEF ByteAt, Byte
<1> QED BY <1>1, <1>2

LEMMA SextetIs ==
    ASSUME NEW s \in Seq(Byte), NEW g \in Nat, NEW j \in 0 .. 3
    PROVE  Sextet(s, g, j) \in Nat
<1>1. g + 1 \in Nat \ {0} /\ g + 2 \in Nat \ {0} /\ g + 3 \in Nat \ {0} OBVIOUS
<1>2. PICK a \in Byte : a = ByteAt(s, g + 1) BY <1>1, ByteAtIs
<1>3. PICK b \in Byte : b = ByteAt(s, g + 2) BY <1>1, ByteAtIs
<1>4. PICK c \in Byte : c = ByteAt(s, g + 3) BY <1>1, ByteAtIs
<1>5. a \in Nat /\ b \in Nat /\ c \in Nat BY DEF Byte
<1>6. /\ a \div 4 \in Nat /\ (a % 4) * 16 + b \div 16 \in Nat
      /\ (b % 16) * 4 + c \div 64 \in Nat /\ c % 64 \in Nat
  BY <1>5
<1>7. j = 0 \/ j = 1 \/ j = 2 \/ j = 3 OBVIOUS
<1> QED BY <1>2, <1>3, <1>4, <1>6, <1>7 DEF Sextet

LEMMA Base64Is ==
    ASSUME NEW s, NEW q \in Nat, NEW j \in 0 .. 3
    PROVE  Util!Base64(s, 4 * q + j + 1) = Written(s, 3 * q, j)
<1>1. PICK k \in Nat : k = 4 * q + j + 1 OBVIOUS
<1>2. 3 * ((k - 1) \div 4) = 3 * q /\ (k - 1) % 4 = j BY <1>1
<1>3. Util!Base64(s, k) = Written(s, 3 * ((k - 1) \div 4), (k - 1) % 4)
  BY Zenon DEF Util!Base64, Written, Char64, Sextet, ByteAt
<1> QED BY <1>1, <1>2, <1>3

\* Padding is what lies behind the characters the bytes fill.
LEMMA Padding ==
    ASSUME NEW L \in Nat, NEW q \in Nat, NEW j \in 0 .. 3,
           4 * q + j + 1 <= Util!EncodedLength(L)
    PROVE  (j >= 2 /\ 3 * q + j > L) <=> 4 * q + j + 1 > Unpadded(L)
<1>1. PICK a \in Nat, r \in 0 .. 2 : L = 3 * a + r
  <2>1. L \div 3 \in Nat /\ L % 3 \in 0 .. 2 /\ L = 3 * (L \div 3) + (L % 3) OBVIOUS
  <2> QED BY <2>1
<1>2. Util!EncodedLength(L) = 4 * (IF r = 0 THEN a ELSE a + 1)
  <2>1. (L + 2) \div 3 = IF r = 0 THEN a ELSE a + 1 BY <1>1
  <2> QED BY <2>1 DEF Util!EncodedLength
<1>3. Unpadded(L) = IF r = 0 THEN 4 * a ELSE 4 * a + r + 1 BY <1>1 DEF Unpadded
<1>4. CASE r = 0 BY <1>1, <1>2, <1>3, <1>4
<1>5. CASE r = 1 BY <1>1, <1>2, <1>3, <1>5
<1>6. CASE r = 2 BY <1>1, <1>2, <1>3, <1>6
<1> QED BY <1>4, <1>5, <1>6

LEMMA Lengths ==
    ASSUME NEW L \in Nat
    PROVE  /\ Unpadded(L) \in Nat /\ Util!EncodedLength(L) \in Nat
           /\ Unpadded(L) <= Util!EncodedLength(L)
BY DEF Unpadded, Util!EncodedLength

LEMMA Pairs == \A x, y : <<x, y>>[1] = x /\ <<x, y>>[2] = y
OBVIOUS

\* A character OpenSSL writes, and what is kept of it.
LEMMA Characters ==
    ASSUME NEW s \in Seq(Byte), NEW k \in 1 .. Util!EncodedLength(Len(s))
    PROVE  /\ Util!Base64(s, k) \in Symbols /\ Kept(Util!Base64(s, k)) \in Symbols
           /\ Util!Base64(s, k)[1] = "=" <=> k > Unpadded(Len(s))
           /\ k <= Unpadded(Len(s)) =>
                 Kept(Util!Base64(s, k))[1] \in {"alnum", "-", "_"}
<1>1. PICK L \in Nat : L = Len(s) OBVIOUS
<1>2. PICK n \in Nat : n = Util!EncodedLength(L) BY Lengths
<1>3. k \in 1 .. n BY <1>1, <1>2
<1>4. PICK q \in Nat, j \in 0 .. 3 : k = 4 * q + j + 1
  <2>1. /\ (k - 1) \div 4 \in Nat /\ (k - 1) % 4 \in 0 .. 3
        /\ k = 4 * ((k - 1) \div 4) + ((k - 1) % 4) + 1
    BY <1>3
  <2> QED BY <2>1
<1>5. PICK v \in Nat : v = Sextet(s, 3 * q, j)
  <2>1. 3 * q \in Nat OBVIOUS
  <2> QED BY <2>1, SextetIs
<1> DEFINE c == Util!Base64(s, k)
<1>6. c = IF j >= 2 /\ 3 * q + j > L THEN <<"=", 0>> ELSE Char64(v)
  <2>1. c = Written(s, 3 * q, j) BY <1>4, Base64Is
  <2> QED BY <1>1, <1>5, <2>1 DEF Written
<1>7. (j >= 2 /\ 3 * q + j > L) <=> k > Unpadded(L) BY <1>2, <1>3, <1>4, Padding
<1>8. 0 \in Nat /\ 62 \in Nat /\ 63 \in Nat OBVIOUS
<1>9. <<"=", 0>> \in Symbols /\ <<"+", v>> \in Symbols /\ <<"/", v>> \in Symbols
      /\ <<"alnum", v>> \in Symbols /\ <<"-", 62>> \in Symbols /\ <<"_", 63>> \in Symbols
  BY <1>5, <1>8, Zenon DEF Symbols
<1>10. Unpadded(L) \in Nat BY Lengths
<1> HIDE DEF c
<1>11. \/ c = <<"=", 0>> /\ k > Unpadded(L)
       \/ ~(k > Unpadded(L)) /\ c = <<"+", v>>
       \/ ~(k > Unpadded(L)) /\ c = <<"/", v>>
       \/ ~(k > Unpadded(L)) /\ c = <<"alnum", v>>
  BY <1>6, <1>7 DEF Char64
<1>12. ~(k <= Unpadded(L)) \/ ~(k > Unpadded(L)) BY <1>3, <1>10
<1>13. SUFFICES /\ c \in Symbols /\ Kept(c) \in Symbols
                /\ c[1] = "=" <=> k > Unpadded(L)
                /\ k <= Unpadded(L) => Kept(c)[1] \in {"alnum", "-", "_"}
  BY <1>1 DEF c
<1>14. CASE c = <<"=", 0>> /\ k > Unpadded(L)
  <2>1. c[1] = "=" BY <1>14
  <2>2. Kept(c) = c BY <2>1 DEF Kept
  <2> QED BY <1>9, <1>12, <1>14, <2>1, <2>2
<1>15. CASE ~(k > Unpadded(L)) /\ c = <<"+", v>>
  <2>1. c[1] = "+" BY <1>15
  <2>2. Kept(c) = <<"-", 62>> BY <2>1 DEF Kept
  <2>3. Kept(c)[1] = "-" BY <2>2
  <2> QED BY <1>9, <1>15, <2>1, <2>2, <2>3
<1>16. CASE ~(k > Unpadded(L)) /\ c = <<"/", v>>
  <2>1. c[1] = "/" BY <1>16
  <2>2. Kept(c) = <<"_", 63>> BY <2>1 DEF Kept
  <2>3. Kept(c)[1] = "_" BY <2>2, Pairs, Zenon
  <2> QED BY <1>9, <1>16, <2>1, <2>2, <2>3
<1>17. CASE ~(k > Unpadded(L)) /\ c = <<"alnum", v>>
  <2>1. c[1] = "alnum" BY <1>17
  <2>2. Kept(c) = c BY <2>1 DEF Kept
  <2> QED BY <1>9, <1>17, <2>1, <2>2
<1> QED BY <1>11, <1>14, <1>15, <1>16, <1>17

LEMMA KeptValue ==
    ASSUME NEW s \in Seq(Byte), NEW q \in Nat, NEW j \in 0 .. 3,
           4 * q + j + 1 <= Unpadded(Len(s))
    PROVE  Kept(Util!Base64(s, 4 * q + j + 1))[2] = Sextet(s, 3 * q, j)
<1>1. PICK L \in Nat : L = Len(s) OBVIOUS
<1>2. 4 * q + j + 1 <= Util!EncodedLength(L) BY <1>1, Lengths
<1>3. ~(j >= 2 /\ 3 * q + j > L)
  <2>1. ~(4 * q + j + 1 > Unpadded(L)) BY <1>1, Lengths
  <2> QED BY <1>2, <2>1, Padding
<1>4. PICK v \in Nat : v = Sextet(s, 3 * q, j)
  <2>1. 3 * q \in Nat OBVIOUS
  <2> QED BY <2>1, SextetIs
<1>5. PICK c : c = Util!Base64(s, 4 * q + j + 1) OBVIOUS
<1>6. c = IF v = 62 THEN <<"+", v>> ELSE IF v = 63 THEN <<"/", v>> ELSE <<"alnum", v>>
  <2>1. c = Written(s, 3 * q, j) BY <1>5, Base64Is
  <2>2. c = Char64(v) BY <1>1, <1>3, <1>4, <2>1 DEF Written
  <2> QED BY <2>2 DEF Char64
<1>7. CASE v = 62
  <2>1. c[1] = "+" BY <1>6, <1>7
  <2>2. Kept(c) = <<"-", 62>> BY <2>1 DEF Kept
  <2> QED BY <1>4, <1>5, <1>7, <2>2
<1>8. CASE v = 63
  <2>1. c[1] = "/" BY <1>6, <1>8
  <2>2. Kept(c) = <<"_", 63>> BY <2>1 DEF Kept
  <2>3. Kept(c)[2] = 63
    <3>1. \A t, x, y : t = <<x, y>> => t[2] = y BY Pairs
    <3> QED BY <2>2, <3>1, Zenon
  <2> QED BY <1>4, <1>5, <1>8, <2>3
<1>9. CASE v # 62 /\ v # 63
  <2>1. c[1] = "alnum" /\ c[2] = v BY <1>6, <1>9
  <2>2. Kept(c) = c BY <2>1 DEF Kept
  <2> QED BY <1>4, <1>5, <2>1, <2>2
<1> QED BY <1>7, <1>8, <1>9

LEMMA B64Call == UtilInv /\ Util!CallB64urlEncode => UtilInv'
<1> SUFFICES ASSUME UtilInv, Util!CallB64urlEncode PROVE UtilInv' OBVIOUS
<1>0. fn' = "b64url_encode" /\ p' = 1 /\ w' = 0 /\ ret = <<>> /\ outside = FALSE
  BY DEF Util!CallB64urlEncode, UtilInv, UtilType
<1>1. input' \in Util!Strings(RawBytes, MaxRaw) /\ cap' \in 0 .. MaxCap
  BY DEF Util!CallB64urlEncode
<1>2. input' \in Seq(Byte) BY <1>1, CodecAssumption, GivenBytes DEF Byte
<1>3. cap' \in Nat BY <1>1, CodecAssumption
<1>4. PICK L \in Nat : L = Len(input') BY <1>2
<1>5. PICK n \in Nat : n = Util!EncodedLength(L) BY Lengths
<1>6. IF n + 1 > cap' THEN Util!Refuse
      ELSE \/ Util!EncodeBlock /\ ret' = ret
           \/ Util!Refuse /\ evp' = "error"
  BY <1>4, <1>5 DEF Util!CallB64urlEncode
<1>7. ASSUME Util!Refuse, n + 1 > cap' \/ evp' = "error" PROVE UtilInv'
  <2>1. out' = [k \in 1 .. cap' |-> Util!Junk] /\ ret' = <<-1>> /\ outside' = FALSE
    BY <1>0, <1>7 DEF Util!Refuse, Util!Return
  <2>2. out' \in Seq(Symbols) /\ Len(out') = cap' BY <1>3, <2>1, NulSymbol
  <2>3. w' \in Nat BY <1>0
  <2>4. UtilType' BY <1>0, <1>2, <1>3, <2>1, <2>2, <2>3 DEF UtilType
  <2>5. UtilB64' BY <1>4, <1>5, <1>7, <2>1 DEF UtilB64
  <2> QED BY <1>0, <2>4, <2>5 DEF UtilInv, UtilUrl, UtilStrip
<1>8. CASE ~(n + 1 > cap') /\ Util!EncodeBlock /\ ret' = ret
  <2>1. /\ out' = [k \in 1 .. cap' |-> IF k <= n THEN Util!Base64(input', k)
                                      ELSE IF k = n + 1 THEN Util!Nul ELSE Util!Junk]
        /\ outside' = (n + 1 > cap') /\ ret' = <<>>
    BY <1>0, <1>4, <1>5, <1>8 DEF Util!EncodeBlock
  <2>2. \A k \in 1 .. n : Util!Base64(input', k) \in Symbols
    BY <1>2, <1>4, <1>5, Characters
  <2>3. out' \in Seq(Symbols) /\ Len(out') = cap'
    <3>1. \A k \in 1 .. cap' : k <= n => k \in 1 .. n BY <1>3, <1>5
    <3>2. out' \in [1 .. cap' -> Symbols] BY <2>1, <2>2, <3>1, NulSymbol
    <3> QED BY <1>3, <3>2
  <2>4. outside' = FALSE
    <3>1. outside' = (n + 1 > cap') BY <2>1, Zenon
    <3>2. (n + 1 > cap') = FALSE BY <1>8
    <3> QED BY <3>1, <3>2, Zenon
  <2>5. w' \in Nat BY <1>0
  <2>6. UtilType' BY <1>0, <1>2, <1>3, <2>1, <2>3, <2>4, <2>5 DEF UtilType
  <2>7. \A k \in 1 .. n : out'[k] = Util!Base64(input', k)
    <3> TAKE k \in 1 .. n
    <3>1. k \in 1 .. cap' /\ k <= n BY <1>3, <1>5, <1>8
    <3> QED BY <2>1, <3>1
  <2>8. UtilB64'
    <3>1. n + 1 <= cap' /\ 1 \in 1 .. n + 1 /\ 0 = 1 - 1 /\ 0 <= 0 /\ \A k \in 1 .. 0 : FALSE
      BY <1>3, <1>5, <1>8
    <3>2. 0 <= Unpadded(L) BY Lengths
    <3>3. ret' # <<-1>> BY <2>1
    <3> QED BY <1>0, <1>4, <1>5, <2>1, <2>7, <3>1, <3>2, <3>3 DEF UtilB64
  <2> QED BY <1>0, <2>6, <2>8 DEF UtilInv, UtilUrl, UtilStrip
<1> QED BY <1>6, <1>7, <1>8

\* The state in the loop of b64url_encode.
LEMMA B64Running ==
    ASSUME UtilInv, fn = "b64url_encode", ret = <<>>, NEW L \in Nat, L = Len(input),
           NEW n, n = Util!EncodedLength(L)
    PROVE  /\ n \in Nat /\ n + 1 <= cap /\ p \in 1 .. n + 1
           /\ w <= Unpadded(L) /\ w <= p - 1
           /\ w = Unpadded(L) \/ w = p - 1
           /\ \A k \in p .. n : out[k] = Util!Base64(input, k)
           /\ \A k \in 1 .. w : out[k] = Kept(Util!Base64(input, k))
           /\ Unpadded(L) \in Nat /\ Unpadded(L) <= n
<1>1. ret # <<-1>> OBVIOUS
<1>2. n \in Nat /\ Unpadded(L) \in Nat /\ Unpadded(L) <= n BY Lengths
<1> QED BY <1>1, <1>2 DEF UtilInv, UtilB64

LEMMA B64Turn == UtilInv /\ Util!B64urlStep => UtilInv'
<1> SUFFICES ASSUME UtilInv, Util!B64urlStep PROVE UtilInv' OBVIOUS
<1>0. /\ fn = "b64url_encode" /\ fn' = fn /\ input' = input /\ cap' = cap
      /\ ret = <<>> /\ ret' = ret /\ p' = p + 1
  BY DEF Util!B64urlStep, Util!Running, Util!argument
<1>1. /\ input \in Seq(Byte) /\ cap \in Nat /\ w \in Nat /\ outside = FALSE
      /\ out \in Seq(Symbols) /\ Len(out) = cap
  BY DEF UtilInv, UtilType
<1>2. PICK L \in Nat : L = Len(input) BY <1>1
<1>3. PICK n \in Nat : n = Util!EncodedLength(L) BY Lengths
<1>4. PICK U \in Nat : U = Unpadded(L) BY Lengths
<1>5. /\ n + 1 <= cap /\ p \in 1 .. n + 1
      /\ w <= U /\ w <= p - 1
      /\ w = U \/ w = p - 1
      /\ \A k \in p .. n : out[k] = Util!Base64(input, k)
      /\ \A k \in 1 .. w : out[k] = Kept(Util!Base64(input, k))
      /\ U <= n
  BY <1>0, <1>2, <1>3, <1>4, B64Running
<1>6. p <= n BY <1>2, <1>3 DEF Util!B64urlStep
<1>7. p \in 1 .. n /\ p \in p .. n BY <1>5, <1>6
<1>8. out[p] = Util!Base64(input, p) BY <1>5, <1>7
<1>9. /\ Kept(Util!Base64(input, p)) \in Symbols
      /\ Util!Base64(input, p)[1] = "=" <=> p > U
  BY <1>1, <1>2, <1>3, <1>4, <1>7, Characters
<1>10. IF out[p][1] = "=" THEN out' = out /\ outside' = outside /\ w' = w
       ELSE Util!Store(w, <<Kept(out[p])>>) /\ w' = w + 1
  BY Zenon DEF Util!B64urlStep, Kept
<1>11. ASSUME UtilType', w' <= U, w' <= p, w' = U \/ w' = p,
              \A k \in p + 1 .. n : out'[k] = Util!Base64(input, k),
              \A k \in 1 .. w' : out'[k] = Kept(Util!Base64(input, k))
       PROVE  UtilInv'
  <2>1. p' \in 1 .. n + 1 /\ p' - 1 = p BY <1>0, <1>7
  <2>2. ret' = <<>> /\ ret' # <<-1>> BY <1>0
  <2>3. UtilB64' BY <1>0, <1>2, <1>3, <1>4, <1>5, <1>11, <2>1, <2>2 DEF UtilB64
  <2> QED BY <1>0, <1>11, <2>3 DEF UtilInv, UtilUrl, UtilStrip
<1>12. CASE p > U
  <2>1. out' = out /\ outside' = outside /\ w' = w BY <1>8, <1>9, <1>10, <1>12
  <2>2. UtilType' BY <1>0, <1>1, <2>1 DEF UtilType
  <2>3. w = U BY <1>1, <1>4, <1>5, <1>12
  <2>4. w' <= U /\ w' <= p /\ w' = U BY <1>4, <1>7, <1>12, <2>1, <2>3
  <2>5. \A k \in p + 1 .. n : out'[k] = Util!Base64(input, k)
    <3> TAKE k \in p + 1 .. n
    <3>1. k \in p .. n BY <1>7
    <3> QED BY <1>5, <2>1, <3>1
  <2> QED BY <1>5, <1>11, <2>1, <2>2, <2>4, <2>5
<1>13. CASE ~(p > U)
  <2>1. Util!Store(w, <<Kept(out[p])>>) /\ w' = w + 1 BY <1>8, <1>9, <1>10, <1>13
  <2>2. w = p - 1 /\ w + 1 = p BY <1>1, <1>4, <1>5, <1>7, <1>13
  <2>3. PICK c \in Symbols : c = Kept(out[p]) BY <1>8, <1>9
  <2>4. w < Len(out) BY <1>1, <1>3, <1>5, <1>7, <2>2
  <2>5. /\ out' \in Seq(Symbols) /\ Len(out') = Len(out) /\ outside' = FALSE
        /\ out'[w + 1] = c
        /\ \A k \in 1 .. Len(out) : k # w + 1 => out'[k] = out[k]
    BY <1>1, <2>1, <2>3, <2>4, StoredOne
  <2>6. w' = p /\ w' \in Nat /\ w' <= U /\ w' <= p BY <1>4, <1>7, <1>13, <2>1, <2>2
  <2>7. UtilType' BY <1>0, <1>1, <2>5, <2>6 DEF UtilType
  <2>8. \A k \in p + 1 .. n : out'[k] = Util!Base64(input, k)
    <3> TAKE k \in p + 1 .. n
    <3>1. k \in p .. n /\ k \in 1 .. Len(out) /\ k # w + 1 BY <1>1, <1>3, <1>5, <1>7, <2>2
    <3> QED BY <1>5, <2>5, <3>1
  <2>9. \A k \in 1 .. w' : out'[k] = Kept(Util!Base64(input, k))
    <3> TAKE k \in 1 .. w'
    <3>1. CASE k = p BY <1>8, <2>2, <2>3, <2>5, <3>1
    <3>2. CASE k # p
      <4>1. k \in 1 .. w /\ k \in 1 .. Len(out) /\ k # w + 1
        BY <1>1, <1>7, <2>2, <2>4, <2>6, <3>2
      <4> QED BY <1>5, <2>5, <4>1
    <3> QED BY <3>1, <3>2
  <2> QED BY <1>11, <2>6, <2>7, <2>8, <2>9
<1> QED BY <1>12, <1>13

LEMMA B64Return == UtilInv /\ Util!B64urlEnd => UtilInv'
<1> SUFFICES ASSUME UtilInv, Util!B64urlEnd PROVE UtilInv' OBVIOUS
<1>0. /\ fn = "b64url_encode" /\ fn' = fn /\ input' = input /\ cap' = cap
      /\ ret = <<>> /\ ret' = <<w>> /\ p' = p /\ w' = w
      /\ Util!Store(w, <<Util!Nul>>)
  BY DEF Util!B64urlEnd, Util!Running, Util!argument, Util!Return
<1>1. /\ input \in Seq(Byte) /\ cap \in Nat /\ w \in Nat /\ outside = FALSE
      /\ out \in Seq(Symbols) /\ Len(out) = cap
  BY DEF UtilInv, UtilType
<1>2. PICK L \in Nat : L = Len(input) BY <1>1
<1>3. PICK n \in Nat : n = Util!EncodedLength(L) BY Lengths
<1>4. PICK U \in Nat : U = Unpadded(L) BY Lengths
<1>5. /\ n + 1 <= cap /\ p \in 1 .. n + 1
      /\ w <= U /\ w <= p - 1
      /\ w = U \/ w = p - 1
      /\ \A k \in 1 .. w : out[k] = Kept(Util!Base64(input, k))
      /\ U <= n
  BY <1>0, <1>2, <1>3, <1>4, B64Running
<1>6. p > n BY <1>2, <1>3 DEF Util!B64urlEnd
<1>7. p = n + 1 /\ w < Len(out) BY <1>1, <1>4, <1>5, <1>6
<1>8. /\ out' \in Seq(Symbols) /\ Len(out') = Len(out) /\ outside' = FALSE
      /\ out'[w + 1] = Util!Nul
      /\ \A k \in 1 .. Len(out) : k # w + 1 => out'[k] = out[k]
  BY <1>0, <1>1, <1>7, NulSymbol, StoredOne
<1>9. UtilType' BY <1>0, <1>1, <1>8 DEF UtilType
<1>10. \A k \in 1 .. w : out'[k] = Kept(Util!Base64(input, k))
  <2> TAKE k \in 1 .. w
  <2>1. k \in 1 .. Len(out) /\ k # w + 1 BY <1>1, <1>7
  <2> QED BY <1>5, <1>8, <2>1
<1>11. \A k \in p .. n : FALSE BY <1>7
<1>12. ret' # <<-1>> BY <1>0, <1>1
<1>13. UtilB64'
  BY <1>0, <1>2, <1>3, <1>4, <1>5, <1>7, <1>8, <1>10, <1>11, <1>12 DEF UtilB64
<1> QED BY <1>0, <1>9, <1>13 DEF UtilInv, UtilUrl, UtilStrip

LEMMA UtilNext == UtilInv /\ (Util!Next \/ UNCHANGED utilVars) => UtilInv'
<1> SUFFICES ASSUME UtilInv, Util!Next \/ UNCHANGED utilVars PROVE UtilInv' OBVIOUS
<1>1. CASE UNCHANGED utilVars
  BY <1>1 DEF utilVars, UtilInv, UtilType, UtilUrl, UtilB64, UtilStrip
<1> QED BY <1>1, UrlCall, UrlTurn, UrlReturn, B64Call, B64Turn, B64Return, StripCall,
           StripTurn DEF Util!Next

\* The bytes put together again from their sextets.
LEMMA Recombined ==
    ASSUME NEW a \in Byte, NEW b \in Byte, NEW c \in Byte
    PROVE  /\ (a \div 4) * 4 + ((a % 4) * 16 + b \div 16) \div 16 = a
           /\ (((a % 4) * 16 + b \div 16) % 16) * 16 + ((b % 16) * 4 + c \div 64) \div 4 = b
           /\ (((b % 16) * 4 + c \div 64) % 4) * 64 + (c % 64) = c
<1>0. a \in 0 .. 255 /\ b \in 0 .. 255 /\ c \in 0 .. 255 BY DEF Byte
<1>1. (a \div 4) * 4 + ((a % 4) * 16 + b \div 16) \div 16 = a BY <1>0
<1>2. (((a % 4) * 16 + b \div 16) % 16) * 16 + ((b % 16) * 4 + c \div 64) \div 4 = b
  BY <1>0
<1>3. (((b % 16) * 4 + c \div 64) % 4) * 64 + (c % 64) = c
  <2>1. PICK x \in Nat : x = b % 16 BY <1>0
  <2>2. PICK y \in 0 .. 3 : y = c \div 64 BY <1>0
  <2>3. (x * 4 + y) % 4 = y OBVIOUS
  <2>4. y * 64 + (c % 64) = c BY <1>0, <2>2
  <2> QED BY <2>1, <2>2, <2>3, <2>4
<1> QED BY <1>1, <1>2, <1>3

\* What b64url_encode returns is read as its input.
LEMMA B64ReadBack ==
    ASSUME NEW L \in Nat, input \in Seq(Byte), L = Len(input),
           \A k \in 1 .. Unpadded(L) : out[k] = Kept(Util!Base64(input, k)),
           NEW m \in 1 .. L
    PROVE  Util!B64urlDecoded(m) = input[m]
<1>1. PICK q \in Nat, r \in 1 .. 3 : m = 3 * q + r
  <2>1. /\ (m - 1) \div 3 \in Nat /\ ((m - 1) % 3) + 1 \in 1 .. 3
        /\ m = 3 * ((m - 1) \div 3) + (((m - 1) % 3) + 1)
    OBVIOUS
  <2> QED BY <2>1
<1>2. (m - 1) \div 3 = q /\ m % 3 = r % 3 BY <1>1
<1>3. 4 * q + r + 1 <= Unpadded(L) BY <1>1 DEF Unpadded
<1>4. ASSUME NEW j \in 0 .. r, j <= 3 PROVE out[4 * q + j + 1][2] = Sextet(input, 3 * q, j)
  <2>1. j \in 0 .. 3 /\ 4 * q + j + 1 <= Unpadded(L) /\ 4 * q + j + 1 \in 1 .. Unpadded(L)
    <3>1. PICK U \in Nat : U = Unpadded(L) BY Lengths
    <3> QED BY <1>3, <1>4, <3>1
  <2>2. out[4 * q + j + 1] = Kept(Util!Base64(input, 4 * q + j + 1)) BY <2>1
  <2> QED BY <2>1, <2>2, KeptValue
<1> DEFINE a == ByteAt(input, 3 * q + 1)
           b == ByteAt(input, 3 * q + 2)
           c == ByteAt(input, 3 * q + 3)
<1>5. a \in Byte /\ b \in Byte /\ c \in Byte
  <2>1. 3 * q + 1 \in Nat \ {0} /\ 3 * q + 2 \in Nat \ {0} /\ 3 * q + 3 \in Nat \ {0}
    OBVIOUS
  <2> QED BY <2>1, ByteAtIs
<1>6. input[m] = ByteAt(input, 3 * q + r) BY <1>1 DEF ByteAt
<1>7. /\ Sextet(input, 3 * q, 0) = a \div 4
      /\ Sextet(input, 3 * q, 1) = (a % 4) * 16 + b \div 16
      /\ Sextet(input, 3 * q, 2) = (b % 16) * 4 + c \div 64
      /\ Sextet(input, 3 * q, 3) = c % 64
  BY DEF Sextet
<1> HIDE DEF a, b, c
<1> DEFINE v(j) == out[4 * q + j][2]
<1>8. Util!B64urlDecoded(m) =
        CASE m % 3 = 1 -> v(1) * 4 + v(2) \div 16
          [] m % 3 = 2 -> (v(2) % 16) * 16 + v(3) \div 4
          [] m % 3 = 0 -> (v(3) % 4) * 64 + v(4)
  BY <1>2 DEF Util!B64urlDecoded
<1>9. /\ r >= 1 => v(1) = a \div 4 /\ v(2) = (a % 4) * 16 + b \div 16
      /\ r >= 2 => v(3) = (b % 16) * 4 + c \div 64
      /\ r >= 3 => v(4) = c % 64
  <2>1. v(1) = a \div 4
    <3>1. 0 \in 0 .. r /\ 0 <= 3 /\ 4 * q + 0 + 1 = 4 * q + 1 OBVIOUS
    <3> QED BY <1>4, <1>7, <3>1
  <2>2. v(2) = (a % 4) * 16 + b \div 16
    <3>1. 1 \in 0 .. r /\ 1 <= 3 /\ 4 * q + 1 + 1 = 4 * q + 2 OBVIOUS
    <3> QED BY <1>4, <1>7, <3>1
  <2>3. ASSUME r >= 2 PROVE v(3) = (b % 16) * 4 + c \div 64
    <3>1. 2 \in 0 .. r /\ 2 <= 3 /\ 4 * q + 2 + 1 = 4 * q + 3 BY <2>3
    <3> QED BY <1>4, <1>7, <3>1
  <2>4. ASSUME r >= 3 PROVE v(4) = c % 64
    <3>1. 3 \in 0 .. r /\ 3 <= 3 /\ 4 * q + 3 + 1 = 4 * q + 4 BY <2>4
    <3> QED BY <1>4, <1>7, <3>1
  <2> QED BY <2>1, <2>2, <2>3, <2>4
<1> HIDE DEF v
<1>10. /\ (a \div 4) * 4 + ((a % 4) * 16 + b \div 16) \div 16 = a
       /\ (((a % 4) * 16 + b \div 16) % 16) * 16 + ((b % 16) * 4 + c \div 64) \div 4 = b
       /\ (((b % 16) * 4 + c \div 64) % 4) * 64 + (c % 64) = c
  BY <1>5, Recombined
<1>11. CASE r = 1
  <2>1. m % 3 = 1 BY <1>2, <1>11
  <2>2. Util!B64urlDecoded(m) = v(1) * 4 + v(2) \div 16 BY <1>8, <2>1
  <2>3. v(1) = a \div 4 /\ v(2) = (a % 4) * 16 + b \div 16 BY <1>9, <1>11
  <2> QED BY <1>6, <1>10, <1>11, <2>2, <2>3 DEF a
<1>12. CASE r = 2
  <2>1. m % 3 = 2 BY <1>2, <1>12
  <2>2. Util!B64urlDecoded(m) = (v(2) % 16) * 16 + v(3) \div 4 BY <1>8, <2>1
  <2>3. v(2) = (a % 4) * 16 + b \div 16 /\ v(3) = (b % 16) * 4 + c \div 64
    BY <1>9, <1>12
  <2> QED BY <1>6, <1>10, <1>12, <2>2, <2>3 DEF b
<1>13. CASE r = 3
  <2>1. m % 3 = 0 BY <1>2, <1>13
  <2>2. Util!B64urlDecoded(m) = (v(3) % 4) * 64 + v(4) BY <1>8, <2>1
  <2>3. v(3) = (b % 16) * 4 + c \div 64 /\ v(4) = c % 64 BY <1>9, <1>13
  <2> QED BY <1>6, <1>10, <1>13, <2>2, <2>3 DEF c
<1> QED BY <1>11, <1>12, <1>13

LEMMA UtilInvRight == UtilInv => EncodersRight
<1> SUFFICES ASSUME UtilInv PROVE Util!EncodersRight BY DEF EncodersRight
<1>1. /\ input \in Seq(Byte) /\ cap \in Nat /\ w \in Nat /\ outside = FALSE
      /\ fn \in {"idle", "url_encode", "b64url_encode", "rstrip"}
      /\ fn = "idle" => ret = <<>>
  BY DEF UtilInv, UtilType
<1>2. PICK L \in Nat : L = Len(input) BY <1>1
<1>3. ASSUME ret # <<>>, fn = "url_encode"
      PROVE  /\ ret[1] >= 0 => out[ret[1] + 1] = Util!Nul
             /\ ret[1] = -1 <=> Util!UrlPlaces(input)[Len(input)] + 1 > cap
             /\ ret[1] >= 0 => Util!UrlDecoding(out, ret[1])[1] = input
  <2>1. PICK u \in Nat : u = Util!UrlPlaces(input)[L]
    <3>1. Util!UrlPlaces(input) \in [0 .. L -> Nat] /\ L \in 0 .. L BY <1>1, <1>2, PlacesAre
    <3> QED BY <3>1
  <2>2. CASE ret = <<-1>> /\ u >= cap
    <3>1. ret[1] = -1 /\ ~(ret[1] >= 0) /\ u + 1 > cap BY <1>1, <2>1, <2>2
    <3> QED BY <1>2, <2>1, <3>1
  <2>3. CASE ret = <<w>> /\ w < cap /\ p = L + 1 /\ out[w + 1] = Util!Nul
    <3>1. ret[1] = w /\ ret[1] # -1 BY <1>1, <2>3
    <3>2. w = u
      <4>1. w = Util!UrlPlaces(input)[p - 1] /\ p - 1 = L
        BY <1>2, <1>3, <2>3 DEF UtilInv, UtilUrl
      <4> QED BY <2>1, <4>1
    <3>3. ~(u + 1 > cap) BY <1>1, <2>1, <2>3, <3>2
    <3>4. Util!UrlDecoding(out, w)[1] = input BY <1>1, <1>3, <2>3, UrlReadBack
    <3> QED BY <1>2, <2>1, <2>3, <3>1, <3>3, <3>4
  <2> QED BY <1>2, <1>3, <2>1, <2>2, <2>3 DEF UtilInv, UtilUrl
<1>4. ASSUME ret # <<>>, fn = "b64url_encode"
      PROVE  /\ ret[1] >= 0 => out[ret[1] + 1] = Util!Nul
             /\ Util!UnpaddedLength(Len(input)) + 1 > cap => ret[1] = -1
             /\ ret[1] = -1 => Util!EncodedLength(Len(input)) + 1 > cap \/ evp = "error"
             /\ ret[1] >= 0 =>
                      /\ ret[1] = Util!UnpaddedLength(Len(input))
                      /\ \A k \in 1 .. ret[1] : out[k][1] \in {"alnum", "-", "_"}
                      /\ \A m \in 1 .. Len(input) : Util!B64urlDecoded(m) = input[m]
  <2>1. PICK n \in Nat : n = Util!EncodedLength(L) BY Lengths
  <2>2. CASE ret = <<-1>>
    <3>1. ret[1] = -1 /\ ~(ret[1] >= 0) BY <2>2
    <3>2. Util!EncodedLength(Len(input)) + 1 > cap \/ evp = "error"
      BY <1>4, <2>2 DEF UtilInv, UtilB64
    <3> QED BY <3>1, <3>2
  <2>3. CASE ret # <<-1>>
    <3>1. PICK U \in Nat : U = Unpadded(L) BY Lengths
    <3>2. /\ n + 1 <= cap /\ ret = <<w>> /\ p = n + 1 /\ out[w + 1] = Util!Nul
          /\ w <= U /\ (w = U \/ w = p - 1)
          /\ \A k \in 1 .. w : out[k] = Kept(Util!Base64(input, k))
      BY <1>2, <1>4, <2>1, <2>3, <3>1 DEF UtilInv, UtilB64
    <3>3. U <= n BY <2>1, <3>1, Lengths
    <3>4. w = U BY <1>1, <2>1, <3>1, <3>2, <3>3
    <3>5. ret[1] = w /\ ret[1] # -1 BY <1>1, <3>2
    <3>6. ~(n + 1 > cap) BY <1>1, <2>1, <3>2
    <3>7. w = Util!UnpaddedLength(Len(input))
      BY <1>2, <3>1, <3>4 DEF Unpadded, Util!UnpaddedLength
    <3>8. \A k \in 1 .. w : out[k][1] \in {"alnum", "-", "_"}
      <4> TAKE k \in 1 .. w
      <4>1. k \in 1 .. n /\ k <= U BY <2>1, <3>1, <3>3, <3>4
      <4>2. k \in 1 .. Util!EncodedLength(Len(input)) /\ k <= Unpadded(Len(input))
        BY <1>2, <2>1, <3>1, <4>1
      <4>3. Kept(Util!Base64(input, k))[1] \in {"alnum", "-", "_"}
        BY <1>1, <4>2, Characters, Zenon
      <4> QED BY <3>2, <4>3, Zenon
    <3>9. \A m \in 1 .. L : Util!B64urlDecoded(m) = input[m]
      BY <1>1, <1>2, <3>1, <3>2, <3>4, B64ReadBack
    <3>10. ~(Util!UnpaddedLength(Len(input)) + 1 > cap)
      BY <1>1, <2>1, <3>1, <3>2, <3>3, <3>4, <3>7
    <3> QED BY <1>2, <3>2, <3>5, <3>7, <3>8, <3>9, <3>10, Zenon
  <2> QED BY <2>2, <2>3, Zenon
<1>5. ASSUME ret # <<>>, fn = "rstrip"
      PROVE  /\ \A k \in 1 .. Len(input) : k > w <=> out[k] = Util!Nul
             /\ \A k \in w + 1 .. Len(input) : input[k] \in Util!White
             /\ w > 0 => input[w] \notin {10, 13} /\ out[w] = <<"char", input[w]>>
  <2>1. /\ cap = L + 1 /\ w <= L
        /\ \A k \in 1 .. w : out[k] = <<"char", input[k]>>
        /\ \A k \in w + 1 .. L : out[k] = Util!Nul /\ input[k] \in Util!White
        /\ w > 0 => input[w] \notin Util!White
    BY <1>2, <1>5 DEF UtilInv, UtilStrip
  <2>4. 10 \in Util!White /\ 13 \in Util!White BY DEF Util!White
  <2>2. ASSUME NEW k \in 1 .. L PROVE k > w <=> out[k] = Util!Nul
    <3>1. CASE k > w
      <4>1. k \in w + 1 .. L BY <1>1, <3>1
      <4> QED BY <2>1, <3>1, <4>1
    <3>2. CASE ~(k > w)
      <4>1. k \in 1 .. w BY <1>1, <3>2
      <4>2. out[k] = <<"char", input[k]>> BY <2>1, <4>1
      <4>3. out[k] # Util!Nul BY <4>2 DEF Util!Nul
      <4> QED BY <3>2, <4>3
    <3> QED BY <3>1, <3>2
  <2>3. w > 0 => w \in 1 .. w BY <1>1
  <2> QED BY <1>2, <2>1, <2>2, <2>3, <2>4
<1>6. ~outside BY <1>1
<1>7. CASE ret = <<>> BY <1>6, <1>7, Zenon DEF Util!EncodersRight
<1>8. CASE ret # <<>>
  <2>1. fn = "url_encode" \/ fn = "b64url_encode" \/ fn = "rstrip" BY <1>1, <1>8
  <2>2. "url_encode" # "b64url_encode" /\ "url_encode" # "rstrip"
        /\ "b64url_encode" # "rstrip"
    OBVIOUS
  <2>3. CASE fn = "url_encode"
    BY <1>3, <1>6, <1>8, <2>2, <2>3, Zenon DEF Util!EncodersRight
  <2>4. CASE fn = "b64url_encode"
    BY <1>4, <1>6, <1>8, <2>2, <2>4, Zenon DEF Util!EncodersRight
  <2>5. CASE fn = "rstrip"
    BY <1>5, <1>6, <1>8, <2>2, <2>5, Zenon DEF Util!EncodersRight
  <2> QED BY <2>1, <2>3, <2>4, <2>5
<1> QED BY <1>7, <1>8

-----------------------------------------------------------------------------
(* The programs together.                                                  *)

IInv == CardInv /\ WavInv /\ SearchInv /\ FindInv /\ MailInv /\ UtilInv /\ ScanInv /\ SqlInv
        /\ RowsInv /\ Db!Inv

\* The inductive invariant of every program holds whichever of them runs: the
\* points each has reached determine what it holds, what it has written and
\* what it has read.
THEOREM Invariance == Spec => []IInv
<1>1. Init => IInv
  BY CardInit, WavInit, SearchInit, FindInit, MailInit, UtilInit, ScanInit, SqlInit,
     RowsInit, DbInit DEF IInv
<1>2. IInv /\ [Next]_vars => IInv'
  BY OneProgram, CardNext, WavNext, SearchNext, FindNext, MailNext, UtilNext, ScanNext,
     SqlNext, RowsNext, DbNext DEF IInv
<1> QED BY <1>1, <1>2, PTL DEF Spec

\* Every program that ends has released what it held: the SPI bus and the mount
\* (main.c:31), the database connection, the sound device, its buffer and file,
\* the search's URL, page, handle and descriptions, the mail connection.  What
\* is kept is what the code keeps: the search's parser, the descriptions lost
\* when memory ran out, the bus after an unmount that failed and was logged.
THEOREM Released == Spec => []ReleasedButParser
<1>1. IInv => ReleasedButParser
  <2> SUFFICES ASSUME IInv PROVE ReleasedButParser OBVIOUS
  <2>1. Card!BusFreed BY DEF IInv, CardInv, CardMounted, Card!BusFreed
  <2>2. Sql!ExitCloses BY DEF IInv, SqlInv, Sql!ExitCloses, Sql!Closed
  <2>3. Wav!AllReleased BY DEF IInv, WavInv, WavHeld, Wav!AllReleased
  <2>4. Search!OnlyParserKept
    BY DEF IInv, SearchInv, SearchHeld, Search!OnlyParserKept, Search!Held
  <2>5. Mail!AllReleased
    BY Numbers DEF IInv, MailInv, MailClosed, Mail!AllReleased, Mail!At
  <2> QED BY <2>1, <2>2, <2>3, <2>4, <2>5 DEF ReleasedButParser
<1> QED BY <1>1, Invariance, PTL

\* SdCard: a boot past its write that logged no error has both lines on the
\* card, whatever earlier boots left and wherever they were cut short.
THEOREM WritesReported == Spec => []NoSilentWriteFailure
<1>1. IInv => NoSilentWriteFailure
  BY DEF IInv, CardInv, CardLines, NoSilentWriteFailure, Card!NoSilentWriteFailure
<1> QED BY <1>1, Invariance, PTL

\* Recorder: a recording without a failed write leaves the header and its
\* periods and nothing else, for every length of the file that stood there,
\* every duration, rate and period.
THEOREM Fresh == Spec => []FileIsFresh
<1> QED BY WavInvFresh, Invariance, PTL DEF IInv

\* YtSearch: without a fault every matching link is listed once and in order,
\* for pages of any number of anchors and attributes in any order.
THEOREM Complete == Spec => []SearchComplete
<1> QED BY FindInvComplete, Invariance, PTL DEF IInv

\* Imap: the NOOP workaround reads the last FETCH to its end exactly when two
\* reads are enough, in however many pieces the answers come.
THEOREM LastBytes == Spec => []LastBytesRead
<1> QED BY MailInvRead, Invariance, PTL DEF IInv

\* Whatever bytes and whatever buffer the encoders of util.c are given, they
\* write nothing beyond it, refuse the buffers that are too small and otherwise
\* leave a string in it that is read as the bytes, b64url_encode at least where
\* the padded form has room and OpenSSL does not fail; rstrip leaves no newline
\* or carriage return at the end and cuts off nothing but white space.
THEOREM Encoders == Spec => []EncodersRight
<1> QED BY UtilInvRight, Invariance, PTL DEF IInv

\* NetScan: the list printed is final, holds only answers, and holds each once
\* unless two calls of Add overlapped, for every set of addresses.
THEOREM ScanIsTrue == Spec => []ScanTrue
<1> QED BY ScanInvTrue, Invariance, PTL DEF IInv

\* Sqlite: whatever file the last run left, killed or not, a run shows only its
\* own rows unless remove failed (main.c:138).
THEOREM Clean == Spec => []StartsClean
<1>1. IInv => StartsClean
  BY DEF IInv, RowsInv, SqlOwn, StartsClean, Sql!StartsClean
<1> QED BY <1>1, Invariance, PTL

\* Sqlite: the transaction puts the four users into the file together, at every
\* point at which a run may be killed (main.c:164).
THEOREM Atomic == Spec => []InsertsAtomic
<1>1. IInv => InsertsAtomic
  <2> SUFFICES ASSUME IInv, {"begin", "insert", "commit"} \cap sql_failed = {}, op <= 10
               PROVE  UsersIn(dbfile) \in {{}, {"Alice", "Bob", "Charlie", "Dave"}}
    BY DEF InsertsAtomic, Sql!InsertsAtomic, UsersIn, Users
  <2>1. op # 13 BY DEF IInv, RowsInv, SqlAt
  <2>2. UsersIn(dbfile) = {} \/ UsersIn(dbfile) = Inserted(4)
    BY <2>1 DEF IInv, RowsInv, SqlAt, SqlAtomic
  <2> QED BY <2>2, InsertedUsers
<1> QED BY <1>1, Invariance, PTL

\* Mysql: CREATE DATABASE is a lock: whoever is in the middle of its work owns
\* the database, for any number of concurrent runs, failing or killed (main.c:33).
THEOREM MutualExclusion == Spec => []Exclusive
<1>1. IInv => Exclusive BY DEF IInv, Db!Inv, Exclusive
<1> QED BY <1>1, Invariance, PTL

\* Mysql: query prints what create_table_and_insert of the same run inserted,
\* for any number of rows.
THEOREM Listing == Spec => []ListsOwnCars
<1>1. IInv => ListsOwnCars BY DEF IInv, Db!Inv, ListsOwnCars
<1> QED BY <1>1, Invariance, PTL

\* Mysql: exit(0) at the end of main means a full listing and no database left.
THEOREM Completion == Spec => []Db!SuccessIsComplete
<1>1. IInv => Db!SuccessIsComplete BY DEF IInv, Db!Inv
<1> QED BY <1>1, Invariance, PTL
=============================================================================
