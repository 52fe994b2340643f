------------------------------- MODULE Samples -------------------------------
(***************************************************************************)
(* The small programs of the repository side by side: `prog` names the one *)
(* that runs, the state of the others stays.                               *)
(***************************************************************************)
EXTENDS Integers, Sequences

CONSTANTS
    MaxBoots,                               \* SdCard
    Micros, Rates, FrameCounts, MaxOld,     \* Recorder
    Anchors, MaxAnchors,                    \* YtSearch
    MaxPieces,                              \* Imap
    UrlBytes, RawBytes, MaxUrl, MaxRaw, MaxCap,     \* Codec
    Hosts, Nothing,                         \* NetScan
    MaxRuns,                                \* Sqlite
    Runs, Cars, None                        \* Mysql

\* The device settles on a rate and on a period of at least one frame.
ASSUME RecorderAssumption ==
    /\ Micros \in Nat /\ Rates \subseteq Nat /\ FrameCounts \subseteq Nat \ {0}
    /\ MaxOld \in Nat

\* HTML gives an element an attribute once; of a repeated href the last one up
\* to the title would count.
ASSUME AnchorsAssumption ==
    /\ Anchors \subseteq Seq([key : STRING, value : STRING])
    /\ \A a \in Anchors : \A j, k \in DOMAIN a :
          a[j].key = "href" /\ a[k].key = "href" => j = k

\* The encoders are given bytes.
ASSUME CodecAssumption ==
    /\ UrlBytes \subseteq 0 .. 255 /\ RawBytes \subseteq 0 .. 255
    /\ {MaxUrl, MaxRaw, MaxCap} \subseteq Nat

ASSUME MysqlAssumption == Cars \in Nat \ {0} /\ None \notin Runs

ASSUME BoundsAssumption == {MaxBoots, MaxAnchors, MaxPieces, MaxRuns} \subseteq Nat \ {0}

VARIABLES
    prog,
    \* SdCard
    boot, card_pc, bus, s_card, vfs, fs, file, card_buffer, errors,
    \* Recorder
    rec_pc, header, f, handle, buffer, filedesc, rate, frames, periods, outwav,
    offset, failed, result,
    \* YtSearch
    yt_pc, url, curl, sent, page, parser, i, results, items, listed, faults,
    \* Imap
    step, asked, sw, ssl, tcpc, wire, backlog, parts, content, lost, saved,
    \* Codec
    fn, input, cap, out, p, w, ret, outside, evp,
    \* NetScan
    scan_main, ping, answered, result_list, seen, overlapped, printed,
    \* Sqlite
    run, sql_pc, op, exists, dbfile, db, stmt, shown, sql_failed, status,
    \* Mysql
    stage, con, done, cars_shown, exit_status, skipped, testdb, owner, table, rows

Card == INSTANCE SdCard WITH pc <- card_pc, buffer <- card_buffer
Wav == INSTANCE Recorder WITH pc <- rec_pc
Search == INSTANCE YtSearch WITH pc <- yt_pc
Mail == INSTANCE Imap
Util == INSTANCE Codec
Scan == INSTANCE NetScan WITH main <- scan_main, result <- result_list
Sql == INSTANCE Sqlite WITH pc <- sql_pc, file <- dbfile, failed <- sql_failed
Db == INSTANCE Mysql WITH shown <- cars_shown, status <- exit_status

cardVars == <<boot, card_pc, bus, s_card, vfs, fs, file, card_buffer, errors>>
wavVars == <<rec_pc, header, f, handle, buffer, filedesc, rate, frames, periods,
             outwav, offset, failed, result>>
searchVars == <<yt_pc, url, curl, sent, page, parser, i, results, items, listed,
                faults>>
mailVars == <<step, asked, sw, ssl, tcpc, wire, backlog, parts, content, lost, saved>>
utilVars == <<fn, input, cap, out, p, w, ret, outside, evp>>
scanVars == <<scan_main, ping, answered, result_list, seen, overlapped, printed>>
sqlVars == <<run, sql_pc, op, exists, dbfile, db, stmt, shown, sql_failed, status>>
dbVars == <<stage, con, done, cars_shown, exit_status, skipped, testdb, owner, table,
            rows>>
vars == <<prog, cardVars, wavVars, searchVars, mailVars, utilVars, scanVars,
          sqlVars, dbVars>>

Init ==
    /\ prog \in {"sdcard", "recorder", "ytsearch", "imap", "util", "netscan",
                "sqlite", "mysql"}
    /\ Card!Init /\ Wav!Init /\ Search!Init /\ Mail!Init /\ Util!Init /\ Scan!Init
    /\ Sql!Init /\ Db!Init
    /\ prog # "sdcard" => fs = "fat"
    /\ prog # "recorder" => outwav = <<>>

Next ==
    \/ /\ prog = "sdcard" /\ Card!Next
       /\ UNCHANGED <<prog, wavVars, searchVars, mailVars, utilVars, scanVars,
                      sqlVars, dbVars>>
    \/ /\ prog = "recorder" /\ Wav!Next
       /\ UNCHANGED <<prog, cardVars, searchVars, mailVars, utilVars, scanVars,
                      sqlVars, dbVars>>
    \/ /\ prog = "ytsearch" /\ Search!Next
       /\ UNCHANGED <<prog, cardVars, wavVars, mailVars, utilVars, scanVars,
                      sqlVars, dbVars>>
    \/ /\ prog = "imap" /\ Mail!Next
       /\ UNCHANGED <<prog, cardVars, wavVars, searchVars, utilVars, scanVars,
                      sqlVars, dbVars>>
    \/ /\ prog = "util" /\ Util!Next
       /\ UNCHANGED <<prog, cardVars, wavVars, searchVars, mailVars, scanVars,
                      sqlVars, dbVars>>
    \/ /\ prog = "netscan" /\ Scan!Next
       /\ UNCHANGED <<prog, cardVars, wavVars, searchVars, mailVars, utilVars,
                      sqlVars, dbVars>>
    \/ /\ prog = "sqlite" /\ Sql!Next
       /\ UNCHANGED <<prog, cardVars, wavVars, searchVars, mailVars, utilVars,
                      scanVars, dbVars>>
    \/ /\ prog = "mysql" /\ Db!Next
       /\ UNCHANGED <<prog, cardVars, wavVars, searchVars, mailVars, utilVars,
                      scanVars, sqlVars>>

Spec == Init /\ [][Next]_vars

-----------------------------------------------------------------------------
\* The card and database samples, the recorder, the search and the mail client
\* are through, on every path, only with what they opened closed and what they
\* allocated freed.  The exceptions are known ones: the objects of the search's
\* parser are never destroyed, a search that runs out of memory loses its
\* descriptions, and a failed unmount may leave the card on the bus.
ReleasedButParser ==
    /\ Card!BusFreed /\ Sql!ExitCloses
    /\ Wav!AllReleased /\ Search!OnlyParserKept /\ Mail!AllReleased

\* SdCard: a boot that logged no error has its two lines on the card.
NoSilentWriteFailure == Card!NoSilentWriteFailure

\* Recorder: nothing of an earlier out.wav is left behind a good recording.
FileIsFresh == Wav!FileIsFresh

\* YtSearch: every matching link of the page is listed once, in order.
SearchComplete == Search!SearchComplete

\* Imap: what the NOOP behind the last FETCH is for (Program.cs:72).
LastBytesRead == Mail!LastBytesRead

\* Codec: the encoders of util.c give strings that decode to their input.
EncodersRight == Util!EncodersRight

\* Sqlite: a run shows no row of another run (main.c:138).
StartsClean == Sql!StartsClean

\* Sqlite: the file has all four users of a run or none (main.c:164).
InsertsAtomic == Sql!InsertsAtomic

\* NetScan: the list is printed when all is added, and complete unless two
\* continuations collided in List.Add.
ScanTrue == Scan!ScanTrue

\* Mysql: a run in the middle of its work owns the database (main.c:33).
Exclusive == Db!Exclusive

\* Mysql: a run lists what it inserted, all of it and nothing else.
ListsOwnCars == Db!ListsOwnCars
=============================================================================
