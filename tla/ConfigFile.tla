----------------------------- MODULE ConfigFile -----------------------------
(***************************************************************************)
(* How gmail-calendar keeps config.json on disk: oauth_save_config and     *)
(* write_file_secure (open a temporary file, write, close, rename, unlink  *)
(* on failure) against read_file, in any number of processes started from  *)
(* the same directory, each of which may be killed between two calls.      *)
(*                                                                         *)
(* The file system is modelled at the level the code relies on: names map  *)
(* to inodes, a descriptor keeps its inode whatever happens to the names,  *)
(* rename replaces a name in one step, O_TRUNC empties the inode for every *)
(* process that has it open.  A file is a row of blocks, each one written  *)
(* by a save of one version of the configuration.                          *)
(***************************************************************************)
EXTENDS Integers

CONSTANTS
    Writers,    \* processes that save the configuration
    Readers,    \* processes that load it
    Versions,   \* contents a save may write
    InitVersions, \* contents the file may have at first (the user wrote it)
    Len,        \* blocks of every version
    MaxLen,     \* the longest file considered
    BufCap,     \* sizeof buf in oauth_save_config and in oauth_load_config
    Inodes,
    None,       \* no inode; also the end of a file
    Overlap     \* may two saves be under way at once?

ASSUME VersionAssumption == /\ None \notin Versions \cup Inodes
                            /\ InitVersions \subseteq Versions
                            /\ Len \in [Versions -> 1..MaxLen]
ASSUME CapAssumption == MaxLen \in Nat /\ BufCap \in Nat \ {0}
ASSUME OverlapAssumption == Overlap \in BOOLEAN

VARIABLES
    path, tmp,                      \* directory entries config.json, config.json.tmp
    blocks,                         \* contents of the inodes
    pc, version, fd, off, ok,       \* write_file_secure in every writer
    rpc, rfd, rbuf, rpos,           \* read_file in every reader
    old                             \* ghost: the file when the save began

writerVars == <<pc, version, fd, off, ok>>
readerVars == <<rpc, rfd, rbuf, rpos>>
vars == <<path, tmp, blocks, writerVars, readerVars, old>>

Blank == [k \in 1..MaxLen |-> None]

\* The file that holds exactly the serialisation of v.
Whole(v) == [k \in 1..MaxLen |-> IF k <= Len[v] THEN v ELSE None]
IsWhole(b) == \E v \in Versions : b = Whole(v)

Saving == {"open", "write", "close", "rename", "unlink"}
Active(w) == pc[w] \in Saving \cup {"saved", "failed"}

InUse(i) == \/ i \in {path, tmp}
            \/ \E w \in Writers : fd[w] = i
            \/ \E r \in Readers : rfd[r] = i

Init ==
    /\ path \in Inodes /\ tmp = None
    /\ \E v \in InitVersions : blocks = [i \in Inodes |-> IF i = path THEN Whole(v) ELSE Blank]
    /\ pc = [w \in Writers |-> "idle"]
    /\ version \in [Writers -> Versions]
    /\ fd = [w \in Writers |-> None] /\ off = [w \in Writers |-> 0]
    /\ ok = [w \in Writers |-> TRUE]
    /\ rpc = [r \in Readers |-> "idle"] /\ rfd = [r \in Readers |-> None]
    /\ rbuf = [r \in Readers |-> Blank] /\ rpos = [r \in Readers |-> 0]
    /\ old = [w \in Writers |-> Blank]

-----------------------------------------------------------------------------
(* oauth_save_config, write_file_secure                                     *)

WriterFrame == UNCHANGED readerVars

\* oauth_save_config formats the configuration; one that does not fit buf is
\* refused before anything is touched.
Save(w, v) ==
    /\ pc[w] = "idle"
    /\ Overlap \/ \A x \in Writers : ~Active(x)
    /\ version' = [version EXCEPT ![w] = v]
    /\ pc' = [pc EXCEPT ![w] = IF Len[v] >= BufCap THEN "failed" ELSE "open"]
    /\ old' = [old EXCEPT ![w] = blocks[path]]
    /\ UNCHANGED <<path, tmp, blocks, fd, off, ok>> /\ WriterFrame

\* Fault: the file is truncated in place, without a temporary name.
OpenTmpInPlace(w) ==
    /\ pc[w] = "open"
    /\ blocks' = [blocks EXCEPT ![path] = Blank]
    /\ fd' = [fd EXCEPT ![w] = path]
    /\ off' = [off EXCEPT ![w] = 0] /\ ok' = [ok EXCEPT ![w] = TRUE]
    /\ pc' = [pc EXCEPT ![w] = "write"]
    /\ UNCHANGED <<path, tmp, version, old>> /\ WriterFrame

\* open(O_WRONLY | O_CREAT | O_TRUNC): a new inode under the temporary name, or
\* the one that is already there, emptied.
OpenTmp(w) ==
    /\ pc[w] = "open"
    /\ \E i \in Inodes :
         /\ IF tmp = None THEN ~InUse(i) ELSE i = tmp
         /\ tmp' = i
         /\ blocks' = [blocks EXCEPT ![i] = Blank]
         /\ fd' = [fd EXCEPT ![w] = i]
    /\ off' = [off EXCEPT ![w] = 0] /\ ok' = [ok EXCEPT ![w] = TRUE]
    /\ pc' = [pc EXCEPT ![w] = "write"]
    /\ UNCHANGED <<path, version, old>> /\ WriterFrame

\* The name is too long, or open fails: false, with nothing to clean up.
OpenFails(w) ==
    /\ pc[w] = "open"
    /\ pc' = [pc EXCEPT ![w] = "failed"]
    /\ UNCHANGED <<path, tmp, blocks, version, fd, off, ok, old>> /\ WriterFrame

\* One round of the write loop: write() takes some of the remaining blocks.
WriteSome(w) ==
    /\ pc[w] = "write" /\ off[w] < Len[version[w]]
    /\ \E n \in 1..(Len[version[w]] - off[w]) :
         /\ blocks' = [blocks EXCEPT ![fd[w]] =
                         [k \in 1..MaxLen |-> IF k > off[w] /\ k <= off[w] + n
                                                THEN version[w] ELSE @[k]]]
         /\ off' = [off EXCEPT ![w] = @ + n]
    /\ UNCHANGED <<path, tmp, pc, version, fd, ok, old>> /\ WriterFrame

\* Fault: a failed write starts over instead of giving up.
WriteFailsRestarts(w) ==
    /\ pc[w] = "write" /\ off[w] < Len[version[w]]
    /\ off' = [off EXCEPT ![w] = 0]
    /\ blocks' = [blocks EXCEPT ![fd[w]] = Blank]
    /\ UNCHANGED <<path, tmp, pc, version, fd, ok, old>> /\ WriterFrame

\* write() fails or takes nothing: leave the loop with ok = false.
WriteFails(w) ==
    /\ pc[w] = "write" /\ off[w] < Len[version[w]]
    /\ ok' = [ok EXCEPT ![w] = FALSE]
    /\ pc' = [pc EXCEPT ![w] = "close"]
    /\ UNCHANGED <<path, tmp, blocks, version, fd, off, old>> /\ WriterFrame

WriteDone(w) ==
    /\ pc[w] = "write" /\ off[w] >= Len[version[w]]
    /\ pc' = [pc EXCEPT ![w] = "close"]
    /\ UNCHANGED <<path, tmp, blocks, version, fd, off, ok, old>> /\ WriterFrame

\* close() releases the descriptor in any case; its error makes ok false.
CloseTmp(w) ==
    /\ pc[w] = "close"
    /\ \E closed \in BOOLEAN :
         LET good == ok[w] /\ closed
         IN  /\ ok' = [ok EXCEPT ![w] = good]
             /\ pc' = [pc EXCEPT ![w] = IF good THEN "rename" ELSE "unlink"]
    /\ fd' = [fd EXCEPT ![w] = None]
    /\ UNCHANGED <<path, tmp, blocks, version, off, old>> /\ WriterFrame

\* The new file is in place under its name.
RenameTmp(w) ==
    /\ pc[w] = "rename" /\ tmp # None
    /\ path' = tmp /\ tmp' = None
    /\ pc' = [pc EXCEPT ![w] = "saved"]
    /\ UNCHANGED <<blocks, version, fd, off, ok, old>> /\ WriterFrame

\* Fault: rename's result is ignored.
RenameFailsIgnored(w) ==
    /\ pc[w] = "rename"
    /\ pc' = [pc EXCEPT ![w] = "saved"]
    /\ UNCHANGED <<path, tmp, blocks, version, fd, off, ok, old>> /\ WriterFrame

\* rename() fails: the temporary name is gone, or any other error.
RenameFails(w) ==
    /\ pc[w] = "rename"
    /\ ok' = [ok EXCEPT ![w] = FALSE]
    /\ pc' = [pc EXCEPT ![w] = "unlink"]
    /\ UNCHANGED <<path, tmp, blocks, version, fd, off, old>> /\ WriterFrame

\* unlink()'s own result is ignored.
UnlinkTmp(w) ==
    /\ pc[w] = "unlink"
    /\ tmp' \in {None, tmp}
    /\ pc' = [pc EXCEPT ![w] = "failed"]
    /\ UNCHANGED <<path, blocks, version, fd, off, ok, old>> /\ WriterFrame

\* The caller has seen the result.
Return(w) ==
    /\ pc[w] \in {"saved", "failed"}
    /\ pc' = [pc EXCEPT ![w] = "idle"]
    /\ UNCHANGED <<path, tmp, blocks, version, fd, off, ok, old>> /\ WriterFrame

\* The process is killed in the middle of a save; the kernel closes its
\* descriptor, the directory stays as it is.  A later run starts afresh.
Crash(w) ==
    /\ pc[w] \in Saving
    /\ pc' = [pc EXCEPT ![w] = "idle"] /\ fd' = [fd EXCEPT ![w] = None]
    /\ UNCHANGED <<path, tmp, blocks, version, off, ok, old>> /\ WriterFrame

-----------------------------------------------------------------------------
(* read_file                                                                *)

ReaderFrame == UNCHANGED <<path, tmp, blocks, writerVars, old>>

AtEnd(r) == \A k \in 1..MaxLen : k > rpos[r] => blocks[rfd[r]][k] = None

\* Fault: a configuration loaded before is taken for what the file has now.
OpenConfigCached(r) ==
    /\ rpc[r] = "idle"
    /\ IF IsWhole(rbuf[r]) THEN rpc' = [rpc EXCEPT ![r] = "loaded"] /\ UNCHANGED rfd
       ELSE rpc' = [rpc EXCEPT ![r] = "read"] /\ rfd' = [rfd EXCEPT ![r] = path]
    /\ rpos' = [rpos EXCEPT ![r] = 0]
    /\ UNCHANGED rbuf /\ ReaderFrame

\* fopen: the reader has the file that is now under the name.
OpenConfig(r) ==
    /\ rpc[r] = "idle"
    /\ rpc' = [rpc EXCEPT ![r] = "read"]
    /\ rfd' = [rfd EXCEPT ![r] = path]
    /\ rbuf' = [rbuf EXCEPT ![r] = Blank] /\ rpos' = [rpos EXCEPT ![r] = 0]
    /\ ReaderFrame

\* fread takes at most cap - 1 bytes, one block at a time.
ReadBlock(r) ==
    /\ rpc[r] = "read" /\ ~AtEnd(r) /\ rpos[r] < BufCap - 1
    /\ rpos' = [rpos EXCEPT ![r] = @ + 1]
    /\ rbuf' = [rbuf EXCEPT ![r][rpos[r] + 1] = blocks[rfd[r]][rpos[r] + 1]]
    /\ UNCHANGED <<rpc, rfd>> /\ ReaderFrame

\* ferror: -1 (a failed fopen returns the same).
ReadFails(r) ==
    /\ rpc[r] = "read"
    /\ rpc' = [rpc EXCEPT ![r] = "error"] /\ rfd' = [rfd EXCEPT ![r] = None]
    /\ UNCHANGED <<rbuf, rpos>> /\ ReaderFrame

\* Fault: a short fread is taken for the end of the file.
ReadDoneShort(r) ==
    /\ rpc[r] = "read"
    /\ rpc' = [rpc EXCEPT ![r] = "loaded"] /\ rfd' = [rfd EXCEPT ![r] = None]
    /\ UNCHANGED <<rbuf, rpos>> /\ ReaderFrame

\* End of file, or the buffer is full: both return the number of bytes read.
ReadDone(r) ==
    /\ rpc[r] = "read" /\ (AtEnd(r) \/ rpos[r] >= BufCap - 1)
    /\ rpc' = [rpc EXCEPT ![r] = "loaded"] /\ rfd' = [rfd EXCEPT ![r] = None]
    /\ UNCHANGED <<rbuf, rpos>> /\ ReaderFrame

ReadAgain(r) ==
    /\ rpc[r] \in {"loaded", "error"}
    /\ rpc' = [rpc EXCEPT ![r] = "idle"]
    /\ UNCHANGED <<rfd, rbuf, rpos>> /\ ReaderFrame

WriterStep(w) ==
    \/ \E v \in Versions : Save(w, v)
    \/ OpenTmp(w) \/ OpenFails(w) \/ WriteSome(w) \/ WriteFails(w) \/ WriteDone(w)
    \/ CloseTmp(w) \/ RenameTmp(w) \/ RenameFails(w) \/ UnlinkTmp(w)
    \/ Return(w) \/ Crash(w)

ReaderStep(r) ==
    \/ OpenConfig(r) \/ ReadBlock(r) \/ ReadFails(r) \/ ReadDone(r) \/ ReadAgain(r)

Next == \/ \E w \in Writers : WriterStep(w)
        \/ \E r \in Readers : ReaderStep(r)

Spec == Init /\ [][Next]_vars

\* A started save keeps making its calls (the crash remains possible).
SaveStep(w) ==
    \/ OpenTmp(w) \/ OpenFails(w) \/ WriteSome(w) \/ WriteFails(w) \/ WriteDone(w)
    \/ CloseTmp(w) \/ RenameTmp(w) \/ RenameFails(w) \/ UnlinkTmp(w)

FairSpec == Spec /\ \A w \in Writers : WF_vars(SaveStep(w))

-----------------------------------------------------------------------------
\* Every variable has its type.
TypeOK ==
    /\ path \in Inodes /\ tmp \in Inodes \cup {None}
    /\ blocks \in [Inodes -> [1..MaxLen -> Versions \cup {None}]]
    /\ pc \in [Writers -> Saving \cup {"idle", "saved", "failed"}]
    /\ version \in [Writers -> Versions]
    /\ fd \in [Writers -> Inodes \cup {None}]
    /\ off \in [Writers -> 0..MaxLen] /\ ok \in [Writers -> BOOLEAN]
    /\ rpc \in [Readers -> {"idle", "read", "loaded", "error"}]
    /\ rfd \in [Readers -> Inodes \cup {None}]
    /\ rbuf \in [Readers -> [1..MaxLen -> Versions \cup {None}]]
    /\ rpos \in [Readers -> 0..MaxLen]
    /\ old \in [Writers -> [1..MaxLen -> Versions \cup {None}]]

\* config.json is at every instant one complete configuration, the old one or
\* the new one, whatever call fails and wherever the process is killed
\* (util.h: "Write `buf` of length `n` to `path` atomically (write+rename)").
PathIsWhole == IsWhole(blocks[path])

\* write_file_secure's answer is the truth: after true the file holds the
\* version given, after false it holds what it held before.
ResultIsTrue ==
    \A w \in Writers :
        /\ pc[w] = "saved"  => blocks[path] = Whole(version[w])
        /\ pc[w] = "failed" => blocks[path] = old[w]

\* A reader that succeeds has seen one complete configuration, however its
\* reads interleave with a save (util.h: "Read full file into `buf`").
ReadIsWhole == \A r \in Readers : rpc[r] = "loaded" => IsWhole(rbuf[r])

\* Seen from outside, the file is replaced and read in one instant: the open,
\* write, close and rename of a save and the fopen and freads of a load, of any
\* number of processes, failures and kills, add up to what AtomicFile allows.
\* In particular a load that overlaps a save returns what the file contained
\* when it was opened, not merely some version.
Atomic == INSTANCE AtomicFile WITH
             Contents <- {Whole(v) : v \in Versions}, Nothing <- Blank,
             content <- blocks[path],
             save <- [w \in Writers |-> IF pc[w] \in Saving THEN "saving" ELSE pc[w]],
             new <- [w \in Writers |-> Whole(version[w])],
             load <- rpc,
             seen <- [r \in Readers |-> CASE rpc[r] = "read" -> blocks[rfd[r]]
                                           [] rpc[r] = "loaded" -> rbuf[r]
                                           [] OTHER -> Blank]
ImplementsAtomicFile == Atomic!Spec

\* Every save ends: it returns true or false, unless the process is killed.
SaveEnds == \A w \in Writers : (pc[w] \in Saving) ~> (pc[w] \notin Saving)

-----------------------------------------------------------------------------
(* The inductive invariant while saves do not overlap (ConfigFileProofs).   *)

\* The first n blocks of v.
Prefix(v, n) == [k \in 1..MaxLen |-> IF k <= n THEN v ELSE None]

OneSave == \A w, x \in Writers : Active(w) /\ Active(x) => w = x

TmpIsPrivate ==
    /\ tmp # path
    /\ \A r \in Readers : rfd[r] # None => rfd[r] # tmp
    /\ \A w \in Writers : IF pc[w] \in {"write", "close"}
                             THEN fd[w] = tmp /\ tmp # None
                             ELSE fd[w] = None

SaveProgress ==
    \A w \in Writers :
        /\ pc[w] = "write" => /\ ok[w] /\ off[w] <= Len[version[w]]
                              /\ blocks[tmp] = Prefix(version[w], off[w])
        /\ pc[w] = "close" /\ ok[w] => blocks[tmp] = Whole(version[w])
        /\ pc[w] = "rename" => tmp # None /\ blocks[tmp] = Whole(version[w])
        /\ pc[w] \in Saving => blocks[path] = old[w]

ReadProgress ==
    \A r \in Readers :
        IF rpc[r] = "read"
          THEN /\ rfd[r] \in Inodes /\ IsWhole(blocks[rfd[r]])
               /\ rpos[r] <= MaxLen
               /\ rbuf[r] = [k \in 1..MaxLen |->
                              IF k <= rpos[r] THEN blocks[rfd[r]][k] ELSE None]
          ELSE rfd[r] = None

SerialInv == /\ TypeOK /\ PathIsWhole /\ ResultIsTrue /\ OneSave
             /\ TmpIsPrivate /\ SaveProgress /\ ReadProgress

\* Loading needs one thing more: that no file on disk is larger than buf.
Fits(b) == \E v \in Versions : Len[v] < BufCap /\ b = Whole(v)

ReadInv == /\ Fits(blocks[path]) /\ ReadIsWhole
           /\ \A w \in Writers : pc[w] \in Saving => Len[version[w]] < BufCap
           /\ \A r \in Readers : rpc[r] = "read" => Fits(blocks[rfd[r]])
=============================================================================
