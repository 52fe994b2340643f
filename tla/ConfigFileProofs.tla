-------------------------- MODULE ConfigFileProofs --------------------------
(***************************************************************************)
(* While no two saves overlap, config.json is never torn: for any number   *)
(* of writers and readers, any configurations, any split of a save into    *)
(* write() calls, any failing call and a crash at any point.               *)
(***************************************************************************)
EXTENDS ConfigFile, TLAPS

\* Initially nobody saves or loads and the file is whole.
LEMMA InitSerial == Init => SerialInv
<1> SUFFICES ASSUME Init PROVE SerialInv OBVIOUS
<1> USE VersionAssumption, CapAssumption DEF Init
<1>1. TypeOK BY DEF TypeOK, Saving, Whole, Blank
<1>2. PathIsWhole BY DEF PathIsWhole, IsWhole
<1>3. ResultIsTrue /\ OneSave /\ SaveProgress
  BY DEF ResultIsTrue, OneSave, SaveProgress, Active, Saving
<1>4. TmpIsPrivate /\ ReadProgress BY DEF TmpIsPrivate, ReadProgress
<1> QED BY <1>1, <1>2, <1>3, <1>4 DEF SerialInv

\* A reader's step changes nothing but that reader's buffer and descriptor.
LEMMA ReaderSerial ==
    ASSUME SerialInv, NEW r \in Readers, ReaderStep(r) PROVE SerialInv'
<1> USE VersionAssumption, CapAssumption DEF SerialInv, ReaderFrame, writerVars
<1>1. UNCHANGED <<path, tmp, blocks, pc, version, fd, off, ok, old>>
  BY DEF ReaderStep, OpenConfig, ReadBlock, ReadFails, ReadDone, ReadAgain
<1>2. TypeOK'
  <2>1. CASE OpenConfig(r) BY <2>1 DEF OpenConfig, TypeOK, Blank
  <2>2. CASE ReadBlock(r)
    <3>1. rpos[r] + 1 \in 1..MaxLen
      BY <2>2 DEF ReadBlock, AtEnd, TypeOK
    <3> QED BY <2>2, <3>1 DEF ReadBlock, TypeOK, ReadProgress
  <2>3. CASE ReadFails(r) BY <2>3 DEF ReadFails, TypeOK
  <2>4. CASE ReadDone(r) BY <2>4 DEF ReadDone, TypeOK
  <2>5. CASE ReadAgain(r) BY <2>5 DEF ReadAgain, TypeOK
  <2> QED BY <2>1, <2>2, <2>3, <2>4, <2>5 DEF ReaderStep
<1>3. (PathIsWhole /\ ResultIsTrue /\ OneSave /\ SaveProgress)'
  BY <1>1 DEF PathIsWhole, IsWhole, ResultIsTrue, OneSave, SaveProgress, Active
<1>4. TmpIsPrivate' /\ ReadProgress'
  <2> USE DEF TmpIsPrivate, ReadProgress, TypeOK
  <2>1. CASE OpenConfig(r)
    BY <1>1, <2>1 DEF OpenConfig, Blank, PathIsWhole, IsWhole
  <2>2. CASE ReadBlock(r)
    <3>1. rpos[r] + 1 \in 1..MaxLen
      BY <2>2 DEF ReadBlock, AtEnd
    <3>2. TmpIsPrivate' BY <1>1, <2>2 DEF ReadBlock
    <3>3. ASSUME NEW q \in Readers PROVE
            IF rpc'[q] = "read"
              THEN /\ rfd'[q] \in Inodes /\ IsWhole(blocks'[rfd'[q]])
                   /\ rpos'[q] <= MaxLen
                   /\ rbuf'[q] = [k \in 1..MaxLen |->
                        IF k <= rpos'[q] THEN blocks'[rfd'[q]][k] ELSE None]
              ELSE rfd'[q] = None
      <4>1. CASE q = r
        <5>1. /\ rpc'[r] = "read" /\ rfd'[r] = rfd[r] /\ rpc[r] = "read"
              /\ rpos'[r] = rpos[r] + 1
              /\ rbuf'[r] = [rbuf[r] EXCEPT ![rpos[r] + 1] = blocks[rfd[r]][rpos[r] + 1]]
          BY <2>2 DEF ReadBlock
        <5>2. rfd[r] \in Inodes /\ IsWhole(blocks[rfd[r]])
          BY <5>1
        <5>3. rbuf[r] = [k \in 1..MaxLen |->
                          IF k <= rpos[r] THEN blocks[rfd[r]][k] ELSE None]
          BY <5>1
        <5>4. rbuf'[r] = [k \in 1..MaxLen |->
                          IF k <= rpos[r] + 1 THEN blocks[rfd[r]][k] ELSE None]
          <6>1. rpos[r] \in Nat OBVIOUS
          <6>2. [rbuf[r] EXCEPT ![rpos[r] + 1] = blocks[rfd[r]][rpos[r] + 1]]
                  = [k \in 1..MaxLen |->
                       IF k <= rpos[r] + 1 THEN blocks[rfd[r]][k] ELSE None]
            <7>1. [rbuf[r] EXCEPT ![rpos[r] + 1] = blocks[rfd[r]][rpos[r] + 1]]
                    = [k \in 1..MaxLen |-> IF k = rpos[r] + 1
                         THEN blocks[rfd[r]][rpos[r] + 1] ELSE rbuf[r][k]]
              <8>1. rbuf[r] \in [1..MaxLen -> Versions \cup {None}] OBVIOUS
              <8> HIDE DEF SerialInv, TypeOK, ReadProgress, TmpIsPrivate
              <8> QED BY <3>1, <8>1
            <7>2. ASSUME NEW k \in 1..MaxLen
                  PROVE  (IF k = rpos[r] + 1
                            THEN blocks[rfd[r]][rpos[r] + 1] ELSE rbuf[r][k])
                         = IF k <= rpos[r] + 1 THEN blocks[rfd[r]][k] ELSE None
              <8> HIDE DEF SerialInv, TypeOK, ReadProgress, TmpIsPrivate
              <8> QED BY <3>1, <5>3, <6>1
            <7> QED BY <7>1, <7>2, Zenon
          <6> QED BY <5>1, <6>2, Zenon
        <5> QED BY <1>1, <3>1, <4>1, <5>1, <5>2, <5>4
      <4>2. CASE q # r BY <1>1, <2>2, <4>2 DEF ReadBlock
      <4> QED BY <4>1, <4>2
    <3>4. ReadProgress' BY <3>3 DEF IsWhole, Whole
    <3> QED BY <3>2, <3>4
  <2>3. CASE ReadFails(r) BY <1>1, <2>3 DEF ReadFails, IsWhole
  <2>4. CASE ReadDone(r) BY <1>1, <2>4 DEF ReadDone, IsWhole
  <2>5. CASE ReadAgain(r) BY <1>1, <2>5 DEF ReadAgain, IsWhole
  <2> QED BY <2>1, <2>2, <2>3, <2>4, <2>5 DEF ReaderStep
<1> QED BY <1>2, <1>3, <1>4

\* A writer's step.  Only OpenTmp and WriteSome change an inode, and it is the
\* temporary file, which no name and no reader shares; only RenameTmp changes
\* what config.json names, and the temporary file is complete by then.
LEMMA WriterSerial ==
    ASSUME SerialInv, ~Overlap, NEW w \in Writers, WriterStep(w) PROVE SerialInv'
<1> USE VersionAssumption, CapAssumption
    DEF SerialInv, WriterFrame, readerVars, TypeOK
<1>1. UNCHANGED <<rpc, rfd, rbuf, rpos>>
  BY DEF WriterStep, Save, OpenTmp, OpenFails, WriteSome, WriteFails, WriteDone,
         CloseTmp, RenameTmp, RenameFails, UnlinkTmp, Return, Crash
<1>2. ASSUME NEW v \in Versions, Save(w, v) PROVE SerialInv'
  <2> USE <1>2 DEF Save
  <2>0. /\ \A x \in Writers : pc[x] = "idle"
        /\ \A x \in Writers : x # w => pc'[x] = "idle"
        /\ pc'[w] \in {"failed", "open"} /\ old'[w] = blocks[path]
    BY DEF Active, Saving
  <2>1. TypeOK' BY <1>1 DEF Saving
  <2>2. OneSave' BY DEF OneSave, Active, Saving
  <2>3. PathIsWhole' /\ ResultIsTrue'
    BY <2>0 DEF PathIsWhole, IsWhole, ResultIsTrue
  <2>4. TmpIsPrivate' BY <1>1 DEF TmpIsPrivate
  <2>5. SaveProgress' BY <2>0 DEF SaveProgress, Saving
  <2>6. ReadProgress' BY <1>1 DEF ReadProgress, IsWhole
  <2> QED BY <2>1, <2>2, <2>3, <2>4, <2>5, <2>6
<1>3. CASE OpenTmp(w)
  <2>1. PICK i \in Inodes :
          /\ IF tmp = None THEN ~InUse(i) ELSE i = tmp
          /\ tmp' = i
          /\ blocks' = [blocks EXCEPT ![i] = Blank]
          /\ fd' = [fd EXCEPT ![w] = i]
    BY <1>3 DEF OpenTmp
  <2>2. i # path /\ \A r \in Readers : rfd[r] # i
    BY <2>1 DEF InUse, TmpIsPrivate
  <2>3. blocks'[path] = blocks[path] /\ \A r \in Readers :
          rfd[r] \in Inodes => blocks'[rfd[r]] = blocks[rfd[r]]
    BY <2>1, <2>2
  <2>4. blocks'[i] = Blank /\ \A v \in Versions : Prefix(v, 0) = Blank
    BY <2>1 DEF Prefix, Blank
  <2>5. \A x \in Writers : x # w => ~Active(x)
    BY <1>3 DEF OpenTmp, OneSave, Active, Saving
  <2> USE <1>3, <2>1 DEF OpenTmp
  <2>6. TypeOK' BY <1>1 DEF Saving, Blank
  <2>7. OneSave' BY <2>5 DEF OneSave, Active, Saving
  <2>8. PathIsWhole' /\ ResultIsTrue'
    <3>1. PathIsWhole' BY <2>3 DEF PathIsWhole
    <3>2. pc' = [pc EXCEPT ![w] = "write"] /\ UNCHANGED <<path, version, old>>
      OBVIOUS
    <3>3. ResultIsTrue' BY <2>3, <3>2 DEF ResultIsTrue, Whole
    <3> QED BY <3>1, <3>3
  <2>9. TmpIsPrivate' BY <1>1, <2>2, <2>5 DEF TmpIsPrivate, Active, Saving
  <2>10. SaveProgress'
    BY <2>3, <2>4, <2>5 DEF SaveProgress, Saving, Active
  <2>11. ReadProgress' BY <1>1, <2>3 DEF ReadProgress, IsWhole
  <2> QED BY <2>6, <2>7, <2>8, <2>9, <2>10, <2>11
<1>4. CASE WriteSome(w)
  <2>1. PICK n \in 1..(Len[version[w]] - off[w]) :
          /\ blocks' = [blocks EXCEPT ![fd[w]] =
                          [k \in 1..MaxLen |-> IF k > off[w] /\ k <= off[w] + n
                                                 THEN version[w] ELSE @[k]]]
          /\ off' = [off EXCEPT ![w] = @ + n]
    BY <1>4 DEF WriteSome
  <2>2. /\ fd[w] = tmp /\ tmp \in Inodes /\ tmp # path
        /\ \A r \in Readers : rfd[r] \in Inodes => rfd[r] # tmp
    BY <1>4 DEF WriteSome, TmpIsPrivate
  <2>3. blocks'[path] = blocks[path] /\ \A r \in Readers :
          rfd[r] \in Inodes => blocks'[rfd[r]] = blocks[rfd[r]]
    BY <2>1, <2>2
  <2>4. /\ off[w] \in Nat /\ n \in Nat /\ n > 0 /\ off[w] + n <= Len[version[w]]
        /\ Len[version[w]] \in 1..MaxLen
    BY <2>1, <1>4 DEF WriteSome
  <2>5. blocks'[tmp] = Prefix(version[w], off[w] + n)
    <3>1. blocks[tmp] = Prefix(version[w], off[w])
      BY <1>4 DEF WriteSome, SaveProgress
    <3>2. blocks'[tmp] = [k \in 1..MaxLen |-> IF k > off[w] /\ k <= off[w] + n
                                                THEN version[w] ELSE blocks[tmp][k]]
      BY <2>1, <2>2
    <3> QED BY <2>4, <3>1, <3>2 DEF Prefix
  <2>6. \A x \in Writers : x # w => ~Active(x)
    BY <1>4 DEF WriteSome, OneSave, Active, Saving
  <2> USE <1>4 DEF WriteSome
  <2>7. TypeOK'
    <3>1. off' \in [Writers -> 0..MaxLen] BY <2>1, <2>4
    <3>2. blocks' \in [Inodes -> [1..MaxLen -> Versions \cup {None}]]
      BY <2>1, <2>2
    <3> QED BY <1>1, <3>1, <3>2
  <2>8. OneSave' BY DEF OneSave, Active
  <2>9. PathIsWhole' /\ ResultIsTrue'
    BY <2>3 DEF PathIsWhole, IsWhole, ResultIsTrue
  <2>10. TmpIsPrivate' BY <1>1 DEF TmpIsPrivate
  <2>11. SaveProgress'
    BY <2>1, <2>3, <2>4, <2>5, <2>6 DEF SaveProgress, Saving, Active
  <2>12. ReadProgress'
    <3>1. \A r \in Readers : rpc[r] = "read" =>
            rfd[r] \in Inodes /\ blocks'[rfd[r]] = blocks[rfd[r]]
      BY <2>3 DEF ReadProgress
    <3>2. ASSUME NEW q \in Readers, rpc[q] = "read"
          PROVE  /\ IsWhole(blocks'[rfd[q]])
                 /\ [k \in 1..MaxLen |-> IF k <= rpos[q] THEN blocks'[rfd[q]][k] ELSE None]
                      = rbuf[q]
      <4>1. blocks'[rfd[q]] = blocks[rfd[q]] BY <3>1, <3>2
      <4>2. /\ IsWhole(blocks[rfd[q]])
            /\ [k \in 1..MaxLen |-> IF k <= rpos[q] THEN blocks[rfd[q]][k] ELSE None]
                 = rbuf[q]
        BY <3>2 DEF ReadProgress
      <4> QED BY <4>1, <4>2, Zenon
    <3>3. \A q \in Readers : rpc[q] = "read" => rfd[q] \in Inodes /\ rpos[q] <= MaxLen
      BY DEF ReadProgress
    <3>4. \A q \in Readers : rpc[q] # "read" => rfd[q] = None
      BY DEF ReadProgress
    <3> HIDE DEF SerialInv, TypeOK, WriteSome
    <3> QED BY <1>1, <3>2, <3>3, <3>4 DEF ReadProgress, IsWhole
  <2> QED BY <2>7, <2>8, <2>9, <2>10, <2>11, <2>12
<1>5. CASE RenameTmp(w)
  <2> USE <1>5 DEF RenameTmp
  <2>1. \A x \in Writers : x # w => ~Active(x)
    BY DEF OneSave, Active, Saving
  <2>2. blocks[tmp] = Whole(version[w]) /\ tmp \in Inodes
    BY DEF SaveProgress
  <2>3. TypeOK' BY <1>1 DEF Saving
  <2>4. OneSave' BY DEF OneSave, Active, Saving
  <2>5. PathIsWhole' /\ ResultIsTrue'
    BY <2>1, <2>2 DEF PathIsWhole, IsWhole, ResultIsTrue, Whole, Active
  <2>6. TmpIsPrivate' BY <1>1, <2>1 DEF TmpIsPrivate, Active, Saving
  <2>7. SaveProgress' BY <2>1 DEF SaveProgress, Saving, Active
  <2>8. ReadProgress' BY <1>1 DEF ReadProgress, IsWhole
  <2> QED BY <2>3, <2>4, <2>5, <2>6, <2>7, <2>8
<1>6. CASE \/ OpenFails(w) \/ WriteFails(w) \/ WriteDone(w) \/ CloseTmp(w)
           \/ RenameFails(w) \/ UnlinkTmp(w) \/ Return(w) \/ Crash(w)
  <2> USE <1>6 DEF OpenFails, WriteFails, WriteDone, CloseTmp, RenameFails,
                   UnlinkTmp, Return, Crash
  <2>1. UNCHANGED <<path, blocks, version, off, old>> /\ tmp' \in {tmp, None}
    OBVIOUS
  <2>2. TypeOK' BY <1>1, <2>1 DEF Saving
  <2>3. /\ Active(w) /\ \A x \in Writers : x # w => ~Active(x)
        /\ \A x \in Writers : x # w => pc'[x] = pc[x] /\ ok'[x] = ok[x]
    BY DEF OneSave, Active, Saving
  <2>4. OneSave' BY <2>3 DEF OneSave, Active
  <2>5. PathIsWhole' BY <2>1 DEF PathIsWhole, IsWhole
  <2>6. ResultIsTrue'
    <3>1. pc'[w] # "saved"
      OBVIOUS
    <3>2. pc'[w] = "failed" => pc[w] \in Saving
      BY DEF Saving
    <3> QED BY <2>1, <2>3, <3>1, <3>2 DEF ResultIsTrue, SaveProgress
  <2>7. TmpIsPrivate'
    <3>1. \A x \in Writers : x # w => fd'[x] = None /\ pc'[x] \notin {"write", "close"}
      <4>1. \A x \in Writers : x # w => fd'[x] = fd[x]
        OBVIOUS
      <4> QED BY <2>3, <4>1 DEF TmpIsPrivate, Active, Saving
    <3>2. IF pc'[w] \in {"write", "close"}
            THEN fd'[w] = fd[w] /\ tmp' = tmp /\ pc[w] \in {"write", "close"}
            ELSE fd'[w] = None
      BY DEF TmpIsPrivate, Saving
    <3>3. tmp' # path' /\ \A r \in Readers : rfd'[r] # None => rfd'[r] # tmp'
      BY <2>1, <1>1 DEF TmpIsPrivate
    <3> HIDE <1>6
    <3> QED BY <3>1, <3>2, <3>3 DEF TmpIsPrivate
  <2>8. SaveProgress'
    <3>1. \A x \in Writers : x # w => pc'[x] = "idle"
      BY <2>3 DEF Active, Saving
    <3>2. pc'[w] # "write"
      OBVIOUS
    <3>3. pc'[w] = "close" /\ ok'[w] =>
            pc[w] = "write" /\ off[w] = Len[version[w]] /\ tmp' = tmp
      BY DEF SaveProgress
    <3>4. pc'[w] = "rename" => pc[w] = "close" /\ ok[w] /\ tmp' = tmp /\ tmp # None
      BY DEF TmpIsPrivate
    <3>5. pc'[w] \in Saving => pc[w] \in Saving
      BY DEF Saving
    <3>6. Prefix(version[w], Len[version[w]]) = Whole(version[w])
      BY DEF Prefix, Whole
    <3> QED BY <2>1, <3>1, <3>2, <3>3, <3>4, <3>5, <3>6 DEF SaveProgress, Saving
  <2>9. ReadProgress' BY <1>1, <2>1 DEF ReadProgress, IsWhole
  <2> QED BY <2>2, <2>4, <2>5, <2>6, <2>7, <2>8, <2>9
<1> QED BY <1>2, <1>3, <1>4, <1>5, <1>6 DEF WriterStep

LEMMA StepSerial == ASSUME ~Overlap PROVE SerialInv /\ [Next]_vars => SerialInv'
<1> SUFFICES ASSUME SerialInv, [Next]_vars PROVE SerialInv' OBVIOUS
<1>1. CASE Next BY <1>1, WriterSerial, ReaderSerial DEF Next
<1>2. CASE UNCHANGED vars
  <2>1. TypeOK' BY <1>2 DEF SerialInv, TypeOK, vars, writerVars, readerVars
  <2>2. (PathIsWhole /\ ResultIsTrue /\ OneSave /\ TmpIsPrivate)'
    BY <1>2 DEF SerialInv, PathIsWhole, IsWhole, ResultIsTrue, OneSave, Active,
                TmpIsPrivate, vars, writerVars, readerVars
  <2>3. (SaveProgress /\ ReadProgress)'
    BY <1>2 DEF SerialInv, SaveProgress, ReadProgress, IsWhole, vars, writerVars,
                readerVars
  <2> QED BY <2>1, <2>2, <2>3 DEF SerialInv
<1> QED BY <1>1, <1>2

\* Type correctness, together with the whole invariant, when saves do not
\* overlap.
THEOREM SerialInvariance == ~Overlap => (Spec => []SerialInv)
<1> SUFFICES ASSUME ~Overlap PROVE Spec => []SerialInv OBVIOUS
<1> QED BY InitSerial, StepSerial, PTL DEF Spec

\* Atomicity of write_file_secure: config.json is always one complete version.
THEOREM Atomicity == ~Overlap => (Spec => []PathIsWhole)
<1> SUFFICES ASSUME ~Overlap PROVE Spec => []PathIsWhole OBVIOUS
<1>1. SerialInv => PathIsWhole BY DEF SerialInv
<1> QED BY <1>1, SerialInvariance, PTL

\* True means saved, false means untouched.
THEOREM TruthfulResult == ~Overlap => (Spec => []ResultIsTrue)
<1> SUFFICES ASSUME ~Overlap PROVE Spec => []ResultIsTrue OBVIOUS
<1>1. SerialInv => ResultIsTrue BY DEF SerialInv
<1> QED BY <1>1, SerialInvariance, PTL

-----------------------------------------------------------------------------
(* Loading.  The file read must fit the buffer; oauth_save_config only ever *)
(* writes files that do, so it is enough that the first one did.            *)

LEMMA InitRead == Init /\ Fits(blocks[path]) => ReadInv
BY DEF Init, ReadInv, ReadIsWhole, Saving

\* The end of a file that fits comes before the buffer is full.
LEMMA FullBufferIsEnd ==
    ASSUME NEW v \in Versions, Len[v] < BufCap, NEW n \in 0..MaxLen,
           n >= BufCap - 1
    PROVE  \A k \in 1..MaxLen : k > n => Whole(v)[k] = None
BY VersionAssumption, CapAssumption DEF Whole

\* read_file returns when its buffer has the whole file.
LEMMA ReadsAll ==
    ASSUME SerialInv, ReadInv, NEW r \in Readers, ReadDone(r)
    PROVE  rbuf[r] = blocks[rfd[r]]
<1>1. PICK v \in Versions : Len[v] < BufCap /\ blocks[rfd[r]] = Whole(v)
  BY DEF ReadDone, ReadInv, Fits
<1>2. rpos[r] \in 0..MaxLen BY DEF SerialInv, TypeOK
<1>3. \A k \in 1..MaxLen : k > rpos[r] => Whole(v)[k] = None
  <2>1. CASE AtEnd(r) BY <1>1, <2>1 DEF AtEnd
  <2>2. CASE rpos[r] >= BufCap - 1 BY <1>1, <1>2, <2>2, FullBufferIsEnd
  <2> QED BY <2>1, <2>2 DEF ReadDone
<1>4. rbuf[r] = [k \in 1..MaxLen |-> IF k <= rpos[r] THEN Whole(v)[k] ELSE None]
  BY <1>1 DEF ReadDone, SerialInv, ReadProgress
<1>5. ASSUME NEW k \in 1..MaxLen
      PROVE (IF k <= rpos[r] THEN Whole(v)[k] ELSE None) = Whole(v)[k]
  BY <1>2, <1>3, CapAssumption
<1>6. Whole(v) = [k \in 1..MaxLen |-> Whole(v)[k]] BY DEF Whole
<1>7. rbuf[r] = Whole(v) BY <1>4, <1>5, <1>6, Zenon
<1> QED BY <1>1, <1>7

LEMMA ReaderRead ==
    ASSUME SerialInv, ReadInv, NEW r \in Readers, ReaderStep(r) PROVE ReadInv'
<1> USE VersionAssumption, CapAssumption DEF ReaderFrame, writerVars
<1>1. UNCHANGED <<path, tmp, blocks, pc, version>>
  BY DEF ReaderStep, OpenConfig, ReadBlock, ReadFails, ReadDone, ReadAgain
<1>2. /\ Fits(blocks[path])'
      /\ (\A w \in Writers : pc[w] \in Saving => Len[version[w]] < BufCap)'
  BY <1>1 DEF ReadInv, Fits
<1>3. \A q \in Readers : q # r => /\ rpc'[q] = rpc[q] /\ rfd'[q] = rfd[q]
                                  /\ rbuf'[q] = rbuf[q]
  BY DEF ReaderStep, OpenConfig, ReadBlock, ReadFails, ReadDone, ReadAgain,
         SerialInv, TypeOK
<1>4. rpc'[r] = "read" => Fits(blocks[rfd'[r]])
  BY DEF ReaderStep, OpenConfig, ReadBlock, ReadFails, ReadDone, ReadAgain,
         SerialInv, TypeOK, ReadInv
<1>5. rpc'[r] = "loaded" => IsWhole(rbuf'[r])
  <2> SUFFICES ASSUME rpc'[r] = "loaded" PROVE IsWhole(rbuf'[r]) OBVIOUS
  <2>1. ReadDone(r)
    BY DEF ReaderStep, OpenConfig, ReadBlock, ReadFails, ReadDone, ReadAgain,
           SerialInv, TypeOK
  <2>2. rbuf[r] = blocks[rfd[r]] BY <2>1, ReadsAll
  <2> QED BY <2>1, <2>2 DEF ReadDone, IsWhole, SerialInv, ReadProgress
<1> QED BY <1>1, <1>2, <1>3, <1>4, <1>5 DEF ReadInv, ReadIsWhole

\* No step of a save touches the file under its name or one a reader has open.
LEMMA Untouched ==
    ASSUME SerialInv, NEW w \in Writers, WriterStep(w)
    PROVE  /\ blocks'[path] = blocks[path]
           /\ \A r \in Readers : rpc[r] = "read" => blocks'[rfd[r]] = blocks[rfd[r]]
<1>1. \A r \in Readers : rpc[r] = "read" => rfd[r] \in Inodes /\ rfd[r] # tmp
  BY VersionAssumption DEF SerialInv, ReadProgress, TmpIsPrivate
<1>2. CASE OpenTmp(w)
  BY <1>1, <1>2 DEF OpenTmp, InUse, SerialInv, TypeOK, TmpIsPrivate
<1>3. CASE WriteSome(w)
  <2>1. fd[w] = tmp /\ tmp # path
    BY <1>3 DEF WriteSome, SerialInv, TmpIsPrivate
  <2> QED BY <1>1, <1>3, <2>1 DEF WriteSome, SerialInv, TypeOK
<1>4. CASE ~OpenTmp(w) /\ ~WriteSome(w)
  <2>1. UNCHANGED blocks
    BY <1>4 DEF WriterStep, Save, OpenFails, WriteFails, WriteDone, CloseTmp,
                RenameTmp, RenameFails, UnlinkTmp, Return, Crash
  <2> QED BY <2>1
<1> QED BY <1>2, <1>3, <1>4

LEMMA WriterRead ==
    ASSUME SerialInv, ~Overlap, ReadInv, NEW w \in Writers, WriterStep(w)
    PROVE  ReadInv'
<1> USE DEF WriterFrame, readerVars
<1>1. UNCHANGED <<rpc, rfd, rbuf>>
  BY DEF WriterStep, Save, OpenTmp, OpenFails, WriteSome, WriteFails, WriteDone,
         CloseTmp, RenameTmp, RenameFails, UnlinkTmp, Return, Crash
<1>2. /\ blocks'[path] = blocks[path]
      /\ \A r \in Readers : rpc[r] = "read" => blocks'[rfd[r]] = blocks[rfd[r]]
  BY Untouched
<1>3. \A x \in Writers : pc'[x] \in Saving => Len[version'[x]] < BufCap
  <2>1. ASSUME NEW v \in Versions, Save(w, v)
        PROVE  \A x \in Writers : pc'[x] \in Saving => Len[version'[x]] < BufCap
    BY <2>1, VersionAssumption, CapAssumption
       DEF Save, SerialInv, TypeOK, ReadInv, Saving
  <2>2. CASE ~\E v \in Versions : Save(w, v)
    <3>1. UNCHANGED version /\ \A x \in Writers : pc'[x] \in Saving => pc[x] \in Saving
      BY <2>2 DEF WriterStep, OpenTmp, OpenFails, WriteSome, WriteFails, WriteDone,
         CloseTmp, RenameTmp, RenameFails, UnlinkTmp, Return, Crash,
         SerialInv, TypeOK, Saving
    <3> QED BY <3>1 DEF ReadInv
  <2> QED BY <2>1, <2>2
<1>4. Fits(blocks'[path'])
  <2>1. CASE RenameTmp(w)
    BY <2>1 DEF RenameTmp, SerialInv, SaveProgress, TypeOK, ReadInv, Fits, Saving
  <2>2. CASE ~RenameTmp(w)
    <3>1. UNCHANGED path
      BY <2>2 DEF WriterStep, Save, OpenTmp, OpenFails, WriteSome, WriteFails,
         WriteDone, CloseTmp, RenameFails, UnlinkTmp, Return, Crash
    <3> QED BY <1>2, <3>1 DEF ReadInv
  <2> QED BY <2>1, <2>2
<1> QED BY <1>1, <1>2, <1>3, <1>4 DEF ReadInv, ReadIsWhole, Fits, IsWhole

LEMMA StepRead ==
    ASSUME ~Overlap PROVE SerialInv /\ ReadInv /\ [Next]_vars => ReadInv'
<1> SUFFICES ASSUME SerialInv, ReadInv, [Next]_vars PROVE ReadInv' OBVIOUS
<1>1. CASE Next BY <1>1, WriterRead, ReaderRead DEF Next
<1>2. CASE UNCHANGED vars
  BY <1>2 DEF ReadInv, ReadIsWhole, IsWhole, Fits, vars, writerVars, readerVars
<1> QED BY <1>1, <1>2

\* A successful read_file returns one complete configuration, provided the file
\* first found on disk fits the buffer and saves do not overlap.
THEOREM WholeReads ==
    ~Overlap => (Spec /\ Fits(blocks[path]) => []ReadIsWhole)
<1> SUFFICES ASSUME ~Overlap
             PROVE  Spec /\ Fits(blocks[path]) => []ReadIsWhole
  OBVIOUS
<1>1. ReadInv => ReadIsWhole BY DEF ReadInv
<1> QED BY <1>1, InitRead, StepRead, SerialInvariance, PTL DEF Spec

-----------------------------------------------------------------------------
(* The steps of saves and loads are those of AtomicFile.                    *)

\* The mapping of ConfigFile, for reading: a writer's save and a reader's
\* contents.
Saved(w) == IF pc[w] \in Saving THEN "saving" ELSE pc[w]
Seen(r) == CASE rpc[r] = "read" -> blocks[rfd[r]]
             [] rpc[r] = "loaded" -> rbuf[r]
             [] OTHER -> Blank

LEMMA AtomicInit == Init => Atomic!Init
<1> SUFFICES ASSUME Init PROVE Atomic!Init OBVIOUS
<1>1. blocks[path] \in {Whole(v) : v \in Versions} BY VersionAssumption DEF Init
<1>2. [w \in Writers |-> Saved(w)] = [w \in Writers |-> "idle"]
  BY DEF Init, Saved, Saving
<1>3. [w \in Writers |-> Whole(version[w])] \in [Writers -> {Whole(v) : v \in Versions}]
  BY DEF Init
<1>4. [r \in Readers |-> Seen(r)] = [r \in Readers |-> Blank] BY DEF Init, Seen
<1> QED BY <1>1, <1>2, <1>3, <1>4 DEF Init, Atomic!Init, Saved, Seen

\* A step of a writer changes the state of that writer's save only, and leaves
\* what readers hold alone.
LEMMA AtomicWriter ==
    ASSUME SerialInv, NEW w \in Writers, WriterStep(w)
    PROVE  [Atomic!Next]_(Atomic!vars)
<1> DEFINE save == [x \in Writers |-> Saved(x)]
           new == [x \in Writers |-> Whole(version[x])]
           seen == [r \in Readers |-> Seen(r)]
           Contents == {Whole(v) : v \in Versions}
<1>0. UNCHANGED <<rpc, rfd, rbuf>>
  BY DEF WriterStep, Save, OpenTmp, OpenFails, WriteSome, WriteFails, WriteDone,
         CloseTmp, RenameTmp, RenameFails, UnlinkTmp, Return, Crash, WriterFrame,
         readerVars
<1>1. UNCHANGED <<rpc, seen>>
  <2>1. ASSUME NEW r \in Readers PROVE Seen(r)' = Seen(r)
    BY <1>0, Untouched DEF Seen
  <2> QED BY <1>0, <2>1
<1>2. ASSUME NEW v \in Versions, Save(w, v) PROVE Atomic!Begin(w)
  <2>1. Saved(w) = "idle" BY <1>2 DEF Save, Saved, Saving
  <2>2. \/ save' = [save EXCEPT ![w] = "saving"]
        \/ save' = [save EXCEPT ![w] = "failed"]
    BY <1>2 DEF Save, Saved, Saving, SerialInv, TypeOK
  <2>3. new' = [new EXCEPT ![w] = Whole(v)]
    BY <1>2 DEF Save, SerialInv, TypeOK
  <2>4. blocks'[path'] = blocks[path] BY <1>2 DEF Save
  <2> QED BY <1>1, <2>1, <2>2, <2>3, <2>4
        DEF Atomic!Begin, Atomic!SaveTo, Atomic!readers, Saved, Seen
<1>3. CASE RenameTmp(w)
  <2>1. Saved(w) = "saving" /\ save' = [save EXCEPT ![w] = "saved"]
    BY <1>3 DEF RenameTmp, Saved, Saving, SerialInv, TypeOK
  <2>2. blocks'[path'] = Whole(version[w]) /\ UNCHANGED new
    BY <1>3 DEF RenameTmp, SerialInv, SaveProgress
  <2>3. Atomic!Commit(w)
    BY <1>1, <2>1, <2>2
       DEF Atomic!Commit, Atomic!SaveTo, Atomic!readers, Saved, Seen
  <2> QED BY <2>3 DEF Atomic!Next
<1>4. CASE OpenFails(w) \/ UnlinkTmp(w)
  <2>1. Saved(w) = "saving" /\ save' = [save EXCEPT ![w] = "failed"]
    BY <1>4 DEF OpenFails, UnlinkTmp, Saved, Saving, SerialInv, TypeOK
  <2>2. blocks'[path'] = blocks[path] /\ UNCHANGED new
    BY <1>4 DEF OpenFails, UnlinkTmp
  <2>3. Atomic!Abort(w)
    BY <1>1, <2>1, <2>2
       DEF Atomic!Abort, Atomic!SaveTo, Atomic!readers, Saved, Seen
  <2> QED BY <2>3 DEF Atomic!Next
<1>5. CASE Return(w) \/ Crash(w)
  <2>1. /\ Saved(w) \in {"saving", "saved", "failed"}
        /\ save' = [save EXCEPT ![w] = "idle"]
    BY <1>5 DEF Return, Crash, Saved, Saving, SerialInv, TypeOK
  <2>2. blocks'[path'] = blocks[path] /\ UNCHANGED new BY <1>5 DEF Return, Crash
  <2>3. Atomic!End(w)
    BY <1>1, <2>1, <2>2
       DEF Atomic!End, Atomic!SaveTo, Atomic!readers, Saved, Seen
  <2> QED BY <2>3 DEF Atomic!Next
<1>6. CASE \/ OpenTmp(w) \/ WriteSome(w) \/ WriteFails(w) \/ WriteDone(w)
           \/ CloseTmp(w) \/ RenameFails(w)
  <2>1. UNCHANGED save
    BY <1>6 DEF OpenTmp, WriteSome, WriteFails, WriteDone, CloseTmp, RenameFails,
                Saved, Saving, SerialInv, TypeOK
  <2>2. UNCHANGED <<path, new>>
    BY <1>6 DEF OpenTmp, WriteSome, WriteFails, WriteDone, CloseTmp, RenameFails
  <2>3. blocks'[path'] = blocks[path] BY <2>2, Untouched
  <2> QED BY <1>1, <2>1, <2>2, <2>3 DEF Atomic!vars, Saved, Seen
<1> QED BY <1>2, <1>3, <1>4, <1>5, <1>6 DEF WriterStep, Atomic!Next

LEMMA AtomicReader ==
    ASSUME SerialInv, ReadInv, NEW r \in Readers, ReaderStep(r)
    PROVE  [Atomic!Next]_(Atomic!vars)
<1> DEFINE seen == [q \in Readers |-> Seen(q)]
<1>0. UNCHANGED <<path, blocks, pc, version>>
  BY DEF ReaderStep, OpenConfig, ReadBlock, ReadFails, ReadDone, ReadAgain,
         ReaderFrame, writerVars
<1>1. UNCHANGED Atomic!writers BY <1>0 DEF Atomic!writers
<1>2. \A q \in Readers : q # r => Seen(q)' = Seen(q)
  BY <1>0 DEF ReaderStep, OpenConfig, ReadBlock, ReadFails, ReadDone, ReadAgain,
              SerialInv, TypeOK, Seen
<1>3. CASE OpenConfig(r)
  <2>1. seen' = [seen EXCEPT ![r] = blocks[path]]
    <3>1. Seen(r)' = blocks[path] BY <1>0, <1>3 DEF OpenConfig, SerialInv, TypeOK, Seen
    <3> QED BY <1>2, <3>1
  <2>2. Atomic!Open(r) BY <1>1, <1>3, <2>1 DEF Atomic!Open, OpenConfig, Seen
  <2> QED BY <2>2 DEF Atomic!Next
<1>4. CASE ReadBlock(r)
  <2>1. Seen(r)' = Seen(r) BY <1>0, <1>4 DEF ReadBlock, Seen
  <2>2. UNCHANGED <<rpc, seen>> BY <1>2, <1>4, <2>1 DEF ReadBlock
  <2> QED BY <1>1, <2>2 DEF Atomic!vars, Atomic!writers, Seen
<1>5. CASE ReadDone(r)
  <2>1. Seen(r)' = Seen(r)
    BY <1>0, <1>5, ReadsAll DEF ReadDone, SerialInv, TypeOK, Seen
  <2>2. UNCHANGED seen BY <1>2, <2>1
  <2>3. Atomic!Load(r) BY <1>1, <1>5, <2>2 DEF Atomic!Load, ReadDone, Seen
  <2> QED BY <2>3 DEF Atomic!Next
<1>6. CASE ReadFails(r)
  <2>1. Seen(r)' = Blank BY <1>6 DEF ReadFails, SerialInv, TypeOK, Seen
  <2>2. seen' = [seen EXCEPT ![r] = Blank] BY <1>2, <2>1
  <2>3. Atomic!Fail(r) BY <1>1, <1>6, <2>2 DEF Atomic!Fail, ReadFails, Seen
  <2> QED BY <2>3 DEF Atomic!Next
<1>7. CASE ReadAgain(r)
  <2>1. Seen(r)' = Blank BY <1>7 DEF ReadAgain, SerialInv, TypeOK, Seen
  <2>2. seen' = [seen EXCEPT ![r] = Blank] BY <1>2, <2>1
  <2>3. Atomic!Again(r) BY <1>1, <1>7, <2>2 DEF Atomic!Again, ReadAgain, Seen
  <2> QED BY <2>3 DEF Atomic!Next
<1> QED BY <1>3, <1>4, <1>5, <1>6, <1>7 DEF ReaderStep

\* write_file_secure and read_file implement a file that is replaced and read in
\* one instant, for any number of processes whose saves do not overlap, if the
\* file first found on disk fits the buffer.
THEOREM Refinement ==
    ~Overlap => (Spec /\ Fits(blocks[path]) => ImplementsAtomicFile)
<1> SUFFICES ASSUME ~Overlap
             PROVE  Spec /\ Fits(blocks[path]) => ImplementsAtomicFile
  OBVIOUS
<1>1. SerialInv /\ ReadInv /\ [Next]_vars => [Atomic!Next]_(Atomic!vars)
  <2> SUFFICES ASSUME SerialInv, ReadInv, [Next]_vars
               PROVE  [Atomic!Next]_(Atomic!vars)
    OBVIOUS
  <2>1. CASE Next BY <2>1, AtomicWriter, AtomicReader DEF Next
  <2>2. CASE UNCHANGED vars
    BY <2>2 DEF vars, writerVars, readerVars, Atomic!vars
  <2> QED BY <2>1, <2>2
<1> QED BY <1>1, AtomicInit, InitRead, StepRead, SerialInvariance, PTL
        DEF Spec, ImplementsAtomicFile, Atomic!Spec
=============================================================================
