-------------------------- MODULE ProgressBarProofs --------------------------
(***************************************************************************)
(* Safety of the progress bar for every width, animation, set of pool      *)
(* threads and sequence of reports: one tick at a time, a screen that      *)
(* shows currentText, and a bar that is not ahead of its percentage.       *)
(***************************************************************************)
EXTENDS ProgressBar, SequenceTheorems, WellFoundedInduction, TLAPS

\* What may stand in a place of the console.
Chars == {"blank", "full", "empty", "percent", "tick", "saved"} \X Int

Steps == {"idle", "lock", "blocks", "percent", "write", "reset", "unlock"}

LockType ==
    /\ lock \in Workers \cup {"free"}
    /\ handler \in [Workers -> [pc : Steps, blocks : Int, percent : 0 .. 100]]
    /\ main \in {"download", "dispose_done", "dispose_failed", "newline", "message",
                 "thrown", "key", "exited"}

\* After Dispose nobody is inside the lock, and on a redirected console nobody
\* ever was.
BarOver ==
    /\ disposed <=> main \notin {"download", "dispose_done", "dispose_failed"}
    /\ disposed \/ redirected => \A w \in Workers : handler[w].pc \in {"idle", "lock"}
    /\ redirected => ~armed /\ \A w \in Workers : handler[w].pc = "idle"

\* The progress is a percentage; unless it was lowered in the meantime, the
\* blocks a handler has read are not ahead of the percentage it will read.
ProgressRead ==
    /\ currentProgress \in 0 .. 100
    /\ ~lowered => \A w \in Workers :
         /\ handler[w].pc = "percent" => handler[w].blocks <= Blocks(currentProgress)
         /\ handler[w].pc = "write" /\ showProgressBar =>
               handler[w].blocks <= Blocks(handler[w].percent)

\* The text on the screen is nothing, or what some handler made of a reading.
TextDrawn ==
    currentText = <<>> \/ ~showProgressBar \/
        \E blocks \in Int, percent \in 0 .. 100, tick \in Int :
            /\ drawnLowered \/ blocks <= Blocks(percent)
            /\ currentText = Bar(blocks) \o <<<<"percent", percent>>>> \o <<<<"tick", tick>>>>

\* The line l, with the cursor at c, shows the text t and then blanks.
Displays(l, c, t) ==
    /\ c = Len(t) /\ Len(l) >= c
    /\ \A i \in 1 .. c : l[i] = t[i]
    /\ \A i \in c + 1 .. Len(l) : l[i] = Blank

\* Until MainAsync ends the line, the console shows currentText and blanks.
Screen ==
    /\ line \in Seq(Chars) /\ currentText \in Seq(Chars) /\ animationIndex \in Int
    /\ main \notin {"message", "key", "exited"} => Displays(line, cursor, currentText)
    /\ main \in {"newline", "thrown", "message"} => currentText = <<>> /\ cursor = 0
    /\ main = "message" => line = <<>>
    /\ main = "key" => line = <<Char("saved")>>
    /\ redirected => currentText = <<>>
    /\ redirected /\ main \notin {"key", "exited"} => line = <<>>

IInv ==
    /\ LockType /\ OneTick /\ BarOver
    /\ ProgressRead /\ TextDrawn /\ Screen

-----------------------------------------------------------------------------
(* Facts about the operators.                                              *)

\* A set of naturals has a least element.
LEMMA LeastNat ==
    ASSUME NEW T, T \subseteq Nat, T # {}
    PROVE  \E n \in T : \A m \in T : n <= m
<1> DEFINE R == OpToRel(<, Nat)
<1>1. IsWellFoundedOn(R, Nat) BY NatLessThanWellFounded
<1>2. \A x, y \in Nat : x < y => <<x, y>> \in R BY DEF OpToRel
<1> HIDE DEF R
<1>3. PICK n \in T : \A m \in T : ~(<<m, n>> \in R) BY <1>1, WFMin
<1>4. ASSUME NEW m \in T PROVE n <= m
  <2>1. m \in Nat /\ n \in Nat /\ ~(m < n) BY <1>2, <1>3
  <2> QED BY <2>1
<1> QED BY <1>4

\* The loop of UpdateText finds the length of a common prefix.
LEMMA CommonPrefix ==
    ASSUME NEW text \in Seq(Chars), currentText \in Seq(Chars)
    PROVE  LET n == CommonPrefixLength(text)
           IN  /\ n \in Nat /\ n <= Len(text) /\ n <= Len(currentText)
               /\ \A i \in 1 .. n : text[i] = currentText[i]
<1> DEFINE P(n) == /\ n <= Len(currentText)
                   /\ \A i \in 1 .. n : text[i] = currentText[i]
                   /\ n < Len(text) /\ n < Len(currentText) => text[n + 1] # currentText[n + 1]
           T == {n \in Nat : \/ n >= Len(text) \/ n >= Len(currentText)
                             \/ text[n + 1] # currentText[n + 1]}
<1>1. Len(text) \in Nat /\ Len(currentText) \in Nat BY LenProperties
<1>2. Len(text) \in T /\ Len(currentText) \in T BY <1>1
<1>3. PICK n \in T : \A m \in T : n <= m BY <1>2, LeastNat
<1>4. n \in Nat /\ n <= Len(text) /\ n <= Len(currentText) BY <1>2, <1>3
<1>5. ASSUME NEW i \in 1 .. n PROVE text[i] = currentText[i]
  <2>1. i - 1 \in Nat /\ i - 1 < n BY <1>4
  <2>2. i - 1 \notin T
    <3> HIDE DEF T
    <3> QED BY <2>1, <1>3, <1>4
  <2>3. (i - 1) + 1 = i BY <1>4
  <2> QED BY <2>1, <2>2, <2>3
<1>6. n \in 0 .. Len(text) /\ P(n) BY <1>1, <1>3, <1>4, <1>5
<1>7. CommonPrefixLength(text) \in 0 .. Len(text) /\ P(CommonPrefixLength(text))
  BY <1>6 DEF CommonPrefixLength
<1> QED BY <1>1, <1>7

\* A write over a line: what stands before it, what is written, what stands
\* behind it.
LEMMA Overwrite ==
    ASSUME NEW l \in Seq(Chars), NEW new \in Seq(Chars), NEW at \in 0 .. Len(l)
    PROVE  LET r == SubSeq(l, 1, at) \o new \o SubSeq(l, at + Len(new) + 1, Len(l))
           IN  /\ r \in Seq(Chars)
               /\ Len(r) = IF at + Len(new) >= Len(l) THEN at + Len(new) ELSE Len(l)
               /\ \A i \in 1 .. Len(r) :
                    r[i] = IF i <= at \/ i > at + Len(new) THEN l[i] ELSE new[i - at]
<1> DEFINE a == SubSeq(l, 1, at)
           c == SubSeq(l, at + Len(new) + 1, Len(l))
           ab == a \o new
           r == ab \o c
<1>1. Len(l) \in Nat /\ Len(new) \in Nat /\ at \in Nat /\ at <= Len(l) BY LenProperties
<1>2. /\ a \in Seq(Chars) /\ Len(a) = at
      /\ \A i \in 1 .. at : a[i] = l[i]
  <2>1. \A i \in 1 .. at : l[i] \in Chars BY <1>1, ElementOfSeq
  <2>2. /\ a \in Seq(Chars) /\ Len(a) = IF 1 <= at THEN at - 1 + 1 ELSE 0
        /\ \A i \in 1 .. at - 1 + 1 : a[i] = l[1 + i - 1]
    BY <1>1, <2>1, SubSeqProperties
  <2> QED BY <1>1, <2>2
<1>3. /\ c \in Seq(Chars)
      /\ Len(c) = IF at + Len(new) >= Len(l) THEN 0 ELSE Len(l) - (at + Len(new))
      /\ \A i \in 1 .. Len(l) - (at + Len(new)) : c[i] = l[at + Len(new) + i]
  <2> DEFINE m == at + Len(new) + 1
  <2>1. m \in Nat /\ m >= 1 BY <1>1
  <2>2. \A i \in m .. Len(l) : l[i] \in Chars BY <1>1, <2>1, ElementOfSeq
  <2>3. /\ c \in Seq(Chars)
        /\ Len(c) = IF m <= Len(l) THEN Len(l) - m + 1 ELSE 0
        /\ \A i \in 1 .. Len(l) - m + 1 : c[i] = l[m + i - 1]
    BY <1>1, <2>1, <2>2, SubSeqProperties
  <2> QED BY <1>1, <2>3
<1>4. /\ ab \in Seq(Chars) /\ Len(ab) = at + Len(new)
      /\ \A i \in 1 .. at + Len(new) : ab[i] = IF i <= at THEN l[i] ELSE new[i - at]
  <2> HIDE DEF a
  <2>1. /\ ab \in Seq(Chars) /\ Len(ab) = Len(a) + Len(new)
        /\ \A i \in 1 .. Len(a) + Len(new) :
             ab[i] = IF i <= Len(a) THEN a[i] ELSE new[i - Len(a)]
    BY <1>2, ConcatProperties
  <2> QED BY <1>1, <1>2, <2>1
<1>5. /\ r \in Seq(Chars) /\ Len(r) = Len(ab) + Len(c)
      /\ \A i \in 1 .. Len(ab) + Len(c) :
           r[i] = IF i <= Len(ab) THEN ab[i] ELSE c[i - Len(ab)]
  <2> HIDE DEF ab, c
  <2> QED BY <1>3, <1>4, ConcatProperties
<1> HIDE DEF r, ab, c
<1>6. Len(r) = IF at + Len(new) >= Len(l) THEN at + Len(new) ELSE Len(l)
  <2>1. Len(r) = at + Len(new) + Len(c) BY <1>4, <1>5
  <2>2. CASE at + Len(new) >= Len(l) BY <1>1, <1>3, <2>1, <2>2
  <2>3. CASE ~(at + Len(new) >= Len(l))
    <3>1. Len(c) = Len(l) - (at + Len(new)) BY <1>3, <2>3
    <3> QED BY <1>1, <2>1, <2>3, <3>1
  <2> QED BY <2>2, <2>3
<1>7. ASSUME NEW i \in 1 .. Len(r)
      PROVE  r[i] = IF i <= at \/ i > at + Len(new) THEN l[i] ELSE new[i - at]
  <2>0. Len(c) \in Nat BY <1>3, LenProperties
  <2>1. CASE i <= at + Len(new)
    <3>1. i \in 1 .. Len(ab) + Len(c) /\ i <= Len(ab) BY <1>1, <1>4, <2>0, <2>1
    <3>2. r[i] = ab[i] BY <1>5, <3>1
    <3> QED BY <1>1, <1>4, <2>1, <3>2
  <2>2. CASE i > at + Len(new)
    <3>1. i - (at + Len(new)) \in 1 .. Len(l) - (at + Len(new))
      BY <1>1, <1>6, <2>2
    <3>2. c[i - (at + Len(new))] = l[i] BY <1>1, <1>3, <3>1
    <3>3. i \in 1 .. Len(ab) + Len(c) /\ ~(i <= Len(ab)) BY <1>1, <1>4, <1>5, <2>0, <2>2
    <3>4. r[i] = c[i - (at + Len(new))] BY <1>4, <1>5, <3>3
    <3> QED BY <1>1, <2>2, <3>2, <3>4
  <2> QED BY <1>1, <1>6, <2>1, <2>2
<1> QED BY <1>5, <1>6, <1>7 DEF r, ab, c

\* The blanks of Write and the blocks of the bar are characters.
LEMMA BlanksAreChars ==
    ASSUME NEW k \in Nat
    PROVE  [i \in 1 .. k |-> Blank] \in Seq(Chars) /\ Len([i \in 1 .. k |-> Blank]) = k
<1> DEFINE b == [i \in 1 .. k |-> Blank]
<1>1. Blank \in Chars BY DEF Blank, Char, Chars
<1>2. b \in [1 .. k -> Chars] BY <1>1
<1>3. b \in Seq(Chars) BY <1>2, SeqDef
<1>4. DOMAIN b = 1 .. k OBVIOUS
<1> QED BY <1>3, <1>4, LenProperties

LEMMA BarIsChars ==
    ASSUME NEW b \in Int
    PROVE  /\ Bar(b) \in Seq(Chars) /\ Len(Bar(b)) = BlockCount
           /\ \A i \in 1 .. BlockCount : Bar(b)[i] = Char("full") => i <= b
<1>1. Char("full") \in Chars /\ Char("empty") \in Chars /\ Char("empty") # Char("full")
  BY DEF Char, Chars
<1>2. Bar(b) \in [1 .. BlockCount -> Chars] BY <1>1 DEF Bar
<1>3. Bar(b) \in Seq(Chars) BY <1>2, SeqDef, BlockCountAssumption
<1>4. DOMAIN Bar(b) = 1 .. BlockCount BY DEF Bar
<1>5. Len(Bar(b)) = BlockCount BY <1>3, <1>4, LenProperties, BlockCountAssumption
<1>6. \A i \in 1 .. BlockCount : Bar(b)[i] = Char("full") => i <= b BY <1>1 DEF Bar
<1> QED BY <1>3, <1>5, <1>6

\* UpdateText, which writes only what differs, leaves the new text on the screen
\* and blanks where a longer one stood.
LEMMA UpdateTextShows ==
    ASSUME NEW text \in Seq(Chars), line \in Seq(Chars), currentText \in Seq(Chars),
           Displays(line, cursor, currentText), UpdateText(text)
    PROVE  /\ line' \in Seq(Chars) /\ currentText' = text
           /\ Displays(line', cursor', text)
           /\ line = <<>> /\ text = <<>> => line' = <<>>
<1> DEFINE common == CommonPrefixLength(text)
           overlap == IF Len(currentText) - Len(text) > 0
                        THEN Len(currentText) - Len(text) ELSE 0
           suffix == SubSeq(text, common + 1, Len(text))
           blanks == [i \in 1 .. overlap |-> Blank]
           new == suffix \o blanks
<1>1. /\ Len(text) \in Nat /\ Len(currentText) \in Nat /\ Len(line) \in Nat
      /\ overlap \in Nat
  BY LenProperties
<1>2. /\ common \in Nat /\ common <= Len(text) /\ common <= Len(currentText)
      /\ \A i \in 1 .. common : text[i] = currentText[i]
  BY CommonPrefix
<1>3. cursor - (Len(currentText) - common) = common BY <1>1, <1>2 DEF Displays
<1>4. /\ line' = SubSeq(line, 1, common) \o new
                   \o SubSeq(line, common + Len(new) + 1, Len(line))
      /\ cursor' = common + Len(suffix)
      /\ currentText' = text
  BY <1>3 DEF UpdateText, Write
<1> HIDE DEF common
<1>5. /\ suffix \in Seq(Chars) /\ Len(suffix) = Len(text) - common
      /\ \A i \in 1 .. Len(text) - common : suffix[i] = text[common + i]
  <2>1. \A i \in common + 1 .. Len(text) : text[i] \in Chars
    BY <1>1, <1>2, ElementOfSeq
  <2>2. common + 1 \in Int /\ Len(text) \in Int BY <1>1, <1>2
  <2>3. /\ suffix \in Seq(Chars)
        /\ Len(suffix) = IF common + 1 <= Len(text) THEN Len(text) - (common + 1) + 1 ELSE 0
        /\ \A i \in 1 .. Len(text) - (common + 1) + 1 :
              suffix[i] = text[(common + 1) + i - 1]
    BY <2>1, <2>2, SubSeqProperties
  <2> QED BY <1>1, <1>2, <2>3
<1>6. blanks \in Seq(Chars) /\ Len(blanks) = overlap /\ \A i \in 1 .. overlap : blanks[i] = Blank
  BY <1>1, BlanksAreChars
<1> HIDE DEF suffix, blanks
<1>7. /\ new \in Seq(Chars) /\ Len(new) = Len(text) - common + overlap
      /\ \A i \in 1 .. Len(text) - common + overlap :
           new[i] = IF i <= Len(text) - common THEN text[common + i] ELSE Blank
  <2>1. /\ new \in Seq(Chars) /\ Len(new) = Len(suffix) + Len(blanks)
        /\ \A i \in 1 .. Len(suffix) + Len(blanks) :
             new[i] = IF i <= Len(suffix) THEN suffix[i] ELSE blanks[i - Len(suffix)]
    BY <1>5, <1>6, ConcatProperties
  <2> HIDE DEF new, overlap
  <2>2. ASSUME NEW i \in 1 .. Len(text) - common + overlap
        PROVE  new[i] = IF i <= Len(text) - common THEN text[common + i] ELSE Blank
    <3>1. CASE i <= Len(text) - common BY <1>1, <1>2, <1>5, <1>6, <2>1, <3>1
    <3>2. CASE i > Len(text) - common
      <4>1. i - Len(suffix) \in 1 .. overlap BY <1>1, <1>2, <1>5, <3>2
      <4>2. new[i] = blanks[i - Len(suffix)] BY <1>1, <1>2, <1>5, <1>6, <2>1, <3>2
      <4> QED BY <1>1, <1>2, <1>6, <3>2, <4>1, <4>2
    <3> QED BY <1>1, <1>2, <3>1, <3>2
  <2> QED BY <1>5, <1>6, <2>1, <2>2
<1> HIDE DEF new
<1>8. common \in 0 .. Len(line) BY <1>1, <1>2 DEF Displays
<1>9. /\ line' \in Seq(Chars)
      /\ Len(line') = IF common + Len(new) >= Len(line) THEN common + Len(new) ELSE Len(line)
      /\ \A i \in 1 .. Len(line') :
           line'[i] = IF i <= common \/ i > common + Len(new) THEN line[i] ELSE new[i - common]
  <2> DEFINE over == SubSeq(line, 1, common) \o new
                       \o SubSeq(line, common + Len(new) + 1, Len(line))
  <2>1. /\ over \in Seq(Chars)
        /\ Len(over) = IF common + Len(new) >= Len(line) THEN common + Len(new) ELSE Len(line)
        /\ \A i \in 1 .. Len(over) :
             over[i] = IF i <= common \/ i > common + Len(new) THEN line[i] ELSE new[i - common]
    BY <1>7, <1>8, Overwrite
  <2>2. line' = over BY <1>4
  <2> HIDE DEF over
  <2> QED BY <2>1, <2>2
<1>10. common + Len(new) = Len(text) + overlap BY <1>1, <1>2, <1>7
<1>11. cursor' = Len(text) /\ Len(line') >= Len(text) /\ Len(line') \in Nat
  <2>1. Len(line') \in Nat BY <1>9, LenProperties
  <2>2. Len(line') >= Len(text) + overlap
    <3> HIDE DEF overlap
    <3> QED BY <1>1, <1>9, <1>10
  <2>3. cursor' = Len(text) BY <1>1, <1>2, <1>4, <1>5
  <2>4. Len(text) + overlap >= Len(text) BY <1>1
  <2> HIDE DEF overlap
  <2> QED BY <1>1, <2>1, <2>2, <2>3, <2>4
<1>12. ASSUME NEW i \in 1 .. Len(text) PROVE line'[i] = text[i]
  <2>1. i \in 1 .. Len(line') /\ i <= common + Len(new) BY <1>1, <1>10, <1>11
  <2>2. CASE i <= common
    <3>1. line'[i] = line[i] BY <1>9, <2>1, <2>2
    <3>2. i \in 1 .. cursor /\ i \in 1 .. common BY <1>1, <1>2, <2>2 DEF Displays
    <3> QED BY <1>2, <3>1, <3>2 DEF Displays
  <2>3. CASE i > common
    <3>1. line'[i] = new[i - common]
      <4>1. ~(i <= common \/ i > common + Len(new)) BY <1>1, <1>2, <1>7, <2>1, <2>3
      <4> QED BY <1>9, <2>1, <4>1
    <3>2. i - common \in 1 .. Len(text) - common + overlap /\ i - common <= Len(text) - common
      BY <1>1, <1>2, <2>3
    <3>3. common + (i - common) = i BY <1>1, <1>2
    <3> QED BY <1>7, <3>1, <3>2, <3>3
  <2> QED BY <1>1, <1>2, <2>2, <2>3
<1>13. ASSUME NEW i \in Len(text) + 1 .. Len(line') PROVE line'[i] = Blank
  <2>1. i \in 1 .. Len(line') /\ i > common BY <1>1, <1>2, <1>11
  <2>2. CASE i <= common + Len(new)
    <3>1. line'[i] = new[i - common] BY <1>1, <1>2, <1>9, <1>10, <2>1, <2>2
    <3>2. i - common \in 1 .. Len(text) - common + overlap /\ ~(i - common <= Len(text) - common)
      BY <1>1, <1>2, <1>10, <1>11, <2>2
    <3> QED BY <1>7, <3>1, <3>2
  <2>3. CASE i > common + Len(new)
    <3>1. line'[i] = line[i] BY <1>9, <2>1, <2>3
    <3>2. Len(currentText) <= Len(text) + overlap BY <1>1
    <3>3. i \in cursor + 1 .. Len(line)
      BY <1>1, <1>2, <1>9, <1>10, <1>11, <2>1, <2>3, <3>2 DEF Displays
    <3> QED BY <3>1, <3>3 DEF Displays
  <2> QED BY <1>1, <1>2, <1>10, <1>11, <2>1, <2>2, <2>3
<1>14. line = <<>> /\ text = <<>> => line' = <<>>
  <2> SUFFICES ASSUME line = <<>>, text = <<>> PROVE line' = <<>> OBVIOUS
  <2>1. Len(line) = 0 /\ Len(text) = 0 BY EmptySeq
  <2>2. Len(currentText) = 0 BY <1>1, <2>1 DEF Displays
  <2>3. Len(line') = 0 BY <1>1, <1>9, <1>10, <2>1, <2>2 DEF overlap
  <2> QED BY <1>9, <2>3, EmptySeq
<1> QED BY <1>4, <1>9, <1>11, <1>12, <1>13, <1>14 DEF Displays

\* Whatever is reported is cut to a percentage.
LEMMA ClampFacts == \A v \in Int : Clamp(v) \in 0 .. 100
BY DEF Clamp

\* The number of blocks never turns the order of two percentages round.
LEMMA BlocksFacts ==
    ASSUME NEW p \in 0 .. 100, NEW q \in 0 .. 100, p <= q
    PROVE  Blocks(p) \in Int /\ Blocks(q) \in Int /\ Blocks(p) <= Blocks(q)
<1>1. p * BlockCount \in Nat /\ q * BlockCount \in Nat
  BY BlockCountAssumption
<1>2. p * BlockCount <= q * BlockCount BY BlockCountAssumption
<1>3. \A m, n \in Nat : m <= n => m \div 100 <= n \div 100 /\ m \div 100 \in Int /\ n \div 100 \in Int
  OBVIOUS
<1> QED BY <1>1, <1>2, <1>3 DEF Blocks

-----------------------------------------------------------------------------
(* The invariant.                                                          *)

LEMMA InitInv == Init => IInv
<1> SUFFICES ASSUME Init PROVE IInv OBVIOUS
<1>1. LockType BY DEF Init, LockType, Idle, Steps
<1>2. OneTick BY WorkersAssumption DEF Init, OneTick, Idle
<1>3. BarOver BY DEF Init, BarOver, Idle
<1>4. ProgressRead BY DEF Init, ProgressRead, Idle
<1>5. TextDrawn BY DEF Init, TextDrawn
<1>6. Screen BY EmptySeq DEF Init, Screen, Displays
<1> QED BY <1>1, <1>2, <1>3, <1>4, <1>5, <1>6 DEF IInv

LEMMA LockTypeInv == ASSUME IInv, [Next]_vars PROVE LockType'
<1> LockType /\ ProgressRead BY DEF IInv
<1> USE DEF LockType, Steps
<1>1. ASSUME NEW w \in Workers, Fire(w) PROVE LockType' BY <1>1 DEF Fire
<1>2. ASSUME NEW w \in Workers, Enter(w) PROVE LockType' BY <1>2 DEF Enter, Idle
<1>3. ASSUME NEW w \in Workers, ReadProgress(w) PROVE LockType'
  <2>1. currentProgress \in 0 .. 100 BY DEF ProgressRead
  <2>2. Blocks(currentProgress) \in Int BY <2>1, BlocksFacts
  <2> QED BY <1>3, <2>1, <2>2 DEF ReadProgress
<1>4. ASSUME NEW w \in Workers, Draw(w) PROVE LockType' BY <1>4 DEF Draw, Idle
<1>5. ASSUME NEW w \in Workers, ResetTimer(w) PROVE LockType' BY <1>5 DEF ResetTimer
<1>6. ASSUME NEW w \in Workers, Leave(w) PROVE LockType' BY <1>6 DEF Leave, Idle
<1>7. ASSUME NEW value \in Reported, Report(value) PROVE LockType' BY <1>7 DEF Report
<1>8. CASE DownloadEnds \/ Dispose \/ NewLine \/ Message
  BY <1>8 DEF DownloadEnds, Dispose, NewLine, Message
<1>9. CASE Exit BY <1>9 DEF Exit, Idle
<1>10. CASE UNCHANGED vars BY <1>10 DEF vars
<1> QED BY <1>1, <1>2, <1>3, <1>4, <1>5, <1>6, <1>7, <1>8, <1>9, <1>10
        DEF Next, TimerHandler

\* One-shot timer and lock together: the callback that arms the timer is the
\* only one under way.
LEMMA OneTickInv == ASSUME IInv, [Next]_vars PROVE OneTick'
<1> LockType /\ OneTick BY DEF IInv
<1> USE WorkersAssumption DEF LockType, Steps, OneTick
<1>1. ASSUME NEW w \in Workers, Fire(w) PROVE OneTick' BY <1>1 DEF Fire
<1>2. ASSUME NEW w \in Workers, Enter(w) PROVE OneTick' BY <1>2 DEF Enter, Idle
<1>3. ASSUME NEW w \in Workers, ReadProgress(w) PROVE OneTick' BY <1>3 DEF ReadProgress
<1>4. ASSUME NEW w \in Workers, Draw(w) PROVE OneTick' BY <1>4 DEF Draw, Idle
<1>5. ASSUME NEW w \in Workers, ResetTimer(w) PROVE OneTick' BY <1>5 DEF ResetTimer
<1>6. ASSUME NEW w \in Workers, Leave(w) PROVE OneTick' BY <1>6 DEF Leave, Idle
<1>7. ASSUME NEW value \in Reported, Report(value) PROVE OneTick' BY <1>7 DEF Report
<1>8. CASE DownloadEnds \/ Dispose \/ NewLine \/ Message
  BY <1>8 DEF DownloadEnds, Dispose, NewLine, Message
<1>9. CASE Exit BY <1>9 DEF Exit, Idle
<1>10. CASE UNCHANGED vars BY <1>10 DEF vars
<1> QED BY <1>1, <1>2, <1>3, <1>4, <1>5, <1>6, <1>7, <1>8, <1>9, <1>10
        DEF Next, TimerHandler

\* Nothing is drawn after Dispose, and nothing at all on a redirected console.
LEMMA BarOverInv == ASSUME IInv, [Next]_vars PROVE BarOver'
<1> LockType /\ OneTick /\ BarOver BY DEF IInv
<1> USE WorkersAssumption DEF LockType, Steps, BarOver, setup
<1>1. ASSUME NEW w \in Workers, Fire(w) PROVE BarOver' BY <1>1 DEF Fire
<1>2. ASSUME NEW w \in Workers, Enter(w) PROVE BarOver' BY <1>2 DEF Enter, Idle
<1>3. ASSUME NEW w \in Workers, ReadProgress(w) PROVE BarOver' BY <1>3 DEF ReadProgress
<1>4. ASSUME NEW w \in Workers, Draw(w) PROVE BarOver' BY <1>4 DEF Draw
<1>5. ASSUME NEW w \in Workers, ResetTimer(w) PROVE BarOver' BY <1>5 DEF ResetTimer
<1>6. ASSUME NEW w \in Workers, Leave(w) PROVE BarOver' BY <1>6 DEF Leave, Idle
<1>7. ASSUME NEW value \in Reported, Report(value) PROVE BarOver' BY <1>7 DEF Report
<1>8. CASE DownloadEnds \/ NewLine \/ Message BY <1>8 DEF DownloadEnds, NewLine, Message
<1>9. CASE Dispose BY <1>9 DEF Dispose, OneTick
<1>10. CASE Exit BY <1>10 DEF Exit, Idle
<1>11. CASE UNCHANGED vars BY <1>11 DEF vars
<1> QED BY <1>1, <1>2, <1>3, <1>4, <1>5, <1>6, <1>7, <1>8, <1>9, <1>10, <1>11
        DEF Next, TimerHandler

\* A report between the two readings raises the second, or is noted.
LEMMA ProgressReadInv == ASSUME IInv, [Next]_vars PROVE ProgressRead'
<1> LockType /\ OneTick /\ ProgressRead BY DEF IInv
<1>0. currentProgress \in 0 .. 100 /\ Blocks(currentProgress) \in Int
  BY BlocksFacts DEF ProgressRead
<1> USE DEF LockType, Steps, ProgressRead, setup, history
<1>1. ASSUME NEW w \in Workers, Fire(w) PROVE ProgressRead' BY <1>1 DEF Fire
<1>2. ASSUME NEW w \in Workers, Enter(w) PROVE ProgressRead' BY <1>2 DEF Enter, Idle
<1>3. ASSUME NEW w \in Workers, ReadProgress(w) PROVE ProgressRead'
  <2>1. \A v \in Workers : handler[v].pc \in {"percent", "write"} => v = w
    BY <1>3, WorkersAssumption DEF ReadProgress, OneTick
  <2> QED BY <1>0, <1>3, <2>1 DEF ReadProgress
<1>4. ASSUME NEW w \in Workers, Draw(w) PROVE ProgressRead' BY <1>4 DEF Draw, Idle
<1>5. ASSUME NEW w \in Workers, ResetTimer(w) PROVE ProgressRead' BY <1>5 DEF ResetTimer
<1>6. ASSUME NEW w \in Workers, Leave(w) PROVE ProgressRead' BY <1>6 DEF Leave, Idle
<1>7. ASSUME NEW value \in Reported, Report(value) PROVE ProgressRead'
  <2>1. Clamp(value) \in 0 .. 100 BY ReportedAssumption, ClampFacts
  <2>2. /\ currentProgress' = Clamp(value) /\ UNCHANGED <<handler, showProgressBar>>
        /\ ~lowered' => ~lowered /\ (\/ currentProgress <= Clamp(value)
                                    \/ \A w \in Workers : handler[w].pc # "percent")
    <3>1. ~lowered' => ~lowered /\ ~(/\ Clamp(value) < currentProgress
                                    /\ \E w \in Workers : handler[w].pc = "percent")
      BY <1>7, Zenon DEF Report
    <3> QED BY <1>0, <1>7, <2>1, <3>1 DEF Report
  <2>3. currentProgress <= Clamp(value) =>
           Blocks(currentProgress) <= Blocks(Clamp(value)) /\ Blocks(Clamp(value)) \in Int
    BY <1>0, <2>1, BlocksFacts
  <2> QED BY <1>0, <2>1, <2>2, <2>3
<1>8. CASE DownloadEnds \/ Dispose \/ NewLine \/ Message
  <2>1. UNCHANGED <<handler, currentProgress, lowered, showProgressBar>>
    BY <1>8 DEF DownloadEnds, Dispose, NewLine, Message
  <2> QED BY <2>1
<1>9. CASE Exit BY <1>9 DEF Exit, Idle
<1>10. CASE UNCHANGED vars BY <1>10 DEF vars
<1> QED BY <1>1, <1>2, <1>3, <1>4, <1>5, <1>6, <1>7, <1>8, <1>9, <1>10
        DEF Next, TimerHandler

\* What a handler draws is a text of characters.
LEMMA TextIsChars ==
    ASSUME NEW blocks \in Int, NEW percent \in Int, NEW tick \in Int
    PROVE  /\ <<<<"tick", tick>>>> \in Seq(Chars)
           /\ Bar(blocks) \o <<<<"percent", percent>>>> \o <<<<"tick", tick>>>> \in Seq(Chars)
           /\ Len(Bar(blocks) \o <<<<"percent", percent>>>> \o <<<<"tick", tick>>>>)
                = BlockCount + 2
           /\ \A i \in 1 .. BlockCount :
                (Bar(blocks) \o <<<<"percent", percent>>>> \o <<<<"tick", tick>>>>)[i]
                   = Bar(blocks)[i]
           /\ (Bar(blocks) \o <<<<"percent", percent>>>> \o <<<<"tick", tick>>>>)[BlockCount + 1]
                = <<"percent", percent>>
<1> DEFINE P == <<<<"percent", percent>>>>
           K == <<<<"tick", tick>>>>
           BP == Bar(blocks) \o P
           T == BP \o K
<1>1. P \in Seq(Chars) /\ Len(P) = 1 /\ P[1] = <<"percent", percent>> BY DEF Chars
<1>2. K \in Seq(Chars) /\ Len(K) = 1 BY DEF Chars
<1>3. Bar(blocks) \in Seq(Chars) /\ Len(Bar(blocks)) = BlockCount BY BarIsChars
<1> HIDE DEF P, K
<1>4. /\ BP \in Seq(Chars) /\ Len(BP) = BlockCount + 1
      /\ \A i \in 1 .. BlockCount + 1 :
           BP[i] = IF i <= BlockCount THEN Bar(blocks)[i] ELSE P[i - BlockCount]
  <2>1. /\ BP \in Seq(Chars) /\ Len(BP) = Len(Bar(blocks)) + Len(P)
        /\ \A i \in 1 .. Len(Bar(blocks)) + Len(P) :
             BP[i] = IF i <= Len(Bar(blocks)) THEN Bar(blocks)[i] ELSE P[i - Len(Bar(blocks))]
    BY <1>1, <1>3, ConcatProperties
  <2> HIDE DEF BP
  <2> QED BY <1>1, <1>3, <2>1
<1> HIDE DEF BP
<1>5. /\ T \in Seq(Chars) /\ Len(T) = BlockCount + 1 + 1
      /\ \A i \in 1 .. BlockCount + 1 + 1 :
           T[i] = IF i <= BlockCount + 1 THEN BP[i] ELSE K[i - (BlockCount + 1)]
  <2>1. /\ T \in Seq(Chars) /\ Len(T) = Len(BP) + Len(K)
        /\ \A i \in 1 .. Len(BP) + Len(K) :
             T[i] = IF i <= Len(BP) THEN BP[i] ELSE K[i - Len(BP)]
    BY <1>2, <1>4, ConcatProperties
  <2> HIDE DEF T
  <2> QED BY <1>2, <1>4, <2>1
<1> HIDE DEF T
<1>6. \A i \in 1 .. BlockCount : T[i] = Bar(blocks)[i]
  BY <1>4, <1>5, BlockCountAssumption
<1>7. T[BlockCount + 1] = <<"percent", percent>>
  <2>1. T[BlockCount + 1] = BP[BlockCount + 1] BY <1>5, BlockCountAssumption
  <2>2. BP[BlockCount + 1] = P[1] BY <1>4, BlockCountAssumption
  <2> QED BY <1>1, <2>1, <2>2
<1>8. Len(T) = BlockCount + 2 BY <1>5, BlockCountAssumption
<1> QED BY <1>2, <1>5, <1>6, <1>7, <1>8 DEF T, BP, P, K

\* UpdateText sets currentText, and nothing but Draw and Dispose calls it.
LEMMA TextDrawnInv == ASSUME IInv, [Next]_vars PROVE TextDrawn'
<1> LockType /\ ProgressRead /\ TextDrawn /\ Screen BY DEF IInv
<1>1. ASSUME NEW w \in Workers, Draw(w) PROVE TextDrawn'
  <2>1. /\ currentText' = Text(handler[w]) /\ showProgressBar' = showProgressBar
        /\ handler[w].pc = "write" /\ drawnLowered' = lowered
    BY <1>1 DEF Draw, UpdateText, setup
  <2>2. /\ handler[w].blocks \in Int /\ handler[w].percent \in 0 .. 100
        /\ animationIndex \in Int
    BY DEF LockType, Screen
  <2>3. showProgressBar /\ ~drawnLowered' => handler[w].blocks <= Blocks(handler[w].percent)
    BY <2>1 DEF ProgressRead
  <2>4. showProgressBar =>
           currentText' = Bar(handler[w].blocks) \o <<<<"percent", handler[w].percent>>>>
                            \o <<<<"tick", animationIndex>>>>
    BY <2>1 DEF Text, Spinner
  <2> QED BY <2>1, <2>2, <2>3, <2>4 DEF TextDrawn
<1>2. CASE Dispose
  <2>1. currentText' = <<>> BY <1>2 DEF Dispose, UpdateText
  <2> QED BY <2>1 DEF TextDrawn
<1>3. CASE UNCHANGED <<currentText, showProgressBar, drawnLowered>> BY <1>3 DEF TextDrawn
<1> QED BY <1>1, <1>2, <1>3
        DEF Next, TimerHandler, Fire, Enter, ReadProgress, ResetTimer, Leave, Report,
        DownloadEnds, NewLine, Message, Exit, vars, setup, history

\* The screen after each step that writes.
LEMMA ScreenInv == ASSUME IInv, [Next]_vars PROVE Screen'
<1> LockType /\ OneTick /\ BarOver /\ Screen BY DEF IInv
<1>1. ASSUME NEW w \in Workers, Draw(w) PROVE Screen'
  <2> DEFINE text == Text(handler[w])
  <2>1. text \in Seq(Chars)
    <3>1. handler[w].blocks \in Int /\ handler[w].percent \in 0 .. 100
      BY DEF LockType
    <3>2. handler[w].percent \in Int BY <3>1
    <3>3. animationIndex \in Int BY DEF Screen
    <3> QED BY <3>1, <3>2, <3>3, TextIsChars DEF Text, Spinner
  <2>2. handler[w].pc = "write" /\ UpdateText(text) /\ UNCHANGED <<setup, main>>
    BY <1>1 DEF Draw
  <2>3. ~disposed /\ ~redirected BY <2>2 DEF BarOver
  <2>4. main \in {"download", "dispose_done", "dispose_failed"} BY <2>3 DEF BarOver, LockType
  <2>5. line \in Seq(Chars) /\ currentText \in Seq(Chars) /\ Displays(line, cursor, currentText)
    BY <2>4 DEF Screen
  <2> HIDE DEF text
  <2>6. /\ line' \in Seq(Chars) /\ currentText' = text
        /\ Displays(line', cursor', text)
    BY <2>1, <2>2, <2>5, UpdateTextShows
  <2>7. animationIndex' \in Int
    BY <1>1, AnimationAssumption DEF Draw, Screen
  <2> QED BY <2>1, <2>2, <2>3, <2>4, <2>6, <2>7 DEF Screen, setup
<1>2. CASE Dispose
  <2>1. <<>> \in Seq(Chars) /\ UpdateText(<<>>) /\ UNCHANGED <<setup, animationIndex>>
    BY <1>2, EmptySeq DEF Dispose
  <2>2. line \in Seq(Chars) /\ currentText \in Seq(Chars) /\ Displays(line, cursor, currentText)
    BY <1>2 DEF Screen, Dispose
  <2>3. /\ line' \in Seq(Chars) /\ currentText' = <<>>
        /\ Displays(line', cursor', <<>>)
        /\ line = <<>> => line' = <<>>
    BY <2>1, <2>2, UpdateTextShows
  <2>4. main' \in {"newline", "thrown"} BY <1>2 DEF Dispose
  <2>5. cursor' = 0 BY <2>3 DEF Displays
  <2>6. redirected' => line' = <<>>
    BY <1>2, <2>1, <2>3 DEF Screen, Dispose, setup
  <2> QED BY <2>1, <2>3, <2>4, <2>5, <2>6 DEF Screen
<1>3. CASE NewLine BY <1>3, EmptySeq DEF NewLine, Screen, setup
<1>4. CASE Message
  <2> DEFINE saved == <<Char("saved")>>
             blanks == [i \in 1 .. 0 |-> Blank]
             new == saved \o blanks
             over == SubSeq(line, 1, 0) \o new \o SubSeq(line, 0 + Len(new) + 1, Len(line))
  <2>1. line = <<>> /\ cursor = 0 /\ line \in Seq(Chars) /\ Len(line) = 0
    BY <1>4, EmptySeq DEF Message, Screen
  <2>2. saved \in Seq(Chars) /\ Len(saved) = 1 /\ saved[1] = Char("saved")
    BY DEF Char, Chars
  <2>3. blanks \in Seq(Chars) /\ Len(blanks) = 0 BY BlanksAreChars
  <2>4. line' = over /\ main' = "key"
    BY <1>4, <2>1 DEF Message, Write
  <2> HIDE DEF saved, blanks
  <2>5. new \in Seq(Chars) /\ Len(new) = 1 /\ new[1] = saved[1]
    BY <2>2, <2>3, ConcatProperties
  <2> HIDE DEF new
  <2>6. /\ over \in Seq(Chars)
        /\ Len(over) = IF 0 + Len(new) >= Len(line) THEN 0 + Len(new) ELSE Len(line)
        /\ \A i \in 1 .. Len(over) :
             over[i] = IF i <= 0 \/ i > 0 + Len(new) THEN line[i] ELSE new[i - 0]
    <3>1. 0 \in 0 .. Len(line) BY <2>1
    <3> QED BY <2>1, <2>5, <3>1, Overwrite
  <2> HIDE DEF over
  <2>7. Len(over) = 1 BY <2>1, <2>5, <2>6
  <2>8. over[1] = saved[1] BY <2>5, <2>6, <2>7
  <2>9. over = saved BY <2>2, <2>6, <2>7, <2>8, SeqEqual
  <2> QED BY <1>4, <2>2, <2>4, <2>9 DEF Screen, Message, setup, saved
<1>5. CASE Exit BY <1>5 DEF Exit, Screen, setup, console
<1>6. CASE UNCHANGED <<redirected, currentText, animationIndex, main, line, cursor>>
  BY <1>6 DEF Screen
<1>7. CASE DownloadEnds BY <1>7 DEF DownloadEnds, Screen, setup, console
<1> QED BY <1>1, <1>2, <1>3, <1>4, <1>5, <1>6, <1>7
        DEF Next, TimerHandler, Fire, Enter, ReadProgress, ResetTimer, Leave, Report,
        vars, setup, console

\* The invariant holds of every run of the downloader.
THEOREM Invariance == Spec => []IInv
<1>1. IInv /\ [Next]_vars => IInv'
  BY LockTypeInv, OneTickInv, BarOverInv, ProgressReadInv, TextDrawnInv, ScreenInv
     DEF IInv
<1> QED BY <1>1, InitInv, PTL DEF Spec

\* What is drawn stays within the bar and the animation, and the cursor on the line.
Bounded ==
    /\ redirected \in BOOLEAN /\ showProgressBar \in BOOLEAN
    /\ armed \in BOOLEAN /\ disposed \in BOOLEAN
    /\ lowered \in BOOLEAN /\ drawnLowered \in BOOLEAN
    /\ \A w \in Workers : handler[w].blocks \in 0 .. BlockCount
    /\ animationIndex \in 0 .. AnimationLength - 1
    /\ currentText \in Texts
    /\ main \in {"key", "exited"} => cursor \in 0 .. Len(line)

\* A progress in 0 .. 100 never makes more blocks than there are.
LEMMA BlocksFit ==
    ASSUME NEW p \in 0 .. 100
    PROVE  Blocks(p) \in 0 .. BlockCount
<1>1. BlockCount \in Nat BY BlockCountAssumption
<1>2. p * BlockCount \in Nat /\ p * BlockCount <= 100 * BlockCount BY <1>1, SMT
<1>3. \A n \in Nat, m \in Nat : n <= 100 * m => n \div 100 \in 0 .. m OBVIOUS
<1> QED BY <1>1, <1>2, <1>3 DEF Blocks

LEMMA TextsAre ==
    /\ <<>> \in Texts
    /\ \A tick \in 0 .. AnimationLength - 1 :
         /\ <<<<"tick", tick>>>> \in Texts
         /\ \A blocks \in 0 .. BlockCount, percent \in 0 .. 100 :
              Bar(blocks) \o <<<<"percent", percent>>>> \o <<<<"tick", tick>>>> \in Texts
<1> DEFINE D(b, p, i) == Bar(b) \o <<<<"percent", p>>>> \o <<<<"tick", i>>>>
           Drawn == {D(b, p, i) :
                       b \in 0 .. BlockCount, p \in 0 .. 100, i \in 0 .. AnimationLength - 1}
           Ticks == {<<<<"tick", i>>>> : i \in 0 .. AnimationLength - 1}
<1>1. ASSUME NEW tick \in 0 .. AnimationLength - 1 PROVE <<<<"tick", tick>>>> \in Ticks
  BY Zenon
<1>2. ASSUME NEW tick \in 0 .. AnimationLength - 1, NEW blocks \in 0 .. BlockCount,
             NEW percent \in 0 .. 100
      PROVE  D(blocks, percent, tick) \in Drawn
  <2> HIDE DEF D
  <2> QED OBVIOUS
<1>3. Texts = {<<>>} \cup Ticks \cup Drawn BY DEF Texts
<1> HIDE DEF Ticks, Drawn, D
<1>4. \A tick \in 0 .. AnimationLength - 1 :
         \A blocks \in 0 .. BlockCount, percent \in 0 .. 100 :
            D(blocks, percent, tick) \in Texts
  BY <1>2, <1>3
<1> QED BY <1>1, <1>3, <1>4 DEF D

LEMMA BoundedInv == ASSUME IInv, Bounded, [Next]_vars PROVE Bounded'
<1> LockType /\ BarOver /\ ProgressRead /\ Screen BY DEF IInv
<1>1. /\ redirected' \in BOOLEAN /\ showProgressBar' \in BOOLEAN
      /\ armed' \in BOOLEAN /\ disposed' \in BOOLEAN
  BY Zenon DEF Bounded, Next, TimerHandler, Fire, Enter, ReadProgress, Draw, ResetTimer,
     Leave, Report, DownloadEnds, Dispose, NewLine, Message, Exit, vars, setup
<1>2. \A w \in Workers : handler'[w].blocks \in 0 .. BlockCount
  <2>1. currentProgress \in 0 .. 100 BY DEF ProgressRead
  <2>2. Blocks(currentProgress) \in 0 .. BlockCount BY <2>1, BlocksFit
  <2>3. 0 \in 0 .. BlockCount BY BlockCountAssumption
  <2> DEFINE Goal == \A w \in Workers : handler'[w].blocks \in 0 .. BlockCount
  <2> USE DEF LockType, Idle
  <2>4. \A w \in Workers : handler[w].blocks \in 0 .. BlockCount BY DEF Bounded
  <2>5. ASSUME NEW w \in Workers, Fire(w) PROVE Goal BY <2>4, <2>5 DEF Fire
  <2>6. ASSUME NEW w \in Workers, Enter(w) PROVE Goal BY <2>3, <2>4, <2>6 DEF Enter
  <2>7. ASSUME NEW w \in Workers, ReadProgress(w) PROVE Goal
    BY <2>2, <2>4, <2>7 DEF ReadProgress
  <2>8. ASSUME NEW w \in Workers, Draw(w) PROVE Goal BY <2>3, <2>4, <2>8 DEF Draw
  <2>9. ASSUME NEW w \in Workers, ResetTimer(w) PROVE Goal BY <2>4, <2>9 DEF ResetTimer
  <2>10. ASSUME NEW w \in Workers, Leave(w) PROVE Goal BY <2>3, <2>4, <2>10 DEF Leave
  <2>11. CASE Exit BY <2>3, <2>11 DEF Exit
  <2>12. CASE UNCHANGED handler BY <2>4, <2>12
  <2> QED BY <2>5, <2>6, <2>7, <2>8, <2>9, <2>10, <2>11, <2>12
          DEF Next, TimerHandler, Report, DownloadEnds, Dispose, NewLine, Message, vars
<1>3. animationIndex' \in 0 .. AnimationLength - 1
  <2>1. (animationIndex + 1) % AnimationLength \in 0 .. AnimationLength - 1
    BY AnimationAssumption DEF Bounded
  <2> QED
    BY <2>1 DEF Bounded, Next, TimerHandler, Fire, Enter, ReadProgress, Draw,
       ResetTimer, Leave, Report, DownloadEnds, Dispose, NewLine, Message, Exit, vars
<1>4. lowered' \in BOOLEAN /\ drawnLowered' \in BOOLEAN
  BY Zenon DEF Bounded, Next, TimerHandler, Fire, Enter, ReadProgress, Draw, ResetTimer,
     Leave, Report, DownloadEnds, Dispose, NewLine, Message, Exit, vars, history
<1>5. currentText' \in Texts
  <2>1. ASSUME NEW w \in Workers, Draw(w) PROVE currentText' \in Texts
    <3>1. currentText' = Text(handler[w]) BY <2>1 DEF Draw, UpdateText
    <3>2. PICK h : h = handler[w] OBVIOUS
    <3>3. /\ h.blocks \in 0 .. BlockCount /\ h.percent \in 0 .. 100
          /\ animationIndex \in 0 .. AnimationLength - 1
      BY <3>2 DEF Bounded, LockType
    <3>4. Text(h) \in Texts BY <3>3, TextsAre DEF Text, Spinner
    <3> QED BY <3>1, <3>2, <3>4
  <2>2. CASE Dispose
    <3>1. currentText' = <<>> BY <2>2 DEF Dispose, UpdateText
    <3> QED BY <3>1, TextsAre
  <2>3. CASE UNCHANGED currentText BY <2>3 DEF Bounded
  <2> QED BY <2>1, <2>2, <2>3
          DEF Next, TimerHandler, Fire, Enter, ReadProgress, ResetTimer, Leave, Report,
          DownloadEnds, NewLine, Message, Exit, vars
<1>6. ASSUME main' \in {"key", "exited"} PROVE cursor' \in 0 .. Len(line')
  <2>1. CASE Message
    <3>1. main = "message" BY <2>1 DEF Message
    <3>2. cursor = 0 /\ line' = <<Char("saved")>>
      <4>1. main' = "key" BY <2>1 DEF Message
      <4>2. Screen' BY ScreenInv
      <4> QED BY <3>1, <4>1, <4>2 DEF Screen
    <3>3. Len(<<Char("saved")>>) = 1 OBVIOUS
    <3>4. cursor' = (cursor - 0) + 1 BY <2>1, <3>3 DEF Message, Write
    <3>5. Len(line') = 1 BY <3>2, <3>3
    <3> QED BY <3>2, <3>4, <3>5
  <2>2. CASE Exit
    <3>1. UNCHANGED <<line, cursor>> /\ main \in {"key", "thrown"} BY <2>2 DEF Exit, console
    <3>2. CASE main = "thrown"
      <4>1. Displays(line, cursor, currentText) /\ cursor = 0 BY <3>2 DEF Screen
      <4>2. Len(line) \in Nat BY LenProperties DEF Screen
      <4> QED BY <3>1, <4>1, <4>2
    <3> QED BY <3>1, <3>2 DEF Bounded
  <2>3. CASE UNCHANGED <<line, cursor, main>> BY <1>6, <2>3 DEF Bounded
  <2>4. ASSUME NEW w \in Workers, Draw(w) PROVE FALSE
    <3>1. main \in {"key", "exited"} /\ handler[w].pc = "write" BY <1>6, <2>4 DEF Draw
    <3> QED BY <3>1 DEF BarOver
  <2> QED BY <1>6, <2>1, <2>2, <2>3, <2>4
          DEF Next, TimerHandler, Fire, Enter, ReadProgress, ResetTimer, Leave, Report,
          DownloadEnds, Dispose, NewLine, vars, console
<1> QED BY <1>1, <1>2, <1>3, <1>4, <1>5, <1>6 DEF Bounded

\* Every variable has its type, for every width and animation: the bar is never
\* asked for more blocks than it has or for fewer than none, which new string
\* of TimerHandler refuses, and animation is never indexed beyond its end.
THEOREM TypeCorrect == Spec => []TypeOK
<1>1. Init => Bounded
  <2> SUFFICES ASSUME Init PROVE Bounded OBVIOUS
  <2>1. /\ redirected \in BOOLEAN /\ showProgressBar \in BOOLEAN
        /\ armed \in BOOLEAN /\ disposed \in BOOLEAN
        /\ lowered \in BOOLEAN /\ drawnLowered \in BOOLEAN
    BY Zenon DEF Init
  <2>2. currentText \in Texts BY TextsAre DEF Init
  <2> QED BY <2>1, <2>2, BlockCountAssumption, AnimationAssumption DEF Init, Bounded, Idle
<1>2. IInv /\ Bounded /\ [Next]_vars => Bounded' BY BoundedInv
<1>3. IInv /\ Bounded => TypeOK
  <2> SUFFICES ASSUME IInv, Bounded PROVE TypeOK OBVIOUS
  <2> LockType /\ ProgressRead /\ Screen BY DEF IInv
  <2>1. {redirected, showProgressBar, armed, disposed, lowered, drawnLowered} \subseteq BOOLEAN
    BY Zenon DEF Bounded
  <2>2. handler \in [Workers -> [pc : Steps, blocks : 0 .. BlockCount, percent : 0 .. 100]]
    <3>1. \A w \in Workers :
             handler[w] \in [pc : Steps, blocks : 0 .. BlockCount, percent : 0 .. 100]
      BY DEF LockType, Bounded
    <3> QED BY <3>1 DEF LockType
  <2>3. currentProgress \in 0 .. 100 BY DEF ProgressRead
  <2>4. cursor \in 0 .. Len(line)
    <3>1. Len(line) \in Nat /\ Len(currentText) \in Nat BY LenProperties DEF Screen
    <3> QED BY <3>1 DEF Screen, Displays, Bounded
  <2>5. main \in {"download", "dispose_done", "dispose_failed", "newline", "message",
                  "thrown", "key", "exited"}
    BY DEF LockType
  <2> QED BY <2>1, <2>2, <2>3, <2>4, <2>5, Zenon DEF TypeOK, LockType, Bounded, Steps
<1> QED BY <1>1, <1>2, <1>3, Invariance, PTL DEF Spec

-----------------------------------------------------------------------------
\* The timer never has two ticks under way, and one callback at most is inside
\* the lock, whatever the number of pool threads.
THEOREM OneTickAlways == Spec => []OneTick
<1>1. IInv => OneTick BY DEF IInv
<1> QED BY <1>1, Invariance, PTL

\* UpdateText, Dispose and what MainAsync writes afterwards leave on the screen
\* what they mean to, for every sequence of texts.
THEOREM ScreenShowsText == Spec => []ScreenIsText
<1>1. IInv => ScreenIsText
  <2> SUFFICES ASSUME IInv PROVE ScreenIsText OBVIOUS
  <2> Screen BY DEF IInv
  <2>1. ASSUME Displays(line, cursor, currentText)
        PROVE  /\ cursor = Len(currentText) /\ Len(line) >= cursor
               /\ SubSeq(line, 1, cursor) = currentText
               /\ \A i \in cursor + 1 .. Len(line) : line[i] = Blank
    <3> DEFINE shown == SubSeq(line, 1, cursor)
    <3>1. /\ line \in Seq(Chars) /\ currentText \in Seq(Chars)
          /\ Len(line) \in Nat /\ cursor \in Nat /\ cursor <= Len(line)
      BY <2>1, LenProperties DEF Screen, Displays
    <3>2. \A i \in 1 .. cursor : line[i] \in Chars BY <3>1, ElementOfSeq
    <3>3. /\ shown \in Seq(Chars) /\ Len(shown) = IF 1 <= cursor THEN cursor - 1 + 1 ELSE 0
          /\ \A i \in 1 .. cursor - 1 + 1 : shown[i] = line[1 + i - 1]
      BY <3>1, <3>2, SubSeqProperties
    <3> HIDE DEF shown
    <3>4. Len(shown) = cursor /\ \A i \in 1 .. cursor : shown[i] = line[i] BY <3>1, <3>3
    <3>5. shown = currentText BY <2>1, <3>1, <3>3, <3>4, SeqEqual DEF Displays
    <3> QED BY <2>1, <3>5 DEF Displays, shown
  <2> QED BY <2>1 DEF Screen, ScreenIsText
<1> QED BY <1>1, Invariance, PTL

\* The bar on the screen is not ahead of the percentage beside it, unless the
\* progress was lowered between the two readings of this very text: for every
\* sequence of reports, up and down, inside and outside [0..1].
THEOREM BarBehindPercent == Spec => []BarNotAhead
<1>1. IInv => BarNotAhead
  <2> SUFFICES ASSUME TextDrawn, showProgressBar, currentText # <<>>, ~drawnLowered,
                      NEW i \in 1 .. BlockCount, currentText[i] = Char("full")
               PROVE  i <= Blocks(currentText[BlockCount + 1][2])
    BY DEF IInv, BarNotAhead
  <2>1. PICK blocks \in Int, percent \in 0 .. 100, tick \in Int :
           /\ blocks <= Blocks(percent)
           /\ currentText = Bar(blocks) \o <<<<"percent", percent>>>> \o <<<<"tick", tick>>>>
    BY DEF TextDrawn
  <2>2. /\ currentText[i] = Bar(blocks)[i]
        /\ currentText[BlockCount + 1] = <<"percent", percent>>
    <3>1. percent \in Int OBVIOUS
    <3> QED BY <2>1, <3>1, TextIsChars
  <2>3. i <= blocks BY <2>2, BarIsChars
  <2>4. Blocks(percent) \in Int
    <3>1. percent <= percent OBVIOUS
    <3> QED BY <3>1, BlocksFacts
  <2>5. currentText[BlockCount + 1][2] = percent BY <2>2
  <2>6. i <= Blocks(percent)
    <3>1. i \in Int /\ blocks \in Int /\ blocks <= Blocks(percent)
      BY <2>1, BlockCountAssumption
    <3> QED BY <2>3, <2>4, <3>1
  <2> QED BY <2>5, <2>6
<1> QED BY <1>1, Invariance, PTL
==============================================================================
