----------------------------- MODULE ProgressBar -----------------------------
(***************************************************************************)
(* csharp/YoutubeExplodeCmd: ProgressBar.cs and the end of Program.cs.  A  *)
(* download reports its progress while a timer of the thread pool draws it *)
(* on the line where "Downloading... " stands.  The timer is one-shot and  *)
(* its handler arms it again before it leaves the lock, so that a second   *)
(* callback may wait for the lock the first still holds.  When the         *)
(* download ends, well or badly, `using` disposes the bar; the timer       *)
(* itself is never stopped.  A progress in [0..1] is a percentage.         *)
(***************************************************************************)
EXTENDS Integers, Sequences

CONSTANTS
    BlockCount,     \* blockCount
    AnimationLength,\* animation.Length
    Reported,       \* the values the download may report
    Workers         \* pool threads a callback may run on
ASSUME BlockCountAssumption == BlockCount \in Nat
ASSUME AnimationAssumption == AnimationLength \in Nat \ {0}
ASSUME ReportedAssumption == Reported \subseteq Int
ASSUME WorkersAssumption == "free" \notin Workers

VARIABLES
    redirected,         \* Console.IsOutputRedirected
    showProgressBar,    \* the constructor's parameter
    armed,              \* the timer is running
    lock,               \* who holds the timer's monitor: a worker, or "free"
    handler,            \* per worker, where its TimerHandler is and its locals
    currentProgress, currentText, disposed, animationIndex,
    lowered,            \* (history) a report between the two readings of the
                        \* progress for this text lowered it
    drawnLowered,       \* (history) the same, for the text on the screen
    main,               \* where Program.MainAsync is
    line, cursor        \* what the console shows behind "Downloading... "

vars == <<redirected, showProgressBar, armed, lock, handler, currentProgress,
          currentText, disposed, animationIndex, lowered, drawnLowered, main,
          line, cursor>>
console == <<line, cursor>>
history == <<lowered, drawnLowered>>
setup == <<redirected, showProgressBar>>

\* What stands in a place of the console: a sign and, for the percentage and
\* the animation, its value.
Char(sign) == <<sign, 0>>
Blank == Char("blank")

Idle == [pc |-> "idle", blocks |-> 0, percent |-> 0]

\* The constructor: the timer is armed unless the output is redirected.
Init ==
    /\ redirected \in BOOLEAN /\ showProgressBar \in BOOLEAN
    /\ armed = ~redirected
    /\ lock = "free" /\ handler = [w \in Workers |-> Idle]
    /\ currentProgress = 0 /\ currentText = <<>> /\ disposed = FALSE
    /\ animationIndex = 0 /\ lowered = FALSE /\ drawnLowered = FALSE
    /\ main = "download" /\ line = <<>> /\ cursor = 0

-----------------------------------------------------------------------------
(* The console and UpdateText.                                             *)

\* Console.Write of `back` backspaces, the characters `chars`, and `blanks`
\* blanks with as many backspaces.
Write(back, chars, blanks) ==
    LET at == cursor - back
        new == chars \o [i \in 1 .. blanks |-> Blank]
    IN  /\ line' = SubSeq(line, 1, at) \o new \o SubSeq(line, at + Len(new) + 1, Len(line))
        /\ cursor' = at + Len(chars)

\* Length of the common portion of currentText and the new text.
CommonPrefixLength(text) ==
    CHOOSE n \in 0 .. Len(text) :
        /\ n <= Len(currentText)
        /\ \A i \in 1 .. n : text[i] = currentText[i]
        /\ n < Len(text) /\ n < Len(currentText) => text[n + 1] # currentText[n + 1]

\* Back to the first differing character, the new suffix, and blanks over what
\* is left of a longer text.
UpdateText(text) ==
    LET common == CommonPrefixLength(text)
        overlapCount == Len(currentText) - Len(text)
    IN  /\ Write(Len(currentText) - common, SubSeq(text, common + 1, Len(text)),
                 IF overlapCount > 0 THEN overlapCount ELSE 0)
        /\ currentText' = text

\* The text: a character for each block, one for the percentage and one for
\* the animation, or only the last.
Bar(blocks) == [i \in 1 .. BlockCount |-> IF i <= blocks THEN Char("full") ELSE Char("empty")]
Spinner == <<<<"tick", animationIndex>>>>
Text(h) ==
    IF showProgressBar THEN Bar(h.blocks) \o <<<<"percent", h.percent>>>> \o Spinner
    ELSE Spinner

-----------------------------------------------------------------------------
(* The timer and its handler.                                              *)

\* The interval has passed: the callback starts on an idle pool thread.
Fire(w) ==
    /\ armed /\ armed' = FALSE
    /\ handler[w].pc = "idle"
    /\ handler' = [handler EXCEPT ![w].pc = "lock"]
    /\ UNCHANGED <<setup, lock, currentProgress, currentText, disposed, animationIndex,
                   history, main, console>>

\* Fault: disposed is not looked at.
EnterUnchecked(w) ==
    /\ handler[w].pc = "lock" /\ lock = "free" /\ lock' = w
    /\ handler' = [handler EXCEPT ![w].pc = IF showProgressBar THEN "blocks" ELSE "write"]
    /\ UNCHANGED <<setup, armed, currentProgress, currentText, disposed, animationIndex,
                   history, main, console>>

\* Fault: the timer is armed again at the start of the handler.
EnterRearms(w) ==
    /\ handler[w].pc = "lock" /\ lock = "free" /\ lock' = w /\ armed' = TRUE
    /\ handler' = [handler EXCEPT ![w].pc = IF showProgressBar THEN "blocks" ELSE "write"]
    /\ UNCHANGED <<setup, currentProgress, currentText, disposed, animationIndex,
                   history, main, console>>

\* lock (timer) { if (disposed) return;
Enter(w) ==
    /\ handler[w].pc = "lock" /\ lock = "free"
    /\ IF disposed
       THEN handler' = [handler EXCEPT ![w] = Idle] /\ UNCHANGED lock
       ELSE /\ lock' = w
            /\ handler' = [handler EXCEPT ![w].pc =
                              IF showProgressBar THEN "blocks" ELSE "write"]
    /\ UNCHANGED <<setup, armed, currentProgress, currentText, disposed, animationIndex,
                   history, main, console>>

Blocks(progress) == (progress * BlockCount) \div 100

\* Fault: the percentage is read first.
ReadProgressSwapped(w) ==
    /\ \/ /\ handler[w].pc = "blocks" /\ lowered' = FALSE
          /\ handler' = [handler EXCEPT ![w].pc = "percent", ![w].percent = currentProgress]
       \/ /\ handler[w].pc = "percent" /\ UNCHANGED lowered
          /\ handler' = [handler EXCEPT ![w].pc = "write",
                                        ![w].blocks = Blocks(currentProgress)]
    /\ UNCHANGED <<setup, armed, lock, currentProgress, currentText, disposed,
                   animationIndex, drawnLowered, main, console>>

\* currentProgress is read for the blocks and, a report later perhaps, once
\* more for the percentage.
ReadProgress(w) ==
    /\ \/ /\ handler[w].pc = "blocks" /\ lowered' = FALSE
          /\ handler' = [handler EXCEPT ![w].pc = "percent",
                                        ![w].blocks = Blocks(currentProgress)]
       \/ /\ handler[w].pc = "percent" /\ UNCHANGED lowered
          /\ handler' = [handler EXCEPT ![w].pc = "write", ![w].percent = currentProgress]
    /\ UNCHANGED <<setup, armed, lock, currentProgress, currentText, disposed,
                   animationIndex, drawnLowered, main, console>>

\* UpdateText(text), with animationIndex++.
Draw(w) ==
    /\ handler[w].pc = "write"
    /\ UpdateText(Text(handler[w]))
    /\ animationIndex' = (animationIndex + 1) % AnimationLength
    /\ handler' = [handler EXCEPT ![w] = [Idle EXCEPT !.pc = "reset"]]
    /\ drawnLowered' = lowered
    /\ UNCHANGED <<setup, armed, lock, currentProgress, disposed, lowered, main>>

\* Fault: the one-shot timer is not armed again.
ResetTimerNot(w) ==
    /\ handler[w].pc = "reset"
    /\ handler' = [handler EXCEPT ![w].pc = "unlock"]
    /\ UNCHANGED <<setup, armed, lock, currentProgress, currentText, disposed,
                   animationIndex, history, main, console>>

\* ResetTimer(), still under the lock.
ResetTimer(w) ==
    /\ handler[w].pc = "reset" /\ armed' = TRUE
    /\ handler' = [handler EXCEPT ![w].pc = "unlock"]
    /\ UNCHANGED <<setup, lock, currentProgress, currentText, disposed,
                   animationIndex, history, main, console>>

Leave(w) ==
    /\ handler[w].pc = "unlock" /\ lock' = "free"
    /\ handler' = [handler EXCEPT ![w] = Idle]
    /\ UNCHANGED <<setup, armed, currentProgress, currentText, disposed,
                   animationIndex, history, main, console>>

-----------------------------------------------------------------------------
(* The download and the end of MainAsync.                                  *)

\* Math.Max(0, Math.Min(1, value))
Clamp(value) == IF value < 0 THEN 0 ELSE IF value > 100 THEN 100 ELSE value

\* Report, by the download, with any value: it is cut to [0..1] and exchanged
\* without the lock.
Report(value) ==
    /\ main = "download"
    /\ currentProgress' = Clamp(value)
    /\ lowered' = (lowered \/ (/\ Clamp(value) < currentProgress
                               /\ \E w \in Workers : handler[w].pc = "percent"))
    /\ UNCHANGED <<setup, armed, lock, handler, currentText, disposed, animationIndex,
                   drawnLowered, main, console>>

\* The download is done, or throws; `using` disposes the bar in both cases.
DownloadEnds ==
    /\ main = "download"
    /\ main' \in {"dispose_done", "dispose_failed"}
    /\ UNCHANGED <<setup, armed, lock, handler, currentProgress, currentText, disposed,
                   animationIndex, history, console>>

\* Dispose, under the lock.
Dispose ==
    /\ main \in {"dispose_done", "dispose_failed"} /\ lock = "free"
    /\ disposed' = TRUE /\ UpdateText(<<>>)
    /\ main' = IF main = "dispose_done" THEN "newline" ELSE "thrown"
    /\ UNCHANGED <<setup, armed, lock, handler, currentProgress, animationIndex, history>>

\* Console.WriteLine() ends the line; what follows stands on the next one.
NewLine ==
    /\ main = "newline" /\ main' = "message"
    /\ line' = <<>> /\ cursor' = 0
    /\ UNCHANGED <<setup, armed, lock, handler, currentProgress, currentText, disposed,
                   animationIndex, history>>

\* "Video saved to ..."; the program then waits for a key.
Message ==
    /\ main = "message" /\ main' = "key"
    /\ Write(0, <<Char("saved")>>, 0)
    /\ UNCHANGED <<setup, armed, lock, handler, currentProgress, currentText, disposed,
                   animationIndex, history>>

\* A key, or the exception that left MainAsync, ends the process and with it
\* every pool thread.
Exit ==
    /\ main \in {"key", "thrown"} /\ main' = "exited"
    /\ armed' = FALSE /\ handler' = [w \in Workers |-> Idle] /\ lock' = "free"
    /\ UNCHANGED <<setup, currentProgress, currentText, disposed, animationIndex,
                   history, console>>

TimerHandler(w) == \/ Enter(w) \/ ReadProgress(w) \/ Draw(w)
                   \/ ResetTimer(w) \/ Leave(w)

Next ==
    \/ \E w \in Workers : Fire(w) \/ TimerHandler(w)
    \/ \E value \in Reported : Report(value)
    \/ DownloadEnds \/ Dispose \/ NewLine \/ Message \/ Exit

\* Timers fire and pool threads run.  The download need not end, and nobody
\* need press a key.
Fairness ==
    /\ WF_vars(\E w \in Workers : Fire(w))
    /\ \A w \in Workers : WF_vars(TimerHandler(w))

Spec == Init /\ [][Next]_vars /\ Fairness

-----------------------------------------------------------------------------
(* Properties.                                                             *)

Texts == {<<>>} \cup {<<<<"tick", i>>>> : i \in 0 .. AnimationLength - 1}
         \cup {Bar(b) \o <<<<"percent", p>>>> \o <<<<"tick", i>>>> :
                  b \in 0 .. BlockCount, p \in 0 .. 100, i \in 0 .. AnimationLength - 1}

\* The type of every variable.
TypeOK ==
    /\ {redirected, showProgressBar, armed, disposed, lowered, drawnLowered} \subseteq BOOLEAN
    /\ lock \in Workers \cup {"free"}
    /\ handler \in [Workers -> [pc : {"idle", "lock", "blocks", "percent", "write",
                                      "reset", "unlock"},
                                blocks : 0 .. BlockCount, percent : 0 .. 100]]
    /\ currentProgress \in 0 .. 100 /\ currentText \in Texts
    /\ animationIndex \in 0 .. AnimationLength - 1
    /\ main \in {"download", "dispose_done", "dispose_failed", "newline", "message",
                 "thrown", "key", "exited"}
    /\ cursor \in 0 .. Len(line)

\* The timer never has two ticks under way: it is armed, or one callback has
\* not come to ResetTimer yet, and never both (ProgressBar.cs:67, 102); so one
\* callback at most is inside the lock.
OneTick ==
    LET pending == {w \in Workers : handler[w].pc \notin {"idle", "unlock"}}
        inside == {w \in Workers : handler[w].pc \notin {"idle", "lock"}}
    IN  /\ \A v, w \in pending : v = w
        /\ armed => pending = {}
        /\ \A w \in Workers : lock = w <=> w \in inside

\* Whenever nobody is inside the lock the console's line shows currentText and
\* nothing else, with the cursor behind it: UpdateText, which writes only what
\* differs from currentText, has lost nothing and left nothing over.  After
\* Dispose the bar writes no more, although its timer still runs and a callback
\* may have been waiting for the lock: the line is blank, and what MainAsync
\* writes next stays as it is.  "If the console output is redirected to a file,
\* draw nothing" (ProgressBar.cs:30).
ScreenIsText ==
    /\ lock = "free" /\ main \notin {"message", "key", "exited"} =>
          /\ cursor = Len(currentText) /\ Len(line) >= cursor
          /\ SubSeq(line, 1, cursor) = currentText
          /\ \A i \in cursor + 1 .. Len(line) : line[i] = Blank
    /\ main \in {"newline", "thrown", "message"} => currentText = <<>> /\ cursor = 0
    /\ main = "message" => line = <<>>
    /\ main = "key" => line = <<Char("saved")>>
    /\ redirected /\ main \notin {"key", "exited"} => line = <<>>

\* The handler reads currentProgress twice, for the bar and for the percentage,
\* and Report needs no lock to come in between (ProgressBar.cs:54-55).  The bar
\* shown is ahead of the percentage beside it only if such a report has lowered
\* the progress: one that raises it, before, between or after the readings of
\* this text or another, never has that effect.
BarNotAhead ==
    showProgressBar /\ currentText # <<>> /\ ~drawnLowered =>
        LET shown == {i \in 1 .. BlockCount : currentText[i] = Char("full")}
            percent == currentText[BlockCount + 1][2]
        IN  \A i \in shown : i <= Blocks(percent)

\* What the screen says the progress is.
Shows(value) ==
    showProgressBar /\ currentText # <<>> /\ currentText[BlockCount + 1] = <<"percent", value>>

\* A value reported on a live console is shown, unless a later report or
\* Dispose comes first: the one-shot timer never falls asleep.
ReportShown ==
    \A value \in {Clamp(v) : v \in Reported} :
        (currentProgress = value /\ showProgressBar /\ ~redirected)
          ~> (Shows(value) \/ currentProgress # value \/ disposed)
=============================================================================
