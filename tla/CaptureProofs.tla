--------------------------- MODULE CaptureProofs ----------------------------
(***************************************************************************)
(* Safety of the grabber for every value of -c, every number of buffers    *)
(* asked for and every number a driver grants: who owns which buffer at    *)
(* each step of the process, and how many frames are still to come.        *)
(***************************************************************************)
EXTENDS Capture, TLAPS

\* The buffers from a up to, and not including, b.
Slots(a, b) == {k \in Indices : a <= k /\ k < b}

Early == {"options", "open", "init", "init_read", "request", "usage"}
Looping == {"loop", "select", "read", "process", "requeue", "stop"}

\* The driver owns nothing and delivers nothing.
DriverIdle == incoming = {} /\ outgoing = {} /\ ~streaming

\* The method decides which steps the process takes.
MethodAt ==
    /\ pc = "init_read" => io = "read"
    /\ pc \in {"request", "map", "queue", "requeue"} => io # "read"

\* Until the stream is on: buffers are mapped in order, then queued in order.
BeforeStream ==
    /\ pc \in Early => DriverIdle /\ mapped = {}
    /\ pc = "map" => /\ DriverIdle
                     /\ n_buffers <= Target /\ mapped = Slots(0, n_buffers)
    /\ pc = "queue" => /\ i <= n_buffers /\ mapped = Slots(0, n_buffers)
                       /\ incoming = Slots(0, i) /\ outgoing = {} /\ ~streaming

\* In the main loop every mapped buffer is the driver's, except the one that
\* read_frame looks at; the read method has one buffer of its own.
InStream ==
    /\ incoming \cap outgoing = {}
    /\ pc \in Looping /\ io # "read" => mapped = Slots(0, n_buffers)
    /\ pc \in {"loop", "select", "read", "stop"} /\ io # "read" =>
           incoming \cup outgoing = mapped
    /\ pc \in {"process", "requeue"} /\ io # "read" =>
           buf \in mapped /\ incoming \cup outgoing = mapped \ {buf}
    /\ pc \in Looping /\ io = "read" => DriverIdle /\ mapped = {0}
    /\ pc \in {"process", "requeue"} /\ io = "read" => buf = 0

\* The buffers are unmapped in order after the stream was switched off.
AfterStream ==
    /\ pc \in {"uninit", "close"} => DriverIdle
    /\ pc = "uninit" /\ io # "read" => i <= n_buffers /\ mapped = Slots(i, n_buffers)
    /\ pc = "uninit" /\ io = "read" => mapped = {0}
    /\ pc = "close" => mapped = {}
    /\ pc = "exit" => incoming \cup outgoing \subseteq mapped

\* Frames processed, plus the rounds to come, plus the round under way.
FramesCounted ==
    /\ pc \in Early \cup {"map", "queue"} => frames = 0
    /\ pc \in {"loop", "requeue"} => frames + count = frame_count
    /\ pc \in {"select", "read", "process"} => frames + count + 1 = frame_count
    /\ pc \in {"stop", "uninit", "close"} => frames = frame_count

IInv ==
    /\ TypeOK
    /\ MethodAt /\ BeforeStream /\ InStream /\ AfterStream /\ FramesCounted
    /\ SuccessIsComplete

-----------------------------------------------------------------------------
\* The indices are an initial segment of the naturals that holds whatever the
\* driver may grant and whatever the program may ask for.
LEMMA IndicesFacts ==
    /\ Indices \subseteq Nat /\ 0 \in Indices
    /\ \A m \in Indices, k \in Nat : k < m => k + 1 \in Indices
    /\ TypeOK => Target \in Indices
BY CaptureAssumption DEF Indices, Target, TypeOK

\* Taking the buffers in order, one after another.
LEMMA SlotsNone == ASSUME NEW a \in Nat PROVE Slots(a, a) = {}
<1>1. \A k \in Slots(a, a) : FALSE BY IndicesFacts DEF Slots
<1> QED BY <1>1

LEMMA SlotsNext ==
    ASSUME NEW b \in Indices PROVE Slots(0, b) \cup {b} = Slots(0, b + 1)
<1>1. Indices \subseteq Nat BY IndicesFacts
<1>2. \A k \in Indices : k < b + 1 <=> k < b \/ k = b BY <1>1
<1>3. 0 <= b BY <1>1
<1> QED BY <1>1, <1>2, <1>3 DEF Slots

LEMMA SlotsRest ==
    ASSUME NEW a \in Nat, NEW b \in Nat PROVE Slots(a, b) \ {a} = Slots(a + 1, b)
<1>1. \A k \in Indices : a + 1 <= k <=> a <= k /\ k # a BY IndicesFacts
<1> QED BY <1>1 DEF Slots

LEMMA SlotsGrow ==
    ASSUME NEW a \in Nat, NEW b \in Nat, a <= b
    PROVE  Slots(0, a) \subseteq Slots(0, b)
<1>1. \A k \in Indices : k < a => k < b BY IndicesFacts
<1> QED BY <1>1 DEF Slots

LEMMA InitInv == Init => IInv
<1> SUFFICES ASSUME Init PROVE IInv OBVIOUS
<1> USE IndicesFacts, CaptureAssumption DEF Init, DriverIdle, Early, Looping, Methods
<1>1. TypeOK
  <2>1. 0 \in Nat /\ 0 \in 0..MaxGrant /\ {} \in SUBSET Indices OBVIOUS
  <2> QED BY <2>1 DEF TypeOK
<1>2. MethodAt BY DEF MethodAt
<1>3. BeforeStream BY DEF BeforeStream
<1>4. InStream BY DEF InStream
<1>5. AfterStream BY DEF AfterStream
<1>6. FramesCounted BY DEF FramesCounted
<1>7. SuccessIsComplete BY DEF SuccessIsComplete
<1> QED BY <1>1, <1>2, <1>3, <1>4, <1>5, <1>6, <1>7 DEF IInv

\* The process up to the main loop.
LEMMA SetupInv ==
    ASSUME IInv,
           \/ ParseOptions \/ open_device \/ init_device \/ init_read
           \/ RequestBuffers \/ MapBuffer \/ MapDone \/ QueueBuffer \/ StreamOn
    PROVE  IInv'
<1> USE IndicesFacts, CaptureAssumption
    DEF IInv, TypeOK, MethodAt, BeforeStream, InStream, AfterStream, FramesCounted,
        SuccessIsComplete, DriverIdle, Early, Looping, optionVars, driverVars,
        bufferVars, Goto, Exits
<1>1. CASE ParseOptions BY <1>1 DEF ParseOptions
<1>2. CASE open_device
  <2>1. TypeOK' BY <1>2 DEF open_device
  <2>2. MethodAt' BY <1>2 DEF open_device
  <2>3. BeforeStream' BY <1>2 DEF open_device
  <2>4. InStream' BY <1>2 DEF open_device
  <2>5. AfterStream' BY <1>2 DEF open_device
  <2>6. FramesCounted' BY <1>2 DEF open_device
  <2>7. SuccessIsComplete' BY <1>2 DEF open_device
  <2> QED BY <2>1, <2>2, <2>3, <2>4, <2>5, <2>6, <2>7
<1>3. CASE init_device BY <1>3 DEF init_device
<1>4. CASE init_read
  <2>1. TypeOK' BY <1>4 DEF init_read
  <2>2. MethodAt' BY <1>4 DEF init_read
  <2>3. BeforeStream' BY <1>4 DEF init_read
  <2>4. InStream' BY <1>4 DEF init_read
  <2>5. AfterStream' BY <1>4 DEF init_read
  <2>6. FramesCounted' BY <1>4 DEF init_read
  <2>7. SuccessIsComplete' BY <1>4 DEF init_read
  <2> QED BY <2>1, <2>2, <2>3, <2>4, <2>5, <2>6, <2>7
<1>5. CASE RequestBuffers
  <2>1. TypeOK' BY <1>5 DEF RequestBuffers, Target
  <2>2. MethodAt' BY <1>5 DEF RequestBuffers, Target
  <2>3. BeforeStream'
    <3>1. Slots(0, 0) = {} BY SlotsNone
    <3>2. pc' = "map" => 0 <= Target' BY <1>5 DEF RequestBuffers, Target
    <3> QED BY <1>5, <3>1, <3>2 DEF RequestBuffers
  <2>4. InStream' BY <1>5 DEF RequestBuffers, Target
  <2>5. AfterStream' BY <1>5 DEF RequestBuffers, Target
  <2>6. FramesCounted' BY <1>5 DEF RequestBuffers, Target
  <2>7. SuccessIsComplete' BY <1>5 DEF RequestBuffers, Target
  <2> QED BY <2>1, <2>2, <2>3, <2>4, <2>5, <2>6, <2>7
<1>6. CASE MapBuffer
  <2>1. TypeOK' BY <1>6 DEF MapBuffer, Target
  <2>2. MethodAt' BY <1>6 DEF MapBuffer, Target
  <2>3. BeforeStream'
    <3>1. mapped \cup {n_buffers} = Slots(0, n_buffers + 1)
      BY <1>6, SlotsNext DEF MapBuffer
    <3>2. n_buffers + 1 <= Target /\ Target' = Target BY <1>6 DEF MapBuffer, Target
    <3> QED BY <1>6, <3>1, <3>2 DEF MapBuffer
  <2>4. InStream' BY <1>6 DEF MapBuffer, Target
  <2>5. AfterStream' BY <1>6 DEF MapBuffer, Target
  <2>6. FramesCounted' BY <1>6 DEF MapBuffer, Target
  <2>7. SuccessIsComplete' BY <1>6 DEF MapBuffer, Target
  <2> QED BY <2>1, <2>2, <2>3, <2>4, <2>5, <2>6, <2>7
<1>7. CASE MapDone
  <2>1. TypeOK' BY <1>7 DEF MapDone
  <2>2. MethodAt' BY <1>7 DEF MapDone
  <2>3. BeforeStream'
    <3>1. Slots(0, 0) = {} BY SlotsNone
    <3>2. mapped = Slots(0, n_buffers) /\ 0 <= n_buffers BY <1>7 DEF MapDone
    <3>3. DriverIdle BY <1>7 DEF MapDone
    <3> HIDE DEF TypeOK, InStream, AfterStream, FramesCounted
    <3> QED BY <1>7, <3>1, <3>2, <3>3 DEF MapDone
  <2>4. InStream' BY <1>7 DEF MapDone
  <2>5. AfterStream' BY <1>7 DEF MapDone
  <2>6. FramesCounted' BY <1>7 DEF MapDone
  <2>7. SuccessIsComplete' BY <1>7 DEF MapDone
  <2> QED BY <2>1, <2>2, <2>3, <2>4, <2>5, <2>6, <2>7
<1>8. CASE QueueBuffer
  <2>1. TypeOK' BY <1>8 DEF QueueBuffer
  <2>2. MethodAt' BY <1>8 DEF QueueBuffer
  <2>3. BeforeStream'
    <3>1. incoming \cup {i} = Slots(0, i + 1) BY <1>8, SlotsNext DEF QueueBuffer
    <3>2. i + 1 <= n_buffers BY <1>8 DEF QueueBuffer
    <3> QED BY <1>8, <3>1, <3>2 DEF QueueBuffer
  <2>4. InStream' BY <1>8 DEF QueueBuffer
  <2>5. AfterStream'
    <3>1. incoming \subseteq mapped BY <1>8, SlotsGrow DEF QueueBuffer
    <3> QED BY <1>8, <3>1 DEF QueueBuffer
  <2>6. FramesCounted' BY <1>8 DEF QueueBuffer
  <2>7. SuccessIsComplete' BY <1>8 DEF QueueBuffer
  <2> QED BY <2>1, <2>2, <2>3, <2>4, <2>5, <2>6, <2>7
<1>9. CASE StreamOn
  <2>1. TypeOK' BY <1>9 DEF StreamOn
  <2>2. MethodAt' BY <1>9 DEF StreamOn
  <2>3. BeforeStream' BY <1>9 DEF StreamOn
  <2>4. InStream' BY <1>9 DEF StreamOn
  <2>5. AfterStream' BY <1>9 DEF StreamOn
  <2>6. FramesCounted' BY <1>9 DEF StreamOn
  <2>7. SuccessIsComplete' BY <1>9 DEF StreamOn
  <2> QED BY <2>1, <2>2, <2>3, <2>4, <2>5, <2>6, <2>7
<1> QED BY <1>1, <1>2, <1>3, <1>4, <1>5, <1>6, <1>7, <1>8, <1>9

\* The main loop and read_frame.
LEMMA LoopInv ==
    ASSUME IInv,
           \/ LoopTest \/ SelectReady \/ SelectTimeout \/ SelectFails \/ Dequeue
           \/ DequeueAgain \/ DequeueFails \/ process_image \/ Requeue
    PROVE  IInv'
<1> USE IndicesFacts, CaptureAssumption
    DEF IInv, TypeOK, MethodAt, BeforeStream, InStream, AfterStream, FramesCounted,
        SuccessIsComplete, DriverIdle, Early, Looping, optionVars, driverVars,
        bufferVars, Goto, Exits, LoopFrame
<1>1. CASE LoopTest BY <1>1 DEF LoopTest
<1>2. CASE SelectReady BY <1>2 DEF SelectReady
<1>3. CASE SelectTimeout BY <1>3 DEF SelectTimeout
<1>4. CASE SelectFails BY <1>4 DEF SelectFails
<1>5. CASE Dequeue BY <1>5 DEF Dequeue
<1>6. CASE DequeueAgain BY <1>6 DEF DequeueAgain
<1>7. CASE DequeueFails BY <1>7 DEF DequeueFails
<1>8. CASE process_image BY <1>8 DEF process_image
<1>9. CASE Requeue
  <2>1. TypeOK' BY <1>9 DEF Requeue
  <2>2. MethodAt' BY <1>9 DEF Requeue
  <2>3. BeforeStream' BY <1>9 DEF Requeue
  <2>4. InStream'
    <3>1. (incoming \cap outgoing = {})' BY <1>9 DEF Requeue
    <3>2. pc' = "loop" /\ io # "read" => (incoming \cup outgoing = mapped)'
      BY <1>9 DEF Requeue
    <3> QED BY <1>9, <3>1, <3>2 DEF Requeue
  <2>5. AfterStream' BY <1>9 DEF Requeue
  <2>6. FramesCounted' BY <1>9 DEF Requeue
  <2>7. SuccessIsComplete' BY <1>9 DEF Requeue
  <2> QED BY <2>1, <2>2, <2>3, <2>4, <2>5, <2>6, <2>7
<1> QED BY <1>1, <1>2, <1>3, <1>4, <1>5, <1>6, <1>7, <1>8, <1>9

\* The way out.
LEMMA ReleaseInv ==
    ASSUME IInv, stop_capturing \/ UnmapBuffer \/ UninitDone \/ close_device
    PROVE  IInv'
<1> USE IndicesFacts, CaptureAssumption
    DEF IInv, TypeOK, MethodAt, BeforeStream, InStream, AfterStream, FramesCounted,
        SuccessIsComplete, DriverIdle, Early, Looping, optionVars, driverVars,
        bufferVars, Goto, Exits
<1>1. CASE stop_capturing
  <2>1. TypeOK' BY <1>1 DEF stop_capturing
  <2>2. MethodAt' BY <1>1 DEF stop_capturing
  <2>3. BeforeStream' BY <1>1 DEF stop_capturing
  <2>4. InStream' BY <1>1 DEF stop_capturing
  <2>5. AfterStream'
    <3>1. pc' = "exit" => (incoming \cup outgoing \subseteq mapped)'
      BY <1>1 DEF stop_capturing
    <3>2. io # "read" => mapped = Slots(0, n_buffers) /\ 0 <= n_buffers
      BY <1>1 DEF stop_capturing
    <3>3. io = "read" => DriverIdle /\ mapped = {0} BY <1>1 DEF stop_capturing
    <3> HIDE DEF TypeOK, InStream, BeforeStream, FramesCounted
    <3> QED BY <1>1, <3>1, <3>2, <3>3 DEF stop_capturing
  <2>6. FramesCounted' BY <1>1 DEF stop_capturing
  <2>7. SuccessIsComplete' BY <1>1 DEF stop_capturing
  <2> QED BY <2>1, <2>2, <2>3, <2>4, <2>5, <2>6, <2>7
<1>2. CASE UnmapBuffer
  <2>1. TypeOK' BY <1>2 DEF UnmapBuffer
  <2>2. MethodAt' BY <1>2 DEF UnmapBuffer
  <2>3. BeforeStream' BY <1>2 DEF UnmapBuffer
  <2>4. InStream' BY <1>2 DEF UnmapBuffer
  <2>5. AfterStream'
    <3>1. mapped \ {i} = Slots(i + 1, n_buffers) BY <1>2, SlotsRest DEF UnmapBuffer
    <3>2. i + 1 <= n_buffers BY <1>2 DEF UnmapBuffer
    <3> QED BY <1>2, <3>1, <3>2 DEF UnmapBuffer
  <2>6. FramesCounted' BY <1>2 DEF UnmapBuffer
  <2>7. SuccessIsComplete' BY <1>2 DEF UnmapBuffer
  <2> QED BY <2>1, <2>2, <2>3, <2>4, <2>5, <2>6, <2>7
<1>3. CASE UninitDone
  <2>1. Slots(n_buffers, n_buffers) = {} BY SlotsNone
  <2>2. io # "read" => i = n_buffers BY <1>3 DEF UninitDone
  <2> QED BY <1>3, <2>1, <2>2 DEF UninitDone
<1>4. CASE close_device
  <2>1. TypeOK' BY <1>4 DEF close_device
  <2>2. MethodAt' BY <1>4 DEF close_device
  <2>3. BeforeStream' BY <1>4 DEF close_device
  <2>4. InStream' BY <1>4 DEF close_device
  <2>5. AfterStream' BY <1>4 DEF close_device
  <2>6. FramesCounted' BY <1>4 DEF close_device
  <2>7. SuccessIsComplete' BY <1>4 DEF close_device
  <2> QED BY <2>1, <2>2, <2>3, <2>4, <2>5, <2>6, <2>7
<1> QED BY <1>1, <1>2, <1>3, <1>4

\* The driver fills a buffer while the process is anywhere.
LEMMA DriverInv == ASSUME IInv, DriverFills PROVE IInv'
<1> USE IndicesFacts DEF DriverFills, IInv, TypeOK, MethodAt, BeforeStream, InStream, AfterStream,
       FramesCounted, SuccessIsComplete, DriverIdle, Early, Looping, optionVars,
       bufferVars, LoopFrame
<1>1. TypeOK' OBVIOUS
<1>2. MethodAt' OBVIOUS
<1>3. BeforeStream' OBVIOUS
<1>4. InStream' OBVIOUS
<1>5. AfterStream' OBVIOUS
<1>6. FramesCounted' OBVIOUS
<1>7. SuccessIsComplete' OBVIOUS
<1> QED BY <1>1, <1>2, <1>3, <1>4, <1>5, <1>6, <1>7

\* The invariant holds of every run of the grabber.
THEOREM Invariance == Spec => []IInv
<1>1. IInv /\ Next => IInv'
  BY SetupInv, LoopInv, ReleaseInv, DriverInv DEF Next, Process
<1>2. IInv /\ UNCHANGED vars => IInv'
  BY DEF vars, IInv, TypeOK, MethodAt, BeforeStream, InStream, AfterStream,
     FramesCounted, SuccessIsComplete, DriverIdle, optionVars, driverVars,
     bufferVars, Target
<1> QED BY <1>1, <1>2, InitInv, PTL DEF Spec

-----------------------------------------------------------------------------
\* The two assertions of read_frame hold, and neither the process nor the driver
\* works on memory that the other owns or that is gone.
THEOREM FramesAreOurs == Spec => []FrameIsOurs
<1>1. IInv => FrameIsOurs
  <2> SUFFICES ASSUME IInv PROVE FrameIsOurs OBVIOUS
  <2> USE DEF IInv, TypeOK, BeforeStream, InStream, AfterStream, DriverIdle, Early,
          Looping, MethodAt
  <2>1. pc = "queue" => incoming \cup outgoing \subseteq mapped
    BY IndicesFacts, SlotsGrow
  <2>2. incoming \cup outgoing \subseteq mapped BY <2>1
  <2>3. pc \in {"process", "requeue"} =>
           /\ buf \notin incoming \cup outgoing
           /\ buf \in mapped
           /\ io # "read" => buf < n_buffers
    BY DEF Slots
  <2> QED BY <2>2, <2>3 DEF FrameIsOurs
<1> QED BY <1>1, Invariance, PTL

\* No buffer is lost: whenever the process waits, the driver has all of them.
THEOREM BuffersKept == Spec => []NoBufferLost
<1>1. IInv => NoBufferLost BY DEF IInv, InStream, NoBufferLost
<1> QED BY <1>1, Invariance, PTL

\* Exit status 0 means the frames that -c asked for and everything released.
THEOREM CompleteOnSuccess == Spec => []SuccessIsComplete
<1>1. IInv => SuccessIsComplete BY DEF IInv
<1> QED BY <1>1, Invariance, PTL
=============================================================================
