------------------------------ MODULE Capture -------------------------------
(***************************************************************************)
(* The V4L2 grabber of c/video_capture_v4l2 (capture.c): one thread, and a *)
(* driver that fills the buffers it owns while the thread does other       *)
(* things.  A buffer changes hands by VIDIOC_QBUF (to the driver) and      *)
(* VIDIOC_DQBUF (back), and all of them come back with VIDIOC_STREAMOFF.   *)
(*                                                                         *)
(* Any ioctl may fail, which ends the process through errno_exit; xioctl   *)
(* and select go round again on EINTR, a step that changes nothing.  The   *)
(* contents and the size of a frame are left out.                          *)
(***************************************************************************)
EXTENDS Naturals

CONSTANTS
    FrameCounts,    \* values of -c
    Wanted,         \* req.count asked for (4)
    MaxGrant        \* bound on the buffers a driver grants

ASSUME CaptureAssumption == /\ FrameCounts \subseteq Nat
                            /\ Wanted \in Nat \ {0, 1} /\ MaxGrant \in Nat \ {0, 1}

VARIABLES
    pc, status,                                 \* main; the exit status
    io, out_buf, frame_count,                   \* options
    count, i, n_buffers, mapped, buf, opened,   \* the process
    granted, streaming, incoming, outgoing, pending,  \* the driver
    frames                                      \* ghost: frames processed

optionVars == <<io, out_buf, frame_count>>
driverVars == <<granted, streaming, incoming, outgoing, pending>>
bufferVars == <<n_buffers, mapped>>
vars == <<pc, status, optionVars, count, i, bufferVars, buf, opened,
          driverVars, frames>>

Methods == {"mmap", "read", "userp"}
Indices == 0..(IF Wanted > MaxGrant THEN Wanted ELSE MaxGrant)

Init ==
    /\ pc = "options" /\ status = 0
    /\ io = "mmap" /\ out_buf = FALSE /\ frame_count = 0
    /\ count = 0 /\ i = 0 /\ n_buffers = 0 /\ mapped = {} /\ buf = 0
    /\ opened = FALSE
    /\ granted = 0 /\ streaming = FALSE /\ incoming = {} /\ outgoing = {}
    /\ pending = FALSE /\ frames = 0

\* errno_exit, a failed assertion or an abort: the kernel cleans up.
Exits == pc' = "exit" /\ status' = 1
Goto(p) == pc' = p /\ UNCHANGED status

\* Does the driver have a frame for us?
Available == IF io = "read" THEN pending ELSE outgoing # {}

-----------------------------------------------------------------------------
(* main, open_device, init_device                                           *)

ParseOptions ==
    /\ pc = "options"
    /\ \/ /\ io' \in Methods /\ out_buf' \in BOOLEAN /\ frame_count' \in FrameCounts
          /\ Goto("open")
       \/ pc' = "usage" /\ status' \in {0, 1}       \* -h, or a bad option
          /\ UNCHANGED optionVars
    /\ UNCHANGED <<count, i, bufferVars, buf, opened, driverVars, frames>>

open_device ==
    /\ pc = "open"
    /\ \/ opened' = TRUE /\ Goto("init")
       \/ Exits /\ UNCHANGED opened
    /\ UNCHANGED <<optionVars, count, i, bufferVars, buf, driverVars, frames>>

\* Capabilities, cropping (errors ignored) and the format, whose size is the
\* driver's choice even when -f asks for one; then the buffers of the method.
init_device ==
    /\ pc = "init"
    /\ \/ Goto(IF io = "read" THEN "init_read" ELSE "request")
       \/ Exits
    /\ UNCHANGED <<optionVars, count, i, bufferVars, buf, opened, driverVars, frames>>

\* One private buffer; n_buffers stays 0.
init_read ==
    /\ pc = "init_read"
    /\ \/ /\ mapped' = {0} /\ count' = frame_count
          /\ Goto("loop")                           \* nothing to start
       \/ Exits /\ UNCHANGED <<mapped, count>>
    /\ UNCHANGED <<optionVars, i, n_buffers, buf, opened, driverVars, frames>>

\* VIDIOC_REQBUFS: the driver may grant fewer or more than asked.  Only the
\* mmap method looks at the number.
RequestBuffers ==
    /\ pc = "request"
    /\ \/ /\ granted' \in 1..MaxGrant
          /\ IF io = "mmap" /\ granted' < 2 THEN Exits ELSE Goto("map")
       \/ Exits /\ UNCHANGED granted
    /\ n_buffers' = 0
    /\ UNCHANGED <<optionVars, count, i, mapped, buf, opened, streaming,
                   incoming, outgoing, pending, frames>>

Target == IF io = "mmap" THEN granted ELSE Wanted

\* One round of the loop of init_mmap (query, map) or init_userp (malloc).
MapBuffer ==
    /\ pc = "map" /\ n_buffers < Target
    /\ \/ /\ mapped' = mapped \cup {n_buffers} /\ n_buffers' = n_buffers + 1
          /\ Goto("map")
       \/ Exits /\ UNCHANGED bufferVars
    /\ UNCHANGED <<optionVars, count, i, buf, opened, driverVars, frames>>

MapDone ==
    /\ pc = "map" /\ n_buffers = Target
    /\ i' = 0 /\ Goto("queue")
    /\ UNCHANGED <<optionVars, count, bufferVars, buf, opened, driverVars, frames>>

-----------------------------------------------------------------------------
(* start_capturing                                                          *)

\* A buffer index the driver did not grant is refused.
QueueBuffer ==
    /\ pc = "queue" /\ i < n_buffers
    /\ \/ /\ i < granted
          /\ incoming' = incoming \cup {i} /\ i' = i + 1
          /\ Goto("queue")
       \/ Exits /\ UNCHANGED <<incoming, i>>
    /\ UNCHANGED <<optionVars, count, bufferVars, buf, opened, granted,
                   streaming, outgoing, pending, frames>>

StreamOn ==
    /\ pc = "queue" /\ i = n_buffers
    /\ \/ streaming' = TRUE /\ count' = frame_count /\ Goto("loop")
       \/ Exits /\ UNCHANGED <<streaming, count>>
    /\ UNCHANGED <<optionVars, i, bufferVars, buf, opened, granted,
                   incoming, outgoing, pending, frames>>

-----------------------------------------------------------------------------
(* mainloop, read_frame, process_image                                      *)

LoopFrame == UNCHANGED <<optionVars, i, bufferVars, opened, granted, streaming>>

LoopTest ==
    /\ pc = "loop"
    /\ IF count > 0 THEN count' = count - 1 /\ Goto("select")
                    ELSE UNCHANGED count /\ Goto("stop")
    /\ UNCHANGED <<buf, incoming, outgoing, pending, frames>> /\ LoopFrame

\* select reports the device, possibly for nothing.
SelectReady ==
    /\ pc = "select" /\ Goto("read")
    /\ UNCHANGED <<count, buf, incoming, outgoing, pending, frames>> /\ LoopFrame

\* Fault: after a timeout the device is waited for again.
SelectTimeoutRetries ==
    /\ pc = "select" /\ ~Available /\ Goto("select")
    /\ UNCHANGED <<count, buf, incoming, outgoing, pending, frames>> /\ LoopFrame

\* Two seconds without a frame, or an error of select.
SelectTimeout ==
    /\ pc = "select" /\ ~Available /\ Exits
    /\ UNCHANGED <<count, buf, incoming, outgoing, pending, frames>> /\ LoopFrame

SelectFails ==
    /\ pc = "select" /\ Exits
    /\ UNCHANGED <<count, buf, incoming, outgoing, pending, frames>> /\ LoopFrame

\* Fault: the buffer is handed back before it has been looked at.
DequeueEager ==
    /\ pc = "read"
    /\ IF io = "read"
         THEN /\ pending /\ pending' = FALSE /\ buf' = 0
              /\ UNCHANGED <<incoming, outgoing>>
         ELSE \E b \in outgoing :
                /\ buf' = b /\ outgoing' = outgoing \ {b}
                /\ incoming' = incoming \cup {b}
                /\ UNCHANGED pending
    /\ Goto("process")
    /\ UNCHANGED <<count, frames>> /\ LoopFrame

\* read() or VIDIOC_DQBUF succeeds; the assertions on the index follow from
\* what was queued.
Dequeue ==
    /\ pc = "read"
    /\ IF io = "read"
         THEN /\ pending /\ pending' = FALSE /\ buf' = 0
              /\ UNCHANGED outgoing
         ELSE \E b \in outgoing :
                buf' = b /\ outgoing' = outgoing \ {b} /\ UNCHANGED pending
    /\ Goto("process")
    /\ UNCHANGED <<count, incoming, frames>> /\ LoopFrame

\* Fault: a round without a frame is counted as one.
DequeueAgainCounted ==
    /\ pc = "read" /\ ~Available /\ Goto("loop")
    /\ UNCHANGED <<count, buf, incoming, outgoing, pending, frames>> /\ LoopFrame

\* EAGAIN: read_frame returns 0 and the inner loop goes on.
DequeueAgain ==
    /\ pc = "read" /\ ~Available /\ Goto("select")
    /\ UNCHANGED <<count, buf, incoming, outgoing, pending, frames>> /\ LoopFrame

DequeueFails ==
    /\ pc = "read" /\ Exits
    /\ UNCHANGED <<count, buf, incoming, outgoing, pending, frames>> /\ LoopFrame

\* Fault: after a conversion read_frame returns without queueing the buffer.
process_imageDrops ==
    /\ pc = "process"
    /\ frames' = frames + 1
    /\ Goto(IF io = "read" \/ out_buf THEN "loop" ELSE "requeue")
    /\ UNCHANGED <<count, buf, incoming, outgoing, pending>> /\ LoopFrame

\* With -o the frame is converted to RGB in an allocation of the frame's own
\* size, which is too small for YUYV (the process goes on or aborts), and written
\* to ./file.jpg, which ends the process when the file cannot be created.
process_image ==
    /\ pc = "process"
    /\ \/ /\ frames' = frames + 1
          /\ Goto(IF io = "read" THEN "loop" ELSE "requeue")
       \/ out_buf /\ Exits /\ UNCHANGED frames
    /\ UNCHANGED <<count, buf, incoming, outgoing, pending>> /\ LoopFrame

Requeue ==
    /\ pc = "requeue"
    /\ \/ incoming' = incoming \cup {buf} /\ Goto("loop")
       \/ Exits /\ UNCHANGED incoming
    /\ UNCHANGED <<count, buf, outgoing, pending, frames>> /\ LoopFrame

-----------------------------------------------------------------------------
(* stop_capturing, uninit_device, close_device                              *)

\* VIDIOC_STREAMOFF returns every buffer.
stop_capturing ==
    /\ pc = "stop"
    /\ \/ /\ io # "read"
          /\ streaming' = FALSE /\ incoming' = {} /\ outgoing' = {}
          /\ Goto("uninit") /\ i' = 0
       \/ /\ io # "read" /\ Exits
          /\ UNCHANGED <<streaming, incoming, outgoing, i>>
       \/ /\ io = "read" /\ Goto("uninit") /\ i' = 0
          /\ UNCHANGED <<streaming, incoming, outgoing>>
    /\ UNCHANGED <<optionVars, count, bufferVars, buf, opened, granted, pending, frames>>

\* One round of the loop; only munmap can fail.
UnmapBuffer ==
    /\ pc = "uninit" /\ io # "read" /\ i < n_buffers
    /\ \/ mapped' = mapped \ {i} /\ i' = i + 1 /\ Goto("uninit")
       \/ io = "mmap" /\ Exits /\ UNCHANGED <<mapped, i>>
    /\ UNCHANGED <<optionVars, count, n_buffers, buf, opened, driverVars, frames>>

UninitDone ==
    /\ pc = "uninit" /\ (io = "read" \/ i >= n_buffers)
    /\ mapped' = IF io = "read" THEN mapped \ {0} ELSE mapped
    /\ Goto("close")
    /\ UNCHANGED <<optionVars, count, i, n_buffers, buf, opened, driverVars, frames>>

close_device ==
    /\ pc = "close"
    /\ \/ opened' = FALSE /\ Goto("exit")
       \/ Exits /\ UNCHANGED opened
    /\ UNCHANGED <<optionVars, count, i, bufferVars, buf, driverVars, frames>>

-----------------------------------------------------------------------------
\* The driver fills a buffer it was given, at any time while it streams, or has
\* a frame for read().  (External.)
DriverFills ==
    /\ opened /\ pc # "exit"
    /\ \/ /\ streaming
          /\ \E b \in incoming : incoming' = incoming \ {b}
                                 /\ outgoing' = outgoing \cup {b}
          /\ UNCHANGED pending
       \/ /\ io = "read" /\ ~pending /\ pending' = TRUE
          /\ UNCHANGED <<incoming, outgoing>>
    /\ UNCHANGED <<pc, status, count, buf, frames>> /\ LoopFrame

Process ==
    \/ ParseOptions \/ open_device \/ init_device \/ init_read \/ RequestBuffers
    \/ MapBuffer \/ MapDone \/ QueueBuffer \/ StreamOn
    \/ LoopTest \/ SelectReady \/ SelectTimeout \/ SelectFails
    \/ Dequeue \/ DequeueAgain \/ DequeueFails \/ process_image \/ Requeue
    \/ stop_capturing \/ UnmapBuffer \/ UninitDone \/ close_device

Next == Process \/ DriverFills

Spec == Init /\ [][Next]_vars

\* The process runs, EINTR does not come for ever, and a device without a frame
\* is not reported ready for ever.  The driver need never deliver anything.
FairSpec == Spec /\ WF_vars(Process) /\ SF_vars(SelectTimeout)

-----------------------------------------------------------------------------
\* Every variable has its type.
TypeOK ==
    /\ pc \in {"options", "open", "init", "init_read", "request", "map", "queue",
               "loop", "select", "read", "process", "requeue", "stop", "uninit",
               "close", "exit", "usage"}
    /\ status \in {0, 1} /\ io \in Methods /\ out_buf \in BOOLEAN
    /\ frame_count \in FrameCounts \cup {0} /\ count \in Nat /\ frames \in Nat
    /\ i \in Indices /\ n_buffers \in Indices /\ mapped \in SUBSET Indices
    /\ buf \in Indices /\ opened \in BOOLEAN /\ granted \in 0..MaxGrant
    /\ streaming \in BOOLEAN /\ pending \in BOOLEAN
    /\ incoming \in SUBSET Indices /\ outgoing \in SUBSET Indices

\* While read_frame looks at a buffer the driver does not own it, it is one of
\* the n_buffers (the two assertions of read_frame) and its memory is there;
\* nor does the driver ever own memory that was given back to the system.
FrameIsOurs ==
    /\ incoming \cup outgoing \subseteq mapped
    /\ pc \in {"process", "requeue"} =>
        /\ buf \notin incoming \cup outgoing
        /\ buf \in mapped
        /\ io # "read" => buf < n_buffers

\* Every time the process waits for a frame the driver has all the buffers: none
\* is lost over EAGAIN, a failed conversion or a round of the loop.
NoBufferLost ==
    pc \in {"select", "read"} /\ io # "read" => incoming \cup outgoing = mapped

\* Success means what usage() says of -c: exactly that many frames, and then
\* everything released in the right order.
SuccessIsComplete ==
    pc = "exit" /\ status = 0 =>
        /\ frames = frame_count
        /\ mapped = {} /\ ~opened /\ ~streaming

\* The program ends whether or not the device ever delivers: select's timeout is
\* the only thing that stands between it and waiting for ever.
RunEnds == <>(pc \in {"exit", "usage"})
=============================================================================
