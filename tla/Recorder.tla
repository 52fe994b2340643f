------------------------------ MODULE Recorder ------------------------------
(***************************************************************************)
(* c/sound_recoder_alsa: main.c makes a WAV header, creates ./out.wav and  *)
(* has recordWAV of wav.c open the sound device, write the header and then *)
(* period after period into the same file through a descriptor of its own. *)
(* Every call may fail.  ALSA, malloc and the file system are external.    *)
(***************************************************************************)
EXTENDS Naturals, Sequences

CONSTANTS
    Micros,         \* duration * 1000
    Rates,          \* sampling rates the device may settle on
    FrameCounts,    \* frames the device may put in a period
    MaxOld          \* bound: length of an out.wav of an earlier run

VARIABLES
    pc,         \* where main or recordWAV is
    header, f, handle, buffer, filedesc,    \* what is allocated or open
    rate, frames,       \* hdr->sample_rate and frames
    periods,    \* i, the periods still to be read
    outwav,     \* the file: "header", "fresh" and "stale" periods, "old" data
    offset,     \* where filedesc writes next
    failed,     \* a write did not write all it was given
    result      \* what recordWAV returned: "none", "ok" or "err"

vars == <<pc, header, f, handle, buffer, filedesc, rate, frames, periods, outwav,
          offset, failed, result>>
held == <<header, f, handle, buffer, filedesc>>
format == <<rate, frames, periods>>
written == <<outwav, offset, failed>>

Init ==
    /\ pc = "start" /\ header = FALSE /\ f = "none" /\ handle = FALSE
    /\ buffer = FALSE /\ filedesc = "none"
    /\ rate = 0 /\ frames = 0 /\ periods = 0
    /\ outwav \in {[i \in 1 .. n |-> "old"] : n \in 0 .. MaxOld}
    /\ offset = 0 /\ failed = FALSE /\ result = "none"

-----------------------------------------------------------------------------
\* main: a wrong number of arguments, or no memory for the header, ends it.
Start ==
    /\ pc = "start"
    /\ \/ pc' = "exit" /\ UNCHANGED header
       \/ pc' = "fopen" /\ header' = TRUE
    /\ UNCHANGED <<f, handle, buffer, filedesc, format, written, result>>

\* Fault: the file is created but not truncated.
FopenKeeps ==
    /\ pc = "fopen" /\ pc' = "snd_pcm_open"
    /\ f' \in {"open", "null"}
    /\ UNCHANGED <<header, handle, buffer, filedesc, format, written, result>>

\* fopen("./out.wav", "w") truncates the file.  The header main then writes
\* goes to (int)f, which is no descriptor of this file, and is lost; its
\* result is 0.  A failed fopen is not noticed.
Fopen ==
    /\ pc = "fopen" /\ pc' = "snd_pcm_open"
    /\ \/ f' = "open" /\ outwav' = <<>>
       \/ f' = "null" /\ UNCHANGED outwav
    /\ UNCHANGED <<header, handle, buffer, filedesc, format, offset, failed, result>>

SndPcmOpen ==
    /\ pc = "snd_pcm_open"
    /\ \/ handle' = TRUE /\ pc' = "set_access" /\ UNCHANGED result
       \/ pc' = "returned" /\ result' = "err" /\ UNCHANGED handle
    /\ UNCHANGED <<header, f, buffer, filedesc, format, written>>

\* The calls that configure the device, in their order, and what follows them.
HwParams == <<"set_access", "set_format", "set_channels", "set_rate_near",
              "set_period_size_near", "hw_params", "get_period_size", "malloc">>

\* One of them succeeds.  The device settles on a rate, which goes into the
\* header, and in the end on a period.
Configure ==
    \E i \in 1 .. Len(HwParams) - 1 :
        /\ pc = HwParams[i] /\ pc' = HwParams[i + 1]
        /\ IF pc = "set_rate_near" THEN rate' \in Rates ELSE UNCHANGED rate
        /\ IF pc = "get_period_size" THEN frames' \in FrameCounts ELSE UNCHANGED frames
        /\ UNCHANGED <<held, periods, written, result>>

\* One of them, or the buffer's malloc, fails: the device is closed.
ConfigureFails ==
    /\ \E i \in 1 .. Len(HwParams) : pc = HwParams[i]
    /\ pc' = "returned" /\ result' = "err" /\ handle' = FALSE
    /\ UNCHANGED <<header, f, buffer, filedesc, format, written>>

Malloc ==
    /\ pc = "malloc" /\ pc' = "get_period_time" /\ buffer' = TRUE
    /\ UNCHANGED <<header, f, handle, filedesc, format, written, result>>

GetPeriodTime ==
    /\ pc = "get_period_time"
    /\ \/ pc' = "open" /\ UNCHANGED <<handle, buffer, result>>
       \/ /\ pc' = "returned" /\ result' = "err"
          /\ handle' = FALSE /\ buffer' = FALSE
    /\ UNCHANGED <<header, f, filedesc, format, written>>

\* open(fileName, O_WRONLY | O_CREAT): from the start of what is there.  Its
\* failure is not noticed.
Open ==
    /\ pc = "open" /\ pc' = "writeWAVHeader"
    /\ filedesc' \in {"open", "bad"} /\ offset' = 0
    /\ UNCHANGED <<header, f, handle, buffer, format, outwav, failed, result>>

\* write(filedesc, ...): over what stands at the offset; or less than that is
\* written, or nothing, and nobody looks.
Write(unit) ==
    LET over(u) == SubSeq(outwav, 1, offset) \o <<u>>
                     \o SubSeq(outwav, offset + 2, Len(outwav))
    IN  \/ /\ filedesc = "open" /\ outwav' = over(unit) /\ offset' = offset + 1
           /\ UNCHANGED failed
        \/ /\ filedesc = "open" /\ outwav' = over("torn") /\ offset' = offset + 1
           /\ failed' = TRUE
        \/ failed' = TRUE /\ UNCHANGED <<outwav, offset>>

\* writeWAVHeader, and the number of periods: a rate below the period divides
\* by zero.
WriteWAVHeader ==
    /\ pc = "writeWAVHeader" /\ Write("header")
    /\ IF rate \div frames = 0
       THEN pc' = "crash" /\ UNCHANGED periods
       ELSE pc' = "record" /\ periods' = Micros \div (rate \div frames)
    /\ UNCHANGED <<held, rate, frames, result>>

\* One turn of the loop.  A short read, and an overrun that snd_pcm_recover
\* repairs, leave an older period's data in the buffer, which is written all
\* the same.
Record ==
    /\ pc = "record" /\ periods > 0 /\ periods' = periods - 1
    /\ \E data \in {"fresh", "stale"} : Write(data)
    /\ UNCHANGED <<pc, held, rate, frames, result>>

\* Fault: the descriptor stays open.
RecordFailsKeepsFile ==
    /\ pc = "record" /\ periods > 0
    /\ pc' = "returned" /\ result' = "err"
    /\ handle' = FALSE /\ buffer' = FALSE
    /\ UNCHANGED <<header, f, filedesc, format, written>>

\* The device's error cannot be repaired.
RecordFails ==
    /\ pc = "record" /\ periods > 0
    /\ pc' = "returned" /\ result' = "err"
    /\ handle' = FALSE /\ buffer' = FALSE /\ filedesc' = "none"
    /\ UNCHANGED <<header, f, format, written>>

RecordEnds ==
    /\ pc = "record" /\ periods = 0
    /\ pc' = "returned" /\ result' = "ok"
    /\ handle' = FALSE /\ buffer' = FALSE /\ filedesc' = "none"
    /\ UNCHANGED <<header, f, format, written>>

\* main: fclose(f), which has nothing to write but crashes on NULL, and
\* free(header).
Finish ==
    /\ pc = "returned"
    /\ IF f = "null" THEN pc' = "crash" /\ UNCHANGED <<header, f>>
       ELSE pc' = "exit" /\ f' = "none" /\ header' = FALSE
    /\ UNCHANGED <<handle, buffer, filedesc, format, written, result>>

Next == \/ Start \/ Fopen \/ SndPcmOpen \/ Configure \/ ConfigureFails \/ Malloc
        \/ GetPeriodTime \/ Open \/ WriteWAVHeader \/ Record \/ RecordFails
        \/ RecordEnds \/ Finish

Spec == Init /\ [][Next]_vars

-----------------------------------------------------------------------------
(* Properties.                                                             *)

\* Whichever call failed, recordWAV returns with the device closed, the buffer
\* freed and its descriptor closed, and main exits with nothing left.
AllReleased ==
    /\ pc \in {"returned", "exit"} => ~handle /\ ~buffer /\ filedesc # "open"
    /\ pc = "exit" => ~header /\ f = "none"

\* After a recording in which no write failed the file is the header and the
\* periods and nothing of a longer recording that stood there before: open has
\* no O_TRUNC, it is main's fopen that empties the file.
FileIsFresh ==
    pc = "exit" /\ result = "ok" /\ ~failed =>
        /\ Len(outwav) = 1 + Micros \div (rate \div frames)
        /\ outwav[1] = "header"
        /\ \A i \in 2 .. Len(outwav) : outwav[i] \in {"fresh", "stale"}
=============================================================================
