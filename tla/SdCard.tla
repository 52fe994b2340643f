------------------------------- MODULE SdCard -------------------------------
(***************************************************************************)
(* espressif/esp32/sdcard/main/main.c: mount a card over SPI, write a file *)
(* of two lines, read it back, list the directory, unmount and idle.  Each *)
(* call on the card may fail, the card may be pulled, and power may be     *)
(* lost at any point; the next boot runs app_main from the start on the    *)
(* card as it is.  ESP-IDF's drivers, FAT and stdio are external.          *)
(***************************************************************************)
EXTENDS Naturals, Sequences

CONSTANT MaxBoots       \* bound: times the device starts

VARIABLES
    boot,       \* number of the current start
    pc,         \* where app_main is
    bus,        \* the SPI bus: "free", "taken", or "kept" by a device left on it
    s_card,     \* s_card is not NULL
    vfs,        \* the file system is registered at /sdcard
    fs,         \* the card: "fat" or "unreadable"
    file,       \* lines of hello.txt on the card; a line is its boot's number
    buffer,     \* lines in the open stream's buffer
    errors      \* ESP_LOGE was called in this boot

vars == <<boot, pc, bus, s_card, vfs, fs, file, buffer, errors>>

Init ==
    /\ boot = 1 /\ pc = "mount" /\ bus = "free" /\ s_card = FALSE /\ vfs = FALSE
    /\ fs \in {"fat", "unreadable"} /\ file = <<>> /\ buffer = <<>>
    /\ errors = FALSE

-----------------------------------------------------------------------------
\* spi_bus_initialize refuses a bus that is taken, and may fail otherwise.
BusInit ==
    /\ pc = "mount"
    /\ \/ bus = "free" /\ bus' = "taken" /\ pc' = "vfs_mount" /\ UNCHANGED errors
       \/ errors' = TRUE /\ pc' = "aborted" /\ UNCHANGED bus
    /\ UNCHANGED <<boot, s_card, vfs, fs, file, buffer>>

\* esp_vfs_fat_sdspi_mount; format_if_mount_failed makes it format a card on
\* which it finds no file system.
VfsMount ==
    /\ pc = "vfs_mount" /\ pc' = "write"
    /\ s_card' = TRUE /\ vfs' = TRUE /\ fs' = "fat"
    /\ file' = IF fs = "fat" THEN file ELSE <<>>
    /\ UNCHANGED <<boot, bus, buffer, errors>>

\* Fault: the error path that forgets the bus.
VfsMountFailsKeepsBus ==
    /\ pc = "vfs_mount" /\ pc' = "aborted" /\ errors' = TRUE
    /\ UNCHANGED <<boot, bus, s_card, vfs, fs, file, buffer>>

\* It fails (a timeout, ESP_FAIL, any other code): log, free the bus, return,
\* and app_main returns.
VfsMountFails ==
    /\ pc = "vfs_mount" /\ pc' = "aborted" /\ errors' = TRUE /\ bus' = "free"
    /\ UNCHANGED <<boot, s_card, vfs, fs, file, buffer>>

\* fopen(SD_TEST_FILE, "w") truncates the file.
OpenForWriting ==
    /\ pc = "write" /\ pc' = "fprintf"
    /\ file' = <<>> /\ buffer' = <<>>
    /\ UNCHANGED <<boot, bus, s_card, vfs, fs, errors>>

\* It fails.  The message has a conversion more than arguments: what is
\* printed is undefined, and the device may panic and start again.
OpenForWritingFails ==
    /\ pc = "write" /\ errors' = TRUE
    /\ pc' \in {"read", "panic"}
    /\ UNCHANGED <<boot, bus, s_card, vfs, fs, file, buffer>>

\* The two fprintf calls; a failure of either is logged and the rest is done.
Fprintf ==
    /\ pc = "fprintf" /\ pc' = "fflush"
    /\ \E n \in 0 .. 2 :
          /\ buffer' = [i \in 1 .. n |-> boot]
          /\ errors' = (errors \/ n < 2)
    /\ UNCHANGED <<boot, bus, s_card, vfs, fs, file>>

\* The buffer reaches the file, or a part of it is lost and reported.
Flush(report) ==
    \/ /\ file' = file \o buffer /\ buffer' = <<>> /\ UNCHANGED errors
    \/ /\ buffer # <<>>
       /\ \E n \in 0 .. Len(buffer) - 1 : file' = file \o SubSeq(buffer, 1, n)
       /\ buffer' = <<>> /\ errors' = (errors \/ report)

\* Fault: fflush's result is ignored.
FflushUnchecked ==
    /\ pc = "fflush" /\ pc' = "fsync" /\ Flush(FALSE)
    /\ UNCHANGED <<boot, bus, s_card, vfs, fs>>

\* fflush; its failure is logged.
Fflush ==
    /\ pc = "fflush" /\ pc' = "fsync" /\ Flush(TRUE)
    /\ UNCHANGED <<boot, bus, s_card, vfs, fs>>

\* fsync: the card keeps the file, or loses data FAT still had, and says so.
Fsync ==
    /\ pc = "fsync" /\ pc' = "fclose"
    /\ \/ UNCHANGED <<file, errors>>
       \/ /\ \E n \in 0 .. Len(file) : file' = SubSeq(file, 1, n)
          /\ errors' = TRUE
    /\ UNCHANGED <<boot, bus, s_card, vfs, fs, buffer>>

\* fclose, which has nothing left to write; its failure is logged.
Fclose ==
    /\ pc = "fclose" /\ pc' = "read"
    /\ errors' \in {errors, TRUE}
    /\ UNCHANGED <<boot, bus, s_card, vfs, fs, file, buffer>>

\* sdcard_read_test_file only reads; a failing fopen is logged.
ReadTestFile ==
    /\ pc = "read" /\ pc' = "list"
    /\ errors' \in {errors, TRUE}
    /\ UNCHANGED <<boot, bus, s_card, vfs, fs, file, buffer>>

\* sdcard_list_root only reads.
ListRoot ==
    /\ pc = "list" /\ pc' = "unmount" /\ errors' \in {errors, TRUE}
    /\ UNCHANGED <<boot, bus, s_card, vfs, fs, file, buffer>>

\* sdcard_unmount: the card is forgotten and the bus freed whatever the
\* result, which is only logged.  After a failed unmount the driver may still
\* have its device on the bus; spi_bus_free then refuses, which nobody checks.
Unmount ==
    /\ pc = "unmount" /\ pc' = "idle"
    /\ IF s_card
       THEN /\ s_card' = FALSE
            /\ \/ vfs' = FALSE /\ bus' = "free" /\ errors' \in {errors, TRUE}
               \/ vfs' \in {vfs, FALSE} /\ bus' = "kept" /\ errors' = TRUE
       ELSE UNCHANGED <<s_card, vfs, bus, errors>>
    /\ UNCHANGED <<boot, fs, file, buffer>>

\* Power is lost, the reset button is pressed or the device panicked: memory
\* is gone, and so is any part of a file that was not yet synchronised.
Reset ==
    /\ boot < MaxBoots /\ boot' = boot + 1 /\ pc' = "mount" /\ bus' = "free"
    /\ s_card' = FALSE /\ vfs' = FALSE /\ buffer' = <<>>
    /\ IF pc \in {"fprintf", "fflush", "fsync"}
       THEN \E n \in 0 .. Len(file) : file' = SubSeq(file, 1, n)
       ELSE UNCHANGED file
    /\ errors' = FALSE
    /\ fs' \in (IF vfs THEN {fs, "unreadable"} ELSE {fs})

Next == \/ BusInit \/ VfsMount \/ VfsMountFails \/ OpenForWriting
        \/ OpenForWritingFails \/ Fprintf \/ Fflush \/ Fsync \/ Fclose
        \/ ReadTestFile \/ ListRoot \/ Unmount \/ Reset

Spec == Init /\ [][Next]_vars

-----------------------------------------------------------------------------
(* Properties.                                                             *)

\* The type of every variable.
TypeOK ==
    /\ boot \in 1 .. MaxBoots /\ bus \in {"free", "taken", "kept"}
    /\ {s_card, vfs, errors} \subseteq BOOLEAN
    /\ fs \in {"fat", "unreadable"}
    /\ Len(file) + Len(buffer) <= 2
    /\ \A s \in {file, buffer} : \A i \in DOMAIN s : s[i] \in 1 .. boot

\* "The SPI bus is freed on every error path so re-running mount works"
\* (main.c:31): when app_main has returned or idles the bus is free and
\* nothing is mounted, and the bus is taken for as long as something is.  The
\* one exception is a failed unmount, which is logged.
BusFreed ==
    /\ pc \in {"aborted", "idle"} =>
          /\ ~s_card
          /\ \/ bus = "free" /\ ~vfs
             \/ pc = "idle" /\ bus = "kept" /\ errors
    /\ vfs => bus # "free"

\* "silent write failures are caught" (BRINGUP_NOTES.md:33): a boot that has
\* gone past the write without a logged error has both its lines on the card.
NoSilentWriteFailure ==
    pc \in {"read", "list", "unmount", "idle"} /\ ~errors => file = <<boot, boot>>
=============================================================================
