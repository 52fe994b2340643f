# TLA+ models of CodeSamples

The repository is a collection of independent sample programs. This directory
models the ones with logic of their own (threads, protocols, persistence, shared
resources, failure paths), checks the models with TLC on small instances, and
proves the safety properties of all of them with TLAPS for every value of their
constants.

`PROJECT.json` lists components, runs, the correspondence between definitions
and source lines (`map`), faults that each property detects (`mutants`), findings,
hazards and theorems. A definition whose comment begins with `Fault:` is not part
of a specification: it is the body a mutant substitutes for the definition after it.

## Inventory

### gmail-calendar (`c/gmail-calendar`), the largest program

`gcal_c_sample` lists the next events of a Google calendar. A run with `--auth`
opens a browser on the consent page, waits on a loopback HTTP listener for the
redirect that carries the authorisation code, exchanges the code (with a PKCE
verifier) for a refresh token and saves that to `config.json`. Any run then
exchanges the refresh token for an access token and calls the calendar API.

| part | state | operations | interacts with |
|---|---|---|---|
| `loopback.c` | a context on the caller's stack (mutex, condition variable, `received`, `success`, `code`), a server task | `loopback_wait_for_code`, the request handler on the worker thread | browser, http-c server |
| `util.c` | `config.json`, `config.json.tmp` | `write_file_secure`, `read_file`; the encoders `b64url_encode`, `url_encode` | other runs in the same directory |
| `oauth.c` | configuration, verifier, tokens | load, save, authorisation flow, refresh | all the others, Google |
| `http_helper.c` | endpoint, connection | one HTTPS exchange with eight ways to return | Google |
| `calendar.c`, `main.c` | none | list, command line | |

Hard here: two threads around an object on a stack that dies; the deadline
against a late request; several requests where one is expected; a kill between
any two steps of a save or of the flow; answers that arrive after the client gave
up; tabs of earlier runs.

### The other modelled programs

| program | state | hard behaviour | correct means |
|---|---|---|---|
| `c/utils` list | head, tail, next, count, heap | long sequences of calls, freed addresses that come back | after each call the heap is one chain with the right ends and count |
| `c/video_capture_v4l2` | buffers and who owns them | the driver fills buffers meanwhile; EAGAIN, timeouts, partial set-up | a buffer is never used by both sides, lost, or freed while in use |
| `c/openssl`, `c/openssl_more` | listen queue, connections, data in flight | clients that wait, vanish, stall; unchecked results | everybody gets his own answer, nothing leaks, nobody hangs |
| `c/sqllite` | a database file, a connection, a statement | failing calls, most of them ignored; kills and reruns | transaction and cleanup do what their comments say |
| `c/mysql` | a database on a server | concurrent runs that use the same names | runs do not mix |
| `espressif/esp32/sdcard` | SPI bus, mounted card, stdio buffer | power loss, failing calls, buffered writes | the bus is released, no silent loss |
| `csharp/YoutubeExplodeCmd` | a timer, the text last drawn, the console's line | callbacks on pool threads against `Report` and `Dispose` | one callback at a time, nothing drawn after `Dispose`, no report forgotten |
| `c/sound_recoder_alsa` | a device, a buffer, the same file opened twice | ten calls that may fail, overruns, an older recording in the file | everything released, the file is this recording |
| `c/YoutubeSearch` | URL, page, parser, list of results | chunks, failing allocations, a buffer that is no string | every matching link once, everything but the parser freed |
| `csharp/Imap` | a connection with unread pieces of answers | one read for each command | the attachment is complete, or one knows when it is not |
| `csharp/NetScan` | a list filled by callbacks | continuations that overlap | the listing waits for all of them |

### Not modelled

Listed in `PROJECT.json` with the reasons. They fall into four groups:

* **nothing to run**: TimeEx, TimeSpan and the tar reader do not compile as they
  stand, so there is no behaviour a model could be held against;
* **no state to interleave**: single library calls whose result is printed, SQL
  statements and scripts, servo timing, language demonstrations, logging, one
  datagram each way (UDP), one request with a correctly grown buffer (MusicBrainz);
* **straight-line**: the mbedTLS JWS sample calls a cryptographic library on
  constant data;
* **someone else's logic**: cloud clients whose state is in the service, user
  interface glue, designer-generated code.

Of modelled programs, `find_media_item_result` of `ytsearch.c` (never called) and
the tables of `server_blocking.c` that turn error codes into names are left out.

## Modules

| module | models | extends or instantiates |
|---|---|---|
| `OneShotCode` | what `loopback_wait_for_code` promises (`loopback.h`): requests are offered, the first decides, the call returns its code or fails, once | |
| `Loopback` | `loopback.c`, both threads | `OneShotCode` by refinement mapping |
| `LoopbackProofs` | theorems about `Loopback` | `Loopback` |
| `AtomicFile` | what `util.h` promises of `config.json`: a save takes effect in one instant or not at all and its result says which, a load returns the contents of the instant it opened the file | |
| `ConfigFile` | `write_file_secure` and `read_file` in several processes on a small file system | `AtomicFile` by refinement mapping |
| `ConfigFileProofs` | theorems about `ConfigFile` | `ConfigFile` |
| `Gcal` | `main.c`, `oauth.c`, `http_helper.c`, `calendar.c` over several runs; composes the listener and the file | `OneShotCode` |
| `GcalProofs` | theorems about `Gcal` | `Gcal` |
| `NodeSequence` | a list as a sequence of distinct nodes | |
| `List` | `list.c` in memory | `NodeSequence` by refinement mapping |
| `ListProofs` | theorems about `List` | `List` |
| `Capture` | `capture.c` and the driver | |
| `CaptureProofs` | theorems about `Capture` | `Capture` |
| `Tls` | `client.c`, `server.c`, `server_blocking.c` and the network between | |
| `TlsProofs` | theorems about `Tls` | `Tls` |
| `ProgressBar` | `ProgressBar.cs` and the end of `Program.cs` | |
| `ProgressBarProofs` | theorems about `ProgressBar` | `ProgressBar` |
| `Mysql` | `c/mysql/main.c`, any number of runs on one server | |
| `Sqlite`, `SdCard`, `Recorder`, `YtSearch`, `Imap`, `NetScan` | the other small programs | |
| `Codec` | the encoders and `rstrip` of `util.c` | |
| `Samples` | the programs of the last three rows side by side: `prog` says which one runs | all eight, by named `INSTANCE` |
| `SamplesProofs` | theorems about all eight | `Samples` |
| `MC*` | the constants of the runs | |

How they compose: `Gcal` does not repeat the threads of the listener or the
system calls of a save. It uses `OneShotCode`, which `Loopback` is proved to
implement, and one step "old or new" for a save, which is what `AtomicFile` says
and `ConfigFile` is proved to implement as long as saves do not overlap; runs in
`Gcal` follow one another.

### State and code

**Loopback.** `pc` is the place in `loopback_wait_for_code` (one value per
acquisition, then the wait loop, copy, stop, join, teardown), `wpc` that of the
worker thread. `received`, `success`, `code` are the fields of
`loopback_ctx_t`; `mutex` its owner; `signalled` says that a broadcast reached the
waiter; `held` is what has been acquired and not released; `late` the passing of
the deadline. `pthread_cond_timedwait` is split into waiting, waking (by a signal,
spuriously, or by the deadline) and taking the mutex again. `first` is a ghost: the
first request a handler captured. A code is a model value with a length, because
only its length against the two buffers matters. The page sent back is constant
and is left out.

**ConfigFile.** Directory entries map to inodes and descriptors keep theirs. A
file is a row of blocks; `write` takes any non-empty part of the rest, `fread`
goes block by block. `O_TRUNC`, `rename`, `unlink` and the failure of each call
are steps of their own; a kill closes the descriptors and leaves the files.
`Overlap = FALSE` lets a save start only when no other is under way.

**Gcal.** `pc` follows `main` and the flow; `hpc`, `hopen`, `hret` follow
`http_helper_do`. A verifier, a URL, a code and a refresh token that belong
together carry the number of the run that generated the verifier: this is what
PKCE makes Google check. `wire` holds requests that may still be served after the
client gave up; `tabs` the consent pages opened so far. JSON is reduced to whether
it parses and which fields it has; `disk.escapes` says whether a string in the
user's file has a quotation mark, which the code writes back unescaped, so that the
next load fails. `connect`, `send` and `receive` are the places of `hpc` at which the
helper waits for the other side.

**List.** Nodes are addresses; `malloc` returns any address not in use. A call
that loops around a callback takes one step per round, with the callback's answer
free. NULL arguments log and change nothing.

**Capture.** The driver's two queues (`incoming`, `outgoing`), the memory mapped
or allocated (`mapped`), and the buffer in hand (`buf`). A failing ioctl exits.
EINTR is a stuttering step. Contents and sizes of frames are left out.

**Tls.** The server that runs (`server.c` or the echo server), one connection per
client, lines in flight in both directions, and both ends' open flags. Results of
`SSL_accept` and `SSL_connect` are kept as 1, 0, -1 because the code only compares
with -1. A write to a closed connection may raise SIGPIPE, which neither server
handles.

**Sqlite.** The statements of `main` in their order, each as prepare, bind and
step, finalise; a connection's view against the committed file, both as sets of
rows, since a run inserts each name once. A failing statement
changes nothing or rolls the transaction back, both of which the library does.

**SdCard.** `app_main` call by call; lines printed into the stream's buffer reach
the card at a flush, on `fclose` too. Power loss empties everything but the card. The
bus is `"kept"` when a failed unmount left the driver's device on it, so that the
unchecked `spi_bus_free` was refused.

**Mysql.** Four stages per run, a statement per step; a row is the run that
inserted it and its id. `NoneSkipped` is explained below.

**ProgressBar.** `handler[w]` is the callback on pool thread `w`: its place and its
two locals. `armed` is the one-shot timer, `lock` the owner of its monitor. The
console is what stands behind "Downloading... " (`line`) and the `cursor`: writing
overwrites, a backspace only moves. A progress is an integer percentage; the text
has one place per block, one for the percentage and one for the animation, which
keeps what differs between two texts and in which order. `Report` takes any value at
any time. `lowered` and `drawnLowered` are history: a report lowered the progress
between the two readings for the text that is put together, or that is drawn. NaN, and
a line longer than the console is wide, are left out.

**Recorder.** `outwav` is a row of units: the header, and periods that are fresh,
stale (the buffer of an earlier period, written again after a short read or a
repaired overrun) or torn (a short write). `f` and `filedesc` are the two openings
of the same file. The header `main` itself writes goes to `(int)f`, no descriptor
of this file, and is lost.

**YtSearch.** A page is a row of anchors, an anchor a row of attributes, and a chunk
brings one anchor. `strlen` on the unterminated buffer is a choice between a zero
that happens to follow, foreign bytes and a crash. `results` holds numbers of
anchors; 0 is an entry that was never set. `parser` stands for `myhtml`, `tree` and
`collection`, which nothing destroys.

**Imap.** `wire` holds the pieces of answers that were sent and not read, each with
the command it belongs to. A read takes one piece. A failing `Close` in the finally
block is left out.

**NetScan.** `List.Add` is two steps, because the list is not synchronised; what the
second leaves when the list has changed in between is a choice; it may also throw,
which faults the continuation.

**Codec.** One step for each turn of a loop on a buffer of the caller's size, with
`outside` for a write beyond it; characters are a kind and a value, so that the
properties can decode what was encoded. `evp` says whether OpenSSL reported an error.

## Runs

| run | instance | what it shows |
|---|---|---|
| `loopback` | codes of length 1, 1, 2, 3 against buffers of 3 and 2 | no use of the context after destruction, no leak on any failure path, implementation of `OneShotCode`, prompt return once a request was handled (with no help of the deadline), return after the deadline |
| `config` | one writer, one reader, files of 1, 3, 4 blocks, a buffer of 4 | the file under its name is always one complete version, the result of a save is true, implementation of `AtomicFile` (so that a reader sees one whole version, that of its open), a save ends |
| `config_overlap` | two writers | violated: see findings |
| `gcal` | three runs | only a token granted to this run is stored; status 0 of `--auth` means stored; a token in use is the stored one, in a file that will load again unless this run has just saved a string that needed escaping; a stored token is never lost; no endpoint or connection leaks; a run ends if no HTTPS call blocks for ever |
| `gcal_escapes` | two runs | violated: see findings |
| `list` | three addresses, `list_remove_if` never matches the last node | chain, count, tail and heap agree after every call; no pointer in use is dangling in the middle of one; the list implements a sequence; `list_remove_if` and `list_destroy`, which do advance, return |
| `list_remove`, `list_tail` | two addresses | violated: see findings |
| `capture` | 2 buffers wanted, 1..3 granted, frame counts 0, 1 and 3, all three methods | ownership of buffers, none lost while waiting, status 0 means all frames and everything released, the program ends even if the device is silent |
| `tls` | two clients, a queue of one, two lines | every answer is that of one's own request, `server.c` holds no connection when back at `accept`, no client hangs unless a user leaves a prompt open |
| `progress` | three blocks, two animation characters, three pool threads, reports of -10, 40, 60 and 110 % in any order | one tick at a time; the line on the console is `currentText` and nothing else; once the bar is disposed it draws nothing over what `MainAsync` writes; the bar is ahead of the percentage only if a report lowered the progress between the two readings; a report is shown unless another or `Dispose` comes first |
| `samples` | each of the eight small modules on its own | see below |

`samples` asks of each small program the questions that matter for it:

| property | of | what it says |
|---|---|---|
| `ReleasedButParser` | `SdCard`, `Sqlite`, `Recorder`, `YtSearch`, `Imap` | every way out has closed and freed what was opened and allocated, except the search's parser objects (kept by every search), the descriptions a search lost when memory ran out, and a card whose unmount failed and was logged; two boots in a row need the bus freed, and a statement left alive would keep the database open |
| `NoSilentWriteFailure` | `SdCard` | a boot that logged no error has its two lines on the card |
| `StartsClean`, `InsertsAtomic` | `Sqlite` | no run shows rows of an earlier one; the four inserts appear together, unless a call of the transaction failed |
| `FileIsFresh` | `Recorder` | nothing of an older, longer recording is left behind a good one |
| `SearchComplete` | `YtSearch` | every titled link to a video, playlist or channel, once, in order |
| `LastBytesRead` | `Imap` | the NOOP "workaround" completes the attachment exactly when at most two pieces were outstanding |
| `Exclusive`, `ListsOwnCars` | `Mysql` | a run in the middle of its work owns the database, and lists its own rows and all of them |
| `ScanTrue` | `NetScan` | nothing is added while the list is printed; an address is missing from it only if two continuations collided in `List.Add` |
| `EncodersRight` | `Codec` | whatever `url_encode` and `b64url_encode` return decodes to their input; the first refuses exactly the buffers that are too small, the second all of those and none that holds the padded form, unless OpenSSL fails; `rstrip` leaves no line end and cuts off only white space; nothing is written outside. Where code and `util.h` disagree (see the deviations) it takes neither side |

Type invariants are part of the inductive invariants of the proof modules, or follow
from them (`TypeCorrect`); the runs spend their properties on behaviour.

`LcSafe` is the conjunction `NoUseAfterDestroy`, `NoDataRace`, `NoOverflow`,
`NoLeak` of the loopback listener.

### Why the bounds are enough to be interesting

* *loopback*: a code that fits everywhere, one that fills the handler's buffer and
  not the caller's, one too long for both, none; the number of requests is not
  bounded, because the state does not count them.
* *config*: a version of one block, one of several (partial writes, a reader in
  the middle), one that does not fit the buffer; three inodes are the file, the
  temporary file and a replaced file that a reader has open.
* *gcal*: three runs, so that a late answer or an old tab can meet a run that
  itself follows a failed one.
* *list*: first, middle and last node are distinct, and each address is reused.
* *capture*: fewer, as many and more buffers than asked for; three frames make a
  buffer go round.
* *tls*: one client served while another queues; a second line before the first
  answer.
* *progress*: one thread more than can be busy (one inside the lock that has armed
  the timer again, one waiting), reports within a block, across blocks, below 0 and beyond 100 %, rising
  and falling.
* *samples*: two database runs, so that one starts from whatever the other left;
  three boots, with a cut between two good ones; recordings of 0, 1, 2 and 4 periods
  over files of up to six units, and a rate below the period (a division by zero);
  three anchors, so that the list of results loses and regains entries; answers of up
  to three pieces, one more than two reads can take; three pings, two of which may
  overlap a third; strings of three and raw inputs of four bytes (every remainder
  modulo 3) in buffers from 0 to 11; three MySQL runs (one inside, one that meets its
  database, one after both) and two rows, so that a listing can be incomplete.

`CHECK_DEADLOCK FALSE` is set where the program ends or a bound on runs is
reached (all but `config` and the list runs, which go on for ever).

### Fairness

* `Loopback`: weak fairness for each thread's own steps and for the wake-up of a
  signalled waiter, as the scheduler gives; strong fairness for taking the mutex,
  since requests may keep taking it in turns (a browser sends finitely many; the
  model does not bound them). None for requests, the deadline or spurious
  wake-ups: `PromptReturn` must not depend on the clock, and `Terminates` starts
  from the moment the deadline has passed.
* `ConfigFile`: weak fairness for the steps of a save, after which a process that
  is neither killed nor blocked makes progress; a killed save has ended too.
* `Gcal`: weak fairness for `main` and for the steps of `http_helper_do` that wait for
  nobody (`HttpLocal`). None for `connect`, `send` and `receive`, which block on the
  other side without a timeout, and none for Google, the browser and the user:
  `RunEndsUnlessBlocked` has as its hypothesis that the helper is again and again outside those
  three calls.
* `List`: weak fairness for rounds of a call. `RemoveEnds` fails under it because
  the rounds themselves go nowhere.
* `Capture`: weak fairness for the process, and strong fairness for the timeout of
  `select`: a program that waits again and again on a silent device meets it.
  None for the driver.
* `ProgressBar`: weak fairness for the timer, which fires once armed, and for the
  callback on each pool thread. None for the download, which need not report or end,
  and none for the user.
* `Tls`: weak fairness for the server, each client and each handshake, strong
  fairness for `accept`. None for users: `ClientsFinish` has as its hypothesis that
  no user stays at a prompt for ever.

## Proofs

All developments have the same shape: an inductive invariant, one step per action,
then the properties as consequences. The theorems rest on

* the named assumptions on the constants, which TLC evaluates in the runs;
* the models of external code (the definitions marked external in `map`): what
  drivers, libraries, the file system and the servers do and can fail to do;
* three hypotheses, which the runs make as well: saves do not overlap (`~Overlap`) and
  `list_remove_if` does not remove the last node (`~MatchLast`), both the border to a
  finding whose run crosses it; and the first `config.json` fits the buffer of
  `read_file` (`Fits`), for `WholeReads` and `Refinement` of the configuration file;
* the exceptions a property itself states, where the code does fall short: `faults`
  and lost memory in the search, overlapping `Add` calls in the scanner, a skipped
  `create_database` (`NoneSkipped`), a failed call in the SQLite transaction or a failed
  `remove`, a logged unmount failure, a progress lowered between two readings.

**LoopbackProofs** (assumes: `NoCode` is not a code, lengths and buffer sizes are
naturals). `IInv` consists of

* `MutexOwner`: the mutex is owned by exactly the thread whose place says so;
* `HeldAt`: what is held is a function of the caller's place, which makes each
  hand-written release list checkable;
* `WorkerLifetime`: the worker is running between the start of the task and the
  join, and a handler runs only in between;
* `FirstCaptured`, `ResultIsCode`: the fields of the context, and what was copied
  from them, follow from the first captured request and nothing else;
* `FailureExplained` and the types.

None of `NoUseAfterDestroy`, `NoDataRace`, `NoLeak` is inductive alone: that the
context is alive under a handler needs that the teardown comes after the join,
that the join waits for the worker, and which resources exist at each place.
From `IInv` follow `UseAfterDestroyFree`, `DataRaceFree`, `OverflowFree`,
`LeakFree` and their conjunction `LcSafety`, `FailuresExplained` (a failure after the
wait means a timeout or an unusable first request), and `Refinement`: every step of
the two threads is a step of `OneShotCode` or a stutter.

**ConfigFileProofs** (assumes: versions have a positive length, `None` is
neither a version nor an inode). Under `~Overlap`, `SerialInv` adds to the goals
that at most one save is under way (`OneSave`), that its temporary inode is not the
one `config.json` names (`TmpIsPrivate`), and that it holds exactly the first `off`
blocks of the version (`SaveProgress`, `ReadProgress` for readers). Privacy is the
heart: without it truncation and writing could reach a file that is already in
place, which is what `config_overlap` shows for overlapping saves. `Atomicity` and
`TruthfulResult` follow. `WholeReads` needs in addition that files fit the buffer
(`ReadInv`): the first file by hypothesis, later ones because `oauth_save_config`
formats into a buffer of the same size. `Refinement` puts the three together: under the
same hypotheses every step of every process is a step of `AtomicFile` or a stutter. In the
mapping the file's content is that of the inode `config.json` names, so that only the
rename of a save commits; everything before it is invisible, and the write error, the
failed rename and the kill abort. What a reader will get is the content of the inode it
holds open, which no later rename or unlink changes: it is fixed at the open although
it is read block by block.

**GcalProofs** (assumes: at least one run). That a run stores only its own grant
depends on every place the grant passes: the verifier is this run's while a code is
waited for and exchanged (`VerifierIsRuns`); a request on the wire, however old,
carries the verifier of the run that sent it (`WireOwn`), so an exchange that is
served late can only issue a token to that run; and the answer, the token in hand and
the configuration about to be saved are this run's (`GrantIsRuns`). `HelperAt` ties
`http_helper_do` to its callers and to what it has open. From these: `OwnGrant`,
`AuthStored`, `StoredTokenUsed`, `HelperReleases`, and the action property `TokenKept`
(a stored refresh token never leaves the disk, in a failing save or a kill either), for
any number of runs.

**ListProofs** (assumes: `NULL` is no address, finitely many addresses). The proof
names what the program does not have: the sequence `s` of the nodes of the list.
`Shape(s)` says that the nodes are distinct, that `head` and each `next` follow `s`,
that `count` is its length and `tail` its last; `Place(s, j)` that the call under way
is at place `j`, which fixes `current`, `previous` and what is allocated, also half
way through `list_destroy`. `IInv` is the existence of such an `s` and `j`. It has to
speak of calls in progress, because `list_remove_if` unlinks through `previous`, and
the chain is intact only if that is the node before `current`. Each step leaves `s`
alone, appends to it or takes one place out of it (`Unlinked`, `Added`). What
`list_get_next_node` meets from the head is then read off `s` (`Walked`, by the least
place at which a walk would differ). `WellFormedAlways`, `NoDangling` and `Refinement`
to `NodeSequence` follow, for any number of addresses and any reuse of them. `TypeCorrect`
bounds `count` by the number of addresses, since the nodes of `s` are distinct.

**CaptureProofs** (assumes: frame counts are naturals, at least two buffers are asked
for and may be granted). `BeforeStream`, `InStream` and `AfterStream` say for each part
of the run which buffers are mapped and which are the driver's: during set-up an initial
segment, in the main loop all of them but the one at hand, in the teardown a final
segment. `FramesCounted` adds up the frames processed, the rounds to come and the round
under way. From these: `FramesAreOurs`, `BuffersKept`, `CompleteOnSuccess`, for every
method, number of buffers and frame count.

**TlsProofs** (assumes: finitely many clients, a positive backlog). `Ends`: the open
ends of the server are those in the queue and the one being served, each once; with it
`NothingHeld` is immediate, and without it an `accept` that fails or a handshake that
breaks could leave one behind. `AnswersDue` and `LinesKept` place every line and every
answer of a client: answered, in the server's hand or on its way, in the order sent, as
long as both ends are open; when one closes, only the answers already under way count.
`OwnAnswersAlways` follows for both servers, any number of clients, lines and failures.

**ProgressBarProofs** (assumes: a natural number of blocks, a non-empty animation,
integer reports, `"free"` is no thread). `OneTick` is inductive with the types: at most
one callback has not armed the timer again, none while it is armed, and who is inside
holds the lock. `Screen` says that the
console's line is `currentText` and then blanks. The step that matters is `UpdateText`:
for a common prefix of any length, the backspaces, the new end and the blanks that cover
what is left of a longer text give exactly the new text. `ProgressRead` relates the two
reads of the progress: the second is not below the first unless `lowered` says that a
report came in between; carried over to the text drawn it gives `BarBehindPercent`.
`TypeCorrect` needs `Bounded` besides: the blocks are never negative nor more than the bar
has, which `new string` in `TimerHandler` would answer with an exception, and the
animation is never indexed beyond its end.

**SamplesProofs** (assumes what the devices and HTML guarantee: rates and periods are
naturals and a period is not empty; an element has an attribute once; at least one row;
the encoders are given bytes and natural buffer sizes; positive bounds). Each program has an invariant of its own, and `OneProgram` reduces a
step of `Samples` to a step of one of them.

* SD card: what is taken and mounted at each point of `app_main`, a failed unmount
  included, and where the two
  lines are (in the buffer up to `fflush`, on the card after it).
* NetScan: a continuation adds only after its answer; as long as no two calls of `Add`
  have overlapped the list has each ended answer once and every `Add` in progress sees
  the list as it is.
* SQLite: a statement lives between prepare and finalise, so that every close succeeds;
  no row is of a run to come, and after the leftover is removed all rows are of this
  run; the users go into the connection's view one by one and into the file together.
* Search: what is held at each point; the list of results is, in order and once, the
  matching anchors among those parsed.
* IMAP: the k-th piece that the last FETCH and the NOOP read, as a function of how many
  unread pieces there were and how many the answer has.
* Recorder: what is open; the file is the header and as many periods as were read.
* MySQL: `CREATE DATABASE` acts as a lock. A run past it and not past `DROP DATABASE` is
  the owner, and the owner's progress says which rows the table has.

* Encoders: `UtilInv` says what stands in the buffer after each turn of a loop. For
  `url_encode` the bytes read so far stand encoded one behind the other, at the places
  `UrlPlaces` adds up, inside the buffer. For `b64url_encode`, which translates what
  OpenSSL wrote in place, everything up to `w` is translated and without padding,
  everything from `p` on is as OpenSSL left it, and `w` is not ahead of `p`; four
  characters, or the two or three of the last group, give back the three, one or two
  bytes they came from (`Recombined`). `rstrip` never reaches below the first byte. The
  recursive functions are unfolded by exhibiting a function that satisfies their
  equation, and where one would do induction over the string, the least place at which
  the claim fails is shown not to exist.

The theorems are `Released`, `WritesReported`, `Fresh`, `Complete`, `LastBytes`, `Encoders`,
`ScanIsTrue`, `Clean`, `Atomic`, `MutualExclusion`, `Listing` and `Completion`.

### Only model-checked

* Every liveness property: `PromptReturn`, `Terminates`, `SaveEnds`,
  `RunEndsUnlessBlocked`, `WalksEnd`, `RunEnds`, `ClientsFinish`, `ReportShown`. The
  prover has neither fairness nor ENABLED.

Every invariant, every action property and every refinement that a passing run checks is
stated by a theorem.

## Findings

1. **Overlapping saves** (`config_overlap`, `util.c:85`). The temporary name is
   fixed and opened with `O_TRUNC` and without `O_EXCL`; two runs that save at once
   share it, and `config.json` can become empty or mixed although `util.h:26` says
   the write is atomic.
2. **`list_remove` does not return** (`list_remove`, `list.c:87`) for any handle but
   that of the head: the loop never advances. The loops of `list_find` and
   `list_foreach` have the same form: they return only if the callback stops them
   at the first node, or on an empty list.
3. **`list_remove_if` leaves `tail` dangling** (`list_tail`, `list.c:245`) when it
   removes the last node; the next `list_add` writes to freed memory and the list
   has no head.
4. **A saved configuration that does not load** (`gcal_escapes`, `oauth.c:122`).
   Loading unescapes strings, `oauth_save_config` writes them between quotation marks
   as they are. A configuration with a quotation mark in one of its strings is loaded,
   saved with the new token, and from then on no run can load it, although `--auth`
   exits 0 and `oauth.h:44` and the sample's README (line 249) say that the saved
   token is used from then on.

Deviations met while modelling that no run is about:

* `read_file` truncates silently at its buffer's size (`util.c:71`) where `util.h:22`
  promises -1 on overflow; `ReadIsWhole` and `ImplementsAtomicFile` are about files that
  fit.
* The listener answers every GET with the success page (`loopback.c:111`), also
  when it captured nothing.
* `c/sqllite/main.c` ignores failed inserts and commits the rest; the atomicity
  its comment (line 164) speaks of holds when no call of the transaction fails,
  which is how `InsertsAtomic` is stated.
* `c/mysql/main.c`: when `mysql_init` fails, `create_database` returns (line 25) and
  `main` goes on, possibly in the database of another run. The Mysql properties
  are stated for executions in which that does not happen (`NoneSkipped`). A run
  that fails half way leaves `testdb` behind and all later runs stop at CREATE
  DATABASE; nothing in the program cleans it up.
* `capture.c:669-670`: the usage text says "Outputs stream to stdout" and "640x480";
  the code writes a JPEG file and uses 1280x720. `process_image` allocates by the
  bytes used, not by the size of the picture.
* `server.c:122` and `client.c:115` store a terminator at `buf[-1]` when `SSL_read`
  returns -1; modelled as having no effect on what the properties speak of.

* Nothing is synced before the rename of a save (`util.c:95`): after a power failure
  the new name may point to a file without its data. `ConfigFile` is about killed
  processes; the order in which a file system persists is not in the code.
* `b64url_encode` computes, and asks room for, the padded length (`util.c:21`) and so
  refuses buffers that hold the string it would return: one byte and a buffer of three.
  `util.h:12-13` has it return -1 "on overflow", "No padding", and the comment at
  `util.c:20` calls the number the length without padding. `rstrip` strips blanks and
  tabs too (`util.c:165`), where `util.h:37` says "newline / CR"; it is not called.
  `EncodersRight` is stated so that it holds for what `util.h` says as well as for the
  code: it leaves open what happens to a buffer between the two lengths and to a blank.
* `wav.c`: the header's data size is a product of rate, frame size and duration and
  is not what the loop (line 176) writes, whose count divides microseconds by periods
  per second; `bytes_per_second` keeps the rate asked for; the buffer of an earlier
  period is written again after a repaired overrun or a short read; a rate below the
  period divides by zero. `main.c:33` passes NULL to `fclose` when `fopen` failed, and
  `main.c:24` casts a `FILE*` to a descriptor.
* `ytsearch.c`: the URL's buffer is one byte short (line 32), the page is not
  terminated (line 81), a failing `realloc` of the list loses its items but not their
  number (line 256), `main` goes on with unset variables when the search failed (line
  374), and the parser's objects (lines 210-218) are created unchecked and never
  destroyed, so that every search that gets a page leaks them.
* `espressif/esp32/sdcard/main/main.c:156`: `spi_bus_free`'s result is not checked; after
  a failed unmount the bus may stay taken, which `BusFreed` allows when the failure was
  logged.
* `ProgressBar.cs:54-55` reads the progress twice without a lock: a report that lowers it
  in between puts the bar ahead of the percentage.
* `csharp/Imap`: see `LastBytesRead`; with more pieces the saved file is cut short.
* `csharp/NetScan`: addresses are lost, or a continuation throws, when two continuations
  call `List.Add` at once.

## Plan

Done, in this order: the listener with its abstract specification, refinement and
proofs; the configuration file with its proofs; the runs of gmail-calendar; the
list with its abstract sequence; the capture program; TLS, SQLite, SD card, MySQL;
the progress bar; the recorder, the search client, the IMAP client, the network
scanner and the encoders of `util.c`; the proofs of all of them; the atomic file as a
specification of its own, which the configuration file is proved to implement; the
encoders for every input and buffer.

Left is what the tools or the code do not give: liveness stays with TLC; overlapping
saves, the removal of the last node and the loops that do not advance are findings, and
theorems across them would be false; the programs not modelled are listed
with the reasons above. Should the code change, the places to look at first are the
release lists of `loopback.c` (`HeldAt`), the temporary name of `write_file_secure`
(`Overlap`) and the three walking loops of `list.c`.
