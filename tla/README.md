# Verification of the public_resource device server

This directory holds TLA+ models of the roadside device server of this
repository, the TLC configurations that check them on small instances, and
theorems about them that TLAPS proves for every instance. Comments and documents
of the repository are in Chinese; they are quoted in translation, with the line.

## 1. The system

The program runs on an embedded Linux board in a roadside cabinet. A
microcontroller ("the controller", "STM" in the code) watches the devices
(cameras, terminal servers, fill lights, visibility and road sensors, the cabinet
itself) and reports events over CAN. The daemon `public_res`
(`src/work/prog/public_resource/`) numbers and stores those events and sends
them to a central server over TCP. CGI programs (`src/www/CGI/`) let a user
configure the board from a browser. Daemon and CGIs meet only in files.

### The daemon: threads and shared state

`main.c` creates five threads; `pthread_ping_server` creates a sixth and cancels
it again. All state below is global and unprotected unless a lock is named.

| component | state | operations | hard behaviour |
|---|---|---|---|
| Event buffer and CAN receiver, `can_rcv_pthread.c` | `can_rcv_buf`, `count`, `datalen`, a running `alarm(1)`, `eventno.txt` under `mutex_eventno`, the semaphores `ping_data_sem` and `sem` | assemble a package from CAN frames, check its CRC, number its events, signal the delivery thread, store, wait for `sem`, clear, answer the controller | a signal handler that clears the buffer, two threads that fill it, a condition variable without a predicate, stopping at any step |
| Server delivery, `datato_server.c` | its copy of the buffer, `nosendto_server_event`, `have_event_noto_server`, `mutex_socket`, `sem_ser_res` | wait for the signal, copy, post `sem`, send and wait for the answer, or append to the file | outages between check and use, an answer that never comes |
| Link to the server, `pthread_ping_server.c`, `pthread_socket_read.c` | `sd`, `server_status_ok`, `reconnect_server`, `read_socket_id`, `server_response` | connect, ping in rounds, close and reconnect, start and cancel the reader, send the file, answer queries for show data | cancellation, end of stream, signals for writes without a peer |
| Camera pinger, `pthread_ping_device.c` | `dev_num`, the list of devices | read a camera's status, ping it twice, raise an event through `can_rcv_buf` | stale status, the buffer shared with the CAN receiver |
| Device status and fault log, `store_event_intodatabase` in `can_rcv_pthread.c` | `devstatus_<id>` (status, count, type), `fault/fault_<id>`, `event_table` | the switch over object, type and value: rewrite the status, append a time to the fault log | files truncated long before they are written, two threads in it, events that repeat or overlap |
| Show data, `pthread_query_showdata.c` | shared memory `map_p`, `dev_num` | ask the controller for the weather, write the header, gather status, latest fault and total fault time of every device | it reads two files that others write, in two clocks, a count that goes to 0 in every round, and the controller's answer is copied over its header |
| Start and end, `main.c` | locks, threads, database | create everything, `ReleaseResource` on SIGINT | only files survive |
| CRC, `func_crc.c` | none | CRC-16 of a package | none |

### The web side

| component | state and operations | hard behaviour |
|---|---|---|
| Device configuration, `dev_set.c`, `dev_query.c`, `dev_sendto_st.c` | writes `dev_<id>`, resets `devstatus_<id>`, removes the fault log, sends the device table over CAN | it rewrites files under the daemon |
| Settings pages, `com_set.c`, `com_show.c`, `dev_func.c`, `dev_func_show.c`, `phonenum_set.c`, `phonenum_show.c` | one file each; a form in every browser | a file truncated long before it is written, two users, two programs that must agree on bits, arrays that are overrun |
| Database query and download, `db_query.c`, `net_dbdownload.c` | `data.html`, `dbdownload.csv`, one for all users | shell commands of several users on one file, a database that is locked |
| Network, time, login | each runs a command or shows its output | none |
| Update and upload, `upload.c`, `update_system.c`, `update_stm.c` | copy files, run commands | none a model would show |
| Live data, `realdata.c` | formats the shared memory | none |

Not part of the running system: `work/prog/v4l2` (samples), `moni/` (simulators
of the server and the controller), `test1/`, `CGI/backup/`, `www/prog/db.c`.
Vendored: `cgic.c`, SQLite, the scripts of the pages.

### How the parts interact

    controller --CAN--> pthread_can_rcv --can_rcv_buf, cond--> pthread_datato_server --TCP--> server
                             |    ^                             ^    |                          |
                   store_event_into-  ping_data_sem   sem_ser_res    nosendto_server_event      |
                   database  |    |                             |    v                          |
                             v    pthread_ping_device      pthread_socket_read <----------------+
            devstatus_<id>, fault_<id>, event_table           ^ created, cancelled
                             |                                pthread_ping_server
                             v
                   pthread_query_showdata --map_p--> realdata.cgi, pthread_socket_read

What makes each part correct:

- Event buffer: every event gets a number of its own, for ever; what is sent and
  stored is whole, in order and the same on both sides; nothing is cleared before
  it is taken; the controller is told only of what is kept; whoever waits for the
  mutex of the numbers gets it.
- Link: every event reaches the server, once; an answer belongs to the event it
  is taken for; what could not be sent is sent later; no lock is lost.
- Device status: the status is what was last reported; the fault log pairs up;
  the count is right; no file stays empty; cameras settle.
- Packages: a package heard without a gap is taken for complete exactly when its
  last frame has come, if the buffer was empty before it, and never for a right one
  behind stale bytes; what is unsent comes out of the file as it went in.
- Show data: a record is right when its files stood still, and catches up when
  they did not.
- Configuration: a device's files belong together, also while the daemon works;
  what a page shows is what was saved last; what a user is sent is the table.

## 2. Plan

| # | module | what | state |
|---|---|---|---|
| 1 | `HandOff`, `EventBuffer`, `EventBufferProofs` | the promise of the buffer, the buffer and its threads; type correctness and unique numbers; what holds with one producer, and that it implements the promise | checked, eight theorems |
| 2 | `DeviceStatus`, `DeviceStatusProofs` | the two files of a device, the two stores, the camera pinger | checked, five theorems |
| 3 | `ServerLink`, `ServerLinkProofs` | the connection and its three threads | checked, five theorems |
| 4 | `CanFrames`, `CanFramesProofs` | how packages come apart into frames and together again, byte by byte | checked, two theorems |
| 5 | `UnsentFile`, `FilesProofs` | the splitting of the file at newlines and by length modulo 57, against the packages stored | checked, two theorems |
| 6 | `ShowData`, `ShowDataProofs` | the shared memory, the thread that fills it, `dev_set.cgi` and `dev_num` | checked, three theorems |
| 7 | `SettingsPages`, `FilesProofs` | three settings pages and their file, several users | checked, three theorems |
| 8 | `EventTable`, `EventTableProofs` | inserts, queries and downloads | checked, three theorems |
| 9 | `Crc`, `CanFramesProofs` | the table-driven CRC against polynomial division | checked, two theorems |
| 10 | `UploadPath`, `UploadPathProofs` | `EventBuffer` and `ServerLink` composed: the data thread is one of both | checked, four theorems |

`MCEventBuffer`, `MCDeviceStatus`, `MCServerLink`, `MCUploadPath`, `MCSettings` and
`MCParts` give the instances for TLC. The order follows the way of an event: it is
numbered, stored, delivered; what only configures comes last. Abstract
specifications: `HandOff` for the buffer, and `EventBuffer` and `ServerLink` for
`UploadPath`; all three refinements are proved. For the link no mailbox is written
down beside it, since `ServedOnce` and `NothingLost` say what one would promise.
All safety properties of the passing runs are theorems. Modules that are proved
about declare no RECURSIVE operator and do not use `Bitwise`, which is why `Crc`
defines C's `^` bit by bit.

## 3. Modules and their relation to the code

A mutant (`Name_Variant`) stands beside some definitions. It is a plausible
mistake in that piece of code, against which a property was tested; no
specification uses it.

### EventBuffer

The buffer is modelled in cells, one per CAN frame: a header cell and one cell
per event. A cell remembers the package and the place it comes from and the
number filled in, which is what the CRC, the copy and the store can tell apart.
Each `memcpy`, `bzero`, loop over the events, file access, lock and semaphore
operation is a step of its own. Only the `memcpy` of a frame, `count +=` and the
reading of `datalen` (750-753) are one step: the alarm has just been set to one
second.

| thread | its places (`pc`) | code |
|---|---|---|
| `"can"` | read, copy, check, show, lock, number, write, signal, store, waitsem, clear, respond | `pthread_can_rcv` 745-794, `store_event_intodatabase` 153-734 |
| `"ping"` | top, scan, lock, number, write, waitbuf, place, store, waitsem, clear | `pthread_ping_device` 11-238 |
| `"data"` | enter, waiting, woken, deliver | `pthread_datato_server` 21-65 |

`Timeout` is `can_rcv_timeout`, enabled whenever an alarm runs, between any two
steps. `CanRead` chooses the controller's next frame: it may give a package up in
the middle and start another. `Restart` is the end of the process and a new
start, at any step; only `eventno.txt` and the database survive. With `FilesMayFail`
a store may return early, and `eventno.txt` may be missing from the beginning
(`eventno = -1`): `read_eventno` then returns -1 (109-113), `write_eventno` writes
nothing (129-132), and the daemon goes on. A signal reaches
only a thread that waits; a waiting thread may wake up for nothing. History
variables hold what the outside has seen: the numbers issued, the copies taken,
the rows stored, the packages confirmed.

`HandOff` is what the buffer is for: a place for one package with two readers,
the server and the database, each of which gets it once and behind the packages
it has; the place is free again only when both have it, or when the process ends
(`Lose`). What a reader has is a function from packages to the places where they
stand in what it has been given. `EventBuffer` maps the slot to the package from
its signal to its clearing, `sent` to where the copies taken begin with it, and
`saved` to where the first row of it is.

### DeviceStatus

The same two producers, without the frames: a package is one event. What a store
that returned early leaves behind is kept: `count` says that bytes lie in the buffer,
and the controller's next package is then appended to them (`CanAppend`), is never
complete and is lost when the alarm clears all of it (`Timeout`); `ping_data_sem`
stays 0 until a package comes whole. `Effect` is
the switch of `store_event_intodatabase`: what it writes to the status file,
whether it counts, and after which old status it appends to the fault log. The
store is `Open` (reads the id and the old status), `Rewrite` (truncates the file,
reads the event *again* from the buffer, appends to the log), `Close` (what stdio
has buffered is written) and `Clear`. Every one of these files may fail to open.
Reading an empty file leaves whatever was in the buffer, hence any contents.
`Pinged` conditions are seen by the camera pinger only, all others are reported
by the controller, in order, and with `Repeats` more than once.

Left out: fault types, the row of the database (it follows in EventBuffer), and
the times and readers of the two files (`ShowData`).

### ServerLink

`conn` is what the descriptor `sd` is: closed, fresh (a socket not connected), open,
eof (closed by the server) or reset. A write on a closed descriptor fails and no
caller cares; on a fresh or reset socket it raises SIGPIPE, for which no handler is
installed, so `SigPipe` ends the daemon; so does `ReadNoFile`, the `getline` on a
NULL stream, which is reached when the file of unsent events could not be opened and
the flag was set all the same (`AppendFails`). When the connection is closed, what is
under way may or may not still arrive. Cancelling the reader (`PingFails`) follows
the rules of deferred cancellation: it dies in `read`; in `write`, holding the mutex
(`"lost"`); and, if it waits for the mutex, at its write once it has got it
(`ghosts`). One `read` may return several messages, of which only the first is looked
at. After the end of stream `read` returns 0 and the last message is handled again
(`ReaderEof`).

Left out: the bytes of the file and its splitting (`UnsentFile`), a package of which
only a part is written, the copy `nosendto_server_event_all`, which nothing reads,
and a descriptor number that is reused between close and socket.

### UploadPath

`EventBuffer` ends when the data thread has its copy, and `ServerLink` begins
there. `UploadPath` has the variables and the steps of both, with one data thread:
`Copy` is `DataCopy` of the buffer and `DataEvent` of the connection in one step;
`Await` is the thread on its way to the wait and out of it, which it goes only
when the connection has it at `"idle"`; `Deliver` is everything between. Event
number k of the connection is the package `uploads[k]` of the buffer. A signal
that ends the process (`Alive`) stops the threads of both. There are no restarts in
it: `ServerLink` is about one life of the daemon, of which the file of unsent
events may be left over from an earlier one (event 0).

### CanFrames

What `EventBuffer` takes in cells, byte by byte. `Begin` and `WriteFrame` are
`can_send_data` (the CGIs), `send_query_showdata` and, in its image, the controller:
frames of eight bytes and a last one of the rest. `Receive` and `Judge` are the loop
of `pthread_can_rcv` (746-794) with `count` as the length of `rbuf` and `datalen` as
`rlen`; `Timeout` is the alarm handler. The bus carries the frames of all senders to
all sockets, so those of `dev_sendto_st.cgi` reach the daemon too: their type has no
case and `rbuf` is left as it is until the alarm. A byte knows its package, that
package's size, its offset and its sender; bytes 7 and 8 of one package give its
size, of any other mixture `Misread`, any length. A wrong package fails its CRC.
`hears` is the package of which every frame so far has been appended and nothing else
since, and `stale` how many bytes lay there before it: `WholeWhenEnded` says of an
empty buffer that the package is complete with its last frame, and of one that was
not that it is never taken for right. Two frames on the bus, or one that is late, are
no other behaviour: what the receiver does depends on the order of frames only.

### UnsentFile

`Store` appends a package and `EndLine` its newline, as `pthread_datato_server` does
in two writes (55, 60). `StartAgain` ends the daemon at any step and starts it anew,
which finds the file (13-19); when it falls between the two writes (`cut`), the
packages behind are not told apart any more. `ReadLine` is the loop of
`send_remain_eventto_server` (48-78) with its one-line and its `line_comp` case. A
byte is its place in the file; which bytes of a package may be newlines is read off
`fill_can_rcv_buf`, the type of the fields and the CRC. `read_count` is the code's
counter, the bytes of the lines kept in `line_comp`, and `EndsPackage` the test
`(n-38-2-1)%57 == 0` on it. The `memcpy` at line 50 asks for no room in `line_comp`;
a behaviour of the model ends when it has run over.

### ShowData

| thread | its steps | code |
|---|---|---|
| show (`spc`) | `ShowNone`, `ShowAsk`; `ShowNumber`, `ShowLength`, `ShowLow`, `ShowHigh` for lines 40 to 43; `ShowDone`, `ShowDevice`, `ShowStatus`, `ShowEmpty`, `ShowEnds`, `ShowLog` | `pthread_query_showdata`, `add_mem_show_device` |
| can (`storePc`) | `OpenStatus`, `LogEvent`, `CloseStatus`; `CopyAnswer`, `LoseAnswer` | `store_event_intodatabase`, line 785, the alarm |
| ping | `CountFrom0`, `CountOne` | `pthread_ping_device` 13-37 |
| `dev_set.cgi` (`setPc`) | `SetDevice`, `SetStatus`, `RemoveLog` | `dev_set.c` 21-95 |

There are two clocks. An event, and so the fault log, has `time() + 8*60*60`
(`can_rcv_pthread.c:146`, `pthread_ping_device.c:133`), which is `eventTime + Ahead`;
the reader takes plain `time()` (`now`, line 96), subtracts the time of a fault that
lasts from it (211), and adds the eight hours once more to the latest fault
(188, 203). So `RecordsAreRight` says what comes out: the latest fault is `Ahead`
too late, and the total of a device that is bad is `Ahead` short, modulo the word
of the field (`WordBase`, 65536 for TLC).

Status and log are read in two steps with a third, the clock, before them; an event
is stored in three, the truncation, the line of the log and the close. So a reader
may find a status file empty (`ShowEmpty`: what lies in the line, the time of the
installation, is taken for the number of faults, and for a status that is none) or,
between two steps of `dev_set.cgi`, missing; `getline` on NULL then ends the daemon
(`ShowEnds`, `alive`; so may the copy of a long line into five bytes). `dev_num` goes
to 0 in every round of the ping thread, for ever, and is read twice for the header,
whose two bytes are written one after the other. The loop over the pairs of the log is
`ClosedFor`. An unpaired log makes the code read next to its array: `LatestFault` is
then any time. A device has one kind of fault and its events alternate, which is the
case in which the reader's assumption could hold at all; the events that break it by
themselves are in `DeviceStatus`. One step are the writes of `dev_set.cgi` to one
file, which appear together with it, and the copy of the controller's answer.

### SettingsPages

`OpenPage` is a run of `com_show`, `dev_func_show` or `phonenum_show`, `Submit` and
`Finish` are the `fopen(.., "w")` and the end of `com_set`, `dev_func` or
`phonenum_set`, between which any other process may run; `Kill` is a process that
never gets to its end. What stdio has buffered goes to the beginning of the file
(`Overlay`). `ComInput`, `FuncInput` and `PhoneInput` are what is printed for a
line, `ComLines` and `FuncLines` what is written for a form. `getline` at the end
of the file leaves the line before (`Gets`). A line or a field is an integer;
`Absent` is a field the form has no input for, `Junk` a line that is no value of
any field, `Values` what the inputs of a page offer. `page` is chosen once, as the pages
share no file; `overruns` says whether the compiler puts the arrays of
`phonenum_show` next to each other.

### EventTable

`InsertBegin` and `InsertEnd` are the insert of the daemon, the steps of a client
are the shell commands of `db_query.c` 63-83 and `net_dbdownload.c` 21-38, each
with its `>` or `>>`. SQLite is external and modelled by its locks: readers or one
writer, no busy timeout. A refused insert ends the daemon, a refused select prints
no rows.

### Crc

The two tables as they are typed in (`func_crc.c`, `crc.c`), line by line, a step
for each round of the loop, and beside it `register`, the division by the
polynomial, a bit at a time (`Shift`). `Xor8` and `Xor16` are C's `^`, put together
from that of halves. Also the three packages whose CRC is typed in.

### MCParts

`SettingsPages`, `EventTable`, `CanFrames`, `UnsentFile` and `Crc` share no variable
with one another. One run explores them all: `PartsInit` chooses a part, `PartsNext`
lets only that part step. The states of the run are the sum of the parts' states; no
two parts interleave.

## 4. Runs

| run | question | result |
|---|---|---|
| `EventBuffer_single` | Is the buffer right with `pthread_can_rcv` as its only producer, and one restart at any step? | yes: `UploadsWholeInOrder`, `RecordsAgree`, `NumbersDurable`, `AnsweredIsKept`, `ClearedAfterTaken`, `HeardIsFinished`, and it implements `HandOff` |
| `EventBuffer_both` | Are numbers unique with both producers, failing stores, spurious wakeups and a restart, and does either thread get `mutex_eventno` in the end? | yes, as long as there is an `eventno.txt`: `TypeOK`, `NumbersUnique`, `NumberingCompletes` |
| `EventBuffer_lostsignal` | Is every package heard of? | no, finding 1 |
| `DeviceStatus_reports` | Do status, count and fault log agree with what the controller reports, and how many files can kills empty? | `LogPairsUp`, `StatusIsLastReport`, `LoggedAreCounted` hold without kills, `EmptyOnlyByCrash` with them |
| `DeviceStatus_cameras` | Does a camera's status settle on what its pings say? | yes as long as the file says good or off line and the ping thread gets the buffer: `CamerasSettle`, `TypeOK` |
| `UploadPath_online` | From the controller to a server that stays reachable: is what was confirmed there or on its way, with numbers of its own, and does every event arrive? | yes: `AnsweredIsAtServer`, `NumbersReachOnce`, `NothingLost`, `EveryEventArrives` |
| `ServerLink_faults` | Do answers stay with their events, and does no event arrive twice, over an outage, a server that ends, a query, a file that cannot be written and signals? | yes: `LinkTypeOK`, `ServedOnce`, `OneExchange`, `AnswerBelongs` (the last two speak of a server that keeps its end open) |
| `ServerLink_outage` | Is the file sent after an outage? | no, finding 2 |
| `ShowData_records` | Is what is put into the shared memory what the files say, in the code's two clocks, and does it catch up? | yes: `RecordsAreRight`, `PairedUnlessReset`, `CatchesUp`, `ShowTypeOK` |
| `ShowData_header` | Does the header belong to the records while these are written? | no, finding 3 |
| `Parts_all` | Settings: does the last save win, and which fields can get lost? Table: is a page or a download whole when one is alone, and is the file when all have ended? Frames: is a package complete when its last frame has come, and what of one behind stale bytes? Unsent: do packages come apart as they went in, also after restarts? CRC: are the tables right? | yes: `LastSaveWins`, `LostOnlyByOpenRead`; `AloneIsWhole`, `DownloadsMerge`; `WholeWhenEnded`; `PackagesComeApart`; `TablesAreRight`, `TypedInIsAccepted`; and the invariants `SettingsTypeOK`, `TableTypeOK`, `FramesInv`, `UnsentTypeOK` |
| `Settings_switches` | Is a switch shown under the name it was stored for? | no, finding 4 |

Distinct states: `EventBuffer_single` 911 188, `EventBuffer_both` 954 541,
`DeviceStatus_reports` 525 785, `DeviceStatus_cameras` 316 552,
`UploadPath_online` 209 892, `ServerLink_faults` 727 149, `ShowData_records`
1 593 982, `Parts_all` 4 101 678. Each property has a mutant in `PROJECT.json`: a
change of one definition, as a mistake in that code would make it, with which the
same run finds the property violated.

### Bounds

- `EventBuffer`: packages of one and of two events (the loop over events, one short,
  one over), one of show data, one of unknown type; each is sent at most once, so
  that what is seen twice was delivered twice. `Cap` is the number of cells that all
  of them fill together when nothing is ever cleared (9), so the end of the model's
  buffer stops no frame; with one package and camera events (`EventBuffer_both`) it
  is 4. One restart, one spurious wakeup: both are possible in every state in which a
  second one would be.
- `DeviceStatus`: four changes suffice for two overlapping faults and both
  recoveries; three for a camera to lose its power and its network and regain one.
  One kill.
- `UploadPath`: a package of one and one of two events, and possibly a third from
  before in the file: one can be appended before the connection and one sent over it,
  or both by the same way. `Cap` is what both fill together. The answers of the
  server are good here, as a refused event counts as arrived; `ServerLink_faults` has
  refusals.
- `ServerLink`: two events and possibly one left in the file. One outage, one end of
  the server, one query. `MaxPosts` stops a reader that posts at the end of the
  stream after two posts; only that case exceeds one (`OneExchange`).
- `ShowData`: one id, which `dev_set.cgi` sets up once or twice while the daemon
  runs; two events, a fault and its recovery, in the same or in different passes, and
  `Ahead = 2`, so that totals wrap and do not; counting without bound. A second id
  adds a record of its own and shares nothing with the first but `dev_num`; the
  safety properties are proved for any number of ids.
- `SettingsPages`: two users and three saves: one to overwrite, one that overlaps,
  one after. The options edited are those whose lines have unusual widths or readings
  (the stop bits 1.5, a speed of six digits, a number of eleven).
- `EventTable`: two rows and three runs of a CGI among two queriers and two
  downloaders, so that two of a kind overlap and a third begins later.
- `CanFrames`: three packages of two senders. 15, 16 and 17 bytes are one short of,
  equal to and one more than two frames; the theorems cover all others. `LENGTH`
  never stops a frame: three packages that are never cleared away fit in, so that the
  second and the third also come behind stale bytes.
- `UnsentFile`: packages of 1, 4, 10 and 17 events: the smallest, those whose length
  or count is a newline, and the largest that fits into `line_comp`; up to two more
  newlines at any place where one can be in the first and the seventeenth event and
  the CRC (`Within`); two packages, as the rest of one may run into the next; any
  number of restarts.
- `Crc`: every byte alone and every byte after five others, which reaches all entries
  of both tables; the packages typed in.

`CHECK_DEADLOCK` is off: with bounded packages, changes and events the system comes
to rest, and a daemon that has ended (`ShowData`, `ServerLink`) does nothing more.

### Fairness

Threads of one process are scheduled, so each thread's steps are weakly fair. A
thread that waits for `mutex_eventno`, which the other holds for a few file accesses
only, gets it (strong fairness of `LockEventno`); nothing else is assumed of locks.
Nothing is assumed of the controller, of restarts, of the network coming back, or of
the wakeup of a thread on a semaphore that others initialise again. An alarm that has
been set goes off (`Timeout` of `DeviceStatus`); in `EventBuffer` nothing depends on
it. `ShowSpec` is fair only to the thread that is storing an event; that passes go on
and again and again meet no count is the premise `PassesMeetNoCount` of `CatchesUp`,
since whether they do depends on two timers (10 s and 5 s). In the same way
`PingGetsBuffer` is a premise of `CamerasSettle`: a package lost behind stale bytes
leaves `ping_data_sem` 0, and the ping thread waits until another comes whole, which
nobody promises. `FairServerSpec` and `LinkFairSpec` assume a server that answers
what it gets, as `moni/server.c` does. `DeviceStatus!FairSpec` assumes that files do
not fail to open for ever (strong fairness of `Open` and `Rewrite`). `SleepOutlasts`
is a timing assumption, not fairness: the `sleep(5)` of the ping thread is longer
than two local writes of the data thread. Without it an event appended between the
last `getline` and the `rm` is lost even on line (TLC then finds `NothingLost`
violated); `ServerLink_faults` does without it. `UploadFairSpec` is the fairness of
both its parts, with that of the data thread once; it stops when a signal ends the
process.

## 5. Proofs

`EventBufferProofs` proves for every set of packages, length of buffer, number of
restarts and spurious wakeups:

- `TypeCorrect`: `Spec => []TypeOK`. `TypeOK` alone is not inductive: the step
  that appends a frame needs room for it, though the test `count < Cap` was made a
  step earlier and the alarm may have cleared the buffer in between. `TypeInv`
  adds that there is room whenever `pthread_can_rcv` is about to copy.
- `NumbersUniqueCorrect`: `Spec => []NumbersUnique`. The inductive invariant
  `NumInv` says, besides the property, that every number issued lies at or below
  the one in `eventno.txt` (`IssuedBelow`), that a thread between lock and write
  holds `mutex_eventno` (`NumbersUnderMutex`), and that what it has read is still
  what the file says (`ReadIsCurrent`). A restart frees the mutex and forgets
  what was read but not written, which is why the numbers read, then lost, may
  be used again without harm. Without `eventno.txt` the property says, and the proof
  shows, that every package is given the numbers from 0. With `Single` there is the file
  (`SingleNumbers`).

Both inductive invariants were checked by TLC on the instance of
`EventBuffer_both` before they were proved. The assumptions are
`ConstantsAssumption` of `EventBuffer`. There is one proof step per action;
`ClearBuf` and appending to the history have lemmas of their own.

`CanFramesProofs` proves for any number of senders, packages and bytes, any sizes
above 8 and whatever bytes 7 and 8 of a mixture say:

- `FramesFollow`: `FramesSpec => []FramesInv`. `SenderInv` says that what a sender
  has sent and has left make up its package, and that no two send the same one;
  `WireInv` that the frame on the bus is the last one its sender has put there;
  `HeardInv` that a package in `hears` that found the buffer empty lies there from
  its first byte on, as far as its sender has sent it less what is on the bus, and
  that the length is known as soon as nine bytes are there and is 0 before. It is
  this last conjunct that keeps an old `datalen` from completing a new package.
- `WholePackages`: `FramesSpec => []WholeWhenEnded`, from it: in an empty buffer a
  package is taken for complete with its last frame and not before. For one behind
  stale bytes `FirstInv` says that the first byte in the buffer is of a package begun
  earlier, and `StaleInv` that it is another one, so that the whole never has a right
  CRC.

`FramesInv` is an invariant of `Parts_all`; `FramesAssumption` is the only
assumption.

The same module proves about the CRC, for messages of any length, from
`CrcAssumption` (a message is made of bytes):

- `TablesCorrect`: `CrcSpec => []TablesAreRight`. The exclusive or is shown to be
  associative enough (`Swap16`) and to go bit by bit (`Half16`, `Top16`), one width
  after the other; hence a shift of the division is linear (`ShiftXor`), and so is
  the division of a byte (`DivideXor`), which gives the upper byte of the register
  back unchanged (`DivideShifted`). So an entry of the tables is right if it is the
  exclusive or of two that are (`RightXor`). The sixteen lines of a table follow in
  this way from their first entries and the first line (`LinesXor`), these from
  the eight entries at the powers of two, and only for those and entry 0 the
  division is worked out (`RightBits`).
- `TypedInAccepted`: `CrcSpec => []TypedInIsAccepted`. For each of the three packages
  a list says which entry of the tables each of its bytes comes to; that the list
  is right is a matter of the entries alone (`Accepted`), and that the loop follows
  it an induction over steps (`Traced`).

`EventBufferProofs` also proves every safety property `EventBuffer_single` checks, for every
set of packages of the controller, length of buffer and number of restarts. Each theorem
assumes `Single`: no camera raises an event, files open, and no thread wakes up
unsignalled. The assumption is needed: with a second producer, a spurious wakeup or
an early return of `store_event_intodatabase` the delivery thread may copy the
buffer while it is being filled or numbered. `Flow` says how the threads follow
each other then: the alarm runs only while a package comes in, and the signal, the
copy and the post of `sem` happen while `pthread_can_rcv` stores and waits.

- `NumbersDurableCorrect`: `Single /\ Spec => []NumbersDurable`. `Durable` adds that
  only between the numbering and the write of `eventno.txt` does a cell of the
  buffer carry a number above the file's, and `Flow` that nobody copies then.
- `AnsweredIsKeptCorrect`: `Single /\ Spec => []AnsweredIsKept`. `Kept` follows the
  package from the CRC test on: it lies in the buffer, whole and in order, until it
  is cleared; once stored it stays in the database; and `sem` is posted, or the
  buffer past it, only when the package has been copied.
- `UploadsWholeInOrderCorrect`: `Single /\ Spec => []UploadsWholeInOrder`. `Ordered`
  adds that between the numbering and the copy the cells carry the numbers after
  `from`, and that all the server has been sent carry lower ones, which is
  `NumbersDurable` at the moment of the numbering. After a restart before the write
  the same numbers are given again; none of them had been sent.
- `ClearedAfterTakenCorrect`: `Single /\ Spec => ClearedAfterTaken`. `Marked` adds
  that numbers stand in the buffer only between the numbering and the clearing, on
  the events of the package at hand, and that they are in a copy as soon as `sem`
  is posted. So the alarm, which clears too, never meets a number.
- `RecordsAgreeCorrect`: `Single /\ Spec => []RecordsAgree`. Store and copy come in
  either order: `InStep` says for each of the two which of database and server is
  ahead, and by exactly the events of the package at hand. `StoredBefore` is
  `SentBefore` of the database and gives the order of its rows over restarts.
- `ImplementsHandOff`: `Single /\ Spec => Implements`, the refinement. Most steps
  stutter; `CanSignal` is `Offer`, `DataDeliver` `Send`, `Store` `Save`, `Clear`
  `Release`, `Restart` `Lose`. That a reader does not have the package yet when it
  gets it needs `Once`: a package that has been stored or copied is not about to
  come, is not in the buffer and is not being numbered, since the controller sends
  each but once (`Coming`, `HadIsPast`); and `AtHand` says which of the two readers
  has the one that is at hand.

`DeviceStatusProofs` proves for any devices, classes, conditions, repetitions and
kills, from `ConstantsAssumption`:

- `StatusTypeCorrect`: `Spec => []TypeOK`, with cameras and failing files too.
- The others assume `ControllerOnly`: no camera is configured, so that the ping
  thread stores nothing, and files open. With two stores at a time the event may be
  overwritten between the two reads of it. `OneStore` says what is left: the thread
  between `Open` and `Close` works on the device of the event in the buffer, no
  alarm is set, and nothing lies in the buffer when it is done. The
  key to the rest is `Current(d)`, what the status file says or, while it is
  truncated, will say when the store is done: `Remembered` says that the old status
  the store has read is the file's, and that no status is 0 before a kill.
- `LogsPairUp`: `ControllerOnly /\ Spec => []LogPairsUp`, from `Paired`, the same
  of `Current`. It speaks of devices that can fail in one way only (`Simple`): of a
  light's "status check" the recovery is logged and the fault is not.
- `FaultsAreCounted`: `[]LoggedAreCounted`. `Counted` adds what keeps it true: while
  a device is bad its log has a line less than twice its faults.
- `LastReportIsStored`: `[]StatusIsLastReport`. `Fresh` follows the last report of
  a condition from the bus to the buffer to the status, wherever it is.
- `EmptiedByCrashes`: `[]EmptyOnlyByCrash`. `FewLeft` counts files that are empty
  and that nobody is about to write.

`FaultsAreCounted` and `EmptiedByCrashes` also assume `Handled = Device`: every
condition that is reported has a case in the switch. Without it the claim is false,
since a type without a case leaves the file empty (`can_rcv_pthread.c:602`).

`ServerLinkProofs` proves for any number of events, outages, closed connections and
queries, from `LinkAssumption`:

- `LinkTypeCorrect`: `LinkSpec => []LinkTypeOK`. `LinkTypeInv` adds that a line the ping thread
  is at is in the file (`Lines`), that a reader is cancelled once in an outage at
  most, which bounds the readers that still wait for the mutex (`Ghosts`), and that
  threads die together.
- `OneExchangeCorrect`: `LinkSpec => []OneExchange`. `Holding` says that whoever is
  between a write and its answer has `mutex_socket`; `OneUnderWay` that an event
  on its way, its answer and its post exclude each other, and that the thread they
  are for waits. It holds as long as the server keeps its end open (`closes = 0`):
  at the end of the stream the reader handles the last answer again and posts twice.
- `AnswersBelong`: `LinkSpec => []AnswerBelongs`. `Belonging` adds that what is on the
  way is the event of the thread that waits, and that a good answer, on the way,
  posted or about to be looked at, is one to that event.
- `EventsServedOnce`: `LinkSpec => []ServedOnce`, with closed connections too. `SentOnce`
  says what may still be sent: the lines from the one the ping thread is at
  (`LineTo`) and the event in the data thread's hands; none of these has been sent,
  and an event is in at most one of the two places.
- `NothingIsLost`: `Steady /\ LinkSpec => []NothingLost`, where `Steady` is that the
  server stays once it is there, that the file can be written and that
  `SleepOutlasts`. `Connected` and `InTurn`
  say that ping thread and data thread are never at the file together; without
  `SleepOutlasts` they are, and the `rm` takes a line nobody has read.

`UploadPathProofs` proves of the two together:

- `ImplementsBuffer`, `UploadSpec => Spec`, and `ImplementsLink`,
  `UploadSpec => LinkSpec`: what is proved of `EventBuffer` and of `ServerLink` alone
  is true in the composition. Each step of it is one of the part or leaves the
  part's variables alone. The other direction of the argument is what the
  composition adds: `SameEvent` (`event = Len(uploads)`), that both parts count the
  same packages.
- `AnsweredIsAtServerCorrect`: `Single /\ Steady /\ UploadSpec =>
  []AnsweredIsAtServer`. A package that is confirmed has been copied
  (`AnsweredIsKept`), as event k of the connection (`SameEvent`), and no event gets
  lost there (`NothingLost`). The hypotheses are those of the two.
- `NumbersReachOnceCorrect`: `Single /\ UploadSpec => []NumbersReachOnce`, over
  outages and closed connections. The server gets an event once (`ServedOnce`, by
  `SentOnce`), and two copies share no number, since the numbers of all copies are
  in order (`UploadsWholeInOrder`).

`ShowDataProofs` proves for any number of devices, events and settings, from
`ShowAssumption`:

- `PairedCorrect`: `ShowSpec => []PairedUnlessReset`. `PairedInv` says what is true
  of a device at each place of `dev_set.cgi`: one that nobody is at has paired
  files, and one whose status has been written and whose log not yet removed has
  the status good, so that removing the log pairs them again.
- `ShowTypeCorrect`: `ShowSpec => []ShowTypeOK`.
- `RecordsAreRightCorrect`: `ShowSpec => RecordsAreRight`, for any shift between the
  clocks and any width of the field. `Still` says that what the pass has read is
  what the files hold while nobody changes them, and that the log ends before the
  clock that was read, moved by `Ahead` (`InTime`: times in a log are in order). What
  `ClosedFor` computes, the sum over the pairs, is shown to be the number of seconds
  at which the device was bad by going through the pairs: the least one for which it
  were not so would follow one for which it is (`NatLessThanWellFounded`).

`FilesProofs` proves of the unsent packages, from `UnsentAssumption`, for any number
of packages and newlines:

- `PackagesComeApartCorrect`: `Fits /\ UnsentSpec => []PackagesComeApart`, for packages
  that `line_comp` has room for (`Fits`, true of up to 17 events), and as long as no
  package lacks its newline (`~cut`). The offsets at
  which a package may have a newline (`Residues`, modulo 57) never differ by 41 from
  each other nor from the beginning; only the newline behind a package does, from
  its beginning. So (`Apart`) what has been read since the last package is the
  beginning of the next one, all of it is in `line_comp`, and it is sent when and
  only when its last line is read.
- `UnsentTypeCorrect`: `Fits /\ UnsentSpec => []UnsentTypeOK`: `line_comp` does not
  overflow if it has room for each package that is stored.

and of the settings pages, from `SettingsAssumption`, for any users, edits, saves and
kills, by one invariant, `PagesInv`. `Asked` says that the fields of every form are
values of their inputs, or absent on the page of the serial ports after a file was
read while it was truncated; `OnFile` that the file begins with the lines of the
process that wrote last, whatever a longer one has left behind them.

- `SettingsTypeCorrect` and `LostOnlyByOpenReadCorrect` follow from `Asked`.
- `LastSaveWinsCorrect`: `SettingsSpec => []LastSaveWins`, from `OnFile` and what the
  pages do to lines: `ComLines` writes the fields of a complete form one by one (its
  recursive function exists and is a sequence, by the same argument as
  above), two bytes hold fifteen switches (`Bits`: eight bits of any byte), and
  every other field is the line it is stored on. The exceptions the property names
  are finding 4 and the telephone number before one of eleven digits.

`EventTableProofs` proves for any number of users, rows and runs, from
`TableAssumption`:

- `DownloadsMergeCorrect`: `TableSpec => []DownloadsMerge`. Whoever truncated
  `dbdownload.csv` last reads at least as many rows as anybody at work then, and
  writes all of them. So (`Merging`) either the file is settled, or some client has
  not selected yet, or one has been refused, or one is filling all holes there are
  (`Filling`).
- `AloneIsWholeCorrect`: `TableSpec => []AloneIsWhole`, from what the file holds at
  each place of a client no other came between.
- `TableTypeCorrect`: `TableSpec => []TableTypeOK`. `Locked` adds that nobody reads
  while the daemon inserts, and `Contents` what rows and texts stand in the files.

Only model-checked is liveness, which is out of the prover's reach:
`HeardIsFinished`, `NumberingCompletes`, `CamerasSettle`, `EveryEventArrives`,
`CatchesUp`.

Beyond what is assumed above, nothing is claimed: with cameras (`DeviceStatus`) or a
second producer (`EventBuffer`) the properties of `ControllerOnly` and `Single` are
not true in general, which is what the hazards in `PROJECT.json` and section 6 say.

## 6. Findings

1. `EventBuffer_lostsignal`. A signal for the next package is lost while the
   delivery thread is busy with the last (`can_rcv_pthread.c:778`: neither the
   mutex nor a predicate). The receiver then waits for `sem` and receives no more.
2. `ServerLink_outage`. The delivery thread waits for an answer with
   `mutex_socket` held, after a write on a closed connection as well
   (`datato_server.c:30`, `40`); after the outage the ping thread waits for that
   mutex for ever.
3. `ShowData_header`. The controller's answer to the query for the weather is
   copied over the number and the length that have been written for the records
   (`can_rcv_pthread.c:785`), and stays there until the next pass.
4. `Settings_switches`. `dev_func_show.c:211` looks for the front door, the back
   door and the terminal server in other bits than `dev_func.c:148` stores them
   in; the next save stores what was shown.

Met while modelling, without a run:

- door, fan and heater events of the cabinet truncate the status file and write
  nothing (`can_rcv_pthread.c:602`); a light's "status check" faults are not
  logged, though a power recovery after one is, which is why `LogPairsUp` speaks
  of devices that can fail in only one way;
- an early return of `store_event_intodatabase` leaves the package in the buffer;
  a spurious wakeup delivers a buffer without a package;
- the ping thread never posts `ping_data_sem` (`pthread_ping_device.c:151`): the
  second camera event of a round waits although nobody uses the buffer; a camera
  whose status file is empty is not pinged again (`pthread_ping_device.c:94`);
- a query for show data and an event at the same time: the reader waits for
  `mutex_socket`, its holder for the reader (`pthread_socket_read.c:23`);
- the fault log is eight hours ahead of `time()` and the reader subtracts the one
  from the other: the total of every device that is bad is eight hours short, 136
  years when it has been bad for less than that, and its latest fault is moved by
  another eight hours (`pthread_query_showdata.c:96`, `188`, `211`);
- a query for a device whose `dev_<id>` `dev_set.cgi` has written and whose
  `devstatus_<id>` not yet ends the daemon (`pthread_query_showdata.c:110`);
- `dev_num` is 0 or too small at the top of every round of the ping thread
  (`pthread_ping_device.c:15`), is read twice for the header
  (`pthread_query_showdata.c:40`, `41`), and a pass that meets it leaves records out;
- an event between the two reads of a record makes the time of its fault wrong,
  or takes it from outside the array (`pthread_query_showdata.c:115`, `166`);
- a package behind one of `dev_sendto_st.cgi`, a wrong one or one whose store gave up
  is appended to what still lies in the buffer and lost, and `ping_data_sem` stays 0
  until a package comes whole (`can_rcv_pthread.c:747`, `755`);
- without `eventno.txt` the daemon goes on and gives every package the same numbers
  (`can_rcv_pthread.c:109`, `129`);
- a kill between a package and its newline ruins the packages behind it
  (`datato_server.c:55`, `60`), and a file of unsent events that cannot be opened
  loses the event and lets the next `getline` have no stream (`datato_server.c:52`);
- an insert that meets a query ends the daemon (`can_rcv_pthread.c:716`);
- the page of the serial ports, opened while its file is truncated, has fields
  without inputs, and `com_set` then writes too few lines (`com_set.c:76`);
- the zero behind a telephone number of eleven digits falls on the number before
  (`phonenum_show.c:68`).

## 7. Not modelled

- `realdata.c` prints the shared memory and changes nothing; what it can find
  there is in `ShowData`. The network pages and the time page run one command of
  the system each; the login compares two strings; updates and uploads copy files
  and run commands, one of which reboots. None has a second step that another
  process could come before, except that two users may set the same thing.
- The settings packages of `com_set` and `dev_func` are sent eight times to a
  descriptor that is never opened and so is 0; nothing hears them. Of
  `dev_sendto_st` the frames are modelled (`CanFrames`), not the bytes of the
  device table.
- `net_dbcheck` and `delete_netaddrdata` work on a database which no program of the
  repository writes.
- What lies behind an array that is overrun is the compiler's choice; it is
  modelled where a property is about it (`PhoneInput`, `LatestFault`), and else
  left out: `fault_type` and `fault_count` (`can_rcv_pthread.c:181`), `dev_time`
  with more than 100 entries (`pthread_query_showdata.c:174`), `line_comp` with a
  package of 18 or more events, `can_rcv_buf` beyond `LENGTH`
  (`can_rcv_pthread.c:750`). So are descriptors that are not closed
  (`pthread_ping_device.c:34`) and numbers read while half written.
- Of the file of unsent events: a package written in part, a file that a kill left
  empty between `open` and `write`, and one that is there and does not open for
  reading.
- `v4l2`, `moni`, `test1`, `CGI/backup`, `www/prog/db.c` are not part of the
  running system; `cgic.c`, SQLite (three copies of its header alone are two
  thirds of the C lines) and the scripts of the pages are third-party code.
