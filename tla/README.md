# Verification of take_screen

take_screen grabs an X11 screen and writes it to a picture file (a shot, or
picture after picture as a recording), or projects it: every picture is encoded
as JPEG, cut into UDP datagrams and sent to `udp_server`, which puts the frames
together again. A Windows front end runs the same core in a worker thread. This
directory models the program in TLA+, checks the models with TLC and proves
theorems about them with TLAPS.

The repository has no tests and no documentation beyond the usage text of
`cmdutil.c` and the comments; what a component is for is read from its code.

## The system

| Component | State | Operations | Hard part | Correct when |
|---|---|---|---|---|
| Receiver, `net/udp_server.c` | `packet[10]`, `lastpacketseqnum` | `Revc`, once per datagram | lost, late, doubled datagrams; a full table; an 8-bit counter | frames come out whole, in order, once; slots are given back; no write leaves the table |
| Sender, `net/udp.c` | `count`, the header on the stack | `udp_send` | cutting at the borders | the datagrams cover the frame and say what they carry |
| Capture loop, `take_screen.c` | `img`, the picture file | `main`, `net_send_jpeg` | steps that fail unnoticed | what is sent is a picture that was taken, in order |
| Grabber, `grabbers/x11_grabber.c` | `img.data` over pictures, the table of colours | `grab_screen_image`, `find_colors`, `convert_to_colorbuf` | a screen that changes its size; visuals | pixels stay in the buffer, in their places, in their colours |
| Output, `shot/o_bmp.c`, `o_jpeg.c` | `pf_bmp`, `pf_jpeg` | `init`, `write_frame` | one step of several fails; padding; upside down | the file shows the screen |
| JPEG compressor, `lib/jpeg-turbo` (vendored) | row group, main buffer, counters | `jpeg_start_compress`, `jpeg_write_scanlines`, `jpeg_finish_compress` | three buffers that fill up on their own at the edges | no row is shifted or kept |
| Options, `cmdutil.c` | the `opt_` globals | `parse_opt` | which options take a value | what the usage text offers is accepted |
| Clock, `clock.c` | `base_time` | `gettime` | units, the turn of the second | time does not go back; the frame rate is kept |
| Jobs, `win32/UIJob.cpp` | `m_whattodo`, `m_reqAbort`, a semaphore | `OnJob`, `startProjection`, `stopProjection`, `scanDevices`, `abort`, `~UIJob` | two threads without a lock | no request is lost, every end is reached |
| Main window, `win32/mainWindow.cpp` | list, status bar | button handlers, messages | its own thread and two others | as above |

`main` calls the grabber, the output and, for a projection, `net_send_jpeg`,
which reads the picture file back and calls `udp_send`. Sender and receiver only
share the network. The front end's window calls methods of the jobs, whose
threads read the same variables.

## Modules

| Module | Models |
|---|---|
| `UdpReceiver` | the slot table and `Revc`, path by path, on one datagram |
| `UdpReceiverOpen`, `MCUdpReceiver` | the receiver when any datagram may arrive at any time; five small frames |
| `UdpSender` | `udp_send`, from one `sendto` to the next |
| `Network` | external: the datagrams on the way and in the socket's buffer |
| `Projection` | sender, network and receiver together |
| `FrameDisplay` | abstract: some of the frames, in order, each at most once |
| `ProjectionRestart` | `Projection` when a program dies and is started again |
| `CaptureLoop`, `MCCaptureLoop` | `main`, with every call that may fail |
| `FrameStream` | abstract: pictures are taken, and given out in order; what else may be given |
| `Picture` | where each byte of a picture goes, from screen to file |
| `PixelColour` | how a pixel's colour is found |
| `JpegFile` | the rows of a picture in libjpeg-turbo |
| `Grab` | the three above in one picture |
| `FrameClock` | `gettime` and the pause at the end of a round |
| `CmdOptions` | `parse_opt` and the `getopt` it calls |
| `CoreJob` | the worker thread, one access to shared state at a time |
| `MainWindow` | the window's thread: buttons, job methods, closing; with `CoreJob` |
| `FrontEnd` | `MainWindow` with the list of devices and the message thread |

The modules ending in `Proofs` hold the theorems about the module they are named
after; those about `Grab` and what it is made of are in `PictureProofs`.
Operators named `X_Word` marked "Mutant" are wrong versions of `X`, kept to show
that the properties tell them apart; no specification uses them.

### Receiver

One action is one call of `Revc`. Its first test is `Rejected` (line 94).
`TableAfterAhead` and `LastAfterAhead` are the table and the number after the
window test (99-117); all that follows works on them. Searching the frame's slot
(126-143) is `AddToFrame`; no slot found is `StartFrame` (146-173), or
`NoSlotLeft` when none is free and `index` stays -1. `HandOn` is the rest
(176-250): the frame next in line is handed on; a full frame more than `Lag`
ahead makes the receiver catch up (`CatchUp`); any other full frame waits. The
loop of the catch-up is stated by its outcome: the number it reaches and the
slots it empties on the way. Of a slot's data the model keeps the positions that
hold the frame's own data. "Handing on" is what the code does with a complete
frame: it prints the number and gives the slot back.

Two writes leave their object; both are recorded in the ghost variable `wild`.
With no slot free the code writes `packet[-1]`. Built with the repository's
flags that lies over `sin`, which only `recvfrom` writes; an optimising build has
`lastpacketseqnum` there, so the model lets that variable keep its value or take
one of `Clobber`. A copy past the end of a slot's data ruins the heap and the
model stops there.

A sequence number is a natural number: the 2^32nd frame is 4.5 years away at 30
frames a second. `recvfrom` failing ends the call without effect and is no step.

### Sender, network and restarts

`UdpSender` has one action per `sendto`: `SendOnly` for a frame of one datagram,
`SendMiddle` for a round of the loop, `SendLast` for the rest. `SendOnly`
announces a value of `HeaderJunk`: the header is copied before
`m_usPayloadSize` is set. `Network`'s constants say whether it loses, reorders
and duplicates; `Capacity` is the buffer of the receiving socket, and what does
not fit is dropped. In `ProjectionRestart` a sender may die after any `sendto`,
what it has sent stays on its way, and the new one counts from 1; a new receiver
starts with an empty table and number 0, and the old one's socket is gone.

The build of the Makefile cannot start a projection (see below); the model is of
the code that runs once the options are available. The Windows front end sets the
address itself.

### Capture loop and pictures

`CaptureLoop` has one action per call of `main` and one for each way it may fail:
the X server's answers, opening and writing the file, no memory, an error in
libjpeg (which ends the program), an empty file. Most of this `main` does not
notice. `XGetImage` may return NULL, which is read (`NoImage`). In `net_send_jpeg`
nothing but `stat` is looked at: without memory or a stream `fread` is given NULL
(`ReadNull`), and when it reads less than it should, uninitialised memory is sent
(`SendJunk`). A picture is its number, and 0 is the file an earlier run has left,
whole or not; the screen is its size and may change at any step. The buffer behind
`img.data` is its size, so that the area allocated for the first picture can be
compared with what `convert_to_colorbuf` writes for a later one (`HeapOverrun`).

`FrameStream` is what is left of "it sends the pictures it takes": a picture of
its own that is given to `udp_send` was taken, and is not older than the one
before; a file of an earlier run is given only before the first of these; and junk
may be given at any time.

`Picture` follows each byte: `ConvertRow` is a round of the loop in
`convert_to_colorbuf`, `WriteLine` and `WriteScanline` are a round of those in
`write_bmp` and `write_jpeg`. `PixelColour` has the table `find_colors` asks for
and the shifts and masks that look a pixel up in it; fields of bits are arithmetic
there, and a byte has `Levels` values. An indexed pixel past the colour map is
passed over, and its bytes stay what they were (`PassedOver`). That map is a ramp in
which both halves of a colour agree, so storing the low byte does no harm there.
`JpegFile` follows the numbers of the rows through the preprocessor
(`color_buf`), the main buffer (`buffer`) and the coefficient controller
(`coded`). `process_data` is one call of `process_data_simple_main` with one row,
as `write_jpeg` gives them: `Collect` when the row group is not complete, `Group`
when it is, with the padding of both buffers after the last row. What happens to
columns is the same in every row and is given as functions of the column.

### Clock and options

`FrameClock` has `gettime` as it is (seconds times 1000 plus microseconds,
modulo the word) and the loop's pause, whose length is the result of a
comparison; what work a round does is only how long it takes. `CmdOptions` runs `parse_opt` over a command line with the option
string `"ripoFh:"`, in which only `h` takes a value. `common.mk` defines
`HAS_PROJECTION` and nothing else.

### The Windows front end

The window's thread and the worker share `m_whattodo`, `m_reqAbort`, the
semaphore `m_semJob` and the status bar; nothing is locked. Each access is a step.
In `CoreJob`, `doWork` calls `OnJob` (`TestProject`, `TestScan`: it reads
`m_whattodo` twice) until `m_reqAbort` is set (`TestAbort`); a job ends with
`Finish`, which sets `m_whattodo` to -1; with nothing to do the worker waits in
`Acquire`. In `MainWindow`, `gui` says which handler runs and its next step, so
that the worker can come between any two. In `~UIJob` the object is no longer a
`CoreJob`: `destroyed` makes `OnJob` and `OnExit` the empty ones of `UIJob`.
`FrontEnd` adds the list that "Scan devices" clears and the worker fills, and the
thread of `MessageProcJob`, which polls, writes to the status bar, and ends at the
next poll once it is told to.

`take_screen`, `stop_taking_screen` and `idc_scan_devices` of the Windows program
are not in the repository. A scan ends; `take_screen` runs until it is stopped,
or fails at any time. Whether a stop given before `take_screen` runs still counts
is not known: `StopKept` is both.

## Runs

Twelve, one per question. The five violations are disagreements of the code with
its own comments or usage text.

| Run | Asks | Result |
|---|---|---|
| `receiver_open` | do the receiver's invariants and order survive any sequence of datagrams? | yes; a write in front of the table has one of three causes |
| `projection_chaos` | does the projection implement `FrameDisplay` in a network that loses, reorders and duplicates? how far can the receiver run ahead? | yes; by `SkipRounds - Lag` frames at most |
| `projection_perfect` | does every frame arrive whole in a network that loses nothing? | yes, for frames of two datagrams or more, with fewer than 2^8 of them |
| `restart` | what does a restart cost, and how soon does a late receiver catch up? | a slot per new sender, and one more and a mixed frame if the old one died inside a frame; `Lag` frames and one for every `SkipRounds + 2` missed, if the receiver is at most `(Window - 1) * (SkipRounds + 2)` frames late |
| `capture` | in which ways can the loop break, and what does it send when steps fail? | a file that is not open and an empty one have one cause each, the buffer has two, and calls nobody looks at fail; half a JPEG is read and sent only if an earlier run left it; pictures go out in order; every round ends |
| `grab` | are the pixels in their places, in their colours, and in the JPEG? | yes where the masks are where the code expects them; one index too many passes the check |
| `front_end` | is every wake-up delivered, can every projection be stopped, does Exit end all threads, does an idle worker sleep? | yes, if a stop is kept until `take_screen` sees it |
| `large_frame` | is a frame of 256 datagrams shown? | no: `recvedpacks` wraps to 0 |
| `stale_flag` | are frames whole when datagrams are lost? | no: an inherited `isFull` |
| `close_hangs` | does closing the window end the program? | no: the destructor calls the empty `OnExit` |
| `frame_rate` | does `-r` set the frame rate? | no: the loop sleeps a microsecond, or nothing |
| `usage_examples` | are the examples of the usage text accepted? | no: `-F` and `-o` read a null pointer |

### Bounds

`receiver_open`: 3 slots, window 3, frames 1 to 5 of one and two datagrams. The
window is passed, the table runs full, slots go stale and are reused, catch-ups
stop early and run to the end. `PackMod = 4` makes the counter wrap, and
`Clobber = {0}` is the stray write that hurts most: everything starts again.

`projection_chaos`: the same table, 5 frames of one or two datagrams, 3 datagrams
in the network, one of them delivered twice; a full network drops what comes. The
unset payload may be 0 (rejected), 1 (right) and 9 (past the end of the data).
`projection_perfect`: the real table and distances, 4 frames of two and three
datagrams, last fragments full and not full; nothing overflows because 12
datagrams fit the network. `restart`: 3 slots, 6 frames, one restart of either
program. With three slots the table is larger than the two that `DeathCost` allows
for a sender that dies inside a frame, so a third one would show, and both bounds
of that property are reached. Six frames are enough for a late receiver to catch
up. `Lag`, `Window` and `SkipRounds` are 1, 2 and 2, in the order the theorem about
`Rejoins` needs. One restart is enough for `DeathCost`, which speaks of one; for
the other properties any number of restarts is in the theorems.

`capture`: three screens, one that fits in another and one of the same area that
does not; three pictures and two changes of the screen, so that the screen may
change before the first picture, grow after it and change while a picture is
taken. The file an earlier run has left is none, empty, half or whole.

`grab`: widths 1 to 5 are all remainders of a BMP line modulo four and of a row
of MCUs; heights 1, 2, 3, 5 and 8 are one to two rows of MCUs with each number of
rows in the last one. `DctSize = 2` and `Samp = 2` keep the three levels (row
group, row of MCUs, block) apart; `Levels = 8` gives every channel eight values
and a wide one sixteen; an indexed pixel has twice as many values as the map has
entries. `frame_rate`: 100 microseconds to the second; time runs over
three turns of it, started at one, after one and before one. `usage_examples`: every command line
of up to four arguments from all letters and seven words; two of the three examples
have four. `front_end`: three clicks
after the scan of the constructor, on any button, at any moment; a request, a stop
and another request fit in, and the surplus of the semaphore reaches four.

Deadlock is not checked where programs end: in all but `receiver_open`.

### Fairness

`projection_perfect`: weak fairness of the sender's loop, which never waits for
anything, and of the receiver's loop, which calls `Revc` again whatever happened.
Nothing is assumed of the network beyond losing nothing. `capture` and `grab`: weak
fairness of the program's next step; it is one thread, and each call returns or
ends it. `front_end` and `close_hangs`: the workers and a handler that has begun
go on whenever they can; nobody has to click and `take_screen` does not have to
fail. They are threads that the system schedules, and weak fairness is enough for
the semaphore because only the worker waits for it.

## Proofs

Every theorem holds for every value of the constants that satisfies the named
`ASSUME`s; the code's values do. What a theorem assumes beyond them it says itself
(`Perfect`, `Paces`, `ClockConstants`).

| Module | Theorems | Inductive invariant |
|---|---|---|
| `UdpReceiverProofs` | the five properties of `receiver_open` | `IInv`: types and `UniqueSeq` |
| `ProjectionProofs` | `NoRunaway`; `Projection` implements `FrameDisplay`; for `Perfect` networks with `Room`: `WholeFrames`, `NoStrayWrite`, `DrainedMeansShown`; when there is `Room` | `PInv`: `IInv`, the sender's own, and no number in network or table past `count`; `SteadyInv`, made of `Base` and `Clean` |
| `CaptureLoopProofs` | the safety properties of `capture`; `CaptureLoop` implements `FrameStream` | `TypeInv`, `FileInv`, `BufferInv` |
| `ProjectionRestartProofs` | for the same networks: `RestartCost`, `TableLasts`, `NothingWaits`, `WholeUnlessCut`, `DeathCost` and, if `Paces`, `Rejoins`; when there is `Room` with restarts | `RestartInv`, made of `Base`, `Clean` and `Joined`; `DeathInv`; `LateInv`; `RestartRoomInv` |
| `PictureProofs` | `InBuffer` and `FileShowsScreen`, of `Picture` alone and in `Grab`; `IndexInTable`, `ColourKept`, `NothingLeft` and `JpegShowsScreen` of `Grab` | `SizeInv`, `DataInv`, `OutInv`; `ColourInv`; `JpegInv`, `ContentInv` |
| `FrameClockProofs` | `PausesAtTheStart`: why `frame_rate` fails | `ClockInv` |
| `CmdOptionsProofs` | `OnlyDefaults`: why `usage_examples` fails | `OptInv` |
| `FrontEndProofs` | types, `NoLostWakeup`, and `StopReaches` if `StopKept`, for window and worker and again with the message thread; `ListedTwiceAtMost` | `WakeInv`, `StopInv`; `FrontInv`, with `ListInv` |

*Receiver.* `UniqueSeq` needs no strengthening, but it is needed for the rest: a
frame's slot is looked up in the table the window test has left. `Settled` says
what every way out of the handler does to that table: slots in use are left alone
or given back, only numbers past the current one are given back, and the frames
handed on lie between the old and the new number; order and staleness follow.
`OverrunCauseCorrect` is a counting argument: if no slot is stale and none is
beyond the window, the slots in use hold different numbers of a window, one of
which is not held.

*Projection.* Here a datagram has been sent. `NetInv` says that no number in the
network is past the sender's, `Within` says it of the table, and so a catch-up,
which starts only for a frame `Lag` ahead, ends at most `SkipRounds - Lag` past
the sender. With that and the receiver's order every step is a step of
`FrameDisplay` or a stutter. `Lag <= SkipRounds` (5 and 10) is assumed.

*Delivery.* What follows assumes `Perfect`: nothing is lost, doubled
or reordered, no frame has as many datagrams as the counter has values, and a
frame of one datagram announces its right size, which the code leaves to chance.
`Room` says that the socket takes what is sent; `RoomSuffices`,
`DeliveredWithRoom` and, with restarts, `RestartRoomSuffices` show that a buffer
for all frames of all senders does so. The number of frames, their sizes and the
table are any.

The invariant follows positions in the stream, a frame and a part of it. From the
sender's position back through the datagrams in the network, each begins where
the one before it ends (`Path`), so the first of them begins at the receiver's
position `c`; a new sender is a jump back to the first frame that is only allowed
where a frame ends (`life` numbers the senders). `Clean` says of the table what is
true as long as no frame was cut: a slot in use either collects exactly what is
behind `c` of the frame at `c`, or it is stale; there are at most as many stale
ones as senders before the one at `c`, and strictly fewer until that one has
passed `lastpacketseqnum`, because only the frame with that number makes a new
one. Hence the cost, the table that lasts, and, with a single sender, one slot in
use at a time, no stray write and whole frames. `Joined` is the weaker statement
for receivers that come in the middle: a slot of the frame at `c` may have missed
its beginning (`Cut`), and then it counts fewer datagrams than are behind `c` and
cannot be full when the frame ends.

*Cut frames.* For `DeathCost` the path may jump back in the middle of a frame,
once (`Died`). Until the receiver gets there it is as in `Clean`. From there on
the slot of the frame that was cut may hold anything; `DeadTable` says where it
can be: for the frame next in line, and nowhere else, because the dead sender's
frames before it have been handed on. All other slots in use are stale, or hold
whole frames of the new sender that wait, or the frame at `c`. So the first frame
that becomes complete out of turn is the only one that can be mixed, and a
catch-up, which stops beside the sender, leaves a table that satisfies `Clean`
again, for one more sender. `LeftTable` is the short time in which the mixed slot
was complete before the new sender was done with that frame: it is handed on, the
rest of the frame starts a slot that nothing will give back, the second one.

*A late receiver.* Until it has caught up, the table holds the frame it came in,
cut, and every frame since, complete (`LateTable`). `Pace` is the race: a frame
moves the receiver on by `SkipRounds + 2` at least once it is complete (one when
it begins, outside the window; one and `SkipRounds` in the catch-up), and the
sender by one. So after `x` frames the receiver is at `Gain(x)` or beyond, until it
is beside the sender or at the frame that was cut, where a catch-up stops early
(`Close`). All frames in the table lie in one window that has not begun
(`PaceRoom`), if the receiver was not so late that this takes more frames than
the window has; then there is a slot for each, no write strays, and the race is
won. `Paces` assumes `1 <= Lag < Window <= SkipRounds`, which 5, 10 and 10 satisfy.

*Capture loop.* `BufferInv` ties the buffer to the size of the first picture, and
every picture asked for to the display; one that fits in the display then fits in
a buffer allocated for a first picture as large as the display, because the server
keeps at least as many bytes for a pixel as are written (depths over 16).
`FileInv` follows what the file holds while it is written and sent: as JPEG it is
a whole picture of this run or what an earlier run has left, until the program
exits. `TypeInv` has that the file is never older than what was given last; from it
each step of the loop is one of `FrameStream` or a stutter.

*Pictures.* `DataInv` and `OutInv` say what is in the bytes converted and written
so far. They rest on arithmetic (`RowsApart`): rows of a fixed length placed one
behind the other do not overlap, in either direction. `Grab` implements `Picture`,
so the theorems carry over. `JpegInv` counts: as long as rows are to come, the
rows that came are `MCURows` times the coded rows of MCUs plus `Samp` times the
row groups plus the rows in the conversion buffer; `RoundedUp` gives the number of
rows of MCUs at the end. `ContentInv` adds what is in the buffers: the row numbers
follow one another from the coded rows to the conversion buffer. `GroupRows` and
`CodedRowShows` say that the padding only stands below the picture, and
`LastBlocks` that no block with a part of the picture is taken for a dummy, at
the right as at the bottom. `ColourInv` has the table `find_colors` fetches; the
rest is division (`Quotient`), with `ScaledByte` for the fact everything hangs
on: the server's colour for a byte has that byte in both of its halves.

*Clock.* `ClockInv` keeps `base_time` at the start and `reading` at the time that
has not moved since it was read; the rest is arithmetic modulo the word. With every
second that turns `gettime` falls behind by a constant (`GetTimeIs`), and before the
first turn it counts microseconds (`SameSecond`), which main compares with
milliseconds.

*Front end.* `WakeInv` follows the worker on its way to sleep: if it has passed
the test for a job and `m_whattodo` holds that job now, the job was written since,
and its release is still to come or in the semaphore. `StopInv` follows the
handlers: whoever is about to take the job away from a projection has stopped it
or has read before that there was none. `ListInv` counts who has still to add to
the list: a scan that is due, and a click that has cleared it.

Only model-checked: the liveness properties (`EveryFrameShown`, `RoundEnds`,
`JpegEnds`, `Rests`, `AskedAsleepServed`, `ExitEndsAll`), which need fairness, and
TLAPS does not reach that; of `EveryFrameShown`, `DrainedMeansShown` is the part
that is proved; and what the violation runs refute, whose traces are their own
proof. Every invariant and every action property of the passing runs is stated by a
theorem.

## What else the models show

These follow from the modules above; none has a run of its own.

- The program as built takes one shot as JPEG, whatever is asked for
  (`OnlyDefaultsCorrect`).
- When `net_send_jpeg` cannot read its file back, it breaks or sends what `malloc`
  has found, and the receiver has no way to tell.
- The picture buffer is overrun at depth 16 and below, and when the first picture
  was smaller than the display and a later one is larger: exactly the cases
  `OverrunCause` leaves.
- On visuals with more than 8 bits to a channel the index `ncolors` passes the
  check and is read past the table; on visuals whose red is in the low byte colours
  are exchanged, because the shifts are fixed while `find_colors` goes by masks.
- A frame rate of 0 would divide by zero.
- A sender that is started again is not seen until its count has passed the old
  one.
- A receiver that is started too late runs out of slots: with each complete frame
  its number moves by `SkipRounds + 2` at most, and until it has caught up every
  frame keeps a slot. With the code's constants that happens to a receiver more
  than about 110 frames late, less than four seconds at 30 a second; it then writes
  in front of the table. Hence the bound in `Rejoins`: up to 108 frames late it
  does not.
- A frame of one datagram carries an unset payload size.
- A recording as JPEG overwrites one file (`o_jpeg.c:45`); one as BMP writes its
  second picture to a closed stream.
- The worker sets `m_whattodo` to -1 after a job and forgets a request made
  meanwhile: a click on Projection or Scan in that moment does nothing. Requests
  made while the worker sleeps are served (`AskedAsleepServed`).
- With `StopKept = FALSE`, a stop between the worker's test of `m_whattodo` and the
  start of `take_screen` is lost and Exit hangs: what to look at in
  `take_screen`, which is not here.

## Not modelled, and why

- Log output, Windows resources and generated code have no behaviour of their own.
- Widgets touched from the worker threads (`mainWindow.cpp:204`): what Qt does then
  is undefined; `FrontEnd` has the order of the changes. The status text
  (`mainWindow.cpp:201`) may say "Scanning..." after the scan has ended; nothing
  reads it.
- Take Shot (`mainWindow.cpp:188`) calls a `take_screen` that is not in the
  repository, in the window's thread; whether two may run at once is unknown.
- The receiver's rate: it sleeps 200 ms after every datagram, so a real stream
  overflows its socket. `Network` has the overflow but not the rate.
- libjpeg-turbo is vendored and makes up most of the repository's lines (346 of its
  391 files). `JpegFile` has the part `write_jpeg` drives and whose buffers
  hold state between calls. Colour conversion, transform, Huffman codes and markers are
  computations on samples that no property here tells apart; the memory manager,
  decompression, transcoding, the TurboJPEG interface and the tools are out of the
  program's sight or never called. Where SIMD routines are available the compressor
  uses them, for averaging chrominance among others (`jcsample.c:511-512`); `JpegFile`
  has the C routine that is used otherwise and averages the same columns. Of the program's own code,
  what is left out is named above.
