# PAN detector software: TLA+ models and proofs

PAN drives astronomical detectors. LabVIEW programs (VIs) call C libraries that
talk to the detector controller, collect the pixels, put them in order, write
FITS files or send them on, and talk to other devices. This directory holds
TLA+ models of the C code, configurations that check them with TLC, and proofs
checked by TLAPS. They follow an image on its way: the call that takes it
(`expose()`), the commands to the controller below it, the copy out of the DMA
buffer, the ring that tells the rest of the program about it, the order of its
pixels, and the two ways it leaves, as a FITS file or over the network.

Paths below are relative to `src/PAN/Modules/`; line numbers without a file are
in `SDSU/private/c/src/astroIIILib.c`.

## 1. Inventory

### Detector library (`SDSU/private/c/src/astroIIILib.c`)

*State.* The status of the detector (`detstatus`), the requests
(`stop_sequence`, `stop_exposure`, `stop_coadding`, `stop_sur`, three `try_stop_*`
for requests that could not be honoured at once, `discard_coadd`), the exposure
time and its progress, the counts of images, coadds and reads (`npics`, `onpics`,
`images_done`, `coadds_done`...), the ring `frame[]` with its indices `fmi` and
`fmo`, the ring `image[]` of times, the next image buffer `next_imptr`, the fast
buffer and the position in the DMA buffer (`tot_pix_rec`, `pciPixCounter`,
`framesCounter`).

*Threads.* `SDSU_ExposureLoop.vi` calls `expose()` and, when it returns,
`get_expose_status()`. `SDSU_ExpStatusLoop.vi` polls `get_imstatus()` and `get_UT()`.
`DHE_DRV_feedBuffers.vi` hands over one image buffer at a time. Every stop, abort,
pause and resume, and `set_nimages()`, has a VI of its own. The VIs run in
parallel; nothing in the library excludes any interleaving.

*What is hard.* A request is several assignments and driver calls; the acquisition
thread tests the flags at a few points, clears them at others and shares `errno`
and the controller with everybody. What makes it correct: a request cuts a
sequence only between whole images, coadds and frames; the counts add up; no
request reaches into the next sequence; a stop and an abort do end the sequence;
the controller is not left running; the status loop sees every frame once its
pixels are there, and the end; every buffer holds one frame, and the right one,
though the board goes on writing while it is copied.

### The other parts

| Part | State and operations | What is hard, and what makes it correct |
| --- | --- | --- |
| Driver interface `SDSU/.../driver_api/sdsuLib.c` | controller status; commands and replies | a command fails or times out in the middle of a sequence |
| Back end `genIII_pcix` with its kernel driver `astropci.c` | one buffer `cmd_data[]` for all threads; reply flags, FIFOs | two threads send at once; the board answers after the driver gave up: a call that is alone takes its own answer, and an old one is not taken once the flags are cleared |
| Unscrambler `GUNSC` | amplifiers, order of the stream and of the sections | every pixel in one place, the right way up, whatever the order of the calls |
| FITS writer `GFITS` | open file, cursors of the amplifiers, image in memory | pieces of any size, amplifiers filled backwards, files closed half way: every pixel where it belongs, no holes |
| DHS sender `DRV_DHS` | a socket, one image on its way | the connection breaks anywhere: no half image passes for a whole one, none is sent twice |
| Simulator `driver_api/sim/simLib.c` | simulated exposure time and pixel counter | stands in for a board |
| Fast buffer `SDSU_shmem.c` | shared segment, semaphores | compiled only with `_SHMEM_` |
| Configuration `Logical`, `Common/Clib/src/memLib.c` | tables read from files | sequential parsing |
| Buffer manager `buffermgr/private/c/src/bufLib.c` | `totMem`, `maxMem` | the total equals what is allocated |
| Allocator `allocator.c` | list of DMA regions | third-party (A. Rubini), unchanged |
| Device server `DRV_COMS/.../c_univ` | five connections, a device | an answer goes to the client that asked |
| Telescope drivers `tcs_sml`, `tcs_rpc`, `DRV_TCSSOAR` | a socket | request and reply, formatting |
| Other kernel drivers, `genIII_pcie`, VIs | | vendor code; binary files |

`PROJECT.json` lists every part with its status and every hazard at its line.

## 2. Modules

    DetectorState -- AcquisitionThread --+-- OpticalExpose --+-- Expose -- MCExpose
                                         +-- InfraredExpose -+     |
                             Sequence <- - - (implemented by) - - -+
                             ExposeProofs -- SequenceProofs
    FrameRing -- MCFrameRing, FrameRingProofs      (implements FrameQueue)
    FrameTransfer -- MCFrameTransfer, TransferProofs
    PciCommands -- MCPciCommands, PciProofs
    Unscrambler -- MCUnscrambler, UnscramblerProofs
    FitsWriter -- MCFitsWriter, FitsProofs
    DhsSender -- MCDhsSender, DhsProofs

* **DetectorState**: the globals the threads share, `clear_all()`, all calls of the
  command thread and the controller. A set `flags` holds the names of the globals
  that are 1. A command is cut into steps where the code calls the driver or touches
  a global another thread writes (`cstep` names the next one): `stop_coadd()` tests the
  status, tells the controller, raises `stop_sequence` and raises `stop_coadding`, in four
  steps, and `abort_all()` raises each of its two flags by itself. `Deciding` names the
  commands that have found the detector exposing and are still at what they decided; `late`
  remembers that a part of the ramp ended meanwhile. Two quirks of the code are kept: the
  `if` on `ST_PAUSED` (1466) has no braces, so the abort after it always runs, and
  `set_nimages()` is a load and a store of an unsigned counter.
* **AcquisitionThread**: what both paths of `expose()` share: entry, the loop test,
  `read_exp_time()`, `readNframes()`, the failures of each, and
  `get_expose_status()`. `pc` names the statement about to run. Tests that follow one
  another without a driver call or a sleep are one step where the order of another thread's
  stores between them makes no difference (598, 603; 755, 760), and so are the nine stores of
  `clear_all()` and the load and store of `npics--`.
* **OpticalExpose**, **InfraredExpose**: the bodies of `expose_optical()` and of
  `expose()`; the labels `opt_err`, `err`, `new_coadd` and `new_image` and their
  `goto`s are values of `pc`. The three stops that are tried again before each exposure of
  the ramp (802-817) are a driver call and a store each. `images_discarded` counts what the
  code counts (643, 857): an optical image whose readout was aborted is in it and in
  `images_done`, an infrared one that is read again is in it once for each time.
* **Expose**: their composition with the command thread and the controller, fairness,
  and all properties. `num_prevex` decides the path in the code; here a call of
  either kind may follow the other.
* **Sequence**: what a call of `expose()` promises its caller, in a few actions: a
  number of images is asked for, images are done or discarded, requests and changes
  come in between, and the call returns `OK`, aborted or failed, for a reason.
  `Expose!ImplementsSequence` is the refinement: `phase` is read off `pc`; an image is done
  (`images_done`) or given up (`coadds_discarded`, which counts images), once, and the
  readouts that were `spoiled` (`images_discarded`) are counted beside that.
* **FrameRing**: the ring `frame[]` between writer, status loop and feeder.
  `get_imstatus()` is cut at every access to the ring - test, store and load of the
  progress, loads of pointer and status, `fmo++` - and the writer, which runs beside it,
  at the copy of the pixels and the store of their number. **FrameQueue** is
  the abstract queue of frames that the first lap of the ring implements.
* **FrameTransfer**: the three readers `readNframes()`, `readNFastframes()` and
  `readUltraFastframes()` against a board that writes frame after frame into a
  buffer of `framesPerBuffer` places. A piece is `buff_size` pixels; every piece in
  memory carries the number of the frame it is of. `Layouts` gives the number of
  places and the room the rounding up to 512 pixels leaves between them.
* **PciCommands**: threads that call `do_command()`, `reset_ctrler()`,
  `abort_readout()` and the progress calls at the same time; each is cut at every use
  of the shared `cmd_data[]`, and each `ioctl()` where it may sleep and so gives up the
  kernel lock. The board answers, is busy, or begins to read out when it likes. A
  header, a reply and an answer are records that name the call they belong to.
* **Unscrambler**: `GU_add_det()`, `GU_add_amp()`, `GU_clear_amps()`, the order of
  stream and sections, the flags, the datatype, and the unscrambling of a buffer. A pixel
  is its amplifier and its number in the stream. The reference `Oriented` compares with is
  a flip and a turn of the whole amplifier, computed apart from the code's placements from
  the angle the caller gave. `Fails` names the configurations of which the outcome is
  `Undefined` (see 3).
* **FitsWriter**: the setup of `GF_init()`, files created, written in pieces and
  closed, single and multiple. A pixel is named by image, amplifier, column and row;
  `Belongs` says where it should lie as if the amplifier had come in one piece.
  Calls the library accepts together but does not carry out correctly are noted in
  `misused` (see 3), writes that failed in `failed`, and whether counters and cursors are
  still those of the image in `course`.
* **DhsSender**: `DHS_connect()`, `DHS_close()` and `DHS_sendPixels()` with the table of
  descriptors of the process, and sockets whose connection may break without being
  noticed. A stream is the runs of pixels that were accepted, each with the image it is
  of and whether a header came before it.

*What is outside the repository.* The controller counts the exposure time, goes to
readout, delivers frames until the last, can be paused, and an abort ends an
exposure or, if the detector supports it, a readout. For infrared detectors it goes on by
itself, after the last frame of a part of the ramp, with the next exposure, the next coadd
or nothing (`NextExposure`, `NextCoadd`, `RampEnds`), by the numbers of coadds and samples it
was last told (`told`), from the coadd and sample it is in (`at`): it keeps its own count
and knows nothing of the flags. That it heeds a new number at the end of a part, and forgets
it only when told another, is assumed of it; so is that it hands over a frame when the
library reads it (`FrameRead`), since the frame is in the DMA buffer by then or on its way.
The PCI board of
FrameTransfer writes whole pieces and says how far it is; that of PciCommands answers
commands in their turn, in its own time. CFITSIO writes a pixel where it is told to.
TCP accepts data for a time after the receiver is gone and has room for some when it
does not read; a `write()` fails only when its connection has (no signal interrupts it;
line 138 of the sender would not notice), and does not end the process (SIGPIPE is
ignored, as it is in the LabVIEW process). `socket()` and `gethostbyname()` succeed,
which `DHS_connect()` takes for granted, and the caller gives an address, a size and a
handle that pass the checks of lines 107-122. `socket()` gives the lowest free
descriptor.

*Data left out.* Pixel values, times of day, delays and messages. An exposure is
counted in units of `EXP_TIME_BREAK`, so 3 units are an exposure that is polled, can be
shortened by `STOP_TIME` (one unit) and still has something left. Timeouts of many
polls are steps that are possible when no progress can come any more. `errno`
takes the values the code tests; calls of the C library that change it as a side
effect are left out.

## 3. Checks

All bounds are CONSTANTS of the .cfg files: `MaxCalls` commands and `MaxRuns` calls
of `expose()` per behaviour, `UMod` for unsigned counters (4 stands for 2^32).
Deadlock is not checked: when the bounds are used up and nobody calls, the systems
rest.

| Run | Shows | Why the bounds are enough |
| --- | --- | --- |
| `expose_requests` | `CoaddsComplete`, `NoOrphanExposure`, `IdleAfterReturn`, `SequenceLength`, `ExposureTimeRestored` under any two of five commands over two sequences, optical and infrared (10,824,090 states) | two images of two coadds: a command is met in the image, between images and after the last; the second sequence shows what is left over |
| `expose_failures` | `TypeOK`, `WholeImages`, `ImagesAccounted`, `AbortHasCause`, `ImplementsSequence` with a driver that may fail anything, all readout errors, pauses, resizing (3,568,776 states) | one sequence of two images, two samples up the ramp |
| `expose_liveness` | `StopEnds`, `AbortEnds` of continuous sequences (437,608 states) | two commands, either before or after the other |
| `ring_wraps` | `TypeOK`, `NoPixelsBeforeRead`, `EndReported`, `ImplementsQueue` (1,360,000 states) | three elements and four frames in each of two sequences: the ring wraps, the reader is lapped and catches up |
| `transfer` | `TypeOK`, `FramesIntact`, `NoFalseTimeout`, `ReadoutEnds` (185,546 states) | frames of three pieces, four frames, buffers of one to three places: the reader goes back to the start in the middle of an exposure; two exposures; a fault |
| `pci_commands` | `TypeOK`, `OwnReply`, `AnswerIsFresh` (2,559,769 states) | two threads, two calls of all five kinds, one upset: an answer that comes late and a call for it to meet |
| `unscramble` | `TypeOK`, `EveryPixelOnce`, `Oriented`, `SectionsOfAllSides` | two amplifiers in five calls; sections of different sizes, so that each order shows |
| `fits` | `TypeOK`, `PixelsInPlace`, `ImagesWhole`, `NothingOutside` (72,334 states) | amplifiers of 2 by 4 in pieces of one, three or four rows: an image comes whole, in two pieces of either order, row by row, or with rows too many; quadrants, two of them discarded, an offset row, rotated ones; two images, files of one or two, so that a file is begun after one closed half way and one image more than was asked for is written; one call of a file has a write that fails, at any amplifier |
| `dhs` | `TypeOK`, `StreamsReadable`, `SentOnce`, `OneConnection`, `SendEnds` (49,125 states) | three images over three connections, an image written in up to three parts: a whole image, a broken one and one sent again |
| `expose_resize` | violation of `ResizeBounded`: a resized sequence may take more images than ever asked for, since `set_nimages()` stores a number computed from an older `npics` over what `expose()` made of it meanwhile | |
| `expose_abort_paused` | violation of `AbortEnds`: a paused exposure cannot be aborted | |
| `ring_index` | violation of `IndexInRange`: the writer leaves `frame[]` by one element | |

### What the passing runs leave out, and why

These are cases in which the code does not do what the property says. They are listed
as hazards; the runs exclude them by name.

* `expose_requests` and `expose_liveness` exclude the errno `ECONNABORTED`. With it,
  and a discard, `CoaddsComplete`, `NoOrphanExposure` and `AbortEnds` do not hold: `err:` and
  `opt_err:` look at an errno that may be stale, and an image restarted at `new_image` (867)
  keeps the coadds that were left, while the controller begins anew. `expose_liveness`
  leaves out `pause` (its own run shows why) and `abort_coadd`.
* `NoOrphanExposure` excepts a stop that is carried out `late`: `stop_coadd()` or
  `stop_sample_up_the_ramp()` finds the detector exposing, and that part of the ramp ends
  before it has told the controller and raised its flag. The controller may then have gone on
  with the next coadd, or the library with the next sample, when the other stops, and
  `expose()` returns `OK` beside a controller that exposes or waits to be read out. It also
  excepts sequences that were aborted: `abort_all()` just before `start_exposure()` (617, 776)
  aborts nothing. The property says that there is no third way.
* `CoaddsComplete` excuses the images counted after a stop of the coadding was raised, which
  ends them with the coadds they have.
* `ExposureTimeRestored` allows an image to start with a shortened time while the request
  that restores it is raised or being raised: a `stop_exp()` that comes late does shorten the
  next image, or the first of the next sequence. What it excludes is a time that stays.
* `IdleAfterReturn` excepts an infrared sequence that returned `OK` after an abort or a
  discard was asked for: when the last image is given up because of `discard_coadd` alone (858),
  and `stop_sequence` is set only after 891 was passed or not at all, the status stays that of
  the readout until `get_expose_status()`.
* `ImagesAccounted` and `Sequence` count an image as done or by its coadds. By the counter
  `images_discarded` an optical image whose readout was aborted is counted twice (643, 653), and
  an infrared one once more for each time it is read again (857).
* `AbortHasCause` accepts a discard anywhere in the sequence: nothing clears `discard_coadd` in
  `expose_optical()`, so that it and a later stop are taken for an abort (662).
* `NoPixelsBeforeRead` and the queue are about `FirstLap`: the first call of `expose()`
  after the library is loaded, its first 1025 frames, and as long as no call of
  `get_imstatus()` lasts for a whole frame (`pace`). When a slot is used again it shows the
  progress, and for a moment the buffer, of its old frame; a slow reader is lapped; and a
  call that is held up for a frame between the load of the pointer and `fmo++` reports an
  empty slot and moves on.
* `FramesIntact` assumes a reader that looks about four times a frame or more:
  it is at most `MaxBehind` pieces late, and `4 * MaxBehind <= Chunks + 1`. One that sleeps
  through half a frame cannot tell one frame from the next. With a piece less (frames of
  six pieces and a reader two late) TLC finds a frame that is lost. It is about exposures that begin with a board that rests and reports
  what the reader saw last (`sound`). `RoundLayouts` has no buffer of three frames that
  need rounding: the test at line 252 takes the third frame for read before it is
  begun. In the fast modes it asks for two places, as one is overwritten while it is
  copied.
* `OwnReply` is about a call that meets no other and begins at a board at rest:
  `cmd_data[]` is shared and unlocked, and two overlapping calls do take each other's
  replies; a board that still has a command to do, words in its input or output, or a
  request for output answers with those. An abort of the readout is excepted:
  `ASTROPCI_SET_HCVR` does not clear the flags first.
* `AnswerIsFresh` excepts the callers that are `crowded`: those that cleared the flags
  while a command was under way, or met another command between `CLEAR_REPLY_FLAGS` (788)
  and their own `WRITE_COMMAND` (813). An answer that comes in between is older than the
  command it is taken for. The property says that this is the only way.
* PciCommands stores `cmd_data[1]` to `cmd_data[5]` in one step (`FillWords`): two threads
  that mix their arguments word by word are not told apart from two that mix them after
  the header. A reply is a header of 0 or of a value, or has more parameters than the
  driver writes; a value with a small low byte goes on as one malformed command.
* Unscrambling is `Undefined` for configurations the code accepts and does not check
  (`Fails`); the properties say nothing of them: detector extensions without a detector
  (`GU_algors.c:900` and `1247` divide by `ndets`), a map of the stream that names an
  amplifier there is none of (`GU_SetPhysMap()` looks at no value and reads one more than
  it was given, `102`; `GU_add_amp()` takes the extension as it comes, `500`), amplifiers
  nothing was mapped to that are arranged or copied, an order of which a routine was
  missing, a rotation by -270 degrees (`div()` keeps the sign of the angle, although the
  comment at `457` says otherwise, and `GU_transformations.c:56` corrects by the angle),
  and a detector buffer made for two bytes and used for four (`GU_getdetbuf()` is asked
  again only when there is none, `1242`).
* `EveryPixelOnce` leaves out one amplifier of `GU_FLOAT()` with `pix_swap`: every second
  pixel goes through an `i32` (`GU_algors.c:801`) and loses its fraction. The model cuts it.
* The detector is as wide as its amplifiers side by side, and they name it.
* `SectionsOfAllSides` is about configurations in which the order is set on all sides
  in use; with fewer, sections are arranged in the order of another side
  (`GU_algors.c:1186`), and setting the order of the columns switches off one of the
  rows (`GU_algors.c:239`).
* `misused` names what the code accepts and the properties of FitsWriter set aside: rotated
  amplifiers in a single file, an order of the extensions that is no permutation or goes
  with discarded or rotated amplifiers, a region half outside of the detector
  (`GfitsLib.c:689` lacks an `else`), a region of a file of several images, several
  images written with `GF_writeImage_from_buf()` from lower and upper amplifiers, more rows
  than the image has ("Ignoring extra pixels", 1419 and 1528, is true of a single call
  only), more images than were asked for (1585 lets any number pass), and a call that sets
  up the library while a file is open. These all happen in the model; the state they lead to
  is followed to the end of the file, but rows too many overwrite memory, so that after them
  (`course` is "lost") only closing the file and `GF_init()`, which allocates all anew, are.
* Pieces end at the end of a row. The rest of a row would be cut off (1540), while the next
  piece still counts it. One file is open at a time.
* From the first write that fails cfitsio does nothing for the rest of the call, and puts
  nothing down. `GF_writeImage_Multiple()` returns only the failure of a lower amplifier, and
  the file is then given up (`course` is "stopped"); one of an upper or rotated amplifier it
  hides (1447-1450, 1484) and reports its progress. `GF_writeImage_Single()` returns every
  failure but has counted the image (1586). `ImagesWhole` says that nothing else is lost.
* `OneConnection` assumes that nobody called `DHS_close()` without a connection: it
  closes descriptor 0, the next connection gets it, and `DHS_connect()` takes 0 for
  none. One caller at a time is assumed, since the library has one socket and one
  header buffer and no lock.

### Fairness

* `Expose`: weak fairness of the acquisition thread and of the controller, since the
  thread runs freely and the controller counts time by itself; of the command thread,
  so that a call that was begun goes on. Nobody has to issue a command or resume a
  pause.
* `FrameRing`: of the status loop, which polls for ever, the feeder and the writer.
* `FrameTransfer`: of the board, which reads out what it was told to unless the link
  breaks, and of the reader, which polls. `ReadoutEnds` does not need the link.
* `DhsSender`: of the sender, where it can go on: a `write()` returns when there is room
  for data or the connection has failed. The socket is blocking and has no timeout, so
  that a receiver that stays connected and does not read holds `write()` (174) for ever;
  nobody has to read (`Drain` is not fair), and `SendEnds` says that a call ends unless
  one `write()` waits that way for ever.

## 4. Proofs

Each theorem holds for every value of the constants under the named assumptions
(`ConstantsAssumption`, `DetectorsAssumption`, `NReadsAssumption`,
`FramesAssumption`, `RingAssumption`, `TransferAssumption`, `CallersAssumption`,
`GeometryAssumption`, `WriterAssumption`, `SenderAssumption`), which only give them their types: counters have a range of at
least two values, `STOP_TIME` is positive, `NImages` is a value of the counter.
What a theorem assumes beyond that stands in its statement.

* **ExposeProofs!TypeCorrect**. `TypeOK` alone is not inductive: a frame is counted down
  only where one is left, and a coadd is counted as done only after it was begun.
  `Counts` adds both (`coadds_done + ncoadds < NCoadds` inside a coadd). That
  `exp_prog + STOP_TIME` is a time needs `STOP_TIME > 0`, since a failed poll leaves -1
  in `exp_prog`.
* **ExposeProofs!AbortsAreAsked** `Spec => []AbortHasCause`. `AbortInv` says who may
  raise `discard_coadd`: the steps of the two abort commands, and a command in progress
  when a sequence begins is one of those asked during it.
* **SequenceProofs!AccountedFor, SequencesAreWhole**. `Balance`: while nobody changed
  the number, images left, in progress, done and given up add up to the number asked
  for, at every statement; a return with fewer was cut by somebody who asked for it.
  `Spoiled`: an optical readout that is counted as aborted is counted as done with the same
  step.
* **SequenceProofs!ImagesAreWhole**: `Started` counts what `expose_optical()` has begun.
* **SequenceProofs!SequenceKept** `Spec => ImplementsSequence`: from the same invariant,
  every step of either path, of the command thread and of the controller is a step of
  `Sequence` or leaves its variables alone.
* **SequenceProofs!ExposureTimeIsRestored**, if the driver carries out what it is told
  (`DriverFails = FALSE`): `TimeInv`, a shortened exposure time is always remembered by
  `stop_exposure`, or by a command that is about to raise it.
* **SequenceProofs!StatusIsCleared** `Spec => []IdleAfterReturn`: `StatusInv`, only a
  discard, by itself or on the way to an abort, leaves a status other than idle at the end of
  an infrared image, and `get_expose_status()` clears it.
* **SequenceProofs!ImagesHaveTheirCoadds**, if no readout leaves `ECONNABORTED`:
  `CoaddInv`, a coadd is left, in progress or done.
* **SequenceProofs!NothingIsLeftRunning** `Spec => []NoOrphanExposure`, if nobody pauses,
  exposures are polled (`Postex > 0`) and no readout leaves `ECONNABORTED`: `OrphanInv`. In
  `expose()`, `Together`: at every statement library and controller are in the same part of
  the same coadd, though neither sees the other's count; at the end of a part they go on with
  the same one (`PartEndsTogether`). That needs `Told`, what the controller was told is what the
  flags say, but for the thread that has done the one and not yet the other, and `Settled`:
  between a part of the ramp and the next no command is in that state, because a stop begins
  only while the status is that of an exposure, and one that outlives its part is `late`.
  Pauses and `ECONNABORTED` have to be excluded: `resume` sets the status of an exposure
  at any time, and an image that is begun again has fewer coadds than the controller takes.
* **FrameRingProofs!TypeCorrect**: both indices stay within one slot of `frame[]`,
  whatever its size: the overrun `ring_index` shows is never larger.
* **FrameRingProofs!PixelsBeforeRead, RingIsQueue**: the first lap, from
  `LapInv`: slot i holds buffer i up to `fmi`, nothing was written beyond, the reader has
  not passed the writer, and what the reader holds belongs to the slot it has not left.
* **TransferProofs!TransferTypes** `Spec => []TypeOK`, without any further assumption.
* **TransferProofs!FramesStayIntact, TimeoutsAreTrue**. What they assume: `Timely`, the
  bound above, which the model checker shows to be exact; `RoundFrames`, no rounding where
  the buffer has three places or more, since the test at line 252 then takes the third
  frame for read; `FastReadsOnce`, exposures in the fast modes are read once, since these
  readers count the frames from zero in each call. `Inv` relates reader and board while
  nothing failed (`Followed`): `PlaceInv`, the board is at most two frames ahead and in the
  place that follows from it; `PaceInv`, at each statement how many pieces it may be ahead of
  what the reader knows, from `MaxBehind`; `MemoryInv`, the pieces written of the current
  frame are in the DMA buffer; `BufferInv`, those copied are of the current frame.
* **PciProofs!TypeCorrect, AnswersAreFresh**: `FreshInv`, a caller that is not `crowded`
  finds no answer in the flags until its command is written, since nothing is under way;
  from then on they show one only if it was given later, whoever else clears or consumes
  them meanwhile.
* **PciProofs!RepliesAreOwn** `Spec => []OwnReply`: `LoneInv`. While a call is alone, all
  other threads are ready, `cmd_data[]` and the driver's copy hold its own words, and the
  board has nothing but its own: before it sends it finds the board at rest, afterwards
  flags, FIFO and pending work are of its command.
* **UnscramblerProofs!PlacesArePermutation, ConfigurationIsSound**: the four placements are
  their own inverses on the positions of an amplifier of any size. The remainder of any
  angle by C's `div()` is a multiple of a quarter that means the same (`AngleOf`).
* **UnscramblerProofs!NoPixelIsLost** `Spec => []EveryPixelOnce`, if the sides of an
  amplifier are even (`Even`) and an order names each section once (`EachSectionOnce`;
  others lose a section), in the cases named in 3. Each step is a `Shuffle`, a rearrangement of the positions, and
  `Filled`, "the pixels of one amplifier, each once", is kept by all of them: swap
  (`StreamFills`), placement, rotation (`PlacedFills`), sections (`ArrangedOnce`,
  `RearrangedFills`). A map of the stream onto the amplifiers is one to one
  (`OneSource`, by counting), and a position on the detector is an amplifier and a
  position in it (`DetectorCell`). `RI_SHORT()` halves the sides, which is why they have to
  be even. Of the rotations that are left -270 is `Undefined` (`TurnedOutside`).
* **UnscramblerProofs!ImageShowsTheSky** `Spec => []Oriented`, if the sides are even:
  `AsDefined` keeps type and rotation those of the definition, and
  `CornerOfDefinition` counts the mirrorings of a definition modulo two.
* **UnscramblerProofs!SectionsAreWhereAsked** `Spec => []SectionsOfAllSides`, if an order
  names each section once. The reference counts: an element belongs behind those `Ahead` of
  it, all of the sections asked for before its own and the elements of its own before it.
  These are disjoint intervals (`AheadIs`), so their number is a sum of lengths
  (`AheadCount`), the offset that `GU_rearrange_sections()` computes (`ArrangedAsAsked`).
* **FitsProofs!WriterTypes** `Spec => []TypeOK`: cursors are counted down, so `Room` says
  that what is left below a cursor is at least the rows still to come while `course` is
  "on"; after rows too many, or a call that ended early, nothing is said of them.
* **FitsProofs!NothingGoesOutside** `Spec => []NothingOutside`. `Placed`: the cursors lie
  where a layout shifted by whole images would have them after `totEleRead` rows
  (`LaidOut`), the image in memory is no larger than its box, and the box and the sizes of
  the HDUs are those of the layout. The shift is what `GF_writeImage_from_buf()` leaves: it
  starts the next image where this one ended, and with amplifiers on one side only the box
  moves with it. That minima and maxima of finite sets exist comes from the
  well-foundedness of `<`, by least counterexample (`LeastOf`), which needs no induction.
* **FitsProofs!PixelsStayInPlace, ImagesComeWhole** `Spec => []PixelsInPlace` and
  `Spec => []ImagesWhole`, if in every unrotated layout with amplifiers of both sides some
  lower one begins below all the upper ones (`LowerFirst`). `Content` says what the memory
  holds: a pixel in it lies at the seat of its amplifier, whatever image it is of
  (`MemoryOwned`, `TurnedOwned`), and the rows written so far are of this image
  (`MemoryNow`, `TurnedNow`). With the last row no seat is left that could hold an older
  pixel (`FullMemory`), which is why a file that was closed half way does no harm. What is
  written is what `Writes` names, and an amplifier that wrote nothing, because a write failed
  before it, is in `failed`. That a
  piece of any number of rows puts every pixel at its seat is `PieceIs`, for each type and
  rotation. `LowerFirst` is how detectors are laid out, and it is needed: after a cube from
  `GF_writeImage_from_buf()` the lower amplifiers are started one image too high, and it is
  the box, which moves with the lowest of them, that makes the memory be cleared. With an
  upper amplifier at row 1, a lower one at 5 and an upper one at 13, of four rows each, the
  box stays, and TLC finds pixels of the cube in the hole at row 9 of the next file.
* **DhsProofs!TypeCorrect, ReadableStreams, ImagesSentOnce, OneConnectionAtATime**, with at most two tries
  (the library has two): `StreamInv`, the stream of an open socket ends with a whole
  image or with the one that is being sent; `Unique` and `Reported` tie the runs to
  what the caller was told. `OneConnection` is inductive next to `SocketInv`. The
  assumption is needed: with a third try the rest of an image follows on a new
  connection without its header.

TLC checks each inductive invariant first on the instances above. Only model-checked:
liveness, which the prover cannot do (fairness and ENABLED). Every invariant and every
other action property of the passing runs is stated by a theorem, some under the
assumptions named above.

## 5. Not modelled, and what is left

* Guiding, `get_UT()` with the ring `image[]`, `stop_idle()`: the ring of times is written
  and never waited for. The shared segments of the detector library and of GFITS with
  their message queues (`SDSU_shmem.c`, `GF_shmem.c`, `GU_queue.c`) are compiled only
  with `_SHMEM_`, which the Makefiles leave out.
* The encoding of commands, and the configuration commands of `sdsuLib.c`: one command
  and one reply each, whose delivery is PciCommands. Opening, mapping, the interrupt
  handler and the download of PCI code.
* `genIII_pcie`, `CArcDevice`, the driver `Arc66PCIe.c`, `allocator.c`: vendor or
  third-party code, most of the lines of `SDSU` and `buffermgr`.
* The simulator: an environment, in place of a board. It keeps its map counter over the
  frames of one exposure and so announces the second frame of a buffer after one
  piece; it is not one of the boards FrameTransfer allows.
* The buffer manager: one counter, tested and added to without a lock. The universal
  device server: `UNIV_Write()` copies a request through a pointer that was never set,
  so that nothing can be said of what follows. The telescope drivers and the
  configuration library: formatting and parsing.
* Header keywords, compression, files in memory and the calls that write a whole buffer
  at once in GFITS; buffers in chunks and several detectors in GUNSC.

Proofs worth adding: that `Timely`, `LowerFirst` and the other assumptions of section 4 are
exact, which is that without them the properties fail; TLC shows it on single instances.
