# sve4 in TLA+

A verification project for sve4, a C library that decodes media files for a
video editor (`libsve4_decode`), with its logger (`libsve4_log`) and helpers
(`libsve4_utils`). It models the parts of the code where several threads meet and
the algorithms with the most corners, checks them with TLC on small instances and
proves every invariant of those runs with TLAPS for every value of the constants.
`PROJECT.json` lists components, runs, the lines every definition stands for, hazards and
theorems in machine readable form.

## The system

    get_frame / seek / close            packet thread (one per demuxer)
      of decoder 1 .. n                 sve4_demuxer_thread_main
            |                                   |
            |  pop (deadline)    push (deadline, force)
            +------> packet queue  <------------+
            |        one per decoder            |
            |                                   |  av_read_frame, av_seek_frame
            +--- seek_request, running -------->+----> file (FFmpeg)
            |
            +--- open / close ---> list of decoders (list mutex)
            +--- ref / unref ----> demuxer (reference counted buffer)

| Component | State | Operations | What makes it hard | What makes it correct |
|---|---|---|---|---|
| packet queue (`ffmpeg_packet_queue.c`) | AVFifo of packet pointers, one timed mutex, two condition variables | init, push (deadline, force), pop (deadline), is_empty, clear, free | interleavings, deadlines that race with signals, spurious wakeups, growth | FIFO with atomic calls, one owner per packet, wakeups lost only to calls that time out, timed calls return |
| demuxer and packet thread (`ffmpeg_demuxer.c`, `ffmpeg_demuxer_thread.c`) | list of decoders, `running`, `use_thread`, `seek_request`, `reach_eof`; the thread's pending packet and its index | start of the thread, direct reading, seek, the thread's loop, destruction with join | the thread and all the callers run at once; requests are one atomic word; a full queue holds up all streams | every decoder gets the packets of its stream once and in order, a seek leaves no old packets, shutdown ends |
| decoder list and life cycle (`ffmpeg.c`, `ffmpeg_demuxer.c`, `decoder.c`) | linked list under a mutex, reference count of the demuxer, which queues are initialised | open (with every way to fail), close | opens and closes of different decoders at once, half done opens | list = open decoders, count = holders, a queue for each from two on |
| FFmpeg decoder (`ffmpeg_decoder.c`) | codec context | get_frame loop, seek | end of file and flush packets | see the demuxer |
| buffer (`libsve4_utils/buffer.c`) | atomic count, destructor | create, ref, unref, free | last references dropped by two threads | no use after free, one destruction, no leak |
| decoder front end (`decoder.c`) | table of two functions | open, get_frame, seek, close, choice of backend and stream | the file is opened once to find the backend and again to decode; offsets count down in 16 bits | right backend and stream for a header and a stream list |
| url reading (`read.c`) | - | read_url with caller's or own memory | sizes, short reads, failures | sizes honest, nothing dangling |
| libwebp backend (`libwebp.c`) | position in an animation, last time stamp | get_frame, seek | wrap-around, time stamps after a seek | durations positive and in range |
| ram frames, formats (`ram_frame.c`, `formats.c`) | - | plane layout, equality of formats | alignment of offsets and of line sizes, in one buffer with two headers | planes do not overlap, equal formats are laid out alike |
| allocators, arena (`allocator.c`, `arena.c`) | table of functions | alloc, calloc, realloc, free with missing functions | what stands in for what, zeroing, growth that fails | complete and without circles, as good as libc's whatever is given |
| log registry (`libsve4_log/init.c`) | list of loggers under a mutex | add, remove, log, destroy | the tail is read before the lock; callbacks run inside it | list intact, each logger sees each record |
| path shortening (`api.c`) | - | shorten_path | a length that is taken before a separator is skipped, pieces of one character | result fits and still names the file |
| FFmpeg log bridge (`libsve4_log/ffmpeg.c`) | bytes of an unfinished line per thread | callback | partial lines, several lines at once, a FIFO with a limit | every line logged once, whole and by its own thread |
| errors, terminal, GLFW, Vulkan | - | - | pure tables and I/O | - |

The hazards are listed with their lines in `PROJECT.json`, each with the
properties that would catch it, or the reason why none does.

## Modules

- `PacketFifo` - what a packet queue promises: push and pop of a bounded FIFO as
  single atomic steps between a call and its return; a call that fails has no
  effect. Not the code but the specification the code is measured against.
- `PacketQueue` - the code of the queue. `pc[t]` is where thread `t` stands in its
  call: waiting for the mutex, in the test of the wait loop, asleep, woken or
  expired, about to move the packet, to signal, to unlock. `mutex`, `fifo` and
  `cap` are the fields of the C structure; `held` and `arg` say who owns which
  packet. `Fifo == INSTANCE PacketFifo` is the refinement mapping, made of `Items` (a
  queue is empty from the first step of a clear on), `Progress` and `Stage` (a call is
  `"done"` once it has taken effect). A signal wakes a sleeper, or goes to a call whose
  deadline has just passed, which POSIX allows and the code does not make up for (it fails
  without a look at the queue, line 131); `untold` remembers on which side a sleeper was
  passed over, so that the properties can say that nothing else loses a wakeup.
- `Demuxer` - the packet thread, direct reading, and the callers of get_frame, seek,
  open and close. `thread` is where the thread stands in its loop; its context is
  `request`, `pending`, `cur`, `idx`, `force`, `timeout`. A packet is its position
  in the file with two history marks (after how many seeks, and whether an end of
  file made it). The queues are sequences with a capacity, as `PacketFifo` promises
  and `PacketQueue` implements: a push or a pop is one step here.
- `DecoderList` - open and close of decoders: `first`, `last`, `prev`, `succ`, `refs`
  are the fields of the code, `pc` is where an open, a close or the way out of a
  failed open stands. Each action is what the code does between two of its locks,
  unlocks and count changes. A shared open that fails before `open_decoder_inner` leaves
  the reference it was passed with the caller (`OpenRefused`), who opens with it again
  or gives it up (`OpenAgain`, `GiveUp`). `lost` counts the FIFOs that a second
  initialisation of a queue overwrote (`Overwrite`).
- `Buffer` - the reference count. `holder[h]` says who holds reference `h`; the count
  is one atomic word; the thread that takes it to zero goes on alone through
  destructor and free.
- `LogRegistry` - the list of loggers: `first`, `last`, `prev`, `succ` are the fields of the
  code, `alive` says which loggers are allocated. Adding is two steps, because the code
  reads `log_last` before it takes the mutex; removing is one; a log call holds the mutex
  over one step per logger. `order` remembers what the list ought to be, `stale` and
  `raced` which adds were overtaken, `broken` that a logger was removed with a wrong
  predecessor, behind which the model stops.
- `ReadUrl` - one call of read_url. `stage` is where it stands; `mine`, `limit` and `bufsize`
  are `needs_alloc`, `to_read` and `*bufsize`; a byte is its place in the file, so that a byte
  lost, doubled or moved shows. The functions of stdio and of FFmpeg differ in what they do
  with an int and with a failed read.
- `WebpDecoder` extends `ReadUrl`: the search for the backend, the decoder of the libwebp
  backend from open to close (an animation that was made and gives no information is
  closed twice, `GetInfoFails`), and the frame the caller hands in, which may be of another
  format, without a buffer, or compatible with longer lines. It uses two calls of read_url
  in a row, each of which may find another file.
- `PathShortener` - `sve4_log_shorten_path`: one iteration over the elements of the path is one
  step (`Element`), `at`, `buffer` and `over` are `path_ptr`, what is in the buffer and `overbound`.
  It has the off-by-one on absolute paths (the length that includes the separator, and so a
  `Nul` at the end of the last element), and is called with the size that `log_to_file`
  makes of a limit (`ShortenCall`). `cuts` remembers where each element was, where it is, and its sizes.
- `LogBridge` - FFmpeg's log callback in several threads, each with its FIFO, which drops a
  piece when it is at its limit or there is no memory (`starved` remembers whose). One line of a text is one step (`EndLine`), what is left of it the
  last (`KeepRest`). `wrote`, `with` and `ended` remember what came in and where each line ends in it.
- `StreamChooser` - the two choosers of `decoder.c` (`TypedIteration`, with the 16-bit offset that is
  counted down, and `DefaultIteration`, one stream per step), the list they choose from
  (`Stream`, from the demuxer) and `Accepted` (the check in `ffmpeg.c`).
- `RamFrame` - line sizes, equality of formats, and the loop that lays plane after plane behind the
  frame's header (`Plane`). `address` is where the frame begins: behind the header of the buffer, in a
  block that malloc aligned (`FrameCreate`).
- `Allocator` - `ImplMissing` completes a table of functions, `Allocate` is a call through it. A table
  holds names of functions, and what a call does follows from the name it finds (`NewBlock`, `Grow`): a
  function that stands in for another calls through the table, to a circle if the table has one (`Never`).
  A block is the sequence of where its bytes come from, so that copying too few, too
  many or none and forgetting to zero show.
- `MCPacketQueue`, `MCDemuxer`, `MCDecoderList`, `MCDecoders`, `MCCalls` - the instances TLC
  checks. `MCDecoders` puts `WebpDecoder` and `DecoderList` into one run, as they share nothing. `MCCalls` puts `Buffer` and the five modules above together, one at work at a time, as
  they share nothing, with every argument of small sets.
- `PacketQueue_proofs`, `PacketFifo_proofs`, `Demuxer_proofs`, `DecoderList_proofs`,
  `LogRegistry_proofs`, `WebpDecoder_proofs`, `Buffer_proofs`, `Calls_proofs` (the five modules that
  `MCCalls` puts next to `Buffer`) - theorems and their proofs.

The modules hold, before some definitions, variants of them with a plausible
mistake (named so). No run uses them; replacing the definition by its variant
makes the property that `PROJECT.json` names under "mutants" fail, which shows
that the property looks at something.

## Runs

| Run | Specification | What it shows |
|---|---|---|
| `PQDemuxer` | `Spec`, 3 threads, 3 packets, capacity 1, growth limit 2 | mutex held exactly in critical sections (`MutexHeld`), one owner per packet (`OneOwner`), no wakeup of a popper lost but to one that times out (`NoLostPop`), only forced pushes grow the FIFO (`GrowsOnlyByForce`), and the queue implements `PacketFifo` (`ImplementsFifo`), with clear and free in between |
| `PQBlocking` | `FairSpec`, 3 threads, 2 packets, capacity 1 | `NoLostPush`; a sleeper next to work wakes up unless it was passed over (`SleepersWake`); a call with a deadline returns (`TimedReturns`) |
| `DemuxSeeks` | `Spec`, 2 decoders of one of 2 streams, 2 packets, queues of 1, 2 seeks | `Ordered` (packets of one stream, none twice, in order, over timeouts and retries), `NoDrop` (none lost to a timeout), `Fresh` (no old packet once the file is sought), `SeekLands` (direct mode) |
| `DemuxLive` | `FairSpec`, 2 decoders, 1 packet, 1 seek, every fault | closing the last decoder ends (`ShutdownEnds`), a seek request is taken up (`SeekHandled`) |
| `Decoders` | `MCSpec`; libwebp: files of up to 7 bytes, pages of 2, header of 3, 3 frames; FFmpeg: 4 decoders, closes in any order, failing opens | libwebp: `BytesInOrder`, `NothingKept` (nothing leaks on any way through open and close, and the bytes are there as long as the animation), `Timeline` (times of frames over skips and seeks), `OpenEnds`. FFmpeg: list, reference count and queues agree while calls are those of the tests (`ListIsOpenDecoders`, `RefsAreHolders`, `QueuesReady`); `NothingLeaks` always |
| `LibraryCalls` | `MCSpec`, 3 threads, 4 references; 2 threads that log; calls with every argument | the buffer: `CountIsHeld`, `LiveWhileHeld`, `DestroyedOnce`, `FreedInTheEnd`; the calls: `ShortenedWell`, `LinesWhole`, `ChoosesStream`, `PlanesApart`, `FallbacksKeep`, each a definition of what the caller counts on that does not follow the code's loop |
| `LogCalls` | `FairSpec`, 2 threads, 3 loggers, 2 levels | the list is whole until a logger with a wrong predecessor is removed (`WalkIntact`), predecessors are right unless an add was overtaken (`PredecessorsRight`), each logger is handed what it ought to be (`Delivered`), none is used or linked to after its removal (`NoUseAfterRemove`), calls end (`CallsEnd`) |
| `DemuxLostSeek` | violation of `SeekNotLost` | see findings |
| `DemuxBlank` | violation of `BlankMeansEof` | see findings |
| `ListAnyOrder` | violation of `EmptyWhenDestroyed` | see findings |
| `ListFailedOpen` | violation of `FreedFirst` | see findings |
| `LimitZero` | violation of `ZeroTrimsNothing` | see findings |

Bounds, and why they do. A queue of one packet is empty, full, and full again
after one call, so each wait of push and pop is met within three calls; three
threads are the fewest for a sleeper, a thread that wakes it and one that gets in
between; a growth limit of 2 lets one forced push succeed and the next fail at the
limit. Two decoders are the fewest with which the thread starts; both on one stream
make a packet reach one and time out at the other. Two seeks are the fewest with which
a request arrives while another is carried out. `MaxSeeks` bounds only how many seeks
are asked for, `Handles` how many references there are at a time. The decoder list
has four decoders for one to fail between others that stay. Two threads are enough for
an add to be overtaken by an add or a remove, three loggers for a removal in the middle. A
file of seven bytes is three full pages and a short one; with an `INT_MAX` of 3 it is also
larger than an int can say, and the last frame's time stamp does not fit an int.
In `LibraryCalls` paths have up to 6 characters (`MaxPath`): three elements, the middle one empty or
not, absolute or not, with every limit a size_t of 3 bits can say (`SizeSpan`), the one
that wraps around included. Pieces of up to four characters with two ends of line, begun with no more than
four written before (`MaxPieces`), and FIFOs of 3
(`FifoLimit`) let one thread begin a line, another one get in between and the first end it, or meet the limit. Three
streams (`MaxStreams`) with offsets that wrap at 4 (`OffsetSpan`, for 2^16) go past the end and
round once. Three planes of widths 1 to 3 and heights 1 and 2, aligned to 1, 2 or 8 each,
behind a header of 3 bytes (`FrameHeader`) and one of the buffer of 6 (`BufferHeader`), in blocks aligned to 4
(`MallocAlign`), start aligned and unaligned, and meet an alignment that only the header breaks and one that neither keeps;
frames of more than 70 bytes (`MaxFrameSize`) are not made; blocks of 0 to 3 bytes (`MaxBlock`)
grow, shrink and stay. `SizeMaximum` is any index no stream has.
Deadlock is checked in every run; where a system comes to its end (all decoders
closed) `Finished` says so.

Fairness. In `PacketQueue` a thread inside a call goes on (`WF` of its steps: the
C code between two waits does not block); a mutex is not withheld for ever from one
who asks (`SF` of `Lock` and `Relock`: critical sections are short and the
operating system hands the mutex on); a deadline that exists is reached (`SF` of
`Expire`, because a spurious wakeup may interrupt the sleep). Nobody must call
anything. In `Demuxer` the packet thread goes on, as its pushes have deadlines,
and so does a close once entered; the callers of get_frame owe nothing. In `Buffer` a thread
that found itself last finishes unref. In `LogRegistry` a thread inside a call goes on and is not for
ever refused the mutex (`SF`: a walk is as long as the list, and callbacks return).
In `WebpDecoder` a call goes on until it returns (`WF` of `Inside`); the one way not to is excepted
in `OpenEnds` (`TooLarge`, see below). `LibraryCalls` has the fairness of `Buffer`.

## Findings

1. `DemuxLostSeek`: the thread stores -1 into `seek_request` after it has carried out
   the request it read before (`ffmpeg_demuxer_thread.c:145`); one asked for in between
   is gone, though seek returned success.
2. `DemuxBlank`: `ffmpeg_demuxer_thread.c:252-255` sets the pending flag after a packet was
   sent, with an emptied packet. The next round sends it as the end of file, and
   nothing is read any more until a seek.
3. `ListAnyOrder`: `add_decoder` (`ffmpeg_demuxer.c:188-190`) never sets `prev`. Closing
   the newest decoder first leaves the list in pieces; the destructor's assertion fails.
4. `ListFailedOpen`: a failed open closes its decoder in `open_decoder_inner` and again in its
   destructor (`ffmpeg.c:207-208`, `ffmpeg.c:125-130`), after the demuxer has gone.
5. `LimitZero`: `init.h:44` says of a path's limit that 0 is no trimming. `log_to_file` adds 1 for
   the terminator (`init.c:265`), and nothing of the path is left.

Met on the way, without a comment or test that says otherwise, and so only in the models and
under "hazards": from 2 GiB on ffmpeg_read_func asks avio_read for nothing and
goes round for ever (`ReadNothing`); a freed frame handed to webp_get_frame fails the
assertion of `libwebp.c:109` (`GetFreedFrame`); the first frame after a seek of an animation
starts where the last one before it ended (`Seek`); a compatible frame with longer lines
gets the picture's lines in the wrong places, from behind the end of the canvas (`ReadPastCanvas`); a codec drained at the end of the file
is never flushed; an add overtaken before it locks leaves a wrong predecessor (`AddRead`).
An open with a passed demuxer keeps the caller's reference or not, depending on where it fails (`OpenRefused`); a
decoder that was left alone and is joined again loses its FIFO with the packets in it (`Overwrite`), and a failing join takes
its queue away (`AddFails`); one added to an empty list while the thread runs gets none.
A signal that goes to a call which times out leaves another sleeper next to a packet or to room (`Signal`).
Planes aligned to more than the header of a buffer keeps (16 and more, with 24 bytes) are not, and the
greatest alignment, which `ram_frame.c:24-30` computes, is never used (`FrameCreate`).
A short absolute path loses the `/` it begins with, while one that is cut keeps it
(`ReturnShort`, `Element`). FFmpeg's fatal errors and panics are logged
as information (`Level`). A stream index equal to the number of streams is accepted
(`Accepted`). `calloc_based_on_grow` and `grow_based_on_calloc` can never be chosen
(`ImplMissing`), and the initialiser of an arena's allocator has no calloc at all.

Seen while reading, in code that no module covers or next to a property: when a read through FFmpeg
fails `*bufsize` stays what it was, though `read.h:21` says it is updated on return (`BytesInOrder` is about reads that succeed); `sve4_log_add_config` whose `mtx_lock` fails
keeps the configuration it has taken over (`init.c:151-165`); the front end's `get_frame` may be
passed no frame, which the FFmpeg backend does not look for.

The passing runs of the demuxer hold next to findings 1 and 2: what reaches a
queue is in order, fresh and never doubled, although the file is read only one packet
at a time between seeks.

## Proofs

`PacketQueue_proofs`, for any finite set of threads, any packets, capacity, growth limit and
calls (`ThreadsAssumption`, `PacketsAssumption`, `CapacityAssumption`, `CallsAssumption`):

- `Typing` and `MutexDiscipline`. The inductive invariant is
  `Safe == TypeOK /\ MutexHeld /\ Shape /\ Lifetime`. `Shape` is needed because a step of a
  thread depends on what its place says of its call (a popper about to read has seen a
  packet; that packet is still there because the mutex is held), `Lifetime`
  because free runs alone.
- `NoPopperMissesAPacket`. While a popper sleeps that was not passed over, each packet has a popper awake or a pusher about
  to signal. The proof follows the count through every action: a write adds a packet
  and a signaller, a signal trades a signaller for a popper awake, a read takes
  a packet and a popper, and a popper only falls asleep on an empty queue.
- `NoPacketShared`. `OneOwner` alone is not inductive: a write takes the packet from its pusher,
  so a pusher that has not written must still hold it (`PusherOwns`).
- `Backpressure`. A write makes the AVFifo grow only when it meets a full queue; that an
  unforced push does not is `RoomKept`: the room it saw in the test is still there,
  since whoever could fill the queue or replace it is kept out by the mutex.

`PacketFifo_proofs` goes on from there:

- `Refinement`: `Spec => ImplementsFifo`. The invariant `FifoInv` adds to the parts above `Refusals`
  (who gives up has a deadline, or is a forced push that still finds the queue full: in
  `PacketFifo` a call may fail only for such a reason) and `Emptied` (what is freed is empty, so that
  the mapping does not lose packets). Each action is then one step of `PacketFifo` or none.
- `NoPusherMissesRoom`: `NoLostPush`, for any calls: `clear`, free and a push that makes the FIFO grow by more than
  it takes leave a sleeping pusher untold of room, and so does a push that times out and takes a signal; nothing else does. The
  room in the queue plays the part the packets play for the poppers.

`Demuxer_proofs`, for any file, streams, decoders, capacity and number of seeks:

- `Typing`. `Typed` adds to `TypeOK` what the list holds (`Attached`) and what the place of the thread says
  of its context (`Control`): the thread has a request while it seeks, a packet
  while it sends, and never more seeks behind it than were asked for.
- `NothingStale`: `Fresh`. It needs `Cleared`: while the queues are emptied one by one those
  before the thread's place stay empty, since callers only take from them and only the thread puts in,
  and the packet at hand is never from before the seek.
- `InFileOrder`: `Ordered`. It needs `Behind`: whatever a decoder has is from before the place where
  reading goes on, and from before the packet at hand unless the decoder has
  that one already. This is what `lastIdx` is for, and why a packet sent again after a timeout
  is not doubled.
- `TimeoutsDropNothing`: `NoDrop`, assuming that no push fails for want of memory
  (`"push" \notin Faults`; the code drops the packet then). It needs `Passed`: whoever the loop is past has
  the packet at hand.
- `SeekNotBeyond`: `SeekLands`. It needs `Aimed`: without a thread, reading is never past the last target.

`DecoderList_proofs`, for any number of decoders: `ListCorrect`, `CountCorrect`, `NoLeak`, `QueuesThere`. `Inv` has the
parts that hold on every call (`Pointers`: `prev` is never set and `last` has no successor; `Counted`:
never more references than holders) and those that hold until a decoder is closed out of order or
an open fails (`Tidy`). `NoLeak` needs only the former, and `LostFew`, which counts the FIFO of a decoder that is alone and has one
as lost already: there is a decoder that closed for each.

`LogRegistry_proofs`, for any threads, loggers and levels: `Typing`, `ListWhole`, `OnlyRacesBreak`, `NoDanglingLogger`, `RecordsDelivered`. `Inv`
splits the list in two: `Whole` is about the pointers a walk follows, and holds until a
logger with a wrong predecessor is removed; `Backward` is about predecessors, and holds until
an add is overtaken. That those are two conditions is the point: a wrong predecessor alone does no harm.
`RecordsDelivered` says that the loggers a call was handed to so far are those, of the part of the list it has
walked, that take its level, in their order; the list stands still meanwhile, as the call holds the mutex.

`WebpDecoder_proofs`, for any file size, page, limit, header and time stamps: `Typing`, `FileReadRight`, `NoLeak`, `TimesFit`.
`ReadInv` has one part per stage of read_url (`Stages`): while pages are read they are full but
for the last (`Cover`), while they are joined the buffer is the beginning of the file and the pages the
rest. `Phases` says what is allocated at each point between open and close, `Times` that the time
stamp kept is that of the last frame unless a seek or an overflow was before.

`Buffer_proofs`, for any threads and finitely many references: `CountCorrect`, `NoUseAfterFree`,
`OneDestruction`, from one invariant in which the count equals the number of references,
so that a decrement that meets 1 leaves none.

`Calls_proofs` has an invariant for each of its loops, which says what the iterations so far have done:

- `PathsShortenedWell`, for any path, prefix, width of a size_t and limit but 0. `LoopInv`: each element behind the
  loop is as `CutElement` wants it (`CutSoFar`), and the buffer is full or reaches to where the next element goes.
  What holds it together is one equation: the place the next element gets, plus what is left of the path, is
  the bound plus what is still to be cut. At the end nothing is left, so a path with nothing
  left to cut fills the buffer exactly, and with it none of the writes that stop at its end has lost a character.
- `LinesStayWhole`, for any threads, texts, levels and limit of the FIFO, of threads that always had the memory. `BridgeInv`: `LinesWhole` with what its
  induction needs, that the ends of lines grow and lie within what was written. That a write to the FIFO is never dropped follows from
  `ShortLines`: what waits in it has no end of line, so it and what comes up to the next one are one line.
- `StreamIsTheChosen`, for any list of streams, chooser and width of the offset. `ChooserInv`: the offset left is
  the one given less the streams of the type passed, which are counted as a set (`TypedCounts`), and
  the loop would have stopped at the stream that makes it wrap.
- `PlanesKeptApart`, for any headers, alignment of malloc, width, height and alignments, as far as sizes are computed without overflow. `FrameInv`: the planes laid so far are
  apart and end where the size says. `AlignedUp` is what rounding up gives, `EqualFormats` that formats taken for equal
  have equal rows, the one thing that was split by format.
- `FallbacksActLikeLibc`, for any allocator that provides one of alloc, calloc and grow, any block (of no bytes, too) and any failure. The
  lemmas say for each table that `ImplMissing` can make what its functions return, through as many calls as it takes.

But for the premise of `TimeoutsDropNothing`, every proof rests on the named
assumptions of its module alone, which TLC evaluates in each run of it.
Every invariant and the refinement of a passing run is stated by a theorem. Only model-checked are
the liveness properties (`SleepersWake`, `TimedReturns`, `ShutdownEnds`, `SeekHandled`, `FreedInTheEnd`,
`CallsEnd`, `OpenEnds`), as TLAPS proves neither liveness under fairness nor `ENABLED`, and the violations.

## What is not modelled

- Failures of `mtx_lock`, `mtx_unlock` and `cnd_signal` on valid objects: the code logs them and
  goes on or returns; tinycthread does not produce them for valid objects.
- Undefined behaviour that leaves the model: two packet threads (two first
  callers at once), a caller asleep in a queue that is initialised again, calls on a
  freed queue. The guards that exclude them are commented where they stand.
- What follows the removal of a logger with a wrong predecessor, and callbacks that log
  (the mutex is not recursive).
- Frame contents and formats, and the time stamps of the FFmpeg backend; memory of cloned
  packets. What libwebp does with a corrupt file beyond failing.
- The lines that loggers write: formatting, colours, and the user data of a logger's configuration with
  its reference count.
- A demuxer whose last decoder closes while a failed open's reference is kept, in `Demuxer` (there the last close ends the thread;
  `DecoderList` has the reference).
- Sizes of frames that do not fit a size_t, or widths that do not fit the int FFmpeg takes: nothing in the code looks for them.
- Alignment beyond the greatest basic one in the allocators, and the arena behind its three
  functions, which is a vendored library.
- The still-image demuxer functions of the libwebp backend, which only ask libwebp, names of formats, sample
  formats and error codes, which are tables, and the loggers for terminals, GLFW and Vulkan, which only
  pass on.
- The components marked `not_modelled` in `PROJECT.json`.

## Plan

Done: the queue, the demuxer, the life cycle, the buffer, the registry, read_url and the libwebp
backend, the path shortener, FFmpeg's log callback, the choosers, the layout of frames and the allocators, each with its
runs and proofs.

What is left, in the order of what it would add:

1. `Demuxer` over `PacketQueue` itself instead of the FIFO it implements, for a file of two packets.
   The refinement makes this redundant for safety; it would show liveness of get_frame without a deadline.
2. The start of the thread as two steps, up to the point where two threads run.
3. The arena's blocks, once its library is part of the repository.
4. Safety lemmas of the liveness properties: that a step which fairness promises is possible where it is needed, said
   without `ENABLED` (a guard that holds), for the shutdown of the packet thread and for opens of the libwebp backend.
