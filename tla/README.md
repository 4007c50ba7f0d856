# Specifications of video_player_core

`video_player_core` plays a media file: FFmpeg reads and decodes it, libgo
coroutines move packets and frames along bounded queues, a clock decides when
each video frame is due, and SDL's audio thread plays the sound. This directory
models that pipeline in TLA+, checks it with TLC and proves the parts everything
else stands on with TLAPS.

- [The system](#the-system)
- [Modules](#modules)
- [Runs](#runs)
- [What the runs found](#what-the-runs-found)
- [Proofs](#proofs)
- [Abstractions](#abstractions-and-what-is-not-modelled)
- [Plan](#plan)

## The system

| Component | State | Operations | Talks to |
|---|---|---|---|
| `AudioRingBuffer` (`include/audioringbuffer.h`) | two atomic positions, `buf_` | `begin_write`/`end_write`, `begin_read`/`end_read`, `write`, `read`, `reset` | every queue below is one |
| `WaitGroup` (`src/waitgroup.cpp`) | atomic `counter_`, coroutine mutex and condition variable | `Add`, `Done`, `Go`, `Wait` | starts and joins every coroutine |
| `ClockSync` (`src/clocksync.cpp`) | three clocks (`startPts`, `currentPts`, `isDisabled`), `type` | `calVideoDelay`, `calAudioDelay`, `updateVideoPts`, `updateAudioPts`, `reset`, `getMasterClock` | shared, without a lock, by the video, audio and reading coroutines and SDL's thread |
| `Decoder` (`src/decoder.cpp`) | packet queue, codec, `_isAlive` | `open` (starts the coroutine), `close`, `write` | calls its owner's `onFrame` |
| `Video` (`src/video.cpp`) | frame queue (one element), `_isAlive` | `open`, `close`, `write`, `_displayThread`, `_present` | decoder, clock, `onEof` |
| `Audio` (`src/audio.cpp`) | frame queue (seven elements), channel ring, `_isAlive`; static: device, count, channel set, messages | `open`, `close`, `write`, `_displayThread`, `_audioCallback` | decoder, clock, SDL, `onEof` |
| `Play` (`src/play.cpp`) | `_isAlive`, `_isPaused`, `_isLoop`, locals of `_readThread` | `start`, `stop`, `setIsPaused`, `_readThread` | all of the above |
| `Log` (`src/utils/log.c`) | one buffer, the writer thread, the file | `_log`, `LOG_CONFIG`, `writeThread`, rotation | called from everywhere |
| `Delegate` (`include/utils/Delegate.h`) | copy-on-write method list, retired lists | `=`, `+=`, `-=`, call | the events of `Play` |

Data flow: `_readThread` reads a packet and writes it to the packet queue of its
stream's `Decoder`. The decoder's coroutine hands each frame to the frame queue of
`Video` or `Audio`. `Video::_displayThread` takes a frame, asks the clock how long
to wait, and shows or drops it. `Audio::_displayThread` fills chunks of the
channel, and SDL's callback takes one chunk each time and sets the audio clock.
A null packet, then a null frame, marks the end of the file; when every stream
has reported it, the reader seeks back and starts again. `stop()` clears a flag
and waits for the reader, which closes the streams one after the other.

What is hard here: seven threads of control with polling loops that wait for one
another (queue full, queue empty, clock not started, channel not drained); flags
read by some loops and not by others; a clock object without any lock; a restart
that resets shared state while coroutines hold it; and failures half way through
`open`. `PROJECT.json` lists these hazards at their lines.

What makes each component correct:

- ring: a bounded FIFO; a region handed out is never touched by the other side;
- wait group: a barrier, without lost wakeups, reusable round after round;
- clock: starts once, never runs back, and never makes the streams wait for each
  other for ever;
- player: frames once and in order, the end reported last, a clean restart, no
  frame ahead of the sound, `stop()` returns and leaves nothing behind;
- log: an error is in the file when `_log` returns, the record is whole messages
  once and in order, rotation keeps the latest, one writer thread at most;
- delegate: to its user one sequence of methods; a list in use is never freed, and
  no list is forgotten.

## Modules

| Module | Models | How |
|---|---|---|
| `BoundedFifo` | what users of a ring rely on | abstract specification: `Put`, `Get`, `Clear` |
| `RingBuffer` | both ring classes | one action per access to the other side's position or to an element |
| `RingBufferProofs` | | theorems about `RingBuffer` |
| `WaitGroup` | `WaitGroup` | one action per access to the counter or operation on the mutex |
| `WaitGroupProofs` | | theorems about `WaitGroup` |
| `ClockSync` | `Clock`, `ClockSync` | each method an operator on the clock object |
| `ClockThreads` | the same methods, member by member | three threads, one action per access to a shared member |
| `Decoder` | `Decoder` and the two frame sinks | variables are functions of the stream |
| `Video`, `Audio` | the display coroutines and SDL's callback | extend `Decoder` and `ClockSync` |
| `Play` | `Play` | extends `Video` and `Audio`: the composition |
| `PlayProofs` | | theorems about the player's state: types, bounds, shutdown |
| `PipelineProofs` | | theorems about what travels through `Play`: order, end, memory, synchronisation |
| `ClockThreadsProofs` | | theorems about `ClockThreads` |
| `Log` | `log.c` | callers, the writer thread and the mutex, step by step; the buffer and the files are sequences of pieces |
| `LogProofs` | | theorems about the threads of `Log` and its errors |
| `LogRecordProofs` | | theorems about what `Log` has written, and which files hold it |
| `DelegateList` | what users of a delegate rely on | abstract specification: a sequence of methods, and calls that have some of them still to invoke |
| `Delegate` | `_Delegate`, `_Delegate_S` | lists and arrays at addresses, with their reference counts; the class is a variable |
| `DelegateProofs` | | theorems about `Delegate` |
| `MC...` | | small instances for TLC |

A coroutine is a variable that says where it is (`reader`, `decoder`, `display`,
`mixer`), `"none"` when it is not running. A polling loop (`while (!queue.read())
co_sleep(10)`) is an action that is enabled when the poll succeeds; where the loop
itself changes state (`calVideoDelay` starts the clock, then says "early") the
action covers one turn of the loop. The constants of `Play` say what the file is
and what the environment does: `File`, the packets in reading order;
`VideoOpens`, `AudioOpens`, how opening each stream can end; `CanStop`, `CanPause`, `CanFail`.

Layering: `RingBuffer` implements `BoundedFifo`, and `Decoder`, `Video` and
`Audio` use sequences of bounded length with the same put and get; `WaitGroup`
shows that `Wait()` returns only when the tasks have ended, and `Play` writes
`_wg.Wait()` as a guard on the coroutine being `"none"`. `ClockThreads` looks into
the clock methods that `Play` takes as single steps.

`Log` and `Delegate` stand alone: the player uses both, but nothing it does depends
on what they do. In `Log` a message is two pieces, its heading and its text, because
`_log` pushes one after the other and takes both back from the buffer when the
message is only printed. `flushBuffer` runs inside the mutex; it is one action up
to the write and two more for a rotation, because the process may end in between.
`EndProcess` forgets the memory and keeps the files. In `Delegate` a change is two
steps: it builds a list (`edit`), then `SetMethodList` installs it and deletes what
is not in use. With `_Delegate` (one thread) nothing happens between the two; with
`_Delegate_S` calls go on in other threads. `Delegate` implements `DelegateList`
under the mapping `methods <- Content(current)`.

History variables, which no action reads: `shown` and `heard` (frames shown or
dropped, samples played, in this pass of the file), `livePackets` and `liveFrames`
(allocated and not freed), `lost`, `awaited` in `WaitGroup`, and in `Log` `logged` (the level of each message),
`written`, `returned`, `lost` and `faults` (what failed; it bounds the failures).

## Runs

| Run | Config | Checks | Instance |
|---|---|---|---|
| `ring_mixed` | `RingBufferMixed` | `TypeOK`, `RegionsSafe`, `CopyNotOverwritten`, `RefinesFifo` | 4 elements, batches of 1 to 3, two values |
| `ring_blocks` | `RingBufferBlocks` | `WriterServed` | 8 elements in blocks of 2, one value |
| `waitgroup` | `WaitGroup` | `TypeOK`, `WaitMeansDone`, `CounterExact`, `NoLostWakeup`, `WaitReturns` | 3 tasks, 2 waiters, 2 polls |
| `clock_threads` | `ClockThreads` | `ThreadsTypeOK`, `StartsOnce`, `AudioTimeNeverBack`, `AllPlayed` | 3 frames, 4 chunks, different first times |
| `clock_init` | `ClockThreadsInit` | `ClocksInitialised` **violated** | the same |
| `play_loop` | `PlayLoop` | `PlayTypeOK`, `PlaysInOrder`, `EofIsLast`, `VideoFollowsAudio`, `NothingOutlivesReader`, `FreedOnce`, `RestartsClean` | 4 video and 3 audio packets; loop, stop, pause, failures, a missing device |
| `play_live` | `PlayLive` | `StopTerminates`, `PlaysOn` | both streams, `stop()` at any time |
| `play_origin` | `PlayOrigin` | `SameOrigin` **violated** | the video begins later than the audio |
| `play_stop_video_only` | `PlayStopVideoOnly` | `StopTerminates` **violated** | 5 video packets, no audio stream or no SDL |
| `play_on_audio_only` | `PlayOnAudioOnly` | `PlaysOn` **violated** | 3 audio packets, no video |
| `log` | `Log` | `LogTypeOK`, `ErrorsWritten`, `RecordFaithful`, `FilesHoldLatest`, `OneWriter`, `WarningsWritten` | 2 callers, 3 messages, one kind of failure or a crash |
| `delegate` | `Delegate` | `DelegateTypeOK`, `Accounted`, `NoUseAfterFree`, `KeepsOnlyUsed`, `RefinesDelegateList` | both classes, 2 methods, lists of up to 5, 2 calls, 3 lists and 3 arrays |

### Bounds, and why they are enough

- *Ring.* With four elements and batches up to three, batches meet the end of the
  buffer at every offset, a full ring is reached, and the writer comes round to
  where a slow reader still copies. Two element values are enough to tell a stale
  element from a fresh one. Nothing in the specification depends on the size;
  the proofs cover every power of two. `WriterServed` needs no values.
- *Wait group.* Three tasks allow a round with two tasks and a straggler of the
  round before; the second waiter calls `Wait()` at any time, which the owner's
  own use never does. Two polls instead of 64 reach the slow path; each poll is
  the same step. A task object is used once, so the number of tasks bounds the
  rounds.
- *Clock.* The streams differ in their first time, and the channel (two chunks)
  fills before the video is due.
- *Player.* `PacketCap` 2 instead of 2047, `FrameCap` 1 for video (the real
  value) and 2 instead of 7 for audio, `ChannelCap` 2 instead of 7: each queue is
  shorter than its stream, so each of them fills and blocks its writer. A codec
  keeps one packet before it gives a frame, which is the smallest delay that
  makes draining at the end matter. A frame has three samples and a chunk four, so
  that chunks begin in the middle of frames, frames are cut in two, and three frames
  leave a last chunk with one sample. Time (`now`, in frame durations) is bounded
  by `MaxNow` in each pass, which is past the last frame.

- *Log.* Three messages let one be buffered, the next rotate the file and a third
  arrive while the writer thread ends; each has one of the levels 0, 3, 4 and 5,
  which are the four ways through `_log` (level 1 ends the process like 0).
  A file is too large after one message, and one backup is kept, so that the second
  rotation finds a backup and the third deletes one. The writer thread may end after
  two flushes instead of 120; every flush is the same step. One kind of failure
  (`open`, `write`, `partial`, `rename`, `thread`, `crash`) per behaviour, any
  number of times.
- *Delegate.* A first array has room for four methods, so five fill it and grow it.
  Three lists are the current one, a retired one that a call uses, and the one a
  change builds. Two calls nest, or run in two threads. Lists of more than three
  methods are explored further only while no call runs (`ShortLists`), and addresses
  are interchangeable (`SYMMETRY`); the run checks no liveness.

`clock_threads` and `clock_init` do not check deadlock, because their file ends,
nor does `log`, because its messages are used up. All other runs do.

### Fairness

`WF` on the steps of each coroutine: libgo runs every runnable coroutine, and all
of them wait with `co_sleep` in polling loops, so that an action that stays
enabled is found by a later poll. `WF` on the callback: SDL calls it as long as
the device is open and not paused. `WF` on `Tick`: time passes. `WF` on
`StopReturns`: a caller of `stop()` that can go on does. The user is under no
fairness: `start`, `stop` and `setIsPaused` need never happen, and a reading
error neither. In `WaitGroup`, every task is assumed to end and the mutex is
*not* assumed fair: `WF` on a waiter is enough because a task takes the mutex once.
In `Log`, `WF` on the writer thread and on each caller inside `_log`: they are
threads, and each holds the mutex for a bounded time; nobody is obliged to log. `Delegate` has no fairness.
In `RingBuffer` the writer's retry and the reader's polling go on for ever; no one
is obliged to call `write` at all.

## What the runs found

1. `play_origin`: `calVideoDelay` means to give both streams one origin, and its
   call of `updatePts` cannot do that, because `startPts` is set already.
2. `clock_init`: a video frame can be timed against a clock whose second member is
   not set yet; the delay is then NaN, and the frame is shown at once.
3. `play_stop_video_only`: a file without audio freezes after its first frame, for
   its clock moves only when a frame is shown. `stop()` then never returns:
   `Video::close` joins the decoder, which waits for room in the frame queue,
   before it tells the display coroutine to end. The same happens when SDL cannot
   be initialised: `Audio::open` returns -1, which is true, so the stream counts as
   opened and the video waits for an audio clock that nothing starts.
4. `play_on_audio_only`: `ClockSync::reset` forgets which stream is disabled, so in
   the second pass of a file without video the audio waits for the video.

The passing runs show the rest of what one would hope for: with both streams the
pipeline keeps order, ends cleanly, restarts cleanly and stops; the log loses no
error; a delegate can be changed from inside its own call.

Some of what they show is narrower than one might think, and the properties say so:

- `WarningsWritten` asks for a flush to come. A warning logged after the writer
  thread's last flush and before it clears `_thread` (`log.c:191`, `222`) stays in
  memory until somebody logs again.
- `FilesHoldLatest` allows `MaxBackups + 1` renamed files besides `log.txt`:
  `cleanDirectory` counts before the rename and deletes only when there are more
  than `_maxBackups`. `log.h:31` speaks of `maxBackups` as the maximum.
- `RecordFaithful` excepts a write that stops half way (`log.c:268`): the bytes kept
  are the first of the buffer, so some are written twice and others never.
- `VideoFollowsAudio` counts a frame from the first frame and a chunk from the first
  sample, because the clocks do (finding 1): with streams that begin at different
  times, frames are shown earlier or later than the sound of the same time.
- After a failed `fopen` the file has a name and is never opened again.
- `OneWriter` needs the first call of `_log` to be alone, or `LOG_CONFIG` before it
  (`log.c:81`). The player calls `LOG_CONFIG` nowhere.
- `_Delegate_S` keeps every list it ever had until `TrimExcess`, which is only
  correct while no call runs; `Delegate.h:716` calls the class thread-safe.

## Proofs

Every safety property that a passing run checks on one instance is also proved, for
every value of the constants; so are both refinements.

**Ring.** Assumption `RingAssumption`: the capacity is a positive power of two
(the `static_assert` and the constructor's check), batches are not empty. The
invariants as stated are not inductive: that the writer's region is free follows
from what the writer saw when it asked, so the inductive invariant adds that the
batch still fits (it fits because only the reader moves the other position, and
that only makes room), and symmetrically for the reader. The arithmetic modulo the
capacity is kept in a few lemmas on `%`, which the step proofs cite. The
refinement then maps `end_write` to `Put`, `end_read` to `Get`, `reset` to `Clear`,
and every other step to a stutter. An `end_read` needs the reader's copy to be the
head of the abstract queue, which is `CopyNotOverwritten`; a stored element must be
outside that queue, which is `RegionsSafe`.

**Wait group.** Assumptions: finitely many tasks, the owner is a waiter. The
inductive invariant adds to the properties that a waiter between its predicate
and its sleep holds the mutex (`MutexHeld`), that such a waiter, too, is covered by
a notification still to come (`WakeupCovered`), and that the tasks a waiter awaits
are pending (`AwaitedIsPending`). `CounterExact`
rests on two lemmas about the cardinality of the pending tasks.

**Clock.** `ClockThreadsProofs` proves all safety properties of `clock_threads`, for
any frames, any nondecreasing chunks and any capacity. Two threads test
`audio.startPts` and assign it later, and no lock keeps them apart. The invariant
says what does: as long as the audio clock has not started, or its second member is
not yet set, no chunk was ever handed over (`Silent`), so the callback has nothing
to play. `Behind` says that the channel holds the chunks handed over last and that
the clock has not passed the first of them; with the chunks nondecreasing, the clock
never runs back. `ThreadsAssumption` states this of the chunks.

**Player.** `PlayProofs` proves `PlayTypeOK` and `NothingOutlivesReader`, for every
file, every capacity, every codec delay and every cut of frames into chunks.
`PlayAssumption` says that the file is a sequence of packets of the two streams, and
that capacities and chunk sizes are positive; `Null` and `NaN` are not times. The
types contain the bounds of the queues. That the channel is never overfilled needs
what `MixerOK` adds: while a chunk is being filled, even across frames, its place in
the channel is still free, because only the coroutine that fills it adds to the
channel. The second theorem follows from `Closing`, the order in which streams are
closed: after `JoinDecoder` nothing enters the stream's queues again, after
`JoinDisplay` nothing enters the channel, the video stays closed while the audio is
being closed, and a step of any coroutine shows that its stream is not closed yet. It
covers every way into the shutdown: a file that did not open, a device that is
missing, `stop()`, a read that failed.

`PipelineProofs` says what is in the pipeline. The k-th element of a stream is its
k-th packet, and one more stands for the null packet. The invariant (`LineInv`)
states that at any time the elements read and not yet shown or heard lie without a
gap, in their order, in the frame queue, the decoder's hands, the codec, the packet
queue and the reader's hands (`DecoderLine`); what was shown is the part of the line
before them (`VideoLine`), and for the audio the samples heard, in the channel, in
the chunk and in the frame at work add up to the frames taken (`ChannelLine`,
`MixerLine`). Each step moves an element from one place to the next, so that the line
stays what it is. The null packet is last in the line, so whoever takes it has
taken everything: this gives `EofIsLast`, and at a restart, where both streams have
reported their end, empty queues (`RestartsClean`). `Accounts` says that the
packets and frames allocated are those that lie somewhere, which gives `FreedOnce`.
`Handled` says which streams the reader serves, in particular that a stream without a
coroutine is not written to unless it is being closed.

`VideoFollowsAudio` adds what the clocks say (`ClocksInTime`): each starts with the
first time of its stream; nothing enters a chunk before the audio clock has started;
from then on it shows the chunk heard last, and until one is heard its own start. That
the callback plays chunks that begin where full chunks ended (`HeardFull`) holds
because only the last chunk of the file is handed out before it is full. The theorem
assumes nothing of the times in the file: not that they increase, nor that the
streams begin together.

**Log.** `LogProofs` proves `LogTypeOK`, `OneWriter` and `ErrorsWritten`, for any
callers, levels, sizes and bounds. `OneWriter` is inductive with the typing, what
the states of a caller say about `isInit`, and that everybody else is outside the
critical sections. `ErrorsWritten` adds where the pieces of a message are while
its caller is on its way: in the buffer until the flush, then in `written`.

`LogRecordProofs` proves the other two. `FilesHoldLatest` is almost inductive: it
lacks that between the deletion and the renaming of a rotation there are at most
`MaxBackups` renamed files (`DiskInv`). The work lies in the operators: that the files
joined in the order of their names keep their content when a file is renamed, and
lose just their head when one is deleted, needs `FlattenSeq` of a sequence with one
element more or less. Its definition is a recursive function; that the function
exists and is unique is shown with a least counterexample (`Least`), since induction
as the library states it cannot be used here. `RecordFaithful` follows from `Faithful`: at
odd places of `written \o buffer` there are headings, each followed by its text, with
growing numbers; while a caller has pushed one piece of its message, that piece is
the last of the buffer, so that taking back what was only printed takes nothing else;
a flush, and the end of the process, cut the record at an even place.

**Delegate.** `DelegateProofs` proves all properties of the run, for both classes and
any number of calls, lists, arrays and methods; `DelegateAssumption` says that lists
and calls are finitely many, as memory is. The first invariant (`IInv`) says that
the count of a list that some call uses is above one in a `_Delegate`, so that
`SetMethodList` retires it, and that in a `_Delegate_S` it is the current or a
retired list, which nothing deletes while calls run: `NoUseAfterFree` and
`KeepsOnlyUsed`. The second (`MemInv`) describes memory: a list that is kept is a
prefix of its array, an array counts the lists it belongs to, has room for what was
pushed into it, and what is free is empty: `DelegateTypeOK` and `Accounted`. For the
refinement each of the ways to build a list is shown to produce the sequence that
the abstract change asks for (`Makes`), whether the new list shares the array, forks
it or grows it, and to leave the content of every other kept list as it was; the
removals need that the last occurrence of a method exists, the maximum of a bounded
set. `SetMethodList` then maps to `Change` or `ChangeBySelf`, a call and its steps to
`Call` and `Invoke`, and everything else to a stutter.

Only model-checked: liveness (`WriterServed`, `WaitReturns`, `AllPlayed`,
`StopTerminates`, `PlaysOn`, `WarningsWritten`), which is out of reach of the prover,
and the properties that the code violates.

## Abstractions, and what is not modelled

- *Samples.* A sample is the time of its frame, and all frames have the same number
  of them. `Audio::_displayThread` cuts frames into chunks as in the code, and hands
  out the last chunk only partly filled; the samples that an earlier chunk left
  behind its end, which SDL plays as well, are not modelled. The time of a chunk is
  rounded down to that of the frame it begins with.
- *The channel's `reset`* (`audio.cpp:159`) is one step in `Audio`, although SDL's
  thread may run in the middle of it and then find chunks that were never written.
  This is the most important gap: what the runs of `Play` say about the end of a
  file and about a restart holds only without that race. See the plan.
- *Clock methods are single steps* in `Play`; `ClockThreads` is there for what
  happens inside them.
- *Time* advances only while the absolute clock is followed, as nothing else reads
  it. Sleeping is not modelled: a sleeping coroutine may run at any time.
- *A delay* is early, due or late.
- *Codec, file and device* are external: a codec gives the packets' times back in
  order after a delay; a file is a sequence of packets. `av_read_frame` may fail
  when `CanFail`, or once `stop()` was called, through `_interruptCb`.
- *A missing initialiser* (`_isAlive` of `Video` and `Audio`) is an arbitrary value
  in `Init`.
- *Memory order.* Steps interleave. For the ring, releases and acquires justify
  that; the relaxed load in `WaitGroup::Wait` and the plain `int` flags are taken
  as if they were ordered.
- *Log.* Times, labels and places are one heading. A message longer than 512
  characters, for which `_log` writes past what it counted, is left out, and so are
  `LOG_CONFIG` with new settings while the logger runs, two rotations in one
  millisecond, and a directory that cannot be listed. The file system keeps what
  `fflush` gave it.
- *Delegate.* A method is its identity, `(pObject, pMethodAdress)`; memory is never
  exhausted, except by the bounds. Not modelled: two delegates that are assigned to
  each other in two threads (each reads the other's `_current` without its lock);
  two editors of a `_Delegate_S` over `NullMutex`, the default alias, which lose
  each other's changes; calling an empty delegate, which dereferences null and which
  `Play` prevents by installing methods first.
- *Not modelled:* what `_present`, the resampler and the mixer do to pictures and
  samples; volume, pixel format and the setters with empty bodies; the cursor
  event; the audio device shared by several players; the thread macros, beyond what
  `Log` uses of them; the test program; the build.

## Plan

What is left, in order:

1. `AudioChannel`: the channel with the real ring positions and the content of its
   chunks, the frame that is its own `out`, and `reset` as two stores and a `memset`
   against the callback.
2. `AudioDevice`: the static state of `Audio` with several players: the device
   count, the messages that add and remove channels, each early return of `open`.
3. `Sizes`: `next_pow2` against its definition, and the block sizes derived from it.
4. Proofs about these: that the ring `Play` takes as a sequence and the one of
   `RingBuffer` agree in `AudioChannel`, and that the device's count is the number of
   channels in `AudioDevice`.
