# RollForge: a verification development

RollForge is a desktop drum machine in C++/JUCE. Its difficult parts are not in
the sound but in the hand-offs: a message thread that edits patterns, kits and
takes, an audio thread that plays them without ever locking or allocating, a
30 Hz timer that keeps the two in step, a worker that fills the sample library;
and in the timing of what is played, block by block. This directory holds TLA+
modules of those, TLC configurations that check them on small instances, and
TLAPS proofs of what matters most.

Paths below are relative to the repository's `src/`.

## 1. Inventory

### Threads

| Thread | What runs there |
|---|---|
| message | every click and key, undo, loading, kit installation, and `MainComponent::timerCallback` at 30 Hz |
| audio | `AudioEngine::audioDeviceIOCallbackWithContext`: `InputRecorder::writeBlock`, `BeatboxDetector`, `Sequencer::process`, `DrumEngine`, the master bus |
| MIDI | `AudioEngine::handleIncomingMidiMessage`: `DrumEngine::pushMidiTrigger`, `MidiCaptureQueue::push` |
| device | `audioDeviceAboutToStart` / `audioDeviceStopped`, between two runs of the audio callback |
| watcher | `FolderWatcher::run`: finds and analyses samples, leaves rows for the message thread |

### Components

| Component | State it keeps | Operations | Right when |
|---|---|---|---|
| `engine/TripleBuffer.h` | three buffers, three indices, a flag | `writeBuffer`+`publish`, `read` | the reader never sees a half-written buffer; at rest it has the newest |
| `engine/Sequencer` | active and queued pattern, mode, transport atomics, clock, pending events | `setPattern`, `queuePattern`, `requestReset`, `setPlaying`, `process`, `prepare` | the last request wins; a queued pattern lands on a bar line; every event fires once |
| `engine/Clock` | sample counter, next step, base | `setTempo`, `reset`, `prepare`, `processBlock` | no step lost, moved or repeated by a tempo change |
| `engine/Sequencer`: events | pending buffer, cursor, transport telemetry | `generateStepEvents`, `addEvent`, `renderWithEvents` | every hit once, at its sample, whatever the blocks |
| `engine/DrumEngine`, `VoicePool`, `Voice` | pad slots, voices, solo/mute flags | `handleCommand`, `triggerPadNow`, `renderInto` | voices are stolen and choked as specified; nothing is freed on the audio thread |
| `engine/CommandQueue` | FIFO of `EngineCommand` | `push`, `drain` | in order, none lost unless full |
| `engine/SampleBuffer`, `SampleRetirementPool` | reference counts, retired buffers | `retire`, `sweep` | freed once, by the message thread, when nobody plays it |
| `engine/InputRecorder` | buffer, `armed`, `writing`, `written`, `full` | `start`, `stop`, `take`, `prepare`, `writeBlock` | a buffer is never read while it is written; a take is the take |
| `engine/MidiCaptureQueue` | notes, drop count | `push`, `drain`, `clear` | bounded; drops are counted |
| `model/Song` | chain, loop | `stepAtBar`, `slotAtBar`, `totalBars` | the chain, unrolled |
| `model/Pattern`, `PatternBank`, `Lane`, `Step` | steps, lanes, slots | edits, clear, triplet partition | every lane step starts in one global step |
| `model/Capture`, `RollCompiler`, `Variator`, `FillEngine`, `Humaniser`, `MidiExporter` | none (pure) | hits to steps, rolls to events, variations, a MIDI file | within bounds, ordered, nothing dropped silently |
| `model/ProjectIO`, `app/Autosave` | files | save, load, recovery | what is loaded is what was saved |
| `library/KitInstaller` | kit | `installSampleIntoPad`, `installLayersIntoPad` | engine and kit agree |
| `library/LibraryDb` | rows, corrections, watched folders | `upsert`, `setCategoryOverride`, `addWatchedFolder`, `removeWatchedFolder`, `all` | what was written survives; a correction is never overwritten |
| `library/FolderWatcher` | folder list, seen paths, waiting rows, `busy` | `start`, `addFolder`, `removeFolder`, `poke`, `run`/`scanOnce`, `drainIntoDb`, destructor | every file arrives, once; no wake-up is lost |
| `library/SimilarSearch`, `ui/BrowserPanel` | corpus, dirty flag; list, counts of its last tick | rebuild, refresh, re-tag | both catch up with the database |
| `ui/MainComponent`: slots | bank, current slot, grid, pending switch, evolve, song | select, edit, undo, copy, clear, load, evolve, song, timer | no work lost; the screen is what plays |
| `ui/MainComponent`: capture, `ui/TransportBar` | REC, source, take | `setCapturing`, taps, drain, auto-disarm | a take is what was played for it |
| `ui/NoteRepeat` | held pad, timer | on, off, rate | stops when released |

### How they meet

- `MainComponent` hands a pattern to the `Sequencer` through a `TripleBuffer` and
  one mode flag. It learns that a queued one has landed by polling
  `getSwitchCount()` in the timer.
- Clicks, EVOLVE and the song chain share that one channel and one `pendingActive`.
- `KitInstaller` holds buffers in the kit, retires those it replaces, and pushes
  raw pointers through `CommandQueue`; the timer sweeps.
- The sequencer's events, the user's auditions and choke groups all end in
  `VoicePool::trigger`, in the middle of a block.
- `FolderWatcher` leaves analysed rows behind one lock; the main timer writes them
  and decides when to rebuild the search; the browser's own timer decides when to
  re-read the list. All three look at `isBusy()` and `pendingRows()` separately.
- REC is split over `TransportBar` (button, source), `MainComponent` (take, undo
  transaction), `MidiCaptureQueue`, `InputRecorder` and the timer.

### What is hard

Steps of two threads in any order (triple buffer, recorder, hand-off); values
read now and acted on 33 ms later (switch count, playhead); state that must be
parked before it is replaced (slots, takes); queues at their limit (commands,
notes, recording, pending events, voices); roundings that must agree between the
engine, capture and export; a quit or a crash between claiming a file and writing
its row; things that must end (a queued switch, a spin, a retired buffer, a file
on its way into the library). `PROJECT.json` lists each hazard at its line.

## 2. Plan

Done:

1. `TripleBuffer`, then `PatternChannel` and `Sequencer` on top of it.
2. `Song`, `SlotSwitch`: the slot protocol, song mode and what a save captures, over
   `PatternChannel`.
3. `SampleReclaim`: lifetimes across kit, queue, pads, voices and pool.
4. `InputRecorder`, `CaptureSession`: the microphone's handshake and the take.
5. The event path: `LaneGrid`, `StepClock`, `VoicePool`, `Capture`, `MidiExport` by
   themselves and together in `StepEvents`, which implements `StepClock`.
6. The library: `LibraryDb`, `FolderWatcher` and `Library`, with a quit or a crash
   between any two steps.
7. Proofs about all of them: eight modules.

What would come next:

8. `NoteRepeat`; the replacement of the project's and the recovery's file.

## 3. Modules and the code

**TripleBuffer** (`engine/TripleBuffer.h`). One action per atomic access:
`PublishSwap` and `PublishFlag` are the two lines of `publish()`, `ReadFlag` and
`ReadSwap` the two of `read()`. The non-atomic copies into `writeBuffer()` and out
of `read()`'s result have a beginning and an end (`BeginFill`/`EndFill`,
`ReadCopy`), in between which a buffer is `Torn`. A buffer's contents are the
number of the version in it.

**PatternChannel**. What `Sequencer.h` says of its hand-off: one request slot,
one active pattern, one waiting pattern. Abstract: `Sequencer` implements it,
`SlotSwitch` uses it as the engine.

**Sequencer** (`engine/Sequencer.cpp:37-148`, `ui/TransportBar.cpp:108-120`). The
message thread's `setPattern`/`queuePattern` are a buffer fill, a publish and a
mode store; the audio thread's `process()` takes the reset, loads `playing`,
exchanges the mode, reads the buffer, settles and fires steps. `incoming` is
`INSTANCE TripleBuffer` on the module's own variables.

**LaneGrid** (`model/Lane.h`). Which steps of a straight or a triplet lane begin
in a 1/16 step, and where. Doubles are exact rationals. A lane's length is any
integer, because `ProjectIO.cpp:109` loads it as it stands: `LaneLength` is what the
exporter and capture make of it (1 to 64), while the engine skips a lane whose length is
below 1 (`Sequencer.cpp:165`).

**StepClock** (`engine/Clock.{h,cpp}`). A step's length is a number of half samples,
so that `llround` has halves to round. `BeginSteps`, `AdvanceStep` and `EndSteps`
are the loop of `processBlock`; `SetTempo`, `Reset` and `PrepareClock` its other
callers. Histories remember where the last step fell, and at which tempo.

**VoicePool** (`engine/VoicePool.{h,cpp}`, `engine/Voice.{h,cpp}`). A voice is the
frames it has left and the sound it was started with: frames, attack, release, and
gain times velocity. `Level` is `getLevel()`: the envelope at the last frame
rendered, times the latter. `Trigger` is choke, then a free voice or the quietest,
the oldest of several. A render that ends on a voice's last frame leaves it active,
at the level of that frame, and the next one stops it (`Voice.cpp:153-156`), so a
sound without release that has ended may outrank one that still plays. The history
`sounding` is the policy without slots: the notes that should be held.

**Capture** and **MidiExport** (`model/Capture.cpp`, `model/MidiExporter.cpp`).
`Quantise` and `Merge`; the notes of an exported pattern, each with the hit it
stands for. The exporter knows nothing of probability, of mute and solo, or of swing
and humanise, and gives a lane of no length one step. (`Capture.h:69-71` says that a captured hit clears what was programmed on
its step; `merge`, `Capture.cpp:54-59`, does so only on a step that is off, and the
module follows `merge`.)

**StepEvents** (`engine/Sequencer.cpp:37-314`, `DrumEngine.cpp`). What one pattern
plays. Each atomic that `process()` reads is a step (`TakeTempo`, `TakeReset`,
`LoadPlaying`, `DrainCommand`), then the clock's steps one by one (`FireStep` fills
the pending buffer), then the events of the block one by one (`FireEvent` renders
up to the event and triggers), so that the user's operations fall anywhere
in between. A 1/16 step has 24 parts, for swing, micro-shift and humanise. The
hashes behind probability and humanise are one fixed function of lane and step:
nothing depends on which.

**LibraryDb**, **FolderWatcher**, **Library** (`library/LibraryDb.cpp`,
`library/FolderWatcher.cpp`, `ui/MainComponent.cpp` 2014-2021, `ui/BrowserPanel.cpp`
112-170). A row is the category the analyser heard. Each section under the lock is
one action; `drainIntoDb` takes its batch in one and writes row by row; the
rebuild's test reads `busy` and the queue in two. `notified` is the event
`juce::Thread` waits on, which stays set if nobody waits. `Crash` and `Joined`
empty everything but the disk, and `Launch` reads it back. Decoding a file
and claiming its path are one action, because nothing another thread does in
between changes what is claimed.

**Song** (`model/Song.cpp`). `StepAtBar` is the loop as a fold of bars; indices are
1-based and 0 is the code's -1.

**SlotSwitch** (`ui/MainComponent.cpp` 343-373, 433-450, 884-1003, 1115-1261,
1413-1536, 1978-1993). The message thread is atomic except where it reads what
the audio thread writes: `timerCallback` is three steps (`CommitTick`,
`UpdateSongPlayback`, `UpdateEvolve`) and `queueBarPattern` reads the switch count
one step before it queues (`QueueBarPattern`, `QueueStep`). A pattern is the slot
and revision it was written as, and the variation EVOLVE made of it; revision 0
is empty. `undo` is the undo manager's latest step. `CaptureProject` is what a save
or an autosave would write at any moment.

**SampleReclaim** (`engine/CommandQueue.h`, `DrumEngine.cpp`,
`SampleRetirementPool.cpp`, `Voice.cpp`, `library/KitInstaller.cpp`). A reference
count is not stored; it is what kit, pads, voices and pool hold. A drain has three
parts because `getNumReady` and `finishedRead` bracket the commands in between.

**InputRecorder** (`engine/InputRecorder.cpp`). Each thread has a FIFO of stores
the other cannot see yet, which is how an acquire load may overtake an earlier
release store of its own thread. The histories `early` and `overtook` remember
the looks at the other's flag that did. `start()` may be called at any time, also with
a take nobody has collected and a block inside it: a microphone take, the source
set to Pads, which does not stop the recorder (`MainComponent.cpp:1306-1314`), and Mic +
REC again; `restarted` remembers it. The `external` entries of the map are the memory.

**CaptureSession** (`ui/MainComponent.cpp` 1263-1411, 1995-2006,
`ui/TransportBar.cpp` 23-52, `engine/MidiCaptureQueue.cpp`). A hit is a number;
history variables note which take it was played for. The recorder is abstract
here: `InputRecorder` is what justifies it. `late` are the notes that wait in the queue
when the clock or the take is stopped, `overlooked` the drops counted since the last tick
of a take that REC or the source ended. `MicFollowsDevice` is the change
listener that runs some time after the device thread's `DeviceRestart`.

`MCSlotSwitch`, `MCStepEvents` and `MCLibrary` give the larger constants their
values; `MCSlotSwitch` also has the song chain written out bar by bar, as a
reference for `StepAtBar`. The operators whose comment begins with "Mutant" are
plausible bugs kept beside the definition they alter; no specification uses them.

## 4. Runs

| Run | Bounds | Shows |
|---|---|---|
| `sequencer` | 3 hand-offs, bars of 2 steps, 4 steps | every interleaving of the two threads in the triple buffer, whose three buffers have then gone round; immediate over queued over immediate, against two bar lines and a reset |
| `events` | steps of 3.5 and 4.5 samples, blocks of 3 and 6, 2 voices, a pending buffer of 4, a bar of 4 steps and one more, 2 operations; a pattern of two straight lanes (micro-shifts both ways, ratchets, a probability) with a roll, and one with a triplet lane and a lane of no length; a sound of 6 frames without release, and a louder one of 5 with attack and release | a step cut by a block and two steps in one; a full pending buffer; stealing by level and by age, also of a sounding voice while an ended one is louder; a hit that waits over a block, a stop and a tempo change |
| `slot_protocol` | 2 slots, 4 operations, the clock goes round | every pair of switch and rewrite with an edit, undo or load in between |
| `song_play` | 3 slots, 5 bars of 2 steps, 4 operations | five chains: loops that come back to a slot, start in another than the one on screen or name a slot there is not, and a one-shot; started, stopped, switched on and off, another project loaded; beside it `StepAtBar` on every chain of up to 3 steps of -1 to 3 bars, over 12 bars, longer than the longest |
| `sample_reclaim` | 2 buffers, 2 pads, 1 voice, 2 layers, queue of 2 | a sweep at any moment: also of a buffer that only a queued command carries; sharing over two pads, full queue, stealing |
| `input_recorder` | buffer of 3, blocks of 2, 2 takes, up to 2 stores under way when the next is made | a block cut by the buffer's end, a second take over a first, collected or not, looks that overtake stores in either thread |
| `capture_take` | 3 hits, 2 takes, queue of 2, 1 other edit | a full queue inside a take; a second take after a foreign note; a clock or a take stopped before the tick that drains |
| `library` | 2 folders, 2 files of which one is half copied, drains of 1 row, 2 events | claim, quit and relaunch; a file finished after it was refused; a drive gone and back; a row that arrives between the two tests of the rebuild |

The triple buffer by itself is checked with six publishes, twice round, by
`MCTripleBuffer.cfg`; that run is not a regular one because `sequencer` has the same
properties with the callers around it. The safety properties of `library` were also checked once with three events
(548773 states), where liveness takes too long for a regular run.

Four runs expect a violation; each is a finding:

- `capture_last_notes` (`NothingLost`): the timer drains notes before it disarms a
  take that ended with the transport, so that they "are not thrown away"
  (`MainComponent.cpp:1995`); but `captureTapAt` refuses them at line 1347, because
  the transport has stopped.
- `sample_queued` (`NoDangling`): a sweep frees a buffer that only a queued
  command refers to.
- `recorder_unfenced` (`Exclusive`): `take()` and `writeBlock()` each store a flag with
  release and load the other's with acquire, which lets both loads come first; the second
  look at `armed` then does not keep the block out of the buffer `take()` reads, as the
  comment at `InputRecorder.cpp:53-54` has it.
- `tap_tempo` (`TapLandsOnStep`): the clock rebases at a change of tempo, a tap's
  time counts from the top, so that later taps are written to other steps than
  those that sound.

### Assumptions of the passing runs

Each is a constant of `SlotSwitch`, or of the library's files, and each has a
configuration that drops it and finds the counterexample:

| Constant | Assumes | Without it |
|---|---|---|
| `TwoTicks` | two timer ticks between bar lines (a bar at 120 BPM lasts 60 ticks) and after a user's action before the next one | `SongSlow.cfg`: the song is late by a bar |
| `SeenFirst` | a block fires Play's first step before the next tick; a tick sees Stop before the next Play | `SongStale.cfg` |
| `SongAlone` | SONG is not switched on while a switch is queued | `SongQueued.cfg`: the switch queued before SONG takes bar 1. For the slot that is up `selectSlot` does nothing (`MainComponent.cpp:443`), so the song cannot take the switch back, and queues nothing while it waits |
| `Under` | watched folders side by side | `LibraryNested.cfg` |

`TapLandsWhereItPlays` and the exact places of `HitsOnTime` are stated while the
clock has taken no tempo since the top (`retuned`): a tempo and back again leaves the
roundings of both rebases behind. Without that the former is
`tap_tempo`. `MidiIsTheImage` names in its formula what the file has and the
engine does not play: notes that a step's probability leaves out, and those of a lane of no
length, which `MidiExporter.cpp:58` plays as one of length 1 while `Sequencer.cpp:165`
skips it. Mute and solo are outside it: the file has the notes of muted pads too.
Also assumed: a song is not edited while it plays; there is one instance of the
application (a statement that fails, `WriteFails`, stands for another's lock); the
browser is open; the worker ends within the four seconds its destructor waits.

### Further counterexamples

Configurations kept beside the runs; TLC finds each property violated. They show
why the checked property carries an exception.

| cfg (module) | Property | What happens |
|---|---|---|
| `TripleBufferStale` (TripleBuffer) | `ReadNeverGoesBack` | a read that takes a version before its flag is stored finds the flag later, swaps back and returns the older version (`TripleBuffer.h:43`) |
| `SequencerEarlySwitch` (Sequencer) | `QueuedAlwaysLandsOnBar` | a queued pattern published between the block's exchange of an immediate mode and its read is applied at once |
| `SequencerStale` (Sequencer) | `LastCallPlays` | the straddle above leaves an old pattern playing |
| `SequencerPlay` (Sequencer) | `PlayFromTop` | Play falls between the block's reset and its load of `playing`: one block plays from the old position |
| `SlotCommitEarly` (MCSlotSwitch) | `CommitWhenLanded` | an earlier queued pattern lands after the count is read; its count is taken for the new one's |
| `SlotUndoLoad` (MCSlotSwitch) | `UndoIsOfThisProject` | undo after loading a project restores a pattern of the previous one |
| `SongQueued` (MCSlotSwitch) | `SongInTime` | SONG is toggled with a switch queued: the second bar begins with that slot |
| `SongEvolve` (MCSlotSwitch) | `SongInTime` | a variation queued first keeps the song from queueing the next bar's slot |
| `SongStale` (MCSlotSwitch) | `SongStartsAtOnce` | the anchor is taken from a playhead of the last run |
| `SlotCopy` (MCSlotSwitch) | `CopyIsKept` | a copy to the slot whose switch is queued is overwritten when the stale pattern on screen is parked |
| `ExportFeel` (MCStepEvents) | `RenderIsWhatPlays` | `ExportPanel.h:25` has an export capture "the per-bar probability + humanise variation the engine generates"; `OfflineRenderer.cpp:26-36` never sets the humanise amount |
| `ChokeOrder` (MCStepEvents) | `LaneOrderAtOnce` | a fired event is replaced by the last pending one (`Sequencer.cpp:309`), so hits of one sample may leave the buffer in another order than their lanes', and another of a choke group is heard |
| `LibraryNested` (MCLibrary) | `AnalysedOnce` | a file below two watched folders is listed twice in one pass and analysed twice, which `FolderWatcher.h:17` and `FolderWatcherTests.cpp:129` exclude |
| `LibraryRefused` (MCLibrary) | `SeenIsClaimed` | a row the database refuses is dropped, but its path stays claimed until the next launch (`FolderWatcher.h:109`) |
| `CaptureAside` (CaptureSession) | `NeverForeign` | changing the source mid-take finishes it as a take of the new source |
| the same | `AlwaysOneUndoPerTake` | another edit during a take splits it (TLC shows both with `-continue`) |
| `SampleNulls` (SampleReclaim) | `EmptyPadIsEmpty` | a pad emptied with nulls keeps sounding |

Each configuration was run with the module as it stands. The passing properties
`UndoStaysHome`, `NoLostWork`, `FreshUnlessStraddled`, `QueuedLandsOnBar`,
`EveryFileArrives`, `EngineFollowsKit`, `OnlyQueuedDangle`, `ExclusiveWhenSeen`,
`TakeIsTheTake`, `EveryNoteAccounted` and `DropsReported` name their exception in the
formula itself.

### Fairness

- `SlotSwitch`: the device calls back and the timer ticks for as long as the app
  runs (weak fairness of blocks and ticks); a playing clock fires the steps that
  come due, in some blocks but not in each (strong fairness of `FireStep`).
  Nothing is assumed of the user.
- `SampleReclaim`: blocks run and notes end (weak fairness of the drain's parts and of
  each voice's end), and the timer sweeps (weak fairness of the sweep), whatever is queued.
- `InputRecorder`: a store becomes visible, a block that began ends, the spinning
  thread is scheduled. Blocks may go on arriving for ever.
- `Library`: both threads keep running (weak fairness of the worker's steps and of
  the message thread's inside a call). The worker sleeps up to four seconds between
  two passes while the timers tick thirty and five times a second, so a timer step
  that is possible in sleep after sleep happens in one of them (strong fairness of
  the step with `Asleep`). Nothing is assumed of the user or of the disk.

## 5. Proofs

**`TripleBufferProofs`**, for any number of publishes and any interleaving.
`IInv` is inductive. Its heart is `Permutation`: the writer's index differs from the
reader's and from the slot's, so a fill tears only a buffer nobody else can
reach (`NoTornRead`, `SnapshotImmutable`). `FilledWhole` is the writer's promise that
what it swaps into the slot is complete. `AnnouncedOrHeld` strengthens
`FreshUnlessStraddled`, which is not inductive: it says where the newest version
is in the middle of a publish or a read, namely in the slot with some
announcement on its way, or with the reader and unannounced.

**`SampleReclaimProofs`**, for any kit, number of voices and queue capacity.
`IInv` = `TypeOK` /\ `NeverLastOnAudio` /\ `KitAlive`: the types alone are not
inductive, because a retired buffer is a loaded one only if what the kit holds is.
`NeverLastOnAudio` then holds because what leaves the kit enters the pool in the same
call, so a pad or a voice never has the only reference. The code's promise about raw
pointers does not hold of its sweep, as `sample_queued` shows; what does is
`SpecOnlyQueuedDangle`, without any hypothesis: the kit refers to nothing freed, and the
engine and the queue only to what a sweep found with no reference while a command
carried it. `SpecEngineFollowsKit` has no
hypothesis: `Follows` says of each pad that the last command waiting for it carries
the kit's layers, and that with none waiting the engine already has them.

**`InputRecorderProofs`**, for any capacity, block length, number of takes and of
stores under way: Dekker's argument over the buffered stores, with what release and
acquire leave of it. `Disarmed`: once `take()` waits, `armed` is down in memory or
the last store of the message thread brings it down. `Raised`: the same for `writing` and
a block between its two looks at `armed`. A thread whose look did not overtake its
own store looks with that store in memory, so if neither look did, whichever comes
second sees the other's flag: a block and `take()` meet in the buffer only after a look
that overtook (`SpecExclusiveWhenSeen`). `MemoryOK` adds who stores what: only blocks
store `writing`, and no block arms. That a look may overtake is the finding of
`recorder_unfenced`.

`SpecTakeIsTheTake` says what is in the buffer until a look overtakes a store.
`InOrder` fixes the order in which a thread's stores wait to be seen; `Quiet` says
that between a take that was taken and the next that is armed no block appends and
no count of one is on its way; `TakeKept` that the buffer holds what was recorded
since `start()` and nothing else, and that `written` is its length once every store
of it has arrived. Without `Quiet` the last block could still store its count after
the next `start()` has cleared it: that is what may happen when `start()` finds a
block at work on a take nobody collected, and the formula excepts it (`restarted`).

**`CaptureSessionProofs`**, for any pads, queue capacity and number of takes.
`SpecRecorderRunsForTakes`: the recorder's flag follows the take's and the source's
through every restart of the device. `SpecNothingForeign`: `clear()` at REC puts a
line between takes, so that everything in the queue and in the pattern belongs to the
take that is lit or was written by its own. `SpecOneUndoPerTake`: all of a take is
written in one transaction unless an edit opened another. `SpecEveryNoteAccounted` follows
each note to where it is: queue, pattern, dropped, gone with the device, or in the queue
when the clock or the take was stopped. The last is more than the comment in the
timer allows (`capture_last_notes`); nothing else is lost in any order of ticks, notes and
operations. `SpecDropsReported` counts: what was reported, what the queue still counts
and what it counted when a take was ended between two ticks are no less than the notes
dropped, by cardinality.

**`SequencerProofs`**, for any number of calls, any bar and any overlap of the two
threads. `SpecUsesTripleBuffer` maps each step to one of `TripleBuffer` or a stutter,
and from there the invariant of `TripleBufferProofs` holds here, and with it
`Permutation`, `NoTornRead`, `FreshUnlessStraddled` and `SnapshotImmutable` of the buffer in
its place. `Inside`: each half
of the buffer is used within the call it belongs to. `Newest`: with every call
returned and its mode taken, the newest version is in the block's hands, waiting for
the bar, or playing. From these `LastRequestWins`. `Apart` is what holds until a call overlaps
`applyIncomingPattern()`: the mode a block exchanged is that of the version it reads.
It gives `QueuedLandsOnBar` and the step-by-step refinement of `PatternChannel`
(`SpecImplementsChannel`): a call's mode store is the request, the end of the block's
read takes it, everything else is a stutter.

**`SlotSwitchProofs`**, for any slots, patterns and chain, and any number of edits,
switches, undos and loads. `Match` relates the timer to the engine: where the channel
will arrive with what it holds is where the screen will, whether the counter has moved
or not. `AtHome`: every entry on the undo stack is of the slot on screen, or older
than the load that replaced it. `Work` says where the work of each slot is: in the
grid, in the anchor while a variation plays, in the bank, or queued. `NoLostWork` and
`SavedIsTheWork` are what `Work` means at rest and in a save. None of these is
inductive without the others: a timer tick that commits a slot keeps its work only
because `Match` says that the slot is the one that plays.

*The chain.* `BarsBefore` adds up the bars of a chain's steps, each at least one.
`StepAtBarCovers`: the step `stepAtBar` names begins no later than the bar and ends
after it. `ChainUnrolls`: that is the entry of the chain written out bar by bar, for
every chain and bar, where the run compares those of three steps.

*A one-shot's end*, `SpecSongEnding`, for every chain and every operation, variations
and device restarts among them. The timer stops the song on the bar line after its
last bar, so what has to be shown is that it looks within that bar: `Stopped` says that
the playhead is never a bar past the end, and that past the end no tick has come
since the bar line, or one is about to stop the song. `SongInv` adds where the anchor is kept whole
(`OnBars`), and when it is set and cleared (`Newly`, `Halted`). The hypothesis is
`KeptUp`: `TwoTicks`, `SeenFirst` and a clock that does not start over.

*A song in time*, `SpecSongInTime`, for every chain. `Turned` is the schedule: a bar
that the timer has looked at ends in the slot the next one wants, playing or queued; one
that it has not is about to see the last switch land, and no other waits. `Alive` says that
a switch waited for is on its way or has been counted, so that the look which
finds it landed is also free to queue the next. `Opening` is the time before the
anchor, when only the song's first slot may wait, and `Match` turns the slot on screen
or waited for into the pattern the engine plays. The hypothesis `Alone` adds to
`KeptUp` that SONG is not switched on with a switch queued, and that the user plays,
stops, toggles and loads, but neither evolves nor switches by hand. `SongSlow`,
`SongStale`, `SongQueued` and `SongEvolve` show that these are needed.

**`StepEventsProofs`**, in four parts.
*Voices*, for any voices, pads, lengths and groups: `sounding` follows the
policy without slots; the voices hold the same notes, of any envelope and level, because
a render stops or keeps a voice by what it has left, as it does a note, and live voices have
distinct ages (`OneSlotEach`, `Younger`), so the quietest oldest voice is one note,
and because a full pool is as many notes as slots (a cardinality argument).
*Lanes*: for every position, each lane step begins in exactly one global
step (`OneGlobalStep`), inside it, and the playhead is the last that has begun.
Triplets' thirds are spelled out as quotients by 3 and 4, which SMT can decide.
*Clock*, for all tempos and block lengths: `ClockInv` adds `GridOK` (the
grid starts no later than the pending step) to the types; then the next step's
sample is one step length away, but for the rounding, and rebasing keeps it.
*Event path*: every step is one of the clock or a stutter (`SpecClock`), so what is
proved of the clock holds of the running transport (`SpecNoJump`). `EventInv` is
what the queues hold: nothing waits that the block has passed (`Ahead`), what was
played was played at its sample and in order (`Played`), and until a tempo is taken
the grid starts at the top and everything played or waiting is `Near` its place
(`OnGrid`). A step that fires only adds events at or after its own sample
(`GeneratedNew`), and that sample is not behind the block because the clock is
never late; an event that fires is the earliest due, so that the cut of the block lies
between the last event and the next. `ThreeRoundings` adds up the errors of
`stepSample()`, the lane's offset and the ratchet. `SpecHitsOnTime` follows. With
the cursor in its range every trigger and rendering is the pool's own (`SpecPool`),
so that what is proved of the voices holds too (`SpecPoolIsTheNotes`); and a choke
group rings once whatever is triggered (`SpecChokeExclusive`).
`SpecEveryHitOnce` gives every hit a name: its lane or roll, its step, its ratchet.
`Kept` says that the names played, waiting and dropped are apart, each sequence has
none twice, and together they are what the pattern asks for so far. A step that fires
adds as many new names to the one side as to the other (`GeneratedOnce`,
`ExpectedGrows`), since each step of a lane begins in one global step; taking the last
event into the place of the one that fires loses none (`TakenOnce`).
`SpecMidiIsTheImage` follows: the notes of the file are the same names (`NotesAre`) and
the exporter's two roundings put each within half a sample and a tick of where
`OnGrid` has the hit. Lanes of any length are in it: one that has none adds notes to the
file and no hits. `SpecTapLandsWhereItPlays`: with the grid at the top, the
rounding in `quantise()` and the two remainders leave the tap's step at most half a
lane step, and the clock's half sample, away on one way around the lane (`TapNear`), for
every lane that has a length.
`StepEventsAssumption` says what patterns, kits and feels are. Lanes and rolls are
joined by `FlattenSeq`, which is recursive in the length; what the proofs need of
it is proved by the least length that breaks it, since the induction theorems cannot be
used.

**`LibraryProofs`**, for any files, folders, drains and numbers of events. `SearchInv`
accounts for a batch half written: the flag, or `wrote` and the writing call, says
that the corpus is old. `WakeInv` covers the worker before it sleeps: from the
copy of the list on, whatever has changed the list has set the event or is about
to. `OnceInv` is the life of a path: to be analysed and unclaimed, or waiting, being
written or in the table and claimed, in one of these at once; and none of the
candidates is in a folder the pass has yet to list. That last part needs
`Disjoint`, the hypothesis of `SpecAnalysedOnce`: `LibraryNested.cfg` shows that it does.
`FoldersAssumption` and `UnderAssumption` say that folders and listings are finite.

Only model-checked: liveness (`NoWedge`, `Reclaimed`, `WaitEnds`, `EveryFileArrives`,
`EverybodyCatchesUp`), which needs fairness and ENABLED. Every safety and action
property of a passing run is a theorem.

## 6. Not modelled

- Signal processing: interpolation, panning and tone, effects, meters, resampling, feature
  extraction, similarity distances and the beatbox classifier are floating-point
  arithmetic without control to explore. The modules have their outcomes: a
  category, a hit; of a voice, its envelope and level, which decide what is stolen.
- The generators (`Variator`, `FillEngine`, `RollCompiler`, `Humaniser`) are seeded
  floating-point arithmetic, in one call each. A variation is a value that differs
  from its anchor; a roll its offsets; humanise a bounded delay.
- Velocities beyond a voice's level, pitch and sample locks, layers, sends and stems:
  a voice has one of the sounds its pad may start.
- Painting, layout and mouse handling call the operations above.
- JSON text and the files of a project; the vendored SQLite, which is 236 of the
  repository's 256 thousand lines of code. `LibraryDb` has its three tables as
  the application uses them: each statement commits by itself.
- A database that could not be opened; `setFavourite`, which only tests call;
  progress counters and `waitForScanPass`.
- `NoteRepeat`: one timer of the message thread, sharing no state.

`PROJECT.json` says so component by component.
