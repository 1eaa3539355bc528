--------------------------- MODULE CaptureSession ---------------------------
(***************************************************************************)
(* REC: the take, from the button to the pattern. The transport bar's REC  *)
(* and source controls, MainComponent's setCapturing, drainMidiCapture,    *)
(* captureTapAt, finishMicCapture and the timer's auto-disarm, the notes in *)
(* engine/MidiCaptureQueue, and what engine/InputRecorder has recorded     *)
(* (its handshake is module InputRecorder).                                *)
(*                                                                         *)
(* A hit is a number; which take it was played in is history. Where a hit  *)
(* lands on the grid is not this module's subject.                         *)
(***************************************************************************)
EXTENDS Integers, Sequences, FiniteSets

CONSTANTS
  Capacity,     (* of the MIDI capture queue                                *)
  MaxHits,      (* bound: hits played                                       *)
  MaxTakes,     (* bound: takes begun                                       *)
  MaxEdits      (* bound: other undoable edits                              *)

ASSUME CaptureSessionAssumption ==
  /\ Capacity \in Nat \ {0}
  /\ MaxHits \in Nat /\ MaxTakes \in Nat /\ MaxEdits \in Nat

VARIABLES
  playing,          (* the transport                                        *)
  recButton, source,(* TransportBar                                         *)
  capturing,        (* MainComponent                                        *)
  queue, drops,     (* MidiCaptureQueue                                     *)
  armed, recording, (* InputRecorder: armed, and the hits in its buffer     *)
  inputs,           (* has the device an input?                             *)
  micOffered,       (* TransportBar: can Mic be chosen?                     *)
  transaction,      (* UndoManager: the number of the current transaction   *)
  pattern,          (* what capture wrote: [hit, take, transaction]         *)
  reported,         (* drops shown in the status line                       *)
  hits, take,       (* history: hits played and takes begun                 *)
  takeOf,           (* history: the take a hit was played for, 0 if none    *)
  onClock,          (* history: hits played with the transport running      *)
  switched,         (* history: the source was changed while REC was lit    *)
  edited,           (* history: the takes another edit was made in          *)
  lost, wiped,      (* history: hits that push() dropped, that a restart of *)
                    (* the device took from the recorder                    *)
  late, overlooked  (* history: hits that waited in the queue when the take *)
                    (* or the clock was stopped, and drops counted then     *)

session == <<recButton, source, micOffered, capturing>>
midi    == <<queue, drops>>
mic     == <<armed, recording>>
undo    == <<transaction>>
played  == <<hits, takeOf, onClock, lost, wiped>>
marks   == <<switched, edited>>
ended   == <<late, overlooked>>
vars    == <<playing, session, midi, mic, inputs, undo, pattern, reported, played, take,
             marks, ended>>

InQueue == {queue[i] : i \in DOMAIN queue}

Sources == {"pads", "mic"}

Init ==
  /\ playing = FALSE
  /\ recButton = FALSE /\ source = "pads" /\ capturing = FALSE
  /\ queue = <<>> /\ drops = 0
  /\ armed = FALSE /\ recording = {}
  /\ inputs \in BOOLEAN /\ micOffered = inputs
  /\ transaction = 0
  /\ pattern = {} /\ reported = 0
  /\ hits = 0 /\ take = 0 /\ takeOf = [h \in 1 .. MaxHits |-> 0]
  /\ onClock = {} /\ lost = {} /\ wiped = {}
  /\ late = {} /\ overlooked = 0
  /\ switched = FALSE /\ edited = {}

-----------------------------------------------------------------------------
(* MIDI and audio threads. *)

(* A hit that is played now, and the take it is for.                        *)
Hit(for) ==
  /\ hits < MaxHits
  /\ hits'    = hits + 1
  /\ takeOf'  = [takeOf EXCEPT ![hits'] = IF capturing /\ source = for THEN take ELSE 0]
  /\ onClock' = IF playing THEN onClock \cup {hits'} ELSE onClock

(* Mutant: a full queue drops the note without counting it. *)
PushUncounted ==
  \/ /\ Len(queue) < Capacity
     /\ queue' = Append(queue, hits') /\ UNCHANGED <<drops, lost>>
  \/ /\ Len(queue) >= Capacity
     /\ lost' = lost \cup {hits'} /\ UNCHANGED <<queue, drops>>

(* MidiCaptureQueue::push, one note at a time under its lock. *)
Push ==
  \/ /\ Len(queue) < Capacity
     /\ queue' = Append(queue, hits') /\ UNCHANGED <<drops, lost>>
  \/ /\ Len(queue) >= Capacity
     /\ drops' = drops + 1 /\ lost' = lost \cup {hits'} /\ UNCHANGED queue

(* handleIncomingMidiMessage: REC or not, every note is queued. *)
MidiNote ==
  /\ Hit("pads")
  /\ Push
  /\ UNCHANGED <<playing, session, mic, inputs, undo, pattern, reported, take, wiped, marks, ended>>

(* writeBlock: a beat into the microphone, while the recorder is armed. *)
Beatbox ==
  /\ armed
  /\ Hit("mic")
  /\ recording' = recording \cup {hits'}
  /\ UNCHANGED <<playing, session, midi, armed, inputs, undo, pattern, reported, take, lost, wiped,
                 marks, ended>>

(* audioDeviceStopped, and a device with or without input that starts:      *)
(* prepare() throws the recording away.                                     *)
DeviceRestart ==
  /\ armed' = FALSE /\ recording' = {} /\ wiped' = wiped \cup recording
  /\ inputs' \in BOOLEAN
  /\ UNCHANGED <<playing, session, midi, undo, pattern, reported,
                 hits, takeOf, onClock, lost, take, marks, ended>>

-----------------------------------------------------------------------------
(* Message thread. *)

Write(h) == [hit |-> h, take |-> take, transaction |-> transaction]

(* captureTapAt, for a note at a time. *)
Taken(notes) ==
  IF capturing /\ source = "pads" /\ playing THEN {Write(h) : h \in notes} ELSE {}

(* finishMicCapture: what the recorder has is a take of this moment. *)
FinishMicCapture ==
  /\ armed' = FALSE /\ recording' = {}
  /\ pattern' = pattern \cup {Write(h) : h \in recording}

(* setCapturing (true): needs a running clock, and an input for the mic;    *)
(* and the take is one undo transaction. Without, REC goes out again.       *)
Refused(src) == ~playing \/ (src = "mic" /\ ~inputs)

(* Mutant: notes played before REC are not thrown away. *)
BeginTakeUncleared(src) ==
  /\ take < MaxTakes
  /\ capturing' = TRUE /\ recButton' = TRUE
  /\ take' = take + 1 /\ transaction' = transaction + 1
  /\ UNCHANGED midi
  /\ IF src = "mic" THEN armed' = TRUE /\ recording' = {} ELSE UNCHANGED mic

BeginTake(src) ==
  /\ take < MaxTakes
  /\ capturing' = TRUE /\ recButton' = TRUE
  /\ take' = take + 1 /\ transaction' = transaction + 1
  /\ queue' = <<>> /\ drops' = 0
  /\ IF src = "mic" THEN armed' = TRUE /\ recording' = {} ELSE UNCHANGED mic

(* Mutant: the recorder is left running. *)
EndTakeArmed(src) ==
  /\ recButton' = FALSE
  /\ capturing' = FALSE
  /\ pattern' = IF capturing /\ src = "mic" THEN pattern \cup {Write(h) : h \in recording}
                ELSE pattern
  /\ UNCHANGED mic

(* setCapturing (false). *)
EndTake(src) ==
  /\ recButton' = FALSE
  /\ capturing' = FALSE
  /\ IF capturing /\ src = "mic" THEN FinishMicCapture ELSE UNCHANGED <<mic, pattern>>

(* REC goes out between two ticks: what the next one finds is late.         *)
EndsBetweenTicks ==
  /\ late'       = late \cup InQueue
  /\ overlooked' = overlooked + drops

(* recButton.onClick *)
ClickRec ==
  /\ \/ /\ ~recButton /\ ~Refused(source)
        /\ BeginTake(source)
        /\ UNCHANGED <<pattern, ended>>
     \/ /\ ~recButton /\ Refused(source)
        /\ UNCHANGED <<recButton, capturing, midi, mic, undo, pattern, take, ended>>
     \/ /\ recButton
        /\ EndTake(source) /\ EndsBetweenTicks
        /\ UNCHANGED <<midi, undo, take>>
  /\ UNCHANGED <<playing, source, micOffered, inputs, reported, played, marks>>

(* sourceBox.onChange: the take ends, as one of the NEW source.             *)
ChangeSource ==
  /\ source' \in Sources \ {source}
  /\ source' = "mic" => micOffered
  /\ switched' = (switched \/ recButton)
  /\ \/ recButton /\ EndTake(source') /\ EndsBetweenTicks
     \/ ~recButton /\ UNCHANGED <<recButton, capturing, mic, pattern, ended>>
  /\ UNCHANGED <<playing, micOffered, midi, inputs, undo, reported, played, take, edited>>

(* changeListenerCallback, some time after DeviceRestart: setMicAvailable.  *)
(* A microphone that has gone takes the source with it, and REC stays lit.  *)
MicFollowsDevice ==
  /\ micOffered # inputs \/ (~inputs /\ source = "mic")
  /\ micOffered' = inputs
  /\ source'     = IF inputs THEN source ELSE "pads"
  /\ switched'   = (switched \/ (recButton /\ source' # source))
  /\ UNCHANGED <<playing, recButton, capturing, midi, mic, inputs, undo, pattern, reported,
                 played, take, edited, ended>>

TogglePlay ==
  /\ playing' = ~playing
  /\ late'    = IF playing THEN late \cup InQueue ELSE late
  /\ UNCHANGED <<session, midi, mic, inputs, undo, pattern, reported, played, take, marks,
                 overlooked>>

(* Mutant: every tap is a transaction of its own. *)
TapPadAlone ==
  /\ Hit("pads")
  /\ transaction < MaxTakes + MaxEdits
  /\ transaction' = transaction + 1
  /\ pattern' = pattern \cup Taken({hits'})
  /\ UNCHANGED <<playing, session, midi, mic, inputs, reported, take, lost, wiped, marks, ended>>

(* captureTap: a pad clicked, or a key pressed. *)
TapPad ==
  /\ Hit("pads")
  /\ pattern' = pattern \cup Taken({hits'})
  /\ UNCHANGED <<playing, session, midi, mic, inputs, undo, reported, take, lost, wiped,
                 marks, ended>>

(* Any other undoable edit of the pattern begins a transaction of its own.  *)
OtherEdit ==
  /\ transaction < take + MaxEdits
  /\ transaction' = transaction + 1
  /\ edited' = IF capturing THEN edited \cup {take} ELSE edited
  /\ UNCHANGED <<playing, session, midi, mic, inputs, pattern, reported, played, take,
                 switched, ended>>

(* Mutant: a batch with drops in it is reported, and its notes forgotten. *)
TickOverfull ==
  LET ends == capturing /\ ~playing
  IN  /\ queue' = <<>> /\ drops' = 0
      /\ reported' = IF capturing THEN reported + drops ELSE reported
      /\ IF ends /\ source = "mic"
         THEN FinishMicCapture
         ELSE /\ UNCHANGED mic
              /\ pattern' = pattern \cup
                   (IF drops > 0 THEN {} ELSE Taken(InQueue))
      /\ recButton' = (recButton /\ ~ends)
      /\ capturing' = (capturing /\ ~ends)
  /\ UNCHANGED <<playing, source, micOffered, inputs, undo, played, take, marks, ended>>

(* timerCallback: the drain, then the auto-disarm of a stopped transport.   *)
(* (A take that ends here is not of notes: captureTapAt wants the clock.)   *)
Tick ==
  LET ends == capturing /\ ~playing
  IN  /\ queue' = <<>> /\ drops' = 0
      /\ reported' = IF capturing THEN reported + drops ELSE reported
      /\ IF ends /\ source = "mic"
         THEN FinishMicCapture
         ELSE /\ UNCHANGED mic
              /\ pattern' = pattern \cup Taken(InQueue)
      /\ recButton' = (recButton /\ ~ends)
      /\ capturing' = (capturing /\ ~ends)
  /\ UNCHANGED <<playing, source, micOffered, inputs, undo, played, take, marks, ended>>

-----------------------------------------------------------------------------
Next ==
  \/ MidiNote \/ Beatbox \/ DeviceRestart
  \/ ClickRec \/ ChangeSource \/ MicFollowsDevice \/ TogglePlay \/ TapPad \/ OtherEdit \/ Tick

Spec == Init /\ [][Next]_vars

-----------------------------------------------------------------------------
TypeOK ==
  /\ {playing, recButton, capturing, armed, inputs, micOffered} \subseteq BOOLEAN
  /\ source \in Sources
  /\ queue \in Seq(1 .. MaxHits) /\ Len(queue) <= Capacity /\ drops \in 0 .. MaxHits
  /\ recording \subseteq 1 .. MaxHits
  /\ transaction \in 0 .. MaxTakes + MaxEdits
  /\ pattern \subseteq [hit : 1 .. MaxHits, take : 1 .. MaxTakes,
                        transaction : 0 .. MaxTakes + MaxEdits]

(* The recorder runs only for a take of the microphone: no take ends and    *)
(* leaves it appending (setCapturing, finishMicCapture, clearRecord), unless *)
(* the source was changed mid-take.                                         *)
RecorderRunsForTakes == armed => switched \/ (capturing /\ source = "mic")

(* A take holds only what was played for it, nothing from before REC, after *)
(* it, or of another take - unless the source was changed mid-take.         *)
Foreign == {w \in pattern : takeOf[w.hit] # w.take}

NothingForeign == switched \/ Foreign = {}

(* Without the exception, TransportBar.cpp:44: "Changing what you are       *)
(* recording mid-take would leave half a pattern from each."                *)
NeverForeign == Foreign = {}

(* MainComponent.cpp:1995: the timer drains first "so the last notes of a   *)
(* take that ended with the transport are not thrown away". When a take of  *)
(* the pads has ended and the queue is drained, every note played for it is *)
(* in the pattern, or push() dropped it, or the device stopped under it.    *)
NotesOf(t) == {h \in onClock : takeOf[h] = t}

Kept == {w.hit : w \in pattern}

TakesOver == ~capturing /\ queue = <<>> /\ ~switched

NothingLost ==
  TakesOver => \A t \in 1 .. take : NotesOf(t) \subseteq Kept \cup lost \cup wiped

(* What the drain does achieve: the only other notes that are missing are   *)
(* those no tick had fetched when the clock, or the take, was stopped.      *)
EveryNoteAccounted ==
  TakesOver => \A t \in 1 .. take : NotesOf(t) \subseteq Kept \cup lost \cup wiped \cup late

(* The notes a take had to drop are reported: once push()'s count is back   *)
(* at zero, the status line has shown every one of them, but for those      *)
(* counted after the last tick of a take that REC or the source ended.      *)
Dropped == {h \in lost : takeOf[h] > 0}

DropsReported == drops = 0 => reported + overlooked >= Cardinality(Dropped)

(* MainComponent.cpp:1290: "Everything captured in one take undoes in one   *)
(* Ctrl+Z." It does, unless another edit is made while REC is lit.          *)
OneUndoPerTake ==
  \A v, w \in pattern : v.take = w.take => v.transaction = w.transaction \/ v.take \in edited

(* Without that exception. *)
AlwaysOneUndoPerTake ==
  \A v, w \in pattern : v.take = w.take => v.transaction = w.transaction
=============================================================================
