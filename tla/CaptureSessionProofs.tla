------------------------ MODULE CaptureSessionProofs ------------------------
(***************************************************************************)
(* What a take holds, for any queue, and any number of hits, takes and      *)
(* edits, in every order of the MIDI, audio and message threads.            *)
(***************************************************************************)
EXTENDS CaptureSession, FiniteSetTheorems, TLAPS

(* The hits there are, and where they can be. *)
HistoryOK ==
  /\ take \in 0 .. MaxTakes /\ hits \in 0 .. MaxHits
  /\ takeOf \in [1 .. MaxHits -> 0 .. MaxTakes]
  /\ InQueue \cup recording \cup onClock \cup lost \cup wiped \cup Kept \subseteq 1 .. hits
  /\ reported \in Nat /\ overlooked \in Nat /\ switched \in BOOLEAN
  /\ transaction <= take + MaxEdits
  /\ drops <= Cardinality(lost)
  /\ \A w \in pattern : w.take <= take

(* REC is lit for as long as a take runs. *)
Lit == capturing = recButton /\ (capturing => take > 0)

Types == TypeOK /\ HistoryOK /\ Lit

-----------------------------------------------------------------------------
(* What a hit changes, and what a push does. *)

LEMMA Hits ==
  ASSUME Types, NEW for, Hit(for)
  PROVE  /\ hits' = hits + 1 /\ hits' \in 1 .. MaxHits
         /\ takeOf' \in [1 .. MaxHits -> 0 .. MaxTakes]
         /\ takeOf'[hits'] = IF capturing /\ source = for THEN take ELSE 0
         /\ \A h \in 1 .. hits : takeOf'[h] = takeOf[h] /\ (h \in onClock' <=> h \in onClock)
         /\ onClock' \subseteq onClock \cup {hits'}
         /\ hits' \in onClock' <=> playing
<1> USE DEF Types, HistoryOK, Hit
<1>1. hits' = hits + 1 /\ hits' \in 1 .. MaxHits
  BY CaptureSessionAssumption
<1>2. (IF capturing /\ source = for THEN take ELSE 0) \in 0 .. MaxTakes
  BY CaptureSessionAssumption
<1>3. /\ takeOf' \in [1 .. MaxHits -> 0 .. MaxTakes]
      /\ takeOf'[hits'] = IF capturing /\ source = for THEN take ELSE 0
      /\ \A h \in 1 .. hits : takeOf'[h] = takeOf[h]
  BY <1>1, <1>2
<1>4. onClock \subseteq 1 .. hits OBVIOUS
<1> QED BY <1>1, <1>3, <1>4

LEMMA AppendHit ==
  ASSUME NEW q \in Seq(1 .. MaxHits), NEW x \in 1 .. MaxHits
  PROVE  /\ Append(q, x) \in Seq(1 .. MaxHits) /\ Len(Append(q, x)) = Len(q) + 1
         /\ {Append(q, x)[i] : i \in DOMAIN Append(q, x)} = {q[i] : i \in DOMAIN q} \cup {x}
<1>1. /\ DOMAIN Append(q, x) = 1 .. Len(q) + 1 /\ DOMAIN q = 1 .. Len(q) /\ Len(q) \in Nat
      /\ \A i \in 1 .. Len(q) : Append(q, x)[i] = q[i]
      /\ Append(q, x)[Len(q) + 1] = x
  OBVIOUS
<1>2. 1 .. Len(q) + 1 = (1 .. Len(q)) \cup {Len(q) + 1} BY <1>1
<1>3. {Append(q, x)[i] : i \in DOMAIN Append(q, x)}
        = {Append(q, x)[i] : i \in 1 .. Len(q)} \cup {Append(q, x)[Len(q) + 1]}
  BY <1>1, <1>2
<1>4. {Append(q, x)[i] : i \in 1 .. Len(q)} = {q[i] : i \in DOMAIN q} BY <1>1
<1> QED BY <1>1, <1>3, <1>4

LEMMA NothingQueued == {<<>>[i] : i \in DOMAIN <<>>} = {}
  OBVIOUS

LEMMA HitSets ==
  ASSUME NEW S, S \subseteq 1 .. MaxHits
  PROVE  IsFiniteSet(S) /\ Cardinality(S) \in Nat /\ Cardinality(S) <= MaxHits
<1>1. IsFiniteSet(1 .. MaxHits) /\ Cardinality(1 .. MaxHits) = MaxHits
  BY FS_Interval, CaptureSessionAssumption
<1> QED BY <1>1, FS_Subset, FS_CardinalityType

LEMMA Pushes ==
  ASSUME Types, NEW for, Hit(for), Push
  PROVE  /\ queue' \in Seq(1 .. MaxHits) /\ Len(queue') <= Capacity
         /\ drops' \in 0 .. MaxHits /\ drops' <= Cardinality(lost')
         /\ \/ InQueue' = InQueue \cup {hits'} /\ UNCHANGED <<drops, lost>>
            \/ /\ UNCHANGED queue /\ InQueue' = InQueue
               /\ drops' = drops + 1 /\ lost' = lost \cup {hits'}
<1>1. hits' = hits + 1 /\ hits' \in 1 .. MaxHits BY Hits
<1>2. queue \in Seq(1 .. MaxHits) /\ Len(queue) \in Nat /\ Capacity \in Nat
  BY CaptureSessionAssumption DEF Types, TypeOK
<1>3. CASE Len(queue) < Capacity /\ queue' = Append(queue, hits') /\ UNCHANGED <<drops, lost>>
  <2>1. queue' \in Seq(1 .. MaxHits) /\ Len(queue') = Len(queue) + 1
    BY <1>1, <1>2, <1>3, AppendHit
  <2>2. InQueue' = InQueue \cup {hits'} BY <1>1, <1>2, <1>3, AppendHit DEF InQueue
  <2>3. drops' \in 0 .. MaxHits /\ drops' <= Cardinality(lost')
    BY <1>3 DEF Types, TypeOK, HistoryOK
  <2> QED BY <1>2, <1>3, <2>1, <2>2, <2>3
<1>4. CASE /\ drops' = drops + 1 /\ lost' = lost \cup {hits'} /\ UNCHANGED queue
  <2>1. lost \subseteq 1 .. hits /\ hits \in 0 .. MaxHits BY DEF Types, HistoryOK
  <2>2. lost' \subseteq 1 .. MaxHits BY <1>1, <1>4, <2>1, CaptureSessionAssumption
  <2>3. IsFiniteSet(lost)
    <3>1. lost \subseteq 1 .. MaxHits BY <2>1, CaptureSessionAssumption
    <3> QED BY <3>1, HitSets
  <2>4. Cardinality(lost') = Cardinality(lost) + 1
    <3>1. hits' \notin lost BY <1>1, <2>1
    <3> QED BY <1>4, <2>3, <3>1, FS_AddElement
  <2>5. Cardinality(lost) \in Nat BY <2>3, FS_CardinalityType
  <2>6. drops \in Nat /\ drops <= Cardinality(lost) BY DEF Types, TypeOK, HistoryOK
  <2>7. Cardinality(lost') <= MaxHits BY <2>2, HitSets
  <2>8. InQueue' = InQueue BY <1>4 DEF InQueue
  <2>9. queue' \in Seq(1 .. MaxHits) /\ Len(queue') <= Capacity
    BY <1>4 DEF Types, TypeOK
  <2> QED BY <1>4, <2>4, <2>5, <2>6, <2>7, <2>8, <2>9, CaptureSessionAssumption
<1> QED BY <1>3, <1>4 DEF Push
-----------------------------------------------------------------------------
(* What is written is of the take and the transaction of the moment. *)

WritesOf(notes) == {Write(h) : h \in notes}

LEMMA Keeps ==
  ASSUME Types, NEW notes, notes \subseteq 1 .. MaxHits, capturing \/ notes = {},
         pattern' = pattern \cup WritesOf(notes)
  PROVE  /\ pattern' \subseteq [hit : 1 .. MaxHits, take : 1 .. MaxTakes,
                                transaction : 0 .. MaxTakes + MaxEdits]
         /\ Kept' = Kept \cup notes
         /\ \A w \in pattern' : \/ w \in pattern
                                \/ /\ w.hit \in notes /\ w.take = take
                                   /\ w.transaction = transaction
         /\ \A w \in pattern' : w.take <= take
<1>1. \A h \in notes : /\ Write(h).hit = h /\ Write(h).take = take
                       /\ Write(h).transaction = transaction
  BY DEF Write
<1>2. \A h \in notes : Write(h) \in [hit : 1 .. MaxHits, take : 1 .. MaxTakes,
                                     transaction : 0 .. MaxTakes + MaxEdits]
  <2> TAKE h \in notes
  <2>1. take \in 1 .. MaxTakes /\ transaction \in 0 .. MaxTakes + MaxEdits /\ h \in 1 .. MaxHits
    BY CaptureSessionAssumption DEF Types, Lit, HistoryOK, TypeOK
  <2> QED BY <2>1 DEF Write
<1>3. \A w \in pattern' : \/ w \in pattern
                         \/ \E h \in notes : w = Write(h)
  BY DEF WritesOf
<1>4. \A w \in pattern' : \/ w \in pattern
                         \/ /\ w.hit \in notes /\ w.take = take
                            /\ w.transaction = transaction
  BY <1>1, <1>3
<1>5. pattern' \subseteq [hit : 1 .. MaxHits, take : 1 .. MaxTakes,
                        transaction : 0 .. MaxTakes + MaxEdits]
  BY <1>2, <1>3 DEF Types, TypeOK
<1>6. Kept' = Kept \cup notes
  <2>1. \A h \in notes : Write(h) \in pattern' BY DEF WritesOf
  <2>2. Kept' \subseteq Kept \cup notes BY <1>4 DEF Kept
  <2>3. Kept \cup notes \subseteq Kept' BY <1>1, <2>1 DEF Kept
  <2> QED BY <2>2, <2>3
<1>7. take \in Nat /\ \A w \in pattern : w.take <= take
  BY CaptureSessionAssumption DEF Types, HistoryOK
<1> QED BY <1>4, <1>5, <1>6, <1>7

(* Every step writes some notes: what the recorder has, what the queue has,  *)
(* or the hit of this moment; and the take they go to goes on meanwhile.    *)
Grows(notes) ==
  /\ \/ notes = {}
     \/ notes = recording /\ (source = "mic" \/ switched')
     \/ notes = InQueue /\ source = "pads" /\ playing
     \/ notes = {hits'} /\ hits' = hits + 1 /\ hits' \in 1 .. MaxHits /\ takeOf'[hits'] = take
  /\ pattern' = pattern \cup WritesOf(notes)
  /\ notes # {} => capturing /\ UNCHANGED <<take, transaction, edited>>

LEMMA StepGrows ==
  ASSUME Types, [Next]_vars
  PROVE  \E notes : Grows(notes)
<1>1. ASSUME UNCHANGED pattern PROVE \E notes : Grows(notes)
  <2>1. Grows({}) BY <1>1 DEF Grows, WritesOf
  <2> QED BY <2>1
<1>2. CASE MidiNote \/ Beatbox \/ DeviceRestart \/ MicFollowsDevice \/ TogglePlay \/ OtherEdit
           \/ UNCHANGED vars
  BY <1>1, <1>2 DEF MidiNote, Beatbox, DeviceRestart, MicFollowsDevice, TogglePlay, OtherEdit, vars
<1>3. ASSUME NEW src, EndTake(src), UNCHANGED <<take, undo, edited>>, src = source \/ switched'
      PROVE  \E notes : Grows(notes)
  <2>1. CASE capturing /\ src = "mic"
    <3>1. pattern' = pattern \cup WritesOf(recording)
      BY <1>3, <2>1 DEF EndTake, FinishMicCapture, WritesOf
    <3>2. Grows(recording) BY <1>3, <2>1, <3>1 DEF Grows, undo
    <3> QED BY <3>2
  <2>2. CASE ~(capturing /\ src = "mic") BY <1>1, <1>3, <2>2 DEF EndTake
  <2> QED BY <2>1, <2>2
<1>4. CASE ClickRec
  BY <1>1, <1>3, <1>4 DEF ClickRec, marks
<1>5. CASE ChangeSource
  BY <1>1, <1>3, <1>5 DEF ChangeSource
<1>6. CASE TapPad
  <2>1. /\ hits' = hits + 1 /\ hits' \in 1 .. MaxHits
        /\ takeOf'[hits'] = IF capturing /\ source = "pads" THEN take ELSE 0
    BY <1>6, Hits DEF TapPad
  <2>2. CASE capturing /\ source = "pads" /\ playing
    <3>1. pattern' = pattern \cup WritesOf({hits'}) BY <1>6, <2>2 DEF TapPad, Taken, WritesOf
    <3>2. Grows({hits'}) BY <1>6, <2>1, <2>2, <3>1 DEF Grows, TapPad, undo, marks
    <3> QED BY <3>2
  <2>3. CASE ~(capturing /\ source = "pads" /\ playing)
    BY <1>1, <1>6, <2>3 DEF TapPad, Taken
  <2> QED BY <2>2, <2>3
<1>7. CASE Tick
  <2>1. UNCHANGED <<take, transaction, edited>> BY <1>7 DEF Tick, undo, marks
  <2>2. CASE capturing /\ ~playing /\ source = "mic"
    <3>1. pattern' = pattern \cup WritesOf(recording)
      BY <1>7, <2>2 DEF Tick, FinishMicCapture, WritesOf
    <3>2. Grows(recording) BY <2>1, <2>2, <3>1 DEF Grows
    <3> QED BY <3>2
  <2>3. CASE ~(capturing /\ ~playing /\ source = "mic")
    <3>1. pattern' = pattern \cup Taken(InQueue) BY <1>7, <2>3 DEF Tick, InQueue
    <3>2. CASE capturing /\ source = "pads" /\ playing
      <4>1. pattern' = pattern \cup WritesOf(InQueue) BY <3>1, <3>2 DEF Taken, WritesOf
      <4>2. Grows(InQueue) BY <2>1, <3>2, <4>1 DEF Grows
      <4> QED BY <4>2
    <3>3. CASE ~(capturing /\ source = "pads" /\ playing)
      BY <1>1, <3>1, <3>3 DEF Taken
    <3> QED BY <3>2, <3>3
  <2> QED BY <2>2, <2>3
<1> QED BY <1>2, <1>4, <1>5, <1>6, <1>7 DEF Next

LEMMA Grown ==
  ASSUME Types, NEW notes, Grows(notes)
  PROVE  /\ notes \subseteq 1 .. MaxHits
         /\ notes \subseteq 1 .. hits \/ notes = {hits'}
         /\ pattern' \subseteq [hit : 1 .. MaxHits, take : 1 .. MaxTakes,
                               transaction : 0 .. MaxTakes + MaxEdits]
         /\ Kept' = Kept \cup notes
         /\ \A w \in pattern' : \/ w \in pattern
                                \/ /\ w.hit \in notes /\ w.take = take
                                   /\ w.transaction = transaction
         /\ \A w \in pattern' : w.take <= take
<1>1. InQueue \cup recording \subseteq 1 .. hits /\ hits \in 0 .. MaxHits
  BY DEF Types, HistoryOK
<1>2. 1 .. hits \subseteq 1 .. MaxHits BY <1>1, CaptureSessionAssumption
<1>3. notes \subseteq 1 .. MaxHits /\ (notes \subseteq 1 .. hits \/ notes = {hits'})
  BY <1>1, <1>2 DEF Grows
<1>4. capturing \/ notes = {} BY DEF Grows
<1>5. pattern' = pattern \cup WritesOf(notes) BY DEF Grows
<1> QED BY <1>3, <1>4, <1>5, Keeps

(* Where the hits are and go: no step makes one up. *)
LEMMA StepHits ==
  ASSUME Types, [Next]_vars
  PROVE  /\ hits' \in 0 .. MaxHits /\ hits <= hits' /\ hits' <= hits + 1
         /\ takeOf' \in [1 .. MaxHits -> 0 .. MaxTakes]
         /\ \A h \in 1 .. hits : takeOf'[h] = takeOf[h] /\ (h \in onClock' <=> h \in onClock)
         /\ onClock' \subseteq 1 .. hits'
<1>1. ASSUME NEW for, Hit(for)
      PROVE  /\ hits' \in 0 .. MaxHits /\ hits <= hits' /\ hits' <= hits + 1
             /\ takeOf' \in [1 .. MaxHits -> 0 .. MaxTakes]
             /\ \A h \in 1 .. hits : takeOf'[h] = takeOf[h] /\ (h \in onClock' <=> h \in onClock)
             /\ onClock' \subseteq 1 .. hits'
  <2>1. onClock \subseteq 1 .. hits /\ hits \in Nat BY DEF Types, HistoryOK
  <2>2. hits' = hits + 1 /\ hits' \in 1 .. MaxHits /\ onClock' \subseteq onClock \cup {hits'}
    BY <1>1, Hits
  <2>3. onClock' \subseteq 1 .. hits' BY <2>1, <2>2
  <2> QED BY <1>1, <2>1, <2>2, <2>3, Hits
<1>2. ASSUME UNCHANGED <<hits, takeOf, onClock>>
      PROVE  /\ hits' \in 0 .. MaxHits /\ hits <= hits' /\ hits' <= hits + 1
             /\ takeOf' \in [1 .. MaxHits -> 0 .. MaxTakes]
             /\ \A h \in 1 .. hits : takeOf'[h] = takeOf[h] /\ (h \in onClock' <=> h \in onClock)
             /\ onClock' \subseteq 1 .. hits'
  BY <1>2 DEF Types, HistoryOK
<1>3. (\E for : Hit(for)) \/ UNCHANGED <<hits, takeOf, onClock>>
  BY DEF Next, MidiNote, Beatbox, DeviceRestart, ClickRec, ChangeSource, MicFollowsDevice,
         TogglePlay, TapPad, OtherEdit, Tick, vars, played
<1> QED BY <1>1, <1>2, <1>3
-----------------------------------------------------------------------------
LEMMA TypesInit == Init => Types
<1> SUFFICES ASSUME Init PROVE Types OBVIOUS
<1> USE DEF Init
<1>1. InQueue = {} /\ Kept = {} BY DEF InQueue, Kept
<1>2. Cardinality({}) = 0 BY FS_EmptySet
<1>3. <<>> \in Seq(1 .. MaxHits) /\ Len(<<>>) = 0 OBVIOUS
<1>4. TypeOK
  <2>1. queue \in Seq(1 .. MaxHits) /\ Len(queue) <= Capacity
    BY <1>3, CaptureSessionAssumption
  <2>2. {playing, recButton, capturing, armed, inputs, micOffered} \subseteq BOOLEAN BY Zenon
  <2>3. /\ source \in Sources /\ drops \in 0 .. MaxHits /\ recording \subseteq 1 .. MaxHits
        /\ transaction \in 0 .. MaxTakes + MaxEdits
    BY CaptureSessionAssumption DEF Sources
  <2>4. pattern = {} OBVIOUS
  <2> QED BY <2>1, <2>2, <2>3, <2>4 DEF TypeOK
<1>5. HistoryOK
  <2>1. takeOf \in [1 .. MaxHits -> 0 .. MaxTakes] BY CaptureSessionAssumption
  <2>2. drops <= Cardinality(lost) BY <1>2
  <2>3. switched \in BOOLEAN BY Zenon
  <2>4. /\ take \in 0 .. MaxTakes /\ hits \in 0 .. MaxHits /\ transaction <= take + MaxEdits
        /\ reported \in Nat /\ overlooked \in Nat
    BY CaptureSessionAssumption
  <2>5. /\ InQueue \cup recording \cup onClock \cup lost \cup wiped \cup Kept \subseteq 1 .. hits
        /\ \A w \in pattern : w.take <= take
    BY <1>1
  <2> QED BY <2>1, <2>2, <2>3, <2>4, <2>5 DEF HistoryOK
<1> QED BY <1>4, <1>5 DEF Types, Lit

(* The session, the counters, the queue and the sets of history, one        *)
(* group of variables after the other. *)
Flags ==
  /\ playing \in BOOLEAN /\ recButton \in BOOLEAN /\ capturing \in BOOLEAN
  /\ armed \in BOOLEAN /\ inputs \in BOOLEAN /\ micOffered \in BOOLEAN
  /\ source \in Sources /\ switched \in BOOLEAN /\ capturing = recButton

Counters ==
  /\ take \in 0 .. MaxTakes /\ transaction \in 0 .. MaxTakes + MaxEdits
  /\ transaction <= take + MaxEdits /\ reported \in Nat /\ overlooked \in Nat

Queues ==
  /\ queue \in Seq(1 .. MaxHits) /\ Len(queue) <= Capacity /\ drops \in 0 .. MaxHits
  /\ drops <= Cardinality(lost)
  /\ InQueue \cup recording \cup lost \cup wiped \subseteq 1 .. hits

LEMMA FlagsStep == Types /\ [Next]_vars => Flags'
<1> SUFFICES ASSUME Types, [Next]_vars PROVE Flags' OBVIOUS
<1>0. Flags BY DEF Types, TypeOK, HistoryOK, Flags, Lit
<1> USE <1>0 DEF Flags
<1>1. CASE MidiNote BY <1>1 DEF MidiNote, session, mic, marks
<1>2. CASE Beatbox BY <1>2 DEF Beatbox, session, marks
<1>3. CASE DeviceRestart BY <1>3, Zenon DEF DeviceRestart, session, marks
<1>4. CASE ClickRec
  <2>0. UNCHANGED <<playing, source, micOffered, inputs, switched>> BY <1>4 DEF ClickRec, marks
  <2>1. CASE BeginTake(source)
    <3>1. capturing' = TRUE /\ recButton' = TRUE /\ (armed' = TRUE \/ armed' = armed)
      BY <2>1 DEF BeginTake, mic
    <3> QED BY <2>0, <3>1, Zenon
  <2>2. CASE UNCHANGED <<recButton, capturing, midi, mic, undo, pattern, take, ended>>
    BY <2>0, <2>2, Zenon DEF mic
  <2>3. CASE EndTake(source)
    <3>1. capturing' = FALSE /\ recButton' = FALSE /\ (armed' = FALSE \/ armed' = armed)
      BY <2>3 DEF EndTake, FinishMicCapture, mic
    <3> QED BY <2>0, <3>1, Zenon
  <2> QED BY <1>4, <2>1, <2>2, <2>3 DEF ClickRec
<1>5. CASE ChangeSource
  <2>0. /\ UNCHANGED <<playing, micOffered, inputs>> /\ source' \in Sources
        /\ switched' = (switched \/ recButton)
    BY <1>5 DEF ChangeSource
  <2>1. \/ capturing' = FALSE /\ recButton' = FALSE /\ (armed' = FALSE \/ armed' = armed)
        \/ UNCHANGED <<capturing, recButton, armed>>
    BY <1>5 DEF ChangeSource, EndTake, FinishMicCapture, mic
  <2> QED BY <2>0, <2>1, Zenon
<1>6. CASE MicFollowsDevice
  <2>0. source' \in Sources BY <1>6 DEF MicFollowsDevice, Sources
  <2>1. /\ micOffered' = inputs /\ UNCHANGED <<playing, recButton, capturing, armed, inputs>>
        /\ switched' = (switched \/ (recButton /\ source' # source))
    BY <1>6 DEF MicFollowsDevice, mic
  <2> QED BY <2>0, <2>1, Zenon
<1>7. CASE TogglePlay BY <1>7, Zenon DEF TogglePlay, session, mic, marks
<1>8. CASE TapPad BY <1>8 DEF TapPad, session, mic, marks
<1>9. CASE OtherEdit BY <1>9 DEF OtherEdit, session, mic
<1>10. CASE Tick
  <2>1. /\ UNCHANGED <<playing, source, micOffered, inputs, switched>>
        /\ recButton' = (recButton /\ ~(capturing /\ ~playing))
        /\ capturing' = (capturing /\ ~(capturing /\ ~playing))
        /\ armed' = FALSE \/ armed' = armed
    BY <1>10 DEF Tick, FinishMicCapture, mic, marks
  <2> QED BY <2>1, Zenon
<1>11. CASE UNCHANGED vars BY <1>11 DEF vars, session, mic, marks
<1> QED BY <1>1, <1>2, <1>3, <1>4, <1>5, <1>6, <1>7, <1>8, <1>9, <1>10, <1>11 DEF Next

LEMMA CountersStep ==
  Types /\ [Next]_vars => Counters' /\ take <= take' /\ (capturing' => take' > 0)
<1> SUFFICES ASSUME Types, [Next]_vars
             PROVE  Counters' /\ take <= take' /\ (capturing' => take' > 0)
  OBVIOUS
<1>0. /\ Counters /\ take \in Nat /\ drops \in Nat /\ MaxTakes \in Nat /\ MaxEdits \in Nat
      /\ capturing => take > 0
  BY CaptureSessionAssumption DEF Types, TypeOK, HistoryOK, Counters, Lit
<1>1. ASSUME UNCHANGED <<take, transaction>>, capturing' => capturing,
             reported' = reported \/ reported' = reported + drops,
             overlooked' = overlooked \/ overlooked' = overlooked + drops
      PROVE  Counters' /\ take <= take' /\ (capturing' => take' > 0)
  BY <1>0, <1>1 DEF Counters
<1>2. CASE MidiNote \/ Beatbox \/ DeviceRestart \/ MicFollowsDevice \/ TogglePlay \/ TapPad
           \/ UNCHANGED vars
  BY <1>1, <1>2 DEF MidiNote, Beatbox, DeviceRestart, MicFollowsDevice, TogglePlay, TapPad, vars,
                    session, undo, ended
<1>3. CASE ClickRec
  <2>0. /\ reported' = reported
        /\ overlooked' = overlooked \/ overlooked' = overlooked + drops
    BY <1>3 DEF ClickRec, ended, EndsBetweenTicks
  <2>1. CASE BeginTake(source) BY <1>0, <2>0, <2>1 DEF BeginTake, Counters
  <2>2. CASE UNCHANGED <<recButton, capturing, midi, mic, undo, pattern, take, ended>>
    BY <1>1, <2>0, <2>2 DEF undo
  <2>3. CASE EndTake(source) /\ UNCHANGED <<midi, undo, take>>
    BY <1>1, <2>0, <2>3 DEF EndTake, undo
  <2> QED BY <1>3, <2>1, <2>2, <2>3 DEF ClickRec
<1>4. CASE ChangeSource
  BY <1>1, <1>4 DEF ChangeSource, EndTake, undo, ended, EndsBetweenTicks
<1>5. CASE OtherEdit BY <1>0, <1>5 DEF OtherEdit, Counters, session, ended
<1>6. CASE Tick BY <1>1, <1>6 DEF Tick, undo, ended
<1> QED BY <1>2, <1>3, <1>4, <1>5, <1>6 DEF Next

LEMMA QueuesStep == Types /\ [Next]_vars => Queues'
<1> SUFFICES ASSUME Types, [Next]_vars PROVE Queues' OBVIOUS
<1>0. Queues /\ hits \in Nat BY DEF Types, TypeOK, HistoryOK, Queues
<1>1. /\ <<>> \in Seq(1 .. MaxHits) /\ Len(<<>>) = 0 /\ Capacity \in Nat /\ MaxHits \in Nat
      /\ 0 \in 0 .. MaxHits
  BY CaptureSessionAssumption
<1>2. hits' \in Nat /\ 1 .. hits \subseteq 1 .. hits'
  BY <1>0, StepHits
<1>3. Cardinality(lost) \in Nat
  BY <1>0, <1>1, HitSets DEF Types, HistoryOK
<1>4. ASSUME midi' = <<<<>>, 0>>, UNCHANGED <<lost, wiped>>, recording' \subseteq recording
      PROVE  Queues'
  <2>1. InQueue' = {} BY <1>4, NothingQueued DEF InQueue, midi
  <2> QED BY <1>0, <1>1, <1>2, <1>3, <1>4, <2>1 DEF Queues, midi
<1>5. ASSUME UNCHANGED <<midi, lost>>, wiped' \subseteq wiped \cup recording,
             recording' \subseteq recording
      PROVE  Queues'
  <2>1. InQueue' = InQueue BY <1>5 DEF InQueue, midi
  <2> QED BY <1>0, <1>2, <1>5, <2>1 DEF Queues, midi
<1>6. CASE MidiNote
  <2>1. hits' = hits + 1 BY <1>6, Hits DEF MidiNote
  <2>2. /\ queue' \in Seq(1 .. MaxHits) /\ Len(queue') <= Capacity
        /\ drops' \in 0 .. MaxHits /\ drops' <= Cardinality(lost')
        /\ InQueue' \subseteq InQueue \cup {hits'} /\ lost' \subseteq lost \cup {hits'}
    BY <1>6, Pushes DEF MidiNote
  <2>3. UNCHANGED <<recording, wiped>> BY <1>6 DEF MidiNote, mic
  <2>4. hits' \in 1 .. hits' BY <1>0, <2>1
  <2> QED BY <1>0, <1>2, <2>2, <2>3, <2>4 DEF Queues
<1>7. CASE Beatbox
  <2>1. hits' = hits + 1 BY <1>7, Hits DEF Beatbox
  <2>2. hits' \in 1 .. hits' BY <1>0, <2>1
  <2>3. recording' = recording \cup {hits'} /\ UNCHANGED <<queue, drops, lost, wiped>>
    BY <1>7 DEF Beatbox, midi
  <2>4. InQueue' = InQueue BY <2>3 DEF InQueue
  <2> QED BY <1>0, <1>2, <2>2, <2>3, <2>4 DEF Queues
<1>8. CASE DeviceRestart
  BY <1>5, <1>8 DEF DeviceRestart
<1>9. CASE ClickRec
  <2>1. CASE BeginTake(source) BY <1>4, <1>9, <2>1 DEF ClickRec, BeginTake, midi, mic, played
  <2>2. CASE UNCHANGED <<recButton, capturing, midi, mic, undo, pattern, take, ended>>
    BY <1>5, <1>9, <2>2 DEF ClickRec, mic, played
  <2>3. CASE EndTake(source) /\ UNCHANGED <<midi, undo, take>>
    <3>1. recording' \subseteq recording BY <2>3 DEF EndTake, FinishMicCapture, mic
    <3> QED BY <1>5, <1>9, <2>3, <3>1 DEF ClickRec, played
  <2> QED BY <1>9, <2>1, <2>2, <2>3 DEF ClickRec
<1>10. CASE ChangeSource
  <2>1. recording' \subseteq recording
    BY <1>10 DEF ChangeSource, EndTake, FinishMicCapture, mic
  <2> QED BY <1>5, <1>10, <2>1 DEF ChangeSource, played
<1>11. CASE MicFollowsDevice \/ TogglePlay \/ OtherEdit \/ UNCHANGED vars
  BY <1>5, <1>11 DEF MicFollowsDevice, TogglePlay, OtherEdit, vars, mic, played
<1>12. CASE TapPad BY <1>5, <1>12 DEF TapPad, mic
<1>13. CASE Tick
  <2>1. recording' \subseteq recording BY <1>13 DEF Tick, FinishMicCapture, mic
  <2> QED BY <1>4, <1>13, <2>1 DEF Tick, midi, played
<1> QED BY <1>6, <1>7, <1>8, <1>9, <1>10, <1>11, <1>12, <1>13 DEF Next

LEMMA TypesStep == Types /\ [Next]_vars => Types'
<1> SUFFICES ASSUME Types, [Next]_vars PROVE Types' OBVIOUS
<1>1. Flags' /\ Counters' /\ take <= take' /\ (capturing' => take' > 0)
  BY FlagsStep, CountersStep
<1>2. Queues' BY QueuesStep
<1>3. /\ hits' \in 0 .. MaxHits /\ takeOf' \in [1 .. MaxHits -> 0 .. MaxTakes]
      /\ onClock' \subseteq 1 .. hits' /\ hits <= hits' /\ hits' <= hits + 1
  BY StepHits
<1>4. PICK notes : Grows(notes) BY StepGrows
<1>5. /\ pattern' \subseteq [hit : 1 .. MaxHits, take : 1 .. MaxTakes,
                            transaction : 0 .. MaxTakes + MaxEdits]
      /\ Kept' = Kept \cup notes /\ \A w \in pattern' : w.take <= take
      /\ notes \subseteq 1 .. MaxHits /\ (notes \subseteq 1 .. hits \/ notes = {hits'})
  BY <1>4, Grown
<1>6. Kept' \subseteq 1 .. hits'
  <2>1. Kept \subseteq 1 .. hits /\ hits \in Nat BY DEF Types, HistoryOK
  <2> QED BY <1>3, <1>5, <2>1
<1>7. \A w \in pattern' : w.take <= take'
  <2>1. take \in Nat /\ take' \in Nat BY <1>1, CaptureSessionAssumption DEF Types, HistoryOK, Counters
  <2>2. \A w \in pattern' : w.take \in Nat BY <1>5
  <2> QED BY <1>1, <1>5, <2>1, <2>2
<1>8. TypeOK'
  <2>1. recording' \subseteq 1 .. MaxHits BY <1>2, <1>3, CaptureSessionAssumption DEF Queues
  <2> QED BY <1>1, <1>2, <1>5, <2>1 DEF TypeOK, Flags, Counters, Queues
<1>9. HistoryOK'
  BY <1>1, <1>2, <1>3, <1>6, <1>7 DEF HistoryOK, Flags, Counters, Queues
<1>10. Lit' BY <1>1 DEF Flags, Lit
<1> QED BY <1>8, <1>9, <1>10 DEF Types

LEMMA SpecTypes == Spec => []Types
  BY TypesInit, TypesStep, PTL DEF Spec

(* Every variable of the session keeps its type.                            *)
THEOREM SpecTypeOK == Spec => []TypeOK
  BY SpecTypes, PTL DEF Types
-----------------------------------------------------------------------------
(* The recorder runs only for a take, and what it has is that take's.       *)
RecorderOK ==
  /\ RecorderRunsForTakes
  /\ recording # {} => armed
  /\ ~switched => \A h \in recording : takeOf[h] = take

(* While a take of the pads runs, the queue has only that take's notes.     *)
OwnNotes ==
  ~switched /\ capturing /\ source = "pads" => \A h \in InQueue : takeOf[h] = take

TakeInv == Types /\ RecorderOK /\ OwnNotes /\ NothingForeign

LEMMA SwitchedStays == Types /\ [Next]_vars => (switched => switched')
<1> SUFFICES ASSUME Types, [Next]_vars, switched PROVE switched' OBVIOUS
<1>1. \/ switched' = switched \/ switched' = (switched \/ recButton)
      \/ switched' = (switched \/ (recButton /\ source' # source))
  BY DEF Next, MidiNote, Beatbox, DeviceRestart, ClickRec, ChangeSource, MicFollowsDevice,
         TogglePlay, TapPad, OtherEdit, Tick, vars, marks
<1> QED BY <1>1, Zenon

(* No hit that is anywhere changes its take.                                *)
LEMMA TakesStay ==
  ASSUME Types, [Next]_vars
  PROVE  \A h \in InQueue \cup recording \cup onClock \cup lost \cup wiped \cup Kept :
           takeOf'[h] = takeOf[h]
  BY StepHits DEF Types, HistoryOK

LEMMA ForeignStep == TakeInv /\ [Next]_vars => NothingForeign'
<1> SUFFICES ASSUME TakeInv, [Next]_vars, ~switched' PROVE (Foreign = {})'
  BY DEF NothingForeign
<1>0. ~switched /\ Types BY SwitchedStays DEF TakeInv
<1>1. PICK notes : Grows(notes) BY <1>0, StepGrows
<1>2. \A h \in InQueue \cup recording \cup Kept : takeOf'[h] = takeOf[h] BY <1>0, TakesStay
<1>3. \A h \in notes : takeOf'[h] = take
  <2>1. capturing \/ notes = {} BY <1>1 DEF Grows
  <2>2. \A h \in recording : takeOf[h] = take BY <1>0 DEF TakeInv, RecorderOK
  <2>3. capturing /\ source = "pads" => \A h \in InQueue : takeOf[h] = take
    BY <1>0 DEF TakeInv, OwnNotes
  <2> QED BY <1>1, <1>2, <2>1, <2>2, <2>3 DEF Grows
<1>4. ASSUME NEW w \in pattern' PROVE takeOf'[w.hit] = w.take
  <2>1. CASE w \in pattern
    <3>1. w.hit \in Kept /\ takeOf[w.hit] = w.take
      BY <1>0, <2>1 DEF TakeInv, NothingForeign, Foreign, Kept
    <3> QED BY <1>2, <3>1
  <2>2. CASE w.hit \in notes /\ w.take = take BY <1>3, <2>2
  <2> QED BY <1>0, <1>1, <1>4, <2>1, <2>2, Grown
<1> QED BY <1>4 DEF Foreign

LEMMA RecorderStep == TakeInv /\ [Next]_vars => RecorderOK'
<1> SUFFICES ASSUME TakeInv, [Next]_vars PROVE RecorderOK' OBVIOUS
<1>0. /\ Types /\ capturing = recButton
      /\ \A h \in recording : takeOf'[h] = takeOf[h]
      /\ switched => switched'
      /\ armed => switched \/ (capturing /\ source = "mic")
      /\ recording # {} => armed
      /\ ~switched => \A h \in recording : takeOf[h] = take
  BY TakesStay, SwitchedStays DEF TakeInv, Types, Lit, RecorderOK, RecorderRunsForTakes
<1>1. ASSUME UNCHANGED <<mic, take>>,
             (capturing /\ source = "mic") => switched' \/ (capturing' /\ source' = "mic")
      PROVE  RecorderOK'
  BY <1>0, <1>1 DEF RecorderOK, RecorderRunsForTakes, mic
<1>2. ASSUME armed' = FALSE, recording' = {} PROVE RecorderOK'
  BY <1>2, Zenon DEF RecorderOK, RecorderRunsForTakes
<1>3. CASE MidiNote \/ TogglePlay \/ TapPad \/ OtherEdit \/ UNCHANGED vars
  BY <1>1, <1>3 DEF MidiNote, TogglePlay, TapPad, OtherEdit, vars, session
<1>4. CASE Beatbox
  <2>1. /\ armed /\ recording' = recording \cup {hits'}
        /\ UNCHANGED <<armed, take, switched, capturing, source>>
    BY <1>4 DEF Beatbox, marks, session
  <2>2. takeOf'[hits'] = IF capturing /\ source = "mic" THEN take ELSE 0
    BY <1>0, <1>4, Hits DEF Beatbox
  <2>3. ~switched => capturing /\ source = "mic" BY <1>0, <2>1
  <2>4. ~switched' => \A h \in recording' : takeOf'[h] = take' BY <1>0, <2>1, <2>2, <2>3
  <2>5. armed' /\ RecorderRunsForTakes' BY <1>0, <2>1 DEF RecorderRunsForTakes
  <2> QED BY <2>4, <2>5 DEF RecorderOK
<1>5. CASE DeviceRestart BY <1>2, <1>5 DEF DeviceRestart
<1>6. ASSUME NEW src, EndTake(src), UNCHANGED take, src = source \/ ~capturing \/ switched'
      PROVE  RecorderOK'
  <2>1. CASE capturing /\ src = "mic" BY <1>2, <1>6, <2>1 DEF EndTake, FinishMicCapture
  <2>2. CASE ~(capturing /\ src = "mic") BY <1>1, <1>6, <2>2 DEF EndTake
  <2> QED BY <2>1, <2>2
<1>7. CASE ClickRec
  <2>0. UNCHANGED <<source, switched>> BY <1>7 DEF ClickRec, marks
  <2>1. CASE ~recButton /\ BeginTake(source)
    <3>1. CASE source = "mic"
      <4>1. armed' = TRUE /\ recording' = {} /\ capturing' = TRUE BY <2>1, <3>1 DEF BeginTake
      <4> QED BY <2>0, <3>1, <4>1, Zenon DEF RecorderOK, RecorderRunsForTakes
    <3>2. CASE source # "mic"
      <4>1. UNCHANGED mic BY <2>1, <3>2 DEF BeginTake
      <4>2. ~capturing BY <1>0, <2>1
      <4>3. recording' = {} \/ switched BY <1>0, <4>1, <4>2 DEF mic
      <4> QED BY <1>0, <2>0, <4>1, <4>2, <4>3 DEF RecorderOK, RecorderRunsForTakes, mic
    <3> QED BY <3>1, <3>2
  <2>2. CASE UNCHANGED <<recButton, capturing, midi, mic, undo, pattern, take, ended>>
    BY <1>1, <2>0, <2>2
  <2>3. CASE EndTake(source) /\ UNCHANGED <<midi, undo, take>> BY <1>6, <2>3
  <2> QED BY <1>7, <2>1, <2>2, <2>3 DEF ClickRec
<1>8. CASE ChangeSource
  <2>1. UNCHANGED take /\ switched' = (switched \/ recButton) BY <1>8 DEF ChangeSource
  <2>2. CASE EndTake(source')
    <3>1. ~capturing \/ switched' BY <1>0, <2>1
    <3> QED BY <1>6, <2>1, <2>2, <3>1
  <2>3. CASE ~recButton /\ UNCHANGED <<recButton, capturing, mic, pattern>>
    <3>1. ~capturing BY <1>0, <2>3
    <3> QED BY <1>1, <2>1, <2>3, <3>1
  <2> QED BY <1>8, <2>2, <2>3 DEF ChangeSource
<1>9. CASE MicFollowsDevice
  <2>1. /\ UNCHANGED <<mic, take, capturing>>
        /\ switched' = (switched \/ (recButton /\ source' # source))
    BY <1>9 DEF MicFollowsDevice
  <2>2. (capturing /\ source = "mic") => switched' \/ (capturing' /\ source' = "mic")
    BY <1>0, <2>1
  <2> QED BY <1>1, <2>1, <2>2
<1>10. CASE Tick
  <2>1. UNCHANGED <<take, source>> /\ capturing' = (capturing /\ ~(capturing /\ ~playing))
    BY <1>10 DEF Tick
  <2>2. CASE capturing /\ ~playing /\ source = "mic"
    BY <1>2, <1>10, <2>2 DEF Tick, FinishMicCapture
  <2>3. CASE ~(capturing /\ ~playing /\ source = "mic")
    <3>1. UNCHANGED mic BY <1>10, <2>3 DEF Tick
    <3> QED BY <1>1, <2>1, <2>3, <3>1
  <2> QED BY <2>2, <2>3
<1> QED BY <1>3, <1>4, <1>5, <1>7, <1>8, <1>9, <1>10 DEF Next
(* What a step does with the queue: nothing, a note more, or all of it out. *)
LEMMA StepQueue ==
  ASSUME Types, [Next]_vars
  PROVE  \/ /\ UNCHANGED <<queue, capturing, source, take, playing>> /\ InQueue' = InQueue
         \/ /\ hits' = hits + 1 /\ hits' \in 1 .. MaxHits
            /\ InQueue' \subseteq InQueue \cup {hits'}
            /\ takeOf'[hits'] = IF capturing /\ source = "pads" THEN take ELSE 0
            /\ hits' \in onClock' <=> playing
            /\ UNCHANGED <<capturing, source, take, playing>>
         \/ InQueue' = {} /\ (ClickRec \/ Tick)
         \/ /\ InQueue' = InQueue /\ UNCHANGED <<queue, take>>
            /\ \/ ~capturing' /\ InQueue \subseteq late' /\ UNCHANGED playing
               \/ UNCHANGED <<capturing, playing>> /\ (~capturing \/ source' = source \/ switched')
               \/ /\ playing' = ~playing /\ (playing => InQueue \subseteq late')
                  /\ UNCHANGED <<capturing, source>>
<1>0. capturing = recButton /\ capturing \in BOOLEAN BY DEF Types, TypeOK, Lit
<1>1. UNCHANGED queue => InQueue' = InQueue BY DEF InQueue
<1>2. queue' = <<>> => InQueue' = {} BY NothingQueued DEF InQueue
<1>3. CASE MidiNote
  <2>1. InQueue' \subseteq InQueue \cup {hits'} BY <1>3, Pushes DEF MidiNote
  <2>2. /\ hits' = hits + 1 /\ hits' \in 1 .. MaxHits
        /\ takeOf'[hits'] = IF capturing /\ source = "pads" THEN take ELSE 0
        /\ hits' \in onClock' <=> playing
    BY <1>3, Hits DEF MidiNote
  <2> QED BY <1>3, <2>1, <2>2 DEF MidiNote, session
<1>4. CASE Beatbox \/ DeviceRestart \/ TapPad \/ OtherEdit \/ UNCHANGED vars
  BY <1>1, <1>4 DEF Beatbox, DeviceRestart, TapPad, OtherEdit, vars, midi, session
<1>5. CASE ClickRec
  <2>1. CASE BeginTake(source) BY <1>2, <1>5, <2>1 DEF BeginTake
  <2>2. CASE UNCHANGED <<recButton, capturing, midi, mic, undo, pattern, take, ended>>
    BY <1>1, <1>5, <2>2 DEF ClickRec, midi
  <2>3. CASE /\ recButton /\ EndTake(source) /\ EndsBetweenTicks
             /\ UNCHANGED <<midi, undo, take>>
    BY <1>1, <1>5, <2>3 DEF ClickRec, EndTake, EndsBetweenTicks, midi
  <2> QED BY <1>5, <2>1, <2>2, <2>3 DEF ClickRec
<1>6. CASE ChangeSource
  <2>1. UNCHANGED <<playing, queue, take>> BY <1>6 DEF ChangeSource, midi
  <2>2. CASE EndTake(source') /\ EndsBetweenTicks
    BY <1>1, <2>1, <2>2 DEF EndTake, EndsBetweenTicks
  <2>3. CASE ~recButton /\ UNCHANGED capturing BY <1>0, <1>1, <2>1, <2>3
  <2> QED BY <1>6, <2>2, <2>3 DEF ChangeSource
<1>7. CASE MicFollowsDevice
  <2>1. UNCHANGED <<playing, queue, take, capturing>> BY <1>7 DEF MicFollowsDevice, midi
  <2>2. switched' = (switched \/ (recButton /\ source' # source)) BY <1>7 DEF MicFollowsDevice
  <2>3. ~capturing \/ source' = source \/ switched' BY <1>0, <2>2
  <2> QED BY <1>1, <2>1, <2>3
<1>8. CASE TogglePlay BY <1>1, <1>8 DEF TogglePlay, midi, session
<1>9. CASE Tick BY <1>2, <1>9 DEF Tick
<1> QED BY <1>3, <1>4, <1>5, <1>6, <1>7, <1>8, <1>9 DEF Next

LEMMA OwnNotesStep == TakeInv /\ [Next]_vars => OwnNotes'
<1> SUFFICES ASSUME TakeInv, [Next]_vars, ~switched', capturing', source' = "pads"
             PROVE  \A h \in InQueue' : takeOf'[h] = take'
  BY DEF OwnNotes
<1>0. /\ Types /\ ~switched /\ \A h \in InQueue : takeOf'[h] = takeOf[h]
      /\ capturing /\ source = "pads" => \A h \in InQueue : takeOf[h] = take
  BY SwitchedStays, TakesStay DEF TakeInv, OwnNotes
<1>1. capturing' = recButton' BY <1>0, TypesStep DEF Types, Lit
<1>2. ASSUME ~capturing PROVE InQueue' = {}
  <2>1. ClickRec
    <3>1. recButton = FALSE /\ recButton' = TRUE
      <4>1. capturing = recButton /\ recButton \in BOOLEAN /\ recButton' \in BOOLEAN
        BY <1>0, TypesStep DEF Types, Lit, TypeOK
      <4> QED BY <1>1, <1>2, <4>1, Zenon
    <3> QED BY <3>1, <1>2 DEF Next, MidiNote, Beatbox, DeviceRestart, ChangeSource, EndTake,
                    MicFollowsDevice, TogglePlay, TapPad, OtherEdit, Tick, vars, session
  <2>2. BeginTake(source)
    BY <2>1, <1>2 DEF ClickRec, EndTake
  <2> QED BY <2>2, NothingQueued DEF BeginTake, InQueue
<1>3. CASE InQueue' = {} BY <1>3
<1>4. CASE capturing /\ InQueue' # {}
  <2>1. ASSUME UNCHANGED <<capturing, take>>, source' = source, InQueue' = InQueue
        PROVE  \A h \in InQueue' : takeOf'[h] = take'
    BY <1>0, <1>4, <2>1
  <2> QED BY <1>0, <1>4, <2>1, StepQueue
<1> QED BY <1>2, <1>3, <1>4

LEMMA TakeInvInit == Init => TakeInv
<1> SUFFICES ASSUME Init PROVE TakeInv OBVIOUS
<1>1. armed = FALSE /\ recording = {} /\ queue = <<>> /\ pattern = {} BY DEF Init
<1>2. InQueue = {} BY <1>1, NothingQueued DEF InQueue
<1>3. Types BY TypesInit
<1>4. RecorderOK BY <1>1, Zenon DEF RecorderOK, RecorderRunsForTakes
<1>5. OwnNotes BY <1>2 DEF OwnNotes
<1>6. NothingForeign BY <1>1 DEF NothingForeign, Foreign
<1> QED BY <1>3, <1>4, <1>5, <1>6 DEF TakeInv

LEMMA SpecTakeInv == Spec => []TakeInv
<1>1. TakeInv /\ [Next]_vars => TakeInv'
  <2>1. TakeInv => Types BY DEF TakeInv
  <2> QED BY <2>1, TypesStep, RecorderStep, OwnNotesStep, ForeignStep DEF TakeInv
<1> QED BY <1>1, TakeInvInit, PTL DEF Spec

(* However takes of the pads and of the microphone follow one another, and   *)
(* however the device restarts under them: the recorder never runs on after *)
(* a take, as long as the source is left alone during one.                  *)
THEOREM SpecRecorderRunsForTakes == Spec => []RecorderRunsForTakes
<1>1. TakeInv => RecorderRunsForTakes BY DEF TakeInv, RecorderOK
<1> QED BY <1>1, SpecTakeInv, PTL

(* A take holds only what was played for it, whatever was queued before REC  *)
(* and however late the timer drains the queue.                             *)
THEOREM SpecNothingForeign == Spec => []NothingForeign
<1>1. TakeInv => NothingForeign BY DEF TakeInv
<1> QED BY <1>1, SpecTakeInv, PTL
-----------------------------------------------------------------------------
(* What a running take wrote is of the open transaction, or another edit    *)
(* has closed that one. *)
OpenTake ==
  capturing => \A w \in pattern :
                 w.take = take => w.transaction = transaction \/ take \in edited

UndoInv == Types /\ OpenTake /\ OneUndoPerTake

(* The take goes on, or another begins, or an edit comes between.           *)
LEMMA StepUndo ==
  ASSUME Types, [Next]_vars
  PROVE  /\ edited \subseteq edited'
         /\ \/ (capturing' => capturing) /\ UNCHANGED <<take, transaction, edited>>
            \/ take' = take + 1 /\ pattern' = pattern
            \/ /\ UNCHANGED <<take, capturing, pattern>>
               /\ edited' = IF capturing THEN edited \cup {take} ELSE edited
<1>1. CASE MidiNote \/ Beatbox \/ DeviceRestart \/ MicFollowsDevice \/ TogglePlay \/ TapPad
           \/ UNCHANGED vars
  <2>1. UNCHANGED <<capturing, take, transaction, edited>>
    BY <1>1 DEF MidiNote, Beatbox, DeviceRestart, MicFollowsDevice, TogglePlay, TapPad, vars,
                session, undo, marks
  <2> QED BY <2>1
<1>2. CASE ClickRec
  <2>1. edited' = edited BY <1>2 DEF ClickRec, marks
  <2>2. CASE BeginTake(source) /\ UNCHANGED pattern BY <2>1, <2>2 DEF BeginTake
  <2>3. CASE UNCHANGED <<recButton, capturing, midi, mic, undo, pattern, take, ended>>
    BY <2>1, <2>3 DEF undo
  <2>4. CASE EndTake(source) /\ UNCHANGED <<midi, undo, take>>
    BY <2>1, <2>4 DEF EndTake, undo
  <2> QED BY <1>2, <2>2, <2>3, <2>4 DEF ClickRec
<1>3. CASE ChangeSource BY <1>3 DEF ChangeSource, EndTake, undo
<1>4. CASE OtherEdit BY <1>4 DEF OtherEdit, session
<1>5. CASE Tick
  <2>1. /\ capturing' = (capturing /\ ~(capturing /\ ~playing))
        /\ UNCHANGED <<take, transaction, edited>>
    BY <1>5 DEF Tick, undo, marks
  <2> QED BY <2>1
<1> QED BY <1>1, <1>2, <1>3, <1>4, <1>5 DEF Next

LEMMA UndoStep == UndoInv /\ [Next]_vars => UndoInv'
<1> SUFFICES ASSUME UndoInv, [Next]_vars PROVE UndoInv' OBVIOUS
<1>0. Types /\ OpenTake /\ OneUndoPerTake BY DEF UndoInv
<1>1. PICK notes : Grows(notes) BY <1>0, StepGrows
<1>2. ASSUME NEW w \in pattern'
      PROVE  w \in pattern \/ (capturing /\ w.take = take /\ w.transaction = transaction)
  <2>1. notes # {} => capturing BY <1>1 DEF Grows
  <2>2. \/ w \in pattern
        \/ w.hit \in notes /\ w.take = take /\ w.transaction = transaction
    BY <1>0, <1>1, Grown
  <2> QED BY <2>1, <2>2
<1>3. edited \subseteq edited' BY <1>0, StepUndo
<1>4. OneUndoPerTake'
  <2> SUFFICES ASSUME NEW v \in pattern', NEW w \in pattern', v.take = w.take
               PROVE  v.transaction = w.transaction \/ v.take \in edited
    BY <1>3 DEF OneUndoPerTake
  <2>1. CASE v \in pattern /\ w \in pattern BY <1>0, <2>1 DEF OneUndoPerTake
  <2>2. CASE v \in pattern /\ capturing /\ w.take = take /\ w.transaction = transaction
    BY <1>0, <2>2 DEF OpenTake
  <2>3. CASE w \in pattern /\ capturing /\ v.take = take /\ v.transaction = transaction
    BY <1>0, <2>3 DEF OpenTake
  <2> QED BY <1>2, <2>1, <2>2, <2>3
<1>5. OpenTake'
  <2> SUFFICES ASSUME capturing', NEW w \in pattern', w.take = take'
               PROVE  w.transaction = transaction' \/ take' \in edited'
    BY DEF OpenTake
  <2>1. CASE (capturing' => capturing) /\ UNCHANGED <<take, transaction, edited>>
    BY <1>0, <1>2, <2>1 DEF OpenTake
  <2>2. CASE take' = take + 1 /\ pattern' = pattern
    <3>1. w.take <= take /\ take \in Nat
      BY <1>0, <2>2, CaptureSessionAssumption DEF Types, HistoryOK
    <3> QED BY <2>2, <3>1
  <2>3. CASE /\ UNCHANGED <<take, capturing, pattern>>
             /\ edited' = IF capturing THEN edited \cup {take} ELSE edited
    BY <2>3
  <2> QED BY <1>0, <2>1, <2>2, <2>3, StepUndo
<1>6. Types' BY <1>0, TypesStep
<1> QED BY <1>4, <1>5, <1>6 DEF UndoInv

(* MainComponent.cpp:1290: one Ctrl+Z takes a take back, whole, unless an    *)
(* edit was made while REC was lit.                                         *)
THEOREM SpecOneUndoPerTake == Spec => []OneUndoPerTake
<1>1. Init => UndoInv
  <2> SUFFICES ASSUME Init PROVE UndoInv OBVIOUS
  <2>1. pattern = {} BY DEF Init
  <2> QED BY <2>1, TypesInit DEF UndoInv, OpenTake, OneUndoPerTake
<1>2. UndoInv => OneUndoPerTake BY DEF UndoInv
<1> QED BY <1>1, <1>2, UndoStep, PTL DEF Spec

-----------------------------------------------------------------------------
(* What waits in the queue is of the running take of the pads, or of none;   *)
(* with the transport stopped it is off the grid anyway. Or it is late.     *)
Waiting ==
  \A h \in InQueue : h \in late \/
    /\ ~switched => takeOf[h] = IF capturing /\ source = "pads" THEN take ELSE 0
    /\ ~playing => h \notin onClock

(* Where the hits of takes are.                                             *)
Accounted ==
  ~switched => \A h \in onClock :
    takeOf[h] > 0 => h \in Kept \cup lost \cup wiped \cup late \cup recording \cup InQueue

LostInv == TakeInv /\ Waiting /\ Accounted

LEMMA LateStays ==
  ASSUME [Next]_vars
  PROVE  late \subseteq late'
<1>1. CASE ClickRec BY <1>1 DEF ClickRec, EndsBetweenTicks, ended
<1>2. CASE ChangeSource BY <1>2 DEF ChangeSource, EndsBetweenTicks, ended
<1>3. CASE TogglePlay BY <1>3 DEF TogglePlay
<1>4. ASSUME UNCHANGED ended PROVE late \subseteq late' BY <1>4 DEF ended
<1>5. CASE ~ClickRec /\ ~ChangeSource /\ ~TogglePlay
  <2>1. UNCHANGED ended
    BY <1>5 DEF Next, MidiNote, Beatbox, DeviceRestart, MicFollowsDevice, TapPad, OtherEdit, Tick,
                vars
  <2> QED BY <1>4, <2>1
<1> QED BY <1>1, <1>2, <1>3, <1>5

LEMMA WaitingStep == LostInv /\ [Next]_vars => Waiting'
<1> SUFFICES ASSUME LostInv, [Next]_vars, NEW h \in InQueue', h \notin late'
             PROVE  /\ ~switched' => takeOf'[h] = (IF capturing /\ source = "pads" THEN take ELSE 0)'
                    /\ ~playing' => h \notin onClock'
  BY DEF Waiting
<1>0. /\ Types
      /\ switched => switched'
      /\ h \in InQueue =>
           /\ takeOf'[h] = takeOf[h] /\ (h \in onClock' <=> h \in onClock)
           /\ ~switched => takeOf[h] = IF capturing /\ source = "pads" THEN take ELSE 0
           /\ ~playing => h \notin onClock
  <2>1. Types /\ Waiting BY DEF LostInv, TakeInv
  <2>2. InQueue \subseteq 1 .. hits BY <2>1 DEF Types, HistoryOK
  <2>3. h \notin late BY LateStays
  <2> QED BY <2>1, <2>2, <2>3, StepHits, SwitchedStays DEF Waiting
<1>1. CASE UNCHANGED <<queue, capturing, source, take, playing>> /\ InQueue' = InQueue
  BY <1>0, <1>1
<1>2. CASE /\ hits' = hits + 1 /\ InQueue' \subseteq InQueue \cup {hits'}
           /\ takeOf'[hits'] = IF capturing /\ source = "pads" THEN take ELSE 0
           /\ hits' \in onClock' <=> playing
           /\ UNCHANGED <<capturing, source, take, playing>>
  <2>1. CASE h \in InQueue BY <1>0, <1>2, <2>1
  <2>2. CASE h = hits' BY <1>2, <2>2
  <2> QED BY <1>2, <2>1, <2>2
<1>3. CASE InQueue' = {} BY <1>3
<1>4. CASE InQueue' = InQueue /\ InQueue \subseteq late' BY <1>4
<1>5. CASE /\ InQueue' = InQueue /\ UNCHANGED <<take, capturing, playing>>
           /\ ~capturing \/ source' = source \/ switched'
  BY <1>0, <1>5
<1>6. CASE /\ InQueue' = InQueue /\ UNCHANGED <<take, capturing, source>>
           /\ playing' = ~playing /\ (playing => InQueue \subseteq late')
  <2>1. CASE playing BY <1>4, <1>6, <2>1
  <2>2. CASE ~playing BY <1>0, <1>6, <2>2
  <2> QED BY <2>1, <2>2
<1> QED BY <1>0, <1>1, <1>2, <1>3, <1>4, <1>5, <1>6, StepQueue

LEMMA AccountedStep == LostInv /\ [Next]_vars => Accounted'
<1> SUFFICES ASSUME LostInv, [Next]_vars, ~switched',
                    NEW h \in onClock', takeOf'[h] > 0
             PROVE  h \in Kept' \cup lost' \cup wiped' \cup late' \cup recording' \cup InQueue'
  BY DEF Accounted
<1>0. Types /\ Waiting /\ Accounted /\ RecorderOK /\ ~switched
  BY SwitchedStays DEF LostInv, TakeInv
<1>1. /\ h \in 1 .. hits => /\ takeOf'[h] = takeOf[h]
                           /\ h \in Kept \cup lost \cup wiped \cup late \cup recording \cup InQueue
      /\ h \in 1 .. hits \/ h = hits'
  <2>1. h \in 1 .. hits \/ h = hits'
    <3>1. h \in 1 .. hits' /\ hits' <= hits + 1 /\ hits \in Nat /\ hits' \in Nat
      BY <1>0, StepHits, CaptureSessionAssumption DEF Types, HistoryOK
    <3> QED BY <3>1
  <2>2. h \in 1 .. hits => takeOf'[h] = takeOf[h] /\ h \in onClock BY <1>0, StepHits
  <2> QED BY <1>0, <2>1, <2>2 DEF Accounted
<1>2. Kept \subseteq Kept' /\ late \subseteq late' BY <1>0, StepGrows, Grown, LateStays
<1>3. ASSUME UNCHANGED <<hits, lost, wiped, recording>>, InQueue' = InQueue
      PROVE  h \in Kept' \cup lost' \cup wiped' \cup late' \cup recording' \cup InQueue'
  <2>1. h \in 1 .. hits
    BY <1>0, <1>3, StepHits
  <2> QED BY <1>1, <1>2, <1>3, <2>1
<1>4. UNCHANGED queue => InQueue' = InQueue BY DEF InQueue
<1>5. CASE MidiNote
  <2>1. /\ UNCHANGED <<recording, wiped>> /\ lost \subseteq lost'
        /\ InQueue \cup lost \cup {hits'} \subseteq InQueue' \cup lost'
    BY <1>0, <1>5, Pushes DEF MidiNote, mic
  <2> QED BY <1>1, <1>2, <2>1
<1>6. CASE Beatbox
  <2>1. /\ recording' = recording \cup {hits'} /\ UNCHANGED <<lost, wiped>>
        /\ InQueue' = InQueue
    BY <1>4, <1>6 DEF Beatbox, midi
  <2> QED BY <1>1, <1>2, <2>1
<1>7. CASE DeviceRestart
  <2>1. wiped' = wiped \cup recording /\ UNCHANGED <<hits, lost>> /\ InQueue' = InQueue
    BY <1>4, <1>7 DEF DeviceRestart, midi
  <2>2. h \in 1 .. hits BY <1>0, <2>1, StepHits
  <2> QED BY <1>1, <1>2, <2>1, <2>2
<1>8. ASSUME UNCHANGED <<hits, lost, wiped>>, InQueue' = InQueue,
             \/ UNCHANGED recording
             \/ pattern' = pattern \cup WritesOf(recording)
      PROVE  h \in Kept' \cup lost' \cup wiped' \cup late' \cup recording' \cup InQueue'
  <2>1. CASE UNCHANGED recording BY <1>3, <1>8, <2>1
  <2>2. CASE pattern' = pattern \cup WritesOf(recording)
    <3>1. recording \subseteq Kept'
      <4>1. \A x \in recording : Write(x) \in pattern' /\ Write(x).hit = x
        BY <2>2 DEF WritesOf, Write
      <4> QED BY <4>1 DEF Kept
    <3>2. h \in 1 .. hits BY <1>0, <1>8, StepHits
    <3> QED BY <1>1, <1>2, <1>8, <3>1, <3>2
  <2> QED BY <1>8, <2>1, <2>2
<1>9. ASSUME NEW src, EndTake(src)
      PROVE  UNCHANGED recording \/ pattern' = pattern \cup WritesOf(recording)
  BY <1>9 DEF EndTake, FinishMicCapture, WritesOf, mic
<1>10. CASE ClickRec
  <2>0. UNCHANGED <<hits, lost, wiped>> BY <1>10 DEF ClickRec, played
  <2>1. CASE ~recButton /\ BeginTake(source)
    <3>1. ~capturing BY <1>0, <2>1 DEF Types, Lit
    <3>2. recording = {} BY <1>0, <3>1 DEF RecorderOK, RecorderRunsForTakes
    <3>3. h \in 1 .. hits BY <1>0, <2>0, StepHits
    <3>4. \A x \in InQueue : x \in late \/ takeOf[x] = 0 BY <1>0, <3>1 DEF Waiting
    <3>5. h \notin InQueue \/ h \in late BY <1>1, <3>3, <3>4
    <3> QED BY <1>1, <1>2, <2>0, <3>2, <3>3, <3>5
  <2>2. CASE UNCHANGED <<recButton, capturing, midi, mic, undo, pattern, take, ended>>
    BY <1>4, <1>8, <2>0, <2>2 DEF midi, mic
  <2>3. CASE EndTake(source) /\ UNCHANGED <<midi, undo, take>>
    BY <1>4, <1>8, <1>9, <2>0, <2>3 DEF midi
  <2> QED BY <1>10, <2>1, <2>2, <2>3 DEF ClickRec
<1>11. CASE ChangeSource
  <2>1. UNCHANGED <<hits, lost, wiped, queue>> BY <1>11 DEF ChangeSource, played, midi
  <2>2. UNCHANGED recording \/ pattern' = pattern \cup WritesOf(recording)
    BY <1>9, <1>11 DEF ChangeSource, mic
  <2> QED BY <1>4, <1>8, <2>1, <2>2
<1>12. CASE MicFollowsDevice \/ TogglePlay \/ OtherEdit \/ UNCHANGED vars
  <2>1. UNCHANGED <<hits, lost, wiped, recording, queue>>
    BY <1>12 DEF MicFollowsDevice, TogglePlay, OtherEdit, vars, played, midi, mic
  <2> QED BY <1>3, <1>4, <2>1
<1>13. CASE TapPad
  <2>1. UNCHANGED <<lost, wiped, recording>> /\ InQueue' = InQueue
    BY <1>4, <1>13 DEF TapPad, midi, mic
  <2>2. CASE h \in 1 .. hits BY <1>1, <1>2, <2>1, <2>2
  <2>3. CASE h = hits'
    <3>1. capturing /\ source = "pads" /\ playing
      <4>1. /\ takeOf'[hits'] = IF capturing /\ source = "pads" THEN take ELSE 0
            /\ hits' \in onClock' <=> playing
        BY <1>0, <1>13, Hits DEF TapPad
      <4> QED BY <2>3, <4>1
    <3>2. Write(hits') \in pattern' /\ Write(hits').hit = hits'
      BY <1>13, <3>1 DEF TapPad, Taken, Write
    <3> QED BY <2>3, <3>2 DEF Kept
  <2> QED BY <1>1, <2>2, <2>3
<1>14. CASE Tick
  <2>1. UNCHANGED <<hits, lost, wiped>> BY <1>14 DEF Tick, played
  <2>2. h \in 1 .. hits BY <1>0, <2>1, StepHits
  <2>3. takeOf[h] > 0 /\ h \in onClock BY <1>0, <1>1, <2>2, StepHits
  <2>4. CASE capturing /\ ~playing /\ source = "mic"
    <3>1. pattern' = pattern \cup WritesOf(recording)
      BY <1>14, <2>4 DEF Tick, FinishMicCapture, WritesOf
    <3>2. recording \subseteq Kept'
      <4>1. \A x \in recording : Write(x) \in pattern' /\ Write(x).hit = x
        BY <3>1 DEF WritesOf, Write
      <4> QED BY <4>1 DEF Kept
    <3>3. h \notin InQueue \/ h \in late BY <1>0, <2>3, <2>4 DEF Waiting
    <3> QED BY <1>1, <1>2, <2>1, <2>2, <3>2, <3>3
  <2>5. CASE ~(capturing /\ ~playing /\ source = "mic")
    <3>1. recording' = recording /\ pattern' = pattern \cup Taken(InQueue)
      BY <1>14, <2>5 DEF Tick, mic, InQueue
    <3>2. CASE capturing /\ source = "pads" /\ playing
      <4>1. \A x \in InQueue : Write(x) \in pattern' /\ Write(x).hit = x
        BY <3>1, <3>2 DEF Taken, Write
      <4>2. InQueue \subseteq Kept' BY <4>1 DEF Kept
      <4> QED BY <1>1, <1>2, <2>1, <2>2, <3>1, <4>2
    <3>3. CASE ~(capturing /\ source = "pads" /\ playing)
      <4>1. h \notin InQueue \/ h \in late BY <1>0, <2>3, <3>3 DEF Waiting
      <4> QED BY <1>1, <1>2, <2>1, <2>2, <3>1, <4>1
    <3> QED BY <3>2, <3>3
  <2> QED BY <2>4, <2>5
<1> QED BY <1>5, <1>6, <1>7, <1>10, <1>11, <1>12, <1>13, <1>14 DEF Next

(* MainComponent.cpp:1995: however ticks, notes, takes, the transport and    *)
(* the device interleave, a note played on the running clock for a take is  *)
(* in the pattern, or was dropped by a full queue, or went with the device, *)
(* or no tick came between it and the end of the clock or of the take.      *)
THEOREM SpecEveryNoteAccounted == Spec => []EveryNoteAccounted
<1>1. Init => LostInv
  <2> SUFFICES ASSUME Init PROVE LostInv OBVIOUS
  <2>1. queue = <<>> /\ onClock = {} BY DEF Init
  <2>2. InQueue = {} BY <2>1, NothingQueued DEF InQueue
  <2>3. Waiting /\ Accounted BY <2>1, <2>2 DEF Waiting, Accounted
  <2> QED BY <2>3, TakeInvInit DEF LostInv
<1>2. LostInv /\ [Next]_vars => LostInv'
  <2>1. LostInv => TakeInv /\ Types BY DEF LostInv, TakeInv
  <2>2. TakeInv /\ [Next]_vars => TakeInv'
    BY <2>1, TypesStep, RecorderStep, OwnNotesStep, ForeignStep DEF TakeInv
  <2> QED BY <2>1, <2>2, WaitingStep, AccountedStep DEF LostInv
<1>3. LostInv => EveryNoteAccounted
  <2> SUFFICES ASSUME LostInv, ~capturing, queue = <<>>, ~switched,
                      NEW t \in 1 .. take, NEW h \in NotesOf(t)
               PROVE  h \in Kept \cup lost \cup wiped \cup late
    BY DEF EveryNoteAccounted, TakesOver
  <2>1. InQueue = {} BY NothingQueued DEF InQueue
  <2>2. recording = {} BY DEF LostInv, TakeInv, RecorderOK, RecorderRunsForTakes
  <2>3. h \in onClock /\ takeOf[h] > 0
    BY CaptureSessionAssumption DEF NotesOf, LostInv, TakeInv, Types, HistoryOK
  <2> QED BY <2>1, <2>2, <2>3 DEF LostInv, Accounted
<1> QED BY <1>1, <1>2, <1>3, PTL DEF Spec
-----------------------------------------------------------------------------
(* What the status line has shown, and what it will show at the next tick,   *)
(* are the drops of the takes, but for what was overlooked at their ends.   *)
ReportOK == reported + overlooked + (IF capturing THEN drops ELSE 0) >= Cardinality(Dropped)

LEMMA DroppedStays ==
  ASSUME Types, [Next]_vars, UNCHANGED lost
  PROVE  Dropped' = Dropped
<1>1. \A h \in lost : takeOf'[h] = takeOf[h] BY TakesStay
<1> QED BY <1>1 DEF Dropped

LEMMA ReportStep == Types /\ ReportOK /\ [Next]_vars => ReportOK'
<1> SUFFICES ASSUME Types, ReportOK, [Next]_vars PROVE ReportOK' OBVIOUS
<1>0. /\ reported \in Nat /\ overlooked \in Nat /\ drops \in Nat /\ Types'
      /\ capturing = recButton /\ capturing \in BOOLEAN
      /\ IsFiniteSet(Dropped) /\ Cardinality(Dropped) \in Nat
  <2>1. Dropped \subseteq 1 .. MaxHits
    BY CaptureSessionAssumption DEF Dropped, Types, HistoryOK
  <2>2. IsFiniteSet(Dropped) /\ Cardinality(Dropped) \in Nat BY <2>1, HitSets
  <2>3. capturing = recButton /\ capturing \in BOOLEAN BY Zenon DEF Types, TypeOK, Lit
  <2>4. reported \in Nat /\ overlooked \in Nat /\ drops \in Nat BY DEF Types, TypeOK, HistoryOK
  <2>5. Types' BY TypesStep
  <2> QED BY <2>2, <2>3, <2>4, <2>5
<1>1. ASSUME UNCHANGED <<lost, drops, reported>>,
             \/ UNCHANGED <<capturing, overlooked>>
             \/ overlooked' = overlooked + drops
      PROVE  ReportOK'
  <2>1. Dropped' = Dropped BY <1>1, DroppedStays
  <2> QED BY <1>0, <1>1, <2>1 DEF ReportOK
<1>2. CASE MidiNote
  <2>0. UNCHANGED <<capturing, reported, overlooked>> BY <1>2 DEF MidiNote, session, ended
  <2>1. CASE UNCHANGED <<drops, lost>> BY <1>1, <2>0, <2>1
  <2>2. CASE drops' = drops + 1 /\ lost' = lost \cup {hits'}
    <3>1. \A h \in lost : takeOf'[h] = takeOf[h] BY TakesStay
    <3>2. takeOf'[hits'] = IF capturing /\ source = "pads" THEN take ELSE 0
      BY <1>2, Hits DEF MidiNote
    <3>3. CASE capturing
      <4>1. Dropped' = Dropped \/ Dropped' = Dropped \cup {hits'}
        BY <2>2, <3>1 DEF Dropped
      <4>2. /\ IsFiniteSet(Dropped \cup {hits'})
            /\ \/ Cardinality(Dropped \cup {hits'}) = Cardinality(Dropped)
               \/ Cardinality(Dropped \cup {hits'}) = Cardinality(Dropped) + 1
        BY <1>0, FS_AddElement
      <4>3. Cardinality(Dropped') \in Nat /\ Cardinality(Dropped') <= Cardinality(Dropped) + 1
        <5>1. CASE Dropped' = Dropped BY <1>0, <5>1
        <5>2. CASE Dropped' = Dropped \cup {hits'} BY <1>0, <4>2, <5>2
        <5> QED BY <4>1, <5>1, <5>2
      <4> QED BY <1>0, <2>0, <2>2, <3>3, <4>3 DEF ReportOK
    <3>4. CASE ~capturing
      <4>1. Dropped' = Dropped BY <2>2, <3>1, <3>2, <3>4 DEF Dropped
      <4> QED BY <1>0, <2>0, <2>2, <3>4, <4>1 DEF ReportOK
    <3> QED BY <1>0, <3>3, <3>4
  <2> QED BY <1>2, <2>1, <2>2, Pushes DEF MidiNote
<1>3. CASE Beatbox \/ DeviceRestart \/ MicFollowsDevice \/ TogglePlay \/ TapPad \/ OtherEdit
           \/ UNCHANGED vars
  <2>1. UNCHANGED <<lost, drops, reported, capturing, overlooked>>
    BY <1>3 DEF Beatbox, DeviceRestart, MicFollowsDevice, TogglePlay, TapPad, OtherEdit, vars,
                session, midi, played, ended
  <2> QED BY <1>1, <2>1
<1>4. CASE ClickRec
  <2>0. UNCHANGED <<lost, reported>> BY <1>4 DEF ClickRec, played
  <2>1. CASE ~recButton /\ BeginTake(source) /\ UNCHANGED <<pattern, ended>>
    <3>1. drops' = 0 /\ ~capturing /\ UNCHANGED overlooked
      BY <1>0, <2>1 DEF BeginTake, ended
    <3>2. Dropped' = Dropped BY <2>0, DroppedStays
    <3> QED BY <1>0, <2>0, <3>1, <3>2 DEF ReportOK
  <2>2. CASE UNCHANGED <<recButton, capturing, midi, mic, undo, pattern, take, ended>>
    BY <1>1, <2>0, <2>2 DEF midi, ended
  <2>3. CASE EndsBetweenTicks /\ UNCHANGED <<midi, undo, take>>
    BY <1>1, <2>0, <2>3 DEF EndsBetweenTicks, midi
  <2> QED BY <1>4, <2>1, <2>2, <2>3 DEF ClickRec
<1>5. CASE ChangeSource
  <2>1. UNCHANGED <<lost, reported, drops>> BY <1>5 DEF ChangeSource, played, midi
  <2>2. \/ UNCHANGED <<capturing, overlooked>>
        \/ overlooked' = overlooked + drops
    BY <1>5 DEF ChangeSource, EndsBetweenTicks, ended
  <2> QED BY <1>1, <2>1, <2>2
<1>6. CASE Tick
  <2>1. /\ UNCHANGED <<lost, overlooked>> /\ drops' = 0
        /\ reported' = IF capturing THEN reported + drops ELSE reported
    BY <1>6 DEF Tick, played, ended
  <2>2. Dropped' = Dropped BY <2>1, DroppedStays
  <2> QED BY <1>0, <2>1, <2>2 DEF ReportOK
<1> QED BY <1>2, <1>3, <1>4, <1>5, <1>6 DEF Next

(* No drop of a take goes unreported, wherever in the take the queue was     *)
(* full, but for those counted between the last tick and the end of a take  *)
(* that REC or a change of source ended.                                    *)
THEOREM SpecDropsReported == Spec => []DropsReported
<1>1. Init => Types /\ ReportOK
  <2> SUFFICES ASSUME Init PROVE Types /\ ReportOK OBVIOUS
  <2>1. lost = {} /\ reported = 0 /\ overlooked = 0 /\ drops = 0 BY DEF Init
  <2>2. Dropped = {} BY <2>1 DEF Dropped
  <2>3. Cardinality({}) = 0 BY FS_EmptySet
  <2> QED BY <2>1, <2>2, <2>3, TypesInit DEF ReportOK
<1>2. Types /\ ReportOK => DropsReported
  <2> SUFFICES ASSUME Types, ReportOK, drops = 0
               PROVE  reported + overlooked >= Cardinality(Dropped)
    BY DEF DropsReported
  <2>1. reported \in Nat /\ overlooked \in Nat BY DEF Types, HistoryOK
  <2> QED BY <2>1 DEF ReportOK
<1> QED BY <1>1, <1>2, TypesStep, ReportStep, PTL DEF Spec
=============================================================================
