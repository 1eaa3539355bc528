------------------------- MODULE SampleReclaimProofs -------------------------
(***************************************************************************)
(* The safety of the sample lifetimes for any kit, any number of voices and *)
(* any length of the command queue: the audio thread never drops the last   *)
(* reference, the engine plays what the kit shows, and nothing that is held *)
(* or carried has been freed, but what a queued command alone kept when it   *)
(* was swept.                                                               *)
(***************************************************************************)
EXTENDS SampleReclaim, SequenceTheorems, TLAPS

(* What the kit has is loaded and not freed; what the others have is that,   *)
(* or was swept under a queued command.                                     *)
Accounted  == (loaded \ freed) \cup sweptQueued
KitAlive   == \A p \in Pads : kit[p] \subseteq loaded \ freed
PadsAlive  == \A p \in Pads : pads[p] \subseteq Accounted
VoiceAlive == \A v \in Voices : voices[v] \subseteq Accounted
QueueAlive == \A i \in done + 1 .. Len(queue) :
                queue[i].type = "setPad" => queue[i].layers \subseteq Accounted

IInv  == TypeOK /\ NeverLastOnAudio /\ KitAlive
Alive == PadsAlive /\ VoiceAlive /\ QueueAlive

-----------------------------------------------------------------------------
(* What push() does to the queue: nothing when it is full, and otherwise    *)
(* the command at its end.                                                  *)
LEMMA PushQueue ==
  ASSUME TypeOK, NEW c \in Commands, Push(c)
  PROVE  /\ queue' \in Seq(Commands) /\ Len(queue') <= Capacity
         /\ Len(queue) <= Len(queue') /\ refused' \in BOOLEAN
         /\ \A i \in 1 .. Len(queue) : queue'[i] = queue[i]
         /\ \A i \in Len(queue) + 1 .. Len(queue') : queue'[i] = c
  <1>0. queue \in Seq(Commands) /\ Len(queue) <= Capacity /\ refused \in BOOLEAN
        /\ Capacity \in Nat
    BY SampleReclaimAssumption DEF TypeOK
  <1>1. CASE Len(queue) < Capacity
    <2>1. queue' = Append(queue, c) /\ refused' = refused
      BY <1>1 DEF Push
    <2>2. QED
      BY <2>1, <1>0, <1>1
  <1>2. CASE ~(Len(queue) < Capacity)
    <2>1. queue' = queue /\ refused' = TRUE
      BY <1>2 DEF Push
    <2>2. QED
      BY <2>1, <1>0
  <1>3. QED
    BY <1>1, <1>2

(* What finishedRead() does to it: the commands that ran are gone.          *)
LEMMA FinishedQueue ==
  ASSUME TypeOK, FinishedRead
  PROVE  /\ queue' \in Seq(Commands)
         /\ Len(queue') = Len(queue) - done
         /\ \A i \in 1 .. Len(queue') : queue'[i] = queue[i + done]
  <1>1. queue \in Seq(Commands) /\ toDrain \in 0 .. Len(queue) /\ done = toDrain
        /\ Len(queue) \in Nat
    BY DEF TypeOK, FinishedRead, Handling
  <1>2. queue' = SubSeq(queue, done + 1, Len(queue))
    BY <1>1 DEF FinishedRead
  <1>3. \A i \in done + 1 .. Len(queue) : queue[i] \in Commands
    BY <1>1
  <1>4. /\ queue' \in Seq(Commands)
        /\ Len(queue') = IF done + 1 <= Len(queue) THEN Len(queue) - (done + 1) + 1 ELSE 0
        /\ \A i \in 1 .. Len(queue) - (done + 1) + 1 : queue'[i] = queue[done + 1 + i - 1]
    BY <1>1, <1>2, <1>3, SubSeqProperties
  <1>5. QED
    BY <1>1, <1>4

(* A voice that starts plays a layer of a pad.                              *)
LEMMA StartVoiceLayers ==
  ASSUME TypeOK, NEW p \in Pads, StartVoice(p)
  PROVE  /\ voices' \in [Voices -> SUBSET Buffers]
         /\ \A v \in Voices : voices'[v] \subseteq voices[v] \cup pads[p]
  BY DEF TypeOK, StartVoice

-----------------------------------------------------------------------------
(* Every step keeps the types, what the kit holds alive, and a holder on    *)
(* the message thread for every buffer there is.                            *)
LEMMA InitIInv == Init => IInv
  <1> SUFFICES ASSUME Init PROVE IInv
    OBVIOUS
  <1>1. queue \in Seq(Commands) /\ Len(queue) = 0
    BY DEF Init
  <1>2. /\ kit \in [Pads -> SUBSET Buffers] /\ pads \in [Pads -> SUBSET Buffers]
        /\ voices \in [Voices -> SUBSET Buffers]
    BY DEF Init
  <1>3. refused \in BOOLEAN
    BY Zenon DEF Init
  <1>4. TypeOK
    BY <1>1, <1>2, <1>3, SampleReclaimAssumption DEF Init, TypeOK
  <1>5. NeverLastOnAudio /\ KitAlive
    BY DEF Init, NeverLastOnAudio, KitAlive
  <1>6. QED
    BY <1>4, <1>5 DEF IInv

LEMMA NextIInv == IInv /\ [Next]_vars => IInv'
  <1> SUFFICES ASSUME IInv, [Next]_vars PROVE IInv'
    OBVIOUS
  <1> USE SampleReclaimAssumption
  <1>1. TypeOK /\ NeverLastOnAudio /\ KitAlive
    BY DEF IInv
  <1>2. ASSUME InstallPad PROVE IInv'
    <2>1. PICK p \in Pads, layers \in Installable :
            Install(p, layers) /\ emptied' = emptied \ {p}
      BY <1>2 DEF InstallPad
    <2>2. layers \subseteq (Buffers \ loaded) \cup InKit
      BY DEF Installable
    <2>3. layers \subseteq Buffers /\ layers \cap freed = {}
      BY <1>1, <2>2 DEF InKit, TypeOK, KitAlive
    <2>4. [type |-> "setPad", pad |-> p, layers |-> layers] \in Commands
      BY <2>3 DEF Commands
    <2>5. queue' \in Seq(Commands) /\ Len(queue') <= Capacity /\ Len(queue) <= Len(queue')
          /\ refused' \in BOOLEAN
      BY <1>1, <2>1, <2>4, PushQueue DEF Install
    <2>6. kit' = [kit EXCEPT ![p] = layers] /\ loaded' = loaded \cup layers
          /\ retired' = retired \cup kit[p] /\ freed' = freed
      BY <1>2, <2>1 DEF Install, InstallPad
    <2>7. kit' \in [Pads -> SUBSET Buffers] /\ KitAlive'
      BY <1>1, <2>3, <2>6 DEF KitAlive, TypeOK
    <2>8. NeverLastOnAudio'
      <3>1. InKit \subseteq InKit' \cup kit[p] /\ layers \subseteq InKit'
        BY <1>1, <2>6 DEF InKit, TypeOK
      <3>2. QED
        BY <1>1, <2>6, <3>1 DEF NeverLastOnAudio
    <2>9. TypeOK'
      <3>1. loaded' \subseteq Buffers /\ freed' \subseteq loaded' /\ retired' \subseteq loaded'
        BY <1>1, <2>3, <2>6 DEF TypeOK, KitAlive
      <3>2. /\ pads' \in [Pads -> SUBSET Buffers] /\ voices' \in [Voices -> SUBSET Buffers]
            /\ triggers' \in 0 .. MaxTriggers /\ emptied' \subseteq Pads
        BY <1>1, <1>2, <2>1 DEF TypeOK, InstallPad, audio
      <3>3. toDrain' \in 0 .. Len(queue') /\ done' \in 0 .. toDrain'
        BY <1>1, <1>2, <2>5 DEF TypeOK, InstallPad, audio
      <3>4. sweptQueued' \subseteq freed'
        BY <1>1, <1>2 DEF TypeOK, InstallPad
      <3>5. QED
        BY <2>5, <2>7, <3>1, <3>2, <3>3, <3>4 DEF TypeOK
    <2>10. QED
      BY <2>7, <2>8, <2>9 DEF IInv
  <1>3. ASSUME InstallNulls PROVE IInv'
    <2>1. PICK p \in Pads : /\ retired' = retired \cup kit[p]
                            /\ kit' = [kit EXCEPT ![p] = {}]
                            /\ emptied' = emptied \cup {p}
      BY <1>3 DEF InstallNulls
    <2>2. TypeOK' /\ KitAlive'
      BY <1>1, <1>3, <2>1 DEF TypeOK, KitAlive, InstallNulls, audio
    <2>3. InKit \subseteq InKit' \cup kit[p]
      BY <1>1, <2>1 DEF InKit, TypeOK
    <2>4. NeverLastOnAudio'
      BY <1>1, <1>3, <2>1, <2>3 DEF NeverLastOnAudio, InstallNulls
    <2>5. QED
      BY <2>2, <2>4 DEF IInv
  <1>4. ASSUME UpdatePadParams \/ PushTrigger PROVE IInv'
    <2>1. PICK c \in Commands : Push(c)
      BY <1>1, <1>4 DEF UpdatePadParams, PushTrigger, Commands, TypeOK
    <2>2. queue' \in Seq(Commands) /\ Len(queue') <= Capacity /\ Len(queue) <= Len(queue')
          /\ refused' \in BOOLEAN
      BY <1>1, <2>1, PushQueue
    <2>3. UNCHANGED <<message, freed, audio, emptied, sweptQueued>> /\ triggers' \in 0 .. MaxTriggers
      BY <1>1, <1>4 DEF UpdatePadParams, PushTrigger, TypeOK
    <2>4. TypeOK'
      BY <1>1, <2>2, <2>3 DEF TypeOK, message, audio
    <2>5. NeverLastOnAudio' /\ KitAlive'
      BY <1>1, <2>3 DEF NeverLastOnAudio, KitAlive, InKit, message
    <2>6. QED
      BY <2>4, <2>5 DEF IInv
  <1>5. ASSUME Sweep PROVE IInv'
    <2>1. UNCHANGED <<loaded, kit, queue, audio, triggers, refused, emptied>>
          /\ retired' = retired \ Unreferenced /\ freed' = freed \cup Unreferenced
          /\ sweptQueued' = sweptQueued \cup (Unreferenced \cap Carried)
      BY <1>5 DEF Sweep
    <2>2. Unreferenced \subseteq retired /\ \A p \in Pads : kit[p] \cap Unreferenced = {}
      BY DEF Unreferenced, InKit
    <2>3. TypeOK'
      BY <1>1, <2>1, <2>2 DEF TypeOK, audio
    <2>4. KitAlive'
      BY <1>1, <2>1, <2>2 DEF KitAlive
    <2>5. NeverLastOnAudio'
      BY <1>1, <2>1, <2>2 DEF NeverLastOnAudio, InKit
    <2>6. QED
      BY <2>3, <2>4, <2>5 DEF IInv
  <1>6. ASSUME AudioNext \/ UNCHANGED vars PROVE IInv'
    <2>1. UNCHANGED <<message, freed>> /\ triggers' \in 0 .. MaxTriggers
          /\ UNCHANGED <<refused, emptied, sweptQueued>>
      BY <1>1, <1>6 DEF AudioNext, BeginDrain, AdoptLayers, TriggerPad, FinishedRead, FireEvent,
                        StopVoice, vars, TypeOK
    <2>2. NeverLastOnAudio' /\ KitAlive'
      BY <1>1, <2>1 DEF NeverLastOnAudio, KitAlive, InKit, message
    <2>3. pads' \in [Pads -> SUBSET Buffers] /\ voices' \in [Voices -> SUBSET Buffers]
      <3>1. CASE AdoptLayers
        <4>1. queue[done + 1] \in Commands /\ queue[done + 1].type = "setPad"
          BY <1>1, <3>1 DEF AdoptLayers, Handling, TypeOK
        <4>2. queue[done + 1].pad \in Pads /\ queue[done + 1].layers \subseteq Buffers
          BY <4>1 DEF Commands
        <4>3. QED
          BY <1>1, <3>1, <4>2 DEF AdoptLayers, TypeOK
      <3>2. CASE TriggerPad
        <4>1. queue[done + 1] \in Commands
          BY <1>1, <3>2 DEF TriggerPad, Handling, TypeOK
        <4>2. queue[done + 1].pad \in Pads
          BY <4>1 DEF Commands
        <4>3. QED
          BY <1>1, <3>2, <4>2, StartVoiceLayers DEF TriggerPad, TypeOK
      <3>3. CASE FireEvent
        BY <1>1, <3>3, StartVoiceLayers DEF FireEvent, TypeOK
      <3>4. CASE \E v \in Voices : StopVoice(v)
        BY <1>1, <3>4 DEF StopVoice, TypeOK
      <3>5. CASE BeginDrain \/ FinishedRead \/ UNCHANGED vars
        BY <1>1, <3>5 DEF BeginDrain, FinishedRead, vars, audio, TypeOK
      <3>6. QED
        BY <1>6, <3>1, <3>2, <3>3, <3>4, <3>5 DEF AudioNext
    <2>4. /\ queue' \in Seq(Commands) /\ Len(queue') <= Capacity
          /\ toDrain' \in 0 .. Len(queue') /\ done' \in 0 .. toDrain'
      <3>1. CASE FinishedRead
        <4>1. queue' \in Seq(Commands) /\ Len(queue') = Len(queue) - done
          BY <1>1, <3>1, FinishedQueue
        <4>2. QED
          BY <1>1, <3>1, <4>1 DEF FinishedRead, TypeOK
      <3>2. CASE ~FinishedRead
        BY <1>1, <1>6, <3>2 DEF AudioNext, BeginDrain, AdoptLayers, TriggerPad, FireEvent,
                                StopVoice, Handling, vars, audio, TypeOK
      <3>3. QED
        BY <3>1, <3>2
    <2>5. TypeOK'
      BY <1>1, <2>1, <2>3, <2>4 DEF TypeOK, message
    <2>6. QED
      BY <2>2, <2>5 DEF IInv
  <1>7. QED
    BY <1>2, <1>3, <1>4, <1>5, <1>6 DEF Next, MessageNext

-----------------------------------------------------------------------------
(* What the engine holds and what the queue carries stays accounted for.    *)
LEMMA InitAlive == Init => Alive
  <1> SUFFICES ASSUME Init PROVE Alive
    OBVIOUS
  <1>1. PadsAlive /\ VoiceAlive
    BY DEF Init, PadsAlive, VoiceAlive
  <1>2. QueueAlive
    BY DEF Init, QueueAlive
  <1>3. QED
    BY <1>1, <1>2 DEF Alive

(* A setPad command of layers that are alive joins a queue that is.         *)
LEMMA PushAlive ==
  ASSUME TypeOK, QueueAlive, NEW c \in Commands, Push(c), UNCHANGED done,
         Accounted \subseteq Accounted',
         c.type = "setPad" => c.layers \subseteq Accounted'
  PROVE  QueueAlive'
  <1>1. /\ Len(queue) \in Nat /\ Len(queue') \in Nat /\ Len(queue) <= Len(queue')
        /\ done \in Nat
        /\ \A i \in 1 .. Len(queue) : queue'[i] = queue[i]
        /\ \A i \in Len(queue) + 1 .. Len(queue') : queue'[i] = c
    BY PushQueue DEF TypeOK
  <1> SUFFICES ASSUME NEW i \in done + 1 .. Len(queue'), queue'[i].type = "setPad"
               PROVE  queue'[i].layers \subseteq Accounted'
    BY DEF QueueAlive
  <1>2. CASE i <= Len(queue)
    BY <1>1, <1>2 DEF QueueAlive
  <1>3. CASE i > Len(queue)
    BY <1>1, <1>3
  <1>4. QED
    BY <1>1, <1>2, <1>3

LEMMA NextAlive == IInv /\ Alive /\ [Next]_vars => Alive'
  <1> SUFFICES ASSUME IInv, Alive, [Next]_vars PROVE Alive'
    OBVIOUS
  <1>1. TypeOK /\ KitAlive /\ PadsAlive /\ VoiceAlive /\ QueueAlive
    BY DEF IInv, Alive
  <1>2. ASSUME UNCHANGED <<freed, pads, voices, sweptQueued>>, loaded \subseteq loaded'
        PROVE  PadsAlive' /\ VoiceAlive' /\ Accounted \subseteq Accounted'
    BY <1>1, <1>2 DEF PadsAlive, VoiceAlive, Accounted
  <1>3. ASSUME InstallPad PROVE Alive'
    <2>1. PICK p \in Pads, layers \in Installable : Install(p, layers)
      BY <1>3 DEF InstallPad
    <2>2. layers \subseteq (Buffers \ loaded) \cup InKit
      BY DEF Installable
    <2>3. layers \subseteq Buffers /\ layers \cap freed = {}
      BY <1>1, <2>2 DEF InKit, TypeOK, KitAlive, Accounted
    <2>4. loaded' = loaded \cup layers /\ UNCHANGED <<freed, audio, sweptQueued>>
          /\ Push([type |-> "setPad", pad |-> p, layers |-> layers])
      BY <1>3, <2>1 DEF Install, InstallPad
    <2>5. [type |-> "setPad", pad |-> p, layers |-> layers] \in Commands
      BY <2>3 DEF Commands
    <2>6. PadsAlive' /\ VoiceAlive' /\ Accounted \subseteq Accounted'
      BY <1>2, <2>4 DEF audio
    <2>7. QueueAlive'
      BY <1>1, <2>3, <2>4, <2>5, <2>6, PushAlive DEF audio, Accounted
    <2>8. QED
      BY <2>6, <2>7 DEF Alive
  <1>4. ASSUME InstallNulls PROVE Alive'
    BY <1>1, <1>4 DEF InstallNulls, audio, Alive, PadsAlive, VoiceAlive, QueueAlive, Accounted
  <1>5. ASSUME UpdatePadParams PROVE Alive'
    <2>1. PICK p \in Pads : Push([type |-> "setPad", pad |-> p, layers |-> kit[p]])
      BY <1>5 DEF UpdatePadParams
    <2>2. [type |-> "setPad", pad |-> p, layers |-> kit[p]] \in Commands
      BY <1>1 DEF Commands, TypeOK
    <2>3. UNCHANGED <<message, freed, audio, sweptQueued>>
      BY <1>5 DEF UpdatePadParams
    <2>4. PadsAlive' /\ VoiceAlive'
      BY <1>2, <2>3 DEF audio, message
    <2>5. QueueAlive'
      BY <1>1, <2>1, <2>2, <2>3, PushAlive DEF audio, message, KitAlive, Accounted
    <2>6. QED
      BY <2>4, <2>5 DEF Alive
  <1>6. ASSUME PushTrigger PROVE Alive'
    <2>1. PICK p \in Pads : Push([type |-> "trigger", pad |-> p])
      BY <1>6 DEF PushTrigger
    <2>2. [type |-> "trigger", pad |-> p] \in Commands
      BY DEF Commands
    <2>3. UNCHANGED <<message, freed, audio, sweptQueued>>
      BY <1>6 DEF PushTrigger
    <2>4. PadsAlive' /\ VoiceAlive'
      BY <1>2, <2>3 DEF audio, message
    <2>5. QueueAlive'
      BY <1>1, <2>1, <2>2, <2>3, PushAlive DEF audio, message, Accounted
    <2>6. QED
      BY <2>4, <2>5 DEF Alive
  <1>7. ASSUME Sweep PROVE Alive'
    <2>1. /\ UNCHANGED <<loaded, queue, audio>> /\ freed' = freed \cup Unreferenced
          /\ sweptQueued' = sweptQueued \cup (Unreferenced \cap Carried)
      BY <1>7 DEF Sweep
    <2>2. /\ \A p \in Pads : pads[p] \cap Unreferenced = {}
          /\ \A v \in Voices : voices[v] \cap Unreferenced = {}
      BY DEF Unreferenced, InPads, Playing
    <2>3. PadsAlive' /\ VoiceAlive'
      BY <1>1, <2>1, <2>2 DEF PadsAlive, VoiceAlive, Accounted, audio
    <2>4. QueueAlive'
      <3>1. \A i \in done + 1 .. Len(queue) :
              queue[i].type = "setPad" => queue[i].layers \subseteq Carried
        BY DEF Carried
      <3>2. QED
        BY <1>1, <2>1, <3>1 DEF QueueAlive, Accounted, audio
    <2>5. QED
      BY <2>3, <2>4 DEF Alive
  <1>8. ASSUME BeginDrain PROVE Alive'
    <2>1. UNCHANGED <<loaded, freed, sweptQueued, queue, pads, voices>> /\ done' = 0 /\ done = 0
      BY <1>1, <1>8 DEF BeginDrain, message, TypeOK
    <2>2. QED
      BY <1>1, <2>1 DEF Alive, PadsAlive, VoiceAlive, QueueAlive, Accounted
  <1>9. ASSUME AdoptLayers PROVE Alive'
    <2>1. /\ done + 1 \in 1 .. Len(queue) /\ queue[done + 1] \in Commands
          /\ queue[done + 1].type = "setPad" /\ done \in Nat /\ Len(queue) \in Nat
      BY <1>1, <1>9 DEF AdoptLayers, Handling, TypeOK
    <2>2. queue[done + 1].pad \in Pads /\ queue[done + 1].layers \subseteq Accounted
      BY <1>1, <2>1 DEF Commands, QueueAlive, Accounted
    <2>3. UNCHANGED <<loaded, freed, sweptQueued, queue, voices>> /\ done' = done + 1
          /\ pads' = [pads EXCEPT ![queue[done + 1].pad] = queue[done + 1].layers]
      BY <1>9 DEF AdoptLayers, message
    <2>4. PadsAlive' /\ VoiceAlive'
      BY <1>1, <2>2, <2>3 DEF PadsAlive, VoiceAlive, TypeOK, Accounted
    <2>5. QueueAlive'
      BY <1>1, <2>1, <2>3 DEF QueueAlive, Accounted
    <2>6. QED
      BY <2>4, <2>5 DEF Alive
  <1>10. ASSUME TriggerPad PROVE Alive'
    <2>1. /\ queue[done + 1] \in Commands /\ StartVoice(queue[done + 1].pad)
          /\ done \in Nat /\ Len(queue) \in Nat
      BY <1>1, <1>10 DEF TriggerPad, Handling, TypeOK
    <2>2. queue[done + 1].pad \in Pads
      BY <2>1 DEF Commands
    <2>3. \A v \in Voices : voices'[v] \subseteq voices[v] \cup pads[queue[done + 1].pad]
      BY <1>1, <2>1, <2>2, StartVoiceLayers
    <2>4. UNCHANGED <<loaded, freed, sweptQueued, queue, pads>> /\ done' = done + 1
      BY <1>10 DEF TriggerPad, message
    <2>5. PadsAlive' /\ VoiceAlive'
      BY <1>1, <2>2, <2>3, <2>4 DEF PadsAlive, VoiceAlive, Accounted
    <2>6. QueueAlive'
      BY <1>1, <2>1, <2>4 DEF QueueAlive, Accounted
    <2>7. QED
      BY <2>5, <2>6 DEF Alive
  <1>11. ASSUME FireEvent PROVE Alive'
    <2>1. PICK p \in Pads : StartVoice(p)
      BY <1>11 DEF FireEvent
    <2>2. \A v \in Voices : voices'[v] \subseteq voices[v] \cup pads[p]
      BY <1>1, <2>1, StartVoiceLayers
    <2>3. UNCHANGED <<loaded, freed, sweptQueued, queue, pads, done>>
      BY <1>11 DEF FireEvent, message
    <2>4. QED
      BY <1>1, <2>2, <2>3 DEF Alive, PadsAlive, VoiceAlive, QueueAlive, Accounted
  <1>12. ASSUME FinishedRead PROVE Alive'
    <2>1. /\ Len(queue') = Len(queue) - done
          /\ \A i \in 1 .. Len(queue') : queue'[i] = queue[i + done]
          /\ done \in Nat /\ Len(queue) \in Nat
      BY <1>1, <1>12, FinishedQueue DEF TypeOK
    <2>2. UNCHANGED <<loaded, freed, sweptQueued, pads, voices>> /\ done' = 0
      BY <1>12 DEF FinishedRead, message
    <2>3. QueueAlive'
      BY <1>1, <2>1, <2>2 DEF QueueAlive, Accounted
    <2>4. QED
      BY <1>1, <2>2, <2>3 DEF Alive, PadsAlive, VoiceAlive, Accounted
  <1>13. ASSUME NEW v \in Voices, StopVoice(v) PROVE Alive'
    BY <1>1, <1>13 DEF StopVoice, message, TypeOK, Alive, PadsAlive, VoiceAlive, QueueAlive, Accounted
  <1>14. ASSUME UNCHANGED vars PROVE Alive'
    BY <1>1, <1>14 DEF vars, message, audio, Alive, PadsAlive, VoiceAlive, QueueAlive, Accounted
  <1>15. QED
    BY <1>3, <1>4, <1>5, <1>6, <1>7, <1>8, <1>9, <1>10, <1>11, <1>12, <1>13, <1>14
    DEF Next, MessageNext, AudioNext

(* All that the holders hold, and the queue carries, is accounted for.      *)
LEMMA AliveOnlyQueued == IInv /\ Alive => OnlyQueuedDangle
  <1> SUFFICES ASSUME IInv, Alive PROVE OnlyQueuedDangle
    OBVIOUS
  <1>1. InKit \cap freed = {}
    BY DEF IInv, KitAlive, InKit
  <1>2. (InPads \cup Playing) \cap freed \subseteq sweptQueued
    BY DEF Alive, PadsAlive, VoiceAlive, Accounted, InPads, Playing
  <1>3. Carried \cap freed \subseteq sweptQueued
    BY DEF Alive, QueueAlive, Accounted, Carried
  <1>4. QED
    BY <1>1, <1>2, <1>3 DEF OnlyQueuedDangle

-----------------------------------------------------------------------------
(* The engine follows the kit: of the commands still to be run, the last    *)
(* that sets a pad carries the layers the kit shows for it; and when there  *)
(* is none, the pad plays them already.                                     *)
Sets(c, p) == c.type = "setPad" /\ c.pad = p

LastFor(i, p) ==
  Sets(queue[i], p) /\ \A j \in i + 1 .. Len(queue) : ~Sets(queue[j], p)

Follows(p) ==
  /\ (\A i \in done + 1 .. Len(queue) : ~Sets(queue[i], p)) => pads[p] = kit[p]
  /\ \A i \in done + 1 .. Len(queue) : LastFor(i, p) => queue[i].layers = kit[p]

FollowInv == ~refused => \A p \in Pads \ emptied : Follows(p)

(* A command that the queue takes is the last of all.                       *)
LEMMA PushTaken ==
  ASSUME TypeOK, NEW c \in Commands, Push(c), ~refused'
  PROVE  /\ ~refused
         /\ Len(queue) \in Nat /\ Len(queue') = Len(queue) + 1
         /\ \A i \in 1 .. Len(queue) : queue'[i] = queue[i]
         /\ queue'[Len(queue) + 1] = c
  <1>1. queue \in Seq(Commands)
    BY DEF TypeOK
  <1>2. Len(queue) < Capacity
    BY DEF Push
  <1>3. queue' = Append(queue, c) /\ refused' = refused
    BY <1>2 DEF Push
  <1>4. QED
    BY <1>1, <1>3

LEMMA PushFollows ==
  ASSUME TypeOK, NEW p \in Pads, NEW c \in Commands, Push(c), ~refused',
         UNCHANGED <<done, pads>>,
         Sets(c, p) => c.layers = kit'[p],
         ~Sets(c, p) => Follows(p) /\ kit'[p] = kit[p]
  PROVE  Follows(p)'
  <1>1. /\ Len(queue) \in Nat /\ Len(queue') = Len(queue) + 1
        /\ \A i \in 1 .. Len(queue) : queue'[i] = queue[i]
        /\ queue'[Len(queue) + 1] = c
    BY PushTaken
  <1>2. done \in Nat /\ done <= Len(queue) /\ done' = done /\ pads' = pads
    BY DEF TypeOK
  <1>3. ASSUME \A i \in done + 1 .. Len(queue') : ~Sets(queue'[i], p)
        PROVE  pads'[p] = kit'[p]
    <2>1. ~Sets(c, p)
      BY <1>1, <1>2, <1>3
    <2>2. \A i \in done + 1 .. Len(queue) : ~Sets(queue[i], p)
      BY <1>1, <1>2, <1>3
    <2>3. QED
      BY <1>2, <2>1, <2>2 DEF Follows
  <1>4. ASSUME NEW i \in done + 1 .. Len(queue'), Sets(queue'[i], p),
               \A j \in i + 1 .. Len(queue') : ~Sets(queue'[j], p)
        PROVE  queue'[i].layers = kit'[p]
    <2>1. CASE i = Len(queue) + 1
      BY <1>1, <1>4, <2>1
    <2>2. CASE i # Len(queue) + 1
      <3>1. i \in done + 1 .. Len(queue) /\ queue'[i] = queue[i]
        BY <1>1, <1>2, <2>2
      <3>2. ~Sets(c, p)
        BY <1>1, <1>2, <1>4, <3>1
      <3>3. \A j \in i + 1 .. Len(queue) : ~Sets(queue[j], p)
        BY <1>1, <1>2, <1>4, <3>1
      <3>4. LastFor(i, p)
        BY <1>4, <3>1, <3>3 DEF LastFor
      <3>5. QED
        BY <3>1, <3>2, <3>4 DEF Follows
    <2>3. QED
      BY <2>1, <2>2
  <1>5. QED
    BY <1>2, <1>3, <1>4 DEF Follows, LastFor

(* A command that sets another pad, or none, is run.                        *)
LEMMA RunFollows ==
  ASSUME TypeOK, NEW p \in Pads, Follows(p), Handling,
         UNCHANGED <<queue, kit>>, done' = done + 1,
         IF Sets(queue[done + 1], p) THEN pads'[p] = queue[done + 1].layers
                                     ELSE pads'[p] = pads[p]
  PROVE  Follows(p)'
  <1>1. /\ done \in Nat /\ Len(queue) \in Nat /\ done + 1 \in done + 1 .. Len(queue)
    BY DEF TypeOK, Handling
  <1>2. ASSUME \A i \in done + 2 .. Len(queue) : ~Sets(queue[i], p)
        PROVE  pads'[p] = kit[p]
    <2>1. CASE Sets(queue[done + 1], p)
      <3>1. LastFor(done + 1, p)
        BY <1>1, <1>2, <2>1 DEF LastFor
      <3>2. queue[done + 1].layers = kit[p]
        BY <1>1, <3>1 DEF Follows
      <3>3. QED
        BY <2>1, <3>2
    <2>2. CASE ~Sets(queue[done + 1], p)
      <3>1. \A i \in done + 1 .. Len(queue) : ~Sets(queue[i], p)
        BY <1>1, <1>2, <2>2
      <3>2. QED
        BY <2>2, <3>1 DEF Follows
    <2>3. QED
      BY <2>1, <2>2
  <1>3. ASSUME NEW i \in done + 2 .. Len(queue), LastFor(i, p)
        PROVE  queue[i].layers = kit[p]
    BY <1>1, <1>3 DEF Follows
  <1>4. \A i \in done' + 1 .. Len(queue') : i \in done + 2 .. Len(queue)
    BY <1>1
  <1>5. \A i \in done + 2 .. Len(queue) : i \in done' + 1 .. Len(queue')
    BY <1>1
  <1>6. (\A i \in done' + 1 .. Len(queue') : ~Sets(queue'[i], p)) => pads'[p] = kit'[p]
    BY <1>2, <1>5
  <1>7. \A i \in done' + 1 .. Len(queue') : LastFor(i, p)' => queue'[i].layers = kit'[p]
    BY <1>3, <1>4 DEF LastFor
  <1>8. QED
    BY <1>6, <1>7 DEF Follows

LEMMA InitFollow == Init => FollowInv
  <1> SUFFICES ASSUME Init PROVE FollowInv
    OBVIOUS
  <1>1. Len(queue) = 0 /\ done = 0 /\ \A p \in Pads : pads[p] = kit[p]
    BY DEF Init
  <1>2. QED
    BY <1>1 DEF FollowInv, Follows

LEMMA NextFollow == IInv /\ FollowInv /\ [Next]_vars => FollowInv'
  <1> SUFFICES ASSUME IInv, FollowInv, [Next]_vars, ~refused',
                      NEW p \in Pads, p \notin emptied'
               PROVE  Follows(p)'
    BY DEF FollowInv
  <1>1. TypeOK
    BY DEF IInv
  <1>2. CASE InstallPad
    <2>1. PICK q \in Pads, layers \in Installable :
            Install(q, layers) /\ emptied' = emptied \ {q}
      BY <1>2 DEF InstallPad
    <2>2. layers \subseteq Buffers
      <3>1. layers \subseteq (Buffers \ loaded) \cup InKit
        BY DEF Installable
      <3>2. InKit \subseteq Buffers
        BY <1>1 DEF InKit, TypeOK
      <3>3. QED
        BY <3>1, <3>2
    <2> DEFINE c == [type |-> "setPad", pad |-> q, layers |-> layers]
    <2>3. c \in Commands
      BY <2>2 DEF Commands
    <2>4. Push(c) /\ kit' = [kit EXCEPT ![q] = layers] /\ UNCHANGED <<done, pads>>
      BY <1>2, <2>1 DEF Install, InstallPad, audio
    <2>5. c.type = "setPad" /\ c.pad = q /\ c.layers = layers
      OBVIOUS
    <2>6. ~refused
      BY <1>1, <2>3, <2>4, PushTaken
    <2> HIDE DEF c
    <2>7. Sets(c, p) => c.layers = kit'[p]
      BY <1>1, <2>4, <2>5 DEF Sets, TypeOK
    <2>8. ~Sets(c, p) => Follows(p) /\ kit'[p] = kit[p]
      BY <1>1, <2>1, <2>4, <2>5, <2>6 DEF Sets, TypeOK, FollowInv
    <2>9. QED
      BY <1>1, <2>3, <2>4, <2>7, <2>8, PushFollows
  <1>3. CASE InstallNulls
    <2>1. PICK q \in Pads : kit' = [kit EXCEPT ![q] = {}] /\ emptied' = emptied \cup {q}
      BY <1>3 DEF InstallNulls
    <2>2. UNCHANGED <<queue, done, pads, refused>> /\ kit'[p] = kit[p] /\ p \notin emptied
      BY <1>1, <1>3, <2>1 DEF InstallNulls, audio, TypeOK
    <2>3. Follows(p)
      BY <2>2 DEF FollowInv
    <2>4. QED
      BY <2>2, <2>3 DEF Follows, LastFor
  <1>4. CASE UpdatePadParams
    <2>1. PICK q \in Pads : Push([type |-> "setPad", pad |-> q, layers |-> kit[q]])
      BY <1>4 DEF UpdatePadParams
    <2> DEFINE c == [type |-> "setPad", pad |-> q, layers |-> kit[q]]
    <2>2. c \in Commands
      BY <1>1 DEF Commands, TypeOK
    <2>3. UNCHANGED <<done, pads, kit, emptied>>
      BY <1>4 DEF UpdatePadParams, message, audio
    <2>4. c.type = "setPad" /\ c.pad = q /\ c.layers = kit[q] /\ Push(c)
      BY <2>1
    <2>5. ~refused
      BY <1>1, <2>2, <2>4, PushTaken
    <2> HIDE DEF c
    <2>6. Follows(p)
      BY <2>3, <2>5 DEF FollowInv
    <2>7. Sets(c, p) => c.layers = kit'[p]
      BY <2>3, <2>4 DEF Sets
    <2>8. QED
      BY <1>1, <2>2, <2>3, <2>4, <2>6, <2>7, PushFollows
  <1>5. CASE PushTrigger
    <2>1. PICK q \in Pads : Push([type |-> "trigger", pad |-> q])
      BY <1>5 DEF PushTrigger
    <2> DEFINE c == [type |-> "trigger", pad |-> q]
    <2>2. c \in Commands
      BY DEF Commands
    <2>3. UNCHANGED <<done, pads, kit, emptied>>
      BY <1>5 DEF PushTrigger, message, audio
    <2>4. c.type # "setPad" /\ Push(c)
      BY <2>1
    <2>5. ~refused
      BY <1>1, <2>2, <2>4, PushTaken
    <2> HIDE DEF c
    <2>6. Follows(p) /\ ~Sets(c, p)
      BY <2>3, <2>4, <2>5 DEF FollowInv, Sets
    <2>7. QED
      BY <1>1, <2>2, <2>3, <2>4, <2>6, PushFollows
  <1>6. ASSUME UNCHANGED <<refused, emptied>> PROVE Follows(p)
    BY <1>6 DEF FollowInv
  <1>7. CASE Sweep \/ FireEvent \/ (\E v \in Voices : StopVoice(v)) \/ UNCHANGED vars
    <2>1. UNCHANGED <<queue, done, pads, kit, refused, emptied>>
      BY <1>7 DEF Sweep, FireEvent, StopVoice, vars, audio, message
    <2>2. QED
      BY <1>6, <2>1 DEF Follows, LastFor
  <1>8. CASE BeginDrain
    <2>1. UNCHANGED <<queue, pads, kit, refused, emptied>> /\ done' = done
      BY <1>1, <1>8 DEF BeginDrain, message, TypeOK
    <2>2. QED
      BY <1>6, <2>1 DEF Follows, LastFor
  <1>9. CASE AdoptLayers
    <2>1. /\ done + 1 \in 1 .. Len(queue) /\ queue[done + 1] \in Commands
          /\ queue[done + 1].type = "setPad"
      BY <1>1, <1>9 DEF AdoptLayers, Handling, TypeOK
    <2>2. queue[done + 1].pad \in Pads
      BY <2>1 DEF Commands
    <2>3. /\ UNCHANGED <<queue, kit, refused, emptied>> /\ done' = done + 1 /\ Handling
          /\ pads' = [pads EXCEPT ![queue[done + 1].pad] = queue[done + 1].layers]
      BY <1>9 DEF AdoptLayers, message
    <2>4. IF Sets(queue[done + 1], p) THEN pads'[p] = queue[done + 1].layers
                                      ELSE pads'[p] = pads[p]
      BY <1>1, <2>1, <2>2, <2>3 DEF Sets, TypeOK
    <2>5. QED
      BY <1>1, <1>6, <2>3, <2>4, RunFollows
  <1>10. CASE TriggerPad
    <2>1. UNCHANGED <<queue, kit, pads, refused, emptied>> /\ done' = done + 1 /\ Handling
          /\ ~Sets(queue[done + 1], p)
      BY <1>10 DEF TriggerPad, message, Sets
    <2>2. QED
      BY <1>1, <1>6, <2>1, RunFollows
  <1>11. CASE FinishedRead
    <2>1. /\ Len(queue') = Len(queue) - done
          /\ \A i \in 1 .. Len(queue') : queue'[i] = queue[i + done]
          /\ done \in Nat /\ Len(queue) \in Nat /\ done <= Len(queue)
      BY <1>1, <1>11, FinishedQueue DEF TypeOK
    <2>2. UNCHANGED <<kit, pads, refused, emptied>> /\ done' = 0 /\ Follows(p)
      BY <1>6, <1>11 DEF FinishedRead, message
    <2>3. ASSUME \A i \in 1 .. Len(queue') : ~Sets(queue'[i], p)
          PROVE  \A i \in done + 1 .. Len(queue) : ~Sets(queue[i], p)
      <3> TAKE i \in done + 1 .. Len(queue)
      <3>1. i - done \in 1 .. Len(queue') /\ (i - done) + done = i
        BY <2>1
      <3>2. queue'[i - done] = queue[i]
        BY <2>1, <3>1
      <3>3. QED
        BY <2>3, <3>1, <3>2
    <2>4. ASSUME NEW i \in 1 .. Len(queue'), Sets(queue'[i], p),
                 \A j \in i + 1 .. Len(queue') : ~Sets(queue'[j], p)
          PROVE  queue'[i].layers = kit[p]
      <3>1. i + done \in done + 1 .. Len(queue) /\ queue'[i] = queue[i + done]
        BY <2>1
      <3>2. ASSUME NEW j \in i + done + 1 .. Len(queue) PROVE ~Sets(queue[j], p)
        <4>1. j - done \in i + 1 .. Len(queue') /\ j - done \in 1 .. Len(queue')
              /\ (j - done) + done = j
          BY <2>1, <3>1
        <4>2. queue'[j - done] = queue[j]
          BY <2>1, <4>1
        <4>3. QED
          BY <2>4, <4>1, <4>2
      <3>3. LastFor(i + done, p)
        BY <2>4, <3>1, <3>2 DEF LastFor
      <3>4. QED
        BY <2>2, <3>1, <3>3 DEF Follows
    <2>5. (\A i \in 1 .. Len(queue') : ~Sets(queue'[i], p)) => pads[p] = kit[p]
      BY <2>2, <2>3 DEF Follows
    <2>6. \A i \in 1 .. Len(queue') : LastFor(i, p)' => queue'[i].layers = kit[p]
      BY <2>4 DEF LastFor
    <2>7. QED
      BY <2>2, <2>5, <2>6 DEF Follows
  <1>12. QED
    BY <1>2, <1>3, <1>4, <1>5, <1>7, <1>8, <1>9, <1>10, <1>11
    DEF Next, MessageNext, AudioNext

LEMMA FollowMeans == IInv /\ FollowInv => EngineFollowsKit
  <1> SUFFICES ASSUME IInv, FollowInv, queue = <<>>, ~refused, NEW p \in Pads \ emptied
               PROVE  pads[p] = kit[p]
    BY DEF EngineFollowsKit
  <1>1. Len(queue) = 0 /\ done = 0
    BY DEF IInv, TypeOK
  <1>2. QED
    BY <1>1 DEF FollowInv, Follows

-----------------------------------------------------------------------------
(* The strengthened invariant holds throughout every behaviour. *)
THEOREM SpecIInv == Spec => []IInv
  BY InitIInv, NextIInv, PTL DEF Spec

(* SampleReclaim's state keeps its types, for any kit, queue and voices.    *)
THEOREM SpecTypeOK == Spec => []TypeOK
  BY SpecIInv, PTL DEF IInv

(* SampleBuffer.h:22: the final delete never runs on the audio thread, since *)
(* what exists is always held by the kit or by the retirement pool.         *)
THEOREM SpecNeverLastOnAudio == Spec => []NeverLastOnAudio
  BY SpecIInv, PTL DEF IInv

(* Of EngineCommand.h:53, "producer guarantees lifetime", what the counts   *)
(* do give, whenever the timer sweeps: the kit refers to nothing freed, and  *)
(* a pad, a voice or a command only to a buffer that a queued command       *)
(* carried, and no holder had, when it was swept.                           *)
THEOREM SpecOnlyQueuedDangle == Spec => []OnlyQueuedDangle
  <1>1. IInv /\ Alive /\ [Next]_vars => IInv' /\ Alive'
    BY NextIInv, NextAlive
  <1>2. QED
    BY <1>1, InitIInv, InitAlive, AliveOnlyQueued, PTL DEF Spec

(* DrumEngine::handleCommand follows MainComponent's kit: once every        *)
(* command has been drained, and if none was dropped, each pad the message  *)
(* thread filled plays the layers the kit shows for it, in whatever order    *)
(* installs, parameter changes and blocks came.                             *)
THEOREM SpecEngineFollowsKit == Spec => []EngineFollowsKit
  <1>1. IInv /\ FollowInv /\ [Next]_vars => IInv' /\ FollowInv'
    BY NextIInv, NextFollow
  <1>2. QED
    BY <1>1, InitIInv, InitFollow, FollowMeans, PTL DEF Spec
=============================================================================
