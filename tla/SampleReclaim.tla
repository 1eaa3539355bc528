--------------------------- MODULE SampleReclaim ----------------------------
(***************************************************************************)
(* Who keeps a SampleBuffer alive: the kit and the retirement pool on the  *)
(* message thread, the pad slots and the voices on the audio thread, and   *)
(* between them a queue of setPad commands that carry raw pointers and keep *)
(* nothing alive (engine/SampleBuffer.h, SampleRetirementPool, CommandQueue, *)
(* DrumEngine, Voice; library/KitInstaller).                               *)
(*                                                                         *)
(* A reference count is not stored: it is what the holders say. A pad's    *)
(* layers are a set, since only which layer sounds depends on their order.  *)
(***************************************************************************)
EXTENDS Integers, Sequences, FiniteSets

CONSTANTS
  Buffers,      (* every buffer the loader may ever decode                  *)
  Pads,         (* the pads of the kit, and the preview pad                 *)
  Voices,
  MaxLayers,    (* maxPadLayers                                             *)
  Capacity,     (* of the command queue                                     *)
  MaxTriggers   (* bound: notes played                                      *)

ASSUME SampleReclaimAssumption ==
  /\ Pads # {} /\ MaxLayers \in Nat \ {0} /\ Capacity \in Nat \ {0}
  /\ MaxTriggers \in Nat

VARIABLES
  loaded,       (* buffers decoded so far                                   *)
  freed,        (* ... and those of them deleted by sweep()                 *)
  kit,          (* the layers each pad of the kit holds                     *)
  retired,      (* SampleRetirementPool                                     *)
  queue,        (* CommandQueue: everything from its read position on       *)
  toDrain, done,(* drain(): the commands it found ready, and those it ran   *)
  pads,         (* DrumEngine::pads: the layers each slot holds             *)
  voices,       (* the buffer a voice plays, as a set of at most one        *)
  triggers,     (* notes left to play                                       *)
  refused,      (* history: a command was dropped because the queue was full *)
  emptied,      (* history: pads InstallNulls emptied, and not filled since *)
  sweptQueued   (* history: buffers freed while a queued command carried them *)

message == <<loaded, kit, retired>>
audio   == <<toDrain, done, pads, voices>>
vars    == <<message, freed, queue, audio, triggers, refused, emptied, sweptQueued>>

Commands == [type : {"setPad"}, pad : Pads, layers : SUBSET Buffers]
              \cup [type : {"trigger"}, pad : Pads]

InKit   == UNION {kit[p] : p \in Pads}
InPads  == UNION {pads[p] : p \in Pads}
Playing == UNION {voices[v] : v \in Voices}

(* Before anything is loaded: every pad plays the engine's own sound.       *)
Init ==
  /\ loaded = {} /\ freed = {} /\ retired = {}
  /\ kit = [p \in Pads |-> {}]
  /\ queue = <<>> /\ toDrain = 0 /\ done = 0
  /\ pads = [p \in Pads |-> {}]
  /\ voices = [v \in Voices |-> {}]
  /\ triggers = MaxTriggers
  /\ refused = FALSE /\ emptied = {} /\ sweptQueued = {}

-----------------------------------------------------------------------------
(* Message thread. *)

(* CommandQueue::push: full, the command is dropped, and no caller looks at *)
(* the result.                                                              *)
Push(command) ==
  IF Len(queue) < Capacity
  THEN queue' = Append(queue, command) /\ UNCHANGED refused
  ELSE refused' = TRUE /\ UNCHANGED queue

(* What the message thread can install: newly decoded buffers, and those    *)
(* another pad has (a loop sliced over several pads).                       *)
Installable == {layers \in SUBSET ((Buffers \ loaded) \cup InKit) : layers # {}}

(* Mutant: the outgoing layers are not retired. *)
InstallUnretired(p, layers) ==
  /\ UNCHANGED retired
  /\ loaded'  = loaded \cup layers
  /\ kit'     = [kit EXCEPT ![p] = layers]
  /\ Push([type |-> "setPad", pad |-> p, layers |-> layers])

(* Mutant: the outgoing layers are retired, and the command forgotten. *)
InstallUnpushed(p, layers) ==
  /\ retired' = retired \cup kit[p]
  /\ loaded'  = loaded \cup layers
  /\ kit'     = [kit EXCEPT ![p] = layers]
  /\ UNCHANGED <<queue, refused>>

(* installSampleIntoPad, installLayersIntoPad and auditionSample: retire    *)
(* what goes, hold what comes, tell the engine.                             *)
Install(p, layers) ==
  /\ retired' = retired \cup kit[p]
  /\ loaded'  = loaded \cup layers
  /\ kit'     = [kit EXCEPT ![p] = layers]
  /\ Push([type |-> "setPad", pad |-> p, layers |-> layers])

InstallPad ==
  /\ \E p \in Pads, layers \in Installable :
       /\ Cardinality(layers) <= MaxLayers
       /\ Install(p, layers)
       /\ emptied' = emptied \ {p}
  /\ UNCHANGED <<freed, audio, triggers, sweptQueued>>

(* installLayersIntoPad with nulls only returns before it pushes.           *)
InstallNulls ==
  /\ \E p \in Pads :
       /\ retired' = retired \cup kit[p]
       /\ kit'     = [kit EXCEPT ![p] = {}]
       /\ emptied' = emptied \cup {p}
  /\ UNCHANGED <<loaded, freed, queue, audio, triggers, refused, sweptQueued>>

(* updatePadParamsInEngine: the same layers again. *)
UpdatePadParams ==
  /\ \E p \in Pads :
       /\ kit[p] # {}
       /\ Push([type |-> "setPad", pad |-> p, layers |-> kit[p]])
  /\ UNCHANGED <<message, freed, audio, triggers, emptied, sweptQueued>>

(* pushTrigger *)
PushTrigger ==
  /\ triggers > 0
  /\ triggers' = triggers - 1
  /\ \E p \in Pads : Push([type |-> "trigger", pad |-> p])
  /\ UNCHANGED <<message, freed, audio, emptied, sweptQueued>>

(* The buffers the commands still to be run carry. *)
Carried ==
  UNION {queue[i].layers : i \in {j \in done + 1 .. Len(queue) : queue[j].type = "setPad"}}

(* sweep() frees every retired buffer whose reference count is 1.           *)
Unreferenced == retired \ (InKit \cup InPads \cup Playing)

(* Mutant: everything retired is freed. *)
SweepAll ==
  /\ retired # {}
  /\ retired' = {}
  /\ freed'   = freed \cup retired
  /\ sweptQueued' = sweptQueued \cup (Unreferenced \cap Carried)
  /\ UNCHANGED <<loaded, kit, queue, audio, triggers, refused, emptied>>

(* Mutant: nothing is ever freed. *)
SweepNone ==
  /\ retired # {}
  /\ UNCHANGED vars

(* The timer sweeps without a look at the queue: what nothing but a command  *)
(* carries is freed with the rest.                                          *)
Sweep ==
  /\ Unreferenced # {}
  /\ retired' = retired \ Unreferenced
  /\ freed'   = freed \cup Unreferenced
  /\ sweptQueued' = sweptQueued \cup (Unreferenced \cap Carried)
  /\ UNCHANGED <<loaded, kit, queue, audio, triggers, refused, emptied>>

-----------------------------------------------------------------------------
(* Audio thread. *)

(* drain(): getNumReady(), once. *)
BeginDrain ==
  /\ toDrain = 0
  /\ toDrain' = Len(queue) /\ done' = 0
  /\ UNCHANGED <<message, freed, queue, pads, voices, triggers, refused, emptied, sweptQueued>>

Handling == done < toDrain

(* handleCommand, setPad: the raw pointers become references. *)
AdoptLayers ==
  /\ Handling /\ queue[done + 1].type = "setPad"
  /\ pads' = [pads EXCEPT ![queue[done + 1].pad] = queue[done + 1].layers]
  /\ done' = done + 1
  /\ UNCHANGED <<message, freed, queue, toDrain, voices, triggers, refused, emptied, sweptQueued>>

(* triggerPadNow: an idle voice, or a stolen one, takes one of the layers.   *)
(* A pad without layers plays the engine's own sound, which is not retired  *)
(* here.                                                                    *)
StartVoice(p) ==
  IF pads[p] = {} THEN UNCHANGED voices
  ELSE \E v \in Voices, b \in pads[p] :
         /\ voices[v] = {} \/ \A w \in Voices : voices[w] # {}
         /\ voices' = [voices EXCEPT ![v] = {b}]

TriggerPad ==
  /\ Handling /\ queue[done + 1].type = "trigger"
  /\ StartVoice(queue[done + 1].pad)
  /\ done' = done + 1
  /\ UNCHANGED <<message, freed, queue, toDrain, pads, triggers, refused, emptied, sweptQueued>>

(* finishedRead: the space becomes free only now. *)
FinishedRead ==
  /\ toDrain > 0 /\ ~Handling
  /\ queue' = SubSeq(queue, toDrain + 1, Len(queue))
  /\ toDrain' = 0 /\ done' = 0
  /\ UNCHANGED <<message, freed, pads, voices, triggers, refused, emptied, sweptQueued>>

(* The sequencer's own trigger, while the block renders. *)
FireEvent ==
  /\ toDrain = 0 /\ triggers > 0
  /\ triggers' = triggers - 1
  /\ \E p \in Pads : StartVoice(p)
  /\ UNCHANGED <<message, freed, queue, toDrain, done, pads, refused, emptied, sweptQueued>>

(* A voice reaches its end, or is choked: Voice::stop drops its reference.  *)
StopVoice(v) ==
  /\ voices[v] # {}
  /\ voices' = [voices EXCEPT ![v] = {}]
  /\ UNCHANGED <<message, freed, queue, toDrain, done, pads, triggers, refused, emptied, sweptQueued>>

-----------------------------------------------------------------------------
MessageNext == InstallPad \/ InstallNulls \/ UpdatePadParams \/ PushTrigger \/ Sweep
AudioNext   == BeginDrain \/ AdoptLayers \/ TriggerPad \/ FinishedRead \/ FireEvent
                 \/ \E v \in Voices : StopVoice(v)

Next == MessageNext \/ AudioNext

Spec == Init /\ [][Next]_vars

(* The device calls back, the timer ticks, and every note ends.             *)
Fairness ==
  /\ WF_vars(BeginDrain) /\ WF_vars(AdoptLayers) /\ WF_vars(TriggerPad)
  /\ WF_vars(FinishedRead) /\ WF_vars(Sweep)
  /\ \A v \in Voices : WF_vars(StopVoice(v))

FairSpec == Spec /\ Fairness

-----------------------------------------------------------------------------
TypeOK ==
  /\ loaded \subseteq Buffers /\ freed \subseteq loaded /\ retired \subseteq loaded
  /\ kit \in [Pads -> SUBSET Buffers] /\ pads \in [Pads -> SUBSET Buffers]
  /\ voices \in [Voices -> SUBSET Buffers]
  /\ queue \in Seq(Commands) /\ Len(queue) <= Capacity
  /\ toDrain \in 0 .. Len(queue) /\ done \in 0 .. toDrain
  /\ triggers \in 0 .. MaxTriggers /\ refused \in BOOLEAN
  /\ emptied \subseteq Pads /\ sweptQueued \subseteq freed

(* SampleBuffer.h:22: "The final delete of a SampleBuffer must NEVER run on *)
(* the audio thread." Whatever exists is held by the kit or by the pool, so *)
(* no reference the audio thread drops is the last.                         *)
NeverLastOnAudio == loaded \ freed \subseteq InKit \cup retired

(* EngineCommand.h:53: "producer guarantees lifetime". Nothing the kit, a    *)
(* pad or a voice refers to, and nothing a queued command carries, has been *)
(* freed.                                                                   *)
NoDangling == (InKit \cup InPads \cup Playing \cup Carried) \cap freed = {}

(* What the counts do promise, sweeps at any moment included: the kit never *)
(* refers to a freed buffer, and a pad, a voice or a command only to one    *)
(* that a queued command carried when it was swept, and nothing else held.  *)
OnlyQueuedDangle ==
  /\ InKit \cap freed = {}
  /\ (InPads \cup Playing \cup Carried) \cap freed \subseteq sweptQueued

(* The engine follows the kit: with every command drained, and none ever    *)
(* dropped, each pad plays the layers the kit shows for it - except a pad   *)
(* emptied with nulls, which nothing tells the engine.                      *)
EngineFollowsKit ==
  (queue = <<>> /\ ~refused) => \A p \in Pads \ emptied : pads[p] = kit[p]

(* Without that exception. KitInstaller.cpp:92: "the pad is now empty and   *)
(* falls back to the blip".                                                 *)
EmptyPadIsEmpty == (queue = <<>> /\ ~refused) => pads = kit

(* What the kit has let go of is freed, unless the command that would have  *)
(* made the engine let go was dropped or never sent.                        *)
Reclaimed ==
  \A b \in Buffers : (b \in retired \ InKit) ~> (b \in freed \/ refused \/ emptied # {})
=============================================================================
