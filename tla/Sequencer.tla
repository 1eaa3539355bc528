------------------------------ MODULE Sequencer ------------------------------
(***************************************************************************)
(* engine/Sequencer.{h,cpp}: the pattern hand-off and the transport, one    *)
(* atomic access per step. The message thread calls setPattern,            *)
(* queuePattern, requestReset and setPlaying; the audio thread runs        *)
(* process() once per block.                                               *)
(*                                                                         *)
(* The triple buffer is an instance of module TripleBuffer, and a pattern  *)
(* is the number of the call that handed it over. What a step sounds       *)
(* (generateStepEvents, renderWithEvents) is not this module's subject.    *)
(***************************************************************************)
EXTENDS Integers

CONSTANTS
  MaxVersions,  (* bound: calls of setPattern and queuePattern              *)
  BarSteps,     (* barLengthSteps                                           *)
  MaxStep       (* bound: the clock fires steps 0 .. MaxStep                *)

ASSUME SequencerAssumption ==
  /\ MaxVersions \in Nat
  /\ BarSteps \in Nat \ {0}
  /\ MaxStep \in Nat

VARIABLES
  buffers, writeIndex, readIndex, ready, hasNew,
  wpc, rpc, version, got, straddled,        (* `incoming`: a TripleBuffer   *)
  incomingMode,     (* atomic: 0 none, 1 immediate, 2 queued                *)
  playing,          (* atomic: the transport                                *)
  resetRequested,   (* atomic                                               *)
  switchQueued, switchCount, currentStep,   (* atomics: telemetry           *)
  mpc,              (* where the message thread is in its call              *)
  callMode,         (* the mode of the call under way                       *)
  apc,              (* where the audio thread is in process()               *)
  mode, nowPlaying, (* the locals of applyIncomingPattern() and process()   *)
  active, queued, hasQueued,                (* owned by the audio thread    *)
  nextStep,         (* Clock::nextStepIndex                                 *)
  modeOf,           (* history: the mode each version was handed over with  *)
  overlapped,       (* history: a call overlapped applyIncomingPattern()    *)
  pressed           (* history: Play was pressed, no block has seen it yet  *)

buffer   == <<buffers, writeIndex, readIndex, ready, hasNew, wpc, rpc, version,
              got, straddled>>
message  == <<mpc, callMode, modeOf>>
local    == <<mode, nowPlaying, overlapped>>
switch   == <<active, queued, hasQueued, switchQueued, switchCount>>
clock    == <<nextStep, currentStep>>
vars     == <<buffer, incomingMode, playing, resetRequested, message, apc, local,
              switch, clock, pressed>>

TB == INSTANCE TripleBuffer

Immediate == 1
Queued    == 2

(* The audio thread is between the two reads of applyIncomingPattern(). *)
Applying == apc \in {"mode", "read", "settle"}

Init ==
  /\ TB!Init
  /\ incomingMode = 0
  /\ playing = FALSE
  /\ resetRequested = FALSE
  /\ switchQueued = FALSE /\ switchCount = 0 /\ currentStep = -1
  /\ mpc = "idle" /\ callMode = 0
  /\ apc = "idle" /\ mode = 0 /\ nowPlaying = FALSE /\ overlapped = FALSE
  /\ active = 0 /\ queued = 0 /\ hasQueued = FALSE
  /\ nextStep = 0
  /\ modeOf = [v \in 1 .. MaxVersions |-> 0]
  /\ pressed = FALSE

-----------------------------------------------------------------------------
(* Message thread. *)

(* incoming->writeBuffer() = pattern, the first step of either call. *)
Call(m) ==
  /\ mpc = "idle"
  /\ TB!BeginFill
  /\ mpc'        = "publish"
  /\ callMode'   = m
  /\ modeOf'     = [modeOf EXCEPT ![version'] = m]
  /\ overlapped' = (overlapped \/ Applying)
  /\ UNCHANGED <<incomingMode, playing, resetRequested, apc, mode, nowPlaying, switch, clock,
                 pressed>>

SetPattern   == Call(Immediate)
QueuePattern == Call(Queued)

(* The rest of the copy, and incoming->publish(). *)
Publish ==
  /\ mpc = "publish"
  /\ TB!EndFill \/ TB!PublishSwap \/ TB!PublishFlag
  /\ UNCHANGED <<incomingMode, playing, resetRequested, message, apc, local, switch,
                 clock, pressed>>

(* incomingMode.store (1) or (2) *)
StoreMode ==
  /\ mpc = "publish" /\ wpc = "idle"
  /\ mpc'          = "idle"
  /\ incomingMode' = callMode
  /\ UNCHANGED <<buffer, playing, resetRequested, callMode, modeOf, apc, local, switch,
                 clock, pressed>>

(* TransportBar::togglePlay, towards playing: requestReset(), setPlaying (true). *)
RequestReset ==
  /\ mpc = "idle" /\ ~playing
  /\ mpc'            = "play"
  /\ resetRequested' = TRUE
  /\ UNCHANGED <<buffer, incomingMode, playing, callMode, modeOf, apc, local, switch,
                 clock, pressed>>

SetPlaying ==
  /\ mpc = "play"
  /\ mpc'     = "idle"
  /\ playing' = TRUE
  /\ pressed' = TRUE
  /\ UNCHANGED <<buffer, incomingMode, resetRequested, callMode, modeOf, apc, local,
                 switch, clock>>

(* togglePlay() towards stopped, and stop(). *)
Stop ==
  /\ mpc = "idle" /\ playing
  /\ playing' = FALSE
  /\ pressed' = FALSE
  /\ UNCHANGED <<buffer, incomingMode, resetRequested, message, apc, local, switch, clock>>

-----------------------------------------------------------------------------
(* Audio thread: process(), once per block. *)

(* if (resetRequested.exchange (false)) clock.reset() *)
TakeReset ==
  /\ apc = "idle"
  /\ apc'            = "playing"
  /\ resetRequested' = FALSE
  /\ nextStep'       = IF resetRequested THEN 0 ELSE nextStep
  /\ UNCHANGED <<buffer, incomingMode, playing, message, local, switch, currentStep, pressed>>

(* playing.load(). The hand-off of this block begins here.                  *)
LoadPlaying ==
  /\ apc = "playing"
  /\ apc'        = "mode"
  /\ nowPlaying' = playing
  /\ overlapped' = (overlapped \/ mpc = "publish")
  /\ pressed'    = FALSE
  /\ UNCHANGED <<buffer, incomingMode, playing, resetRequested, message, mode, switch, clock>>

(* mode = incomingMode.exchange (0) *)
ExchangeMode ==
  /\ apc = "mode"
  /\ apc'          = IF incomingMode = 0 THEN "settle" ELSE "read"
  /\ mode'         = incomingMode
  /\ incomingMode' = 0
  /\ UNCHANGED <<buffer, playing, resetRequested, message, nowPlaying, overlapped, switch, clock,
                 pressed>>

(* Mutant: hasNew is loaded, not exchanged. *)
ReadIncomingNoClear ==
  /\ apc = "read"
  /\ \/ rpc = "idle" /\ rpc' = IF hasNew THEN "swap" ELSE "copy"
     \/ rpc = "swap" /\ rpc' = "copy"
  /\ UNCHANGED <<buffers, writeIndex, readIndex, ready, hasNew, wpc, version, got, straddled,
                 incomingMode, playing, resetRequested, message, apc, local, switch, clock,
                 pressed>>

(* incoming->read(), up to the copy of its result. *)
ReadIncoming ==
  /\ apc = "read"
  /\ TB!ReadFlag \/ TB!ReadSwap
  /\ UNCHANGED <<incomingMode, playing, resetRequested, message, apc, local, switch, clock,
                 pressed>>

(* Mutant: an immediate pattern leaves the waiting one waiting. *)
CopyIncomingKeepsQueued ==
  /\ apc = "read"
  /\ TB!ReadCopy
  /\ apc'          = "settle"
  /\ active'       = IF mode = Immediate THEN got' ELSE active
  /\ queued'       = IF mode = Queued THEN got' ELSE queued
  /\ hasQueued'    = (mode = Queued \/ hasQueued)
  /\ switchQueued' = (mode = Queued)
  /\ UNCHANGED <<incomingMode, playing, resetRequested, message, local, switchCount, clock,
                 pressed>>

(* *active = read() drops what waited; *queued = read() makes it wait. *)
CopyIncoming ==
  /\ apc = "read"
  /\ TB!ReadCopy
  /\ apc'          = "settle"
  /\ active'       = IF mode = Immediate THEN got' ELSE active
  /\ queued'       = IF mode = Queued THEN got' ELSE queued
  /\ hasQueued'    = (mode = Queued)
  /\ switchQueued' = (mode = Queued)
  /\ UNCHANGED <<incomingMode, playing, resetRequested, message, local, switchCount, clock,
                 pressed>>

(* Mutant: the switch is not counted. *)
SwapUncounted ==
  /\ active'       = queued
  /\ hasQueued'    = FALSE
  /\ switchQueued' = FALSE
  /\ UNCHANGED <<queued, switchCount>>

(* The waiting pattern becomes the active one. *)
Swap ==
  /\ active'       = queued
  /\ hasQueued'    = FALSE
  /\ switchQueued' = FALSE
  /\ switchCount'  = switchCount + 1
  /\ UNCHANGED queued

(* The end of applyIncomingPattern(): stopped, nothing to wait for. A block *)
(* of a stopped transport then renders and returns.                         *)
Settle ==
  /\ apc = "settle"
  /\ apc' = IF nowPlaying THEN "steps" ELSE "idle"
  /\ IF ~nowPlaying /\ hasQueued THEN Swap ELSE UNCHANGED switch
  /\ UNCHANGED <<buffer, incomingMode, playing, resetRequested, message, local, clock, pressed>>

(* Mutant: any step will do for the switch. *)
FireStepAnywhere ==
  /\ apc = "steps"
  /\ nextStep <= MaxStep
  /\ nextStep'    = nextStep + 1
  /\ currentStep' = nextStep
  /\ IF hasQueued THEN Swap ELSE UNCHANGED switch
  /\ UNCHANGED <<buffer, incomingMode, playing, resetRequested, message, apc, local, pressed>>

(* clock.processBlock's callback. *)
FireStep ==
  /\ apc = "steps"
  /\ nextStep <= MaxStep
  /\ nextStep'    = nextStep + 1
  /\ currentStep' = nextStep
  /\ IF hasQueued /\ nextStep % BarSteps = 0 THEN Swap ELSE UNCHANGED switch
  /\ UNCHANGED <<buffer, incomingMode, playing, resetRequested, message, apc, local, pressed>>

EndBlock ==
  /\ apc = "steps"
  /\ apc' = "idle"
  /\ UNCHANGED <<buffer, incomingMode, playing, resetRequested, message, local, switch,
                 clock, pressed>>

(* prepare(), from the device's thread between two runs of the callback. *)
Prepare ==
  /\ apc = "idle"
  /\ nextStep'    = 0
  /\ currentStep' = -1
  /\ UNCHANGED <<buffer, incomingMode, playing, resetRequested, message, apc, local, switch,
                 pressed>>

-----------------------------------------------------------------------------
MessageNext == SetPattern \/ QueuePattern \/ Publish \/ StoreMode \/ RequestReset
                 \/ SetPlaying \/ Stop
AudioNext   == TakeReset \/ LoadPlaying \/ ExchangeMode \/ ReadIncoming \/ CopyIncoming
                 \/ Settle \/ FireStep \/ EndBlock \/ Prepare

Next == MessageNext \/ AudioNext

Spec == Init /\ [][Next]_vars

-----------------------------------------------------------------------------
TypeOK ==
  /\ TB!TypeOK
  /\ incomingMode \in 0 .. 2 /\ mode \in 0 .. 2 /\ callMode \in 0 .. 2
  /\ {playing, resetRequested, nowPlaying, hasQueued, switchQueued, pressed, overlapped}
       \subseteq BOOLEAN
  /\ mpc \in {"idle", "publish", "play"}
  /\ apc \in {"idle", "playing", "mode", "read", "settle", "steps"}
  /\ active \in 0 .. MaxVersions /\ queued \in 0 .. MaxVersions
  /\ switchCount \in Nat
  /\ nextStep \in 0 .. MaxStep + 1 /\ currentStep \in -1 .. MaxStep

(* The hand-off uses the triple buffer as its writer and its reader do, one *)
(* call at a time: everything proved of TripleBuffer holds here.            *)
UsesTripleBuffer == TB!Spec

(* What TripleBuffer.h promises its writer and its reader, of these two:    *)
(* three different buffers, ...                                             *)
Permutation == TB!Permutation

(* ... none that is being overwritten in the reader's hands or on the way,  *)
NoTornRead == TB!NoTornRead

(* the newest version for a reader at rest whose reads straddled no publish, *)
FreshUnlessStraddled == TB!FreshUnlessStraddled

(* and a snapshot that does not change while the block copies it.           *)
SnapshotImmutable == TB!SnapshotImmutable

(* The last request wins: once no call and no block is under way and        *)
(* nothing is requested or waits, the pattern of the last call plays,       *)
(* whatever was immediate or queued before it - unless a read straddled a   *)
(* publish (see TripleBuffer).                                              *)
LastRequestWins ==
  (/\ mpc = "idle" /\ apc = "idle"
   /\ incomingMode = 0 /\ ~hasQueued /\ ~straddled) => active = version

(* Sequencer.h:58 of queuePattern: "swap in at next bar (glitch-free)".     *)
(* While the transport runs, a pattern handed over with queuePattern        *)
(* becomes the active one on a bar line only: until a call has overlapped   *)
(* applyIncomingPattern().                                                  *)
QueuedTakesOver == active' # active /\ active' # 0 /\ modeOf[active'] = Queued
OnBarLine       == apc = "steps" /\ nextStep % BarSteps = 0

QueuedLandsOnBar ==
  [][QueuedTakesOver => ~nowPlaying \/ OnBarLine \/ overlapped]_vars

(* Without that exception. *)
QueuedAlwaysLandsOnBar == [][QueuedTakesOver => ~nowPlaying \/ OnBarLine]_vars

(* TransportBar.cpp:113: "play from the top of the loop". The first block   *)
(* that finds the transport running after Play was pressed starts at step 0. *)
PlayFromTop ==
  [][(apc = "playing" /\ apc' = "mode" /\ pressed) => nextStep = 0]_vars

(* Without the straddle's excuse: the pattern of the last call plays.       *)
LastCallPlays ==
  (mpc = "idle" /\ apc = "idle" /\ incomingMode = 0 /\ ~hasQueued) => active = version

-----------------------------------------------------------------------------
(* Refinement: PatternChannel's Apply happens at ExchangeMode, so until the *)
(* block has settled the abstract state is the one it will settle in.       *)
Waiting ==
  CASE apc = "read" /\ mode = Queued    -> version
    [] apc = "read" /\ mode = Immediate -> -1
    [] OTHER                            -> IF hasQueued THEN queued ELSE -1

SettlesStopped == apc \in {"read", "settle"} /\ ~nowPlaying /\ Waiting # -1

AbsActive ==
  CASE SettlesStopped                   -> Waiting
    [] apc = "read" /\ mode = Immediate -> version
    [] OTHER                            -> active

AbsRequest ==
  CASE incomingMode = Immediate -> [mode |-> "immediate", pattern |-> version]
    [] incomingMode = Queued    -> [mode |-> "queued", pattern |-> version]
    [] OTHER                    -> [mode |-> "none"]

PC == INSTANCE PatternChannel WITH
        Patterns    <- 0 .. MaxVersions,
        NoPattern   <- -1,
        request     <- AbsRequest,
        active      <- AbsActive,
        queued      <- IF SettlesStopped THEN -1 ELSE Waiting,
        switchCount <- IF SettlesStopped THEN switchCount + 1 ELSE switchCount

(* Until a call overlaps applyIncomingPattern(), the hand-off is the        *)
(* channel Sequencer.h describes.                                           *)
ImplementsChannel ==
  PC!ChannelInit(0) /\ [][overlapped' \/ PC!ChannelNext]_<<PC!channel, overlapped>>
=============================================================================
