----------------------------- MODULE StepClock -----------------------------
(***************************************************************************)
(* engine/Clock.{h,cpp}: when each 1/16 step falls, in absolute samples.    *)
(* A tempo is the length of a step in half samples, so that the rounding    *)
(* of llround has halves to round. All calls come from the audio thread.    *)
(***************************************************************************)
EXTENDS Integers

CONSTANTS
  Tempos,   (* 2 * samplesPerStep                                           *)
  Blocks    (* the block sizes the device may ask for, in samples           *)

(* setTempo() keeps samplesPerStep at 1 or more. *)
ASSUME StepClockAssumption ==
  /\ Tempos \subseteq {t \in Nat : t >= 2}
  /\ Blocks \subseteq Nat \ {0}

VARIABLES
  sampleCounter,    (* absolute sample at the current block's start         *)
  nextStep,         (* the next step to fire                                *)
  baseStep, baseSample,  (* the rebase origin                               *)
  tempo,
  blockEnd,         (* the local of processBlock(); -1 outside it           *)
  lastAt,           (* history: the sample the last step fired at, or -1    *)
  lastTempo         (* history: the tempo it fired at                       *)

grid      == <<baseStep, baseSample, tempo>>
clockVars == <<sampleCounter, nextStep, grid, blockEnd, lastAt, lastTempo>>

InBlock == blockEnd # -1

(* stepSampleOf: base + llround ((index - baseStep) * samplesPerStep). *)
StepSampleOf(index) == baseSample + ((index - baseStep) * tempo + 1) \div 2

ClockInit ==
  /\ sampleCounter = 0 /\ nextStep = 0 /\ baseStep = 0 /\ baseSample = 0
  /\ tempo \in Tempos
  /\ blockEnd = -1
  /\ lastAt = -1 /\ lastTempo = tempo

(* Mutant: the grid is rebased on the block, not on the pending step. *)
SetTempoAtBlock(t) ==
  /\ ~InBlock
  /\ baseSample' = sampleCounter
  /\ baseStep'   = nextStep
  /\ tempo'      = t
  /\ UNCHANGED <<sampleCounter, nextStep, blockEnd, lastAt, lastTempo>>

SetTempo(t) ==
  /\ ~InBlock
  /\ baseSample' = StepSampleOf(nextStep)
  /\ baseStep'   = nextStep
  /\ tempo'      = t
  /\ UNCHANGED <<sampleCounter, nextStep, blockEnd, lastAt, lastTempo>>

Reset ==
  /\ ~InBlock
  /\ sampleCounter' = 0 /\ nextStep' = 0 /\ baseStep' = 0 /\ baseSample' = 0
  /\ lastAt' = -1
  /\ UNCHANGED <<tempo, blockEnd, lastTempo>>

(* prepare(): the tempo in the new sample rate, and reset(). *)
PrepareClock(t) ==
  /\ ~InBlock
  /\ sampleCounter' = 0 /\ nextStep' = 0 /\ baseStep' = 0 /\ baseSample' = 0
  /\ tempo'  = t
  /\ lastAt' = -1
  /\ UNCHANGED <<blockEnd, lastTempo>>

(* processBlock(), of a playing clock: *)
BeginSteps(n) ==
  /\ ~InBlock
  /\ blockEnd' = sampleCounter + n
  /\ UNCHANGED <<sampleCounter, nextStep, grid, lastAt, lastTempo>>

StepIsDue == InBlock /\ StepSampleOf(nextStep) < blockEnd

AdvanceStep ==
  /\ StepIsDue
  /\ nextStep'  = nextStep + 1
  /\ lastAt'    = StepSampleOf(nextStep)
  /\ lastTempo' = tempo
  /\ UNCHANGED <<sampleCounter, grid, blockEnd>>

EndSteps ==
  /\ InBlock /\ ~StepIsDue
  /\ sampleCounter' = blockEnd
  /\ blockEnd'      = -1
  /\ UNCHANGED <<nextStep, grid, lastAt, lastTempo>>

ClockNext ==
  \/ \E t \in Tempos : SetTempo(t) \/ PrepareClock(t)
  \/ Reset
  \/ \E n \in Blocks : BeginSteps(n)
  \/ AdvanceStep
  \/ EndSteps

ClockSpec == ClockInit /\ [][ClockNext]_clockVars

-----------------------------------------------------------------------------
ClockTypeOK ==
  /\ sampleCounter \in Nat /\ nextStep \in Nat /\ baseStep \in Nat /\ baseSample \in Nat
  /\ tempo \in Tempos /\ lastTempo \in Tempos
  /\ blockEnd \in Nat \cup {-1} /\ lastAt \in Nat \cup {-1}

(* Clock.h:67 clamps the offset of a step that is already past. There is    *)
(* none: whatever tempo changes and resets came before, the pending step    *)
(* never lies before the block.                                             *)
NeverLate == StepSampleOf(nextStep) >= sampleCounter

(* Clock.h:40: "the NEXT step keeps its scheduled position and later steps  *)
(* are respaced at the new tempo (no jump)". The pending step is always one *)
(* step of the tempo the last one fired at behind it, to the half sample.   *)
NoJump ==
  lastAt # -1 => 2 * (StepSampleOf(nextStep) - lastAt) - lastTempo \in -1 .. 1
=============================================================================
