-------------------------------- MODULE Song --------------------------------
(***************************************************************************)
(* model/Song.{h,cpp}: an arrangement over the pattern bank. A chain is a   *)
(* sequence of [slot, bars] records, and the module answers "which slot    *)
(* should be sounding at bar B?". Indices into the chain are 1-based here, *)
(* so 0 stands for the code's -1 of stepAtBar.                             *)
(***************************************************************************)
EXTENDS Integers, Sequences

CONSTANT NumSlots       (* numPatternSlots *)

NoStep == 0
NoSlot == -1

(* A step of zero or negative bars is read as one bar. *)
BarsOf(step) == IF step.bars < 1 THEN 1 ELSE step.bars

(* The bars of the steps before step i: what the loop of stepAtBar has taken *)
(* off `bar` when it reaches i.                                              *)
BarsBefore(chain) ==
  LET sum[i \in 1 .. Len(chain) + 1] ==
        IF i = 1 THEN 0 ELSE sum[i - 1] + BarsOf(chain[i - 1])
  IN  sum

TotalBars(chain) == BarsBefore(chain)[Len(chain) + 1]

(* The first step whose bars are not used up before `bar`. *)
StepCovering(chain, bar) ==
  LET before == BarsBefore(chain)
      ends   == {i \in DOMAIN chain : bar - before[i] < BarsOf(chain[i])}
  IN  IF ends = {} THEN NoStep ELSE CHOOSE i \in ends : \A j \in ends : i <= j

(* Mutant: the last bar of the chain is taken for past its end. *)
StepAtBarOffByOne(chain, loop, bar) ==
  IF chain = <<>> \/ bar < 0 \/ (bar >= TotalBars(chain) - 1 /\ ~loop)
  THEN NoStep
  ELSE StepCovering(chain, bar % TotalBars(chain))

StepAtBar(chain, loop, bar) ==
  IF chain = <<>> \/ bar < 0 \/ (bar >= TotalBars(chain) /\ ~loop)
  THEN NoStep
  ELSE StepCovering(chain, bar % TotalBars(chain))

SlotAtBar(chain, loop, bar) ==
  LET i == StepAtBar(chain, loop, bar)
  IN  IF i # NoStep /\ chain[i].slot \in 0 .. NumSlots - 1 THEN chain[i].slot ELSE NoSlot
=============================================================================
