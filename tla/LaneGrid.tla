------------------------------ MODULE LaneGrid ------------------------------
(***************************************************************************)
(* model/Lane.h: how a lane's own steps lie on the global 1/16 grid.        *)
(* A triplet lane's step lasts 4/3 of a global one. Also the rounding the   *)
(* callers place them with. Doubles are exact rationals here.               *)
(***************************************************************************)
EXTENDS Integers

StepRate == [num : Nat \ {0}, den : Nat \ {0}]

LaneStepRate(triplet) == IF triplet THEN [num |-> 4, den |-> 3] ELSE [num |-> 1, den |-> 1]

BetweenOf(x, lo, hi) == IF x < lo THEN lo ELSE IF x > hi THEN hi ELSE x

MaxStepsPerLane == 64

(* A lane's length may come from a file and be any number; where it is used  *)
(* it is that of a lane that exists.                                        *)
LaneLength(lane) == BetweenOf(lane.length, 1, MaxStepsPerLane)

CeilDiv(a, b) == (a + b - 1) \div b

(* std::llround of a / b, for a >= 0 and b > 0: half goes up. *)
RoundDiv(a, b) == (2 * a + b) \div (2 * b)

(* The lane steps that begin inside global step g are                       *)
(* FirstLaneStep(rate, g) .. FirstLaneStep(rate, g + 1) - 1.                *)
FirstLaneStep(rate, g) == CeilDiv(g * rate.den, rate.num)

LaneStepsInGlobalStep(rate, g) == FirstLaneStep(rate, g) .. FirstLaneStep(rate, g + 1) - 1

(* laneStepOffset, in units of 1 / den of a global step. *)
LaneStepOffset(rate, p, g) == p * rate.num - g * rate.den

(* The lane step that sounds at global step g: the playhead of the lane. *)
LaneStepAtGlobalStep(rate, g) == (g * rate.den) \div rate.num
=============================================================================
