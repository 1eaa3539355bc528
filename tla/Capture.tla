------------------------------ MODULE Capture ------------------------------
(***************************************************************************)
(* model/Capture.{h,cpp}: a hit's time becomes a step of its lane. Seconds  *)
(* are samples here, a tempo is half samples per 1/16 step (StepClock), and *)
(* a step is off, or on with a velocity and what was programmed on it.      *)
(***************************************************************************)
EXTENDS LaneGrid, Sequences, FiniteSets

NoLane == 0
Off    == [on |-> FALSE, velocity |-> 0, programmed |-> FALSE]
Clean(v) == [on |-> TRUE, velocity |-> v, programmed |-> FALSE]

(* The first lane that plays the pad. *)
LaneForPad(lanes, pad) ==
  LET playing == {i \in DOMAIN lanes : lanes[i].pad = pad}
  IN  IF playing = {} THEN NoLane ELSE CHOOSE i \in playing : \A k \in playing : i <= k

(* std::llround of a / b: half away from zero. *)
RoundAway(a, b) == IF a >= 0 THEN RoundDiv(a, b) ELSE -RoundDiv(-a, b)

(* Mutant: truncation instead of rounding. *)
QuantiseDown(lane, sample, t) ==
  LET rate == LaneStepRate(lane.triplet)
  IN  ((2 * sample * rate.den) \div (t * rate.num)) % LaneLength(lane)

(* quantise(), on a lane. A bar is 16 straight steps or 12 triplets, so a   *)
(* lane step is num / den of a 1/16. % wraps below zero as well, which the  *)
(* code does in a second step.                                              *)
Quantise(lane, sample, t) ==
  LET rate == LaneStepRate(lane.triplet)
  IN  RoundAway(2 * sample * rate.den, t * rate.num) % LaneLength(lane)

(* merge(): a step that is on keeps what was programmed on it, and the      *)
(* louder velocity wins; a tap on a step that is off is clean.              *)
Merge(step, v) ==
  IF step.on THEN [step EXCEPT !.velocity = IF @ > v THEN @ ELSE v] ELSE Clean(v)
=============================================================================
