----------------------------- MODULE MidiExport -----------------------------
(***************************************************************************)
(* model/MidiExporter.cpp: toSequence(), the notes of a pattern written out *)
(* for a MIDI file. A note is the pad it plays and its tick; `of` names the *)
(* hit it stands for, as module StepEvents names the engine's.              *)
(***************************************************************************)
EXTENDS LaneGrid, Sequences

StepTicks == 24   (* ticksPerQuarter / 4; the code's 240, scaled down       *)

(* Step.h:16, "1..8"; what was loaded from a file is clamped where it is used. *)
RatchetCount(s) == BetweenOf(s.ratchets, 1, 8)

(* Mutant: the ratchets are spread over a straight step. *)
StepNotesUnscaled(lane, li, g, p) ==
  LET rate == LaneStepRate(lane.triplet)
      s    == lane.lit[p % LaneLength(lane)]
      r    == RatchetCount(s)
  IN  {[of |-> <<"lane", li, p, j>>, pad |-> lane.pad, step |-> g,
        tick |-> RoundDiv(StepTicks * (rate.num * (24 * r * p + r * BetweenOf(s.shift, 0, 12))
                                        + rate.den * 24 * j),
                          24 * r * rate.den)] : j \in 0 .. r - 1}

(* The notes of lane step p, which begins in global step g. Of its ratchets  *)
(* and its micro-shift it knows what the engine does; probability, swing,    *)
(* humanise, and whether the pad is muted, it does not know. *)
StepNotes(lane, li, g, p) ==
  LET rate == LaneStepRate(lane.triplet)
      s    == lane.lit[p % LaneLength(lane)]
      r    == RatchetCount(s)
  IN  {[of |-> <<"lane", li, p, j>>, pad |-> lane.pad, step |-> g,
        tick |-> RoundDiv(StepTicks * rate.num
                            * (24 * r * p + r * BetweenOf(s.shift, 0, 12) + 24 * j),
                          24 * r * rate.den)] : j \in 0 .. r - 1}

LaneNotes(lane, li, g) ==
  UNION {StepNotes(lane, li, g, p) :
           p \in {q \in LaneStepsInGlobalStep(LaneStepRate(lane.triplet), g) :
                    q % LaneLength(lane) \in DOMAIN lane.lit}}

RollNotes(roll, ri, g) ==
  {[of |-> <<"roll", ri, g, k>>, pad |-> roll.pad, step |-> g,
    tick |-> RoundDiv(StepTicks * (24 * g + roll.offsets[k]), 24)] : k \in DOMAIN roll.offsets}

NotesOfStep(pattern, g, barSteps) ==
  (UNION {LaneNotes(pattern.lanes[li], li, g) : li \in DOMAIN pattern.lanes})
    \cup (UNION {RollNotes(pattern.rolls[ri], ri, g) :
                   ri \in {i \in DOMAIN pattern.rolls : pattern.rolls[i].start = g % barSteps}})

(* toSequence(), for the first n global steps. *)
MidiNotes(pattern, n, barSteps) == UNION {NotesOfStep(pattern, g, barSteps) : g \in 0 .. n - 1}
=============================================================================
