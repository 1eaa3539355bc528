---------------------------- MODULE MCSlotSwitch ----------------------------
(* The songs module SlotSwitch is checked with, and the reference that the   *)
(* chain's arithmetic is compared with.                                     *)
EXTENDS SlotSwitch, SequencesExt

Bars(slot, n) == [slot |-> slot, bars |-> n]

NoSong == {[chain |-> <<>>, loop |-> FALSE]}

(* Loops that come back to a slot, that do not begin with the slot that is   *)
(* up, and that name a slot there is not, first and in between; and a        *)
(* one-shot. A step of no bars counts as one.                                *)
SomeSongs == {[chain |-> <<Bars(0, 1), Bars(1, 1), Bars(0, 0), Bars(2, 1)>>, loop |-> TRUE],
              [chain |-> <<Bars(1, 1), Bars(0, 2)>>, loop |-> TRUE],
              [chain |-> <<Bars(7, 1), Bars(1, 1), Bars(2, 1)>>, loop |-> TRUE],
              [chain |-> <<Bars(1, 1), Bars(7, 1), Bars(2, 1)>>, loop |-> TRUE],
              [chain |-> <<Bars(0, 1), Bars(1, 1), Bars(0, 1)>>, loop |-> FALSE]}

(* A loop that is in its first slot again before it is over.                *)
ComesBack == {[chain |-> <<Bars(0, 1), Bars(1, 1), Bars(0, 1), Bars(2, 1)>>, loop |-> TRUE]}

VerseOnce == {[chain |-> <<Bars(0, 1), Bars(1, 2)>>, loop |-> FALSE]}
VerseLoop == {[chain |-> <<Bars(0, 1), Bars(1, 2)>>, loop |-> TRUE]}

(* The chain written out with one entry per bar.                            *)
Unrolled(chain) == FlattenSeq([i \in DOMAIN chain |-> [b \in 1 .. Song!BarsOf(chain[i]) |-> i]])

ShortChains == UNION {[1 .. n -> [slot : {0}, bars : -1 .. 3]] : n \in 0 .. 3}

(* Song.h: stepAtBar is the step that a chain, played once or round and      *)
(* round, is in after so many bars - also a chain with steps of zero or     *)
(* negative length.                                                         *)
Unrolls(chain, loop, bar) ==
  Song!StepAtBar(chain, loop, bar) =
    LET bars == Unrolled(chain)
    IN  IF bars = <<>> \/ bar < 0 \/ (~loop /\ bar >= Len(bars)) THEN Song!NoStep
        ELSE bars[(bar % Len(bars)) + 1]

(* Of every chain of up to three steps, over twelve bars; it says nothing of  *)
(* the state, so it is looked at before the first operation.                *)
StepAtBarUnrolls ==
  ops = MaxOps => \A chain \in ShortChains, loop \in BOOLEAN, bar \in -1 .. 11 :
                    Unrolls(chain, loop, bar)
=============================================================================
