---------------------------- MODULE MCStepEvents ----------------------------
(***************************************************************************)
(* Patterns, pads and feels for TLC's runs of StepEvents.                   *)
(***************************************************************************)
EXTENDS StepEvents

Plain == [shift |-> 0, ratchets |-> 1, probability |-> 100]

(* Two straight lanes, a shift to either side, a roll. *)
Straight ==
  [lanes |-> <<[pad |-> 1, triplet |-> FALSE, length |-> 2,
                lit |-> (0 :> Plain) @@ (1 :> [Plain EXCEPT !.shift = -6])],
               [pad |-> 2, triplet |-> FALSE, length |-> 3,
                lit |-> (0 :> [Plain EXCEPT !.probability = 50])
                          @@ (2 :> [Plain EXCEPT !.shift = 9, !.ratchets = 2])]>>,
   rolls |-> <<[pad |-> 1, start |-> 1, offsets |-> <<0, 8, 30>>]>>]

(* A triplet lane with a ratchet that rings into later steps, and a lane of   *)
(* no length that would play if it had one. *)
Triplets ==
  [lanes |-> <<[pad |-> 2, triplet |-> TRUE, length |-> 3,
                lit |-> (0 :> Plain) @@ (1 :> [Plain EXCEPT !.ratchets = 3])
                          @@ (2 :> [Plain EXCEPT !.probability = 0])],
               [pad |-> 1, triplet |-> FALSE, length |-> 4,
                lit |-> (0 :> Plain) @@ (3 :> [Plain EXCEPT !.shift = 20])],
               [pad |-> 1, triplet |-> FALSE, length |-> 0, lit |-> (0 :> Plain)]>>,
   rolls |-> <<>>]

MCPatterns == {Straight, Triplets}

Dry   == [swing |-> 0, humanise |-> 0]
Loose == [swing |-> 8, humanise |-> 5]

MCFeels == {Dry, Loose}

MCPads == {1, 2}

(* Both pads in one choke group. *)
MCKits == {[p \in MCPads |-> 1]}

(* Pad 1 plays at once and in full to its last frame, which ends on the edge  *)
(* of some blocks; pad 2 is louder, rises and falls.                        *)
MCSounds ==
  (1 :> {[frames |-> 6, attack |-> 0, release |-> 0, loud |-> 1]})
    @@ (2 :> {[frames |-> 5, attack |-> 2, release |-> 3, loud |-> 2]})
=============================================================================
