--------------------------- MODULE PatternChannel ---------------------------
(***************************************************************************)
(* What engine/Sequencer.h promises of its pattern channel, with each call *)
(* and each part of an audio block as one step: one request slot from the  *)
(* message thread, the pattern that plays, and the one that waits for the  *)
(* bar line.                                                               *)
(*                                                                         *)
(*  - It is the abstract specification module Sequencer implements when no *)
(*    call overlaps applyIncomingPattern().                                *)
(*  - It is the engine that module SlotSwitch composes with the slot       *)
(*    protocol of the message thread.                                      *)
(***************************************************************************)
EXTENDS Integers

CONSTANTS
  Patterns,     (* the patterns a caller can hand over                      *)
  NoPattern     (* nothing waits for the bar line                           *)

VARIABLES
  request,      (* incomingMode and what the triple buffer holds for it     *)
  active,       (* the pattern that plays                                   *)
  queued,       (* the pattern that waits for the bar line, or NoPattern    *)
  switchCount   (* how many waiting patterns have become the active one     *)

channel == <<request, active, queued, switchCount>>

NoRequest == [mode |-> "none"]
Requests  == {NoRequest} \cup [mode : {"immediate", "queued"}, pattern : Patterns]

ChannelTypeOK ==
  /\ request \in Requests
  /\ active \in Patterns
  /\ queued \in Patterns \cup {NoPattern}
  /\ switchCount \in Nat

ChannelInit(p) ==
  /\ request     = NoRequest
  /\ active      = p
  /\ queued      = NoPattern
  /\ switchCount = 0

(* Message thread: Sequencer::setPattern, replace the active pattern now. *)
SetPattern(p) ==
  /\ request' = [mode |-> "immediate", pattern |-> p]
  /\ UNCHANGED <<active, queued, switchCount>>

(* Message thread: Sequencer::queuePattern, swap in at the next bar. *)
QueuePattern(p) ==
  /\ request' = [mode |-> "queued", pattern |-> p]
  /\ UNCHANGED <<active, queued, switchCount>>

(* What waits once the request has been taken: an immediate pattern drops   *)
(* whatever waited, without counting it.                                    *)
WaitingAfterRequest ==
  CASE request.mode = "immediate" -> NoPattern
    [] request.mode = "queued"    -> request.pattern
    [] OTHER                      -> queued

(* Audio thread: applyIncomingPattern. Stopped, there is no bar line to     *)
(* wait for.                                                                *)
Apply(nowPlaying) ==
  /\ request' = NoRequest
  /\ \/ /\ ~nowPlaying /\ WaitingAfterRequest # NoPattern
        /\ active'      = WaitingAfterRequest
        /\ queued'      = NoPattern
        /\ switchCount' = switchCount + 1
     \/ /\ nowPlaying \/ WaitingAfterRequest = NoPattern
        /\ active' = IF request.mode = "immediate" THEN request.pattern ELSE active
        /\ queued' = WaitingAfterRequest
        /\ UNCHANGED switchCount

(* Audio thread: a step on the bar line, before its events are generated. *)
BarLine ==
  /\ queued # NoPattern
  /\ active'      = queued
  /\ queued'      = NoPattern
  /\ switchCount' = switchCount + 1
  /\ UNCHANGED request

ChannelNext ==
  \/ \E p \in Patterns : SetPattern(p) \/ QueuePattern(p)
  \/ \E nowPlaying \in BOOLEAN : Apply(nowPlaying)
  \/ BarLine

ChannelSpec ==
  /\ \E p \in Patterns : ChannelInit(p)
  /\ [][ChannelNext]_channel
=============================================================================
