-------------------------- MODULE SlotSwitchProofs --------------------------
(***************************************************************************)
(* The slot protocol of ui/MainComponent.cpp, for any number of slots, any  *)
(* songs and any sequence of operations: the grid shows what the engine     *)
(* plays, no slot loses the user's work, what is saved is that work, and an *)
(* undo stays in its slot. And the song that plays over the slots: what     *)
(* stepAtBar computes, that a one-shot chain stops in time, and that every  *)
(* bar begins with its own slot.                                            *)
(*                                                                         *)
(* Two facts carry the slots. The channel has one destination, the pattern  *)
(* it will play once every request is taken and every bar line has passed,  *)
(* and that is what is on screen, or what the screen waits for. And the     *)
(* user's work in the slot that is up is in two places, the screen and, for *)
(* as long as a switch away from it is on its way, the bank.                *)
(*                                                                         *)
(* One fact carries the song: between two bar lines the timer looks at the  *)
(* bar once, finding no switch under way, and from then on the slot that    *)
(* the next bar will begin with is the one the chain has for it.            *)
(***************************************************************************)
EXTENDS MCSlotSwitch, WellFoundedInduction, TLAPS

Undos == {NoUndo} \cup [before : Patterns, home : Slots \cup {-1}]

(* The types, in the groups the steps change together. *)
Flags ==
  /\ playing \in BOOLEAN /\ resetRequested \in BOOLEAN /\ nowPlaying \in BOOLEAN
  /\ pendingActive \in BOOLEAN /\ evolving \in BOOLEAN /\ songMode \in BOOLEAN

Steps ==
  /\ apc \in {"idle", "steps"}
  /\ nextStep \in 0 .. MaxStep + 1 /\ currentStep \in -1 .. MaxStep
  /\ songStartStep \in -1 .. MaxStep + BarSteps

Stored ==
  /\ bank \in [Slots -> Patterns] /\ currentSlot \in Slots /\ editPattern \in Patterns
  /\ evolveAnchor \in Patterns /\ undo \in Undos

Waits ==
  /\ mpc \in {"idle", "queue", "song", "evolve"}
  /\ pendingSlot \in Slots \cup {-1} /\ pendingPattern \in Patterns \cup {NoPattern}
  /\ pendingActive => pendingSlot \in Slots /\ pendingPattern \in Patterns
  /\ mpc = "queue" => /\ call.slot \in Slots /\ call.pattern \in Patterns
                      /\ call.then \in {"idle", "evolve"}

WroteOK == wrote \in [Slots -> Patterns] /\ raced \subseteq Slots

Counted == ops \in 0 .. MaxOps /\ rev \in Nat /\ rev + ops <= MaxOps + 1

Types == PC!ChannelTypeOK /\ Flags /\ Steps /\ Stored /\ Waits /\ WroteOK /\ Counted

-----------------------------------------------------------------------------
(* The constants, and what can be done with a pattern. *)
LEMMA Constants ==
  /\ NumSlots \in Nat /\ NumSlots > 0 /\ BarSteps \in Nat /\ BarSteps > 0
  /\ Variations \in Nat /\ MaxStep \in Nat /\ MaxOps \in Nat
  BY SlotSwitchAssumption

LEMMA PatternFields ==
  ASSUME NEW p \in Patterns
  PROVE  /\ Base(p) \in Patterns /\ Base(Base(p)) = Base(p)
         /\ Cleared(p) \in Patterns /\ Base(Cleared(p)) = Cleared(p)
         /\ \A v \in 0 .. Variations : /\ [p EXCEPT !.vary = v] \in Patterns
                                       /\ Base([p EXCEPT !.vary = v]) = Base(p)
  <1>1. /\ p.slot \in Slots /\ p.rev \in 0 .. MaxRev /\ p.vary \in 0 .. Variations
        /\ 0 \in 0 .. Variations /\ 0 \in 0 .. MaxRev
        /\ p = [slot |-> p.slot, rev |-> p.rev, vary |-> p.vary]
    BY Constants DEF Patterns, MaxRev
  <1>2. Base(p) = [slot |-> p.slot, rev |-> p.rev, vary |-> 0]
    BY <1>1 DEF Base
  <1>3. Cleared(p) = [slot |-> p.slot, rev |-> 0, vary |-> 0]
    <2>1. Cleared(p) = [[p EXCEPT !.rev = 0] EXCEPT !.vary = 0]
      BY DEF Cleared
    <2>2. [p EXCEPT !.rev = 0] = [slot |-> p.slot, rev |-> 0, vary |-> p.vary]
      BY <1>1
    <2>3. [[slot |-> p.slot, rev |-> 0, vary |-> p.vary] EXCEPT !.vary = 0]
            = [slot |-> p.slot, rev |-> 0, vary |-> 0]
      OBVIOUS
    <2>4. QED
      BY <2>1, <2>2, <2>3
  <1>4. ASSUME NEW v \in 0 .. Variations
        PROVE  /\ [p EXCEPT !.vary = v] \in Patterns
               /\ Base([p EXCEPT !.vary = v]) = Base(p)
    <2>1. [p EXCEPT !.vary = v] = [slot |-> p.slot, rev |-> p.rev, vary |-> v]
      BY <1>1
    <2>2. Base([slot |-> p.slot, rev |-> p.rev, vary |-> v])
            = [slot |-> p.slot, rev |-> p.rev, vary |-> 0]
      BY DEF Base
    <2>3. QED
      BY <1>1, <1>2, <2>1, <2>2 DEF Patterns
  <1>5. Base(p) \in Patterns /\ Cleared(p) \in Patterns
    BY <1>1, <1>2, <1>3 DEF Patterns
  <1>6. Base(Base(p)) = Base(p) /\ Base(Cleared(p)) = Cleared(p)
    <2>1. \A a, b, c : Base([slot |-> a, rev |-> b, vary |-> c])
                         = [slot |-> a, rev |-> b, vary |-> 0]
      BY DEF Base
    <2>2. QED
      BY <1>2, <1>3, <2>1
  <1>7. QED
    BY <1>4, <1>5, <1>6

LEMMA WrittenPattern ==
  ASSUME NEW s \in Slots, NEW r \in 0 .. MaxRev
  PROVE  Written(s, r) \in Patterns /\ Base(Written(s, r)) = Written(s, r)
  BY Constants DEF Patterns, Base, Written

LEMMA NotAPattern == NoPattern \notin Patterns
  BY Constants DEF Patterns, NoPattern, Slots

LEMMA BarStart ==
  ASSUME NEW c \in Nat
  PROVE  BarSteps * BarOf(c) \in 0 .. c
  <1>1. BarSteps \in Nat /\ BarSteps > 0
    BY Constants
  <1>2. c \div BarSteps \in Nat /\ BarSteps * (c \div BarSteps) <= c
    BY <1>1
  <1>3. QED
    BY <1>1, <1>2 DEF BarOf

-----------------------------------------------------------------------------
(* The parts that several actions share. *)
LEMMA CommitTypes ==
  ASSUME Types, NEW slot \in Slots, NEW p \in Patterns, CommitPattern(slot, p)
  PROVE  /\ currentSlot' \in Slots /\ editPattern' \in Patterns /\ evolveAnchor' \in Patterns
         /\ undo' \in Undos /\ pendingActive' = FALSE /\ pendingSlot' = -1
  BY DEF Types, Stored, CommitPattern, Undos

LEMMA SetTypes ==
  ASSUME Types, NEW p \in Patterns, PC!SetPattern(p) \/ PC!QueuePattern(p)
  PROVE  PC!ChannelTypeOK'
  BY DEF Types, PC!ChannelTypeOK, PC!SetPattern, PC!QueuePattern, PC!Requests

LEMMA QueueBarTypes ==
  ASSUME Types, NEW slot \in Slots, NEW p \in Patterns, NEW then \in {"idle", "evolve"},
         QueueBarPattern(slot, p, then)
  PROVE  /\ PC!ChannelTypeOK'
         /\ currentSlot' \in Slots /\ editPattern' \in Patterns /\ evolveAnchor' \in Patterns
         /\ undo' \in Undos /\ pendingActive' \in BOOLEAN /\ Waits'
  <1>1. CASE ~playing
    <2>1. PC!SetPattern(p) /\ CommitPattern(slot, p) /\ mpc' = then
          /\ UNCHANGED <<pendingPattern, call>>
      BY <1>1 DEF QueueBarPattern
    <2>2. Waits'
      BY <2>1, CommitTypes DEF Types, Waits
    <2>3. QED
      BY <2>1, <2>2, CommitTypes, SetTypes
  <1>2. CASE playing
    <2>1. /\ call' = [slot |-> slot, pattern |-> p, then |-> then] /\ mpc' = "queue"
          /\ UNCHANGED <<channel, currentSlot, editPattern, undo, evolveAnchor, pendingActive,
                         pendingSlot, pendingPattern>>
      BY <1>2 DEF QueueBarPattern
    <2>2. Waits'
      BY <2>1 DEF Types, Waits
    <2>3. QED
      BY <2>1, <2>2 DEF Types, Stored, Flags, channel, PC!ChannelTypeOK
  <1>3. QED
    BY <1>1, <1>2 DEF Types, Flags

LEMMA SelectTypes ==
  ASSUME Types, NEW slot \in Slots, NEW then \in {"idle", "evolve"}, SelectSlot(slot, then)
  PROVE  PC!ChannelTypeOK' /\ Stored' /\ pendingActive' \in BOOLEAN /\ Waits'
  <1>1. QueueBarPattern(slot, bank[slot], then) /\ bank[slot] \in Patterns
    BY DEF SelectSlot, Types, Stored
  <1>2. bank' \in [Slots -> Patterns]
    BY DEF SelectSlot, Types, Stored
  <1>3. QED
    BY <1>1, <1>2, QueueBarTypes DEF Stored

LEMMA PushEditTypes ==
  ASSUME Types, NEW p \in Patterns, PushEditPattern(p)
  PROVE  /\ PC!ChannelTypeOK' /\ editPattern' \in Patterns /\ evolveAnchor' \in Patterns
         /\ pendingActive' = FALSE /\ pendingSlot' = -1
  BY SetTypes DEF PushEditPattern, Types, Stored

(* What the song asks of the slots: a switch to another one, or nothing.    *)
LEMMA SelectIfDoes ==
  ASSUME NEW c, NEW slot, NEW then, SelectIf(c, slot, then)
  PROVE  \/ \E s \in Slots \ {currentSlot} : SelectSlot(s, then)
         \/ mpc' = then /\ StaysPut
  BY DEF SelectIf, ValidSlot

LEMMA SongDoes ==
  ASSUME UpdateSongPlayback
  PROVE  \/ \E s \in Slots \ {currentSlot} : SelectSlot(s, "evolve")
         \/ mpc' = "evolve" /\ StaysPut
  <1>1. CASE SongAnchors \/ SongAdvances
    BY <1>1, SelectIfDoes DEF SongAnchors, SongAdvances
  <1>2. CASE SongOff \/ SongWaits \/ SongEnds
    BY <1>2 DEF SongOff, SongWaits, SongEnds
  <1>3. QED
    BY <1>1, <1>2 DEF UpdateSongPlayback

(* What EVOLVE asks: a variation for the slot that is up, or nothing.       *)
LEMMA EvolveDoes ==
  ASSUME UpdateEvolve
  PROVE  \/ /\ evolving /\ bank' = bank
            /\ \E v \in 1 .. Variations :
                 QueueBarPattern(currentSlot, [evolveAnchor EXCEPT !.vary = v], "idle")
         \/ mpc' = "idle" /\ StaysPut
  BY DEF UpdateEvolve, EvolveOff, EvolveWaits, EvolveBar

LEMMA StaysPutTypes ==
  ASSUME Types, StaysPut, mpc' \in {"idle", "song", "evolve"}
  PROVE  PC!ChannelTypeOK' /\ Stored' /\ Waits' /\ pendingActive' \in BOOLEAN
  BY DEF Types, StaysPut, channel, slots, pending, PC!ChannelTypeOK, Stored, Waits, Flags

-----------------------------------------------------------------------------
(* Every step keeps the types, group by group.                              *)
LEMMA NextFlags ==
  Types /\ [Next]_<<vars, song>> =>
    /\ playing' \in BOOLEAN /\ resetRequested' \in BOOLEAN /\ nowPlaying' \in BOOLEAN
    /\ evolving' \in BOOLEAN /\ songMode' \in BOOLEAN
  <1> SUFFICES ASSUME Types, [Next]_<<vars, song>>
               PROVE  /\ playing' \in BOOLEAN /\ resetRequested' \in BOOLEAN
                      /\ nowPlaying' \in BOOLEAN /\ evolving' \in BOOLEAN /\ songMode' \in BOOLEAN
    OBVIOUS
  <1>1. Flags
    BY DEF Types
  <1> USE DEF Flags, audio, transport, songVars
  <1>2. CASE Play \/ Stop \/ Select \/ Edit \/ Undo
    <2>1. CASE Play \/ Stop
      BY <1>1, <2>1, Zenon DEF Play, Stop, evolve
    <2>2. CASE Select \/ Edit \/ Undo
      BY <1>1, <2>2, Zenon DEF Select, Edit, Undo
    <2>3. QED
      BY <1>2, <2>1, <2>2
  <1>3. CASE CopyTo \/ ClearSlot \/ ToggleEvolve
    BY <1>1, <1>3, Zenon DEF CopyTo, ClearSlot, ToggleEvolve, evolve
  <1>4. CASE ToggleSong \/ Load \/ Prepare
    BY <1>1, <1>4, Zenon DEF ToggleSong, Load, Prepare, evolve
  <1>5. CASE QueueStep \/ CommitTick
    BY <1>1, <1>5, Zenon DEF QueueStep, CommitTick, evolve
  <1>6. CASE UpdateSongPlayback
    <2>1. playing' = playing \/ playing' = FALSE
      BY <1>6 DEF UpdateSongPlayback, SongOff, SongAnchors, SongWaits, SongEnds, SongAdvances
    <2>2. UNCHANGED <<resetRequested, nowPlaying, evolving, songMode>>
      BY <1>6 DEF UpdateSongPlayback
    <2>3. QED
      BY <1>1, <2>1, <2>2, Zenon
  <1>7. CASE UpdateEvolve
    BY <1>1, <1>7, Zenon DEF UpdateEvolve
  <1>8. CASE AudioNext
    BY <1>1, <1>8, Zenon DEF AudioNext, BeginBlock, FireStep, EndBlock, message, evolve
  <1>9. CASE UNCHANGED <<vars, song>>
    BY <1>1, <1>9, Zenon DEF vars, evolve
  <1>10. QED
    BY <1>2, <1>3, <1>4, <1>5, <1>6, <1>7, <1>8, <1>9 DEF Next, UserNext, TimerNext

LEMMA NextSteps == Types /\ [Next]_<<vars, song>> => Steps'
  <1> SUFFICES ASSUME Types, [Next]_<<vars, song>> PROVE Steps'
    OBVIOUS
  <1>1. Steps /\ BarSteps \in Nat /\ BarSteps > 0 /\ MaxStep \in Nat
    BY Constants DEF Types
  <1> USE DEF Steps, audio, songVars
  <1>2. CASE Play \/ Stop \/ Select \/ Edit \/ Undo
    <2>1. UNCHANGED <<audio, songVars>>
      BY <1>2 DEF Play, Stop, Select, Edit, Undo
    <2>2. QED
      BY <1>1, <2>1
  <1>3. CASE CopyTo \/ ClearSlot \/ ToggleEvolve
    BY <1>1, <1>3 DEF CopyTo, ClearSlot, ToggleEvolve
  <1>4. CASE ToggleSong \/ Load \/ Prepare
    <2>1. CASE ToggleSong \/ Load
      <3>1. songStartStep' = -1 /\ UNCHANGED audio
        BY <2>1, Zenon DEF ToggleSong, Load
      <3>2. QED
        BY <1>1, <3>1
    <2>2. CASE Prepare
      BY <1>1, <2>2 DEF Prepare
    <2>3. QED
      BY <1>4, <2>1, <2>2
  <1>5. CASE QueueStep \/ CommitTick
    BY <1>1, <1>5 DEF QueueStep, CommitTick
  <1>6. CASE UpdateSongPlayback
    <2>1. UNCHANGED audio
      BY <1>6 DEF UpdateSongPlayback
    <2>2. songStartStep' \in -1 .. MaxStep + BarSteps
      <3>1. CASE SongAnchors
        <4>1. /\ currentStep \in Nat /\ currentStep <= MaxStep
              /\ \/ songStartStep' = BarSteps * BarOf(currentStep)
                 \/ songStartStep' = BarSteps * BarOf(currentStep) + BarSteps
          BY <1>1, <3>1 DEF SongAnchors
        <4>2. QED
          BY <1>1, <4>1, BarStart
      <3>2. CASE SongOff \/ SongWaits \/ SongEnds \/ SongAdvances
        BY <1>1, <3>2 DEF SongOff, SongWaits, SongEnds, SongAdvances
      <3>3. QED
        BY <1>6, <3>1, <3>2 DEF UpdateSongPlayback
    <2>3. QED
      BY <1>1, <2>1, <2>2
  <1>7. CASE UpdateEvolve
    BY <1>1, <1>7 DEF UpdateEvolve
  <1>8. CASE AudioNext
    BY <1>1, <1>8 DEF AudioNext, BeginBlock, FireStep, EndBlock, message
  <1>9. CASE UNCHANGED <<vars, song>>
    BY <1>1, <1>9 DEF vars
  <1>10. QED
    BY <1>2, <1>3, <1>4, <1>5, <1>6, <1>7, <1>8, <1>9 DEF Next, UserNext, TimerNext

LEMMA NextCounted == Types /\ [Next]_<<vars, song>> => Counted'
  <1> SUFFICES ASSUME Types, [Next]_<<vars, song>> PROVE Counted'
    OBVIOUS
  <1>1. Counted /\ MaxOps \in Nat
    BY Constants DEF Types
  <1>2. CASE UserNext
    <2>1. ops > 0 /\ ops' = ops - 1
      BY <1>2 DEF UserNext, User, Play, Stop, Select, Edit, Undo, CopyTo, ClearSlot,
                  ToggleEvolve, ToggleSong, Load, Prepare
    <2>2. CASE Edit \/ Load
      <3>1. rev' = rev + 1
        BY <2>2, Zenon DEF Edit, Load
      <3>2. QED
        BY <1>1, <2>1, <3>1 DEF Counted
    <2>3. CASE ~(Edit \/ Load)
      <3>1. rev' = rev
        BY <1>2, <2>3 DEF UserNext, Play, Stop, Select, Undo, CopyTo, ClearSlot, ToggleEvolve,
                          ToggleSong, Prepare
      <3>2. QED
        BY <1>1, <2>1, <3>1 DEF Counted
    <2>4. QED
      BY <2>2, <2>3
  <1>3. CASE QueueStep \/ TimerNext
    BY <1>1, <1>3 DEF Counted, QueueStep, TimerNext, CommitTick, UpdateSongPlayback, UpdateEvolve,
                      EvolveBar, history
  <1>4. CASE AudioNext \/ UNCHANGED <<vars, song>>
    BY <1>1, <1>4 DEF Counted, AudioNext, BeginBlock, FireStep, EndBlock, message, vars, history
  <1>5. QED
    BY <1>2, <1>3, <1>4 DEF Next

(* The history of what the user wrote. *)
LEMMA NextWritten == Types /\ [Next]_<<vars, song>> => WroteOK'
  <1> SUFFICES ASSUME Types, [Next]_<<vars, song>> PROVE WroteOK'
    OBVIOUS
  <1>1. WroteOK /\ Stored /\ Waits /\ Counted /\ MaxOps \in Nat
    BY Constants DEF Types
  <1> USE DEF WroteOK
  <1>2. CASE Edit
    <2>1. /\ ops > 0 /\ wrote' = [wrote EXCEPT ![currentSlot] = Base(editPattern')]
          /\ raced' = raced \ {currentSlot} /\ editPattern' = Written(currentSlot, rev + 1)
      BY <1>2 DEF Edit, User, PushEditPattern
    <2>2. editPattern' \in Patterns /\ Base(editPattern') \in Patterns
      BY <1>1, <2>1, WrittenPattern, PatternFields DEF Counted, Stored, MaxRev
    <2>3. QED
      BY <1>1, <2>1, <2>2
  <1>3. CASE Undo
    <2>1. undo.before \in Patterns
      BY <1>1, <1>3 DEF Undo, Stored, Undos
    <2>2. QED
      BY <1>1, <1>3, <2>1, PatternFields DEF Undo
  <1>4. ASSUME NEW s \in Slots, NEW p \in Patterns, Rewrite(s, p) PROVE WroteOK'
    BY <1>1, <1>4, PatternFields DEF Rewrite
  <1>5. CASE CopyTo
    BY <1>1, <1>4, <1>5 DEF CopyTo, Stored
  <1>6. CASE ClearSlot
    <2>1. \A s \in Slots : Cleared(bank[s]) \in Patterns
      BY <1>1, PatternFields DEF Stored
    <2>2. PICK s \in Slots : \/ Rewrite(s, Cleared(bank[s]))
                             \/ /\ wrote' = [wrote EXCEPT ![s] = Cleared(bank[s])]
                                /\ raced' = raced \ {s}
      BY <1>6 DEF ClearSlot
    <2>3. QED
      BY <1>1, <1>4, <2>1, <2>2
  <1>7. CASE Load
    <2>1. /\ ops > 0 /\ wrote' = [s \in Slots |-> Written(s, rev + 1)] /\ raced' = {}
      BY <1>7 DEF Load, User
    <2>2. rev + 1 \in 0 .. MaxRev
      BY <1>1, <2>1 DEF Counted, MaxRev
    <2>3. QED
      BY <2>1, <2>2, WrittenPattern
  <1>8. CASE ~(Edit \/ Undo \/ CopyTo \/ ClearSlot \/ Load)
    <2>1. UNCHANGED <<wrote, raced>>
      BY <1>8 DEF Next, UserNext, TimerNext, AudioNext, Play, Stop, Select, ToggleEvolve,
                  ToggleSong, Prepare, QueueStep, CommitTick, UpdateSongPlayback, UpdateEvolve,
                  BeginBlock, FireStep, EndBlock, message, vars, history
    <2>2. QED
      BY <1>1, <2>1
  <1>9. QED
    BY <1>2, <1>3, <1>5, <1>6, <1>7, <1>8

(* The channel, the slots and the switch that waits. *)
Moves == PC!ChannelTypeOK /\ Stored /\ Waits /\ pendingActive \in BOOLEAN

LEMMA NextMoves == Types /\ [Next]_<<vars, song>> => Moves'
  <1> SUFFICES ASSUME Types, [Next]_<<vars, song>> PROVE Moves'
    OBVIOUS
  <1>1. Stored /\ Waits /\ Counted /\ PC!ChannelTypeOK /\ MaxOps \in Nat
        /\ pendingActive \in BOOLEAN
    BY Constants DEF Types, Flags
  <1> USE DEF Moves
  <1>2. ASSUME UNCHANGED <<channel, slots, pending, evolveAnchor, undo, mpc, call>> PROVE Moves'
    BY <1>1, <1>2 DEF channel, slots, pending, PC!ChannelTypeOK, Stored, Waits
  <1>3. CASE Play \/ Stop \/ Prepare \/ EndBlock \/ UNCHANGED <<vars, song>>
    BY <1>2, <1>3 DEF Play, Stop, Prepare, EndBlock, vars, message, evolve
  <1>4. CASE Select
    BY <1>4, SelectTypes DEF Select
  <1>5. CASE Edit
    <2>1. /\ ops > 0 /\ PushEditPattern(Written(currentSlot, rev + 1))
          /\ undo' = [before |-> editPattern, home |-> currentSlot]
          /\ UNCHANGED <<bank, currentSlot, pendingPattern, mpc, call>>
      BY <1>5 DEF Edit, User
    <2>2. Written(currentSlot, rev + 1) \in Patterns
      BY <1>1, <2>1, WrittenPattern DEF Counted, Stored, MaxRev
    <2>3. /\ PC!ChannelTypeOK' /\ editPattern' \in Patterns /\ evolveAnchor' \in Patterns
          /\ pendingActive' = FALSE /\ pendingSlot' = -1
      BY <2>1, <2>2, PushEditTypes
    <2>4. QED
      BY <1>1, <2>1, <2>3 DEF Stored, Waits, Undos
  <1>6. CASE Undo
    <2>1. /\ undo # NoUndo /\ PushEditPattern(undo.before) /\ undo' = NoUndo
          /\ UNCHANGED <<bank, currentSlot, pendingPattern, mpc, call>>
      BY <1>6 DEF Undo
    <2>2. undo.before \in Patterns
      BY <1>1, <2>1 DEF Stored, Undos
    <2>3. /\ PC!ChannelTypeOK' /\ editPattern' \in Patterns /\ evolveAnchor' \in Patterns
          /\ pendingActive' = FALSE /\ pendingSlot' = -1
      BY <2>1, <2>2, PushEditTypes
    <2>4. QED
      BY <1>1, <2>1, <2>3 DEF Stored, Waits, Undos
  <1>7. CASE CopyTo
    <2>1. PICK s \in Slots : bank' = [bank EXCEPT ![s] = editPattern]
      BY <1>7 DEF CopyTo, Rewrite
    <2>2. UNCHANGED <<channel, currentSlot, editPattern, pending, evolveAnchor, undo, mpc, call>>
      BY <1>7 DEF CopyTo, evolve
    <2>3. QED
      BY <1>1, <2>1, <2>2 DEF channel, pending, PC!ChannelTypeOK, Stored, Waits
  <1>8. CASE ClearSlot
    <2>1. PICK s \in Slots :
            /\ bank' = [bank EXCEPT ![s] = Cleared(bank[s])]
            /\ \/ UNCHANGED <<channel, editPattern, pendingActive, pendingSlot, evolveAnchor, undo>>
               \/ undo' = NoUndo /\ PushEditPattern(Cleared(bank[s]))
      BY <1>8 DEF ClearSlot, Rewrite
    <2>2. UNCHANGED <<currentSlot, pendingPattern, mpc, call>>
      BY <1>8 DEF ClearSlot
    <2>3. Cleared(bank[s]) \in Patterns
      BY <1>1, PatternFields DEF Stored
    <2>4. CASE UNCHANGED <<channel, editPattern, pendingActive, pendingSlot, evolveAnchor, undo>>
      BY <1>1, <2>1, <2>2, <2>3, <2>4 DEF channel, PC!ChannelTypeOK, Stored, Waits
    <2>5. CASE undo' = NoUndo /\ PushEditPattern(Cleared(bank[s]))
      BY <1>1, <2>1, <2>2, <2>3, <2>5, PushEditTypes DEF Stored, Waits, Undos
    <2>6. QED
      BY <2>1, <2>4, <2>5
  <1>9. CASE ToggleEvolve
    BY <1>1, <1>9 DEF ToggleEvolve, channel, slots, pending, PC!ChannelTypeOK, Stored, Waits
  <1>10. CASE ToggleSong
    <2>1. \/ \E s \in Slots \ {currentSlot} : SelectSlot(s, "idle")
          \/ mpc' = "idle" /\ StaysPut
      BY <1>10, SelectIfDoes DEF ToggleSong
    <2>2. QED
      BY <2>1, SelectTypes, StaysPutTypes
  <1>11. CASE Load
    <2>1. /\ ops > 0 /\ bank' = [s \in Slots |-> Written(s, rev + 1)] /\ currentSlot' \in Slots
          /\ PC!SetPattern(bank'[currentSlot'])
          /\ editPattern' = bank'[currentSlot'] /\ evolveAnchor' = bank'[currentSlot']
          /\ pendingActive' = FALSE /\ pendingSlot' = -1 /\ undo' = [undo EXCEPT !.home = -1]
          /\ UNCHANGED <<pendingPattern, mpc, call>>
      BY <1>11 DEF Load, User
    <2>2. bank' \in [Slots -> Patterns]
      BY <1>1, <2>1, WrittenPattern DEF Counted, MaxRev
    <2>3. PC!ChannelTypeOK'
      BY <2>1, <2>2, SetTypes
    <2>4. undo' \in Undos
      BY <1>1, <2>1 DEF Stored, Undos, NoUndo
    <2>5. QED
      BY <1>1, <2>1, <2>2, <2>3, <2>4 DEF Stored, Waits
  <1>12. CASE QueueStep
    <2>1. /\ mpc = "queue" /\ PC!QueuePattern(call.pattern) /\ pendingActive' = TRUE
          /\ pendingSlot' = call.slot /\ pendingPattern' = call.pattern /\ mpc' = call.then
          /\ UNCHANGED <<slots, evolveAnchor, undo>>
      BY <1>12 DEF QueueStep, evolve
    <2>2. /\ call.slot \in Slots /\ call.pattern \in Patterns /\ call.then \in {"idle", "evolve"}
      BY <1>1, <2>1 DEF Waits
    <2>3. PC!ChannelTypeOK'
      BY <2>1, <2>2, SetTypes
    <2>4. QED
      BY <1>1, <2>1, <2>2, <2>3 DEF Stored, Waits, slots
  <1>13. CASE CommitTick
    <2>1. mpc' = "song" /\ UNCHANGED <<bank, pendingPattern, call>>
      BY <1>13 DEF CommitTick
    <2>2. CASE pendingActive /\ CommitPattern(pendingSlot, pendingPattern)
      <3>1. pendingSlot \in Slots /\ pendingPattern \in Patterns
        BY <1>1, <2>2 DEF Waits
      <3>2. /\ currentSlot' \in Slots /\ editPattern' \in Patterns /\ evolveAnchor' \in Patterns
            /\ undo' \in Undos /\ pendingActive' = FALSE /\ pendingSlot' = -1
        BY <2>2, <3>1, CommitTypes
      <3>3. PC!SetPattern(pendingPattern) \/ UNCHANGED channel
        BY <1>13 DEF CommitTick
      <3>4. PC!ChannelTypeOK'
        BY <1>1, <3>1, <3>3, SetTypes DEF channel, PC!ChannelTypeOK
      <3>5. QED
        BY <1>1, <2>1, <3>2, <3>4 DEF Stored, Waits
    <2>3. CASE UNCHANGED <<channel, currentSlot, editPattern, undo, evolveAnchor, pendingActive,
                           pendingSlot>>
      BY <1>1, <2>1, <2>3 DEF channel, PC!ChannelTypeOK, Stored, Waits
    <2>4. QED
      BY <1>13, <2>2, <2>3 DEF CommitTick
  <1>14. CASE UpdateSongPlayback
    BY <1>14, SongDoes, SelectTypes, StaysPutTypes
  <1>15. CASE UpdateEvolve
    <2>1. CASE mpc' = "idle" /\ StaysPut
      BY <2>1, StaysPutTypes
    <2>2. ASSUME bank' = bank, NEW v \in 1 .. Variations,
                 QueueBarPattern(currentSlot, [evolveAnchor EXCEPT !.vary = v], "idle")
          PROVE  Moves'
      <3>1. v \in 0 .. Variations
        BY Constants
      <3>2. [evolveAnchor EXCEPT !.vary = v] \in Patterns /\ currentSlot \in Slots
        BY <1>1, <3>1, PatternFields DEF Stored
      <3>3. QED
        BY <1>1, <2>2, <3>2, QueueBarTypes DEF Stored
    <2>3. QED
      BY <1>15, <2>1, <2>2, EvolveDoes
  <1>16. CASE BeginBlock
    <2>1. PC!Apply(playing) /\ UNCHANGED message
      BY <1>16 DEF BeginBlock
    <2>2. PC!ChannelTypeOK'
      BY <1>1, <2>1 DEF PC!ChannelTypeOK, PC!Apply, PC!WaitingAfterRequest, PC!Requests, PC!NoRequest
    <2>3. QED
      BY <1>1, <2>1, <2>2 DEF message, slots, pending, evolve, Stored, Waits
  <1>17. CASE FireStep
    <2>1. (PC!BarLine \/ UNCHANGED channel) /\ UNCHANGED message
      BY <1>17 DEF FireStep
    <2>2. PC!ChannelTypeOK'
      BY <1>1, <2>1 DEF PC!ChannelTypeOK, PC!BarLine, channel
    <2>3. QED
      BY <1>1, <2>1, <2>2 DEF message, slots, pending, evolve, Stored, Waits
  <1>18. QED
    BY <1>3, <1>4, <1>5, <1>6, <1>7, <1>8, <1>9, <1>10, <1>11, <1>12, <1>13, <1>14, <1>15, <1>16,
       <1>17 DEF Next, UserNext, TimerNext, AudioNext

LEMMA NextTypes == Types /\ [Next]_<<vars, song>> => Types'
  <1> SUFFICES ASSUME Types, [Next]_<<vars, song>> PROVE Types'
    OBVIOUS
  <1>1. Moves' /\ Steps' /\ Counted' /\ WroteOK'
    BY NextMoves, NextSteps, NextCounted, NextWritten
  <1>2. Flags'
    BY <1>1, NextFlags DEF Moves, Flags
  <1>3. QED
    BY <1>1, <1>2 DEF Moves, Types

LEMMA InitTypes == Init => Types
  <1> SUFFICES ASSUME Init PROVE Types
    OBVIOUS
  <1>1. 0 \in Slots /\ 1 \in 0 .. MaxRev
    BY Constants DEF Slots, MaxRev
  <1>2. \A s \in Slots : Written(s, 1) \in Patterns
    BY <1>1, WrittenPattern
  <1>3. Flags
    BY Zenon DEF Init, Flags
  <1>4. Steps
    BY Constants DEF Init, Steps
  <1>5. PC!ChannelTypeOK
    BY <1>1, <1>2 DEF Init, PC!ChannelInit, PC!ChannelTypeOK, PC!Requests
  <1>6. Stored /\ WroteOK
    BY <1>1, <1>2 DEF Init, Stored, WroteOK, Undos
  <1>7. Waits
    BY DEF Init, Waits
  <1>8. Counted
    BY Constants DEF Init, Counted
  <1>9. QED
    BY <1>3, <1>4, <1>5, <1>6, <1>7, <1>8 DEF Types

-----------------------------------------------------------------------------
(* What the channel will play when all that was asked of it has been done,  *)
(* and what the screen shows or waits for.                                  *)
Destined ==
  IF request.mode # "none" THEN request.pattern
  ELSE IF queued # NoPattern THEN queued ELSE active

Shown == IF pendingActive THEN pendingPattern ELSE editPattern

Match == Destined = Shown

(* The undo step belongs to the slot that is up, or to a project that is    *)
(* gone.                                                                    *)
AtHome == undo.home \in {currentSlot, -1}

(* The user's work in slot s: in the bank, for the slot that is up on the   *)
(* screen and, evolving, in the anchor; in the pattern that is on its way   *)
(* to the screen; and, with a switch away from s on its way, in the bank.   *)
WorkOf(s) ==
  /\ s # currentSlot => Base(bank[s]) = wrote[s]
  /\ s = currentSlot =>
       /\ Base(editPattern) = wrote[s]
       /\ evolving => Base(evolveAnchor) = wrote[s]
  /\ pendingActive =>
       /\ s = pendingSlot => Base(pendingPattern) = wrote[s]
       /\ s # pendingSlot => Base(bank[s]) = wrote[s]
  /\ mpc = "queue" =>
       /\ s = call.slot => Base(call.pattern) = wrote[s]
       /\ s # call.slot => Base(bank[s]) = wrote[s]

Work == \A s \in Slots \ raced : WorkOf(s)

(* A pattern handed over is where the channel goes. *)
LEMMA SetDestines ==
  ASSUME NEW p, PC!SetPattern(p) \/ PC!QueuePattern(p)
  PROVE  Destined' = p
  BY DEF Destined, PC!SetPattern, PC!QueuePattern

LEMMA StillDestined ==
  ASSUME UNCHANGED channel
  PROVE  Destined' = Destined
  BY DEF Destined, channel

LEMMA ApplyDestines ==
  ASSUME PC!ChannelTypeOK, NEW now, PC!Apply(now)
  PROVE  Destined' = Destined
  <1>1. request'.mode = "none"
    BY DEF PC!Apply, PC!NoRequest
  <1>2. \/ request = [mode |-> "none"]
        \/ /\ request.mode \in {"immediate", "queued"} /\ request.pattern \in Patterns
    BY DEF PC!ChannelTypeOK, PC!Requests, PC!NoRequest
  <1>3. NoPattern \notin Patterns
    BY NotAPattern
  <1>4. CASE request.mode = "immediate"
    BY <1>1, <1>3, <1>4 DEF PC!Apply, PC!WaitingAfterRequest, Destined
  <1>5. CASE request.mode = "queued"
    BY <1>1, <1>2, <1>3, <1>5 DEF PC!Apply, PC!WaitingAfterRequest, Destined
  <1>6. CASE request.mode = "none"
    BY <1>1, <1>3, <1>6 DEF PC!Apply, PC!WaitingAfterRequest, Destined
  <1>7. QED
    BY <1>2, <1>4, <1>5, <1>6

LEMMA BarLineDestines ==
  ASSUME PC!BarLine
  PROVE  Destined' = Destined
  BY DEF PC!BarLine, Destined

(* A switch of a pattern, an edit and a commit keep the screen in step.     *)
LEMMA QueueBarMatch ==
  ASSUME Types, Match, NEW slot, NEW p, NEW then, QueueBarPattern(slot, p, then)
  PROVE  Match'
  <1>1. CASE ~playing
    <2>1. Destined' = p /\ editPattern' = p /\ pendingActive' = FALSE
      BY <1>1, SetDestines DEF QueueBarPattern, CommitPattern
    <2>2. QED
      BY <2>1 DEF Match, Shown
  <1>2. CASE playing
    <2>1. UNCHANGED <<channel, editPattern, pendingActive, pendingPattern>>
      BY <1>2 DEF QueueBarPattern
    <2>2. QED
      BY <2>1, StillDestined DEF Match, Shown
  <1>3. QED
    BY <1>1, <1>2 DEF Types, Flags

LEMMA PushEditMatch ==
  ASSUME NEW p, PushEditPattern(p)
  PROVE  Match'
  BY SetDestines DEF PushEditPattern, Match, Shown

LEMMA StayMatch ==
  ASSUME Match, UNCHANGED <<channel, editPattern, pendingActive, pendingPattern>>
  PROVE  Match'
  BY StillDestined DEF Match, Shown

LEMMA NextMatch == Types /\ Match /\ [Next]_<<vars, song>> => Match'
  <1> SUFFICES ASSUME Types, Match, [Next]_<<vars, song>> PROVE Match'
    OBVIOUS
  <1>1. CASE Play \/ Stop \/ CopyTo \/ ToggleEvolve \/ Prepare \/ EndBlock \/ UNCHANGED <<vars, song>>
    <2>1. UNCHANGED <<channel, editPattern, pendingActive, pendingPattern>>
      BY <1>1 DEF Play, Stop, CopyTo, ToggleEvolve, Prepare, EndBlock, vars, message, slots, pending
    <2>2. QED
      BY <2>1, StayMatch
  <1>2. ASSUME NEW s, NEW then, SelectSlot(s, then) PROVE Match'
    BY <1>2, QueueBarMatch DEF SelectSlot
  <1>3. ASSUME StaysPut PROVE Match'
    BY <1>3, StayMatch DEF StaysPut, slots, pending
  <1>4. CASE Select
    BY <1>2, <1>4 DEF Select
  <1>5. CASE Edit \/ Undo
    BY <1>5, PushEditMatch DEF Edit, Undo
  <1>6. CASE ClearSlot
    <2>1. \/ UNCHANGED <<channel, editPattern, pendingActive>>
          \/ \E s \in Slots : PushEditPattern(Cleared(bank[s]))
      BY <1>6 DEF ClearSlot
    <2>2. UNCHANGED pendingPattern
      BY <1>6 DEF ClearSlot
    <2>3. QED
      BY <2>1, <2>2, StayMatch, PushEditMatch
  <1>7. CASE ToggleSong
    <2>1. \/ \E s \in Slots \ {currentSlot} : SelectSlot(s, "idle")
          \/ mpc' = "idle" /\ StaysPut
      BY <1>7, SelectIfDoes DEF ToggleSong
    <2>2. QED
      BY <1>2, <1>3, <2>1
  <1>8. CASE Load
    <2>1. PC!SetPattern(bank'[currentSlot']) /\ editPattern' = bank'[currentSlot']
          /\ pendingActive' = FALSE
      BY <1>8, Zenon DEF Load
    <2>2. QED
      BY <2>1, SetDestines DEF Match, Shown
  <1>9. CASE QueueStep
    <2>1. PC!QueuePattern(call.pattern) /\ pendingActive' = TRUE /\ pendingPattern' = call.pattern
      BY <1>9 DEF QueueStep
    <2>2. QED
      BY <2>1, SetDestines DEF Match, Shown
  <1>10. CASE CommitTick
    <2>1. UNCHANGED pendingPattern
      BY <1>10 DEF CommitTick
    <2>2. CASE pendingActive /\ CommitPattern(pendingSlot, pendingPattern)
      <3>1. editPattern' = pendingPattern /\ pendingActive' = FALSE
        BY <2>2 DEF CommitPattern
      <3>2. PC!SetPattern(pendingPattern) \/ UNCHANGED channel
        BY <1>10 DEF CommitTick
      <3>3. Destined = pendingPattern
        BY <2>2 DEF Match, Shown
      <3>4. Destined' = pendingPattern
        BY <3>2, <3>3, SetDestines, StillDestined
      <3>5. QED
        BY <3>1, <3>4 DEF Match, Shown
    <2>3. CASE UNCHANGED <<channel, editPattern, pendingActive>>
      BY <2>1, <2>3, StayMatch
    <2>4. QED
      BY <1>10, <2>2, <2>3 DEF CommitTick
  <1>11. CASE UpdateSongPlayback
    BY <1>2, <1>3, <1>11, SongDoes
  <1>12. CASE UpdateEvolve
    BY <1>3, <1>12, EvolveDoes, QueueBarMatch
  <1>13. CASE BeginBlock
    <2>1. PC!Apply(playing) /\ UNCHANGED <<editPattern, pendingActive, pendingPattern>>
      BY <1>13 DEF BeginBlock, message, slots, pending
    <2>2. QED
      BY <2>1, ApplyDestines DEF Match, Shown, Types
  <1>14. CASE FireStep
    <2>1. (PC!BarLine \/ UNCHANGED channel) /\ UNCHANGED <<editPattern, pendingActive, pendingPattern>>
      BY <1>14 DEF FireStep, message, slots, pending
    <2>2. QED
      BY <2>1, BarLineDestines, StillDestined DEF Match, Shown
  <1>15. QED
    BY <1>1, <1>4, <1>5, <1>6, <1>7, <1>8, <1>9, <1>10, <1>11, <1>12, <1>13, <1>14
    DEF Next, UserNext, TimerNext, AudioNext

-----------------------------------------------------------------------------
LEMMA QueueBarHome ==
  ASSUME Types, AtHome, NEW slot, NEW p, NEW then, QueueBarPattern(slot, p, then)
  PROVE  AtHome'
  BY DEF QueueBarPattern, CommitPattern, AtHome, NoUndo, Types, Flags

LEMMA NextHome == Types /\ AtHome /\ [Next]_<<vars, song>> => AtHome'
  <1> SUFFICES ASSUME Types, AtHome, [Next]_<<vars, song>> PROVE AtHome'
    OBVIOUS
  <1>1. ASSUME UNCHANGED <<undo, currentSlot>> PROVE AtHome'
    BY <1>1 DEF AtHome
  <1>2. ASSUME NEW s, NEW then, SelectSlot(s, then) PROVE AtHome'
    BY <1>2, QueueBarHome DEF SelectSlot
  <1>3. ASSUME StaysPut PROVE AtHome'
    BY <1>1, <1>3 DEF StaysPut, slots
  <1>4. CASE Play \/ Stop \/ CopyTo \/ ToggleEvolve \/ Prepare \/ AudioNext \/ UNCHANGED <<vars, song>>
    <2>1. UNCHANGED <<undo, currentSlot>>
      BY <1>4 DEF Play, Stop, CopyTo, ToggleEvolve, Prepare, AudioNext, BeginBlock, FireStep,
                  EndBlock, vars, message, slots
    <2>2. QED
      BY <1>1, <2>1
  <1>5. CASE Select
    BY <1>2, <1>5 DEF Select
  <1>6. CASE Edit
    BY <1>6 DEF Edit, AtHome
  <1>7. CASE Undo
    BY <1>7 DEF Undo, AtHome, NoUndo
  <1>8. CASE ClearSlot
    BY <1>8 DEF ClearSlot, AtHome, NoUndo
  <1>9. CASE ToggleSong
    <2>1. \/ \E s \in Slots \ {currentSlot} : SelectSlot(s, "idle")
          \/ mpc' = "idle" /\ StaysPut
      BY <1>9, SelectIfDoes DEF ToggleSong
    <2>2. QED
      BY <1>2, <1>3, <2>1
  <1>10. CASE Load
    <2>1. undo' = [undo EXCEPT !.home = -1]
      BY <1>10, Zenon DEF Load
    <2>2. undo \in Undos
      BY DEF Types, Stored
    <2>3. undo'.home = -1
      BY <2>1, <2>2 DEF Undos, NoUndo
    <2>4. QED
      BY <2>3 DEF AtHome
  <1>11. CASE QueueStep
    BY <1>1, <1>11 DEF QueueStep, slots
  <1>12. CASE CommitTick
    BY <1>12 DEF CommitTick, CommitPattern, AtHome, NoUndo
  <1>13. CASE UpdateSongPlayback
    BY <1>2, <1>3, <1>13, SongDoes
  <1>14. CASE UpdateEvolve
    BY <1>3, <1>14, EvolveDoes, QueueBarHome
  <1>15. QED
    BY <1>4, <1>5, <1>6, <1>7, <1>8, <1>9, <1>10, <1>11, <1>12, <1>13, <1>14
    DEF Next, UserNext, TimerNext

-----------------------------------------------------------------------------
(* A switch keeps the work, if its pattern is the work of its slot and what *)
(* the bank held of the work, and the work of the slots it leaves, are kept. *)
LEMMA QueueBarWork ==
  ASSUME Types, Work, NEW slot \in Slots, NEW p, NEW then \in {"idle", "evolve"},
         QueueBarPattern(slot, p, then), UNCHANGED <<wrote, raced, evolving>>,
         \A s \in Slots \ raced :
           /\ s = slot => Base(p) = wrote[s]
           /\ s # slot \/ s # currentSlot => Base(bank'[s]) = wrote[s]
           /\ Base(bank[s]) = wrote[s] => Base(bank'[s]) = wrote[s]
  PROVE  Work'
  <1> SUFFICES ASSUME NEW s \in Slots \ raced PROVE WorkOf(s)'
    BY DEF Work
  <1>1. WorkOf(s)
    BY DEF Work
  <1>2. CASE ~playing
    <2>1. /\ CommitPattern(slot, p) /\ mpc' = then
      BY <1>2 DEF QueueBarPattern
    <2>2. /\ currentSlot' = slot /\ editPattern' = p /\ pendingActive' = FALSE
          /\ evolveAnchor' = (IF slot # currentSlot THEN bank[slot] ELSE evolveAnchor)
          /\ mpc' # "queue"
      BY <2>1 DEF CommitPattern
    <2>3. s # slot => Base(bank'[s]) = wrote[s]
      OBVIOUS
    <2>4. s = slot => Base(p) = wrote[s] /\ (evolving => Base(evolveAnchor') = wrote[s])
      BY <1>1, <2>2 DEF WorkOf
    <2>5. QED
      BY <2>2, <2>3, <2>4 DEF WorkOf
  <1>3. CASE playing
    <2>1. /\ call'.slot = slot /\ call'.pattern = p /\ mpc' = "queue"
          /\ UNCHANGED <<currentSlot, editPattern, evolveAnchor, pendingActive, pendingSlot,
                         pendingPattern>>
      BY <1>3 DEF QueueBarPattern
    <2>2. s # currentSlot => Base(bank'[s]) = wrote[s]
      OBVIOUS
    <2>3. pendingActive /\ s # pendingSlot => Base(bank'[s]) = wrote[s]
      BY <1>1 DEF WorkOf
    <2>4. pendingActive /\ s = pendingSlot => Base(pendingPattern) = wrote[s]
      BY <1>1 DEF WorkOf
    <2>5. s = currentSlot =>
            Base(editPattern) = wrote[s] /\ (evolving => Base(evolveAnchor) = wrote[s])
      BY <1>1 DEF WorkOf
    <2>6. QED
      BY <2>1, <2>2, <2>3, <2>4, <2>5 DEF WorkOf
  <1>4. QED
    BY <1>2, <1>3 DEF Types, Flags

(* The slot that is left is parked first. *)
LEMMA SelectWork ==
  ASSUME Types, Work, NEW slot \in Slots, slot # currentSlot, NEW then \in {"idle", "evolve"},
         SelectSlot(slot, then), UNCHANGED <<wrote, raced, evolving>>
  PROVE  Work'
  <1> DEFINE parked == IF evolving THEN evolveAnchor ELSE editPattern
  <1>1. bank' = [bank EXCEPT ![currentSlot] = parked] /\ QueueBarPattern(slot, bank[slot], then)
    BY DEF SelectSlot
  <1>2. bank \in [Slots -> Patterns] /\ currentSlot \in Slots /\ evolving \in BOOLEAN
    BY DEF Types, Stored, Flags
  <1>3. ASSUME NEW s \in Slots \ raced
        PROVE  /\ s = slot => Base(bank[slot]) = wrote[s]
               /\ Base(bank'[s]) = wrote[s]
    <2>1. WorkOf(s)
      BY DEF Work
    <2>2. CASE s = currentSlot
      <3>1. bank'[s] = parked /\ Base(parked) = wrote[s]
        BY <1>1, <1>2, <2>1, <2>2 DEF WorkOf
      <3>2. QED
        BY <2>2, <3>1
    <2>3. CASE s # currentSlot
      BY <1>1, <1>2, <2>1, <2>3 DEF WorkOf
    <2>4. QED
      BY <2>2, <2>3
  <1>4. QED
    BY <1>1, <1>3, QueueBarWork

LEMMA PushEditWork ==
  ASSUME Types, Work, NEW p, PushEditPattern(p),
         UNCHANGED <<currentSlot, evolving>>, mpc' # "queue",
         wrote' = [wrote EXCEPT ![currentSlot] = Base(p)], raced' = raced \ {currentSlot},
         \A s \in Slots \ {currentSlot} : bank'[s] = bank[s]
  PROVE  Work'
  <1> SUFFICES ASSUME NEW s \in Slots \ raced' PROVE WorkOf(s)'
    BY DEF Work
  <1>1. pendingActive' = FALSE /\ editPattern' = p
        /\ evolveAnchor' = (IF evolving THEN p ELSE evolveAnchor)
    BY DEF PushEditPattern
  <1>2. wrote \in [Slots -> Patterns] /\ currentSlot \in Slots
    BY DEF Types, WroteOK, Stored
  <1>3. CASE s = currentSlot
    <2>1. wrote'[s] = Base(p)
      BY <1>2, <1>3
    <2>2. QED
      BY <1>1, <1>3, <2>1 DEF WorkOf
  <1>4. CASE s # currentSlot
    <2>1. wrote'[s] = wrote[s] /\ bank'[s] = bank[s] /\ s \in Slots \ raced
      BY <1>2, <1>4
    <2>2. WorkOf(s)
      BY <2>1 DEF Work
    <2>3. QED
      BY <1>1, <1>4, <2>1, <2>2 DEF WorkOf
  <1>5. QED
    BY <1>3, <1>4

LEMMA RewriteWork ==
  ASSUME Types, Work, mpc = "idle", NEW s \in Slots \ {currentSlot}, NEW p, Rewrite(s, p),
         UNCHANGED <<mpc, currentSlot, editPattern, pendingActive, pendingSlot, pendingPattern,
                     evolving, evolveAnchor>>
  PROVE  Work'
  <1> SUFFICES ASSUME NEW t \in Slots \ raced' PROVE WorkOf(t)'
    BY DEF Work
  <1>1. /\ bank' = [bank EXCEPT ![s] = p] /\ wrote' = [wrote EXCEPT ![s] = Base(p)]
        /\ raced' = IF pendingActive /\ pendingSlot = s THEN raced \cup {s} ELSE raced \ {s}
    BY DEF Rewrite
  <1>2. bank \in [Slots -> Patterns] /\ wrote \in [Slots -> Patterns] /\ mpc' # "queue"
    BY DEF Types, Stored, WroteOK
  <1>3. CASE t = s
    <2>1. ~(pendingActive /\ pendingSlot = s)
      BY <1>1, <1>3
    <2>2. bank'[t] = p /\ wrote'[t] = Base(p)
      BY <1>1, <1>2, <1>3
    <2>3. QED
      BY <1>2, <1>3, <2>1, <2>2 DEF WorkOf
  <1>4. CASE t # s
    <2>1. bank'[t] = bank[t] /\ wrote'[t] = wrote[t] /\ t \in Slots \ raced
      BY <1>1, <1>2, <1>4
    <2>2. WorkOf(t)
      BY <2>1 DEF Work
    <2>3. QED
      BY <1>2, <2>1, <2>2 DEF WorkOf
  <1>5. QED
    BY <1>3, <1>4

LEMMA StayWork ==
  ASSUME Work, mpc' # "queue" \/ (mpc' = mpc /\ call' = call),
         UNCHANGED <<bank, currentSlot, editPattern, evolving, evolveAnchor, pendingActive,
                     pendingSlot, pendingPattern, wrote, raced>>
  PROVE  Work'
  BY DEF Work, WorkOf

LEMMA NextWork == Types /\ Work /\ [Next]_<<vars, song>> => Work'
  <1> SUFFICES ASSUME Types, Work, [Next]_<<vars, song>> PROVE Work'
    OBVIOUS
  <1>1. /\ bank \in [Slots -> Patterns] /\ wrote \in [Slots -> Patterns]
        /\ currentSlot \in Slots /\ evolving \in BOOLEAN
    BY DEF Types, Stored, WroteOK, Flags
  <1>2. CASE Play \/ Stop \/ Prepare \/ AudioNext \/ UNCHANGED <<vars, song>>
    <2>1. UNCHANGED <<bank, currentSlot, editPattern, evolving, evolveAnchor, pendingActive,
                      pendingSlot, pendingPattern, wrote, raced, mpc, call>>
      BY <1>2 DEF Play, Stop, Prepare, AudioNext, BeginBlock, FireStep, EndBlock, vars, message,
                  slots, pending, evolve, history
    <2>2. QED
      BY <2>1, StayWork
  <1>3. ASSUME StaysPut, mpc' # "queue", UNCHANGED <<wrote, raced, evolving>> PROVE Work'
    BY <1>3, StayWork DEF StaysPut, slots, pending
  <1>4. CASE Select
    <2>1. UNCHANGED <<wrote, raced, evolving>>
      BY <1>4 DEF Select
    <2>2. QED
      BY <1>4, <2>1, SelectWork DEF Select
  <1>5. CASE Edit
    <2>1. /\ mpc' = "idle" /\ PushEditPattern(Written(currentSlot, rev + 1))
          /\ wrote' = [wrote EXCEPT ![currentSlot] = Base(editPattern')]
          /\ raced' = raced \ {currentSlot} /\ UNCHANGED <<bank, currentSlot, evolving>>
      BY <1>5 DEF Edit, User
    <2>2. editPattern' = Written(currentSlot, rev + 1)
      BY <2>1 DEF PushEditPattern
    <2>3. QED
      BY <2>1, <2>2, PushEditWork
  <1>6. CASE Undo
    <2>1. /\ mpc' = "idle" /\ PushEditPattern(undo.before)
          /\ wrote' = [wrote EXCEPT ![currentSlot] = Base(undo.before)]
          /\ raced' = raced \ {currentSlot} /\ UNCHANGED <<bank, currentSlot, evolving>>
      BY <1>6 DEF Undo, User
    <2>2. QED
      BY <2>1, PushEditWork
  <1>7. CASE CopyTo
    <2>1. /\ mpc = "idle" /\ \E s \in Slots \ {currentSlot} : Rewrite(s, editPattern)
          /\ UNCHANGED <<mpc, currentSlot, editPattern, pendingActive, pendingSlot, pendingPattern,
                         evolving, evolveAnchor>>
      BY <1>7 DEF CopyTo, User, pending, evolve
    <2>2. QED
      BY <2>1, RewriteWork
  <1>8. CASE ClearSlot
    <2>1. mpc = "idle" /\ UNCHANGED <<mpc, currentSlot, pendingPattern, evolving>>
      BY <1>8 DEF ClearSlot, User
    <2>2. PICK s \in Slots :
            \/ /\ s # currentSlot /\ Rewrite(s, Cleared(bank[s]))
               /\ UNCHANGED <<editPattern, pendingActive, pendingSlot, evolveAnchor>>
            \/ /\ s = currentSlot
               /\ bank' = [bank EXCEPT ![s] = Cleared(bank[s])]
               /\ wrote' = [wrote EXCEPT ![s] = Cleared(bank[s])]
               /\ raced' = raced \ {s}
               /\ PushEditPattern(Cleared(bank[s]))
      BY <1>8 DEF ClearSlot
    <2>3. CASE s # currentSlot
      BY <2>1, <2>2, <2>3, RewriteWork
    <2>4. CASE s = currentSlot
      <3>1. Base(Cleared(bank[s])) = Cleared(bank[s])
        BY <1>1, PatternFields
      <3>2. \A t \in Slots \ {currentSlot} : bank'[t] = bank[t]
        BY <1>1, <2>2, <2>4
      <3>3. QED
        BY <2>1, <2>2, <2>4, <3>1, <3>2, PushEditWork
    <2>5. QED
      BY <2>3, <2>4
  <1>9. CASE ToggleEvolve
    <2>1. /\ evolving' = ~evolving /\ mpc = "idle"
          /\ evolveAnchor' = (IF evolving THEN evolveAnchor ELSE editPattern)
          /\ UNCHANGED <<bank, currentSlot, editPattern, pendingActive, pendingSlot,
                         pendingPattern, wrote, raced, mpc>>
      BY <1>9 DEF ToggleEvolve, User, slots, pending
    <2>2. ASSUME NEW s \in Slots \ raced PROVE WorkOf(s)'
      <3>1. WorkOf(s)
        BY DEF Work
      <3>2. s = currentSlot /\ evolving' => Base(evolveAnchor') = wrote[s]
        BY <1>1, <2>1, <3>1 DEF WorkOf
      <3>3. QED
        BY <2>1, <3>1, <3>2 DEF WorkOf
    <2>3. QED
      BY <2>1, <2>2 DEF Work
  <1>10. CASE ToggleSong
    <2>1. \/ \E s \in Slots \ {currentSlot} : SelectSlot(s, "idle")
          \/ mpc' = "idle" /\ StaysPut
      BY <1>10, SelectIfDoes DEF ToggleSong
    <2>2. UNCHANGED <<wrote, raced, evolving>>
      BY <1>10 DEF ToggleSong
    <2>3. QED
      BY <1>3, <2>1, <2>2, SelectWork
  <1>11. CASE Load
    <2>1. /\ ops > 0 /\ mpc' # "queue" /\ bank' = [s \in Slots |-> Written(s, rev + 1)]
          /\ currentSlot' \in Slots /\ editPattern' = bank'[currentSlot']
          /\ pendingActive' = FALSE /\ evolving' = FALSE /\ wrote' = bank'
      BY <1>11, Zenon DEF Load, User
    <2>2. \A s \in Slots : bank'[s] = Written(s, rev + 1) /\ Base(bank'[s]) = bank'[s]
      <3>1. rev + 1 \in 0 .. MaxRev
        BY <2>1, Constants DEF Types, Counted, MaxRev
      <3>2. QED
        BY <2>1, <3>1, WrittenPattern
    <2>3. QED
      BY <2>1, <2>2 DEF Work, WorkOf
  <1>12. CASE QueueStep
    <2>1. /\ mpc = "queue" /\ pendingActive' = TRUE /\ mpc' = call.then
          /\ pendingSlot' = call.slot /\ pendingPattern' = call.pattern
          /\ UNCHANGED <<bank, currentSlot, editPattern, evolving, evolveAnchor, wrote, raced>>
      BY <1>12 DEF QueueStep, slots, evolve, history
    <2>2. mpc' # "queue"
      BY <2>1 DEF Types, Waits
    <2>3. QED
      BY <2>1, <2>2 DEF Work, WorkOf
  <1>13. CASE CommitTick
    <2>1. mpc' = "song" /\ UNCHANGED <<bank, pendingPattern, evolving, wrote, raced>>
      BY <1>13 DEF CommitTick
    <2>2. CASE pendingActive /\ CommitPattern(pendingSlot, pendingPattern)
      <3>1. /\ currentSlot' = pendingSlot /\ editPattern' = pendingPattern
            /\ pendingActive' = FALSE
            /\ evolveAnchor' = (IF pendingSlot # currentSlot THEN bank[pendingSlot]
                                ELSE evolveAnchor)
        BY <2>2 DEF CommitPattern
      <3>2. ASSUME NEW s \in Slots \ raced PROVE WorkOf(s)'
        <4>1. WorkOf(s)
          BY DEF Work
        <4>2. s # pendingSlot => Base(bank[s]) = wrote[s]
          BY <2>2, <4>1 DEF WorkOf
        <4>3. s = pendingSlot => /\ Base(pendingPattern) = wrote[s]
                                 /\ evolving => Base(evolveAnchor') = wrote[s]
          BY <2>2, <3>1, <4>1 DEF WorkOf
        <4>4. QED
          BY <2>1, <3>1, <4>2, <4>3 DEF WorkOf
      <3>3. QED
        BY <2>1, <3>2 DEF Work
    <2>3. CASE UNCHANGED <<currentSlot, editPattern, evolveAnchor, pendingActive, pendingSlot>>
      BY <2>1, <2>3, StayWork
    <2>4. QED
      BY <1>13, <2>2, <2>3 DEF CommitTick
  <1>14. CASE UpdateSongPlayback
    <2>1. UNCHANGED <<wrote, raced, evolving>>
      BY <1>14 DEF UpdateSongPlayback, history
    <2>2. QED
      BY <1>3, <1>14, <2>1, SongDoes, SelectWork
  <1>15. CASE UpdateEvolve
    <2>1. UNCHANGED <<wrote, raced, evolving>>
      BY <1>15 DEF UpdateEvolve, history
    <2>2. ASSUME evolving, bank' = bank, NEW v \in 1 .. Variations,
                 QueueBarPattern(currentSlot, [evolveAnchor EXCEPT !.vary = v], "idle")
          PROVE  Work'
      <3> DEFINE p == [evolveAnchor EXCEPT !.vary = v]
      <3>1. Base(p) = Base(evolveAnchor)
        <4>1. v \in 0 .. Variations /\ evolveAnchor \in Patterns
          BY Constants DEF Types, Stored
        <4>2. QED
          BY <4>1, PatternFields
      <3>2. QueueBarPattern(currentSlot, p, "idle")
        BY <2>2
      <3> HIDE DEF p
      <3>3. \A s \in Slots \ raced :
              /\ s = currentSlot => Base(p) = wrote[s]
              /\ s # currentSlot => Base(bank[s]) = wrote[s]
        BY <2>2, <3>1 DEF Work, WorkOf
      <3>4. QED
        BY <1>1, <2>1, <2>2, <3>2, <3>3, QueueBarWork
    <2>3. QED
      BY <1>3, <1>15, <2>1, <2>2, EvolveDoes
  <1>16. QED
    BY <1>2, <1>4, <1>5, <1>6, <1>7, <1>8, <1>9, <1>10, <1>11, <1>12, <1>13, <1>14, <1>15
    DEF Next, UserNext, TimerNext

-----------------------------------------------------------------------------
IInv == Types /\ Match /\ AtHome /\ Work

LEMMA InitIInv == Init => IInv
  <1> SUFFICES ASSUME Init PROVE IInv
    OBVIOUS
  <1>1. Match
    BY DEF Init, PC!ChannelInit, PC!NoRequest, Match, Destined, Shown
  <1>2. AtHome
    BY DEF Init, AtHome, NoUndo
  <1>3. ASSUME NEW s \in Slots PROVE bank[s] = Written(s, 1) /\ Base(bank[s]) = wrote[s]
    <2>1. 1 \in 0 .. MaxRev
      BY Constants DEF MaxRev
    <2>2. bank[s] = Written(s, 1) /\ wrote = bank
      BY DEF Init
    <2>3. QED
      BY <2>1, <2>2, WrittenPattern
  <1>4. /\ currentSlot = 0 /\ editPattern = Written(0, 1) /\ evolving = FALSE
        /\ pendingActive = FALSE /\ mpc = "idle"
    BY DEF Init
  <1>5. Work
    BY <1>3, <1>4 DEF Work, WorkOf
  <1>6. QED
    BY <1>1, <1>2, <1>5, InitTypes DEF IInv

LEMMA NextIInv == IInv /\ [Next]_<<vars, song>> => IInv'
  BY NextTypes, NextMatch, NextHome, NextWork DEF IInv

(* The inductive invariant of the slot protocol holds throughout. *)
THEOREM SpecIInv == Spec => []IInv
  BY InitIInv, NextIInv, PTL DEF Spec

(* The slots, the screen, the channel and the timer keep their types.       *)
THEOREM SpecTypeOK == Spec => []TypeOK
  <1>1. Types => TypeOK
    BY SMT DEF Types, Flags, Steps, Stored, Waits, Undos, NoUndo, TypeOK
  <1>2. QED
    BY <1>1, SpecIInv, PTL DEF IInv

(* The grid shows what plays: with no switch under way on either side, the  *)
(* pattern on screen is the pattern the engine plays, whatever was queued,  *)
(* cancelled, overtaken or loaded before.                                   *)
THEOREM SpecScreenMatchesEngine == Spec => []ScreenMatchesEngine
  <1>1. Match => ScreenMatchesEngine
    BY DEF Match, Destined, Shown, ScreenMatchesEngine, PC!NoRequest
  <1>2. QED
    BY <1>1, SpecIInv, PTL DEF IInv

(* MainComponent.cpp:1122: no switch, edit, variation, undo or load loses   *)
(* the user's work in a slot, but for a slot rewritten while it was queued. *)
THEOREM SpecNoLostWork == Spec => []NoLostWork
  <1>1. Work => NoLostWork
    BY DEF Work, WorkOf, NoLostWork, Truth
  <1>2. QED
    BY <1>1, SpecIInv, PTL DEF IInv

(* MainComponent.cpp:838: whenever captureProject runs, each slot of the    *)
(* file holds the user's work.                                              *)
THEOREM SpecSavedIsTheWork == Spec => []SavedIsTheWork
  <1>1. Types /\ Work => SavedIsTheWork
    <2> SUFFICES ASSUME Types, Work, NEW s \in Slots \ raced
                 PROVE  Base(CaptureProject[s]) = wrote[s]
      BY DEF SavedIsTheWork
    <2>1. CaptureProject[s] = IF s = currentSlot THEN editPattern ELSE bank[s]
      BY DEF CaptureProject, Types, Stored
    <2>2. QED
      BY <2>1 DEF Work, WorkOf
  <1>2. QED
    BY <1>1, SpecIInv, PTL DEF IInv

(* MainComponent.cpp:1176: an undo restores a pattern of the slot that is up, *)
(* or of the project before the one that was loaded.                        *)
THEOREM SpecUndoStaysHome == Spec => UndoStaysHome
  <1>1. IInv /\ [Next]_<<vars, song>>
          => [undo # NoUndo /\ undo' = NoUndo /\ ops' # ops /\ editPattern' = undo.before
                => undo.home \in {currentSlot, -1}]_vars
    BY DEF IInv, AtHome
  <1>2. QED
    BY <1>1, SpecIInv, PTL DEF Spec, UndoStaysHome

-----------------------------------------------------------------------------
(* The chain of a song: stepAtBar, and the chain written out bar by bar.    *)

Chain == Seq([slot : Int, bars : Int])

LEMMA FirstOf ==
  ASSUME NEW S, S \subseteq Nat, S # {}
  PROVE  \E x \in S : \A y \in S : x <= y
  <1>1. PICK x \in S : \A y \in S : ~ (<<y, x>> \in OpToRel(<, Nat))
    BY NatLessThanWellFounded, WFMin
  <1>2. ASSUME NEW y \in S PROVE x <= y
    <2>1. x \in Nat /\ y \in Nat
      OBVIOUS
    <2>2. ~(y < x)
      BY <1>1, <2>1 DEF OpToRel
    <2>3. QED
      BY <2>1, <2>2
  <1>3. QED
    BY <1>2

(* sum of BarsBefore, as a definition of its own. *)
Sums(chain, f, n) ==
  f = [i \in 1 .. n |-> IF i = 1 THEN 0 ELSE f[i - 1] + Song!BarsOf(chain[i - 1])]

LEMMA BarsBeforeIsSums ==
  ASSUME NEW chain
  PROVE  Song!BarsBefore(chain) = CHOOSE f : Sums(chain, f, Len(chain) + 1)
  BY DEF Song!BarsBefore, Sums

LEMMA SumsExists ==
  ASSUME NEW chain, NEW n \in Nat
  PROVE  \E f : Sums(chain, f, n)
  <1> DEFINE Bad == {m \in Nat : ~\E f : Sums(chain, f, m)}
  <1>1. SUFFICES ASSUME Bad # {} PROVE FALSE
    OBVIOUS
  <1>2. PICK m \in Bad : \A k \in Bad : m <= k
    BY <1>1, FirstOf
  <1>3. m # 0
    <2>1. Sums(chain, [i \in 1 .. 0 |-> 0], 0)
      BY DEF Sums
    <2>2. QED
      BY <2>1
  <1>4. m \in Nat /\ m - 1 \in Nat /\ m - 1 \notin Bad
    BY <1>2, <1>3
  <1>5. PICK f : Sums(chain, f, m - 1)
    BY <1>4 DEF Bad
  <1> DEFINE Next1(k, i) == IF i = 1 THEN 0 ELSE k[i - 1] + Song!BarsOf(chain[i - 1])
             g == [i \in 1 .. m |-> IF i < m THEN f[i] ELSE Next1(f, i)]
  <1> HIDE DEF Bad
  <1>6. ASSUME NEW i \in 1 .. m PROVE g[i] = Next1(g, i)
    <2>1. i \in Nat /\ i >= 1 /\ i <= m /\ (i # 1 => i - 1 \in 1 .. m /\ i - 1 < m)
      BY <1>4
    <2>2. i # 1 => g[i - 1] = f[i - 1]
      BY <2>1
    <2>3. g[i] = Next1(f, i)
      <3>1. CASE i < m
        <4>1. i \in 1 .. m - 1
          BY <2>1, <3>1, <1>4
        <4>2. f[i] = Next1(f, i)
          BY <1>5, <4>1 DEF Sums
        <4>3. QED
          BY <3>1, <4>2
      <3>2. CASE i = m
        BY <3>2
      <3>3. QED
        BY <1>4, <2>1, <3>1, <3>2
    <2>4. QED
      BY <2>2, <2>3
  <1>7. g = [i \in 1 .. m |-> Next1(g, i)]
    BY <1>6
  <1>8. Sums(chain, g, m)
    BY <1>7 DEF Sums
  <1>9. QED
    BY <1>2, <1>8 DEF Bad

LEMMA EntryIn == ASSUME NEW S, NEW s \in Seq(S), NEW i \in 1 .. Len(s) PROVE s[i] \in S
  OBVIOUS

LEMMA BarsOfNat ==
  ASSUME NEW chain \in Chain, NEW i \in 1 .. Len(chain)
  PROVE  Song!BarsOf(chain[i]) \in Nat \ {0}
  <1>1. chain[i] \in [slot : Int, bars : Int]
    BY EntryIn DEF Chain
  <1>2. QED
    BY <1>1 DEF Song!BarsOf

(* Where each step of a chain begins. *)
LEMMA BarsBeforeAre ==
  ASSUME NEW chain \in Chain
  PROVE  LET before == Song!BarsBefore(chain)
         IN  /\ Len(chain) \in Nat /\ before[1] = 0
             /\ \A i \in 1 .. Len(chain) : before[i + 1] = before[i] + Song!BarsOf(chain[i])
             /\ \A i \in 1 .. Len(chain) + 1 : before[i] \in Nat
             /\ \A i \in 1 .. Len(chain) : before[i] < before[i + 1]
             /\ Song!TotalBars(chain) = before[Len(chain) + 1]
  <1> DEFINE n == Len(chain)
             before == Song!BarsBefore(chain)
  <1>1. n \in Nat /\ n + 1 \in Nat
    BY DEF Chain
  <1>2. Sums(chain, before, n + 1)
    BY <1>1, BarsBeforeIsSums, SumsExists
  <1>9. Song!TotalBars(chain) = before[n + 1]
    BY DEF Song!TotalBars
  <1> HIDE DEF before, n
  <1>3. before[1] = 0
    BY <1>1, <1>2 DEF Sums
  <1>4. ASSUME NEW i \in 1 .. n PROVE before[i + 1] = before[i] + Song!BarsOf(chain[i])
    <2>1. i + 1 \in 1 .. n + 1 /\ i + 1 # 1 /\ (i + 1) - 1 = i
      BY <1>1
    <2>2. before[i + 1] = before[(i + 1) - 1] + Song!BarsOf(chain[(i + 1) - 1])
      BY <1>2, <2>1 DEF Sums
    <2>3. QED
      BY <2>1, <2>2
  <1>5. \A i \in 1 .. n : Song!BarsOf(chain[i]) \in Nat \ {0}
    BY BarsOfNat DEF n
  <1>6. \A i \in 1 .. n + 1 : before[i] \in Nat
    <2> DEFINE Bad == {i \in 1 .. n + 1 : before[i] \notin Nat}
    <2>1. SUFFICES ASSUME Bad # {} PROVE FALSE
      OBVIOUS
    <2>2. PICK m \in Bad : \A k \in Bad : m <= k
      <3>1. Bad \subseteq Nat
        BY <1>1
      <3> HIDE DEF Bad
      <3>2. QED
        BY <2>1, <3>1, FirstOf
    <2>3. m \in 1 .. n + 1 /\ m # 1
      BY <1>3, <2>2
    <2>4. m - 1 \in 1 .. n /\ m - 1 \in 1 .. n + 1 /\ ~(m <= m - 1) /\ (m - 1) + 1 = m
      BY <1>1, <2>3
    <2>5. before[m - 1] \in Nat
      BY <2>2, <2>4
    <2>6. before[m] = before[m - 1] + Song!BarsOf(chain[m - 1])
      BY <1>4, <2>4
    <2>7. before[m] \in Nat
      BY <1>5, <2>4, <2>5, <2>6
    <2>8. QED
      BY <2>2, <2>7
  <1>7. ASSUME NEW i \in 1 .. n PROVE before[i] < before[i + 1]
    <2>1. i \in 1 .. n + 1
      BY <1>1
    <2>2. before[i] \in Nat /\ Song!BarsOf(chain[i]) \in Nat \ {0}
      BY <1>5, <1>6, <2>1
    <2>3. QED
      BY <1>4, <2>2
  <1>8. QED
    BY <1>1, <1>3, <1>4, <1>6, <1>7, <1>9 DEF n, before

(* The bars of the steps before a bar never pass it, and steps begin in order. *)
LEMMA Ordered ==
  ASSUME NEW n \in Nat, NEW b, \A i \in 1 .. n + 1 : b[i] \in Nat,
         \A i \in 1 .. n : b[i] < b[i + 1],
         NEW i \in 1 .. n + 1, NEW j \in 1 .. n + 1, i <= j
  PROVE  b[i] <= b[j]
  <1> DEFINE Bad == {k \in 1 .. n + 1 : i <= k /\ ~(b[i] <= b[k])}
  <1>1. SUFFICES ASSUME Bad # {} PROVE FALSE
    OBVIOUS
  <1>2. PICK m \in Bad : \A k \in Bad : m <= k
    <2>1. Bad \subseteq Nat
      OBVIOUS
    <2> HIDE DEF Bad
    <2>2. QED
      BY <1>1, <2>1, FirstOf
  <1>3. m # i /\ m \in 1 .. n + 1 /\ i <= m
    BY <1>2
  <1>4. m - 1 \in 1 .. n /\ m - 1 \in 1 .. n + 1 /\ i <= m - 1 /\ ~(m <= m - 1) /\ (m - 1) + 1 = m
    BY <1>3
  <1>5. b[i] <= b[m - 1]
    BY <1>2, <1>4
  <1>6. b[m - 1] < b[m]
    BY <1>4
  <1>7. b[i] <= b[m]
    BY <1>3, <1>4, <1>5, <1>6
  <1>8. QED
    BY <1>2, <1>7

LEMMA RemainderIn ==
  ASSUME NEW x \in Int, NEW b \in Nat \ {0}
  PROVE  x % b \in 0 .. b - 1
  OBVIOUS

(* The step found is the one whose bars the bar is among. *)
LEMMA StepCoveringIs ==
  ASSUME NEW chain \in Chain, NEW bar \in Nat, bar < Song!TotalBars(chain)
  PROVE  LET before == Song!BarsBefore(chain)
             i      == Song!StepCovering(chain, bar)
         IN  i \in 1 .. Len(chain) /\ before[i] <= bar /\ bar < before[i + 1]
  <1> DEFINE n == Len(chain)
             before == Song!BarsBefore(chain)
             ends   == {k \in DOMAIN chain : bar - before[k] < Song!BarsOf(chain[k])}
             i      == Song!StepCovering(chain, bar)
  <1>1. /\ n \in Nat /\ before[1] = 0
        /\ \A k \in 1 .. n : before[k + 1] = before[k] + Song!BarsOf(chain[k])
        /\ \A k \in 1 .. n + 1 : before[k] \in Nat
        /\ \A k \in 1 .. n : before[k] < before[k + 1]
        /\ Song!TotalBars(chain) = before[n + 1]
    BY BarsBeforeAre
  <1>2. \A k \in 1 .. n : Song!BarsOf(chain[k]) \in Nat
    BY BarsOfNat
  <1>3. DOMAIN chain = 1 .. n
    BY DEF Chain
  <1>4. i = IF ends = {} THEN Song!NoStep ELSE CHOOSE k \in ends : \A j \in ends : k <= j
    BY DEF Song!StepCovering
  <1> HIDE DEF before, n, i
  <1>5. \A k \in 1 .. n : k \in ends <=> bar < before[k + 1]
    <2> TAKE k \in 1 .. n
    <2>1. k \in 1 .. n + 1
      BY <1>1
    <2>2. before[k] \in Nat /\ Song!BarsOf(chain[k]) \in Nat
      BY <1>1, <1>2, <2>1
    <2>3. before[k + 1] = before[k] + Song!BarsOf(chain[k])
      BY <1>1
    <2>4. QED
      BY <1>3, <2>2, <2>3
  <1>6. ends \subseteq 1 .. n
    BY <1>3
  <1>7. n \in ends
    <2>1. n # 0
      <3>1. SUFFICES ASSUME n = 0 PROVE FALSE
        OBVIOUS
      <3>2. Song!TotalBars(chain) = 0
        BY <1>1, <3>1
      <3>3. QED
        BY <3>2
    <2>2. n \in 1 .. n
      BY <1>1, <2>1
    <2>3. QED
      BY <1>1, <1>5, <2>2
  <1> HIDE DEF ends
  <1>8. i \in ends /\ \A j \in ends : i <= j
    <2>1. ends \subseteq Nat /\ ends # {}
      BY <1>1, <1>6, <1>7
    <2>2. \E k \in ends : \A j \in ends : k <= j
      BY <2>1, FirstOf
    <2>3. QED
      BY <1>4, <2>1, <2>2
  <1>9. i \in 1 .. n /\ bar < before[i + 1]
    BY <1>5, <1>6, <1>8
  <1>10. before[i] <= bar
    <2>1. CASE i = 1
      BY <1>1, <2>1
    <2>2. CASE i # 1
      <3>1. i - 1 \in 1 .. n /\ ~(i <= i - 1) /\ (i - 1) + 1 = i /\ i \in 1 .. n + 1
        BY <1>1, <1>9, <2>2
      <3>2. i - 1 \notin ends
        BY <1>8, <3>1
      <3>3. ~(bar < before[(i - 1) + 1])
        BY <1>5, <3>1, <3>2
      <3>4. before[i] \in Nat
        BY <1>1, <3>1
      <3>5. QED
        BY <3>1, <3>3, <3>4
    <2>3. QED
      BY <2>1, <2>2
  <1>11. QED
    BY <1>9, <1>10 DEF before, n, i

LEMMA TotalBarsNat ==
  ASSUME NEW chain \in Chain
  PROVE  Song!TotalBars(chain) \in Nat /\ (chain # <<>> => Song!TotalBars(chain) >= 1)
  <1> DEFINE n == Len(chain)
             before == Song!BarsBefore(chain)
  <1>1. /\ n \in Nat /\ before[1] = 0
        /\ \A k \in 1 .. n + 1 : before[k] \in Nat
        /\ \A k \in 1 .. n : before[k] < before[k + 1]
        /\ Song!TotalBars(chain) = before[n + 1]
    BY BarsBeforeAre
  <1>2. chain # <<>> => n # 0
    BY DEF Chain
  <1> HIDE DEF before, n
  <1>3. before[n + 1] \in Nat
    BY <1>1
  <1>4. n # 0 => before[n] \in Nat /\ before[n] < before[n + 1]
    <2>1. n # 0 => n \in 1 .. n /\ n \in 1 .. n + 1
      BY <1>1
    <2>2. QED
      BY <1>1, <2>1
  <1>5. QED
    BY <1>1, <1>2, <1>3, <1>4

(* Song.h: the step a chain is in at a bar, played once or round and round. *)
THEOREM StepAtBarCovers ==
  ASSUME NEW chain \in Chain, NEW loop \in BOOLEAN, NEW bar \in Int
  PROVE  LET before == Song!BarsBefore(chain)
             total  == Song!TotalBars(chain)
             i      == Song!StepAtBar(chain, loop, bar)
         IN  IF chain = <<>> \/ bar < 0 \/ (~loop /\ bar >= total) THEN i = Song!NoStep
             ELSE /\ i \in 1 .. Len(chain)
                  /\ before[i] <= bar % total /\ bar % total < before[i + 1]
  <1> DEFINE total == Song!TotalBars(chain)
             before == Song!BarsBefore(chain)
             i == Song!StepAtBar(chain, loop, bar)
             Out == chain = <<>> \/ bar < 0 \/ (~loop /\ bar >= total)
  <1>1. i = IF Out THEN Song!NoStep ELSE Song!StepCovering(chain, bar % total)
    BY DEF Song!StepAtBar
  <1>2. CASE Out
    BY <1>1, <1>2
  <1>3. CASE ~Out
    <2>1. total \in Nat \ {0}
      BY <1>3, TotalBarsNat
    <2>2. bar % total \in 0 .. total - 1
      <3> HIDE DEF total
      <3>1. QED
        BY <2>1, RemainderIn
    <2> DEFINE m == bar % total
    <2>3. m \in Nat /\ m < total
      <3> HIDE DEF total
      <3>1. QED
        BY <2>1, <2>2
    <2> HIDE DEF m
    <2>4. LET k == Song!StepCovering(chain, m)
          IN  k \in 1 .. Len(chain) /\ before[k] <= m /\ m < before[k + 1]
      BY <2>3, StepCoveringIs
    <2>5. i = Song!StepCovering(chain, m)
      BY <1>1, <1>3 DEF m
    <2>6. QED
      BY <1>3, <2>4, <2>5 DEF m
  <1>4. QED
    BY <1>2, <1>3

(* flatten of FlattenSeq, as a definition of its own. *)
Joins(seqs, f, n) ==
  f = [i \in 1 .. n |-> IF i = 1 THEN seqs[i] ELSE f[i - 1] \o seqs[i]]

LEMMA FlattenIsLast ==
  ASSUME NEW seqs, Len(seqs) # 0
  PROVE  FlattenSeq(seqs) = (CHOOSE f : Joins(seqs, f, Len(seqs)))[Len(seqs)]
  BY DEF FlattenSeq, Joins

(* However many sequences there are, their joins exist.                      *)
LEMMA JoinsExists ==
  ASSUME NEW seqs, NEW n \in Nat
  PROVE  \E f : Joins(seqs, f, n)
<1> DEFINE Bad == {m \in Nat : ~\E f : Joins(seqs, f, m)}
<1>1. SUFFICES ASSUME Bad # {} PROVE FALSE OBVIOUS
<1>2. PICK m \in Bad : \A k \in Bad : m <= k BY <1>1, FirstOf
<1>3. m # 0
  <2>1. Joins(seqs, [i \in 1 .. 0 |-> 0], 0) BY DEF Joins
  <2> QED BY <2>1
<1>4. m \in Nat /\ m - 1 \in Nat /\ m - 1 \notin Bad BY <1>2, <1>3
<1>5. PICK f : Joins(seqs, f, m - 1) BY <1>4 DEF Bad
<1> DEFINE g == [i \in 1 .. m |-> IF i < m THEN f[i]
                                  ELSE IF i = 1 THEN seqs[i] ELSE f[i - 1] \o seqs[i]]
           h == [i \in 1 .. m |-> IF i = 1 THEN seqs[i] ELSE g[i - 1] \o seqs[i]]
<1> HIDE DEF Bad
<1>6. ASSUME NEW i \in 1 .. m PROVE g[i] = h[i]
  <2>0. i \in Nat /\ i >= 1 /\ i <= m BY <1>4
  <2>1. CASE i = m
    <3>1. g[i] = IF i = 1 THEN seqs[i] ELSE f[i - 1] \o seqs[i] BY <2>0, <2>1
    <3>2. h[i] = IF i = 1 THEN seqs[i] ELSE g[i - 1] \o seqs[i] OBVIOUS
    <3>3. i # 1 => g[i - 1] = f[i - 1]
      <4>1. i # 1 => i - 1 \in 1 .. m /\ i - 1 < m BY <1>4, <2>0, <2>1
      <4> QED BY <4>1
    <3> HIDE DEF g, h
    <3> QED BY <3>1, <3>2, <3>3
  <2>2. CASE i < m
    <3>1. i \in 1 .. m - 1 BY <2>0, <2>2, <1>4
    <3>2. f[i] = IF i = 1 THEN seqs[i] ELSE f[i - 1] \o seqs[i] BY <1>5, <3>1 DEF Joins
    <3>3. i # 1 => g[i - 1] = f[i - 1]
      <4>1. i # 1 => i - 1 \in 1 .. m /\ i - 1 < m BY <1>4, <2>0, <2>2
      <4> QED BY <4>1
    <3>4. g[i] = f[i] BY <2>2
    <3>5. h[i] = IF i = 1 THEN seqs[i] ELSE g[i - 1] \o seqs[i] OBVIOUS
    <3> HIDE DEF g, h
    <3> QED BY <3>2, <3>3, <3>4, <3>5
  <2> QED BY <1>4, <2>0, <2>1, <2>2
<1>7. g = h
  <2> QED BY <1>6
<1>8. Joins(seqs, g, m) BY <1>7 DEF Joins
<1> QED BY <1>2, <1>8 DEF Bad

(* The joins of the first i. *)
LEMMA FlattenJoins ==
  ASSUME NEW seqs, Len(seqs) \in Nat, Len(seqs) # 0
  PROVE  \E f : /\ FlattenSeq(seqs) = f[Len(seqs)]
                /\ f[1] = seqs[1]
                /\ \A i \in 2 .. Len(seqs) : f[i] = f[i - 1] \o seqs[i]
<1> DEFINE n == Len(seqs)
           f == CHOOSE k : Joins(seqs, k, n)
<1>1. Joins(seqs, f, n) BY JoinsExists
<1>2. FlattenSeq(seqs) = f[n] BY FlattenIsLast
<1> HIDE DEF f
<1>3. f[1] = seqs[1] BY <1>1 DEF Joins
<1>4. ASSUME NEW i \in 2 .. n PROVE f[i] = f[i - 1] \o seqs[i]
  <2>1. i \in 1 .. n /\ i # 1 OBVIOUS
  <2> QED BY <1>1, <2>1 DEF Joins
<1> QED BY <1>2, <1>3, <1>4


LEMMA Same ==
  ASSUME NEW i, NEW k \in Nat
  PROVE  LET s == [b \in 1 .. k |-> i]
         IN  s \in Seq({i}) /\ Len(s) = k /\ \A b \in 1 .. k : s[b] = i
  OBVIOUS

LEMMA Joined ==
  ASSUME NEW S, NEW s \in Seq(S), NEW t \in Seq(S)
  PROVE  /\ s \o t \in Seq(S) /\ Len(s \o t) = Len(s) + Len(t)
         /\ \A k \in 1 .. Len(s) : (s \o t)[k] = s[k]
         /\ \A k \in 1 .. Len(t) : (s \o t)[Len(s) + k] = t[k]
  OBVIOUS

(* The chain written out has as many bars as the chain, and each step has its *)
(* own. *)
LEMMA UnrolledAre ==
  ASSUME NEW chain \in Chain
  PROVE  LET before == Song!BarsBefore(chain)
         IN  /\ Unrolled(chain) \in Seq(Nat) /\ Len(Unrolled(chain)) = Song!TotalBars(chain)
             /\ \A i \in 1 .. Len(chain) : \A k \in before[i] + 1 .. before[i + 1] :
                  Unrolled(chain)[k] = i
  <1> DEFINE n == Len(chain)
             before == Song!BarsBefore(chain)
             seqs == [i \in DOMAIN chain |-> [b \in 1 .. Song!BarsOf(chain[i]) |-> i]]
             u == Unrolled(chain)
  <1>1. /\ n \in Nat /\ before[1] = 0
        /\ \A k \in 1 .. n : before[k + 1] = before[k] + Song!BarsOf(chain[k])
        /\ \A k \in 1 .. n + 1 : before[k] \in Nat
        /\ Song!TotalBars(chain) = before[n + 1]
    BY BarsBeforeAre
  <1>2. DOMAIN chain = 1 .. n
    BY DEF Chain
  <1>3. u = FlattenSeq(seqs)
    BY DEF Unrolled
  <1>4. ASSUME NEW i \in 1 .. n
        PROVE  /\ seqs[i] \in Seq(Nat) /\ Len(seqs[i]) = before[i + 1] - before[i]
               /\ \A b \in 1 .. Len(seqs[i]) : seqs[i][b] = i
    <2> DEFINE m == Song!BarsOf(chain[i])
    <2>1. m \in Nat
      BY BarsOfNat
    <2>2. seqs[i] = [b \in 1 .. m |-> i] /\ i \in Nat
      BY <1>1, <1>2
    <2>3. before[i + 1] = before[i] + m /\ before[i] \in Nat
      <3>1. i \in 1 .. n + 1
        BY <1>1
      <3>2. QED
        BY <1>1, <3>1
    <2> HIDE DEF m, seqs, before
    <2>4. seqs[i] \in Seq({i}) /\ Len(seqs[i]) = m /\ \A b \in 1 .. m : seqs[i][b] = i
      BY <2>1, <2>2, Same
    <2>5. seqs[i] \in Seq(Nat)
      BY <2>2, <2>4
    <2>6. QED
      BY <2>1, <2>3, <2>4, <2>5
  <1>5. Len(seqs) = n /\ (n = 0 => seqs = <<>>)
    BY <1>1, <1>2
  <1> HIDE DEF before, seqs, n, u
  <1>6. CASE n = 0
    <2>1. u = <<>>
      BY <1>3, <1>5, <1>6 DEF FlattenSeq
    <2>2. u \in Seq(Nat) /\ Len(u) = 0
      BY <2>1
    <2>3. QED
      BY <1>1, <1>6, <2>2 DEF n, before, u
  <1>7. CASE n # 0
    <2>1. PICK f : /\ u = f[n]
                   /\ f[1] = seqs[1]
                   /\ \A i \in 2 .. n : f[i] = f[i - 1] \o seqs[i]
      BY <1>1, <1>3, <1>5, <1>7, FlattenJoins
    <2> DEFINE Good(i) == /\ f[i] \in Seq(Nat) /\ Len(f[i]) = before[i + 1]
                          /\ \A j \in 1 .. i : \A k \in before[j] + 1 .. before[j + 1] : f[i][k] = j
               Bad == {i \in 1 .. n : ~Good(i)}
    <2>2. Good(1)
      <3>1. 1 \in 1 .. n /\ 1 \in 1 .. n + 1 /\ 1 + 1 \in 1 .. n + 1
        BY <1>1, <1>7
      <3>2. /\ f[1] \in Seq(Nat) /\ Len(f[1]) = before[1 + 1] - 0
            /\ \A b \in 1 .. Len(f[1]) : f[1][b] = 1
        BY <1>1, <1>4, <2>1, <3>1
      <3>3. before[1 + 1] \in Nat
        BY <1>1, <3>1
      <3>4. Len(f[1]) = before[1 + 1]
        BY <3>2, <3>3
      <3>5. ASSUME NEW j \in 1 .. 1, NEW k \in before[j] + 1 .. before[j + 1] PROVE f[1][k] = j
        <4>1. j = 1
          OBVIOUS
        <4>2. k \in 1 .. Len(f[1])
          BY <1>1, <3>4, <4>1
        <4>3. QED
          BY <3>2, <4>1, <4>2
      <3>6. QED
        BY <3>2, <3>4, <3>5
    <2>3. ASSUME NEW i \in 2 .. n, Good(i - 1) PROVE Good(i)
      <3>1. /\ i \in 1 .. n /\ i \in 1 .. n + 1 /\ i + 1 \in 1 .. n + 1 /\ (i - 1) + 1 = i
            /\ \A j \in 1 .. i : j \in 1 .. i - 1 \/ j = i
        BY <1>1
      <3> DEFINE s == f[i - 1]
                 t == seqs[i]
      <3>2. f[i] = s \o t
        BY <2>1
      <3>3. s \in Seq(Nat) /\ Len(s) = before[i]
        BY <2>3, <3>1
      <3>4. t \in Seq(Nat) /\ Len(t) = before[i + 1] - before[i] /\ \A b \in 1 .. Len(t) : t[b] = i
        BY <1>4, <3>1
      <3>5. \A j \in 1 .. i - 1 : \A k \in before[j] + 1 .. before[j + 1] : s[k] = j
        BY <2>3
      <3>6. before[i] \in Nat /\ before[i + 1] \in Nat
        BY <1>1, <3>1
      <3> HIDE DEF s, t
      <3>7. /\ f[i] \in Seq(Nat) /\ Len(f[i]) = Len(s) + Len(t)
            /\ \A k \in 1 .. Len(s) : f[i][k] = s[k]
            /\ \A k \in 1 .. Len(t) : f[i][Len(s) + k] = t[k]
        <4> DEFINE st == s \o t
        <4>1. /\ st \in Seq(Nat) /\ Len(st) = Len(s) + Len(t)
              /\ \A k \in 1 .. Len(s) : st[k] = s[k]
              /\ \A k \in 1 .. Len(t) : st[Len(s) + k] = t[k]
          <5>1. s \in Seq(Nat) /\ t \in Seq(Nat)
            BY <3>3, <3>4
          <5>2. QED
            BY <5>1, Joined
        <4>2. f[i] = st
          BY <3>2
        <4> HIDE DEF st
        <4>3. QED
          BY <4>1, <4>2
      <3>8. Len(f[i]) = before[i + 1]
        BY <3>3, <3>4, <3>6, <3>7
      <3>9. ASSUME NEW j \in 1 .. i, NEW k \in before[j] + 1 .. before[j + 1] PROVE f[i][k] = j
        <4>1. CASE j = i
          <5> DEFINE b == k - Len(s)
          <5>1. b \in 1 .. Len(t) /\ k = Len(s) + b
            BY <3>3, <3>4, <3>6, <4>1
          <5> HIDE DEF b
          <5>2. QED
            BY <3>4, <3>7, <4>1, <5>1
        <4>2. CASE j \in 1 .. i - 1
          <5>1. j \in 1 .. n + 1 /\ j + 1 \in 1 .. n + 1 /\ j + 1 <= i
            BY <1>1, <3>1, <4>2
          <5>2. before[j] \in Nat /\ before[j + 1] \in Nat
            BY <1>1, <5>1
          <5>3. before[j + 1] <= before[i]
            <6>1. \A m \in 1 .. n : before[m] < before[m + 1]
              BY BarsBeforeAre DEF before, n
            <6>2. QED
              BY <1>1, <3>1, <5>1, <6>1, Ordered
          <5>4. k \in 1 .. Len(s)
            BY <3>3, <3>6, <5>2, <5>3
          <5>5. s[k] = j
            BY <3>5, <4>2
          <5>6. QED
            BY <3>7, <5>4, <5>5
        <4>3. QED
          BY <3>1, <4>1, <4>2
      <3>10. QED
        BY <3>7, <3>8, <3>9
    <2> HIDE DEF Good
    <2>4. Good(n)
      <3>1. SUFFICES ASSUME Bad # {} PROVE FALSE
        <4>1. n \in 1 .. n
          BY <1>1, <1>7
        <4>2. QED
          BY <4>1
      <3>2. Bad \subseteq Nat
        OBVIOUS
      <3>5. \A k : k \in Bad <=> k \in 1 .. n /\ ~Good(k)
        OBVIOUS
      <3> HIDE DEF Bad
      <3>3. PICK m \in Bad : \A k \in Bad : m <= k
        BY <3>1, <3>2, FirstOf
      <3>4. m \in 1 .. n /\ ~Good(m)
        BY <3>3, <3>5
      <3>6. m # 1
        BY <2>2, <3>4
      <3>7. m \in 2 .. n /\ m - 1 \in 1 .. n /\ ~(m <= m - 1)
        BY <1>1, <3>4, <3>6
      <3>8. Good(m - 1)
        BY <3>3, <3>5, <3>7
      <3>9. QED
        BY <2>3, <3>4, <3>7, <3>8
    <2>5. QED
      BY <1>1, <2>1, <2>4 DEF Good, n, before, u
  <1>8. QED
    BY <1>6, <1>7

(* Song.h: whatever the chain, stepAtBar is the step that the chain written   *)
(* out bar by bar has there.                                                *)
THEOREM ChainUnrolls ==
  \A chain \in Chain, loop \in BOOLEAN, bar \in Int : Unrolls(chain, loop, bar)
  <1> SUFFICES ASSUME NEW chain \in Chain, NEW loop \in BOOLEAN, NEW bar \in Int
               PROVE  Unrolls(chain, loop, bar)
    OBVIOUS
  <1> DEFINE total == Song!TotalBars(chain)
             before == Song!BarsBefore(chain)
             i == Song!StepAtBar(chain, loop, bar)
             u == Unrolled(chain)
             Out == chain = <<>> \/ bar < 0 \/ (~loop /\ bar >= total)
             m == bar % total
  <1>1. /\ u \in Seq(Nat) /\ Len(u) = total
        /\ \A j \in 1 .. Len(chain) : \A k \in before[j] + 1 .. before[j + 1] : u[k] = j
    BY UnrolledAre
  <1>2. total \in Nat /\ (chain # <<>> => total >= 1)
    BY TotalBarsNat
  <1>3. IF Out THEN i = Song!NoStep
        ELSE i \in 1 .. Len(chain) /\ before[i] <= m /\ m < before[i + 1]
    BY StepAtBarCovers
  <1>4. chain = <<>> <=> u = <<>>
    <2>1. chain = <<>> => total = 0
      <3>1. chain = <<>> => Len(chain) + 1 = 1
        OBVIOUS
      <3>2. total = before[Len(chain) + 1] /\ before[1] = 0
        BY BarsBeforeAre
      <3>3. QED
        BY <3>1, <3>2
    <2> HIDE DEF u, total
    <2>2. total = 0 <=> u = <<>>
      BY <1>1
    <2>3. QED
      BY <1>2, <2>1, <2>2
  <1> HIDE DEF u, total, i, before
  <1>5. CASE Out
    BY <1>1, <1>3, <1>4, <1>5 DEF Unrolls, u, total, i
  <1>6. CASE ~Out
    <2>1. total \in Nat \ {0}
      BY <1>2, <1>6
    <2>2. m \in 0 .. total - 1
      BY <2>1, RemainderIn
    <2>3. i \in 1 .. Len(chain) /\ before[i] <= m /\ m < before[i + 1]
      BY <1>3, <1>6
    <2>4. before[i] \in Nat /\ before[i + 1] \in Nat
      <3>1. /\ Len(chain) \in Nat /\ \A k \in 1 .. Len(chain) + 1 : before[k] \in Nat
        BY BarsBeforeAre DEF before
      <3>2. i \in 1 .. Len(chain) + 1 /\ i + 1 \in 1 .. Len(chain) + 1
        BY <2>3, <3>1
      <3>3. QED
        BY <3>1, <3>2
    <2>7. m \in Nat
      BY <2>1, <2>2
    <2> HIDE DEF m
    <2>5. m + 1 \in before[i] + 1 .. before[i + 1]
      BY <2>3, <2>4, <2>7
    <2>6. u[m + 1] = i
      BY <1>1, <2>3, <2>5
    <2>8. ~(u = <<>> \/ bar < 0 \/ (~loop /\ bar >= Len(u)))
      BY <1>1, <1>4, <1>6
    <2>9. u[(bar % Len(u)) + 1] = i
      BY <1>1, <2>6 DEF m
    <2>10. QED
      BY <2>8, <2>9 DEF Unrolls, u, i
  <1>7. QED
    BY <1>5, <1>6

(* Song.h: in particular of the short chains the run looks at.               *)
THEOREM SpecStepAtBarUnrolls == Spec => []StepAtBarUnrolls
  <1>1. StepAtBarUnrolls
    <2>1. ShortChains \subseteq Chain
      <3>1. ASSUME NEW n \in 0 .. 3, NEW c \in [1 .. n -> [slot : {0}, bars : -1 .. 3]] 
             PROVE  c \in Chain
        <4>1. [slot : {0}, bars : -1 .. 3] \subseteq [slot : Int, bars : Int]
          OBVIOUS
        <4>2. c \in [1 .. n -> [slot : Int, bars : Int]] /\ n \in Nat
          BY <4>1
        <4> DEFINE S == [slot : Int, bars : Int]
        <4> HIDE DEF S
        <4>5. c = [i \in 1 .. n |-> c[i]] /\ \A i \in 1 .. n : c[i] \in S
          BY <4>2 DEF S
        <4>3. c \in Seq(S)
          BY <4>2, <4>5
        <4>4. QED
          BY <4>3 DEF Chain, S
      <3>2. QED
        BY <3>1 DEF ShortChains
    <2>2. QED
      BY <2>1, ChainUnrolls DEF StepAtBarUnrolls
  <1>2. QED
    BY <1>1, PTL

-----------------------------------------------------------------------------
(* The song against the transport: a one-shot chain stops in time.         *)

(* The song against the transport, where the timer keeps up with the bars. *)
KeptUp == TwoTicks /\ SeenFirst /\ ~Wrap

(* Where a one-shot song has played all its bars. *)
SongEnd == songStartStep + BarSteps * Song!TotalBars(song.chain)

(* Play is pressed with no song under way, and the timer waits for its first *)
(* step; stopped, no song stays under way; and the clock runs on from the   *)
(* step it has fired.                                                       *)
Newly   == unseen = "play" => /\ songStartStep = -1
                              /\ mpc = "idle" \/ (mpc = "queue" /\ call.then = "idle")
Halted  == ~playing /\ unseen # "stop" /\ mpc # "song" => songStartStep = -1
Onward  == playing /\ unseen # "play" => ~resetRequested /\ nextStep = currentStep + 1
OnBars  == songStartStep >= 0 => \E k \in Nat : songStartStep = BarSteps * k
InSong  == /\ lastSongBar \in Int
           /\ songStartStep >= 0 /\ ~song.loop => lastSongBar < Song!TotalBars(song.chain)
(* Past its end a one-shot song is about to be stopped.                     *)
Stopped == SongRuns /\ songStartStep >= 0 /\ ~song.loop =>
             /\ currentStep < SongEnd + BarSteps
             /\ currentStep >= SongEnd => ticks = 0 \/ mpc = "song"

SongInv == song \in Songs /\ Newly /\ Halted /\ Onward /\ OnBars /\ InSong /\ Stopped

LEMMA SongTotal ==
  ASSUME song \in Songs
  PROVE  /\ song.chain \in Chain /\ song.loop \in BOOLEAN
         /\ Song!TotalBars(song.chain) \in Nat
         /\ song.chain # <<>> => Song!TotalBars(song.chain) >= 1
  <1>1. song.chain \in Chain /\ song.loop \in BOOLEAN
    BY SlotSwitchAssumption DEF Chain
  <1>2. QED
    BY <1>1, TotalBarsNat

(* What is whole bars long ends on a bar line. *)
LEMMA WholeBars ==
  ASSUME NEW q \in Nat
  PROVE  (BarSteps * q) % BarSteps = 0
  <1>1. BarSteps \in Nat /\ BarSteps > 0
    BY Constants
  <1> DEFINE x == BarSteps * q
             d == x \div BarSteps
             r == x % BarSteps
  <1>2. x \in Nat
    BY <1>1
  <1>3. d \in Int /\ r \in Int /\ 0 <= r /\ r < BarSteps /\ x = BarSteps * d + r
    <2> HIDE DEF x
    <2>1. QED
      BY <1>1, <1>2
  <1>4. r = BarSteps * (q - d)
    <2> HIDE DEF d, r
    <2>1. QED
      BY <1>1, <1>3
  <1>5. q - d >= 1 => BarSteps * (q - d) >= BarSteps
    <2> HIDE DEF d, r, x
    <2>1. QED
      BY <1>1, <1>3
  <1>6. q - d <= -1 => BarSteps * (q - d) <= -BarSteps
    <2> HIDE DEF d, r, x
    <2>1. QED
      BY <1>1, <1>3
  <1>7. r = 0
    <2> HIDE DEF d, r, x
    <2>1. QED
      BY <1>1, <1>3, <1>4, <1>5, <1>6
  <1>8. QED
    BY <1>7

LEMMA InitSong == Init => SongInv
  BY DEF Init, SongInv, Newly, Halted, Onward, OnBars, InSong, Stopped, SongRuns

LEMMA NextSong == Types /\ Types' /\ SongInv /\ KeptUp /\ [Next]_<<vars, song>> => SongInv'
  <1> SUFFICES ASSUME Types, Types', SongInv, KeptUp, [Next]_<<vars, song>> PROVE SongInv'
    OBVIOUS
  <1> DEFINE total == Song!TotalBars(song.chain)
  <1>0. song' = song
    BY DEF Next
  <1>1. /\ total \in Nat /\ song.loop \in BOOLEAN
        /\ (song.chain # <<>> => total >= 1)
        /\ BarSteps \in Nat /\ BarSteps > 0
        /\ song \in Songs /\ total' = total
    BY <1>0, SongTotal, Constants DEF SongInv
  <1>2. /\ currentStep \in Int /\ nextStep \in Int /\ songStartStep \in Int
        /\ currentStep >= -1 /\ songStartStep >= -1
        /\ playing \in BOOLEAN /\ resetRequested \in BOOLEAN /\ songMode \in BOOLEAN
    <2>1. Steps /\ Flags /\ MaxStep \in Nat /\ BarSteps \in Nat
      BY Constants DEF Types
    <2>2. QED
      BY <2>1 DEF Steps, Flags
  <1>3. TwoTicks = TRUE /\ SeenFirst = TRUE /\ Wrap = FALSE
    BY SlotSwitchAssumption DEF KeptUp
  <1> DEFINE length == BarSteps * total
  <1>4. /\ length \in Nat /\ (song.chain # <<>> => length >= BarSteps)
        /\ SongEnd = songStartStep + length
        /\ SongEnd' = songStartStep' + length
    BY <1>1 DEF SongEnd
  <1> DEFINE Ends(start, current, kept) ==
               /\ current < start + length + BarSteps
               /\ current >= start + length => kept
  <1>5. /\ Stopped = (SongRuns /\ songStartStep >= 0 /\ ~song.loop
                        => Ends(songStartStep, currentStep, ticks = 0 \/ mpc = "song"))
        /\ Stopped' = (SongRuns' /\ songStartStep' >= 0 /\ ~song.loop
                        => Ends(songStartStep', currentStep', ticks' = 0 \/ mpc' = "song"))
    BY <1>0, <1>4 DEF Stopped
  <1>6. UNCHANGED <<audio, transport, songVars, mpc, call, unseen, ticks>> => SongInv'
    BY <1>0 DEF audio, transport, songVars, SongInv, Newly, Halted, Onward, OnBars, InSong,
                Stopped, SongRuns, SongEnd
  <1> HIDE DEF total, length, Ends
  \* The message thread, where it leaves the transport and the song alone.
  <1>7. ASSUME UNCHANGED <<audio, transport, songVars, unseen>>,
               ticks' = ticks \/ ticks' = 0 \/ mpc' = "song",
               unseen = "play" => mpc' = "idle" \/ (mpc' = "queue" /\ call'.then = "idle"),
               mpc # "song"
        PROVE  SongInv'
    <2>1. SongRuns' = SongRuns
      BY <1>0, <1>7 DEF SongRuns, transport, songVars
    <2>2. /\ Newly' /\ Halted' /\ Onward' /\ OnBars' /\ InSong' /\ song' \in Songs
      BY <1>0, <1>7 DEF SongInv, Newly, Halted, Onward, OnBars, InSong, audio, transport, songVars
    <2>3. UNCHANGED <<currentStep, songStartStep>>
      BY <1>7 DEF audio, songVars
    <2>4. Stopped'
      BY <1>5, <1>7, <2>1, <2>3 DEF SongInv, Ends
    <2>5. QED
      BY <2>2, <2>4 DEF SongInv
  <1>8. CASE Play
    <2>1. /\ mpc = "idle" /\ ~playing /\ unseen # "stop" /\ playing' = TRUE /\ unseen' = "play"
          /\ UNCHANGED <<audio, songVars, mpc, call>>
      BY <1>3, <1>8 DEF Play, User
    <2>2. songStartStep = -1 /\ songStartStep' = -1
      BY <2>1 DEF SongInv, Halted, songVars
    <2>3. QED
      BY <1>0, <2>1, <2>2 DEF SongInv, Newly, Halted, Onward, OnBars, InSong, Stopped, songVars
  <1>9. CASE Stop
    <2>1. /\ playing' = FALSE /\ unseen' = "stop"
          /\ UNCHANGED <<audio, songVars>>
      BY <1>3, <1>9 DEF Stop, User
    <2>2. QED
      BY <1>0, <2>1 DEF SongInv, Newly, Halted, Onward, OnBars, InSong, Stopped, SongRuns, songVars
  <1>10. CASE Select \/ Edit \/ Undo \/ CopyTo \/ ClearSlot \/ ToggleEvolve
    <2>1. /\ mpc = "idle" /\ ticks' = 0 /\ UNCHANGED <<audio, transport, songVars, unseen>>
      BY <1>10 DEF Select, Edit, Undo, CopyTo, ClearSlot, ToggleEvolve, User
    <2>2. mpc' = "idle" \/ (mpc' = "queue" /\ call'.then = "idle")
      <3>1. CASE Select
        BY <3>1 DEF Select, SelectSlot, QueueBarPattern
      <3>2. CASE Edit \/ Undo \/ CopyTo \/ ClearSlot \/ ToggleEvolve
        BY <2>1, <3>2 DEF Edit, Undo, CopyTo, ClearSlot, ToggleEvolve
      <3>3. QED
        BY <1>10, <3>1, <3>2
    <2>3. QED
      BY <1>7, <2>1, <2>2
  <1>11. CASE ToggleSong \/ Load
    <2>1. /\ mpc = "idle" /\ songStartStep' = -1 /\ lastSongBar' = -1
          /\ UNCHANGED <<audio, transport, unseen>>
      BY <1>11 DEF ToggleSong, Load, User
    <2>2. mpc' = "idle" \/ (mpc' = "queue" /\ call'.then = "idle")
      <3>1. CASE ToggleSong
        <4>1. \/ \E s \in Slots \ {currentSlot} : SelectSlot(s, "idle")
              \/ mpc' = "idle" /\ StaysPut
          BY <3>1, SelectIfDoes DEF ToggleSong
        <4>2. QED
          BY <4>1 DEF SelectSlot, QueueBarPattern
      <3>2. CASE Load
        BY <2>1, <3>2 DEF Load
      <3>3. QED
        BY <1>11, <3>1, <3>2
    <2>3. Onward'
      BY <2>1 DEF audio, transport, SongInv, Onward
    <2>4. QED
      BY <1>0, <2>1, <2>2, <2>3 DEF SongInv, Newly, Halted, OnBars, InSong, Stopped
  <1>12. CASE Prepare
    <2>1. /\ mpc = "idle" /\ ticks' = 0 /\ nextStep' = 0 /\ currentStep' = -1
          /\ UNCHANGED <<transport, songVars, unseen, mpc, call>>
      BY <1>12 DEF Prepare, User
    <2>2. Newly' /\ Halted' /\ OnBars' /\ InSong' /\ song' \in Songs
      BY <1>0, <2>1 DEF SongInv, Newly, Halted, OnBars, InSong, transport, songVars
    <2>3. Onward'
      BY <1>2, <2>1 DEF SongInv, Onward, transport
    <2>4. Stopped'
      <3>1. songStartStep' >= 0 => Ends(songStartStep', currentStep', ticks' = 0 \/ mpc' = "song")
        BY <1>1, <1>2, <1>4, <2>1 DEF Ends, songVars
      <3>2. QED
        BY <1>5, <3>1
    <2>5. QED
      BY <2>2, <2>3, <2>4 DEF SongInv
  <1>13. CASE QueueStep
    <2>1. /\ mpc = "queue" /\ mpc' = call.then
          /\ UNCHANGED <<audio, transport, songVars, unseen, ticks>>
      BY <1>13 DEF QueueStep, history
    <2>2. unseen = "play" => call.then = "idle"
      BY <2>1 DEF SongInv, Newly
    <2>3. QED
      BY <1>7, <2>1, <2>2
  <1>14. CASE CommitTick
    <2>1. /\ mpc = "idle" /\ mpc' = "song" /\ unseen # "play"
          /\ unseen' = IF unseen = "stop" THEN "none" ELSE unseen
          /\ UNCHANGED <<audio, transport, songVars>>
      BY <1>3, <1>14 DEF CommitTick
    <2>2. SongRuns' = SongRuns
      BY <1>0, <2>1 DEF SongRuns, transport, songVars
    <2>3. Newly' /\ Halted' /\ Onward' /\ OnBars' /\ InSong' /\ song' \in Songs
      BY <1>0, <2>1 DEF SongInv, Newly, Halted, Onward, OnBars, InSong, audio, transport, songVars
    <2>4. UNCHANGED <<currentStep, songStartStep>>
      BY <2>1 DEF audio, songVars
    <2>5. Stopped'
      BY <1>5, <2>1, <2>2, <2>4 DEF SongInv, Ends
    <2>6. QED
      BY <2>3, <2>5 DEF SongInv
  <1>15. CASE UpdateSongPlayback
    <2>1. /\ mpc = "song" /\ UNCHANGED <<audio, resetRequested, songMode, unseen, ticks>>
          /\ unseen # "play"
      BY <1>15 DEF UpdateSongPlayback, history, SongInv, Newly
    <2>2. Newly' /\ song' \in Songs
      BY <1>0, <2>1 DEF Newly, SongInv
    <2>3. CASE SongOff \/ SongEnds
      <3>1. /\ songStartStep' = -1 /\ lastSongBar' = -1 /\ (playing' => playing)
        BY <2>3 DEF SongOff, SongEnds
      <3>2. Onward'
        BY <2>1, <3>1 DEF SongInv, Onward, audio
      <3>3. QED
        BY <1>0, <2>2, <3>1, <3>2 DEF SongInv, Halted, OnBars, InSong, Stopped
    <2>4. CASE SongAnchors
      <3>1. /\ SongRuns /\ currentStep >= 0 /\ lastSongBar' = -1 /\ playing' = playing
            /\ \/ songStartStep' = BarSteps * BarOf(currentStep)
               \/ songStartStep' = BarSteps * BarOf(currentStep) + BarSteps
        BY <2>4 DEF SongAnchors
      <3>2. PICK q \in Nat : q = BarOf(currentStep) /\ currentStep < BarSteps * q + BarSteps
        <4>1. currentStep \in Nat
          BY <1>2, <3>1
        <4>2. QED
          BY <1>1, <4>1 DEF BarOf
      <3>3. OnBars'
        <4>1. BarSteps * q + BarSteps = BarSteps * (q + 1)
          BY <1>1
        <4>2. QED
          BY <3>1, <3>2, <4>1 DEF OnBars
      <3>4. InSong'
        BY <1>0, <1>1, <3>1 DEF InSong, total
      <3>5. Onward' /\ Halted'
        BY <2>1, <3>1 DEF SongInv, Onward, Halted, audio, SongRuns
      <3>6. Stopped'
        <4>1. BarSteps * q \in Int /\ length >= BarSteps /\ currentStep' = currentStep
          BY <1>1, <1>4, <2>1, <3>1 DEF SongRuns, audio
        <4> DEFINE start == BarSteps * q
        <4>2. songStartStep' = start \/ songStartStep' = start + BarSteps
          BY <3>1, <3>2
        <4>3. start \in Int /\ currentStep < start + BarSteps
          BY <3>2, <4>1
        <4> HIDE DEF start
        <4>4. Ends(songStartStep', currentStep', ticks' = 0 \/ mpc' = "song")
          BY <1>1, <1>2, <1>4, <4>1, <4>2, <4>3 DEF Ends
        <4>5. QED
          BY <1>5, <4>4
      <3>7. QED
        BY <2>2, <3>3, <3>4, <3>5, <3>6 DEF SongInv
    <2>5. CASE SongWaits \/ SongAdvances
      <3>1. SongRuns /\ UNCHANGED <<playing, songStartStep>>
        BY <2>5 DEF SongWaits, SongAdvances, SongTurns
      <3>2. Onward' /\ Halted' /\ OnBars'
        BY <2>1, <3>1 DEF SongInv, Onward, Halted, OnBars, audio, SongRuns
      <3>3. \/ currentStep < 0 \/ songStartStep < 0 \/ currentStep < songStartStep
            \/ /\ songStartStep >= 0 /\ currentStep >= songStartStep
               /\ lastSongBar' = SongBar /\ (~song.loop => SongBar < total)
        <4>1. CASE SongWaits
          BY <1>2, <4>1 DEF SongWaits, SongInv, InSong, total
        <4>2. CASE SongAdvances
          <5>1. /\ songStartStep >= 0 /\ currentStep >= songStartStep /\ lastSongBar' = SongBar
                /\ Song!StepAtBar(song.chain, song.loop, SongBar) # Song!NoStep
            BY <4>2 DEF SongAdvances, SongTurns
          <5>2. ~(SongBar >= total /\ ~song.loop)
            BY <5>1 DEF Song!StepAtBar, total
          <5>3. SongBar \in Int
            BY <1>1, <1>2 DEF SongBar
          <5>4. QED
            BY <1>1, <5>1, <5>2, <5>3
        <4>3. QED
          BY <2>5, <4>1, <4>2
      <3>4. InSong'
        <4>1. CASE SongWaits
          BY <1>0, <4>1 DEF SongWaits, SongInv, InSong
        <4>2. CASE SongAdvances
          <5>1. SongBar \in Int /\ lastSongBar' = SongBar
            BY <1>1, <1>2, <4>2 DEF SongBar, SongAdvances
          <5>2. songStartStep' >= 0 /\ ~song.loop => SongBar < total
            BY <1>2, <3>3, <4>2 DEF SongAdvances, SongTurns
          <5>3. QED
            BY <1>0, <5>1, <5>2 DEF InSong, total
        <4>3. QED
          BY <2>5, <4>1, <4>2
      <3>5. Stopped'
        <4>1. UNCHANGED <<currentStep, songStartStep>>
          BY <2>1, <3>1 DEF audio
        <4>2. ASSUME songStartStep >= 0, ~song.loop
              PROVE  currentStep < songStartStep + length
          <5>1. length >= BarSteps
            BY <1>4, <3>1 DEF SongRuns
          <5>2. CASE currentStep < 0 \/ currentStep < songStartStep
            BY <1>1, <1>2, <1>4, <4>2, <5>1, <5>2
          <5>3. CASE ~(currentStep < 0 \/ currentStep < songStartStep)
            <6>1. SongBar < total
              BY <1>2, <3>3, <4>2, <5>3
            <6> DEFINE d == currentStep - songStartStep
            <6>2. d \in Nat /\ d \div BarSteps < total
              BY <1>2, <5>3, <6>1 DEF SongBar
            <6>3. d < length
              <7>1. PICK q \in Nat : q = d \div BarSteps
                BY <1>1, <6>2
              <7>2. d < BarSteps * (q + 1)
                <8> HIDE DEF d
                <8>1. QED
                  BY <1>1, <6>2, <7>1
              <7>3. q + 1 <= total
                BY <1>1, <6>2, <7>1
              <7>4. BarSteps * (q + 1) <= BarSteps * total
                BY <1>1, <7>1, <7>3
              <7> HIDE DEF d
              <7>5. BarSteps * (q + 1) \in Int /\ BarSteps * total \in Int
                BY <1>1, <7>1
              <7>6. QED
                BY <6>2, <7>2, <7>4, <7>5 DEF length
            <6>4. QED
              BY <1>2, <1>4, <6>3
          <5>4. QED
            BY <5>2, <5>3
        <4>3. songStartStep' >= 0 /\ ~song.loop
                => Ends(songStartStep', currentStep', ticks' = 0 \/ mpc' = "song")
          BY <1>1, <1>2, <1>4, <4>1, <4>2 DEF Ends
        <4>4. QED
          BY <1>5, <4>3
      <3>6. QED
        BY <2>2, <3>2, <3>4, <3>5 DEF SongInv
    <2>6. QED
      BY <1>15, <2>3, <2>4, <2>5 DEF UpdateSongPlayback
  <1>16. CASE UpdateEvolve
    <2>1. mpc = "evolve" /\ UNCHANGED <<audio, transport, songVars, unseen, ticks>>
      BY <1>16 DEF UpdateEvolve, history
    <2>2. unseen # "play"
      BY <2>1 DEF SongInv, Newly
    <2>3. QED
      BY <1>7, <2>1, <2>2
  \* The audio thread.
  <1>17. CASE BeginBlock
    <2>1. /\ resetRequested' = FALSE /\ nextStep' = (IF resetRequested THEN 0 ELSE nextStep)
          /\ UNCHANGED <<playing, currentStep, songVars, mpc, call, ticks, unseen>>
      BY <1>17 DEF BeginBlock, message
    <2>2. Newly' /\ Halted' /\ OnBars' /\ InSong' /\ song' \in Songs
      BY <1>0, <2>1 DEF SongInv, Newly, Halted, OnBars, InSong, songVars
    <2>3. Onward'
      BY <2>1 DEF SongInv, Onward
    <2>4. Stopped'
      <3>1. SongRuns' = SongRuns /\ songStartStep' = songStartStep
        BY <1>0, <2>1 DEF SongRuns, songVars
      <3>2. QED
        BY <1>5, <2>1, <3>1 DEF SongInv
    <2>5. QED
      BY <2>2, <2>3, <2>4 DEF SongInv
  <1>18. CASE FireStep
    <2>1. /\ currentStep' = nextStep /\ nextStep' = nextStep + 1
          /\ ticks' = (IF OnBarLine THEN 0 ELSE ticks)
          /\ unseen' = (IF unseen = "play" /\ ~resetRequested THEN "none" ELSE unseen)
          /\ (OnBarLine => nextStep = 0 \/ (ticks = 2 /\ mpc = "idle"))
          /\ UNCHANGED <<transport, songVars, mpc, call>>
      BY <1>3, <1>18 DEF FireStep, TimerKeptUp, message
    <2>2. Newly' /\ Halted' /\ OnBars' /\ InSong' /\ song' \in Songs
      BY <1>0, <2>1 DEF SongInv, Newly, Halted, OnBars, InSong, transport, songVars
    <2>3. Onward'
      BY <1>2, <2>1 DEF SongInv, Onward, transport
    <2>4. Stopped'
      <3>1. SUFFICES ASSUME SongRuns, songStartStep >= 0, ~song.loop
                     PROVE  Ends(songStartStep, nextStep, ticks' = 0 \/ mpc' = "song")
        BY <1>0, <1>5, <2>1 DEF SongRuns, transport, songVars
      <3>2. nextStep = currentStep + 1 /\ Ends(songStartStep, currentStep, ticks = 0 \/ mpc = "song")
        BY <1>2, <1>5, <3>1 DEF SongInv, Newly, Onward, SongRuns
      <3>3. length >= BarSteps
        BY <1>4, <3>1 DEF SongRuns
      <3>4. CASE OnBarLine
        BY <1>1, <1>2, <1>4, <2>1, <3>1, <3>2, <3>3, <3>4 DEF Ends
      <3>5. CASE ~OnBarLine
        <4>1. PICK k \in Nat : songStartStep = BarSteps * k
          BY <3>1 DEF SongInv, OnBars
        <4>2. /\ songStartStep + length = BarSteps * (k + total)
              /\ songStartStep + length + BarSteps = BarSteps * (k + total + 1)
          BY <1>1, <4>1 DEF length
        <4>3. nextStep # songStartStep + length /\ nextStep # songStartStep + length + BarSteps
          BY <1>1, <3>5, <4>1, <4>2, WholeBars DEF OnBarLine
        <4>4. ticks' = ticks /\ mpc' = mpc
          BY <2>1, <3>5
        <4>5. QED
          BY <1>1, <1>2, <1>4, <3>2, <4>3, <4>4 DEF Ends
      <3>6. QED
        BY <3>4, <3>5
    <2>5. QED
      BY <2>2, <2>3, <2>4 DEF SongInv
  <1>19. CASE EndBlock \/ UNCHANGED <<vars, song>>
    <2>1. UNCHANGED <<nextStep, currentStep, transport, songVars, mpc, call, ticks, unseen>>
      BY <1>19 DEF EndBlock, message, vars, audio, history
    <2>2. Newly' /\ Halted' /\ Onward' /\ OnBars' /\ InSong' /\ song' \in Songs
      BY <1>0, <2>1 DEF SongInv, Newly, Halted, Onward, OnBars, InSong, transport, songVars
    <2>3. Stopped'
      <3>1. SongRuns' = SongRuns /\ songStartStep' = songStartStep
        BY <1>0, <2>1 DEF SongRuns, songVars, transport
      <3>2. QED
        BY <1>5, <2>1, <3>1 DEF SongInv
    <2>4. QED
      BY <2>2, <2>3 DEF SongInv
  <1>20. QED
    BY <1>8, <1>9, <1>10, <1>11, <1>12, <1>13, <1>14, <1>15, <1>16, <1>17, <1>18, <1>19
       DEF Next, UserNext, TimerNext, AudioNext

(* MainComponent.cpp:1521: a one-shot chain is stopped in the bar after its  *)
(* last, whatever the chain, the bar's length and the user's operations.     *)
THEOREM SpecSongEnding == KeptUp => (Spec => []SongEnding)
  <1>1. SongInv /\ Types => SongEnding
    <2> SUFFICES ASSUME SongInv, Types, SongRuns, songStartStep >= 0, ~song.loop
                 PROVE  currentStep < songStartStep + BarSteps * (Song!TotalBars(song.chain) + 1)
      BY DEF SongEnding
    <2>1. /\ Song!TotalBars(song.chain) \in Nat /\ BarSteps \in Nat /\ songStartStep \in Int
      BY SongTotal, Constants DEF SongInv, Types, Steps
    <2>2. currentStep < SongEnd + BarSteps
      BY DEF SongInv, Stopped
    <2>3. SongEnd + BarSteps = songStartStep + BarSteps * (Song!TotalBars(song.chain) + 1)
      BY <2>1 DEF SongEnd
    <2>4. QED
      BY <2>2, <2>3
  <1>2. SongInv /\ Types /\ Types' /\ KeptUp /\ [Next]_<<vars, song>> => SongInv'
    BY NextSong
  <1>3. CASE KeptUp
    <2>1. Types /\ SongInv /\ [Next]_<<vars, song>> => Types' /\ SongInv'
      BY <1>3, NextTypes, NextSong
    <2>2. Init => Types /\ SongInv
      BY InitTypes, InitSong
    <2>3. QED
      BY <1>1, <2>1, <2>2, PTL DEF Spec
  <1>4. QED
    BY <1>3

-----------------------------------------------------------------------------
(* Bars counted from a bar line.                                           *)

(* A number is divided in one way only. *)
LEMMA DivIs ==
  ASSUME NEW q \in Int, NEW r \in Int, 0 <= r, r < BarSteps
  PROVE  (BarSteps * q + r) \div BarSteps = q
  <1>1. BarSteps \in Nat /\ BarSteps > 0
    BY Constants
  <1> DEFINE x == BarSteps * q + r
             d == x \div BarSteps
             m == x % BarSteps
  <1>2. x \in Int
    BY <1>1
  <1>3. d \in Int /\ m \in Int /\ 0 <= m /\ m < BarSteps /\ x = BarSteps * d + m
    <2> HIDE DEF x
    <2>1. QED
      BY <1>1, <1>2
  <1>4. BarSteps * (q - d) = m - r
    <2> HIDE DEF d, m
    <2>1. QED
      BY <1>1, <1>3
  <1>5. q - d >= 1 => BarSteps * (q - d) >= BarSteps
    <2> HIDE DEF d, m, x
    <2>1. QED
      BY <1>1, <1>3
  <1>6. q - d <= -1 => BarSteps * (q - d) <= -BarSteps
    <2> HIDE DEF d, m, x
    <2>1. QED
      BY <1>1, <1>3
  <1>7. q = d
    <2> HIDE DEF d, m, x
    <2>1. QED
      BY <1>1, <1>3, <1>4, <1>5, <1>6
  <1>8. QED
    BY <1>7

(* A bar counted from a bar line is a bar counted from the top.             *)
LEMMA BarFrom ==
  ASSUME NEW y \in Int, NEW k \in Int
  PROVE  (y - BarSteps * k) \div BarSteps = (y \div BarSteps) - k
  <1>1. BarSteps \in Nat /\ BarSteps > 0
    BY Constants
  <1> DEFINE d == y \div BarSteps
             m == y % BarSteps
  <1>2. d \in Int /\ m \in Int /\ 0 <= m /\ m < BarSteps /\ y = BarSteps * d + m
    BY <1>1
  <1> HIDE DEF d, m
  <1>3. y - BarSteps * k = BarSteps * (d - k) + m
    BY <1>1, <1>2
  <1>4. (BarSteps * (d - k) + m) \div BarSteps = d - k
    BY <1>2, DivIs
  <1>5. QED
    BY <1>3, <1>4 DEF d

(* A bar ends where the next step is on a bar line, and nowhere else.       *)
LEMMA BarTurns ==
  ASSUME NEW x \in Int
  PROVE  (x + 1) \div BarSteps =
           IF (x + 1) % BarSteps = 0 THEN (x \div BarSteps) + 1 ELSE x \div BarSteps
  <1>1. BarSteps \in Nat /\ BarSteps > 0
    BY Constants
  <1> DEFINE d == (x + 1) \div BarSteps
             m == (x + 1) % BarSteps
  <1>2. d \in Int /\ m \in Int /\ 0 <= m /\ m < BarSteps /\ x + 1 = BarSteps * d + m
    BY <1>1
  <1> HIDE DEF d, m
  <1>3. CASE m = 0
    <2>1. x = BarSteps * (d - 1) + (BarSteps - 1)
      BY <1>1, <1>2, <1>3
    <2>2. (BarSteps * (d - 1) + (BarSteps - 1)) \div BarSteps = d - 1
      BY <1>1, <1>2, DivIs
    <2>3. QED
      BY <1>2, <1>3, <2>1, <2>2 DEF d, m
  <1>4. CASE m # 0
    <2>1. x = BarSteps * d + (m - 1)
      BY <1>1, <1>2
    <2>2. (BarSteps * d + (m - 1)) \div BarSteps = d
      BY <1>1, <1>2, <1>4, DivIs
    <2>3. QED
      BY <1>2, <1>4, <2>1, <2>2 DEF d, m
  <1>5. QED
    BY <1>3, <1>4

-----------------------------------------------------------------------------
(* The song against the slots: every bar begins with its own.              *)

(* A queued switch is alive for as long as it is waited for: it is on its   *)
(* way to the bar line, or the engine has counted it.                       *)
Alive ==
  /\ switchCountAtQueue \in Nat /\ switchCountAtQueue <= switchCount
  /\ pendingActive /\ mpc # "queue" /\ switchCount = switchCountAtQueue
       => request.mode = "queued" \/ (request.mode = "none" /\ queued # NoPattern)

LEMMA QueueBarAlive ==
  ASSUME Types, Alive, NEW slot, NEW p, NEW then, QueueBarPattern(slot, p, then)
  PROVE  Alive'
  <1>1. switchCount \in Nat
    BY DEF Types, PC!ChannelTypeOK
  <1>2. CASE ~playing
    BY <1>2 DEF QueueBarPattern, CommitPattern, PC!SetPattern, Alive
  <1>3. CASE playing
    BY <1>1, <1>3 DEF QueueBarPattern, channel, Alive
  <1>4. QED
    BY <1>2, <1>3 DEF Types, Flags

LEMMA PushEditAlive ==
  ASSUME Alive, NEW p, PushEditPattern(p), UNCHANGED switchCountAtQueue
  PROVE  Alive'
  BY DEF PushEditPattern, PC!SetPattern, Alive

LEMMA StayAlive ==
  ASSUME Alive, UNCHANGED <<channel, pendingActive, switchCountAtQueue>>,
         mpc' = "queue" \/ mpc # "queue"
  PROVE  Alive'
  BY DEF Alive, channel

LEMMA NextAlive == Types /\ Alive /\ [Next]_<<vars, song>> => Alive'
  <1> SUFFICES ASSUME Types, Alive, [Next]_<<vars, song>> PROVE Alive'
    OBVIOUS
  <1>1. CASE Play \/ Stop \/ CopyTo \/ ToggleEvolve \/ Prepare \/ EndBlock \/ UNCHANGED <<vars, song>>
    <2>1. UNCHANGED <<channel, pendingActive, switchCountAtQueue, mpc>>
      BY <1>1 DEF Play, Stop, CopyTo, ToggleEvolve, Prepare, EndBlock, vars, message, slots, pending
    <2>2. QED
      BY <2>1, StayAlive
  <1>2. ASSUME NEW s, NEW then, SelectSlot(s, then) PROVE Alive'
    BY <1>2, QueueBarAlive DEF SelectSlot
  <1>3. ASSUME StaysPut, mpc # "queue" PROVE Alive'
    BY <1>3, StayAlive DEF StaysPut, pending
  <1>4. CASE Select \/ ToggleSong
    <2>1. mpc = "idle"
      BY <1>4 DEF Select, ToggleSong, User
    <2>2. \/ \E s, then : SelectSlot(s, then)
          \/ StaysPut
      BY <1>4, SelectIfDoes DEF Select, ToggleSong
    <2>3. QED
      BY <1>2, <1>3, <2>1, <2>2
  <1>5. CASE Edit \/ Undo
    BY <1>5, PushEditAlive DEF Edit, Undo
  <1>6. CASE ClearSlot
    <2>1. UNCHANGED <<switchCountAtQueue, mpc>> /\ mpc = "idle"
      BY <1>6 DEF ClearSlot, User
    <2>2. PICK s \in Slots : \/ UNCHANGED <<channel, pendingActive>>
                             \/ PushEditPattern(Cleared(bank[s]))
      BY <1>6 DEF ClearSlot
    <2>3. QED
      BY <2>1, <2>2, StayAlive, PushEditAlive
  <1>7. CASE Load
    BY <1>7 DEF Load, PC!SetPattern, Alive
  <1>8. CASE QueueStep
    BY <1>8 DEF QueueStep, PC!QueuePattern, Alive
  <1>9. CASE CommitTick
    <2>1. mpc = "idle" /\ UNCHANGED switchCountAtQueue
      BY <1>9 DEF CommitTick
    <2>2. \/ /\ pendingActive' = FALSE /\ switchCount' = switchCount
          \/ UNCHANGED <<channel, pendingActive>>
      BY <1>9 DEF CommitTick, CommitPattern, PC!SetPattern, channel
    <2>3. QED
      BY <2>1, <2>2, StayAlive DEF Alive
  <1>10. CASE UpdateSongPlayback
    <2>1. mpc = "song"
      BY <1>10 DEF UpdateSongPlayback
    <2>2. QED
      BY <1>2, <1>3, <1>10, <2>1, SongDoes
  <1>11. CASE UpdateEvolve
    <2>1. mpc = "evolve"
      BY <1>11 DEF UpdateEvolve
    <2>2. QED
      BY <1>3, <1>11, <2>1, EvolveDoes, QueueBarAlive
  <1>12. CASE BeginBlock
    <2>1. PC!Apply(playing) /\ UNCHANGED <<pendingActive, switchCountAtQueue, mpc>>
      BY <1>12 DEF BeginBlock, message, pending
    <2>2. switchCount \in Nat
      BY DEF Types, PC!ChannelTypeOK
    <2>3. request' = [mode |-> "none"]
      BY <2>1 DEF PC!Apply, PC!NoRequest
    <2>4. CASE ~playing /\ PC!WaitingAfterRequest # NoPattern
      BY <2>1, <2>2, <2>4 DEF PC!Apply, Alive
    <2>5. CASE playing \/ PC!WaitingAfterRequest = NoPattern
      <3>1. switchCount' = switchCount /\ queued' = PC!WaitingAfterRequest
        BY <2>1, <2>5 DEF PC!Apply
      <3>2. request.mode = "queued" => request.pattern \in Patterns
        BY DEF Types, PC!ChannelTypeOK, PC!Requests, PC!NoRequest
      <3>3. request.mode = "queued" \/ (request.mode = "none" /\ queued # NoPattern)
              => queued' # NoPattern
        BY <3>1, <3>2, NotAPattern DEF PC!WaitingAfterRequest
      <3>4. QED
        BY <2>1, <2>3, <3>1, <3>3 DEF Alive
    <2>6. QED
      BY <2>4, <2>5
  <1>13. CASE FireStep
    <2>1. /\ PC!BarLine \/ UNCHANGED channel
          /\ UNCHANGED <<pendingActive, switchCountAtQueue, mpc>>
      BY <1>13 DEF FireStep, message, pending
    <2>2. CASE PC!BarLine
      <3>1. switchCount \in Nat /\ switchCount' = switchCount + 1
        BY <2>2 DEF Types, PC!ChannelTypeOK, PC!BarLine
      <3>2. QED
        BY <2>1, <3>1 DEF Alive
    <2>3. QED
      BY <2>1, <2>2, StayAlive
  <1>14. QED
    BY <1>1, <1>4, <1>5, <1>6, <1>7, <1>8, <1>9, <1>10, <1>11, <1>12, <1>13
       DEF Next, UserNext, TimerNext, AudioNext

-----------------------------------------------------------------------------
(* What the user may do here to the song: nothing that takes its place in   *)
(* the channel, or starts the device over.                                  *)
Alone == KeptUp /\ SongAlone /\ Ops \subseteq {"play", "stop", "song", "load"}

(* A pattern is one of the slot it is kept in, and a switch leads elsewhere. *)
Tagged ==
  /\ ~evolving
  /\ \A s \in Slots : bank[s].slot = s
  /\ editPattern.slot = currentSlot
  /\ pendingActive => pendingPattern.slot = pendingSlot /\ pendingSlot # currentSlot
  /\ mpc = "queue" => call.pattern.slot = call.slot /\ call.slot # currentSlot

(* Not evolving, the timer's third look changes nothing.                    *)
EvolveIdles ==
  /\ mpc = "evolve" /\ mpc' = "idle" /\ StaysPut
  /\ UNCHANGED <<audio, transport, evolving, songVars, history>>

LEMMA AloneNext ==
  ASSUME Alone, ~evolving, [Next]_<<vars, song>>
  PROVE  \/ Play \/ Stop \/ ToggleSong \/ Load
         \/ QueueStep \/ CommitTick \/ UpdateSongPlayback \/ EvolveIdles
         \/ BeginBlock \/ FireStep \/ EndBlock
         \/ UNCHANGED <<vars, song>>
  <1>1. ~(Select \/ Edit \/ Undo \/ CopyTo \/ ClearSlot \/ ToggleEvolve \/ Prepare)
    BY DEF Alone, User, Select, Edit, Undo, CopyTo, ClearSlot, ToggleEvolve, Prepare
  <1>2. UpdateEvolve => EvolveIdles
    BY DEF UpdateEvolve, EvolveOff, EvolveWaits, EvolveBar, EvolveIdles
  <1>3. QED
    BY <1>1, <1>2 DEF Next, UserNext, TimerNext, AudioNext

LEMMA SelectTagged ==
  ASSUME Types, Tagged, NEW s \in Slots \ {currentSlot}, NEW then \in {"idle", "evolve"},
         SelectSlot(s, then), UNCHANGED evolving
  PROVE  Tagged'
  <1>1. /\ bank \in [Slots -> Patterns] /\ currentSlot \in Slots
        /\ bank' = [bank EXCEPT ![currentSlot] = editPattern]
        /\ QueueBarPattern(s, bank[s], then)
    BY DEF Types, Stored, SelectSlot, Tagged
  <1>2. \A t \in Slots : bank'[t].slot = t
    BY <1>1 DEF Tagged
  <1>3. bank[s].slot = s
    BY DEF Tagged
  <1>4. CASE ~playing
    <2>1. /\ currentSlot' = s /\ editPattern' = bank[s] /\ pendingActive' = FALSE /\ mpc' = then
      BY <1>1, <1>4 DEF QueueBarPattern, CommitPattern
    <2>2. QED
      BY <1>2, <1>3, <2>1 DEF Tagged
  <1>5. CASE playing
    <2>1. /\ call' = [slot |-> s, pattern |-> bank[s], then |-> then]
          /\ UNCHANGED <<currentSlot, editPattern, pendingActive, pendingSlot, pendingPattern>>
      BY <1>1, <1>5 DEF QueueBarPattern
    <2>2. QED
      BY <1>2, <1>3, <2>1 DEF Tagged
  <1>6. QED
    BY <1>4, <1>5 DEF Types, Flags

LEMMA StayTagged ==
  ASSUME Tagged, UNCHANGED <<slots, pendingActive, pendingSlot, pendingPattern, evolving>>,
         mpc' # "queue" \/ (mpc' = mpc /\ call' = call)
  PROVE  Tagged'
  BY DEF Tagged, slots

LEMMA NextTagged == Types /\ Tagged /\ Alone /\ [Next]_<<vars, song>> => Tagged'
  <1> SUFFICES ASSUME Types, Tagged, Alone, [Next]_<<vars, song>> PROVE Tagged'
    OBVIOUS
  <1>1. CASE Play \/ Stop \/ BeginBlock \/ FireStep \/ EndBlock \/ UNCHANGED <<vars, song>>
    <2>1. UNCHANGED <<slots, pending, evolving, mpc, call>>
      BY <1>1 DEF Play, Stop, BeginBlock, FireStep, EndBlock, vars, message, evolve
    <2>2. QED
      BY <2>1, StayTagged DEF pending
  <1>2. ASSUME StaysPut, mpc' # "queue", UNCHANGED evolving PROVE Tagged'
    BY <1>2, StayTagged DEF StaysPut, pending
  <1>3. CASE ToggleSong
    <2>1. UNCHANGED evolving
      BY <1>3 DEF ToggleSong
    <2>2. \/ \E s \in Slots \ {currentSlot} : SelectSlot(s, "idle")
          \/ mpc' = "idle" /\ StaysPut
      BY <1>3, SelectIfDoes DEF ToggleSong
    <2>3. QED
      BY <1>2, <2>1, <2>2, SelectTagged
  <1>4. CASE UpdateSongPlayback
    <2>1. UNCHANGED evolving
      BY <1>4 DEF UpdateSongPlayback
    <2>2. QED
      BY <1>2, <1>4, <2>1, SongDoes, SelectTagged
  <1>5. CASE EvolveIdles
    BY <1>2, <1>5 DEF EvolveIdles
  <1>6. CASE Load
    <2>1. /\ bank' = [s \in Slots |-> Written(s, rev + 1)] /\ currentSlot' \in Slots
          /\ editPattern' = bank'[currentSlot'] /\ pendingActive' = FALSE /\ evolving' = FALSE
          /\ mpc' = "idle"
      BY <1>6 DEF Load, User
    <2>2. \A s \in Slots : bank'[s].slot = s
      BY <2>1 DEF Written
    <2>3. QED
      BY <2>1, <2>2 DEF Tagged
  <1>7. CASE QueueStep
    BY <1>7 DEF QueueStep, slots, evolve, Types, Waits, Tagged
  <1>8. CASE CommitTick
    <2>1. /\ mpc' = "song" /\ UNCHANGED <<bank, pendingPattern, evolving>>
      BY <1>8 DEF CommitTick
    <2>2. CASE pendingActive /\ CommitPattern(pendingSlot, pendingPattern)
      BY <2>1, <2>2 DEF CommitPattern, Tagged
    <2>3. CASE UNCHANGED <<currentSlot, editPattern, pendingActive, pendingSlot>>
      BY <2>1, <2>3, StayTagged DEF slots
    <2>4. QED
      BY <1>8, <2>2, <2>3 DEF CommitTick
  <1>9. QED
    BY <1>1, <1>3, <1>4, <1>5, <1>6, <1>7, <1>8, AloneNext DEF Tagged

SlotDue(bar) == Song!SlotAtBar(song.chain, song.loop, bar)

(* The slot that is up when the next bar begins, once mpc's call is through. *)
Bound == IF mpc = "queue" THEN call.slot ELSE IF pendingActive THEN pendingSlot ELSE currentSlot

Due(slot, bar) == SlotDue(bar) # Song!NoSlot => slot = SlotDue(bar)

Rolls == SongRuns /\ unseen # "play"

(* Stopped and seen so, no switch waits; and the playhead has been seen     *)
(* where the song is looked at.                                             *)
Ready ==
  /\ mpc = "queue" => playing
  /\ ~playing /\ (unseen # "stop" \/ mpc # "idle") => ~pendingActive
  /\ playing /\ unseen # "play" => currentStep >= 0

(* Before its anchor, the song's own first slot is all that can wait.       *)
Opening == SongRuns /\ songStartStep < 0 /\ (pendingActive \/ mpc = "queue") => Bound = SlotDue(0)

(* A tick anchors the song, and the one after that looks at its bar.        *)
Ticked ==
  /\ ticks \in 0 .. 2 /\ (unseen = "play" => ticks = 0)
  /\ Rolls /\ (ticks = 2 \/ (ticks = 1 /\ mpc # "song")) => songStartStep >= 0

(* A bar that has been looked at ends in the slot the next one wants. One   *)
(* that has not is about to see the last switch land, and wants no other.   *)
Turned ==
  Rolls /\ songStartStep >= 0 =>
    /\ SongBar >= -1
    /\ SongBar = lastSongBar => Due(Bound, SongBar + 1)
    /\ SongBar # lastSongBar =>
         /\ SongBar >= 0 /\ mpc # "queue" /\ (ticks = 2 => mpc = "song")
         /\ pendingActive => switchCount # switchCountAtQueue /\ mpc # "song"

Schedule == Ready /\ Opening /\ Ticked /\ Turned

(* The bar of the song, from the bar line it starts on. *)
LEMMA SongBarIs ==
  ASSUME NEW c \in Int, NEW k \in Int
  PROVE  (c - BarSteps * k) \div BarSteps = BarOf(c) - k
  BY BarFrom DEF BarOf

LEMMA SlotDueIs == ASSUME NEW bar PROVE SlotDue(bar) \in Slots \/ SlotDue(bar) = Song!NoSlot
  BY DEF SlotDue, Song!SlotAtBar, Slots

LEMMA InitSchedule == Init => Schedule /\ Tagged /\ Alive
  <1> SUFFICES ASSUME Init PROVE Schedule /\ Tagged /\ Alive
    OBVIOUS
  <1>1. \A s \in Slots : bank[s].slot = s
    BY DEF Init, Written
  <1>2. Tagged
    BY <1>1 DEF Init, Tagged, Written
  <1>3. Alive
    BY DEF Init, Alive, PC!ChannelInit
  <1>4. Schedule
    BY DEF Init, Schedule, Ready, Opening, Ticked, Turned, Rolls, SongRuns
  <1>5. QED
    BY <1>2, <1>3, <1>4

(* A step that leaves the song and its transport alone, and the channel but *)
(* for a count.                                                             *)
LEMMA StaySchedule ==
  ASSUME Types, Schedule, Alive, UNCHANGED <<playing, currentStep, songVars, mpc, call, ticks, unseen, song>>,
         UNCHANGED <<currentSlot, pendingActive, pendingSlot, switchCountAtQueue>>,
         switchCount' = switchCount \/ switchCount' = switchCount + 1
  PROVE  Schedule'
  <1>1. SongRuns' = SongRuns /\ Rolls' = Rolls /\ SongBar' = SongBar /\ Bound' = Bound
        /\ \A b : SlotDue(b)' = SlotDue(b)
    BY DEF SongRuns, Rolls, SongBar, Bound, SlotDue, songVars
  <1>2. switchCount \in Nat /\ switchCountAtQueue \in Nat /\ switchCountAtQueue <= switchCount
    BY DEF Types, PC!ChannelTypeOK, Alive
  <1>3. switchCount # switchCountAtQueue => switchCount' # switchCountAtQueue'
    BY <1>2
  <1>4. Ready' /\ Opening' /\ Ticked'
    BY <1>1 DEF Schedule, Ready, Opening, Ticked, songVars, SlotDue
  <1>5. Turned'
    BY <1>1, <1>3 DEF Schedule, Turned, Due, songVars, SlotDue
  <1>6. QED
    BY <1>4, <1>5 DEF Schedule

(* What the user does meanwhile. *)
LEMMA UserSchedule ==
  ASSUME Types, Types', SongInv, Tagged, Schedule, Alone, song' = song,
         Play \/ Stop \/ ToggleSong \/ Load
  PROVE  Schedule'
  <1>1. SeenFirst = TRUE /\ SongAlone = TRUE /\ playing \in BOOLEAN /\ songMode \in BOOLEAN
    BY SlotSwitchAssumption DEF Alone, KeptUp, Types, Flags
  <1>2. mpc = "idle" /\ ticks' = 0
    BY DEF Play, Stop, ToggleSong, Load, User
  <1>3. CASE Play
    <2>1. /\ ~playing /\ unseen # "stop" /\ unseen' = "play" /\ songStartStep = -1
          /\ UNCHANGED <<pendingActive, songVars, mpc>>
      BY <1>1, <1>2, <1>3 DEF Play, pending, SongInv, Halted
    <2>2. pendingActive' = FALSE
      BY <1>1, <2>1 DEF Schedule, Ready, Types, Flags
    <2>3. Ready' /\ Opening' /\ Ticked' /\ Turned'
      BY <1>2, <2>1, <2>2 DEF Ready, Opening, Ticked, Turned, Rolls, songVars
    <2>4. QED
      BY <2>3 DEF Schedule
  <1>4. CASE Stop
    <2>1. /\ playing' = FALSE /\ unseen' = "stop" /\ UNCHANGED mpc
      BY <1>1, <1>4 DEF Stop
    <2>2. Ready' /\ Opening' /\ Ticked' /\ Turned'
      BY <1>2, <2>1 DEF Ready, Opening, Ticked, Turned, Rolls, SongRuns
    <2>3. QED
      BY <2>2 DEF Schedule
  <1>5. CASE Load
    <2>1. /\ pendingActive' = FALSE /\ songStartStep' = -1 /\ mpc' = "idle"
          /\ UNCHANGED <<playing, unseen, currentStep>>
      BY <1>2, <1>5 DEF Load, transport, audio
    <2>2. Ready' /\ Opening' /\ Ticked' /\ Turned'
      BY <1>2, <2>1 DEF Schedule, Ready, Opening, Ticked, Turned
    <2>3. QED
      BY <2>2 DEF Schedule
  <1>6. CASE ToggleSong
    <2>1. /\ songMode' = ~songMode /\ songStartStep' = -1 /\ (~songMode => ~pendingActive)
          /\ SelectIf(~songMode /\ song.chain # <<>>, SlotDue(0), "idle")
          /\ UNCHANGED <<playing, unseen, currentStep>>
      BY <1>1, <1>6 DEF ToggleSong, transport, audio, SlotDue
    <2>2. Ticked' /\ Turned'
      BY <1>2, <2>1 DEF Schedule, Ticked, Turned
    <2>3. CASE mpc' = "idle" /\ StaysPut
      <3>1. UNCHANGED pendingActive /\ mpc' = "idle"
        BY <2>3 DEF StaysPut, pending
      <3>2. Ready'
        BY <1>2, <2>1, <3>1 DEF Schedule, Ready
      <3>3. Opening'
        BY <2>1, <3>1 DEF Opening, SongRuns
      <3>4. QED
        BY <2>2, <3>2, <3>3 DEF Schedule
    <2>4. CASE ~songMode /\ SelectSlot(SlotDue(0), "idle")
      <3>1. \/ /\ ~playing /\ pendingActive' = FALSE /\ mpc' = "idle"
            \/ /\ playing /\ mpc' = "queue" /\ call'.slot = SlotDue(0) /\ UNCHANGED pendingActive
        BY <2>4 DEF SelectSlot, QueueBarPattern, CommitPattern
      <3>2. Ready'
        BY <1>2, <2>1, <2>4, <3>1 DEF Schedule, Ready
      <3>3. SlotDue(0)' = SlotDue(0)
        BY DEF SlotDue
      <3>4. Opening'
        BY <2>1, <3>1, <3>3 DEF Opening, SongRuns, Bound
      <3>5. QED
        BY <2>2, <3>2, <3>4 DEF Schedule
    <2>5. QED
      BY <2>1, <2>3, <2>4 DEF SelectIf
  <1>7. QED
    BY <1>3, <1>4, <1>5, <1>6

(* The call is through, or EVOLVE has nothing to do. *)
LEMMA QueueSchedule ==
  ASSUME Types, Types', SongInv, Schedule, Alone, song' = song, QueueStep \/ EvolveIdles
  PROVE  Schedule'
  <1>1. /\ UNCHANGED <<playing, currentStep, songVars, ticks, unseen, currentSlot>>
        /\ mpc \in {"queue", "evolve"} /\ mpc' \in {"idle", "evolve"}
    BY DEF QueueStep, EvolveIdles, StaysPut, audio, transport, slots, history, Types, Waits
  <1>2. SongRuns' = SongRuns /\ Rolls' = Rolls /\ SongBar' = SongBar
        /\ \A b : SlotDue(b)' = SlotDue(b)
    BY <1>1 DEF SongRuns, Rolls, SongBar, SlotDue, songVars
  <1>3. Bound' = Bound
    BY <1>1 DEF QueueStep, EvolveIdles, StaysPut, pending, Bound
  <1>4. mpc = "queue" \/ (UNCHANGED <<pendingActive, switchCountAtQueue, switchCount>> /\ mpc = "evolve")
    BY DEF QueueStep, EvolveIdles, StaysPut, pending, channel
  <1>5. playing \in BOOLEAN /\ pendingActive \in BOOLEAN
    BY DEF Types, Flags
  <1>6. Ready'
    BY <1>1, <1>4, <1>5 DEF Schedule, Ready
  <1>7. Opening'
    <2>1. CASE mpc = "queue"
      BY <1>1, <1>2, <1>3, <2>1 DEF Schedule, Opening, songVars
    <2>2. CASE mpc # "queue"
      BY <1>1, <1>2, <1>3, <1>4, <2>2 DEF Schedule, Opening, songVars
    <2>3. QED
      BY <2>1, <2>2
  <1>8. Ticked'
    BY <1>1, <1>2 DEF Schedule, Ticked, songVars
  <1>9. Turned'
    <2>1. CASE SongBar = lastSongBar
      BY <1>1, <1>2, <1>3, <2>1 DEF Schedule, Turned, Due, songVars
    <2>2. CASE SongBar # lastSongBar
      BY <1>1, <1>2, <1>4, <2>2 DEF Schedule, Turned, songVars
    <2>3. QED
      BY <2>1, <2>2
  <1>10. QED
    BY <1>6, <1>7, <1>8, <1>9 DEF Schedule

(* The timer's first look: at the switch that waits. *)
LEMMA CommitSchedule ==
  ASSUME Types, Types', SongInv, Schedule, Alone, song' = song, CommitTick
  PROVE  Schedule'
  <1>1. TwoTicks = TRUE /\ SeenFirst = TRUE /\ playing \in BOOLEAN /\ pendingActive \in BOOLEAN
    BY SlotSwitchAssumption DEF Alone, KeptUp, Types, Flags
  <1>2. /\ mpc = "idle" /\ mpc' = "song" /\ unseen # "play" /\ unseen' # "play"
        /\ ticks' = AtMostTwo(ticks + 1)
        /\ UNCHANGED <<playing, currentStep, songVars, switchCountAtQueue>>
    BY <1>1 DEF CommitTick, transport, audio
  <1>3. SongRuns' = SongRuns /\ Rolls' = Rolls /\ SongBar' = SongBar
        /\ \A b : SlotDue(b)' = SlotDue(b)
    BY <1>2 DEF SongRuns, Rolls, SongBar, SlotDue, songVars
  <1>4. \/ /\ pendingActive /\ currentSlot' = pendingSlot /\ pendingActive' = FALSE
        \/ /\ UNCHANGED <<currentSlot, pendingActive, pendingSlot>>
           /\ ~pendingActive \/ (playing /\ switchCount = switchCountAtQueue)
    BY DEF CommitTick, CommitPattern
  <1>5. Bound' = Bound
    BY <1>2, <1>4 DEF Bound
  <1>6. Ready'
    BY <1>1, <1>2, <1>4 DEF Schedule, Ready
  <1>7. Opening'
    BY <1>1, <1>2, <1>3, <1>4, <1>5 DEF Schedule, Opening, songVars
  <1>8. Ticked'
    <2>1. ticks \in 0 .. 2 /\ ticks' \in 0 .. 2 /\ (ticks' = 2 => ticks \in {1, 2})
      BY <1>2 DEF Schedule, Ticked, AtMostTwo
    <2>2. QED
      BY <1>2, <1>3, <2>1 DEF Schedule, Ticked, songVars
  <1>9. Turned'
    <2>1. CASE SongBar = lastSongBar
      BY <1>2, <1>3, <1>5, <2>1 DEF Schedule, Turned, Due, songVars
    <2>2. CASE SongBar # lastSongBar
      <3>1. Rolls /\ songStartStep >= 0
              => SongBar >= -1 /\ SongBar >= 0 /\ pendingActive' = FALSE
        BY <1>1, <1>4, <2>2 DEF Schedule, Turned
      <3>2. QED
        BY <1>2, <1>3, <2>2, <3>1 DEF Turned, songVars
    <2>3. QED
      BY <2>1, <2>2
  <1>10. QED
    BY <1>6, <1>7, <1>8, <1>9 DEF Schedule

(* Its second: at the song. *)
LEMMA SongSchedule ==
  ASSUME Types, Types', SongInv, SongInv', Tagged, Schedule, Alone, song' = song,
         UpdateSongPlayback
  PROVE  Schedule'
  <1>1. /\ playing \in BOOLEAN /\ pendingActive \in BOOLEAN
        /\ BarSteps \in Nat /\ BarSteps > 0
        /\ songStartStep \in Int /\ songStartStep' \in Int /\ songStartStep >= -1
        /\ currentStep \in Int /\ lastSongBar \in Int
        /\ currentSlot \in Slots /\ (pendingActive => pendingSlot \in Slots)
    BY Constants DEF Types, Flags, Steps, Stored, Waits, SongInv, InSong
  <1>2. /\ mpc = "song" /\ unseen # "play"
        /\ UNCHANGED <<currentStep, songMode, unseen, ticks>>
    BY DEF UpdateSongPlayback, SongInv, Newly, audio, history
  <1>3. /\ \A b : SlotDue(b)' = SlotDue(b)
        /\ (SongRuns => Rolls) /\ (Rolls' => SongRuns')
    <2>1. \A b : SlotDue(b)' = SlotDue(b)
      BY DEF SlotDue
    <2>2. (SongRuns => Rolls) /\ (Rolls' => SongRuns')
      BY <1>2 DEF Rolls
    <2>3. QED
      BY <2>1, <2>2
  <1>4. ~playing => ~pendingActive
    BY <1>2 DEF Schedule, Ready
  <1>5. CASE SongOff \/ SongEnds
    <2>2. ~SongRuns' /\ UNCHANGED pendingActive /\ mpc' = "evolve"
      BY <1>2, <1>5 DEF SongOff, SongEnds, SongRuns, StaysPut, pending
    <2>3. Opening' /\ Ticked' /\ Turned'
      BY <1>2, <1>3, <2>2 DEF Schedule, Opening, Ticked, Turned
    <2>4. Ready'
      <3>1. CASE SongOff
        BY <1>2, <1>4, <2>2, <3>1 DEF SongOff, Schedule, Ready
      <3>2. CASE SongEnds
        <4>1. ~pendingActive /\ playing' = FALSE
          BY <1>2, <1>3, <3>2 DEF SongEnds, SongTurns, Schedule, Turned
        <4>2. QED
          BY <2>2, <4>1 DEF Ready
      <3>3. QED
        BY <1>5, <3>1, <3>2
    <2>5. QED
      BY <2>3, <2>4 DEF Schedule
  <1>6. ASSUME SongRuns, UNCHANGED playing, songStartStep' >= 0, Turned',
               mpc' = "queue" => playing
        PROVE  Schedule'
    <2>1. playing = TRUE
      BY <1>1, <1>6 DEF SongRuns
    <2>2. Ready'
      BY <1>2, <1>6, <2>1 DEF Schedule, Ready
    <2>3. Opening'
      BY <1>1, <1>6 DEF Opening
    <2>4. Ticked'
      BY <1>2, <1>6 DEF Schedule, Ticked
    <2>5. QED
      BY <1>6, <2>2, <2>3, <2>4 DEF Schedule
  \* What a switch that is asked for here, or none, makes of Bound.
  <1>7. ASSUME SongRuns, NEW bar,
               \/ SelectSlot(SlotDue(bar), "evolve")
               \/ /\ mpc' = "evolve" /\ StaysPut
                  /\ SlotDue(bar) # Song!NoSlot => Bound = SlotDue(bar)
        PROVE  /\ SlotDue(bar) # Song!NoSlot => Bound' = SlotDue(bar)
               /\ mpc' = "queue" => playing
    <2>1. playing = TRUE
      BY <1>1, <1>7 DEF SongRuns
    <2>2. CASE SelectSlot(SlotDue(bar), "evolve")
      <3>1. mpc' = "queue" /\ call' = [slot |-> SlotDue(bar), pattern |-> bank[SlotDue(bar)],
                                      then |-> "evolve"]
        BY <2>1, <2>2 DEF SelectSlot, QueueBarPattern
      <3>2. QED
        BY <2>1, <3>1 DEF Bound
    <2>3. CASE mpc' = "evolve" /\ StaysPut /\ (SlotDue(bar) # Song!NoSlot => Bound = SlotDue(bar))
      <3>1. Bound' = Bound
        BY <1>2, <2>3 DEF Bound, StaysPut, slots, pending
      <3>2. QED
        BY <2>3, <3>1
    <2>4. QED
      BY <1>7, <2>2, <2>3
  <1>8. CASE SongAnchors
    <2> DEFINE first == SlotDue(0)
               there == first < 0 \/ first = currentSlot
               q == BarOf(currentStep)
    <2>1. /\ SongRuns /\ currentStep >= 0 /\ songStartStep < 0 /\ lastSongBar' = -1
          /\ songStartStep' = (IF there THEN BarSteps * q ELSE BarSteps * q + BarSteps)
          /\ SelectIf(~there /\ ~pendingActive, first, "evolve")
          /\ UNCHANGED playing
      BY <1>8 DEF SongAnchors, SlotDue
    <2>2. q \in Nat /\ q \in Int /\ q = BarOf(currentStep)
      BY <1>1, <2>1 DEF BarOf
    <2>3. first \in Slots \/ first = -1
      BY SlotDueIs DEF Song!NoSlot
    <2>4. first \in Slots => first \in Int /\ first >= 0
      BY DEF Slots
    <2>5. pendingActive => Bound = first /\ Bound = pendingSlot /\ pendingSlot # currentSlot
      BY <1>2, <2>1 DEF Schedule, Opening, Tagged, Bound
    <2> HIDE DEF first, q
    <2>6. CASE there
      <3>1. ~pendingActive
        <4>1. pendingActive => first \in Slots /\ first # currentSlot
          BY <1>1, <2>5
        <4>2. QED
          BY <2>4, <2>6, <4>1
      <3>2. mpc' = "evolve" /\ UNCHANGED pendingActive
        BY <2>1, <2>6 DEF SelectIf, StaysPut, pending
      <3>3. songStartStep' = BarSteps * q
        BY <2>1, <2>6
      <3>4. SongBar' = 0
        <4>1. SongBar' = (currentStep - BarSteps * q) \div BarSteps
          BY <1>2, <3>3 DEF SongBar
        <4>2. (currentStep - BarSteps * q) \div BarSteps = BarOf(currentStep) - q
          BY <1>1, <2>2, SongBarIs
        <4>3. QED
          BY <2>2, <4>1, <4>2
      <3>5. ticks # 2
        BY <1>1, <1>2, <1>3, <2>1 DEF Schedule, Ticked
      <3>6. Turned'
        BY <1>2, <2>1, <3>1, <3>2, <3>4, <3>5 DEF Turned
      <3>7. songStartStep' >= 0
        BY <1>1, <2>2, <3>3
      <3>8. QED
        BY <1>6, <2>1, <3>2, <3>6, <3>7
    <2>7. CASE ~there
      <3>1. first \in Slots
        BY <2>3, <2>7
      <3>2. /\ first # Song!NoSlot => Bound' = first
            /\ mpc' = "queue" => playing
        <4>1. CASE pendingActive
          <5>1. mpc' = "evolve" /\ StaysPut /\ Bound = first
            BY <2>1, <2>5, <4>1 DEF SelectIf
          <5>2. QED
            BY <1>7, <2>1, <5>1 DEF first
        <4>2. CASE ~pendingActive
          <5>1. SelectSlot(first, "evolve")
            BY <2>1, <2>7, <3>1, <4>2 DEF SelectIf, ValidSlot
          <5>2. QED
            BY <1>7, <2>1, <5>1 DEF first
        <4>3. QED
          BY <4>1, <4>2
      <3>3. songStartStep' = BarSteps * (q + 1)
        BY <1>1, <2>1, <2>2, <2>7
      <3>4. SongBar' = -1
        <4>1. SongBar' = (currentStep - BarSteps * (q + 1)) \div BarSteps
          BY <1>2, <3>3 DEF SongBar
        <4>2. (currentStep - BarSteps * (q + 1)) \div BarSteps = BarOf(currentStep) - (q + 1)
          <5>1. q + 1 \in Int
            BY <2>2
          <5>2. QED
            BY <1>1, <5>1, SongBarIs
        <4>3. QED
          BY <2>2, <4>1, <4>2
      <3>5. SlotDue(0)' = first
        BY <1>3 DEF first
      <3>6. Due(Bound, SongBar + 1)'
        <4>1. SongBar' + 1 = 0
          BY <3>4
        <4>2. SlotDue(SongBar + 1)' = SlotDue(SongBar' + 1)
          BY <1>3 DEF SlotDue
        <4>3. SlotDue(SongBar' + 1) = first
          BY <4>1 DEF first
        <4>4. QED
          BY <3>2, <4>2, <4>3 DEF Due
      <3>7. Turned'
        BY <2>1, <3>4, <3>6 DEF Turned
      <3>8. songStartStep' >= 0
        BY <1>1, <2>2, <3>3
      <3>9. QED
        BY <1>6, <2>1, <3>2, <3>7, <3>8
    <2>8. QED
      BY <2>6, <2>7
  <1>9. CASE SongWaits
    <2>1. /\ SongRuns /\ mpc' = "evolve" /\ StaysPut
          /\ UNCHANGED <<playing, songStartStep, lastSongBar>>
          /\ \/ currentStep < 0
             \/ songStartStep >= 0 /\ (currentStep < songStartStep \/ SongBar = lastSongBar)
      BY <1>9 DEF SongWaits
    <2>2. currentStep >= 0
      BY <1>2, <2>1 DEF Schedule, Ready, SongRuns
    <2>3. songStartStep >= 0
      BY <1>1, <2>1, <2>2
    <2>4. currentStep < songStartStep => SongBar < 0
      BY <1>1 DEF SongBar
    <2>5. SongBar = lastSongBar
      <3>1. SongBar # lastSongBar => SongBar >= 0
        BY <1>3, <2>1, <2>3 DEF Schedule, Turned
      <3>2. SongBar \in Int
        BY <1>1 DEF SongBar
      <3>3. QED
        BY <1>1, <2>1, <2>2, <2>4, <3>1, <3>2
    <2>6. SongBar' = SongBar /\ Bound' = Bound
      BY <1>2, <2>1 DEF SongBar, Bound, StaysPut, slots, pending
    <2>7. Due(Bound, SongBar + 1)
      BY <1>3, <2>1, <2>3, <2>5 DEF Schedule, Turned
    <2>8. Turned'
      <3>1. SongBar >= -1
        BY <1>3, <2>1, <2>3 DEF Schedule, Turned
      <3>2. QED
        BY <2>1, <2>5, <2>6, <2>7, <3>1 DEF Turned, Due, SlotDue
    <2>9. QED
      BY <1>6, <2>1, <2>3, <2>8
  <1>10. CASE SongAdvances
    <2>1. /\ SongRuns /\ songStartStep >= 0 /\ SongBar # lastSongBar
          /\ lastSongBar' = SongBar /\ UNCHANGED <<playing, songStartStep>>
          /\ SelectIf(~pendingActive, SlotDue(SongBar + 1), "evolve")
      BY <1>10 DEF SongAdvances, SongTurns, SlotDue
    <2>2. ~pendingActive
      BY <1>2, <1>3, <2>1 DEF Schedule, Turned
    <2>3. /\ SlotDue(SongBar + 1) # Song!NoSlot => Bound' = SlotDue(SongBar + 1)
          /\ mpc' = "queue" => playing
      <3>1. CASE SlotDue(SongBar + 1) \in Slots /\ SlotDue(SongBar + 1) # currentSlot
        <4>1. SelectSlot(SlotDue(SongBar + 1), "evolve")
          BY <2>1, <2>2, <3>1 DEF SelectIf, ValidSlot
        <4>2. QED
          BY <1>7, <2>1, <4>1
      <3>2. CASE ~(SlotDue(SongBar + 1) \in Slots /\ SlotDue(SongBar + 1) # currentSlot)
        <4>1. mpc' = "evolve" /\ StaysPut
          BY <2>1, <2>2, <3>2 DEF SelectIf, ValidSlot
        <4>2. SlotDue(SongBar + 1) # Song!NoSlot => Bound = SlotDue(SongBar + 1)
          BY <1>2, <2>2, <3>2, SlotDueIs DEF Bound
        <4>3. QED
          BY <1>7, <2>1, <4>1, <4>2
      <3>3. QED
        BY <3>1, <3>2
    <2>4. SongBar' = SongBar
      BY <1>2, <2>1 DEF SongBar
    <2>5. Due(Bound, SongBar + 1)'
      BY <2>3, <2>4 DEF Due, SlotDue
    <2>6. Turned'
      <3>1. SongBar >= -1
        BY <1>3, <2>1 DEF Schedule, Turned
      <3>2. QED
        BY <2>1, <2>4, <2>5, <3>1 DEF Turned
    <2>7. QED
      BY <1>6, <2>1, <2>3, <2>6
  <1>11. QED
    BY <1>5, <1>8, <1>9, <1>10 DEF UpdateSongPlayback

(* A step: within its bar nothing changes, and the bar line finds the bar    *)
(* looked at and the switch at the line.                                    *)
LEMMA FireTurns ==
  ASSUME Types, SongInv, Alive, Schedule, Alone, song' = song, FireStep,
         Rolls, songStartStep >= 0
  PROVE  /\ nextStep = currentStep + 1 /\ nextStep >= 1
         /\ SongBar' = IF OnBarLine THEN SongBar + 1 ELSE SongBar
         /\ OnBarLine => /\ SongBar = lastSongBar /\ mpc = "idle" /\ request = PC!NoRequest
                         /\ Due(Bound, SongBar + 1)
  <1>1. /\ currentStep' = nextStep /\ (OnBarLine => TimerKeptUp) /\ UNCHANGED songVars
    BY SlotSwitchAssumption DEF FireStep, Alone, KeptUp, message
  <1>2. currentStep \in Int /\ BarSteps \in Nat /\ BarSteps > 0 /\ songStartStep \in Int
    BY Constants DEF Types, Steps
  <1>3. nextStep = currentStep + 1 /\ currentStep >= 0
    BY DEF SongInv, Onward, Schedule, Ready, Rolls, SongRuns
  <1>4. PICK k \in Nat : songStartStep = BarSteps * k
    BY DEF SongInv, OnBars
  <1>5. SongBar = BarOf(currentStep) - k /\ SongBar' = BarOf(nextStep) - k
    <2>1. SongBar = (currentStep - BarSteps * k) \div BarSteps
      BY <1>4 DEF SongBar
    <2>2. SongBar' = (nextStep - BarSteps * k) \div BarSteps
      BY <1>1, <1>4 DEF SongBar, songVars
    <2>3. nextStep \in Int
      BY <1>2, <1>3
    <2>4. QED
      BY <1>2, <2>1, <2>2, <2>3, SongBarIs
  <1>6. BarOf(nextStep) = IF OnBarLine THEN BarOf(currentStep) + 1 ELSE BarOf(currentStep)
    BY <1>2, <1>3, BarTurns DEF BarOf, OnBarLine
  <1>7. BarOf(currentStep) \in Int
    BY <1>2 DEF BarOf
  <1>8. SongBar' = IF OnBarLine THEN SongBar + 1 ELSE SongBar
    BY <1>5, <1>6, <1>7
  <1>9. ASSUME OnBarLine
        PROVE  /\ SongBar = lastSongBar /\ mpc = "idle" /\ request = PC!NoRequest
               /\ Due(Bound, SongBar + 1)
    <2>1. ticks = 2 /\ mpc = "idle" /\ request = PC!NoRequest
      BY <1>1, <1>2, <1>3, <1>9 DEF TimerKeptUp
    <2>2. SongBar = lastSongBar
      BY <2>1 DEF Schedule, Turned
    <2>3. QED
      BY <2>1, <2>2 DEF Schedule, Turned
  <1>10. QED
    BY <1>2, <1>3, <1>8, <1>9

LEMMA FireSchedule ==
  ASSUME Types, Types', SongInv, Alive, Schedule, Alone, song' = song, FireStep
  PROVE  Schedule'
  <1>1. /\ currentStep' = nextStep /\ ticks' = (IF OnBarLine THEN 0 ELSE ticks)
        /\ unseen' = (IF unseen = "play" /\ ~resetRequested THEN "none" ELSE unseen)
        /\ IF OnBarLine /\ queued # NoPattern THEN PC!BarLine ELSE UNCHANGED channel
        /\ UNCHANGED <<playing, songVars, mpc, call, currentSlot, pendingActive, pendingSlot,
                       switchCountAtQueue>>
    BY DEF FireStep, message, transport, slots, pending
  <1>2. /\ nextStep \in Nat /\ switchCount \in Nat /\ switchCountAtQueue \in Nat
        /\ switchCountAtQueue <= switchCount
    BY Constants DEF Types, Steps, PC!ChannelTypeOK, Alive
  <1>3. SongRuns' = SongRuns /\ Bound' = Bound /\ \A b : SlotDue(b)' = SlotDue(b)
    BY <1>1 DEF SongRuns, Bound, SlotDue, songVars
  <1>4. Ready'
    BY <1>1, <1>2 DEF Schedule, Ready
  <1>5. Opening'
    BY <1>1, <1>3 DEF Schedule, Opening, songVars
  <1>6. Ticked'
    <2>1. ticks' \in 0 .. 2 /\ (unseen' = "play" => ticks' = 0)
      BY <1>1 DEF Schedule, Ticked
    <2>2. CASE unseen = "play"
      <3>1. ticks = 0 /\ ticks' = 0
        BY <1>1, <2>2 DEF Schedule, Ticked
      <3>2. QED
        BY <2>1, <3>1 DEF Ticked
    <2>3. CASE unseen # "play"
      <3>1. unseen' = unseen /\ (ticks' = ticks \/ ticks' = 0)
        BY <1>1, <2>3
      <3>2. QED
        BY <1>1, <1>3, <2>1, <2>3, <3>1 DEF Schedule, Ticked, Rolls, songVars
    <2>4. QED
      BY <2>2, <2>3
  <1>7. Turned'
    <2>1. SUFFICES ASSUME Rolls', songStartStep' >= 0 PROVE Turned'
      BY DEF Turned
    <2>2. Rolls /\ songStartStep >= 0
      BY <1>1, <1>3, <2>1 DEF Rolls, SongInv, Newly, songVars
    <2>3. /\ SongBar' = IF OnBarLine THEN SongBar + 1 ELSE SongBar
          /\ OnBarLine => /\ SongBar = lastSongBar /\ mpc = "idle" /\ request = PC!NoRequest
      BY <2>2, FireTurns
    <2>4. CASE OnBarLine
      <3>1. SongBar \in Int /\ SongBar >= -1
        <4>1. currentStep \in Int /\ songStartStep \in Int /\ BarSteps \in Nat /\ BarSteps > 0
          BY Constants DEF Types, Steps
        <4>2. SongBar \in Int
          BY <4>1 DEF SongBar
        <4>3. QED
          BY <2>2, <4>2 DEF Schedule, Turned
      <3>2. SongBar' = SongBar + 1 /\ lastSongBar' = SongBar /\ mpc' = "idle" /\ ticks' = 0
        BY <1>1, <2>3, <2>4 DEF songVars
      <3>3. pendingActive => switchCount' # switchCountAtQueue
        <4>1. CASE queued # NoPattern
          BY <1>1, <1>2, <2>4, <4>1 DEF PC!BarLine
        <4>2. CASE queued = NoPattern
          <5>1. switchCount' = switchCount
            BY <1>1, <4>2 DEF channel
          <5>2. request.mode = "none"
            BY <2>3, <2>4 DEF PC!NoRequest
          <5>3. QED
            BY <2>3, <2>4, <4>2, <5>1, <5>2 DEF Alive
        <4>3. QED
          BY <4>1, <4>2
      <3>4. QED
        BY <1>1, <3>1, <3>2, <3>3 DEF Turned
    <2>5. CASE ~OnBarLine
      <3>1. SongBar' = SongBar /\ UNCHANGED <<ticks, switchCount>>
        BY <1>1, <2>3, <2>5 DEF channel
      <3>2. QED
        BY <1>1, <1>3, <2>2, <3>1 DEF Schedule, Turned, Due, songVars
    <2>6. QED
      BY <2>4, <2>5
  <1>8. QED
    BY <1>4, <1>5, <1>6, <1>7 DEF Schedule

(* The inductive invariant of a song that plays in time. *)
TimeInv == Types /\ Match /\ SongInv /\ Alive /\ Tagged /\ Schedule

LEMMA NextTimeInv == TimeInv /\ Alone /\ [Next]_<<vars, song>> => TimeInv'
  <1> SUFFICES ASSUME TimeInv, Alone, [Next]_<<vars, song>> PROVE TimeInv'
    OBVIOUS
  <1> USE DEF TimeInv
  <1>1. Types' /\ Match' /\ Alive' /\ Tagged' /\ song' = song
    BY NextTypes, NextMatch, NextAlive, NextTagged DEF Next
  <1>2. SongInv'
    BY <1>1, NextSong DEF Alone
  <1>3. Schedule'
    <2>1. CASE Play \/ Stop \/ ToggleSong \/ Load
      BY <1>1, <2>1, UserSchedule
    <2>2. CASE QueueStep \/ EvolveIdles
      BY <1>1, <2>2, QueueSchedule
    <2>3. CASE CommitTick
      BY <1>1, <2>3, CommitSchedule
    <2>4. CASE UpdateSongPlayback
      BY <1>1, <1>2, <2>4, SongSchedule
    <2>5. CASE FireStep
      BY <1>1, <2>5, FireSchedule
    <2>6. CASE BeginBlock \/ EndBlock \/ UNCHANGED <<vars, song>>
      <3>1. /\ UNCHANGED <<playing, currentStep, songVars, mpc, call, ticks, unseen, song>>
            /\ UNCHANGED <<currentSlot, pendingActive, pendingSlot, switchCountAtQueue>>
        BY <1>1, <2>6 DEF BeginBlock, EndBlock, vars, audio, transport, message, slots, pending,
                          history
      <3>2. switchCount' = switchCount \/ switchCount' = switchCount + 1
        BY <2>6 DEF BeginBlock, EndBlock, vars, channel, PC!Apply
      <3>3. QED
        BY <3>1, <3>2, StaySchedule
    <2>7. QED
      BY <2>1, <2>2, <2>3, <2>4, <2>5, <2>6, AloneNext DEF Tagged
  <1>4. QED
    BY <1>1, <1>2, <1>3

(* MainComponent.cpp:1531: whatever the chain, every bar of a song begins    *)
(* with the slot the chain has for it, for a timer that ticks twice a bar    *)
(* and a user who starts, stops and loads but takes the channel for nothing  *)
(* else.                                                                    *)
THEOREM SpecSongInTime == Alone => (Spec => SongInTime)
  <1> DEFINE Begins ==
               LET bar  == (nextStep - songStartStep) \div BarSteps
                   slot == Song!SlotAtBar(song.chain, song.loop, bar)
               IN  (/\ apc = "steps" /\ currentStep' = nextStep /\ nextStep' # nextStep
                    /\ OnBarLine /\ songMode /\ playing
                    /\ 0 <= songStartStep /\ songStartStep <= nextStep /\ slot \in Slots)
                      => active'.slot = slot
  <1>1. TimeInv /\ Alone /\ [Next]_<<vars, song>> => [Begins]_vars
    <2> DEFINE bar  == (nextStep - songStartStep) \div BarSteps
               slot == SlotDue(bar)
    <2> SUFFICES ASSUME TimeInv, Alone, [Next]_<<vars, song>>,
                        apc = "steps", currentStep' = nextStep, nextStep' # nextStep,
                        OnBarLine, songMode, playing,
                        0 <= songStartStep, songStartStep <= nextStep, slot \in Slots
                 PROVE  active'.slot = slot
      BY DEF SlotDue
    <2> USE DEF TimeInv
    <2> HIDE DEF slot, bar
    <2>1. song' = song
      BY DEF Next
    <2>2. FireStep
      BY AloneNext DEF Tagged, Play, Stop, ToggleSong, Load, QueueStep, CommitTick,
                       UpdateSongPlayback, EvolveIdles, BeginBlock, EndBlock, vars, audio
    <2>3. songStartStep \in Int /\ nextStep \in Int
      BY Constants DEF Types, Steps
    <2>4. Rolls /\ songStartStep >= 0
      <3>1. song.chain # <<>>
        <4>1. SlotDue(bar) # Song!NoSlot
          BY DEF slot, Slots, Song!NoSlot
        <4>2. Song!StepAtBar(song.chain, song.loop, bar) # Song!NoStep
          BY <4>1 DEF SlotDue, Song!SlotAtBar
        <4>3. QED
          BY <4>2 DEF Song!StepAtBar
      <3>2. QED
        BY <2>3, <3>1 DEF Rolls, SongRuns, SongInv, Newly
    <2>5. /\ SongBar' = SongBar + 1 /\ mpc = "idle" /\ request = PC!NoRequest
          /\ Due(Bound, SongBar + 1)
      BY <2>1, <2>2, <2>4, FireTurns
    <2>6. SongBar' = bar
      BY <2>2 DEF SongBar, bar, FireStep, message, songVars
    <2>7. Bound = slot
      <3>1. slot # Song!NoSlot
        BY DEF Slots, Song!NoSlot
      <3>2. QED
        BY <2>5, <2>6, <3>1 DEF Due, slot
    <2>8. active' = Shown
      <3>1. Destined = IF queued # NoPattern THEN queued ELSE active
        BY <2>5 DEF Destined, PC!NoRequest
      <3>2. active' = IF queued # NoPattern THEN queued ELSE active
        BY <2>2 DEF FireStep, PC!BarLine, channel
      <3>3. QED
        BY <3>1, <3>2 DEF Match
    <2>9. QED
      BY <2>5, <2>7, <2>8 DEF Shown, Bound, Tagged
  <1>2. Init => TimeInv
    BY InitIInv, InitSong, InitSchedule DEF IInv, TimeInv
  <1>3. CASE Alone
    <2>1. TimeInv /\ [Next]_<<vars, song>> => TimeInv' /\ [Begins]_vars
      BY <1>1, <1>3, NextTimeInv
    <2> HIDE DEF Begins
    <2>2. Spec => [][Begins]_vars
      BY <1>2, <2>1, PTL DEF Spec
    <2>3. QED
      BY <2>2 DEF SongInTime, Begins
  <1>4. QED
    BY <1>3
=============================================================================
