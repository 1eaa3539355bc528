----------------------------- MODULE SlotSwitch -----------------------------
(***************************************************************************)
(* ui/MainComponent.cpp: the message thread's side of the pattern slots.    *)
(* Clicks, EVOLVE and the song chain all hand patterns to one channel of   *)
(* the engine (module PatternChannel); the 30 Hz timer notices when a       *)
(* queued one has landed and brings the grid across.                       *)
(*                                                                         *)
(* The message thread is atomic except where it reads what the audio       *)
(* thread writes: a timer tick is three steps, and queueBarPattern reads    *)
(* the switch count one step before it queues.                             *)
(***************************************************************************)
EXTENDS Integers, Sequences

CONSTANTS
  NumSlots,     (* numPatternSlots                                           *)
  BarSteps,     (* barLengthSteps                                            *)
  MaxStep,      (* bound: the clock fires steps 0 .. MaxStep ...             *)
  Wrap,         (* ... or, TRUE, starts over after MaxStep: not with a song, *)
                (* and EVOLVE then misses a bar that comes exactly a round   *)
                (* after the last one it saw                                *)
  Ops,          (* the operations the user has in this run                   *)
  MaxOps,       (* bound: how many of them the user performs, each variation *)
                (* that EVOLVE makes counted as one                         *)
  Variations,   (* how many variations EVOLVE has of a pattern               *)
  Songs,        (* the songs of this run: [chain, loop]                      *)
  TwoTicks,     (* assume two timer ticks between a bar line, or something   *)
                (* the user does, and the next bar line                      *)
  SeenFirst,    (* assume Play's first step fires before a tick, and a tick   *)
                (* sees Stop before the user presses Play again              *)
  SongAlone     (* assume SONG is not switched on while a switch is queued   *)

AllOps == {"play", "stop", "select", "edit", "undo", "copy", "clear", "evolve", "song", "load",
           "prepare"}

ASSUME SlotSwitchAssumption ==
  /\ NumSlots \in Nat \ {0} /\ BarSteps \in Nat \ {0}
  /\ Variations \in Nat /\ MaxStep \in Nat /\ (MaxStep + 1) % BarSteps = 0
  /\ {Wrap, TwoTicks, SeenFirst, SongAlone} \subseteq BOOLEAN
  /\ Ops \subseteq AllOps /\ MaxOps \in Nat
  /\ \A s \in Songs : s.chain \in Seq([slot : Int, bars : Int]) /\ s.loop \in BOOLEAN
  /\ Wrap => "song" \notin Ops

VARIABLES
  request, active, queued, switchCount,     (* the engine's channel         *)
  playing, resetRequested,                  (* its transport atomics        *)
  nowPlaying, apc, nextStep, currentStep,   (* the audio thread's block     *)
  bank, currentSlot, editPattern,           (* the slots and the grid       *)
  pendingActive, pendingSlot, pendingPattern, switchCountAtQueue,
  evolving, evolveAnchor, lastEvolveBar,
  song, songMode, songStartStep, lastSongBar,
  undo,         (* UndoManager: its latest step, one deep                   *)
  mpc, call,    (* where the message thread is, and its queueBarPattern call *)
  ops,          (* user operations left                                     *)
  wrote,        (* history: what the user last put into each slot           *)
  raced,        (* history: slots rewritten in the bank while queued        *)
  rev,          (* history: the latest revision written                     *)
  ticks,        (* history: ticks since the last bar line or operation      *)
  unseen        (* history: "play" or "stop" pressed, and not seen yet      *)

channel   == <<request, active, queued, switchCount>>
audio     == <<nowPlaying, apc, nextStep, currentStep>>
transport == <<playing, resetRequested>>
slots     == <<bank, currentSlot, editPattern>>
pending   == <<pendingActive, pendingSlot, pendingPattern, switchCountAtQueue>>
evolve    == <<evolving, evolveAnchor, lastEvolveBar>>
songVars  == <<songMode, songStartStep, lastSongBar>>
history   == <<wrote, raced, rev, ticks, unseen>>
vars      == <<channel, audio, transport, slots, pending, evolve, songVars, undo, mpc, call,
               ops, history>>

Slots == 0 .. NumSlots - 1

(* A pattern is the slot and revision it was written as, and the variation  *)
(* EVOLVE made of that; revision 0 is a pattern without a lit step.          *)
MaxRev    == 2 + MaxOps
Patterns  == [slot : Slots, rev : 0 .. MaxRev, vary : 0 .. Variations]
NoPattern == [slot |-> -1, rev |-> 0, vary |-> 0]
NoUndo    == [before |-> NoPattern, home |-> -1]

Written(s, r)  == [slot |-> s, rev |-> r, vary |-> 0]
Base(p)        == [p EXCEPT !.vary = 0]
IsEmpty(p)     == p.rev = 0
Cleared(p)     == [p EXCEPT !.rev = 0, !.vary = 0]

PC   == INSTANCE PatternChannel
Song == INSTANCE Song

AtMostTwo(n) == IF n > 2 THEN 2 ELSE n
ValidSlot(s) == s \in Slots

Init ==
  /\ PC!ChannelInit(Written(0, 1))
  /\ playing = FALSE /\ resetRequested = FALSE
  /\ nowPlaying = FALSE /\ apc = "idle" /\ nextStep = 0 /\ currentStep = -1
  /\ bank = [s \in Slots |-> Written(s, 1)]
  /\ currentSlot = 0 /\ editPattern = Written(0, 1)
  /\ pendingActive = FALSE /\ pendingSlot = -1 /\ pendingPattern = NoPattern
  /\ switchCountAtQueue = 0
  /\ evolving = FALSE /\ evolveAnchor = Written(0, 1) /\ lastEvolveBar = -1
  /\ song \in Songs /\ songMode = FALSE /\ songStartStep = -1 /\ lastSongBar = -1
  /\ undo = NoUndo
  /\ mpc = "idle" /\ call = [slot |-> -1, pattern |-> NoPattern, then |-> "idle"]
  /\ ops = MaxOps
  /\ wrote = bank /\ raced = {} /\ rev = 1
  /\ ticks = 0 /\ unseen = "none"

-----------------------------------------------------------------------------
(* The slot protocol. *)

(* Mutant: the grid stays behind. *)
CommitPatternKeepsGrid(slot, p) ==
  /\ currentSlot'   = slot
  /\ editPattern'   = editPattern
  /\ undo'          = IF slot # currentSlot THEN NoUndo ELSE undo
  /\ evolveAnchor'  = IF slot # currentSlot THEN bank[slot] ELSE evolveAnchor
  /\ pendingActive' = FALSE
  /\ pendingSlot'   = -1

(* Mutant: undo survives the switch. *)
CommitPatternKeepsUndo(slot, p) ==
  /\ currentSlot'   = slot
  /\ editPattern'   = p
  /\ undo'          = undo
  /\ evolveAnchor'  = IF slot # currentSlot THEN bank[slot] ELSE evolveAnchor
  /\ pendingActive' = FALSE
  /\ pendingSlot'   = -1

CommitPattern(slot, p) ==
  /\ currentSlot'   = slot
  /\ editPattern'   = p
  /\ undo'          = IF slot # currentSlot THEN NoUndo ELSE undo
  /\ evolveAnchor'  = IF slot # currentSlot THEN bank[slot] ELSE evolveAnchor
  /\ pendingActive' = FALSE
  /\ pendingSlot'   = -1

(* Stopped, the pattern goes over at once. Playing, the switch count is read *)
(* here and the pattern queued in the step after it.                        *)
QueueBarPattern(slot, p, then) ==
  \/ /\ ~playing
     /\ PC!SetPattern(p)
     /\ CommitPattern(slot, p)
     /\ mpc' = then
     /\ UNCHANGED <<pendingPattern, switchCountAtQueue, call>>
  \/ /\ playing
     /\ switchCountAtQueue' = switchCount
     /\ call' = [slot |-> slot, pattern |-> p, then |-> then]
     /\ mpc'  = "queue"
     /\ UNCHANGED <<channel, currentSlot, editPattern, undo, evolveAnchor, pendingActive,
                    pendingSlot, pendingPattern>>

(* The rest of queueBarPattern. *)
QueueStep ==
  /\ mpc = "queue"
  /\ PC!QueuePattern(call.pattern)
  /\ pendingActive'  = TRUE
  /\ pendingSlot'    = call.slot
  /\ pendingPattern' = call.pattern
  /\ mpc'            = call.then
  /\ call'           = [slot |-> -1, pattern |-> NoPattern, then |-> "idle"]
  /\ UNCHANGED <<audio, transport, slots, switchCountAtQueue, evolve, songVars, undo, ops,
                 history>>

(* Mutant: what is on screen is not parked. *)
SelectSlotUnparked(slot, then) ==
  /\ bank' = bank
  /\ QueueBarPattern(slot, bank[slot], then)

(* What is on screen is parked before leaving; while evolving, its anchor.  *)
SelectSlot(slot, then) ==
  /\ bank' = [bank EXCEPT ![currentSlot] = IF evolving THEN evolveAnchor ELSE editPattern]
  /\ QueueBarPattern(slot, bank[slot], then)

StaysPut == UNCHANGED <<channel, slots, pending, evolveAnchor, undo, call>>

(* selectSlot returns at once for the slot that is up. *)
SelectIf(cond, slot, then) ==
  IF cond /\ ValidSlot(slot) /\ slot # currentSlot
  THEN SelectSlot(slot, then)
  ELSE mpc' = then /\ StaysPut

(* Mutant: the queued switch is left for the timer to wait for. *)
PushEditPatternUncancelled(p) ==
  /\ PC!SetPattern(p)
  /\ UNCHANGED <<pendingActive, pendingSlot>>
  /\ editPattern'  = p
  /\ evolveAnchor' = IF evolving THEN p ELSE evolveAnchor

(* pushEditPattern: drop the queued switch, hand the edit over at once.     *)
PushEditPattern(p) ==
  /\ PC!SetPattern(p)
  /\ pendingActive' = FALSE
  /\ pendingSlot'   = -1
  /\ editPattern'   = p
  /\ evolveAnchor'  = IF evolving THEN p ELSE evolveAnchor

-----------------------------------------------------------------------------
(* What the user does. *)

User(op) ==
  /\ op \in Ops /\ mpc = "idle" /\ ops > 0
  /\ ops'   = ops - 1
  /\ ticks' = 0

(* TransportBar::togglePlay. *)
Play ==
  /\ User("play")
  /\ ~playing
  /\ SeenFirst => unseen # "stop"
  /\ playing'        = TRUE
  /\ resetRequested' = TRUE
  /\ unseen'         = IF SeenFirst THEN "play" ELSE "none"
  /\ UNCHANGED <<channel, audio, slots, pending, evolve, songVars, undo, mpc, call, wrote,
                 raced, rev>>

Stop ==
  /\ User("stop")
  /\ playing
  /\ playing' = FALSE
  /\ unseen'  = IF SeenFirst THEN "stop" ELSE "none"
  /\ UNCHANGED <<channel, audio, resetRequested, slots, pending, evolve, songVars, undo, mpc,
                 call, wrote, raced, rev>>

(* patternSlots.onSelect *)
Select ==
  /\ User("select")
  /\ \E s \in Slots \ {currentSlot} : SelectSlot(s, "idle")
  /\ UNCHANGED <<audio, transport, evolving, lastEvolveBar, songVars, wrote, raced, rev,
                 unseen>>

(* An undoable edit of the whole pattern (Make a Beat, Vary, a capture),    *)
(* through SetPatternAction and its refresh().                              *)
Edit ==
  /\ User("edit")
  /\ PushEditPattern(Written(currentSlot, rev + 1))
  /\ undo'  = [before |-> editPattern, home |-> currentSlot]
  /\ rev'   = rev + 1
  /\ wrote' = [wrote EXCEPT ![currentSlot] = Base(editPattern')]
  /\ raced' = raced \ {currentSlot}
  /\ UNCHANGED <<audio, transport, bank, currentSlot, pendingPattern, switchCountAtQueue,
                 evolving, lastEvolveBar, songVars, mpc, call, unseen>>

Undo ==
  /\ User("undo")
  /\ undo # NoUndo
  /\ PushEditPattern(undo.before)
  /\ undo'  = NoUndo
  /\ wrote' = [wrote EXCEPT ![currentSlot] = Base(undo.before)]
  /\ raced' = raced \ {currentSlot}
  /\ UNCHANGED <<audio, transport, bank, currentSlot, pendingPattern, switchCountAtQueue,
                 evolving, lastEvolveBar, songVars, mpc, call, rev, unseen>>

(* A slot of the bank is rewritten while it may be on its way to the grid. *)
Rewrite(s, p) ==
  /\ bank'  = [bank EXCEPT ![s] = p]
  /\ wrote' = [wrote EXCEPT ![s] = Base(p)]
  /\ raced' = IF pendingActive /\ pendingSlot = s THEN raced \cup {s} ELSE raced \ {s}

(* patternSlots.onCopyTo *)
CopyTo ==
  /\ User("copy")
  /\ \E s \in Slots \ {currentSlot} : Rewrite(s, editPattern)
  /\ UNCHANGED <<channel, audio, transport, currentSlot, editPattern, pending, evolve, songVars,
                 undo, mpc, call, rev, unseen>>

(* patternSlots.onClear: the slot that is up also reaches the engine.       *)
ClearSlot ==
  /\ User("clear")
  /\ \E s \in Slots :
       \/ /\ s # currentSlot
          /\ Rewrite(s, Cleared(bank[s]))
          /\ UNCHANGED <<channel, editPattern, pendingActive, pendingSlot, evolveAnchor, undo>>
       \/ /\ s = currentSlot
          /\ bank'  = [bank EXCEPT ![s] = Cleared(bank[s])]
          /\ wrote' = [wrote EXCEPT ![s] = Cleared(bank[s])]
          /\ raced' = raced \ {s}
          /\ undo'  = NoUndo
          /\ PushEditPattern(Cleared(bank[s]))
  /\ UNCHANGED <<audio, transport, currentSlot, pendingPattern, switchCountAtQueue, evolving,
                 lastEvolveBar, songVars, mpc, call, rev, unseen>>

(* setEvolving *)
ToggleEvolve ==
  /\ User("evolve")
  /\ evolving'      = ~evolving
  /\ lastEvolveBar' = -1
  /\ evolveAnchor'  = IF evolving THEN evolveAnchor ELSE editPattern
  /\ UNCHANGED <<channel, audio, transport, slots, pending, songVars, undo, mpc, call, wrote,
                 raced, rev, unseen>>

(* songBar.onSongModeChanged *)
ToggleSong ==
  /\ User("song")
  /\ SongAlone /\ ~songMode => ~pendingActive
  /\ songMode'      = ~songMode
  /\ songStartStep' = -1
  /\ lastSongBar'   = -1
  /\ SelectIf(~songMode /\ song.chain # <<>>, Song!SlotAtBar(song.chain, song.loop, 0), "idle")
  /\ UNCHANGED <<audio, transport, evolving, lastEvolveBar, wrote, raced, rev, unseen>>

(* applyProject: a file whose slots are all new. The undo step the code     *)
(* leaves behind belongs to no slot of this project any more.               *)
Load ==
  /\ User("load")
  /\ bank' = [s \in Slots |-> Written(s, rev + 1)]
  /\ currentSlot' \in Slots
  /\ PC!SetPattern(bank'[currentSlot'])
  /\ editPattern'   = bank'[currentSlot']
  /\ evolveAnchor'  = bank'[currentSlot']
  /\ pendingActive' = FALSE
  /\ pendingSlot'   = -1
  /\ evolving'      = FALSE
  /\ lastEvolveBar' = -1
  /\ songMode' \in {FALSE, song.chain # <<>>}
  /\ songStartStep' = -1
  /\ lastSongBar'   = -1
  /\ undo'  = [undo EXCEPT !.home = -1]
  /\ wrote' = bank'
  /\ raced' = {}
  /\ rev'   = rev + 1
  /\ UNCHANGED <<audio, transport, pendingPattern, switchCountAtQueue, mpc, call, unseen>>

(* Mutant: the bank is saved as it stands. *)
CaptureProjectStale == bank

(* captureProject: the slots a saved or recovered project will have.        *)
CaptureProject == [bank EXCEPT ![currentSlot] = editPattern]

(* Sequencer::prepare: another audio device, between two blocks. *)
Prepare ==
  /\ User("prepare")
  /\ apc = "idle"
  /\ nextStep'    = 0
  /\ currentStep' = -1
  /\ UNCHANGED <<channel, transport, nowPlaying, apc, slots, pending, evolve, songVars, undo,
                 mpc, call, wrote, raced, rev, unseen>>

UserNext == Play \/ Stop \/ Select \/ Edit \/ Undo \/ CopyTo \/ ClearSlot \/ ToggleEvolve
              \/ ToggleSong \/ Load \/ Prepare

-----------------------------------------------------------------------------
(* timerCallback, in the order it works: commit, song, evolve. *)

CommitTick ==
  /\ mpc = "idle"
  /\ SeenFirst => unseen # "play"
  /\ mpc'    = "song"
  /\ ticks'  = IF TwoTicks THEN AtMostTwo(ticks + 1) ELSE ticks
  /\ unseen' = IF unseen = "stop" THEN "none" ELSE unseen
  /\ \/ /\ pendingActive /\ ~playing
        /\ PC!SetPattern(pendingPattern)
        /\ CommitPattern(pendingSlot, pendingPattern)
     \/ /\ pendingActive /\ playing /\ switchCount # switchCountAtQueue
        /\ CommitPattern(pendingSlot, pendingPattern)
        /\ UNCHANGED channel
     \/ /\ ~pendingActive \/ (playing /\ switchCount = switchCountAtQueue)
        /\ UNCHANGED <<channel, currentSlot, editPattern, undo, evolveAnchor, pendingActive,
                       pendingSlot>>
  /\ UNCHANGED <<audio, transport, bank, pendingPattern, switchCountAtQueue, evolving,
                 lastEvolveBar, songVars, call, ops, wrote, raced, rev>>

BarOf(step) == step \div BarSteps

SongRuns == songMode /\ song.chain # <<>> /\ playing
SongBar  == (currentStep - songStartStep) \div BarSteps

SongOff ==
  /\ ~SongRuns
  /\ songStartStep' = -1 /\ lastSongBar' = -1
  /\ mpc' = "evolve"
  /\ UNCHANGED playing /\ StaysPut

(* Bar 0 is the bar we are in if the chain's first slot is up, and the next *)
(* one if it is not.                                                        *)
SongAnchors ==
  /\ SongRuns /\ currentStep >= 0 /\ songStartStep < 0
  /\ LET first        == Song!SlotAtBar(song.chain, song.loop, 0)
         alreadyThere == first < 0 \/ first = currentSlot
         barStart     == BarSteps * BarOf(currentStep)
     IN  /\ songStartStep' = IF alreadyThere THEN barStart ELSE barStart + BarSteps
         /\ SelectIf(~alreadyThere /\ ~pendingActive, first, "evolve")
  /\ lastSongBar' = -1
  /\ UNCHANGED playing

SongWaits ==
  /\ SongRuns
  /\ \/ currentStep < 0
     \/ songStartStep >= 0 /\ (currentStep < songStartStep \/ SongBar = lastSongBar)
  /\ mpc' = "evolve"
  /\ UNCHANGED <<playing, songStartStep, lastSongBar>> /\ StaysPut

SongTurns == SongRuns /\ songStartStep >= 0 /\ currentStep >= songStartStep
               /\ SongBar # lastSongBar

(* Mutant: the transport is left running. *)
SongEndsRolling ==
  /\ SongTurns /\ Song!StepAtBar(song.chain, song.loop, SongBar) = Song!NoStep
  /\ lastSongBar' = SongBar
  /\ mpc' = "evolve"
  /\ UNCHANGED <<playing, songStartStep>>
  /\ StaysPut

(* A one-shot chain has played its last bar: transportBar.stop(). *)
SongEnds ==
  /\ SongTurns /\ Song!StepAtBar(song.chain, song.loop, SongBar) = Song!NoStep
  /\ playing' = FALSE
  /\ songStartStep' = -1 /\ lastSongBar' = -1
  /\ mpc' = "evolve"
  /\ StaysPut

(* Mutant: the slot of the bar we are in is queued, not the coming one's. *)
SongAdvancesLate ==
  /\ SongTurns /\ Song!StepAtBar(song.chain, song.loop, SongBar) # Song!NoStep
  /\ lastSongBar' = SongBar
  /\ SelectIf(~pendingActive, Song!SlotAtBar(song.chain, song.loop, SongBar), "evolve")
  /\ UNCHANGED <<playing, songStartStep>>

(* The coming bar's slot is queued in this one. *)
SongAdvances ==
  /\ SongTurns /\ Song!StepAtBar(song.chain, song.loop, SongBar) # Song!NoStep
  /\ lastSongBar' = SongBar
  /\ SelectIf(~pendingActive, Song!SlotAtBar(song.chain, song.loop, SongBar + 1), "evolve")
  /\ UNCHANGED <<playing, songStartStep>>

UpdateSongPlayback ==
  /\ mpc = "song"
  /\ SongOff \/ SongAnchors \/ SongWaits \/ SongEnds \/ SongAdvances
  /\ UNCHANGED <<audio, resetRequested, evolving, lastEvolveBar, songMode, ops, history>>

EvolveOff ==
  /\ ~evolving \/ ~playing
  /\ lastEvolveBar' = -1
  /\ mpc' = "idle" /\ StaysPut

(* Not before the first block, not while the bar's queue is taken, and once *)
(* per bar.                                                                 *)
EvolveWaits ==
  /\ evolving /\ playing
  /\ \/ pendingActive \/ currentStep < 0 \/ BarOf(currentStep) = lastEvolveBar
     \/ ops = 0
  /\ mpc' = "idle" /\ UNCHANGED lastEvolveBar /\ StaysPut

(* Another variation of the anchor, for the slot that is up. *)
EvolveBar ==
  /\ evolving /\ playing /\ ~pendingActive /\ currentStep >= 0
  /\ BarOf(currentStep) # lastEvolveBar
  /\ ops > 0
  /\ lastEvolveBar' = BarOf(currentStep)
  /\ \/ IsEmpty(evolveAnchor) /\ mpc' = "idle" /\ StaysPut /\ UNCHANGED ops
     \/ /\ ~IsEmpty(evolveAnchor)
        /\ ops' = ops - 1
        /\ \E v \in 1 .. Variations :
             QueueBarPattern(currentSlot, [evolveAnchor EXCEPT !.vary = v], "idle")
        /\ UNCHANGED bank

UpdateEvolve ==
  /\ mpc = "evolve"
  /\ \/ EvolveOff /\ UNCHANGED ops
     \/ EvolveWaits /\ UNCHANGED ops
     \/ EvolveBar
  /\ UNCHANGED <<audio, transport, evolving, songVars, history>>

TimerNext == CommitTick \/ UpdateSongPlayback \/ UpdateEvolve

-----------------------------------------------------------------------------
(* The audio thread: module Sequencer's block, in fewer steps. *)

message == <<slots, pending, evolve, songVars, undo, mpc, call, ops, wrote, raced, rev>>

BeginBlock ==
  /\ apc = "idle"
  /\ resetRequested' = FALSE
  /\ nextStep'       = IF resetRequested THEN 0 ELSE nextStep
  /\ nowPlaying'     = playing
  /\ PC!Apply(playing)
  /\ apc'            = IF playing THEN "steps" ELSE "idle"
  /\ UNCHANGED <<playing, currentStep, message, ticks, unseen>>

OnBarLine == nextStep % BarSteps = 0

(* The assumption of TwoTicks: what the ticks of this bar asked for has     *)
(* reached the engine when the next one begins.                             *)
TimerKeptUp == nextStep = 0 \/ (ticks = 2 /\ mpc = "idle" /\ request = PC!NoRequest)

FireStep ==
  /\ apc = "steps"
  /\ nextStep <= MaxStep
  /\ TwoTicks /\ OnBarLine => TimerKeptUp
  /\ nextStep'    = IF Wrap /\ nextStep = MaxStep THEN 0 ELSE nextStep + 1
  /\ currentStep' = nextStep
  /\ IF OnBarLine /\ queued # NoPattern THEN PC!BarLine ELSE UNCHANGED channel
  /\ ticks'  = IF OnBarLine THEN 0 ELSE ticks
  /\ unseen' = IF unseen = "play" /\ ~resetRequested THEN "none" ELSE unseen
  /\ UNCHANGED <<transport, nowPlaying, apc, message>>

EndBlock ==
  /\ apc = "steps"
  /\ apc' = "idle"
  /\ UNCHANGED <<channel, transport, nowPlaying, nextStep, currentStep, message, ticks, unseen>>

AudioNext == BeginBlock \/ FireStep \/ EndBlock

Next ==
  /\ UserNext \/ QueueStep \/ TimerNext \/ AudioNext
  /\ UNCHANGED song

(* The song is not edited while it plays. *)
Spec == Init /\ [][Next]_<<vars, song>>

(* The audio device calls back and the timer ticks for as long as the app   *)
(* runs, and a playing clock fires the steps that come due, which is in     *)
(* some blocks and not in every one. Nothing is assumed of the user.        *)
Fairness ==
  /\ WF_vars(QueueStep) /\ WF_vars(CommitTick) /\ WF_vars(UpdateSongPlayback)
  /\ WF_vars(UpdateEvolve)
  /\ WF_vars(BeginBlock) /\ WF_vars(EndBlock) /\ SF_vars(FireStep)

FairSpec == Spec /\ Fairness

-----------------------------------------------------------------------------
TypeOK ==
  /\ PC!ChannelTypeOK
  /\ {playing, resetRequested, nowPlaying, pendingActive, evolving, songMode} \subseteq BOOLEAN
  /\ apc \in {"idle", "steps"} /\ mpc \in {"idle", "queue", "song", "evolve"}
  /\ nextStep \in 0 .. MaxStep + 1 /\ currentStep \in -1 .. MaxStep
  /\ bank \in [Slots -> Patterns] /\ currentSlot \in Slots /\ editPattern \in Patterns
  /\ pendingSlot \in Slots \cup {-1} /\ pendingPattern \in Patterns \cup {NoPattern}
  /\ evolveAnchor \in Patterns
  /\ songStartStep \in -1 .. MaxStep + BarSteps
  /\ undo.before \in Patterns \cup {NoPattern}

(* The grid shows what plays: with no switch under way on either side, the  *)
(* pattern on screen is the pattern the engine plays.                       *)
ScreenMatchesEngine ==
  (/\ mpc = "idle" /\ ~pendingActive
   /\ request = PC!NoRequest /\ queued = NoPattern) => active = editPattern

(* What a slot holds: the current slot's truth lives in editPattern, and    *)
(* while evolving in the anchor, not in the bank's stale copy.              *)
Truth(s) ==
  IF s # currentSlot THEN bank[s] ELSE IF evolving THEN evolveAnchor ELSE editPattern

(* MainComponent.cpp:1122: "Park the working copy before leaving, or an edit *)
(* made since the last switch is lost." Every slot holds what the user last *)
(* put there, up to a variation, whatever was queued, cancelled, evolved,    *)
(* undone or loaded since - except a slot that was rewritten in the bank     *)
(* while it was queued.                                                     *)
NoLostWork == mpc = "idle" => \A s \in Slots \ raced : Base(Truth(s)) = wrote[s]

(* MainComponent.cpp:838: saving overwrites the current slot "on the way out *)
(* rather than in the bank itself". Whenever the project or its recovery    *)
(* file is written - while a switch is queued, a variation plays, or an edit *)
(* is newer than the bank - each slot of the file holds the user's work.    *)
SavedIsTheWork ==
  mpc = "idle" => \A s \in Slots \ raced : Base(CaptureProject[s]) = wrote[s]

(* Without the exception: "Copied to pattern B" (MainComponent.cpp:351).    *)
CopyIsKept == mpc = "idle" => \A s \in Slots : Base(Truth(s)) = wrote[s]

(* MainComponent.cpp:1176: "Undoing across a switch would stamp one slot's  *)
(* history onto another." An undo restores a pattern of the slot that is up *)
(* - except one left over from before a project was loaded (Load).          *)
UndoStaysHome == [][undo # NoUndo /\ undo' = NoUndo /\ ops' # ops /\ editPattern' = undo.before
                      => undo.home \in {currentSlot, -1}]_vars

(* Without that exception. *)
UndoIsOfThisProject ==
  [][undo # NoUndo /\ undo' = NoUndo /\ ops' # ops /\ editPattern' = undo.before
       => undo.home = currentSlot]_vars

(* Sequencer.h:94 tells a caller how to know that "my queued switch landed": *)
(* while the transport runs, the timer takes the grid to the queued pattern *)
(* only once the engine plays it.                                           *)
CommitWhenLanded ==
  [][(mpc = "idle" /\ mpc' = "song" /\ playing /\ pendingActive /\ ~pendingActive')
       => active = pendingPattern]_vars

(* MainComponent.cpp:1208: the timer must not "wait forever for a swap that *)
(* can no longer happen". Every queued switch ends, whatever cancels it or   *)
(* overtakes it on its way through the engine.                              *)
NoWedge == pendingActive ~> ~pendingActive

(* MainComponent.cpp:1531: "queuePattern lands on the coming bar line, which *)
(* is that bar's downbeat". Every bar of a song begins with the slot the    *)
(* chain has for it.                                                        *)
SongInTime ==
  [][LET bar  == (nextStep - songStartStep) \div BarSteps
         slot == Song!SlotAtBar(song.chain, song.loop, bar)
     IN  (/\ apc = "steps" /\ currentStep' = nextStep /\ nextStep' # nextStep
          /\ OnBarLine /\ songMode /\ playing
          /\ 0 <= songStartStep /\ songStartStep <= nextStep /\ slot \in Slots)
            => active'.slot = slot]_vars

(* MainComponent.cpp:1521: "A one-shot chain has played its last bar. Stop   *)
(* through the transport": nothing is played past the bar it stops in.      *)
SongEnding ==
  (SongRuns /\ songStartStep >= 0 /\ ~song.loop)
    => currentStep < songStartStep + BarSteps * (Song!TotalBars(song.chain) + 1)

(* MainComponent.h:221: songStartStep "may lie one bar in the FUTURE", and  *)
(* never further away - provided the timer sees every stop (SeenFirst).     *)
SongStartsAtOnce == songStartStep <= nextStep + BarSteps
=============================================================================
