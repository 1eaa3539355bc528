----------------------------- MODULE StepEvents -----------------------------
(***************************************************************************)
(* engine/Sequencer.{h,cpp}, the event path: what a running transport        *)
(* plays. process() takes the tempo and the reset, fires the clock's steps,  *)
(* turns each into events in a pending buffer, and plays the events that     *)
(* fall in the block through DrumEngine and VoicePool, splitting the block   *)
(* at each. The pattern hand-off is module Sequencer's subject: here one     *)
(* pattern plays, [lanes, rolls], each lane with its lit positions and each   *)
(* roll with its offsets. Fractions of a step are counted in 24ths (Part).   *)
(***************************************************************************)
EXTENDS StepClock, VoicePool, Capture, MidiExport, SequencesExt

CONSTANTS
  Patterns,     (* the pattern that plays is one of these                   *)
  Kits,         (* the pads' choke groups at the start are one of these     *)
  BarSteps,     (* barLengthSteps                                           *)
  MaxPending,   (* maxPendingEvents                                         *)
  Feels,        (* [swing, humanise]: the most each can delay, in Parts     *)
  MaxStep,      (* bound: a block plays only while nextStep <= MaxStep      *)
  MaxOps        (* bound: operations of the user                            *)

(* A pattern may come from a file: its steps' shifts and ratchets are any    *)
(* numbers. Its rolls are those RollCompiler writes: no hit before the start. *)
(* Its lanes are of any length, none included.                              *)
PatternOK(pat) ==
  /\ Len(pat.lanes) \in Nat /\ DOMAIN pat.lanes = 1 .. Len(pat.lanes)
  /\ \A li \in DOMAIN pat.lanes :
       LET lane == pat.lanes[li]
       IN  /\ lane.pad \in Pads /\ lane.triplet \in BOOLEAN /\ lane.length \in Int
           /\ \A pos \in DOMAIN lane.lit :
                lane.lit[pos].shift \in Int /\ lane.lit[pos].ratchets \in Int
  /\ Len(pat.rolls) \in Nat /\ DOMAIN pat.rolls = 1 .. Len(pat.rolls)
  /\ \A ri \in DOMAIN pat.rolls :
       pat.rolls[ri].pad \in Pads /\ pat.rolls[ri].offsets \in Seq(Nat)

ASSUME StepEventsAssumption ==
  /\ \A pat \in Patterns : PatternOK(pat)
  /\ Kits \subseteq [Pads -> Groups]
  /\ Feels \subseteq [swing : Nat, humanise : Nat]
  /\ MaxPending \in Nat /\ BarSteps \in Nat \ {0}

VARIABLES
  pattern,
  playing, tempoDirty, pendingTempo, resetRequested, feel, muted, soloed,  (* atomics *)
  commands,     (* the engine's command queue                               *)
  padGroup,     (* PadSlot::chokeGroup                                      *)
  phase,        (* where the audio thread is in process()                   *)
  nowPlaying, blockStart, numSamples, cursor,   (* its locals               *)
  transportSamples,                             (* atomic: telemetry        *)
  pending,      (* the pending buffer                                       *)
  ops,
  hits,         (* history: the events fired since the top, in order        *)
  lost,         (* history: the events that found the buffer full           *)
  retuned       (* history: the clock took a tempo since the top            *)

atomics == <<playing, tempoDirty, pendingTempo, resetRequested, feel, muted, soloed>>
local   == <<nowPlaying, blockStart, numSamples, cursor, transportSamples>>
history == <<hits, lost, retuned>>
vars    == <<clockVars, poolVars, pattern, atomics, commands, padGroup, phase, local, pending,
             ops, history>>

Part == 24

(* hashUnitFloat and Humaniser::eventHash: some fixed function of the lane  *)
(* and of its step.                                                         *)
Hash(p, li) == (37 * p + 11 * li + 5) % 100

Timing(p, li, amount) == Hash(p, li) % (amount + 1)

-----------------------------------------------------------------------------
(* generateStepEvents() *)

(* A length of t half samples by a / b, rounded to samples. *)
Scaled(t, a, b) == RoundDiv(t * a, 2 * b)

(* Mutant: a negative micro-shift plays early. *)
ForwardUnclamped(lane, li, p, s) ==
  s.shift
  + (IF ~lane.triplet /\ p % 2 = 1 THEN feel.swing ELSE 0)
  + Timing(p, li, feel.humanise)

(* How much later than its grid a lane step plays: micro-shift, swing on a  *)
(* straight lane's off-beats, humanise.                                     *)
Forward(lane, li, p, s) ==
  BetweenOf(s.shift, 0, Part \div 2)
  + (IF ~lane.triplet /\ p % 2 = 1 THEN feel.swing ELSE 0)
  + Timing(p, li, feel.humanise)

Gated(s, p, li) == s.probability < 100 /\ (s.probability <= 0 \/ Hash(p, li) >= s.probability)

(* The ratchets of lane step p, which begins in global step g at sample at. *)
StepHits(li, p, g, at) ==
  LET lane == pattern.lanes[li]
      rate == LaneStepRate(lane.triplet)
      pos  == p % LaneLength(lane)
      s    == lane.lit[pos]
      fw   == Forward(lane, li, p, s)
      base == at + Scaled(tempo, Part * LaneStepOffset(rate, p, g) + fw * rate.num,
                          Part * rate.den)
  IN  IF pos \notin DOMAIN lane.lit \/ Gated(s, p, li) THEN <<>>
      ELSE [j \in 1 .. RatchetCount(s) |->
              [sample |-> base + Scaled(tempo, (j - 1) * rate.num, rate.den * RatchetCount(s)),
               pad |-> lane.pad, of |-> <<"lane", li, p, j - 1>>, late |-> fw]]

(* A lane of no length is skipped. *)
LaneHits(li, g, at) ==
  LET lane == pattern.lanes[li]
      rate == LaneStepRate(lane.triplet)
  IN  IF lane.length < 1 THEN <<>>
      ELSE FlattenSeq([k \in 1 .. Cardinality(LaneStepsInGlobalStep(rate, g)) |->
                         StepHits(li, FirstLaneStep(rate, g) + k - 1, g, at)])

(* A compiled roll starts on the step its start names. *)
RollHits(ri, g, at) ==
  LET roll == pattern.rolls[ri]
  IN  IF g % BarSteps # roll.start THEN <<>>
      ELSE [k \in 1 .. Len(roll.offsets) |->
              [sample |-> at + Scaled(tempo, roll.offsets[k], Part),
               pad |-> roll.pad, of |-> <<"roll", ri, g, k>>, late |-> 0]]

GeneratedEvents(g, at) ==
  FlattenSeq([li \in DOMAIN pattern.lanes |-> LaneHits(li, g, at)])
    \o FlattenSeq([ri \in DOMAIN pattern.rolls |-> RollHits(ri, g, at)])

(* addEvent(): what does not fit is dropped. *)
Fits(seq) == SubSeq(seq, 1, BetweenOf(MaxPending - Len(pending), 0, Len(seq)))

-----------------------------------------------------------------------------
Init ==
  /\ ClockInit /\ PoolInit
  /\ pattern \in Patterns
  /\ playing = FALSE /\ tempoDirty = FALSE /\ pendingTempo = tempo /\ resetRequested = FALSE
  /\ feel \in Feels /\ muted = {} /\ soloed = {}
  /\ commands = <<>> /\ padGroup \in Kits
  /\ phase = "idle" /\ nowPlaying = FALSE
  /\ blockStart = 0 /\ numSamples = 0 /\ cursor = 0 /\ transportSamples = 0
  /\ pending = <<>>
  /\ ops = MaxOps
  /\ hits = <<>> /\ lost = {} /\ retuned = FALSE

-----------------------------------------------------------------------------
(* The message thread, between any two steps of the block. *)

User == ops > 0 /\ ops' = ops - 1

engineVars == <<clockVars, poolVars, pattern, padGroup, phase, local, pending, history>>

(* TransportBar::togglePlay: requestReset() and setPlaying (true). The gap   *)
(* between the two is module Sequencer's.                                   *)
Play ==
  /\ ~playing /\ User
  /\ resetRequested' = TRUE /\ playing' = TRUE
  /\ UNCHANGED <<engineVars, tempoDirty, pendingTempo, feel, muted, soloed, commands>>

Stop ==
  /\ playing
  /\ playing' = FALSE
  /\ UNCHANGED <<engineVars, tempoDirty, pendingTempo, resetRequested, feel, muted, soloed,
                 commands, ops>>

ChangeTempo ==
  /\ User
  /\ pendingTempo' \in Tempos
  /\ tempoDirty' = TRUE
  /\ UNCHANGED <<engineVars, playing, resetRequested, feel, muted, soloed, commands>>

(* setSwing(), setHumanise() *)
ChangeFeel ==
  /\ User
  /\ feel' \in Feels \ {feel}
  /\ UNCHANGED <<engineVars, playing, tempoDirty, pendingTempo, resetRequested, muted, soloed,
                 commands>>

(* setPadMuted(), setPadSoloed() *)
ChangeAudible ==
  /\ User
  /\ \E p \in Pads :
       \/ muted' = (muted \cup {p}) \ (muted \cap {p}) /\ UNCHANGED soloed
       \/ soloed' = (soloed \cup {p}) \ (soloed \cap {p}) /\ UNCHANGED muted
  /\ UNCHANGED <<engineVars, playing, tempoDirty, pendingTempo, resetRequested, feel, commands>>

(* A pad is auditioned, or set up with another choke group. *)
PushCommand ==
  /\ User
  /\ \E p \in Pads, g \in Groups :
       \/ commands' = Append(commands, [type |-> "triggerPad", pad |-> p])
       \/ /\ g # padGroup[p]
          /\ commands' = Append(commands, [type |-> "setPad", pad |-> p, group |-> g])
  /\ UNCHANGED <<engineVars, atomics>>

MessageNext == Play \/ Stop \/ ChangeTempo \/ ChangeFeel \/ ChangeAudible \/ PushCommand

-----------------------------------------------------------------------------
(* The audio thread: process(), one access of shared state at a time. *)

TakeTempo ==
  /\ phase = "idle"
  /\ phase'      = "reset"
  /\ tempoDirty' = FALSE
  /\ IF tempoDirty THEN SetTempo(pendingTempo) ELSE UNCHANGED clockVars
  /\ retuned'    = (retuned \/ tempoDirty)
  /\ UNCHANGED <<poolVars, pattern, playing, pendingTempo, resetRequested, feel, muted, soloed,
                 commands, padGroup, local, pending, ops, hits, lost>>

(* Mutant: what was pending before the reset stays. *)
TakeResetKeepsPending ==
  /\ phase = "reset"
  /\ phase'          = "playing"
  /\ resetRequested' = FALSE
  /\ IF resetRequested
       THEN /\ Reset
            /\ transportSamples' = 0
            /\ hits' = <<>> /\ lost' = {} /\ retuned' = FALSE
       ELSE UNCHANGED <<clockVars, transportSamples, history>>
  /\ UNCHANGED <<poolVars, pattern, playing, tempoDirty, pendingTempo, feel, muted, soloed,
                 commands, padGroup, nowPlaying, blockStart, numSamples, cursor, pending, ops>>

TakeReset ==
  /\ phase = "reset"
  /\ phase'          = "playing"
  /\ resetRequested' = FALSE
  /\ IF resetRequested
       THEN /\ Reset
            /\ pending' = <<>>
            /\ transportSamples' = 0
            /\ hits' = <<>> /\ lost' = {} /\ retuned' = FALSE
       ELSE UNCHANGED <<clockVars, pending, transportSamples, history>>
  /\ UNCHANGED <<poolVars, pattern, playing, tempoDirty, pendingTempo, feel, muted, soloed,
                 commands, padGroup, nowPlaying, blockStart, numSamples, cursor, ops>>

LoadPlaying ==
  /\ phase = "playing"
  /\ playing => nextStep <= MaxStep
  /\ phase'      = "drain"
  /\ nowPlaying' = playing
  /\ UNCHANGED <<clockVars, poolVars, pattern, atomics, commands, padGroup, blockStart,
                 numSamples, cursor, transportSamples, pending, ops, history>>

(* drainCommands(): the user's commands land at the block's start. *)
DrainCommand ==
  /\ phase = "drain" /\ commands # <<>>
  /\ commands' = Tail(commands)
  /\ LET c == Head(commands)
     IN  IF c.type = "setPad"
           THEN padGroup' = [padGroup EXCEPT ![c.pad] = c.group] /\ UNCHANGED poolVars
           ELSE /\ \E s \in Sounds[c.pad] :
                     Trigger(voices, sounding, c.pad, padGroup[c.pad], s)
                /\ UNCHANGED padGroup
  /\ UNCHANGED <<clockVars, pattern, atomics, phase, local, pending, ops, history>>

(* A stopped transport renders what still rings, and its events wait. *)
RenderStopped ==
  /\ phase = "drain" /\ commands = <<>> /\ ~nowPlaying
  /\ phase' = "idle"
  /\ \E n \in Blocks : RenderVoices(n)
  /\ UNCHANGED <<clockVars, pattern, atomics, commands, padGroup, local, pending, ops, history>>

BeginBlock ==
  /\ phase = "drain" /\ commands = <<>> /\ nowPlaying
  /\ phase'            = "steps"
  /\ numSamples' \in Blocks
  /\ BeginSteps(numSamples')
  /\ blockStart'       = sampleCounter
  /\ transportSamples' = sampleCounter
  /\ cursor'           = 0
  /\ UNCHANGED <<poolVars, pattern, atomics, commands, padGroup, nowPlaying, pending, ops,
                 history>>

FireStep ==
  /\ phase = "steps"
  /\ AdvanceStep
  /\ LET new == GeneratedEvents(nextStep, StepSampleOf(nextStep))
     IN  /\ pending' = pending \o Fits(new)
         /\ lost'    = lost \cup {new[i].of : i \in Len(Fits(new)) + 1 .. Len(new)}
  /\ UNCHANGED <<poolVars, pattern, atomics, commands, padGroup, phase, local, ops, hits,
                 retuned>>

StepsDone ==
  /\ phase = "steps"
  /\ EndSteps
  /\ phase' = "events"
  /\ UNCHANGED <<poolVars, pattern, atomics, commands, padGroup, local, pending, ops, history>>

(* renderWithEvents(): the first of the earliest events of this block. *)
Due == {i \in DOMAIN pending : pending[i].sample < blockStart + numSamples}

IsAudible(p) == IF soloed # {} THEN p \in soloed ELSE p \notin muted

(* pending[best] = pending[--pendingCount] *)
Without(i) ==
  SubSeq([pending EXCEPT ![i] = pending[Len(pending)]], 1, Len(pending) - 1)

FireEvent ==
  /\ phase = "events" /\ Due # {}
  /\ LET best   == Least({i \in Due : \A k \in Due : pending[i].sample <= pending[k].sample})
         e      == pending[best]
         offset == BetweenOf(e.sample - blockStart, cursor, numSamples)
     IN  /\ cursor'  = offset
         /\ pending' = Without(best)
         /\ hits'    = Append(hits, [of |-> e.of, at |-> blockStart + offset,
                                     sample |-> e.sample, late |-> e.late])
         /\ IF IsAudible(e.pad)
              THEN \E s \in Sounds[e.pad] :
                     Trigger(Rendered(voices, offset - cursor),
                             NotesAfter(sounding, offset - cursor), e.pad, padGroup[e.pad], s)
              ELSE RenderVoices(offset - cursor)
  /\ UNCHANGED <<clockVars, pattern, atomics, commands, padGroup, phase, nowPlaying, blockStart,
                 numSamples, transportSamples, ops, lost, retuned>>

EndBlock ==
  /\ phase = "events" /\ Due = {}
  /\ phase' = "idle"
  /\ RenderVoices(numSamples - cursor)
  /\ UNCHANGED <<clockVars, pattern, atomics, commands, padGroup, local, pending, ops, history>>

(* prepare(), of an audio device that restarts, between two blocks. *)
Prepare ==
  /\ phase = "idle" /\ User
  /\ PrepareClock(tempo)
  /\ PreparePool
  /\ pending' = <<>>
  /\ hits' = <<>> /\ lost' = {} /\ retuned' = FALSE
  /\ UNCHANGED <<pattern, atomics, commands, padGroup, phase, local>>

AudioNext ==
  \/ TakeTempo \/ TakeReset \/ LoadPlaying \/ DrainCommand \/ RenderStopped \/ BeginBlock
  \/ FireStep \/ StepsDone \/ FireEvent \/ EndBlock \/ Prepare

Next == MessageNext \/ AudioNext

Spec == Init /\ [][Next]_vars

-----------------------------------------------------------------------------
(* What a pattern asks for, step by step of each lane's own grid. *)

LitSteps(li, n) ==
  LET lane == pattern.lanes[li]
      rate == LaneStepRate(lane.triplet)
  IN  {p \in 0 .. n : /\ p * rate.num < n * rate.den
                      /\ lane.length >= 1
                      /\ p % LaneLength(lane) \in DOMAIN lane.lit
                      /\ ~Gated(lane.lit[p % LaneLength(lane)], p, li)}

(* The hits of the first n global steps. *)
Expected(n) ==
  LET Ratchets(li, p) == RatchetCount(pattern.lanes[li].lit[p % LaneLength(pattern.lanes[li])])
      OfLane(li) == UNION {{<<"lane", li, p, j>> : j \in 0 .. Ratchets(li, p) - 1} :
                             p \in LitSteps(li, n)}
      OfRoll(ri) == {<<"roll", ri, g, k>> :
                       g \in {h \in 0 .. n - 1 : h % BarSteps = pattern.rolls[ri].start},
                       k \in DOMAIN pattern.rolls[ri].offsets}
  IN  (UNION {OfLane(li) : li \in DOMAIN pattern.lanes})
        \cup (UNION {OfRoll(ri) : ri \in DOMAIN pattern.rolls})

Fired   == {hits[i].of : i \in DOMAIN hits}
Waiting == {pending[i].of : i \in DOMAIN pending}

(* Twice the distance of a hit from where the tempo puts it, times 48 * den  *)
(* * r, if the tempo has not changed since the top.                         *)
Deviation(h) ==
  IF h.of[1] = "roll"
    THEN 2 * (h.at * 48 - tempo * (24 * h.of[3] + pattern.rolls[h.of[2]].offsets[h.of[4]]))
    ELSE LET lane == pattern.lanes[h.of[2]]
             rate == LaneStepRate(lane.triplet)
             r    == RatchetCount(lane.lit[h.of[3] % LaneLength(lane)])
         IN  2 * (h.at * 48 * rate.den * r
                   - tempo * rate.num * (24 * r * h.of[3] + r * h.late + 24 * h.of[4]))

Scale(h) ==
  IF h.of[1] = "roll" THEN 48
  ELSE LET lane == pattern.lanes[h.of[2]]
       IN  48 * LaneStepRate(lane.triplet).den * RatchetCount(lane.lit[h.of[3] % LaneLength(lane)])

(* Sequencer.cpp:266-314 with Clock.h:54: whatever the blocks, the tempo      *)
(* changes and the stops, each hit of each step so far has fired, waits, or  *)
(* was dropped by a full buffer, and exactly once.                          *)
EveryHitOnce ==
  /\ Fired \cup Waiting \cup lost = Expected(nextStep)
  /\ Len(hits) + Len(pending) + Cardinality(lost) = Cardinality(Expected(nextStep))

(* Sequencer.cpp:283-293: hits fire in the order of their samples and each at *)
(* its own sample, never moved to the edge of a block. While the tempo       *)
(* stands still that is the exact place, but for the three roundings.        *)
HitsOnTime ==
  \A i \in DOMAIN hits :
    /\ hits[i].at = hits[i].sample
    /\ i > 1 => hits[i - 1].at <= hits[i].at
    /\ ~retuned => Deviation(hits[i]) \in -3 * Scale(hits[i]) .. 3 * Scale(hits[i])

(* MidiExporter.cpp:54-56: "the exported MIDI has to be the image of what you *)
(* heard". The hits of the engine, of audible pads or not, are the notes of   *)
(* the file, but for those the file has of a step's probability and those of  *)
(* a lane of no length, which the engine skips and the file plays as one of   *)
(* length 1; and a hit that swing and humanise leave alone is at its place.  *)
MidiIsTheImage ==
  LET notes == MidiNotes(pattern, nextStep, BarSteps)
      known == Fired \cup Waiting \cup lost
      Lane(of)   == pattern.lanes[of[2]]
      StepAt(of) == Lane(of).lit[of[3] % LaneLength(Lane(of))]
      Asked(m) == m.of[1] = "lane" =>
                    Lane(m.of).length >= 1 /\ ~Gated(StepAt(m.of), m.of[3], m.of[2])
      Unmoved(h) == h.of[1] = "lane" => h.late = BetweenOf(StepAt(h.of).shift, 0, 12)
  IN  /\ {m.of : m \in {k \in notes : Asked(k)}} = known
      /\ \A i \in DOMAIN hits :
           ~retuned /\ Unmoved(hits[i]) =>
             \E m \in notes : /\ m.of = hits[i].of
                              /\ 2 * (48 * hits[i].at - m.tick * tempo)
                                   \in -(144 + tempo) .. 144 + tempo

(* MainComponent::captureTapAt, of a tap at the transport's sample: twice how *)
(* far from the tap the step it lands on is, around the lane, in             *)
(* 1 / (den * tempo) of a 1/16 step. `den` of these are the rounding.        *)
TapError(lane) ==
  LET rate   == LaneStepRate(lane.triplet)
      around == LaneLength(lane) * rate.num * tempo
      played == rate.den * ((nextStep - 1) * tempo + 2 * (transportSamples - lastAt))
      error  == (Quantise(lane, transportSamples, pendingTempo) * rate.num * tempo - played)
                  % around
  IN  2 * Least({error, around - error})

(* The transport plays and no step has fired in this block, and the engine  *)
(* has taken what tempo the pattern has.                                    *)
TapTime == phase = "steps" /\ lastAt \in 0 .. blockStart - 1 /\ tempo = pendingTempo
           /\ lastTempo = tempo

TapLands ==
  \A li \in {l \in DOMAIN pattern.lanes : pattern.lanes[l].length >= 1} :
    LET lane == pattern.lanes[li]
        rate == LaneStepRate(lane.triplet)
    IN  TapError(lane) <= rate.num * tempo + 2 * rate.den

(* Capture.cpp:36-39 against the clock: while the tempo has not changed since *)
(* the top, a tap is written to the step of its lane that sounds nearest to  *)
(* it, also across bars and for lanes shorter than a bar. (Those of no       *)
(* length never sound.)                                                     *)
TapLandsWhereItPlays == TapTime /\ ~retuned => TapLands

(* Sequencer.h:82: taps "are measured on the same clock the sequencer plays   *)
(* to", also after a change of tempo. (They are not: the clock rebases and    *)
(* Capture divides the samples since the top by the new tempo.)              *)
TapLandsOnStep == TapTime => TapLands

(* ExportPanel.h:25: an export captures "the per-bar probability + humanise   *)
(* variation the engine generates". (The offline renderer never hands the     *)
(* humanise amount to its sequencer.)                                        *)
RenderIsWhatPlays ==
  \A i \in DOMAIN hits : hits[i].of[1] = "lane" =>
    LET lane == pattern.lanes[hits[i].of[2]]
        p    == hits[i].of[3]
        rendered == BetweenOf(lane.lit[p % LaneLength(lane)].shift, 0, 12)
                      + (IF ~lane.triplet /\ p % 2 = 1 THEN feel.swing ELSE 0)
    IN  hits[i].late = rendered

(* Sequencer.cpp:158: the lanes of a step play in their order, so that the    *)
(* last of a choke group is the one heard. (Hits of one sample leave the      *)
(* buffer in whatever order earlier removals left it.)                       *)
LaneOrderAtOnce ==
  \A i, k \in DOMAIN hits :
    i < k /\ hits[i].at = hits[k].at /\ hits[i].of[1] = "lane" /\ hits[k].of[1] = "lane"
      => hits[i].of[2] <= hits[k].of[2]
=============================================================================
