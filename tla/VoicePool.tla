----------------------------- MODULE VoicePool -----------------------------
(***************************************************************************)
(* engine/VoicePool.{h,cpp} and Voice.{h,cpp}: a fixed array of voices with *)
(* choke groups and stealing. A voice is what it has left to play and how    *)
(* loud it is; its audio is not here.                                       *)
(***************************************************************************)
EXTENDS Integers, FiniteSets

CONSTANTS
  Pads,
  Groups,     (* choke groups; NoChoke is one of them                       *)
  NumVoices,
  Sounds,     (* what a trigger of a pad may start: its parameters, its     *)
              (* velocity and its pitch are not the same each time          *)
  Unit        (* the level of a note of gain 1 at the top of its envelope   *)

NoChoke == 0

(* Voice::start(): the frames to play, how many of them the level rises and  *)
(* falls over (none, or up to all), and the gain times the velocity.        *)
Sound == {s \in [frames : Nat, attack : Nat, release : Nat, loud : Nat] :
            s.attack <= s.frames /\ s.release <= s.frames}

Silence == [frames |-> 0, attack |-> 0, release |-> 0, loud |-> 0]

ASSUME VoicePoolAssumption ==
  /\ NumVoices \in Nat \ {0}
  /\ NoChoke \in Groups /\ Groups \subseteq Nat
  /\ Sounds \in [Pads -> SUBSET Sound]
  /\ \A p \in Pads : \A s \in Sounds[p] : s.frames > 0
  /\ Unit \in Nat

VARIABLES
  voices,     (* pad, group and age stay behind when a voice has ended      *)
  nextAge,
  sounding    (* history: the notes that should sound, see PoolIsTheNotes   *)

poolVars == <<voices, nextAge, sounding>>

Slots == 1 .. NumVoices

Idle == [pad |-> -1, group |-> NoChoke, age |-> 0, left |-> -1, sound |-> Silence]

Voice == {v \in [pad : Pads \cup {-1}, group : Groups, age : Nat, left : Nat \cup {-1},
                 sound : Sound] : v.left <= v.sound.frames}

(* A voice with no frame left is active still: it stops in the render that   *)
(* finds nothing to play.                                                   *)
IsActive(v) == v.left >= 0

(* stop() *)
Stopped(v) == [v EXCEPT !.left = -1, !.sound = Silence]

(* envelopeAt(): the attack up, the release down, the lower of the two.      *)
EnvelopeAt(s, frame) ==
  LET rise == IF frame < s.attack THEN (frame * Unit) \div s.attack ELSE Unit
      fall == IF s.release > 0 /\ frame >= s.frames - s.release
                THEN ((s.frames - frame) * Unit) \div s.release ELSE Unit
  IN  IF rise <= fall THEN rise ELSE fall

(* getLevel(): the envelope at the last frame rendered (the first, of a voice *)
(* that has rendered none) times gain times velocity; nothing when idle.     *)
Level(v) ==
  LET played == v.sound.frames - v.left
  IN  IF ~IsActive(v) THEN 0
      ELSE v.sound.loud * EnvelopeAt(v.sound, IF played = 0 THEN 0 ELSE played - 1)

ActiveSlots(vs) == {i \in Slots : IsActive(vs[i])}

Least(S) == CHOOSE x \in S : \A y \in S : x <= y

(* Level first, then age. *)
QuieterOrOlder(v, w) == Level(v) < Level(w) \/ (Level(v) = Level(w) /\ v.age <= w.age)

(* selectVoice(): any idle voice, else the quietest, else the oldest of them. *)
SelectVoice(vs) ==
  LET idle == Slots \ ActiveSlots(vs)
  IN  IF idle # {} THEN Least(idle)
      ELSE Least({i \in Slots : \A j \in Slots : QuieterOrOlder(vs[i], vs[j])})

(* Mutant: the loop starts at the second voice. *)
ChokedFromSecond(vs, g) ==
  [i \in Slots |-> IF i > 1 /\ g # NoChoke /\ IsActive(vs[i]) /\ vs[i].group = g
                     THEN Stopped(vs[i]) ELSE vs[i]]

(* Every active voice of the group stops, if it is a group. *)
Choked(vs, g) ==
  [i \in Slots |-> IF g # NoChoke /\ IsActive(vs[i]) /\ vs[i].group = g
                     THEN Stopped(vs[i]) ELSE vs[i]]

(* Voice::renderAdditive(): n frames, or all that is left and a stop.        *)
Rendered(vs, n) ==
  [i \in Slots |-> IF ~IsActive(vs[i]) THEN vs[i]
                   ELSE IF n <= vs[i].left THEN [vs[i] EXCEPT !.left = @ - n]
                   ELSE Stopped(vs[i])]

-----------------------------------------------------------------------------
(* What the pool promises, without slots: a set of notes.                   *)

Note(p, g, a, s) == [pad |-> p, group |-> g, age |-> a, left |-> s.frames, sound |-> s]

(* A note ends when more is asked of it than it has.                        *)
NotesAfter(notes, n) ==
  {[m EXCEPT !.left = @ - n] : m \in {k \in notes : k.left >= n}}

NotChoked(notes, g) == {m \in notes : g = NoChoke \/ m.group # g}

(* Room is made for one note, and only when there is none. *)
WithRoom(notes) ==
  IF Cardinality(notes) < NumVoices THEN notes
  ELSE {m \in notes : \E k \in notes :
                       Level(k) < Level(m) \/ (Level(k) = Level(m) /\ k.age < m.age)}

-----------------------------------------------------------------------------
PoolInit ==
  /\ voices = [i \in Slots |-> Idle]
  /\ nextAge = 0
  /\ sounding = {}

(* Mutant: the voice is chosen before the group is choked. *)
TriggerThenChoke(vs, notes, p, g, s) ==
  LET slot == SelectVoice(vs)
  IN  /\ voices'   = [Choked(vs, g) EXCEPT ![slot] = Note(p, g, nextAge, s)]
      /\ sounding' = WithRoom(NotChoked(notes, g)) \cup {Note(p, g, nextAge, s)}
      /\ nextAge'  = nextAge + 1

(* trigger(): choke, select, start. vs and notes are what the render up to  *)
(* the trigger has left.                                                    *)
Trigger(vs, notes, p, g, s) ==
  LET free == Choked(vs, g)
  IN  /\ voices'   = [free EXCEPT ![SelectVoice(free)] = Note(p, g, nextAge, s)]
      /\ sounding' = WithRoom(NotChoked(notes, g)) \cup {Note(p, g, nextAge, s)}
      /\ nextAge'  = nextAge + 1

RenderVoices(n) ==
  /\ voices'   = Rendered(voices, n)
  /\ sounding' = NotesAfter(sounding, n)
  /\ UNCHANGED nextAge

(* prepare() *)
PreparePool ==
  /\ voices'   = [i \in Slots |-> Idle]
  /\ nextAge'  = 0
  /\ sounding' = {}

PoolNext ==
  \/ \E n \in Nat, p \in Pads, g \in Groups : \E s \in Sounds[p] :
       Trigger(Rendered(voices, n), NotesAfter(sounding, n), p, g, s)
  \/ \E n \in Nat : RenderVoices(n)
  \/ PreparePool

PoolSpec == PoolInit /\ [][PoolNext]_poolVars

-----------------------------------------------------------------------------
PoolTypeOK ==
  /\ voices \in [Slots -> Voice]
  /\ nextAge \in Nat

(* VoicePool.h:6-17: the policy, told of notes and not of slots. What the   *)
(* voices hold is every note triggered, but those that ended, those a later  *)
(* note of their group choked, and those stolen, the quietest and then the  *)
(* oldest, when every voice was busy after the choke. (A note that has just  *)
(* played its last frame has not ended: it is busy until the next render,    *)
(* as loud as that frame was.)                                              *)
PoolIsTheNotes == sounding = {voices[i] : i \in ActiveSlots(voices)}

(* VoicePool.h:14: a group is mutually exclusive. Two voices of one group   *)
(* never sound together, whatever was stolen or regrouped before.           *)
ChokeExclusive ==
  \A i, j \in ActiveSlots(voices) :
    i # j /\ voices[i].group = voices[j].group => voices[i].group = NoChoke
=============================================================================
