-------------------------- MODULE StepEventsProofs --------------------------
(***************************************************************************)
(* The event path of the audio block, in four parts: the voices (VoicePool), *)
(* the lanes' own grids (LaneGrid), the clock (StepClock), and the event path *)
(* that drives the clock and the voices as their modules allow (StepEvents). *)
(* What is proved holds while the transport plays, for any number of voices, *)
(* pads and choke groups, every pattern, every set of block sizes and        *)
(* tempos, and any commands.                                                 *)
(***************************************************************************)
EXTENDS StepEvents, FiniteSetTheorems, WellFoundedInduction, TLAPS

-----------------------------------------------------------------------------
(* VoicePool: the voices play the notes the policy of VoicePool.h asks for.  *)
(* The module speaks of slots; Notes(vs) is what they play.                  *)

Notes(vs) == {vs[i] : i \in ActiveSlots(vs)}

(* No two live voices have one age: a note is in one slot. *)
OneSlotEach(vs) ==
  \A i, j \in ActiveSlots(vs) : vs[i].age = vs[j].age => i = j

Exclusive(vs) ==
  \A i, j \in ActiveSlots(vs) : i # j /\ vs[i].group = vs[j].group => vs[i].group = NoChoke

(* Only idle voices may be older than the pool. *)
Younger(vs, age) == \A i \in ActiveSlots(vs) : vs[i].age < age

PoolInv ==
  /\ PoolTypeOK
  /\ OneSlotEach(voices)
  /\ Younger(voices, nextAge)
  /\ PoolIsTheNotes

-----------------------------------------------------------------------------
LEMMA SlotsFinite == IsFiniteSet(Slots) /\ Cardinality(Slots) = NumVoices
<1>1. NumVoices \in Nat /\ NumVoices >= 1 BY VoicePoolAssumption
<1> QED BY <1>1, FS_Interval DEF Slots

LEMMA SlotsNat == Slots \subseteq Nat
  BY VoicePoolAssumption DEF Slots

LEMMA LeastExists ==
  ASSUME NEW S, S \subseteq Nat, S # {}
  PROVE  /\ Least(S) \in S
         /\ \A x \in S : Least(S) <= x
<1>1. \E x \in S : \A y \in S : ~ (<<y, x>> \in OpToRel(<, Nat))
  BY NatLessThanWellFounded, WFMin
<1>2. PICK x \in S : \A y \in S : ~ (<<y, x>> \in OpToRel(<, Nat)) BY <1>1
<1>3. \A y \in S : x <= y
  <2> TAKE y \in S
  <2>1. x \in Nat /\ y \in Nat OBVIOUS
  <2>2. ~(y < x) BY <1>2, <2>1 DEF OpToRel
  <2> QED BY <2>1, <2>2
<1> QED BY <1>2, <1>3 DEF Least

-----------------------------------------------------------------------------
(* Rendering and choking move the notes as the policy moves them. *)

LEMMA VoiceFields ==
  ASSUME NEW v \in Voice
  PROVE  /\ v \in [pad : Pads \cup {-1}, group : Groups, age : Nat, left : Nat \cup {-1},
                   sound : Sound]
         /\ v.sound \in Sound /\ v.sound.frames \in Nat /\ v.sound.loud \in Nat
         /\ v.sound.attack \in 0 .. v.sound.frames /\ v.sound.release \in 0 .. v.sound.frames
         /\ v.age \in Nat /\ v.left \in Int /\ v.left >= -1 /\ v.left <= v.sound.frames
  BY DEF Voice, Sound

(* A voice that renders what it has, and one that stops. *)
LEMMA LeftSet ==
  ASSUME NEW v \in Voice, NEW n \in Nat, n <= v.left
  PROVE  LET w == [v EXCEPT !.left = v.left - n]
         IN  w \in Voice /\ w.left = v.left - n /\ w.age = v.age /\ w.group = v.group
<1> DEFINE w == [v EXCEPT !.left = v.left - n]
<1>1. v.left - n \in Nat /\ v.left - n <= v.sound.frames BY VoiceFields
<1>2. w \in [pad : Pads \cup {-1}, group : Groups, age : Nat, left : Nat \cup {-1},
             sound : Sound]
  BY <1>1, VoiceFields
<1>3. w.left = v.left - n /\ w.age = v.age /\ w.group = v.group /\ w.sound = v.sound
  BY VoiceFields
<1> QED BY <1>1, <1>2, <1>3 DEF Voice

LEMMA StoppedVoice ==
  ASSUME NEW v \in Voice
  PROVE  /\ Stopped(v) \in Voice /\ ~IsActive(Stopped(v))
         /\ Stopped(v).age = v.age /\ Stopped(v).group = v.group
<1>1. Silence \in Sound /\ Silence.frames = 0 BY DEF Silence, Sound
<1>2. /\ Stopped(v) \in [pad : Pads \cup {-1}, group : Groups, age : Nat, left : Nat \cup {-1},
                         sound : Sound]
      /\ Stopped(v).left = -1 /\ Stopped(v).sound = Silence
      /\ Stopped(v).age = v.age /\ Stopped(v).group = v.group
  BY <1>1, VoiceFields DEF Stopped
<1>3. -1 <= 0 /\ ~(-1 >= 0) OBVIOUS
<1> QED BY <1>1, <1>2, <1>3 DEF Voice, IsActive

LEMMA RenderedNotes ==
  ASSUME NEW vs \in [Slots -> Voice], NEW n \in Nat
  PROVE  /\ Rendered(vs, n) \in [Slots -> Voice]
         /\ Notes(Rendered(vs, n)) = NotesAfter(Notes(vs), n)
         /\ OneSlotEach(vs) => OneSlotEach(Rendered(vs, n))
         /\ \A age : Younger(vs, age) => Younger(Rendered(vs, n), age)
<1> DEFINE ws   == Rendered(vs, n)
           long == {i \in Slots : vs[i].left >= n}
<1>1. \A i \in Slots : vs[i] \in Voice /\ vs[i].left \in Int BY VoiceFields
<1>2. \A i \in Slots :
        /\ i \in long => ws[i] = [vs[i] EXCEPT !.left = vs[i].left - n]
        /\ i \notin long /\ IsActive(vs[i]) => ws[i] = Stopped(vs[i])
        /\ ~IsActive(vs[i]) => ws[i] = vs[i]
  BY <1>1 DEF Rendered, IsActive
<1>3. \A i \in Slots : /\ ws[i] \in Voice /\ ws[i].age = vs[i].age
                       /\ IsActive(ws[i]) <=> i \in long
  <2> TAKE i \in Slots
  <2>0. vs[i] \in Voice BY <1>1
  <2>1. CASE i \in long
    <3>1. ws[i] = [vs[i] EXCEPT !.left = vs[i].left - n] BY <1>2, <2>1
    <3>2. n <= vs[i].left BY <1>1, <2>1
    <3> HIDE DEF ws
    <3>3. ws[i] \in Voice /\ ws[i].age = vs[i].age /\ ws[i].left = vs[i].left - n
      BY <2>0, <3>1, <3>2, LeftSet
    <3>4. IsActive(ws[i]) BY <1>1, <3>2, <3>3 DEF IsActive
    <3> QED BY <2>1, <3>3, <3>4
  <2>2. CASE i \notin long /\ IsActive(vs[i])
    <3>1. ws[i] = Stopped(vs[i]) BY <1>2, <2>2
    <3> HIDE DEF ws
    <3> QED BY <2>0, <2>2, <3>1, StoppedVoice
  <2>3. CASE ~IsActive(vs[i])
    <3>1. ws[i] = vs[i] BY <1>2, <2>3
    <3>2. i \notin long BY <1>1, <2>3 DEF IsActive
    <3> HIDE DEF ws
    <3> QED BY <2>0, <2>3, <3>1, <3>2
  <2> QED BY <2>1, <2>2, <2>3
<1>4. ws \in [Slots -> Voice] BY <1>3 DEF Rendered
<1>5. ActiveSlots(ws) = long BY <1>3 DEF ActiveSlots
<1>6. long \subseteq ActiveSlots(vs) BY <1>1 DEF ActiveSlots, IsActive
<1>7. \A i \in long : ws[i] = [vs[i] EXCEPT !.left = vs[i].left - n] BY <1>2
<1>8. Notes(ws) = NotesAfter(Notes(vs), n)
  <2>1. Notes(ws) = {[vs[i] EXCEPT !.left = vs[i].left - n] : i \in long}
    <3> DEFINE less(i) == [vs[i] EXCEPT !.left = vs[i].left - n]
    <3>1. \A i \in long : ws[i] = less(i) BY <1>7
    <3>2. Notes(ws) = {ws[i] : i \in long} BY <1>5 DEF Notes
    <3> HIDE DEF ws, long, less
    <3>3. {ws[i] : i \in long} = {less(i) : i \in long} BY <3>1
    <3> QED BY <3>2, <3>3 DEF less
  <2>2. {k \in Notes(vs) : k.left >= n} = {vs[i] : i \in long}
    BY <1>6 DEF Notes, ActiveSlots
  <2>3. NotesAfter(Notes(vs), n) = {[m EXCEPT !.left = m.left - n] : m \in {vs[i] : i \in long}}
    <3> HIDE DEF long
    <3> QED BY <2>2 DEF NotesAfter
  <2> HIDE DEF ws, long
  <2> QED BY <2>1, <2>3
<1> HIDE DEF ws
<1>9. OneSlotEach(vs) => OneSlotEach(ws)
  BY <1>3, <1>5, <1>6 DEF OneSlotEach, ActiveSlots
<1>10. \A age : Younger(vs, age) => Younger(ws, age)
  BY <1>3, <1>5, <1>6 DEF Younger, ActiveSlots
<1> QED BY <1>4, <1>8, <1>9, <1>10 DEF ws

LEMMA ChokedNotes ==
  ASSUME NEW vs \in [Slots -> Voice], NEW g \in Groups
  PROVE  /\ Choked(vs, g) \in [Slots -> Voice]
         /\ Notes(Choked(vs, g)) = NotChoked(Notes(vs), g)
         /\ OneSlotEach(vs) => OneSlotEach(Choked(vs, g))
         /\ \A age : Younger(vs, age) => Younger(Choked(vs, g), age)
<1> DEFINE ws == Choked(vs, g)
           kept == {i \in ActiveSlots(vs) : g = NoChoke \/ vs[i].group # g}
<1>1. \A i \in Slots : vs[i] \in Voice OBVIOUS
<1>2. \A i \in Slots :
        ws[i] = IF g # NoChoke /\ IsActive(vs[i]) /\ vs[i].group = g
                  THEN Stopped(vs[i]) ELSE vs[i]
  BY DEF Choked
<1>3. \A i \in Slots : ws[i] \in Voice /\ ws[i].age = vs[i].age
  <2> TAKE i \in Slots
  <2>1. ws[i] = Stopped(vs[i]) \/ ws[i] = vs[i] BY <1>2
  <2> HIDE DEF ws
  <2> QED BY <1>1, <2>1, StoppedVoice
<1>4. ws \in [Slots -> Voice] BY <1>3 DEF Choked
<1>5. ActiveSlots(ws) = kept
  <2>1. \A i \in Slots : IsActive(ws[i]) <=> i \in kept
    <3> TAKE i \in Slots
    <3>1. CASE g # NoChoke /\ IsActive(vs[i]) /\ vs[i].group = g
      <4>1. ws[i] = Stopped(vs[i]) BY <1>2, <3>1
      <4> HIDE DEF ws
      <4>2. ~IsActive(ws[i]) BY <1>1, <4>1, StoppedVoice
      <4> QED BY <3>1, <4>2
    <3>2. CASE ~(g # NoChoke /\ IsActive(vs[i]) /\ vs[i].group = g)
      BY <1>2, <3>2 DEF ActiveSlots
    <3> QED BY <3>1, <3>2
  <2>2. kept \subseteq Slots BY DEF ActiveSlots
  <2> HIDE DEF ws, kept
  <2> QED BY <2>1, <2>2 DEF ActiveSlots
<1>6. \A i \in kept : ws[i] = vs[i] BY <1>2 DEF ActiveSlots
<1>7. Notes(ws) = NotChoked(Notes(vs), g)
  BY <1>5, <1>6 DEF Notes, NotChoked
<1>8. OneSlotEach(vs) => OneSlotEach(ws)
  BY <1>3, <1>5 DEF OneSlotEach, ActiveSlots
<1>9. \A age : Younger(vs, age) => Younger(ws, age)
  BY <1>3, <1>5 DEF Younger, ActiveSlots
<1> QED BY <1>4, <1>7, <1>8, <1>9

-----------------------------------------------------------------------------
(* The slot the next note gets: an idle one, or that of the one voice the    *)
(* policy steals.                                                           *)

LEMMA CountNotes ==
  ASSUME NEW vs \in [Slots -> Voice], OneSlotEach(vs)
  PROVE  /\ IsFiniteSet(Notes(vs))
         /\ Cardinality(Notes(vs)) < NumVoices <=> Slots \ ActiveSlots(vs) # {}
<1> DEFINE A == ActiveSlots(vs)
           f == [i \in A |-> vs[i]]
<1>1. A \subseteq Slots BY DEF ActiveSlots
<1>2. IsFiniteSet(A) /\ Cardinality(A) <= NumVoices
      /\ (Cardinality(A) = NumVoices => A = Slots)
  BY <1>1, SlotsFinite, FS_Subset
<1>3. f \in Surjection(A, Notes(vs)) BY DEF Surjection, Notes
<1>4. f \in Injection(A, Notes(vs))
  <2>1. f \in [A -> Notes(vs)] BY DEF Notes
  <2>2. \A i, j \in A : f[i] = f[j] => i = j BY DEF OneSlotEach
  <2> QED BY <2>1, <2>2 DEF Injection, IsInjective
<1>5. IsFiniteSet(Notes(vs)) /\ Cardinality(Notes(vs)) = Cardinality(A)
  BY <1>2, <1>3, <1>4, FS_Surjection
<1>6. Cardinality(A) \in Nat BY <1>2, FS_CardinalityType
<1>7. A = Slots => Cardinality(A) = NumVoices BY SlotsFinite
<1>8. NumVoices \in Nat BY VoicePoolAssumption
<1> QED BY <1>1, <1>2, <1>5, <1>6, <1>7, <1>8

(* A level is a number, whatever the attack and the release.                 *)
LEMMA ShareNat ==
  ASSUME NEW a \in Nat, NEW b \in Nat, b > 0
  PROVE  (a * Unit) \div b \in Nat
<1>1. a * Unit \in Nat BY VoicePoolAssumption
<1> DEFINE x == a * Unit
<1> HIDE DEF x
<1>2. x \in Nat => x \div b \in Nat OBVIOUS
<1> QED BY <1>1, <1>2 DEF x

LEMMA EnvelopeNat ==
  ASSUME NEW s \in Sound, NEW f \in 0 .. s.frames
  PROVE  EnvelopeAt(s, f) \in Nat
<1> DEFINE rise == IF f < s.attack THEN (f * Unit) \div s.attack ELSE Unit
           fall == IF s.release > 0 /\ f >= s.frames - s.release
                     THEN ((s.frames - f) * Unit) \div s.release ELSE Unit
<1>1. s.frames \in Nat /\ s.attack \in Nat /\ s.release \in Nat BY DEF Sound
<1>2. Unit \in Nat BY VoicePoolAssumption
<1>3. f \in Nat /\ s.frames - f \in Nat BY <1>1
<1>4. rise \in Nat
  <2>1. f < s.attack => s.attack > 0 BY <1>1, <1>3
  <2>2. s.attack > 0 => (f * Unit) \div s.attack \in Nat BY <1>1, <1>3, ShareNat
  <2> QED BY <1>2, <2>1, <2>2
<1>5. fall \in Nat
  <2>1. s.release > 0 => ((s.frames - f) * Unit) \div s.release \in Nat
    <3> DEFINE d == s.frames - f
    <3>1. d \in Nat BY <1>3
    <3> HIDE DEF d
    <3>2. s.release > 0 => (d * Unit) \div s.release \in Nat BY <1>1, <3>1, ShareNat
    <3> QED BY <3>2 DEF d
  <2> QED BY <1>2, <2>1
<1>6. EnvelopeAt(s, f) = IF rise <= fall THEN rise ELSE fall BY DEF EnvelopeAt
<1> HIDE DEF rise, fall
<1> QED BY <1>4, <1>5, <1>6

LEMMA LevelNat == ASSUME NEW v \in Voice PROVE Level(v) \in Nat
<1> DEFINE played == v.sound.frames - v.left
           f == IF played = 0 THEN 0 ELSE played - 1
           e == EnvelopeAt(v.sound, f)
<1>1. CASE ~IsActive(v) BY <1>1 DEF Level
<1>2. CASE IsActive(v)
  <2>1. v.left >= 0 BY <1>2 DEF IsActive
  <2>2. f \in 0 .. v.sound.frames BY <2>1, VoiceFields
  <2>3. Level(v) = v.sound.loud * e BY <1>2 DEF Level
  <2> HIDE DEF f
  <2>4. e \in Nat BY <2>2, VoiceFields, EnvelopeNat
  <2> HIDE DEF e
  <2>5. v.sound.loud \in Nat BY VoiceFields
  <2> DEFINE l == v.sound.loud
  <2> HIDE DEF l
  <2>6. l \in Nat => l * e \in Nat BY <2>4
  <2> QED BY <2>3, <2>5, <2>6 DEF l
<1> QED BY <1>1, <1>2

(* Some voice is quieter or older than all others. *)
LEMMA QuietestOldest ==
  ASSUME NEW vs \in [Slots -> Voice]
  PROVE  \E i \in Slots : \A j \in Slots : QuieterOrOlder(vs[i], vs[j])
<1> DEFINE levels == {Level(vs[i]) : i \in Slots}
           low    == Least(levels)
           quiet  == {i \in Slots : Level(vs[i]) = low}
           ages   == {vs[i].age : i \in quiet}
           old    == Least(ages)
<1>1. \A i \in Slots : Level(vs[i]) \in Nat /\ vs[i].age \in Nat BY LevelNat DEF Voice
<1>2. 1 \in Slots BY VoicePoolAssumption DEF Slots
<1>3. levels \subseteq Nat /\ levels # {} BY <1>1, <1>2
<1>4. low \in levels /\ \A x \in levels : low <= x
  <2> HIDE DEF levels
  <2> QED BY <1>3, LeastExists
<1> HIDE DEF low
<1>5. ages \subseteq Nat /\ ages # {} BY <1>1, <1>4
<1>6. old \in ages /\ \A x \in ages : old <= x
  <2> HIDE DEF ages
  <2> QED BY <1>5, LeastExists
<1> HIDE DEF old
<1>7. PICK i \in quiet : vs[i].age = old BY <1>6
<1>8. ASSUME NEW j \in Slots PROVE QuieterOrOlder(vs[i], vs[j])
  <2>1. Level(vs[j]) \in levels /\ low <= Level(vs[j]) BY <1>4
  <2>2. Level(vs[j]) = low => old <= vs[j].age BY <1>6
  <2>3. low \in Nat /\ old \in Nat BY <1>3, <1>4, <1>5, <1>6
  <2> QED BY <1>1, <1>7, <2>1, <2>2, <2>3 DEF QuieterOrOlder
<1> QED BY <1>7, <1>8

(* Room for one note is made among the slots just as it is among the notes.  *)
LEMMA PlacedNotes ==
  ASSUME NEW vs \in [Slots -> Voice], OneSlotEach(vs),
         NEW m \in Voice, IsActive(m)
  PROVE  LET s  == SelectVoice(vs)
             ws == [vs EXCEPT ![s] = m]
         IN  /\ s \in Slots
             /\ ws \in [Slots -> Voice]
             /\ Notes(ws) = WithRoom(Notes(vs)) \cup {m}
             /\ ActiveSlots(ws) = ActiveSlots(vs) \cup {s}
<1> DEFINE idle == Slots \ ActiveSlots(vs)
           s    == SelectVoice(vs)
           ws   == [vs EXCEPT ![s] = m]
           best == {i \in Slots : \A j \in Slots : QuieterOrOlder(vs[i], vs[j])}
<1>1. CASE idle # {}
  <2>1. s = Least(idle) BY <1>1 DEF SelectVoice
  <2>2. s \in idle BY <1>1, <2>1, SlotsNat, LeastExists
  <2>3. WithRoom(Notes(vs)) = Notes(vs) BY <1>1, CountNotes DEF WithRoom
  <2> HIDE DEF s
  <2>4. ws \in [Slots -> Voice] BY <2>2
  <2>5. ActiveSlots(ws) = ActiveSlots(vs) \cup {s} BY <2>2 DEF ActiveSlots
  <2>6. \A i \in ActiveSlots(vs) : ws[i] = vs[i] BY <2>2 DEF ActiveSlots
  <2>7. ws[s] = m BY <2>2
  <2>8. Notes(ws) = Notes(vs) \cup {m} BY <2>5, <2>6, <2>7 DEF Notes
  <2> QED BY <2>2, <2>3, <2>4, <2>5, <2>8 DEF s
<1>2. CASE idle = {}
  <2>1. s = Least(best) BY <1>2 DEF SelectVoice
  <2>2. best # {} BY QuietestOldest
  <2>3. best \subseteq Nat BY SlotsNat
  <2>4. s \in best
    <3> HIDE DEF best, s
    <3> QED BY <2>1, <2>2, <2>3, LeastExists
  <2>5. ActiveSlots(vs) = Slots BY <1>2 DEF ActiveSlots
  <2>6. ~(Cardinality(Notes(vs)) < NumVoices) BY <1>2, CountNotes
  <2>7. WithRoom(Notes(vs)) = {vs[i] : i \in Slots \ {s}}
    <3> DEFINE Beaten(i) == \E k \in Slots :
                              \/ Level(vs[k]) < Level(vs[i])
                              \/ Level(vs[k]) = Level(vs[i]) /\ vs[k].age < vs[i].age
    <3>1. \A i \in Slots : Level(vs[i]) \in Nat /\ vs[i].age \in Nat BY LevelNat DEF Voice
    <3>2. s \in Slots /\ \A j \in Slots : QuieterOrOlder(vs[s], vs[j]) BY <2>4
    <3> HIDE DEF s
    <3>3. ~Beaten(s) BY <3>1, <3>2 DEF QuieterOrOlder
    <3>4. \A i \in Slots : i # s => Beaten(i)
      <4> TAKE i \in Slots
      <4> HAVE i # s
      <4>1. vs[i].age # vs[s].age BY <2>5, <3>2 DEF OneSlotEach
      <4>2. QuieterOrOlder(vs[s], vs[i]) BY <3>2
      <4> QED BY <3>1, <3>2, <4>1, <4>2 DEF QuieterOrOlder
    <3>5. Notes(vs) = {vs[i] : i \in Slots} BY <2>5 DEF Notes
    <3>6. WithRoom(Notes(vs)) = {vs[i] : i \in {k \in Slots : Beaten(k)}}
      BY <2>6, <3>5 DEF WithRoom
    <3>7. {k \in Slots : Beaten(k)} = Slots \ {s} BY <3>3, <3>4
    <3> HIDE DEF Beaten
    <3> QED BY <3>6, <3>7
  <2>8. s \in Slots BY <2>4
  <2> HIDE DEF s
  <2>9. ws \in [Slots -> Voice] BY <2>8
  <2>10. \A i \in Slots \ {s} : ws[i] = vs[i] OBVIOUS
  <2>11. ws[s] = m BY <2>8
  <2>12. ActiveSlots(ws) = Slots BY <2>5, <2>8, <2>10, <2>11 DEF ActiveSlots
  <2>13. Notes(ws) = {vs[i] : i \in Slots \ {s}} \cup {m}
    BY <2>8, <2>10, <2>11, <2>12 DEF Notes
  <2> QED BY <2>5, <2>7, <2>8, <2>9, <2>12, <2>13 DEF s
<1> QED BY <1>1, <1>2

-----------------------------------------------------------------------------
(* The policy. *)

LEMMA NewNote ==
  ASSUME NEW p \in Pads, NEW g \in Groups, NEW a \in Nat, NEW s \in Sounds[p]
  PROVE  Note(p, g, a, s) \in Voice /\ IsActive(Note(p, g, a, s)) /\ Note(p, g, a, s).age = a
<1>1. s \in Sound /\ s.frames \in Nat BY VoicePoolAssumption DEF Sound
<1>2. s.frames >= 0 /\ s.frames <= s.frames BY <1>1
<1> QED BY <1>1, <1>2 DEF Note, Voice, IsActive

LEMMA TriggerInv ==
  ASSUME NEW vs \in [Slots -> Voice], NEW notes, NEW p \in Pads, NEW g \in Groups,
         NEW snd \in Sounds[p],
         nextAge \in Nat, notes = Notes(vs), OneSlotEach(vs), Younger(vs, nextAge),
         Trigger(vs, notes, p, g, snd)
  PROVE  PoolInv'
<1> DEFINE free == Choked(vs, g)
           m    == Note(p, g, nextAge, snd)
           s    == SelectVoice(free)
           ws   == [free EXCEPT ![s] = m]
<1>1. /\ free \in [Slots -> Voice] /\ OneSlotEach(free) /\ Younger(free, nextAge)
      /\ Notes(free) = NotChoked(notes, g)
  BY ChokedNotes
<1>2. m \in Voice /\ IsActive(m) /\ m.age = nextAge BY NewNote
<1> HIDE DEF free, m
<1>3. /\ s \in Slots /\ ws \in [Slots -> Voice]
      /\ Notes(ws) = WithRoom(Notes(free)) \cup {m}
      /\ ActiveSlots(ws) = ActiveSlots(free) \cup {s}
  BY <1>1, <1>2, PlacedNotes
<1>4. /\ voices' = ws /\ nextAge' = nextAge + 1
      /\ sounding' = WithRoom(Notes(free)) \cup {m}
  BY <1>1 DEF Trigger, free, m
<1> HIDE DEF s
<1>5. \A i \in Slots : ws[i] = IF i = s THEN m ELSE free[i] BY <1>1
<1>6. ActiveSlots(free) \subseteq Slots BY DEF ActiveSlots
<1>7. \A i \in ActiveSlots(free) : free[i].age \in Nat /\ free[i].age < nextAge
  BY <1>1, <1>6 DEF Younger, Voice
<1> HIDE DEF ws
<1>8. OneSlotEach(ws) BY <1>1, <1>2, <1>3, <1>5, <1>6, <1>7 DEF OneSlotEach
<1>9. Younger(ws, nextAge + 1) BY <1>2, <1>3, <1>5, <1>6, <1>7 DEF Younger
<1>10. nextAge + 1 \in Nat OBVIOUS
<1>11. PoolIsTheNotes' BY <1>3, <1>4 DEF PoolIsTheNotes, Notes
<1> QED BY <1>3, <1>4, <1>8, <1>9, <1>10, <1>11 DEF PoolInv, PoolTypeOK

LEMMA PoolInitInv == PoolInit => PoolInv
<1> SUFFICES ASSUME PoolInit PROVE PoolInv OBVIOUS
<1>1. Idle \in Voice /\ ~IsActive(Idle)
  <2>1. Silence \in Sound /\ Silence.frames = 0 BY DEF Silence, Sound
  <2>2. -1 <= 0 /\ ~(-1 >= 0) OBVIOUS
  <2> QED BY <2>1, <2>2, VoicePoolAssumption DEF Idle, Voice, IsActive
<1>2. ActiveSlots(voices) = {} BY <1>1 DEF PoolInit, ActiveSlots
<1> QED BY <1>1, <1>2
     DEF PoolInit, PoolInv, PoolTypeOK, OneSlotEach, Younger, PoolIsTheNotes

LEMMA PoolStepInv == PoolInv /\ [PoolNext]_poolVars => PoolInv'
<1> SUFFICES ASSUME PoolInv, [PoolNext]_poolVars PROVE PoolInv' OBVIOUS
<1>0. /\ voices \in [Slots -> Voice] /\ nextAge \in Nat
      /\ OneSlotEach(voices) /\ Younger(voices, nextAge) /\ sounding = Notes(voices)
  BY DEF PoolInv, PoolTypeOK, PoolIsTheNotes, Notes
<1>1. ASSUME NEW n \in Nat
      PROVE  /\ Rendered(voices, n) \in [Slots -> Voice]
             /\ Notes(Rendered(voices, n)) = NotesAfter(sounding, n)
             /\ OneSlotEach(Rendered(voices, n))
             /\ Younger(Rendered(voices, n), nextAge)
  BY <1>0, RenderedNotes
<1>2. ASSUME NEW n \in Nat, NEW p \in Pads, NEW g \in Groups, NEW snd \in Sounds[p],
             Trigger(Rendered(voices, n), NotesAfter(sounding, n), p, g, snd)
      PROVE  PoolInv'
  <2> DEFINE vs == Rendered(voices, n)
             notes == NotesAfter(sounding, n)
  <2>1. /\ vs \in [Slots -> Voice] /\ notes = Notes(vs)
        /\ OneSlotEach(vs) /\ Younger(vs, nextAge) /\ Trigger(vs, notes, p, g, snd)
    BY <1>1, <1>2
  <2> HIDE DEF vs, notes
  <2> QED BY <1>0, <2>1, TriggerInv
<1>3. ASSUME NEW n \in Nat, RenderVoices(n) PROVE PoolInv'
  <2>1. voices' = Rendered(voices, n) /\ sounding' = NotesAfter(sounding, n) /\ nextAge' = nextAge
    BY <1>3 DEF RenderVoices
  <2>2. PoolIsTheNotes' BY <1>1, <2>1 DEF PoolIsTheNotes, Notes
  <2> QED BY <1>0, <1>1, <2>1, <2>2 DEF PoolInv, PoolTypeOK
<1>4. ASSUME PreparePool PROVE PoolInv'
  <2>1. PoolInit' BY <1>4 DEF PreparePool, PoolInit
  <2>2. (PoolInit => PoolInv)'  BY PoolInitInv, PTL
  <2> QED BY <2>1, <2>2
<1>5. ASSUME UNCHANGED poolVars PROVE PoolInv'
  BY <1>5 DEF poolVars, PoolInv, PoolTypeOK, OneSlotEach, Younger, PoolIsTheNotes
<1> QED BY <1>2, <1>3, <1>4, <1>5 DEF PoolNext

(* VoicePool.h:6-17, for any number of voices: what the voices play is the   *)
(* notes that the policy, told without slots, keeps.                        *)
THEOREM PoolSpecIsTheNotes == PoolSpec => []PoolIsTheNotes
<1>1. PoolInv => PoolIsTheNotes BY DEF PoolInv
<1> QED BY <1>1, PoolInitInv, PoolStepInv, PTL DEF PoolSpec

(* Every voice keeps its type, and an age is never given twice. *)
THEOREM PoolSpecTypeOK == PoolSpec => []PoolTypeOK
<1>1. PoolInv => PoolTypeOK BY DEF PoolInv
<1> QED BY <1>1, PoolInitInv, PoolStepInv, PTL DEF PoolSpec

-----------------------------------------------------------------------------
(* Choke groups. What follows needs of a voice only that it has its fields,  *)
(* so that it can be used where the frames rendered are not known to be      *)
(* numbers.                                                                 *)

Shaped(vs) ==
  /\ DOMAIN vs = Slots
  /\ \A i \in Slots : DOMAIN vs[i] = {"pad", "group", "age", "left", "sound"}

(* Every live voice of ws was one of vs, in the same group. *)
Thinned(ws, vs) ==
  /\ Shaped(ws)
  /\ ActiveSlots(ws) \subseteq ActiveSlots(vs)
  /\ \A i \in ActiveSlots(ws) : ws[i].group = vs[i].group

LEMMA ThinnedExclusive ==
  ASSUME NEW vs, NEW ws, Thinned(ws, vs), Exclusive(vs)
  PROVE  Exclusive(ws)
  BY DEF Thinned, Exclusive

LEMMA ShapedStopped ==
  ASSUME NEW v, DOMAIN v = {"pad", "group", "age", "left", "sound"}
  PROVE  /\ DOMAIN Stopped(v) = {"pad", "group", "age", "left", "sound"}
         /\ Stopped(v).group = v.group
         /\ ~IsActive(Stopped(v))
<1>1. ~(-1 >= 0) OBVIOUS
<1>2. Stopped(v).left = -1 /\ Stopped(v).group = v.group /\ DOMAIN Stopped(v) = DOMAIN v
  BY DEF Stopped
<1> QED BY <1>1, <1>2 DEF IsActive

LEMMA RenderedThinned ==
  ASSUME NEW vs, Shaped(vs), NEW n
  PROVE  Thinned(Rendered(vs, n), vs)
<1> DEFINE ws == Rendered(vs, n)
<1>1. \A i \in Slots :
        /\ \/ ws[i] = vs[i]
           \/ ws[i] = [vs[i] EXCEPT !.left = vs[i].left - n]
           \/ ws[i] = Stopped(vs[i])
        /\ ~IsActive(vs[i]) => ws[i] = vs[i]
  BY DEF Rendered
<1>2. DOMAIN ws = Slots BY DEF Rendered
<1> HIDE DEF ws
<1>3. \A i \in Slots : /\ DOMAIN ws[i] = {"pad", "group", "age", "left", "sound"}
                       /\ ws[i].group = vs[i].group
  <2> TAKE i \in Slots
  <2>1. DOMAIN vs[i] = {"pad", "group", "age", "left", "sound"} BY DEF Shaped
  <2>2. CASE ws[i] = vs[i] BY <2>1, <2>2
  <2>3. CASE ws[i] = [vs[i] EXCEPT !.left = vs[i].left - n] BY <2>1, <2>3
  <2>4. CASE ws[i] = Stopped(vs[i]) BY <2>1, <2>4, ShapedStopped
  <2> QED BY <1>1, <2>2, <2>3, <2>4
<1>4. \A i \in Slots : IsActive(ws[i]) => IsActive(vs[i]) BY <1>1
<1>5. Thinned(ws, vs) BY <1>2, <1>3, <1>4 DEF Thinned, Shaped, ActiveSlots
<1> QED BY <1>5 DEF ws

LEMMA ChokedThinned ==
  ASSUME NEW vs, Shaped(vs), NEW g
  PROVE  /\ Thinned(Choked(vs, g), vs)
         /\ g # NoChoke => \A i \in ActiveSlots(Choked(vs, g)) : Choked(vs, g)[i].group # g
<1> DEFINE ws == Choked(vs, g)
           C(i) == g # NoChoke /\ IsActive(vs[i]) /\ vs[i].group = g
<1>1. \A i \in Slots : ws[i] = IF C(i) THEN Stopped(vs[i]) ELSE vs[i] BY DEF Choked
<1>2. DOMAIN ws = Slots BY DEF Choked
<1> HIDE DEF ws
<1>3. \A i \in Slots : /\ DOMAIN ws[i] = {"pad", "group", "age", "left", "sound"}
                       /\ ws[i].group = vs[i].group
                       /\ C(i) => ~IsActive(ws[i])
                       /\ ~C(i) => ws[i] = vs[i]
  <2> TAKE i \in Slots
  <2>1. DOMAIN vs[i] = {"pad", "group", "age", "left", "sound"} BY DEF Shaped
  <2>2. ws[i] = IF C(i) THEN Stopped(vs[i]) ELSE vs[i] BY <1>1
  <2> HIDE DEF C
  <2>3. CASE C(i) BY <2>1, <2>2, <2>3, ShapedStopped
  <2>4. CASE ~C(i) BY <2>1, <2>2, <2>4
  <2> QED BY <2>3, <2>4
<1>4. \A i \in Slots : IsActive(ws[i]) => IsActive(vs[i]) /\ ~C(i)
  <2> HIDE DEF C
  <2> QED BY <1>3
<1>5. Thinned(ws, vs) BY <1>2, <1>3, <1>4 DEF Thinned, Shaped, ActiveSlots
<1>6. g # NoChoke => \A i \in ActiveSlots(ws) : ws[i].group # g
  BY <1>3, <1>4 DEF ActiveSlots
<1> QED BY <1>5, <1>6 DEF ws

LEMMA TriggerExclusive ==
  ASSUME NEW vs, Shaped(vs), Exclusive(vs), NEW notes, NEW p, NEW g, NEW snd,
         Trigger(vs, notes, p, g, snd)
  PROVE  Shaped(voices') /\ Exclusive(voices')
<1> DEFINE free == Choked(vs, g)
           m    == Note(p, g, nextAge, snd)
           s    == SelectVoice(free)
<1>1. /\ Thinned(free, vs)
      /\ g # NoChoke => \A i \in ActiveSlots(free) : free[i].group # g
  BY ChokedThinned
<1>2. Shaped(free) /\ Exclusive(free) BY <1>1, ThinnedExclusive DEF Thinned
<1>3. DOMAIN m = {"pad", "group", "age", "left", "sound"} /\ m.group = g BY DEF Note
<1>4. voices' = [free EXCEPT ![s] = m] BY DEF Trigger
<1> HIDE DEF free, m, s
<1>5. /\ DOMAIN voices' = Slots
      /\ \A i \in Slots : voices'[i] = IF i = s THEN m ELSE free[i]
  BY <1>2, <1>4 DEF Shaped
<1>6. Shaped(voices') BY <1>2, <1>3, <1>5 DEF Shaped
<1>7. \A i \in ActiveSlots(voices') : i # s => i \in ActiveSlots(free) /\ voices'[i] = free[i]
  BY <1>5 DEF ActiveSlots
<1>8. Exclusive(voices')
  <2> SUFFICES ASSUME NEW i \in ActiveSlots(voices'), NEW j \in ActiveSlots(voices'),
                      i # j, voices'[i].group = voices'[j].group
               PROVE  voices'[i].group = NoChoke
    BY DEF Exclusive
  <2>0. i \in Slots /\ j \in Slots BY DEF ActiveSlots
  <2>1. CASE i # s /\ j # s BY <1>2, <1>7, <2>1 DEF Exclusive
  <2>2. CASE i = s BY <1>1, <1>3, <1>5, <1>7, <2>0, <2>2
  <2>3. CASE j = s BY <1>1, <1>3, <1>5, <1>7, <2>0, <2>3
  <2> QED BY <2>1, <2>2, <2>3
<1> QED BY <1>6, <1>8

LEMMA IdleExclusive ==
  ASSUME NEW vs, vs = [i \in Slots |-> Idle]
  PROVE  Shaped(vs) /\ Exclusive(vs)
<1>1. DOMAIN Idle = {"pad", "group", "age", "left", "sound"} /\ ~IsActive(Idle)
  <2>1. ~(-1 >= 0) OBVIOUS
  <2> QED BY <2>1 DEF Idle, IsActive
<1>2. DOMAIN vs = Slots /\ \A i \in Slots : vs[i] = Idle OBVIOUS
<1> QED BY <1>1, <1>2 DEF Shaped, Exclusive, ActiveSlots

-----------------------------------------------------------------------------
(* LaneGrid: what Lane.h promises of a lane's own grid, for every step of a  *)
(* run of any length. *)

LEMMA Rates == /\ LaneStepRate(TRUE).num = 4 /\ LaneStepRate(TRUE).den = 3
               /\ LaneStepRate(FALSE).num = 1 /\ LaneStepRate(FALSE).den = 1
  BY DEF LaneStepRate

LEMMA First ==
  ASSUME NEW g \in Nat
  PROVE  /\ FirstLaneStep(LaneStepRate(TRUE), g) = (3 * g + 3) \div 4
         /\ FirstLaneStep(LaneStepRate(FALSE), g) = g
<1>1. FirstLaneStep(LaneStepRate(TRUE), g) = (g * 3 + 4 - 1) \div 4
  BY Rates DEF FirstLaneStep, CeilDiv
<1>2. FirstLaneStep(LaneStepRate(FALSE), g) = (g * 1 + 1 - 1) \div 1
  BY Rates DEF FirstLaneStep, CeilDiv
<1>3. g * 3 + 4 - 1 = 3 * g + 3 /\ (g * 1 + 1 - 1) \div 1 = g OBVIOUS
<1> QED BY <1>1, <1>2, <1>3

(* The lane steps of a global step, in the plain. *)
LEMMA StepsOf ==
  ASSUME NEW g \in Nat, NEW p \in Nat
  PROVE  /\ p \in LaneStepsInGlobalStep(LaneStepRate(TRUE), g)
              <=> (3 * g <= 4 * p /\ 4 * p < 3 * g + 3)
         /\ p \in LaneStepsInGlobalStep(LaneStepRate(FALSE), g) <=> p = g
<1>1. \A rate : p \in LaneStepsInGlobalStep(rate, g) <=>
                  p \in FirstLaneStep(rate, g) .. FirstLaneStep(rate, g + 1) - 1
  BY DEF LaneStepsInGlobalStep
<1>2. /\ FirstLaneStep(LaneStepRate(TRUE), g + 1) = (3 * (g + 1) + 3) \div 4
      /\ FirstLaneStep(LaneStepRate(FALSE), g + 1) = g + 1
  <2>1. g + 1 \in Nat OBVIOUS
  <2> QED BY <2>1, First
<1>3. p \in (3 * g + 3) \div 4 .. (3 * (g + 1) + 3) \div 4 - 1
        <=> (3 * g <= 4 * p /\ 4 * p < 3 * g + 3)
  OBVIOUS
<1>4. p \in g .. g + 1 - 1 <=> p = g OBVIOUS
<1>5. p \in LaneStepsInGlobalStep(LaneStepRate(TRUE), g)
        <=> p \in (3 * g + 3) \div 4 .. (3 * (g + 1) + 3) \div 4 - 1
  <2>1. FirstLaneStep(LaneStepRate(TRUE), g) = (3 * g + 3) \div 4 BY First
  <2> QED BY <1>1, <1>2, <2>1, Zenon
<1>6. p \in LaneStepsInGlobalStep(LaneStepRate(FALSE), g) <=> p \in g .. g + 1 - 1
  <2> DEFINE inStep == p \in LaneStepsInGlobalStep(LaneStepRate(FALSE), g)
             first  == FirstLaneStep(LaneStepRate(FALSE), g)
             end    == FirstLaneStep(LaneStepRate(FALSE), g + 1)
  <2>1. first = g /\ end = g + 1 BY <1>2, First
  <2>2. inStep <=> p \in first .. end - 1 BY <1>1
  <2> HIDE DEF inStep, first, end
  <2>3. inStep <=> p \in g .. g + 1 - 1 BY <2>1, <2>2
  <2> QED BY <2>3 DEF inStep
<1> QED BY <1>3, <1>4, <1>5, <1>6, Zenon

(* Lane.h:64-66: a lane step begins in the global step whose span holds its   *)
(* start, and in no other: over a run of any length none is skipped and none *)
(* begins twice, for straight lanes and for triplets.                       *)
THEOREM OneGlobalStep ==
  ASSUME NEW triplet \in BOOLEAN, NEW p \in Nat
  PROVE  \E g \in Nat : \A h \in Nat :
           p \in LaneStepsInGlobalStep(LaneStepRate(triplet), h) <=> h = g
<1>1. CASE triplet = TRUE
  <2> DEFINE g == (4 * p) \div 3
  <2>1. g \in Nat OBVIOUS
  <2>2. ASSUME NEW h \in Nat
        PROVE  p \in LaneStepsInGlobalStep(LaneStepRate(TRUE), h) <=> h = g
    <3>1. p \in LaneStepsInGlobalStep(LaneStepRate(TRUE), h)
            <=> (3 * h <= 4 * p /\ 4 * p < 3 * h + 3)
      BY StepsOf
    <3>2. (3 * h <= 4 * p /\ 4 * p < 3 * h + 3) <=> h = (4 * p) \div 3 OBVIOUS
    <3> QED BY <3>1, <3>2
  <2> QED BY <1>1, <2>1, <2>2
<1>2. CASE triplet = FALSE
  <2>1. \A h \in Nat : p \in LaneStepsInGlobalStep(LaneStepRate(FALSE), h) <=> h = p BY StepsOf
  <2> QED BY <1>2, <2>1
<1> QED BY <1>1, <1>2

(* Lane.h:77: the offset of a lane step in the global step it begins in is    *)
(* in [0, 1), and 0 for a straight lane. So no event lies before the step     *)
(* that generates it.                                                       *)
THEOREM OffsetWithinStep ==
  ASSUME NEW triplet \in BOOLEAN, NEW g \in Nat,
         NEW p \in Nat, p \in LaneStepsInGlobalStep(LaneStepRate(triplet), g)
  PROVE  /\ LaneStepOffset(LaneStepRate(triplet), p, g) \in 0 .. LaneStepRate(triplet).den - 1
         /\ triplet = FALSE => LaneStepOffset(LaneStepRate(triplet), p, g) = 0
<1>1. CASE triplet = TRUE
  <2>1. 3 * g <= 4 * p /\ 4 * p < 3 * g + 3 BY <1>1, StepsOf
  <2>2. p * 4 - g * 3 \in 0 .. 3 - 1 BY <2>1
  <2>3. LaneStepOffset(LaneStepRate(TRUE), p, g) = p * 4 - g * 3 BY Rates DEF LaneStepOffset
  <2> QED BY <1>1, <2>2, <2>3, Rates
<1>2. CASE triplet = FALSE
  <2>1. p = g BY <1>2, StepsOf
  <2>2. LaneStepOffset(LaneStepRate(FALSE), p, g) = p * 1 - g * 1 BY Rates DEF LaneStepOffset
  <2>3. LaneStepRate(FALSE).den = 1 BY Rates, Zenon
  <2>4. p * 1 - g * 1 = 0 BY <2>1
  <2>5. LaneStepOffset(LaneStepRate(FALSE), p, g) = 0 BY <2>2, <2>4
  <2>6. 0 \in 0 .. 1 - 1 OBVIOUS
  <2> QED BY <1>2, <2>3, <2>5, <2>6
<1> QED BY <1>1, <1>2

(* Lane.h:85: the playhead of a lane is the last of its steps that began no   *)
(* later than this global step: the next one begins after it.               *)
THEOREM PlayheadIsTheLastBegun ==
  ASSUME NEW triplet \in BOOLEAN, NEW g \in Nat
  PROVE  LET rate == LaneStepRate(triplet)
             p    == LaneStepAtGlobalStep(rate, g)
         IN  /\ p \in Nat
             /\ LaneStepOffset(rate, p, g) <= 0
             /\ LaneStepOffset(rate, p + 1, g) > 0
<1>1. CASE triplet = TRUE
  <2>1. LaneStepAtGlobalStep(LaneStepRate(TRUE), g) = (g * 3) \div 4
    BY Rates DEF LaneStepAtGlobalStep
  <2>2. \A q \in Nat : LaneStepOffset(LaneStepRate(TRUE), q, g) = q * 4 - g * 3
    BY Rates DEF LaneStepOffset
  <2> DEFINE p == (g * 3) \div 4
  <2>3. p \in Nat /\ p + 1 \in Nat /\ p * 4 - g * 3 <= 0 /\ (p + 1) * 4 - g * 3 > 0 OBVIOUS
  <2> HIDE DEF p
  <2>4. LaneStepOffset(LaneStepRate(TRUE), p, g) <= 0 BY <2>2, <2>3
  <2>5. LaneStepOffset(LaneStepRate(TRUE), p + 1, g) > 0 BY <2>2, <2>3
  <2>6. LaneStepAtGlobalStep(LaneStepRate(TRUE), g) = p BY <2>1 DEF p
  <2> QED BY <1>1, <2>3, <2>4, <2>5, <2>6
<1>2. CASE triplet = FALSE
  <2>1. LaneStepAtGlobalStep(LaneStepRate(FALSE), g) = (g * 1) \div 1
    BY Rates DEF LaneStepAtGlobalStep
  <2>2. (g * 1) \div 1 = g OBVIOUS
  <2>3. \A q \in Nat : LaneStepOffset(LaneStepRate(FALSE), q, g) = q * 1 - g * 1
    BY Rates DEF LaneStepOffset
  <2>4. g + 1 \in Nat /\ g * 1 - g * 1 <= 0 /\ (g + 1) * 1 - g * 1 > 0 OBVIOUS
  <2>5. LaneStepOffset(LaneStepRate(FALSE), g, g) <= 0 BY <2>3, <2>4
  <2>6. LaneStepOffset(LaneStepRate(FALSE), g + 1, g) > 0 BY <2>3, <2>4
  <2> QED BY <1>2, <2>1, <2>2, <2>5, <2>6
<1> QED BY <1>1, <1>2

-----------------------------------------------------------------------------
(* StepClock: the clock's arithmetic, for every set of tempos and block      *)
(* sizes. *)

(* Rounding half a sample moves nothing by more than half a sample. *)
LEMMA HalfUp == ASSUME NEW x \in Nat PROVE /\ (x + 1) \div 2 \in Nat
                                           /\ 2 * ((x + 1) \div 2) - x \in 0 .. 1
  OBVIOUS

(* The grid starts no later than the pending step, and the pending step is   *)
(* not before the block. *)
GridOK == baseStep <= nextStep

ClockInv == ClockTypeOK /\ GridOK /\ NeverLate /\ NoJump

(* The step after the pending one is a step of the tempo later. *)
LEMMA NextStepSample ==
  ASSUME ClockTypeOK, GridOK
  PROVE  /\ StepSampleOf(nextStep) \in Nat
         /\ StepSampleOf(nextStep + 1) \in Nat
         /\ 2 * (StepSampleOf(nextStep + 1) - StepSampleOf(nextStep)) - tempo \in -1 .. 1
<1>0. \A i : StepSampleOf(i) = baseSample + ((i - baseStep) * tempo + 1) \div 2
  BY DEF StepSampleOf
<1> HIDE DEF StepSampleOf
<1> DEFINE k == nextStep - baseStep
           x == k * tempo
           next == nextStep + 1
           y == (next - baseStep) * tempo
<1>1. k \in Nat /\ tempo \in Nat BY StepClockAssumption DEF ClockTypeOK, GridOK
<1>2. x \in Nat BY <1>1
<1>3. y = x + tempo
  <2>1. next - baseStep = k + 1 BY DEF ClockTypeOK
  <2>2. (k + 1) * tempo = k * tempo + tempo BY <1>1
  <2> QED BY <2>1, <2>2
<1>4. StepSampleOf(nextStep) = baseSample + (x + 1) \div 2 BY <1>0
<1>5. StepSampleOf(next) = baseSample + (y + 1) \div 2
  <2> HIDE DEF next
  <2> QED BY <1>0
<1>6. x + tempo \in Nat BY <1>1, <1>2
<1>7. baseSample \in Nat BY DEF ClockTypeOK
<1> HIDE DEF k, x, y
<1>8. (x + 1) \div 2 \in Nat /\ 2 * ((x + 1) \div 2) - x \in 0 .. 1 BY <1>2, HalfUp
<1>9. /\ (x + tempo + 1) \div 2 \in Nat
      /\ 2 * ((x + tempo + 1) \div 2) - (x + tempo) \in 0 .. 1 BY <1>6, HalfUp
<1> QED BY <1>1, <1>2, <1>3, <1>4, <1>5, <1>7, <1>8, <1>9

(* A rebase on the pending step leaves it where it is. *)
LEMMA Rebased ==
  ASSUME ClockTypeOK, GridOK, NEW t \in Tempos, SetTempo(t)
  PROVE  StepSampleOf(nextStep)' = StepSampleOf(nextStep)
<1>1. StepSampleOf(nextStep) \in Nat BY NextStepSample
<1>2. (nextStep' - baseStep') * tempo' = 0
  BY StepClockAssumption DEF SetTempo, ClockTypeOK
<1>3. (0 + 1) \div 2 = 0 OBVIOUS
<1> QED BY <1>1, <1>2, <1>3 DEF SetTempo, StepSampleOf

LEMMA ClockInitInv == ClockInit => ClockInv
<1> SUFFICES ASSUME ClockInit PROVE ClockInv OBVIOUS
<1>1. (nextStep - baseStep) * tempo = 0 BY StepClockAssumption DEF ClockInit
<1>2. (0 + 1) \div 2 = 0 OBVIOUS
<1>3. StepSampleOf(nextStep) = 0 BY <1>1, <1>2 DEF ClockInit, StepSampleOf
<1> QED BY <1>3 DEF ClockInit, ClockInv, ClockTypeOK, GridOK, NeverLate, NoJump

LEMMA ClockStepInv == ClockInv /\ [ClockNext]_clockVars => ClockInv'
<1> SUFFICES ASSUME ClockInv, [ClockNext]_clockVars PROVE ClockInv' OBVIOUS
<1> USE DEF ClockInv
<1>0. StepSampleOf(nextStep) \in Nat BY NextStepSample
<1>1. ASSUME NEW t \in Tempos, SetTempo(t) PROVE ClockInv'
  <2>1. StepSampleOf(nextStep)' = StepSampleOf(nextStep) BY <1>1, Rebased
  <2>2. ClockTypeOK' /\ GridOK' BY <1>0, <1>1 DEF SetTempo, ClockTypeOK, GridOK
  <2>3. NeverLate' BY <1>1, <2>1 DEF SetTempo, NeverLate
  <2>4. NoJump' BY <1>1, <2>1 DEF SetTempo, NoJump
  <2> QED BY <2>2, <2>3, <2>4
<1>2. ASSUME NEW t \in Tempos, PrepareClock(t) \/ (Reset /\ t = tempo) PROVE ClockInv'
  <2>1. (nextStep' - baseStep') * tempo' = 0
    BY <1>2, StepClockAssumption DEF PrepareClock, Reset, ClockTypeOK
  <2>2. (0 + 1) \div 2 = 0 OBVIOUS
  <2>3. StepSampleOf(nextStep)' = 0 BY <1>2, <2>1, <2>2 DEF PrepareClock, Reset, StepSampleOf
  <2> QED BY <1>2, <2>3 DEF PrepareClock, Reset, ClockTypeOK, GridOK, NeverLate, NoJump
<1>3. ASSUME NEW n \in Blocks, BeginSteps(n) PROVE ClockInv'
  <2>1. StepSampleOf(nextStep)' = StepSampleOf(nextStep)
    BY <1>3 DEF BeginSteps, StepSampleOf, grid
  <2>2. n \in Nat BY StepClockAssumption
  <2> QED BY <1>3, <2>1, <2>2 DEF BeginSteps, grid, ClockTypeOK, GridOK, NeverLate, NoJump
<1>4. ASSUME AdvanceStep PROVE ClockInv'
  <2>1. StepSampleOf(nextStep)' = StepSampleOf(nextStep + 1)
    BY <1>4 DEF AdvanceStep, StepSampleOf, grid
  <2>2. /\ StepSampleOf(nextStep + 1) \in Nat
        /\ 2 * (StepSampleOf(nextStep + 1) - StepSampleOf(nextStep)) - tempo \in -1 .. 1
    BY NextStepSample
  <2>3. tempo \in Nat /\ tempo >= 2 BY StepClockAssumption DEF ClockTypeOK
  <2>4. ClockTypeOK' /\ GridOK' BY <1>0, <1>4 DEF AdvanceStep, grid, ClockTypeOK, GridOK
  <2>5. NeverLate'
    BY <1>0, <1>4, <2>1, <2>2, <2>3 DEF AdvanceStep, NeverLate, ClockTypeOK
  <2>6. NoJump' BY <1>4, <2>1, <2>2 DEF AdvanceStep, NoJump
  <2> QED BY <2>4, <2>5, <2>6
<1>5. ASSUME EndSteps PROVE ClockInv'
  <2>1. StepSampleOf(nextStep)' = StepSampleOf(nextStep) BY <1>5 DEF EndSteps, StepSampleOf, grid
  <2>2. StepSampleOf(nextStep) >= blockEnd /\ blockEnd \in Nat
    BY <1>0, <1>5 DEF EndSteps, StepIsDue, InBlock, ClockTypeOK
  <2> QED BY <1>5, <2>1, <2>2 DEF EndSteps, grid, ClockTypeOK, GridOK, NeverLate, NoJump
<1>6. ASSUME UNCHANGED clockVars PROVE ClockInv'
  BY <1>6 DEF clockVars, grid, ClockTypeOK, GridOK, NeverLate, NoJump, StepSampleOf
<1>7. tempo \in Tempos BY DEF ClockTypeOK
<1> QED BY <1>1, <1>2, <1>3, <1>4, <1>5, <1>6, <1>7 DEF ClockNext

(* Whatever tempo changes, resets and blocks come, in any order, the pending *)
(* step stays on the grid and never lies before the block.                  *)
THEOREM ClockSpecInv == ClockSpec => []ClockInv
  BY ClockInitInv, ClockStepInv, PTL DEF ClockSpec

(* Every variable of the clock keeps its type: no step is at a negative      *)
(* sample. *)
THEOREM ClockSpecTypeOK == ClockSpec => []ClockTypeOK
  BY ClockSpecInv, PTL DEF ClockInv

(* Clock.h:67: the clamp of a late step's offset never acts. *)
THEOREM ClockSpecNeverLate == ClockSpec => []NeverLate
  BY ClockSpecInv, PTL DEF ClockInv

(* Clock.h:40: "no jump" of the pending step, whenever the tempo changes. *)
THEOREM ClockSpecNoJump == ClockSpec => []NoJump
  BY ClockSpecInv, PTL DEF ClockInv

-----------------------------------------------------------------------------
(* StepEvents: the event path. *)

(* The tempos the user asks for are tempos. *)
TempoOK == pendingTempo \in Tempos

(* Every step of the event path is a step of the clock or leaves it alone. *)
LEMMA ClockStep == ClockTypeOK /\ TempoOK /\ [Next]_vars => [ClockNext]_clockVars /\ TempoOK'
<1> SUFFICES ASSUME ClockTypeOK, TempoOK, [Next]_vars
             PROVE  [ClockNext]_clockVars /\ TempoOK'
  OBVIOUS
<1> USE DEF TempoOK
<1>1. ASSUME MessageNext PROVE UNCHANGED clockVars /\ TempoOK'
  BY <1>1 DEF MessageNext, Play, Stop, ChangeTempo, ChangeFeel, ChangeAudible, PushCommand,
              engineVars, atomics
<1>2. ASSUME TakeTempo PROVE [ClockNext]_clockVars /\ TempoOK'
  BY <1>2 DEF TakeTempo, ClockNext
<1>3. ASSUME TakeReset PROVE [ClockNext]_clockVars /\ TempoOK'
  BY <1>3 DEF TakeReset, ClockNext
<1>4. ASSUME LoadPlaying \/ DrainCommand \/ RenderStopped \/ FireEvent \/ EndBlock
      PROVE  UNCHANGED clockVars /\ TempoOK'
  BY <1>4 DEF LoadPlaying, DrainCommand, RenderStopped, FireEvent, EndBlock, atomics
<1>5. ASSUME BeginBlock PROVE [ClockNext]_clockVars /\ TempoOK'
  BY <1>5 DEF BeginBlock, ClockNext, atomics
<1>6. ASSUME FireStep PROVE [ClockNext]_clockVars /\ TempoOK'
  BY <1>6 DEF FireStep, ClockNext, atomics
<1>7. ASSUME StepsDone PROVE [ClockNext]_clockVars /\ TempoOK'
  BY <1>7 DEF StepsDone, ClockNext, atomics
<1>8. ASSUME Prepare PROVE [ClockNext]_clockVars /\ TempoOK'
  BY <1>8 DEF Prepare, ClockNext, ClockTypeOK, atomics
<1>9. ASSUME UNCHANGED vars PROVE UNCHANGED clockVars /\ TempoOK'
  BY <1>9 DEF vars, atomics
<1> QED BY <1>1, <1>2, <1>3, <1>4, <1>5, <1>6, <1>7, <1>8, <1>9 DEF Next, AudioNext

LEMMA SpecClockInv == Spec => [](ClockInv /\ TempoOK)
<1>1. Init => ClockInv /\ TempoOK
  <2>1. Init => ClockInit /\ TempoOK
    BY DEF Init, ClockInit, TempoOK
  <2> QED BY <2>1, ClockInitInv
<1>2. ClockInv /\ TempoOK /\ [Next]_vars => (ClockInv /\ TempoOK)'
  <2>1. ClockInv => ClockTypeOK BY DEF ClockInv
  <2> QED BY <2>1, ClockStep, ClockStepInv
<1> QED BY <1>1, <1>2, PTL DEF Spec

(* The clock of the running transport is the clock of module StepClock. *)
THEOREM SpecClock == Spec => ClockSpec
<1>1. Init => ClockInit BY DEF Init
<1>2. ClockInv /\ TempoOK /\ [Next]_vars => [ClockNext]_clockVars
  BY ClockStep DEF ClockInv
<1> QED BY <1>1, <1>2, SpecClockInv, PTL DEF Spec, ClockSpec

(* Clock.h:67: no step of the running transport is late for its block.       *)
THEOREM SpecNeverLate == Spec => []NeverLate
  BY SpecClock, ClockSpecNeverLate, PTL

(* Clock.h:40: no tempo change of the user's, at any moment, makes the next   *)
(* step jump. *)
THEOREM SpecNoJump == Spec => []NoJump
  BY SpecClock, ClockSpecNoJump, PTL

-----------------------------------------------------------------------------
ChokeInv == Shaped(voices) /\ Exclusive(voices)

LEMMA ChokeStep == ChokeInv /\ [Next]_vars => ChokeInv'
<1> SUFFICES ASSUME ChokeInv, [Next]_vars PROVE ChokeInv' OBVIOUS
<1>0. Shaped(voices) /\ Exclusive(voices) BY DEF ChokeInv
<1>1. ASSUME NEW n, RenderVoices(n) PROVE ChokeInv'
  <2>1. Thinned(Rendered(voices, n), voices) BY <1>0, RenderedThinned
  <2>2. Shaped(Rendered(voices, n)) /\ Exclusive(Rendered(voices, n))
    BY <1>0, <2>1, ThinnedExclusive DEF Thinned
  <2>3. voices' = Rendered(voices, n) BY <1>1 DEF RenderVoices
  <2> QED BY <2>2, <2>3 DEF ChokeInv
<1>2. ASSUME NEW n, NEW notes, NEW p, NEW g, NEW snd,
             Trigger(Rendered(voices, n), notes, p, g, snd)
      PROVE  ChokeInv'
  <2>1. Thinned(Rendered(voices, n), voices) BY <1>0, RenderedThinned
  <2>2. Shaped(Rendered(voices, n)) /\ Exclusive(Rendered(voices, n))
    BY <1>0, <2>1, ThinnedExclusive DEF Thinned
  <2>3. Shaped(voices') /\ Exclusive(voices') BY <1>2, <2>2, TriggerExclusive
  <2> QED BY <2>3 DEF ChokeInv
<1>3. ASSUME NEW notes, NEW p, NEW g, NEW snd, Trigger(voices, notes, p, g, snd)
      PROVE  ChokeInv'
  <2>1. Shaped(voices') /\ Exclusive(voices') BY <1>0, <1>3, TriggerExclusive
  <2> QED BY <2>1 DEF ChokeInv
<1>4. ASSUME UNCHANGED voices PROVE ChokeInv' BY <1>4, <1>0 DEF ChokeInv
<1>5. ASSUME MessageNext PROVE UNCHANGED voices
  BY <1>5 DEF MessageNext, Play, Stop, ChangeTempo, ChangeFeel, ChangeAudible, PushCommand,
              engineVars, poolVars
<1>6. ASSUME TakeTempo \/ TakeReset \/ LoadPlaying \/ BeginBlock \/ FireStep \/ StepsDone
      PROVE  UNCHANGED voices
  BY <1>6 DEF TakeTempo, TakeReset, LoadPlaying, BeginBlock, FireStep, StepsDone, poolVars
<1>7. ASSUME DrainCommand PROVE ChokeInv'
  <2>1. UNCHANGED voices \/ \E notes, p, g, snd : Trigger(voices, notes, p, g, snd)
    BY <1>7 DEF DrainCommand, poolVars
  <2> QED BY <1>3, <1>4, <2>1
<1>8. ASSUME RenderStopped \/ EndBlock PROVE ChokeInv'
  <2>1. \E n : RenderVoices(n) BY <1>8 DEF RenderStopped, EndBlock
  <2> QED BY <1>1, <2>1
<1>9. ASSUME FireEvent PROVE ChokeInv'
  <2>1. \/ \E n : RenderVoices(n)
        \/ \E n, notes, p, g, snd : Trigger(Rendered(voices, n), notes, p, g, snd)
    BY <1>9 DEF FireEvent
  <2> QED BY <1>1, <1>2, <2>1
<1>10. ASSUME Prepare PROVE ChokeInv'
  <2>1. voices' = [i \in Slots |-> Idle] BY <1>10 DEF Prepare, PreparePool
  <2>2. Shaped(voices') /\ Exclusive(voices') BY <2>1, IdleExclusive
  <2> QED BY <2>2 DEF ChokeInv
<1>11. ASSUME UNCHANGED vars PROVE UNCHANGED voices BY <1>11 DEF vars, poolVars
<1> QED BY <1>4, <1>5, <1>6, <1>7, <1>8, <1>9, <1>10, <1>11 DEF Next, AudioNext

(* VoicePool.h:14: whatever is auditioned, sequenced, stolen or put into      *)
(* another group, two voices of one choke group never sound together.       *)
THEOREM SpecChokeExclusive == Spec => []ChokeExclusive
<1>1. Init => ChokeInv
  <2> SUFFICES ASSUME Init PROVE ChokeInv OBVIOUS
  <2>1. voices = [i \in Slots |-> Idle] BY DEF Init, PoolInit
  <2> QED BY <2>1, IdleExclusive DEF ChokeInv
<1>2. ChokeInv => ChokeExclusive BY DEF ChokeInv, Exclusive, ChokeExclusive
<1> QED BY <1>1, <1>2, ChokeStep, PTL DEF Spec

-----------------------------------------------------------------------------
(* The joins of FlattenSeq. The community module builds them with a function *)
(* that is recursive in the length; each fact about them is proved by the    *)
(* least length that breaks it.                                              *)

(* flatten of FlattenSeq, as a definition of its own. *)
Joins(seqs, f, n) ==
  f = [i \in 1 .. n |-> IF i = 1 THEN seqs[i] ELSE f[i - 1] \o seqs[i]]

LEMMA FlattenIsLast ==
  ASSUME NEW seqs, Len(seqs) # 0
  PROVE  FlattenSeq(seqs) = (CHOOSE f : Joins(seqs, f, Len(seqs)))[Len(seqs)]
  BY DEF FlattenSeq, Joins

(* However many sequences there are, their joins exist.                      *)
LEMMA JoinsExists ==
  ASSUME NEW seqs, NEW n \in Nat
  PROVE  \E f : Joins(seqs, f, n)
<1> DEFINE Bad == {m \in Nat : ~\E f : Joins(seqs, f, m)}
<1>1. SUFFICES ASSUME Bad # {} PROVE FALSE OBVIOUS
<1>2. PICK m \in Bad : \A k \in Bad : m <= k BY <1>1, LeastExists
<1>3. m # 0
  <2>1. Joins(seqs, [i \in 1 .. 0 |-> 0], 0) BY DEF Joins
  <2> QED BY <2>1
<1>4. m \in Nat /\ m - 1 \in Nat /\ m - 1 \notin Bad BY <1>2, <1>3
<1>5. PICK f : Joins(seqs, f, m - 1) BY <1>4 DEF Bad
<1> DEFINE g == [i \in 1 .. m |-> IF i < m THEN f[i]
                                  ELSE IF i = 1 THEN seqs[i] ELSE f[i - 1] \o seqs[i]]
           h == [i \in 1 .. m |-> IF i = 1 THEN seqs[i] ELSE g[i - 1] \o seqs[i]]
<1> HIDE DEF Bad
<1>6. ASSUME NEW i \in 1 .. m PROVE g[i] = h[i]
  <2>0. i \in Nat /\ i >= 1 /\ i <= m BY <1>4
  <2>1. CASE i = m
    <3>1. g[i] = IF i = 1 THEN seqs[i] ELSE f[i - 1] \o seqs[i] BY <2>0, <2>1
    <3>2. h[i] = IF i = 1 THEN seqs[i] ELSE g[i - 1] \o seqs[i] OBVIOUS
    <3>3. i # 1 => g[i - 1] = f[i - 1]
      <4>1. i # 1 => i - 1 \in 1 .. m /\ i - 1 < m BY <1>4, <2>0, <2>1
      <4> QED BY <4>1
    <3> HIDE DEF g, h
    <3> QED BY <3>1, <3>2, <3>3
  <2>2. CASE i < m
    <3>1. i \in 1 .. m - 1 BY <2>0, <2>2, <1>4
    <3>2. f[i] = IF i = 1 THEN seqs[i] ELSE f[i - 1] \o seqs[i] BY <1>5, <3>1 DEF Joins
    <3>3. i # 1 => g[i - 1] = f[i - 1]
      <4>1. i # 1 => i - 1 \in 1 .. m /\ i - 1 < m BY <1>4, <2>0, <2>2
      <4> QED BY <4>1
    <3>4. g[i] = f[i] BY <2>2
    <3>5. h[i] = IF i = 1 THEN seqs[i] ELSE g[i - 1] \o seqs[i] OBVIOUS
    <3> HIDE DEF g, h
    <3> QED BY <3>2, <3>3, <3>4, <3>5
  <2> QED BY <1>4, <2>0, <2>1, <2>2
<1>7. g = h
  <2> QED BY <1>6
<1>8. Joins(seqs, g, m) BY <1>7 DEF Joins
<1> QED BY <1>2, <1>8 DEF Bad

(* The joins of the first i. *)
LEMMA FlattenJoins ==
  ASSUME NEW seqs, Len(seqs) \in Nat, Len(seqs) # 0
  PROVE  \E f : /\ FlattenSeq(seqs) = f[Len(seqs)]
                /\ f[1] = seqs[1]
                /\ \A i \in 2 .. Len(seqs) : f[i] = f[i - 1] \o seqs[i]
<1> DEFINE n == Len(seqs)
           f == CHOOSE k : Joins(seqs, k, n)
<1>1. Joins(seqs, f, n) BY JoinsExists
<1>2. FlattenSeq(seqs) = f[n] BY FlattenIsLast
<1> HIDE DEF f
<1>3. f[1] = seqs[1] BY <1>1 DEF Joins
<1>4. ASSUME NEW i \in 2 .. n PROVE f[i] = f[i - 1] \o seqs[i]
  <2>1. i \in 1 .. n /\ i # 1 OBVIOUS
  <2> QED BY <1>1, <2>1 DEF Joins
<1> QED BY <1>2, <1>3, <1>4

(* What is joined of sequences over S is a sequence over S. *)
LEMMA FlattenSeqIn ==
  ASSUME NEW S, NEW seqs, Len(seqs) \in Nat, \A i \in 1 .. Len(seqs) : seqs[i] \in Seq(S),
         Len(seqs) = 0 => seqs = <<>>
  PROVE  FlattenSeq(seqs) \in Seq(S)
<1>0. CASE Len(seqs) = 0 BY <1>0 DEF FlattenSeq
<1>1. CASE Len(seqs) # 0
  <2>1. PICK f : /\ FlattenSeq(seqs) = f[Len(seqs)]
                 /\ f[1] = seqs[1]
                 /\ \A i \in 2 .. Len(seqs) : f[i] = f[i - 1] \o seqs[i]
    BY <1>1, FlattenJoins
  <2> DEFINE Bad == {i \in 1 .. Len(seqs) : f[i] \notin Seq(S)}
  <2>2. SUFFICES ASSUME Bad # {} PROVE FALSE
    <3>1. Len(seqs) \in 1 .. Len(seqs) BY <1>1
    <3> QED BY <2>1, <3>1
  <2> HIDE DEF Bad
  <2>3. PICK m \in Bad : \A k \in Bad : m <= k
    <3>1. Bad \subseteq Nat BY DEF Bad
    <3> QED BY <2>2, <3>1, LeastExists
  <2>8. m \in 1 .. Len(seqs) /\ f[m] \notin Seq(S) BY <2>3 DEF Bad
  <2>4. m # 1 BY <2>1, <2>8, <1>1
  <2>9. m - 1 \in 1 .. Len(seqs) /\ ~(m <= m - 1) BY <2>8, <2>4
  <2>5. f[m - 1] \in Seq(S) BY <2>3, <2>9 DEF Bad
  <2>10. m \in 2 .. Len(seqs) BY <2>8, <2>4
  <2>6. f[m] = f[m - 1] \o seqs[m] BY <2>1, <2>10
  <2>7. seqs[m] \in Seq(S) BY <2>8
  <2> QED BY <2>8, <2>5, <2>6, <2>7
<1> QED BY <1>0, <1>1
-----------------------------------------------------------------------------
(* Roundings. *)
LEMMA Rounds ==
  ASSUME NEW a \in Nat, NEW b \in Nat \ {0}
  PROVE  /\ RoundDiv(a, b) \in Nat
         /\ 2 * (b * RoundDiv(a, b)) - 2 * a \in -b .. b
<1> DEFINE q == (2 * a + b) \div (2 * b)
           x == 2 * a + b
           y == 2 * b
<1>1. x \in Nat /\ y \in Nat /\ y > 0 OBVIOUS
<1>2. q = x \div y OBVIOUS
<1> HIDE DEF q, x, y
<1>3. q \in Nat /\ y * q <= x /\ x < y * q + y BY <1>1, <1>2
<1>4. y * q = 2 * (b * q)
  <2>1. y = 2 * b BY DEF y
  <2> QED BY <1>3, <2>1
<1>5. RoundDiv(a, b) = q BY DEF RoundDiv, q
<1>6. b * q \in Nat BY <1>3
<1>7. x = 2 * a + b /\ y = 2 * b BY DEF x, y
<1> QED BY <1>3, <1>4, <1>5, <1>6, <1>7

LEMMA Between ==
  ASSUME NEW x \in Int, NEW lo \in Int, NEW hi \in Int, lo <= hi
  PROVE  BetweenOf(x, lo, hi) \in lo .. hi
  BY DEF BetweenOf

LEMMA Times ==
  ASSUME NEW r \in Nat, NEW c \in Nat, NEW d \in -c .. c
  PROVE  r * d \in -(c * r) .. c * r
<1>1. c - d \in Nat /\ c + d \in Nat OBVIOUS
<1>2. r * (c - d) \in Nat /\ r * (c + d) \in Nat BY <1>1
<1>3. r * (c - d) = c * r - r * d /\ r * (c + d) = c * r + r * d OBVIOUS
<1>4. c * r \in Nat /\ r * d \in Int OBVIOUS
<1> QED BY <1>2, <1>3, <1>4

(* The three roundings on the way from a step of a lane to its hit.          *)
LEMMA ThreeRoundings ==
  ASSUME NEW num \in Nat \ {0}, NEW den \in Nat \ {0}, NEW r \in Nat \ {0}, NEW t \in Nat,
         NEW g \in Nat, NEW p \in Nat, NEW fw \in Nat, NEW j \in Nat, NEW at \in Nat,
         2 * at - g * t \in 0 .. 1,
         p * num - g * den \in Nat
  PROVE  LET q1 == RoundDiv(t * (24 * (p * num - g * den) + fw * num), 2 * (24 * den))
             q2 == RoundDiv(t * (j * num), 2 * (den * r))
             s  == at + q1 + q2
         IN  /\ q1 \in Nat /\ q2 \in Nat
             /\ 2 * (s * 48 * den * r - t * num * (24 * r * p + r * fw + 24 * j))
                  \in -3 * (48 * den * r) .. 3 * (48 * den * r)
<1> DEFINE off == p * num - g * den
           a1 == t * (24 * off + fw * num)
           b1 == 2 * (24 * den)
           q1 == RoundDiv(a1, b1)
           a2 == t * (j * num)
           b2 == 2 * (den * r)
           q2 == RoundDiv(a2, b2)
           s  == at + q1 + q2
           d0 == 2 * at - g * t
           d1 == 2 * (b1 * q1) - 2 * a1
           d2 == 2 * (b2 * q2) - 2 * a2
           dev == 2 * (s * 48 * den * r - t * num * (24 * r * p + r * fw + 24 * j))
           u == den * r
<1>1. a1 \in Nat /\ b1 \in Nat \ {0}
  <2>1. fw * num \in Nat OBVIOUS
  <2>2. off \in Nat OBVIOUS
  <2> HIDE DEF off
  <2>3. 24 * off + fw * num \in Nat BY <2>1, <2>2
  <2> QED BY <2>3
<1>2. a2 \in Nat /\ b2 \in Nat \ {0}
  <2>1. j * num \in Nat OBVIOUS
  <2>2. den * r \in Nat \ {0} OBVIOUS
  <2> QED BY <2>1, <2>2
<1> HIDE DEF a1, b1, a2, b2
<1>3. q1 \in Nat /\ d1 \in -b1 .. b1 BY <1>1, Rounds
<1>4. q2 \in Nat /\ d2 \in -b2 .. b2 BY <1>2, Rounds
<1> HIDE DEF q1, q2
<1>5. dev = r * d1 + 24 * d2 + 48 * (u * d0)
  <2>1. dev = 96 * (den * r * at) + 96 * (den * r * q1) + 96 * (den * r * q2)
              - 48 * (t * num * r * p) - 2 * (t * num * r * fw) - 48 * (t * num * j)
    BY <1>3, <1>4
  <2>2. r * d1 = 96 * (den * r * q1) - 48 * (t * num * r * p) + 48 * (t * den * r * g)
                 - 2 * (t * num * r * fw)
    BY <1>3 DEF b1, a1
  <2>3. 24 * d2 = 96 * (den * r * q2) - 48 * (t * num * j) BY <1>4 DEF b2, a2
  <2>4. 48 * (u * d0) = 96 * (den * r * at) - 48 * (t * den * r * g) OBVIOUS
  <2> HIDE DEF dev, d0, d1, d2, u
  <2> DEFINE x1 == den * r * at
             x2 == den * r * q1
             x3 == den * r * q2
             x4 == t * num * r * p
             x5 == t * num * r * fw
             x6 == t * num * j
             x7 == t * den * r * g
  <2>5. x1 \in Int /\ x2 \in Int /\ x3 \in Int /\ x4 \in Int /\ x5 \in Int /\ x6 \in Int /\ x7 \in Int
    BY <1>3, <1>4
  <2> HIDE DEF x1, x2, x3, x4, x5, x6, x7
  <2> QED BY <2>1, <2>2, <2>3, <2>4, <2>5 DEF x1, x2, x3, x4, x5, x6, x7
<1>6. d0 \in 0 .. 1 /\ u \in Nat OBVIOUS
<1>7. r * d1 \in -(b1 * r) .. b1 * r
  <2> HIDE DEF d1
  <2> QED BY <1>1, <1>3, Times
<1>8. b1 * r = 48 * u BY DEF b1
<1>9. b2 = 2 * u BY DEF b2
<1>10. u * d0 \in 0 .. u
  <2> HIDE DEF d0, u
  <2>1. d0 = 0 \/ d0 = 1 BY <1>6
  <2> QED BY <2>1, <1>6
<1>11. 48 * den * r = 48 * u OBVIOUS
<1>12. d1 \in Int /\ d2 \in Int BY <1>1, <1>2, <1>3, <1>4
<1>13. dev \in -3 * (48 * den * r) .. 3 * (48 * den * r)
  <2> HIDE DEF dev, d0, d1, d2, u
  <2> DEFINE v1 == r * d1
             v0 == u * d0
  <2>1. v1 \in -(48 * u) .. 48 * u BY <1>7, <1>8
  <2>2. v0 \in 0 .. u BY <1>10
  <2>3. dev = v1 + 24 * d2 + 48 * v0 BY <1>5
  <2> HIDE DEF v0, v1
  <2>4. d2 \in -(2 * u) .. 2 * u BY <1>4, <1>9
  <2>5. dev \in -3 * (48 * u) .. 3 * (48 * u) BY <2>1, <2>2, <2>3, <2>4, <1>6
  <2> QED BY <2>5, <1>11
<1> QED BY <1>3, <1>4, <1>13 DEF q1, q2, a1, a2, b1, b2

-----------------------------------------------------------------------------
(* GeneratedEvents: what a step generates is never before the step, on a pad  *)
(* of the kit, and where the tempo of its step number puts it.               *)

(* An event is named for its lane step and ratchet, or its roll and hit.     *)
Names    == {"lane", "roll"} \X Nat \X Nat \X Nat
Event    == [sample : Nat, pad : Pads, of : Names, late : Nat]
HitOf(e) == [of |-> e.of, at |-> e.sample, sample |-> e.sample, late |-> e.late]

(* A hit is where its step's tempo puts it, but for three roundings.         *)
Near(h) == Deviation(h) \in -3 * Scale(h) .. 3 * Scale(h)

(* What a step that begins at sample at may generate; plain: no tempo was    *)
(* taken since the top.                                                     *)
NewEvents(at, plain) == {e \in Event : e.sample >= at /\ (plain => Near(HitOf(e)))}

(* A hash is a number, however it is scaled.                                 *)
LEMMA Hashes ==
  ASSUME NEW p \in Nat, NEW li \in Nat, NEW amount \in Nat
  PROVE  Timing(p, li, amount) \in Nat
<1>1. Hash(p, li) \in Nat BY DEF Hash
<1> QED BY <1>1 DEF Timing

(* What a lane of a pattern is.                                              *)
LEMMA LaneOK ==
  ASSUME pattern \in Patterns, NEW li \in DOMAIN pattern.lanes
  PROVE  /\ li \in Nat
         /\ pattern.lanes[li].pad \in Pads
         /\ pattern.lanes[li].triplet \in BOOLEAN
         /\ pattern.lanes[li].length \in Int
         /\ LaneLength(pattern.lanes[li]) \in Nat \ {0}
         /\ \A pos \in DOMAIN pattern.lanes[li].lit :
              /\ pattern.lanes[li].lit[pos].shift \in Int
              /\ RatchetCount(pattern.lanes[li].lit[pos]) \in 1 .. 8
<1>1. PatternOK(pattern) BY StepEventsAssumption
<1>2. li \in Nat BY <1>1 DEF PatternOK
<1>3. ASSUME NEW pos \in DOMAIN pattern.lanes[li].lit
      PROVE  /\ pattern.lanes[li].lit[pos].shift \in Int
             /\ RatchetCount(pattern.lanes[li].lit[pos]) \in 1 .. 8
  <2>1. pattern.lanes[li].lit[pos].shift \in Int /\ pattern.lanes[li].lit[pos].ratchets \in Int
    BY <1>1 DEF PatternOK
  <2>2. \A x \in Int : BetweenOf(x, 1, 8) \in 1 .. 8 BY DEF BetweenOf
  <2>3. RatchetCount(pattern.lanes[li].lit[pos]) \in 1 .. 8 BY <2>1, <2>2, Zenon DEF RatchetCount
  <2> QED BY <2>1, <2>3
<1>4. /\ pattern.lanes[li].length \in Int
      /\ pattern.lanes[li].pad \in Pads /\ pattern.lanes[li].triplet \in BOOLEAN
  BY <1>1 DEF PatternOK
<1>5. LaneLength(pattern.lanes[li]) \in Nat \ {0}
  <2>1. \A x \in Int : BetweenOf(x, 1, MaxStepsPerLane) \in Nat \ {0}
    BY DEF BetweenOf, MaxStepsPerLane
  <2> QED BY <1>4, <2>1, Zenon DEF LaneLength
<1> QED BY <1>2, <1>3, <1>4, <1>5

LEMMA ForwardNat ==
  ASSUME pattern \in Patterns, feel \in Feels, NEW li \in DOMAIN pattern.lanes, NEW p \in Nat,
         NEW s, s.shift \in Int
  PROVE  Forward(pattern.lanes[li], li, p, s) \in Nat
<1>1. feel.swing \in Nat /\ feel.humanise \in Nat BY StepEventsAssumption
<1>2. Timing(p, li, feel.humanise) \in Nat BY <1>1, LaneOK, Hashes
<1>3. BetweenOf(s.shift, 0, Part \div 2) \in 0 .. 12
  <2>1. Part \div 2 = 12 BY DEF Part
  <2>2. \A x \in Int : BetweenOf(x, 0, 12) \in 0 .. 12 BY DEF BetweenOf
  <2> QED BY <2>1, <2>2
<1> DEFINE sw == IF ~pattern.lanes[li].triplet /\ p % 2 = 1 THEN feel.swing ELSE 0
<1>4. sw \in Nat BY <1>1
<1>5. Forward(pattern.lanes[li], li, p, s)
        = BetweenOf(s.shift, 0, Part \div 2) + sw + Timing(p, li, feel.humanise)
  BY DEF Forward
<1> HIDE DEF sw
<1> QED BY <1>2, <1>3, <1>4, <1>5

(* Lane step p lies in global step g. *)
LEMMA StepsIn ==
  ASSUME NEW triplet \in BOOLEAN, NEW g \in Nat,
         NEW p \in LaneStepsInGlobalStep(LaneStepRate(triplet), g)
  PROVE  /\ p \in Nat
         /\ LaneStepRate(triplet).num \in Nat \ {0}
         /\ LaneStepRate(triplet).den \in Nat \ {0}
         /\ p * LaneStepRate(triplet).num - g * LaneStepRate(triplet).den \in Nat
<1>1. FirstLaneStep(LaneStepRate(triplet), g) \in Nat
  <2>1. (3 * g + 3) \div 4 \in Nat OBVIOUS
  <2> QED BY <2>1, First
<1>2. p \in Nat /\ FirstLaneStep(LaneStepRate(triplet), g) <= p
  BY <1>1 DEF LaneStepsInGlobalStep
<1>3. CASE triplet = TRUE
  <2>1. 3 * g <= 4 * p BY <1>2, <1>3, StepsOf
  <2>2. LaneStepRate(triplet).num = 4 /\ LaneStepRate(triplet).den = 3 BY <1>3, Rates
  <2> QED BY <1>2, <2>1, <2>2
<1>4. CASE triplet = FALSE
  <2>1. p = g BY <1>2, <1>4, StepsOf
  <2>2. LaneStepRate(triplet).num = 1 /\ LaneStepRate(triplet).den = 1 BY <1>4, Rates
  <2> QED BY <1>2, <2>1, <2>2
<1> QED BY <1>3, <1>4

(* The event of ratchet j of a lane step. *)
LaneEvent(li, p, g, at, j) ==
  LET lane == pattern.lanes[li]
      rate == LaneStepRate(lane.triplet)
      s    == lane.lit[p % LaneLength(lane)]
      fw   == Forward(lane, li, p, s)
  IN  [sample |-> at + Scaled(tempo, Part * LaneStepOffset(rate, p, g) + fw * rate.num,
                              Part * rate.den)
                   + Scaled(tempo, (j - 1) * rate.num, rate.den * RatchetCount(s)),
       pad |-> lane.pad, of |-> <<"lane", li, p, j - 1>>, late |-> fw]

(* The hits of a lane step are the events of its ratchets.                   *)
LEMMA StepHitsAre ==
  ASSUME NEW li, NEW p, NEW g, NEW at
  PROVE  LET lane == pattern.lanes[li]
             pos  == p % LaneLength(lane)
         IN  StepHits(li, p, g, at) =
               IF pos \notin DOMAIN lane.lit \/ Gated(lane.lit[pos], p, li) THEN <<>>
               ELSE [j \in 1 .. RatchetCount(lane.lit[pos]) |-> LaneEvent(li, p, g, at, j)]
  BY DEF StepHits, LaneEvent

(* No swing, shift, humanising or ratchet moves a hit before its step.       *)
LEMMA LaneEventNew ==
  ASSUME pattern \in Patterns, feel \in Feels, tempo \in Tempos, NEW li \in DOMAIN pattern.lanes,
         NEW g \in Nat, NEW at \in Nat,
         NEW p \in LaneStepsInGlobalStep(LaneStepRate(pattern.lanes[li].triplet), g),
         p % LaneLength(pattern.lanes[li]) \in DOMAIN pattern.lanes[li].lit,
         NEW j \in 1 .. RatchetCount(pattern.lanes[li].lit[p % LaneLength(pattern.lanes[li])])
  PROVE  LaneEvent(li, p, g, at, j) \in NewEvents(at, 2 * at - g * tempo \in 0 .. 1)
<1> DEFINE lane == pattern.lanes[li]
           rate == LaneStepRate(lane.triplet)
           s    == lane.lit[p % LaneLength(lane)]
           fw   == Forward(lane, li, p, s)
           num  == rate.num
           den  == rate.den
           r    == RatchetCount(s)
           k    == j - 1
           q1   == RoundDiv(tempo * (24 * (p * num - g * den) + fw * num), 2 * (24 * den))
           q2   == RoundDiv(tempo * (k * num), 2 * (den * r))
           e    == LaneEvent(li, p, g, at, j)
           plain == 2 * at - g * tempo \in 0 .. 1
<1>1. /\ lane.triplet \in BOOLEAN /\ lane.pad \in Pads /\ li \in Nat
      /\ s.shift \in Int /\ r \in 1 .. 8
  BY LaneOK
<1>2. p \in Nat /\ num \in Nat \ {0} /\ den \in Nat \ {0} /\ p * num - g * den \in Nat
  BY <1>1, StepsIn
<1>3. fw \in Nat BY <1>1, <1>2, ForwardNat
<1>4. tempo \in Nat BY StepClockAssumption
<1>5. r \in Nat \ {0} /\ k \in Nat BY <1>1
<1>6. e = [sample |-> at + q1 + q2, pad |-> lane.pad, of |-> <<"lane", li, p, k>>, late |-> fw]
  BY DEF LaneEvent, Scaled, LaneStepOffset, Part
<1> DEFINE h == HitOf(e)
<1>7. h.at = at + q1 + q2 /\ h.of = <<"lane", li, p, k>> /\ h.late = fw
  <2> HIDE DEF e, q1, q2, lane, fw, k
  <2> QED BY <1>6 DEF HitOf
<1>8. h.of[1] = "lane" /\ h.of[2] = li /\ h.of[3] = p /\ h.of[4] = k
  <2> HIDE DEF h, k
  <2> QED BY <1>7
<1>9. Deviation(h) = 2 * (h.at * 48 * den * r - tempo * num * (24 * r * p + r * fw + 24 * k))
  <2>1. h.of[1] # "roll" BY <1>8
  <2> HIDE DEF h, fw, k
  <2> QED BY <1>7, <1>8, <2>1 DEF Deviation
<1>10. Scale(h) = 48 * den * r
  <2>1. h.of[1] # "roll" BY <1>8
  <2> HIDE DEF h
  <2> QED BY <1>8, <2>1 DEF Scale
<1>11. at + q1 + q2 \in Nat /\ at + q1 + q2 >= at
  <2> HIDE DEF lane, rate, s, fw, num, den, r, k, e, h
  <2>1. tempo * (24 * (p * num - g * den) + fw * num) \in Nat
    <3>1. fw * num \in Nat BY <1>2, <1>3
    <3>2. 24 * (p * num - g * den) + fw * num \in Nat BY <1>2, <3>1
    <3> QED BY <1>4, <3>2
  <2>2. 2 * (24 * den) \in Nat \ {0} BY <1>2
  <2>3. tempo * (k * num) \in Nat
    <3>1. k * num \in Nat BY <1>2, <1>5
    <3> QED BY <1>4, <3>1
  <2>4. 2 * (den * r) \in Nat \ {0}
    <3>1. den * r \in Nat \ {0} BY <1>2, <1>5
    <3> QED BY <3>1
  <2>5. q1 \in Nat BY <2>1, <2>2, Rounds
  <2>6. q2 \in Nat BY <2>3, <2>4, Rounds
  <2> HIDE DEF q1, q2
  <2> QED BY <2>5, <2>6
<1>12. ASSUME plain PROVE Near(h)
  <2>1. 2 * ((at + q1 + q2) * 48 * den * r - tempo * num * (24 * r * p + r * fw + 24 * k))
          \in -3 * (48 * den * r) .. 3 * (48 * den * r)
    <3> HIDE DEF lane, rate, s, fw, num, den, r, k, e, h
    <3> QED BY <1>2, <1>3, <1>4, <1>5, <1>12, ThreeRoundings
  <2>2. h.at = at + q1 + q2 BY <1>7
  <2> HIDE DEF lane, rate, s, fw, num, den, r, k, e, h, q1, q2
  <2> QED BY <1>9, <1>10, <2>1, <2>2 DEF Near
<1>13. e \in Event
  <2>1. <<"lane", li, p, k>> \in Names BY <1>1, <1>2, <1>5 DEF Names
  <2> HIDE DEF lane, rate, s, fw, num, den, r, k, e, h, q1, q2
  <2> QED BY <1>1, <1>3, <1>6, <1>11, <2>1 DEF Event
<1>14. e.sample >= at
  <2> HIDE DEF lane, rate, s, fw, num, den, r, k, e, h, q1, q2
  <2> QED BY <1>6, <1>11
<1> HIDE DEF e, plain
<1> QED BY <1>12, <1>13, <1>14 DEF NewEvents, plain, e

(* The same of the hits of a lane step, of a lane, of a roll and of a step.  *)
LEMMA StepHitsNew ==
  ASSUME pattern \in Patterns, feel \in Feels, tempo \in Tempos, NEW li \in DOMAIN pattern.lanes,
         NEW g \in Nat, NEW at \in Nat,
         NEW p \in LaneStepsInGlobalStep(LaneStepRate(pattern.lanes[li].triplet), g)
  PROVE  StepHits(li, p, g, at) \in Seq(NewEvents(at, 2 * at - g * tempo \in 0 .. 1))
<1> DEFINE lane == pattern.lanes[li]
           pos  == p % LaneLength(lane)
           r    == RatchetCount(lane.lit[pos])
           S    == NewEvents(at, 2 * at - g * tempo \in 0 .. 1)
           hs   == [j \in 1 .. r |-> LaneEvent(li, p, g, at, j)]
<1>1. CASE pos \notin DOMAIN lane.lit \/ Gated(lane.lit[pos], p, li)
  <2>1. StepHits(li, p, g, at) = <<>> BY <1>1, StepHitsAre
  <2> QED BY <2>1
<1>2. CASE pos \in DOMAIN lane.lit /\ ~Gated(lane.lit[pos], p, li)
  <2>1. StepHits(li, p, g, at) = hs BY <1>2, StepHitsAre
  <2>2. r \in 1 .. 8 BY <1>2, LaneOK
  <2>3. \A j \in 1 .. r : LaneEvent(li, p, g, at, j) \in S BY <1>2, LaneEventNew
  <2> HIDE DEF S, r
  <2>4. hs \in Seq(S) BY <2>2, <2>3
  <2> QED BY <2>1, <2>4 DEF S
<1> QED BY <1>1, <1>2

(* The lane steps of a global step, counted. *)
LEMMA StepNumbers ==
  ASSUME NEW triplet \in BOOLEAN, NEW g \in Nat
  PROVE  LET rate == LaneStepRate(triplet)
             n    == Cardinality(LaneStepsInGlobalStep(rate, g))
         IN  /\ n \in Nat
             /\ \A p : p \in LaneStepsInGlobalStep(rate, g)
                         <=> \E k \in 1 .. n : p = FirstLaneStep(rate, g) + k - 1
             /\ FirstLaneStep(rate, g) \in Nat
<1> DEFINE rate == LaneStepRate(triplet)
           a == FirstLaneStep(rate, g)
           b == FirstLaneStep(rate, g + 1) - 1
           n == Cardinality(LaneStepsInGlobalStep(rate, g))
<1>1. a \in Nat
  <2>1. (3 * g + 3) \div 4 \in Nat OBVIOUS
  <2> QED BY <2>1, First
<1>2. b \in Int
  <2>1. g + 1 \in Nat OBVIOUS
  <2>2. (3 * (g + 1) + 3) \div 4 \in Nat OBVIOUS
  <2>3. FirstLaneStep(rate, g + 1) \in Nat BY <2>1, <2>2, First
  <2> QED BY <2>3
<1>3. LaneStepsInGlobalStep(rate, g) = a .. b BY DEF LaneStepsInGlobalStep
<1> HIDE DEF a, b
<1>4. n = IF a > b THEN 0 ELSE b - a + 1
  <2> HIDE DEF rate
  <2> QED BY <1>1, <1>2, <1>3, FS_Interval
<1>5. n \in Nat BY <1>1, <1>2, <1>4
<1> HIDE DEF n
<1>6. ASSUME NEW p PROVE p \in a .. b <=> \E k \in 1 .. n : p = a + k - 1
  <2>1. ASSUME p \in a .. b PROVE \E k \in 1 .. n : p = a + k - 1
    <3>1. p - a + 1 \in 1 .. n /\ p = a + (p - a + 1) - 1 BY <1>1, <1>2, <1>4, <2>1
    <3> QED BY <3>1
  <2>2. ASSUME NEW k \in 1 .. n, p = a + k - 1 PROVE p \in a .. b
    BY <1>1, <1>2, <1>4, <2>2
  <2> QED BY <2>1, <2>2
<1> QED BY <1>1, <1>3, <1>5, <1>6 DEF n, a

LEMMA LaneHitsNew ==
  ASSUME pattern \in Patterns, feel \in Feels, tempo \in Tempos, NEW li \in DOMAIN pattern.lanes,
         NEW g \in Nat, NEW at \in Nat
  PROVE  LaneHits(li, g, at) \in Seq(NewEvents(at, 2 * at - g * tempo \in 0 .. 1))
<1> DEFINE rate == LaneStepRate(pattern.lanes[li].triplet)
           S    == NewEvents(at, 2 * at - g * tempo \in 0 .. 1)
           n    == Cardinality(LaneStepsInGlobalStep(rate, g))
           p(k) == FirstLaneStep(rate, g) + k - 1
           sq   == [k \in 1 .. n |-> StepHits(li, p(k), g, at)]
<1>1. n \in Nat BY LaneOK, StepNumbers
<1>2. ASSUME NEW k \in 1 .. n PROVE StepHits(li, p(k), g, at) \in Seq(S)
  <2>1. p(k) \in LaneStepsInGlobalStep(rate, g) BY LaneOK, StepNumbers
  <2> HIDE DEF p
  <2> QED BY <2>1, StepHitsNew
<1>3. LaneHits(li, g, at) = IF pattern.lanes[li].length < 1 THEN <<>> ELSE FlattenSeq(sq)
  BY DEF LaneHits
<1> HIDE DEF S, n, p
<1>4. Len(sq) = n /\ \A k \in 1 .. n : sq[k] \in Seq(S) BY <1>1, <1>2
<1>5. n = 0 => sq = <<>> BY <1>1
<1> HIDE DEF sq
<1>6. FlattenSeq(sq) \in Seq(S) BY <1>1, <1>4, <1>5, FlattenSeqIn
<1>7. <<>> \in Seq(S) OBVIOUS
<1> QED BY <1>3, <1>6, <1>7 DEF S

(* The event of hit k of a roll.                                            *)
RollEvent(ri, g, at, k) ==
  [sample |-> at + Scaled(tempo, pattern.rolls[ri].offsets[k], Part),
   pad |-> pattern.rolls[ri].pad, of |-> <<"roll", ri, g, k>>, late |-> 0]

LEMMA RollOK ==
  ASSUME pattern \in Patterns, NEW ri \in DOMAIN pattern.rolls
  PROVE  /\ ri \in Nat
         /\ pattern.rolls[ri].pad \in Pads
         /\ pattern.rolls[ri].offsets \in Seq(Nat)
<1>1. PatternOK(pattern) BY StepEventsAssumption
<1> QED BY <1>1 DEF PatternOK

LEMMA Distribute ==
  ASSUME NEW t \in Nat, NEW g \in Nat, NEW o \in Nat
  PROVE  t * (24 * g + o) = 24 * (g * t) + t * o
<1>1. t * (24 * g + o) = t * (24 * g) + t * o OBVIOUS
<1>2. t * (24 * g) = 24 * (g * t) OBVIOUS
<1> QED BY <1>1, <1>2

LEMMA RollEventNew ==
  ASSUME pattern \in Patterns, tempo \in Tempos, NEW ri \in DOMAIN pattern.rolls,
         NEW g \in Nat, NEW at \in Nat, NEW k \in 1 .. Len(pattern.rolls[ri].offsets)
  PROVE  RollEvent(ri, g, at, k) \in NewEvents(at, 2 * at - g * tempo \in 0 .. 1)
<1> DEFINE off == pattern.rolls[ri].offsets[k]
           q   == RoundDiv(tempo * off, 48)
           e   == RollEvent(ri, g, at, k)
           h   == HitOf(e)
           plain == 2 * at - g * tempo \in 0 .. 1
<1>1. ri \in Nat /\ pattern.rolls[ri].pad \in Pads /\ off \in Nat /\ k \in Nat BY RollOK
<1>2. tempo \in Nat BY StepClockAssumption
<1>3. tempo * off \in Nat BY <1>1, <1>2
<1>4. q \in Nat /\ 2 * (48 * q) - 2 * (tempo * off) \in -48 .. 48
  <2> DEFINE a == tempo * off
             b == 48
  <2>1. a \in Nat /\ b \in Nat \ {0} BY <1>3
  <2> HIDE DEF a, b
  <2>2. RoundDiv(a, b) \in Nat /\ 2 * (b * RoundDiv(a, b)) - 2 * a \in -b .. b
    BY <2>1, Rounds
  <2> QED BY <2>2 DEF a, b
<1>5. e = [sample |-> at + q, pad |-> pattern.rolls[ri].pad, of |-> <<"roll", ri, g, k>>, late |-> 0]
  BY DEF RollEvent, Scaled, Part
<1>6. h.at = at + q /\ h.of = <<"roll", ri, g, k>>
  <2> HIDE DEF e, q
  <2> QED BY <1>5 DEF HitOf
<1>7. h.of[1] = "roll" /\ h.of[2] = ri /\ h.of[3] = g /\ h.of[4] = k
  <2> HIDE DEF h
  <2> QED BY <1>6
<1>8. Deviation(h) = 2 * ((at + q) * 48 - tempo * (24 * g + off))
  <2> HIDE DEF h, q
  <2> QED BY <1>6, <1>7 DEF Deviation
<1>9. Scale(h) = 48
  <2> HIDE DEF h
  <2> QED BY <1>7 DEF Scale
<1>10. ASSUME plain PROVE Near(h)
  <2> DEFINE x == tempo * off
             y == g * tempo
  <2>1. tempo * (24 * g + off) = 24 * y + x
    <3> HIDE DEF off
    <3> QED BY <1>1, <1>2, Distribute
  <2>2. x \in Nat /\ y \in Nat BY <1>2, <1>3
  <2>3. 2 * (48 * q) - 2 * x \in -48 .. 48 BY <1>4
  <2>4. 2 * at - y \in 0 .. 1 BY <1>10
  <2>5. Deviation(h) = 2 * ((at + q) * 48 - (24 * y + x)) BY <1>8, <2>1
  <2> HIDE DEF x, y, h, q
  <2>6. Deviation(h) \in -3 * 48 .. 3 * 48 BY <1>4, <2>2, <2>3, <2>4, <2>5
  <2> QED BY <1>9, <2>6 DEF Near
<1>11. e \in Event /\ e.sample >= at
  <2>1. <<"roll", ri, g, k>> \in Names BY <1>1 DEF Names
  <2> HIDE DEF e, q
  <2> QED BY <1>1, <1>4, <1>5, <2>1 DEF Event
<1> HIDE DEF e, plain
<1> QED BY <1>10, <1>11 DEF NewEvents, plain, e

LEMMA RollHitsNew ==
  ASSUME pattern \in Patterns, tempo \in Tempos, NEW ri \in DOMAIN pattern.rolls,
         NEW g \in Nat, NEW at \in Nat
  PROVE  RollHits(ri, g, at) \in Seq(NewEvents(at, 2 * at - g * tempo \in 0 .. 1))
<1> DEFINE S  == NewEvents(at, 2 * at - g * tempo \in 0 .. 1)
           n  == Len(pattern.rolls[ri].offsets)
           sq == [k \in 1 .. n |-> RollEvent(ri, g, at, k)]
<1>1. RollHits(ri, g, at) = IF g % BarSteps # pattern.rolls[ri].start THEN <<>> ELSE sq
  BY DEF RollHits, RollEvent
<1>2. n \in Nat BY RollOK
<1>3. \A k \in 1 .. n : RollEvent(ri, g, at, k) \in S BY RollEventNew
<1> HIDE DEF S, n
<1>4. sq \in Seq(S) BY <1>2, <1>3
<1>5. <<>> \in Seq(S) OBVIOUS
<1> HIDE DEF sq
<1> QED BY <1>1, <1>4, <1>5 DEF S

LEMMA GeneratedNew ==
  ASSUME pattern \in Patterns, feel \in Feels, tempo \in Tempos, NEW g \in Nat, NEW at \in Nat
  PROVE  GeneratedEvents(g, at) \in Seq(NewEvents(at, 2 * at - g * tempo \in 0 .. 1))
<1> DEFINE S  == NewEvents(at, 2 * at - g * tempo \in 0 .. 1)
           ls == [li \in DOMAIN pattern.lanes |-> LaneHits(li, g, at)]
           rs == [ri \in DOMAIN pattern.rolls |-> RollHits(ri, g, at)]
           m  == Len(pattern.lanes)
           n  == Len(pattern.rolls)
<1>1. PatternOK(pattern) BY StepEventsAssumption
<1>2. m \in Nat /\ DOMAIN pattern.lanes = 1 .. m /\ n \in Nat /\ DOMAIN pattern.rolls = 1 .. n
  BY <1>1 DEF PatternOK
<1>3. \A li \in 1 .. m : LaneHits(li, g, at) \in Seq(S) BY <1>2, LaneHitsNew
<1>4. \A ri \in 1 .. n : RollHits(ri, g, at) \in Seq(S) BY <1>2, RollHitsNew
<1> HIDE DEF S, m, n
<1>5. Len(ls) = m /\ (\A i \in 1 .. m : ls[i] \in Seq(S)) /\ (m = 0 => ls = <<>>)
  BY <1>2, <1>3
<1>6. Len(rs) = n /\ (\A i \in 1 .. n : rs[i] \in Seq(S)) /\ (n = 0 => rs = <<>>)
  BY <1>2, <1>4
<1>7. GeneratedEvents(g, at) = FlattenSeq(ls) \o FlattenSeq(rs) BY DEF GeneratedEvents
<1> HIDE DEF ls, rs
<1>8. FlattenSeq(ls) \in Seq(S) BY <1>2, <1>5, FlattenSeqIn
<1>9. FlattenSeq(rs) \in Seq(S) BY <1>2, <1>6, FlattenSeqIn
<1> QED BY <1>7, <1>8, <1>9 DEF S

-----------------------------------------------------------------------------
(* The invariant of the event path.                                          *)

(* Up to where the events of the block have been played. *)
Reached == IF phase = "events" THEN blockStart + cursor ELSE sampleCounter

(* A command of the message thread, and what history keeps of a hit.         *)
Command   == [type : {"triggerPad"}, pad : Pads] \cup [type : {"setPad"}, pad : Pads, group : Groups]
HitRecord == [of : Names, at : Nat, sample : Nat, late : Nat]

(* What the messages and the commands bring.                                 *)
Control ==
  /\ pattern \in Patterns /\ feel \in Feels
  /\ padGroup \in [Pads -> Groups] /\ commands \in Seq(Command)

(* Where the audio thread is in its block.                                   *)
Block ==
  /\ blockStart \in Nat /\ numSamples \in Nat /\ cursor \in 0 .. numSamples
  /\ phase = "steps" => blockStart = sampleCounter /\ blockEnd = blockStart + numSamples /\ cursor = 0
  /\ phase = "events" => sampleCounter = blockStart + numSamples

(* No event waits that should have been played. *)
Ahead ==
  /\ pending \in Seq(Event)
  /\ \A i \in DOMAIN pending : pending[i].sample >= Reached

(* What was played, was played at its sample and in order.                   *)
Played ==
  /\ hits \in Seq(HitRecord)
  /\ \A i \in DOMAIN hits :
       /\ hits[i].at = hits[i].sample /\ hits[i].at <= Reached
       /\ i > 1 => hits[i - 1].at <= hits[i].at

(* With no tempo taken since the top, the grid begins at the top.            *)
OnGrid ==
  ~retuned => /\ baseStep = 0 /\ baseSample = 0
              /\ \A i \in DOMAIN pending : Near(HitOf(pending[i]))
              /\ \A i \in DOMAIN hits : Near(hits[i])

EventInv == Control /\ Block /\ Ahead /\ Played /\ OnGrid

Timed == ClockInv /\ TempoOK

LEMMA InitEvents == Init => EventInv
<1> SUFFICES ASSUME Init PROVE EventInv OBVIOUS
<1>1. Control
  BY StepEventsAssumption DEF Init, Control
<1>2. Block BY DEF Init, Block, ClockInit
<1>3. Ahead /\ Played BY DEF Init, Ahead, Played
<1>4. OnGrid BY DEF Init, OnGrid, ClockInit
<1> QED BY <1>1, <1>2, <1>3, <1>4 DEF EventInv

(* What a step leaves alone. *)
LEMMA NearStays ==
  ASSUME UNCHANGED <<pattern, tempo>>, NEW h
  PROVE  Near(h)' <=> Near(h)
<1>1. Deviation(h)' = Deviation(h) BY DEF Deviation
<1>2. Scale(h)' = Scale(h) BY DEF Scale
<1> QED BY <1>1, <1>2 DEF Near

LEMMA QueuesStay ==
  ASSUME EventInv, UNCHANGED <<pattern, tempo, baseStep, baseSample, pending, hits, retuned>>,
         Reached' = Reached
  PROVE  Ahead' /\ Played' /\ OnGrid'
<1>1. Ahead' /\ Played' BY DEF EventInv, Ahead, Played
<1>2. OnGrid'
  <2>1. \A i \in DOMAIN pending : Near(HitOf(pending[i]))' <=> Near(HitOf(pending[i]))
    BY NearStays DEF HitOf
  <2>2. \A i \in DOMAIN hits : Near(hits[i])' <=> Near(hits[i]) BY NearStays
  <2>3. \A i \in DOMAIN pending : HitOf(pending[i])' = HitOf(pending[i]) BY DEF HitOf
  <2> SUFFICES ASSUME ~retuned' PROVE OnGrid' BY DEF OnGrid
  <2>4. baseStep = 0 /\ baseSample = 0 /\ (\A i \in DOMAIN pending : Near(HitOf(pending[i])))
        /\ (\A i \in DOMAIN hits : Near(hits[i]))
    BY DEF EventInv, OnGrid
  <2> QED BY <2>1, <2>2, <2>3, <2>4 DEF OnGrid
<1> QED BY <1>1, <1>2

(* One lemma per action, or per group of actions that leave the queues alone. *)
LEMMA MessageEvents == EventInv /\ MessageNext => EventInv'
<1> SUFFICES ASSUME EventInv, MessageNext PROVE EventInv' OBVIOUS
<1>1. UNCHANGED engineVars
  BY DEF MessageNext, Play, Stop, ChangeTempo, ChangeFeel, ChangeAudible, PushCommand
<1>2. feel' \in Feels
  <2>1. CASE ChangeFeel BY <2>1 DEF ChangeFeel
  <2>2. CASE ~ChangeFeel
    BY <2>2 DEF MessageNext, Play, Stop, ChangeTempo, ChangeAudible, PushCommand, atomics,
                EventInv, Control
  <2> QED BY <2>1, <2>2
<1>3. commands' \in Seq(Command)
  <2>1. CASE PushCommand
    <3>1. PICK p \in Pads, g \in Groups :
            \/ commands' = Append(commands, [type |-> "triggerPad", pad |-> p])
            \/ commands' = Append(commands, [type |-> "setPad", pad |-> p, group |-> g])
      BY <2>1 DEF PushCommand
    <3>2. /\ [type |-> "triggerPad", pad |-> p] \in Command
          /\ [type |-> "setPad", pad |-> p, group |-> g] \in Command
      BY DEF Command
    <3>3. commands \in Seq(Command) BY DEF EventInv, Control
    <3> HIDE DEF Command
    <3> QED BY <3>1, <3>2, <3>3
  <2>2. CASE ~PushCommand
    <3>1. UNCHANGED commands
      BY <2>2 DEF MessageNext, Play, Stop, ChangeTempo, ChangeAudible, ChangeFeel
    <3> QED BY <3>1 DEF EventInv, Control
  <2> QED BY <2>1, <2>2
<1>4. UNCHANGED <<phase, blockStart, numSamples, cursor, sampleCounter, blockEnd, pattern, padGroup>>
  BY <1>1 DEF engineVars, clockVars, local
<1>5. UNCHANGED <<pattern, tempo, baseStep, baseSample, pending, hits, retuned>>
  BY <1>1 DEF engineVars, clockVars, grid, history
<1>6. Reached' = Reached BY <1>4 DEF Reached
<1>7. Ahead' /\ Played' /\ OnGrid' BY <1>5, <1>6, QueuesStay
<1>8. Control' BY <1>2, <1>3, <1>4 DEF EventInv, Control
<1>9. Block' BY <1>4 DEF EventInv, Block
<1> QED BY <1>7, <1>8, <1>9 DEF EventInv

LEMMA TakeTempoEvents == Timed /\ EventInv /\ TakeTempo => EventInv'
<1> SUFFICES ASSUME Timed, EventInv, TakeTempo PROVE EventInv' OBVIOUS
<1>1. /\ phase = "idle" /\ phase' = "reset"
      /\ UNCHANGED <<pattern, padGroup, commands, feel, blockStart, numSamples, cursor, pending, hits>>
  BY DEF TakeTempo, local
<1>2. UNCHANGED sampleCounter BY DEF TakeTempo, SetTempo, clockVars
<1>3. Control' BY <1>1 DEF EventInv, Control
<1>4. Block' BY <1>1 DEF EventInv, Block
<1>5. Reached' = Reached BY <1>1, <1>2 DEF Reached
<1>6. CASE tempoDirty
  <2>1. retuned' BY <1>6 DEF TakeTempo
  <2>2. Ahead' /\ Played' BY <1>1, <1>5 DEF EventInv, Ahead, Played
  <2> QED BY <1>3, <1>4, <2>1, <2>2 DEF EventInv, OnGrid
<1>7. CASE ~tempoDirty
  <2>1. UNCHANGED <<tempo, baseStep, baseSample>> BY <1>7 DEF TakeTempo, clockVars, grid
  <2>2. retuned' = retuned \/ retuned' = (retuned \/ FALSE) BY <1>7 DEF TakeTempo
  <2>3. Ahead' /\ Played' BY <1>1, <1>5 DEF EventInv, Ahead, Played
  <2>4. OnGrid'
    <3> SUFFICES ASSUME ~retuned' PROVE OnGrid' BY DEF OnGrid
    <3>1. ~retuned BY <2>2
    <3>2. \A i \in DOMAIN pending : Near(HitOf(pending[i]))' <=> Near(HitOf(pending[i]))
      BY <1>1, <2>1, NearStays DEF HitOf
    <3>3. \A i \in DOMAIN hits : Near(hits[i])' <=> Near(hits[i]) BY <1>1, <2>1, NearStays
    <3>4. baseStep = 0 /\ baseSample = 0 /\ (\A i \in DOMAIN pending : Near(HitOf(pending[i])))
          /\ (\A i \in DOMAIN hits : Near(hits[i]))
      BY <3>1 DEF EventInv, OnGrid
    <3>5. \A i \in DOMAIN pending : HitOf(pending[i])' = HitOf(pending[i]) BY <1>1 DEF HitOf
    <3> QED BY <1>1, <2>1, <3>2, <3>3, <3>4, <3>5 DEF OnGrid
  <2> QED BY <1>3, <1>4, <2>3, <2>4 DEF EventInv
<1> QED BY <1>6, <1>7

(* A reset and a device that restarts begin at the top with nothing waiting. *)
LEMMA FromTheTop ==
  ASSUME EventInv, pending' = <<>>, hits' = <<>>, retuned' = FALSE, baseStep' = 0, baseSample' = 0
  PROVE  Ahead' /\ Played' /\ OnGrid'
  BY DEF Ahead, Played, OnGrid

LEMMA TakeResetEvents == EventInv /\ TakeReset => EventInv'
<1> SUFFICES ASSUME EventInv, TakeReset PROVE EventInv' OBVIOUS
<1>1. /\ phase = "reset" /\ phase' = "playing"
      /\ UNCHANGED <<pattern, padGroup, commands, feel, blockStart, numSamples, cursor>>
  BY DEF TakeReset
<1>2. Control' BY <1>1 DEF EventInv, Control
<1>3. Block' BY <1>1 DEF EventInv, Block
<1>4. CASE resetRequested
  <2>1. pending' = <<>> /\ hits' = <<>> /\ retuned' = FALSE /\ baseStep' = 0 /\ baseSample' = 0
    BY <1>4 DEF TakeReset, Reset
  <2> QED BY <1>2, <1>3, <2>1, FromTheTop DEF EventInv
<1>5. CASE ~resetRequested
  <2>1. UNCHANGED <<pattern, tempo, baseStep, baseSample, pending, hits, retuned, sampleCounter>>
    BY <1>1, <1>5 DEF TakeReset, clockVars, grid, history
  <2>2. Reached' = Reached BY <1>1, <2>1 DEF Reached
  <2> QED BY <1>2, <1>3, <2>1, <2>2, QueuesStay DEF EventInv
<1> QED BY <1>4, <1>5

LEMMA PrepareEvents == EventInv /\ Prepare => EventInv'
<1> SUFFICES ASSUME EventInv, Prepare PROVE EventInv' OBVIOUS
<1>1. /\ phase = "idle" /\ phase' = phase
      /\ UNCHANGED <<pattern, padGroup, commands, feel, blockStart, numSamples, cursor>>
  BY DEF Prepare, atomics, local
<1>2. Control' BY <1>1 DEF EventInv, Control
<1>3. Block' BY <1>1 DEF EventInv, Block
<1>4. pending' = <<>> /\ hits' = <<>> /\ retuned' = FALSE /\ baseStep' = 0 /\ baseSample' = 0
  BY DEF Prepare, PrepareClock
<1> QED BY <1>2, <1>3, <1>4, FromTheTop DEF EventInv

LEMMA QuietEvents == Timed /\ EventInv /\ (LoadPlaying \/ RenderStopped \/ BeginBlock) => EventInv'
<1> SUFFICES ASSUME Timed, EventInv, LoadPlaying \/ RenderStopped \/ BeginBlock
             PROVE  EventInv' OBVIOUS
<1>1. UNCHANGED <<pattern, padGroup, commands, feel, pending, hits, retuned>>
  BY DEF LoadPlaying, RenderStopped, BeginBlock, atomics, history
<1>2. UNCHANGED <<tempo, baseStep, baseSample, sampleCounter>>
  BY DEF LoadPlaying, RenderStopped, BeginBlock, BeginSteps, clockVars, grid
<1>3. phase \notin {"steps", "events"} /\ phase' \in {"drain", "idle", "steps"}
  BY DEF LoadPlaying, RenderStopped, BeginBlock
<1>4. Reached' = Reached BY <1>2, <1>3 DEF Reached
<1>5. Control' BY <1>1 DEF EventInv, Control
<1>6. Block'
  <2>1. CASE BeginBlock
    <3>1. numSamples' \in Nat BY <2>1, StepClockAssumption DEF BeginBlock
    <3>2. /\ blockEnd' = sampleCounter + numSamples' /\ blockStart' = sampleCounter
          /\ cursor' = 0 /\ phase' = "steps" /\ sampleCounter' = sampleCounter
      BY <2>1 DEF BeginBlock, BeginSteps
    <3>3. sampleCounter \in Nat BY DEF Timed, ClockInv, ClockTypeOK
    <3> QED BY <3>1, <3>2, <3>3 DEF Block
  <2>2. CASE LoadPlaying \/ RenderStopped
    <3>1. UNCHANGED <<blockStart, numSamples, cursor>> /\ phase' \in {"drain", "idle"}
      BY <2>2 DEF LoadPlaying, RenderStopped, local
    <3> QED BY <3>1 DEF EventInv, Block
  <2> QED BY <2>1, <2>2
<1> QED BY <1>1, <1>2, <1>4, <1>5, <1>6, QueuesStay DEF EventInv

LEMMA DrainEvents == EventInv /\ DrainCommand => EventInv'
<1> SUFFICES ASSUME EventInv, DrainCommand PROVE EventInv' OBVIOUS
<1>1. /\ phase = "drain"
      /\ UNCHANGED <<pattern, feel, phase, blockStart, numSamples, cursor, pending, hits, retuned,
                     tempo, baseStep, baseSample, sampleCounter, blockEnd>>
  BY DEF DrainCommand, clockVars, grid, atomics, local, history
<1>2. Reached' = Reached BY <1>1 DEF Reached
<1>3. commands \in Seq(Command) /\ commands # <<>> /\ commands' = Tail(commands)
  BY DEF DrainCommand, EventInv, Control
<1> DEFINE c == Head(commands)
<1>4. c \in Command /\ commands' \in Seq(Command)
  <2> HIDE DEF Command
  <2> QED BY <1>3
<1>5. padGroup' \in [Pads -> Groups]
  <2>1. padGroup \in [Pads -> Groups] BY DEF EventInv, Control
  <2>2. CASE c.type = "setPad"
    <3>1. padGroup' = [padGroup EXCEPT ![c.pad] = c.group] BY <2>2 DEF DrainCommand
    <3>2. c.pad \in Pads /\ c.group \in Groups
      <4> HIDE DEF c
      <4> QED BY <1>4, <2>2 DEF Command
    <3> QED BY <2>1, <3>1, <3>2
  <2>3. CASE c.type # "setPad" BY <2>1, <2>3 DEF DrainCommand
  <2> QED BY <2>2, <2>3
<1>6. Control' BY <1>1, <1>4, <1>5 DEF EventInv, Control
<1>7. Block' BY <1>1 DEF EventInv, Block
<1> QED BY <1>1, <1>2, <1>6, <1>7, QueuesStay DEF EventInv

(* What may wait. *)
MayWait == {e \in Event : e.sample >= Reached /\ (~retuned => Near(HitOf(e)))}

LEMMA WaitingAre == EventInv => pending \in Seq(MayWait)
<1> SUFFICES ASSUME EventInv PROVE pending \in Seq(MayWait) OBVIOUS
<1>1. pending \in Seq(Event) /\ \A i \in DOMAIN pending : pending[i].sample >= Reached
  BY DEF EventInv, Ahead
<1>2. \A i \in DOMAIN pending : ~retuned => Near(HitOf(pending[i])) BY DEF EventInv, OnGrid
<1>3. \A i \in DOMAIN pending : pending[i] \in Event BY <1>1
<1>4. \A i \in DOMAIN pending : pending[i] \in MayWait BY <1>1, <1>2, <1>3 DEF MayWait
<1> HIDE DEF Event
<1> QED BY <1>1, <1>4

(* addEvent() keeps what fits and makes nothing up.                          *)
LEMMA FitsIn ==
  ASSUME NEW S, NEW seq \in Seq(S), pending \in Seq(S)
  PROVE  Fits(seq) \in Seq(S)
<1> DEFINE k == BetweenOf(MaxPending - Len(pending), 0, Len(seq))
<1>1. MaxPending - Len(pending) \in Int /\ Len(seq) \in Nat BY StepEventsAssumption
<1>2. k \in 0 .. Len(seq) BY <1>1, Between
<1> HIDE DEF k
<1>3. SubSeq(seq, 1, k) \in Seq(S) BY <1>2
<1> QED BY <1>3 DEF Fits, k

(* While no tempo is taken the steps are whole multiples of it, rounded.     *)
LEMMA PlainStep ==
  ASSUME Timed, baseStep = 0, baseSample = 0
  PROVE  2 * StepSampleOf(nextStep) - nextStep * tempo \in 0 .. 1
<1>1. nextStep \in Nat /\ tempo \in Nat
  BY StepClockAssumption DEF Timed, ClockInv, ClockTypeOK
<1> DEFINE x == nextStep * tempo
<1>2. x \in Nat BY <1>1
<1>3. nextStep - baseStep = nextStep BY <1>1
<1>4. StepSampleOf(nextStep) = 0 + (x + 1) \div 2 BY <1>3 DEF StepSampleOf
<1> HIDE DEF x
<1>5. (x + 1) \div 2 \in Nat /\ 2 * ((x + 1) \div 2) - x \in 0 .. 1 BY <1>2, HalfUp
<1>6. 2 * StepSampleOf(nextStep) - x \in 0 .. 1 BY <1>2, <1>4, <1>5
<1> QED BY <1>6 DEF x

LEMMA FireStepEvents == Timed /\ EventInv /\ FireStep => EventInv'
<1> SUFFICES ASSUME Timed, EventInv, FireStep PROVE EventInv' OBVIOUS
<1> DEFINE at  == StepSampleOf(nextStep)
           new == GeneratedEvents(nextStep, at)
<1>1. /\ phase = "steps"
      /\ UNCHANGED <<phase, pattern, feel, padGroup, commands, blockStart, numSamples, cursor, hits,
                     retuned, tempo, baseStep, baseSample, sampleCounter, blockEnd>>
  BY DEF FireStep, AdvanceStep, grid, atomics, local
<1>2. Reached' = Reached /\ Reached = sampleCounter BY <1>1 DEF Reached
<1>3. Control' BY <1>1 DEF EventInv, Control
<1>4. Block' BY <1>1 DEF EventInv, Block
<1>5. /\ pattern \in Patterns /\ feel \in Feels /\ tempo \in Tempos /\ nextStep \in Nat
      /\ at \in Nat /\ at >= sampleCounter
  <2>1. ClockTypeOK /\ GridOK /\ NeverLate BY DEF Timed, ClockInv
  <2>2. at \in Nat BY <2>1, NextStepSample
  <2> QED BY <2>1, <2>2 DEF EventInv, Control, ClockTypeOK, NeverLate
<1> HIDE DEF at
<1>6. new \in Seq(NewEvents(at, 2 * at - nextStep * tempo \in 0 .. 1)) BY <1>5, GeneratedNew
<1>7. NewEvents(at, 2 * at - nextStep * tempo \in 0 .. 1) \subseteq MayWait
  <2>1. ~retuned => 2 * at - nextStep * tempo \in 0 .. 1
    BY PlainStep DEF at, EventInv, OnGrid
  <2>2. sampleCounter \in Nat BY DEF Timed, ClockInv, ClockTypeOK
  <2>3. \A e \in Event : e.sample \in Nat BY DEF Event
  <2>4. \A e \in Event : e.sample >= at => e.sample >= Reached BY <1>2, <1>5, <2>2, <2>3
  <2> QED BY <2>1, <2>4 DEF NewEvents, MayWait
<1>8. new \in Seq(MayWait)
  <2> HIDE DEF new
  <2>1. \A S, T : S \subseteq T => Seq(S) \subseteq Seq(T) OBVIOUS
  <2> QED BY <1>6, <1>7, <2>1
<1>9. pending' = pending \o Fits(new) BY DEF FireStep, at
<1> HIDE DEF new
<1>10. pending \in Seq(MayWait) BY WaitingAre
<1>11. pending' \in Seq(MayWait) BY <1>8, <1>9, <1>10, FitsIn
<1>12. \A i \in DOMAIN pending' : pending'[i] \in MayWait BY <1>11
<1>13. Ahead'
  <2>1. \A i \in DOMAIN pending' : pending'[i] \in Event /\ pending'[i].sample >= Reached
    BY <1>12 DEF MayWait
  <2>2. pending' \in Seq(Event)
    <3>1. MayWait \subseteq Event BY DEF MayWait
    <3>2. \A S, T : S \subseteq T => Seq(S) \subseteq Seq(T) OBVIOUS
    <3> QED BY <1>11, <3>1, <3>2
  <2> QED BY <1>2, <2>1, <2>2 DEF Ahead
<1>14. Played' BY <1>1, <1>2 DEF EventInv, Played
<1>15. OnGrid'
  <2> SUFFICES ASSUME ~retuned' PROVE OnGrid' BY DEF OnGrid
  <2>1. ~retuned BY <1>1
  <2>2. baseStep' = 0 /\ baseSample' = 0 BY <1>1, <2>1 DEF EventInv, OnGrid
  <2>3. \A h : Near(h)' <=> Near(h) BY <1>1, NearStays
  <2>4. \A i \in DOMAIN pending' : Near(HitOf(pending'[i])) BY <1>12, <2>1 DEF MayWait
  <2>5. \A i \in DOMAIN pending' : Near(HitOf(pending[i]))'
    <3>2. \A e : Near(HitOf(e))' <=> Near(HitOf(e)) BY <1>1, NearStays
    <3> QED BY <2>4, <3>2
  <2>6. \A i \in DOMAIN hits' : Near(hits[i])' BY <1>1, <2>1, <2>3 DEF EventInv, OnGrid
  <2> QED BY <2>2, <2>5, <2>6 DEF OnGrid
<1> QED BY <1>3, <1>4, <1>13, <1>14, <1>15 DEF EventInv

LEMMA StepsDoneEvents == Timed /\ EventInv /\ StepsDone => EventInv'
<1> SUFFICES ASSUME Timed, EventInv, StepsDone PROVE EventInv' OBVIOUS
<1>1. /\ phase = "steps" /\ phase' = "events"
      /\ UNCHANGED <<pattern, feel, padGroup, commands, blockStart, numSamples, cursor, pending,
                     hits, retuned, tempo, baseStep, baseSample>>
      /\ sampleCounter' = blockEnd
  BY DEF StepsDone, EndSteps, grid, atomics, local, history
<1>2. blockStart = sampleCounter /\ blockEnd = blockStart + numSamples /\ cursor = 0
      /\ blockStart \in Nat /\ numSamples \in Nat
  BY <1>1 DEF EventInv, Block
<1>3. Reached' = Reached BY <1>1, <1>2 DEF Reached
<1>4. Control' BY <1>1 DEF EventInv, Control
<1>5. Block' BY <1>1, <1>2 DEF Block
<1> QED BY <1>1, <1>3, <1>4, <1>5, QueuesStay DEF EventInv

LEMMA EndBlockEvents == Timed /\ EventInv /\ EndBlock => EventInv'
<1> SUFFICES ASSUME Timed, EventInv, EndBlock PROVE EventInv' OBVIOUS
<1>1. /\ phase = "events" /\ phase' = "idle" /\ Due = {}
      /\ UNCHANGED <<pattern, feel, padGroup, commands, blockStart, numSamples, cursor, pending,
                     hits, retuned, tempo, baseStep, baseSample, sampleCounter>>
  BY DEF EndBlock, clockVars, grid, atomics, local, history
<1>2. sampleCounter = blockStart + numSamples /\ blockStart \in Nat /\ numSamples \in Nat
      /\ cursor \in 0 .. numSamples
  BY <1>1 DEF EventInv, Block
<1>3. Reached' = sampleCounter /\ Reached = blockStart + cursor BY <1>1 DEF Reached
<1>4. Control' BY <1>1 DEF EventInv, Control
<1>5. Block' BY <1>1 DEF EventInv, Block
<1>6. Ahead'
  <2>1. pending \in Seq(Event) BY DEF EventInv, Ahead
  <2>2. ASSUME NEW i \in DOMAIN pending PROVE pending[i].sample >= sampleCounter
    <3>1. ~(pending[i].sample < blockStart + numSamples) BY <1>1 DEF Due
    <3>2. pending[i].sample \in Nat
      <4>1. pending[i] \in Event BY <2>1
      <4> QED BY <4>1 DEF Event
    <3> QED BY <1>2, <3>1, <3>2
  <2> QED BY <1>1, <1>3, <2>1, <2>2 DEF Ahead
<1>7. Played'
  <2>1. hits \in Seq(HitRecord) BY DEF EventInv, Played
  <2>2. ASSUME NEW i \in DOMAIN hits PROVE hits[i].at <= sampleCounter
    <3>1. hits[i].at <= Reached BY DEF EventInv, Played
    <3>2. hits[i].at \in Nat
      <4>1. hits[i] \in HitRecord BY <2>1
      <4> QED BY <4>1 DEF HitRecord
    <3> QED BY <1>2, <1>3, <3>1, <3>2
  <2> QED BY <1>1, <1>3, <2>1, <2>2 DEF EventInv, Played
<1>8. OnGrid'
  <2> SUFFICES ASSUME ~retuned' PROVE OnGrid' BY DEF OnGrid
  <2>1. \A e : Near(HitOf(e))' <=> Near(HitOf(e)) BY <1>1, NearStays
  <2>2. \A h : Near(h)' <=> Near(h) BY <1>1, NearStays
  <2> QED BY <1>1, <2>1, <2>2 DEF EventInv, OnGrid
<1> QED BY <1>4, <1>5, <1>6, <1>7, <1>8 DEF EventInv

(* pending[best] = pending[--pendingCount] loses the one event and no other. *)
LEMMA WithoutOne ==
  ASSUME NEW S, pending \in Seq(S), NEW i \in DOMAIN pending
  PROVE  /\ Without(i) \in Seq(S)
         /\ Len(Without(i)) = Len(pending) - 1
         /\ \A k \in 1 .. Len(pending) - 1 :
              Without(i)[k] = IF k = i THEN pending[Len(pending)] ELSE pending[k]
<1> DEFINE n == Len(pending)
           s == [pending EXCEPT ![i] = pending[n]]
<1>1. n \in Nat /\ DOMAIN pending = 1 .. n /\ i \in 1 .. n /\ \A k \in 1 .. n : pending[k] \in S
  OBVIOUS
<1>2. s \in Seq(S) /\ Len(s) = n BY <1>1
<1>3. \A k \in 1 .. n : s[k] = IF k = i THEN pending[n] ELSE pending[k] BY <1>1
<1> HIDE DEF s, n
<1>4. n - 1 \in 0 .. n BY <1>1
<1>5. SubSeq(s, 1, n - 1) \in Seq(S) /\ Len(SubSeq(s, 1, n - 1)) = n - 1 BY <1>1, <1>2, <1>4
<1>6. \A k \in 1 .. n - 1 : SubSeq(s, 1, n - 1)[k] = s[k] BY <1>1, <1>2, <1>4
<1>7. Without(i) = SubSeq(s, 1, n - 1) BY DEF Without, s, n
<1>8. \A k \in 1 .. n - 1 : k \in 1 .. n BY <1>1
<1> QED BY <1>3, <1>5, <1>6, <1>7, <1>8 DEF n

(* renderWithEvents() takes the earliest of what is due.                     *)
LEMMA BestIsDue ==
  ASSUME pending \in Seq(Event), Due # {}
  PROVE  LET best == Least({i \in Due : \A k \in Due : pending[i].sample <= pending[k].sample})
         IN  /\ best \in Due
             /\ \A k \in Due : pending[best].sample <= pending[k].sample
<1> DEFINE samples == {pending[i].sample : i \in Due}
           firsts  == {i \in Due : \A k \in Due : pending[i].sample <= pending[k].sample}
<1>1. Due \subseteq DOMAIN pending /\ DOMAIN pending \subseteq Nat BY DEF Due
<1>2. \A i \in Due : pending[i].sample \in Nat
  <2>1. \A i \in Due : pending[i] \in Event BY <1>1
  <2> QED BY <2>1 DEF Event
<1>3. samples \subseteq Nat /\ samples # {} BY <1>2
<1>4. Least(samples) \in samples /\ \A x \in samples : Least(samples) <= x
  <2> HIDE DEF samples
  <2> QED BY <1>3, LeastExists
<1>5. firsts # {} /\ firsts \subseteq Nat
  <2>1. PICK i \in Due : Least(samples) = pending[i].sample BY <1>4
  <2>2. \A k \in Due : pending[k].sample \in samples OBVIOUS
  <2> HIDE DEF samples
  <2>3. \A k \in Due : pending[i].sample <= pending[k].sample BY <1>4, <2>1, <2>2
  <2>4. i \in firsts BY <2>3
  <2> QED BY <1>1, <2>4
<1>6. Least(firsts) \in firsts
  <2> HIDE DEF firsts
  <2> QED BY <1>5, LeastExists
<1> QED BY <1>6

LEMMA FireEventEvents == Timed /\ EventInv /\ FireEvent => EventInv'
<1> SUFFICES ASSUME Timed, EventInv, FireEvent PROVE EventInv' OBVIOUS
<1> DEFINE best == Least({i \in Due : \A k \in Due : pending[i].sample <= pending[k].sample})
           e == pending[best]
           offset == BetweenOf(e.sample - blockStart, cursor, numSamples)
<1>1. /\ phase = "events" /\ phase' = "events" /\ Due # {}
      /\ UNCHANGED <<pattern, feel, padGroup, commands, blockStart, numSamples, retuned, tempo,
                     baseStep, baseSample, sampleCounter>>
      /\ cursor' = offset /\ pending' = Without(best)
      /\ hits' = Append(hits, [of |-> e.of, at |-> blockStart + offset,
                               sample |-> e.sample, late |-> e.late])
  BY DEF FireEvent, clockVars, grid, atomics
<1>2. sampleCounter = blockStart + numSamples /\ blockStart \in Nat /\ numSamples \in Nat
      /\ cursor \in 0 .. numSamples
  BY <1>1 DEF EventInv, Block
<1>3. pending \in Seq(MayWait) BY WaitingAre
<1>4. pending \in Seq(Event) BY DEF EventInv, Ahead
<1>5. best \in Due /\ best \in DOMAIN pending /\ \A k \in Due : e.sample <= pending[k].sample
  BY <1>1, <1>4, BestIsDue DEF Due
<1>6. Reached = blockStart + cursor /\ Reached' = blockStart + offset BY <1>1 DEF Reached
<1> HIDE DEF best
<1>7. e \in MayWait /\ e \in Event BY <1>3, <1>4, <1>5
<1> HIDE DEF e
<1>8. e.sample \in Nat /\ e.of \in Names /\ e.late \in Nat BY <1>7 DEF Event
<1>9. e.sample >= blockStart + cursor BY <1>6, <1>7 DEF MayWait
<1>10. e.sample < blockStart + numSamples BY <1>5 DEF Due, e
<1>11. offset = e.sample - blockStart BY <1>2, <1>8, <1>9, <1>10 DEF BetweenOf
<1>12. offset \in cursor .. numSamples /\ blockStart + offset = e.sample
  BY <1>2, <1>8, <1>9, <1>10, <1>11
<1> DEFINE h == [of |-> e.of, at |-> e.sample, sample |-> e.sample, late |-> e.late]
<1>13. hits' = Append(hits, h) BY <1>1, <1>12
<1>14. h = HitOf(e) BY DEF HitOf
<1>15. h \in HitRecord BY <1>8 DEF HitRecord
<1> HIDE DEF offset
<1>16. Control' BY <1>1 DEF EventInv, Control
<1>17. Block' BY <1>1, <1>2, <1>12 DEF Block
<1>18. Reached' = e.sample BY <1>6, <1>12
<1>19. ASSUME NEW i \in DOMAIN pending PROVE pending[i].sample >= e.sample
  <2>1. pending[i].sample \in Nat
    <3>1. pending[i] \in Event BY <1>4
    <3> QED BY <3>1 DEF Event
  <2>2. CASE i \in Due BY <1>5, <1>8, <2>1, <2>2 DEF e
  <2>3. CASE i \notin Due
    <3>1. ~(pending[i].sample < blockStart + numSamples) BY <2>3 DEF Due
    <3> QED BY <1>2, <1>8, <1>10, <2>1, <3>1
  <2> QED BY <2>2, <2>3
<1> DEFINE Later == {x \in Event : x.sample >= e.sample /\ (~retuned => Near(HitOf(x)))}
<1>20. pending \in Seq(Later)
  <2>1. \A i \in DOMAIN pending : pending[i] \in MayWait BY <1>3
  <2>2. \A i \in DOMAIN pending : pending[i] \in Later BY <1>19, <2>1 DEF MayWait
  <2> HIDE DEF Later
  <2> QED BY <1>4, <2>2
<1>21. \A i \in DOMAIN pending' : pending'[i] \in Later
  <2>1. Without(best) \in Seq(Later)
    <3> HIDE DEF Later
    <3> QED BY <1>5, <1>20, WithoutOne
  <2> HIDE DEF Later
  <2> QED BY <1>1, <2>1
<1>22. pending' \in Seq(Event) BY <1>1, <1>4, <1>5, WithoutOne
<1>23. Ahead' BY <1>18, <1>21, <1>22 DEF Ahead
<1>24. /\ hits \in Seq(HitRecord)
       /\ \A i \in DOMAIN hits :
            /\ hits[i].at = hits[i].sample /\ hits[i].at <= Reached
            /\ i > 1 => hits[i - 1].at <= hits[i].at
  BY DEF EventInv, Played
<1> DEFINE n == Len(hits)
<1>25. n \in Nat /\ DOMAIN hits = 1 .. n /\ \A i \in 1 .. n : hits[i].at \in Nat
  <2>1. \A i \in 1 .. n : hits[i] \in HitRecord BY <1>24
  <2>2. \A i \in 1 .. n : hits[i].at \in Nat BY <2>1 DEF HitRecord
  <2> QED BY <1>24, <2>2
<1>32. \A i \in 1 .. n :
         /\ hits[i].at = hits[i].sample /\ hits[i].at <= Reached
         /\ i > 1 => hits[i - 1].at <= hits[i].at
  <2> TAKE i \in 1 .. n
  <2>1. i \in DOMAIN hits BY <1>25
  <2> HIDE DEF HitRecord, n
  <2> QED BY <1>24, <2>1, Zenon
<1>26. /\ hits' \in Seq(HitRecord) /\ DOMAIN hits' = 1 .. n + 1
       /\ \A i \in 1 .. n : hits'[i] = hits[i]
       /\ hits'[n + 1] = h
  <2> HIDE DEF h, HitRecord
  <2> QED BY <1>13, <1>15, <1>24
<1> HIDE DEF n
<1>27. h.at = e.sample /\ h.sample = e.sample OBVIOUS
<1> HIDE DEF h
<1>28. \A i \in 1 .. n : hits[i].at <= e.sample
  <2>1. Reached \in Nat /\ Reached <= e.sample BY <1>2, <1>6, <1>8, <1>9
  <2>2. TAKE i \in 1 .. n
  <2>3. hits[i].at \in Nat /\ hits[i].at <= Reached BY <1>25, <1>32
  <2> QED BY <1>8, <2>1, <2>3
<1>29. ASSUME NEW i \in 1 .. n + 1
       PROVE  /\ hits'[i].at = hits'[i].sample /\ hits'[i].at <= e.sample
              /\ i > 1 => hits'[i - 1].at <= hits'[i].at
  <2>1. CASE i = n + 1
    <3>1. hits'[i].at = e.sample /\ hits'[i].sample = e.sample BY <1>26, <1>27, <2>1
    <3>2. i > 1 => i - 1 \in 1 .. n BY <1>25, <2>1
    <3>3. i > 1 => hits'[i - 1].at <= e.sample BY <1>26, <1>28, <3>2
    <3> QED BY <1>8, <3>1, <3>3
  <2>2. CASE i # n + 1
    <3>1. i \in 1 .. n /\ (i > 1 => i - 1 \in 1 .. n) BY <1>25, <2>2
    <3>2. hits'[i] = hits[i] /\ (i > 1 => hits'[i - 1] = hits[i - 1]) BY <1>26, <3>1
    <3>3. hits[i].at = hits[i].sample /\ (i > 1 => hits[i - 1].at <= hits[i].at) BY <1>32, <3>1, Zenon
    <3>4. hits[i].at <= e.sample BY <1>28, <3>1
    <3> QED BY <3>2, <3>3, <3>4
  <2> QED BY <2>1, <2>2
<1>30. Played' BY <1>18, <1>26, <1>29 DEF Played
<1>31. OnGrid'
  <2> SUFFICES ASSUME ~retuned' PROVE OnGrid' BY DEF OnGrid
  <2>1. \A x : Near(HitOf(x))' <=> Near(HitOf(x)) BY <1>1, NearStays
  <2>2. \A x : Near(x)' <=> Near(x) BY <1>1, NearStays
  <2>3. ~retuned BY <1>1
  <2>4. \A i \in DOMAIN pending' : Near(HitOf(pending'[i])) BY <1>21, <2>3
  <2>5. Near(h) BY <1>7, <1>14, <2>3 DEF MayWait
  <2>6. \A i \in 1 .. n : Near(hits[i]) BY <1>25, <2>3 DEF EventInv, OnGrid
  <2>7. \A i \in DOMAIN hits' : Near(hits'[i])
    <3>1. ASSUME NEW i \in 1 .. n + 1 PROVE Near(hits'[i])
      <4>1. i = n + 1 \/ i \in 1 .. n BY <1>25
      <4> QED BY <1>26, <2>5, <2>6, <4>1
    <3> QED BY <1>26, <3>1
  <2>8. baseStep' = 0 /\ baseSample' = 0 BY <1>1, <2>3 DEF EventInv, OnGrid
  <2>9. \A i \in DOMAIN pending' : Near(HitOf(pending[i]))' BY <2>1, <2>4
  <2>10. \A i \in DOMAIN hits' : Near(hits[i])' BY <2>2, <2>7
  <2> QED BY <2>8, <2>9, <2>10 DEF OnGrid
<1> QED BY <1>16, <1>17, <1>23, <1>30, <1>31 DEF EventInv

LEMMA NextEvents == Timed /\ EventInv /\ [Next]_vars => EventInv'
<1> SUFFICES ASSUME Timed, EventInv, [Next]_vars PROVE EventInv' OBVIOUS
<1>1. ASSUME UNCHANGED vars PROVE EventInv'
  <2>1. UNCHANGED <<pattern, feel, padGroup, commands, phase, blockStart, numSamples, cursor,
                    pending, hits, retuned, tempo, baseStep, baseSample, sampleCounter, blockEnd>>
    BY <1>1 DEF vars, clockVars, grid, atomics, local, history
  <2>2. Reached' = Reached BY <2>1 DEF Reached
  <2>3. Control' BY <2>1 DEF EventInv, Control
  <2>4. Block' BY <2>1 DEF EventInv, Block
  <2> QED BY <2>1, <2>2, <2>3, <2>4, QueuesStay DEF EventInv
<1> QED BY <1>1, MessageEvents, TakeTempoEvents, TakeResetEvents, QuietEvents, DrainEvents,
           FireStepEvents, StepsDoneEvents, FireEventEvents, EndBlockEvents, PrepareEvents
        DEF Next, AudioNext

(* Whatever the blocks, tempos and commands are: no event waits that the       *)
(* block has passed, what was played was played at its sample and in order,    *)
(* and the records the audio thread keeps stay in their ranges.                *)
THEOREM SpecEventInv == Spec => [](Timed /\ EventInv)
<1>1. Spec => []Timed BY SpecClockInv, PTL DEF Timed
<1> QED BY <1>1, InitEvents, NextEvents, PTL DEF Spec

(* Sequencer.cpp:283-293: events are played at their own sample, in the order  *)
(* of their samples, whichever block they fall into, and, until a tempo is     *)
(* taken, where the tempo puts their step, but for the three roundings of      *)
(* stepSample(), the lane's offset and the ratchet.                            *)
THEOREM SpecHitsOnTime == Spec => []HitsOnTime
<1>1. EventInv => HitsOnTime BY DEF EventInv, Played, OnGrid, HitsOnTime, Near
<1> QED BY <1>1, SpecEventInv, PTL

-----------------------------------------------------------------------------
(* The event path drives the voices as module VoicePool allows.              *)

(* To render nothing changes nothing.                                        *)
LEMMA RenderNothing ==
  ASSUME PoolInv
  PROVE  Rendered(voices, 0) = voices /\ NotesAfter(sounding, 0) = sounding
<1>1. voices \in [Slots -> Voice] BY DEF PoolInv, PoolTypeOK
<1>2. ASSUME NEW v \in Voice PROVE IsActive(v) <=> 0 <= v.left
  BY VoiceFields DEF IsActive
<1>3. Rendered(voices, 0) = voices
  <2>1. ASSUME NEW v \in Voice PROVE [v EXCEPT !.left = @ - 0] = v
    <3>1. v.left - 0 = v.left BY VoiceFields
    <3>2. [v EXCEPT !.left = v.left] = v BY DEF Voice
    <3> QED BY <3>1, <3>2
  <2> QED BY <1>1, <1>2, <2>1 DEF Rendered
<1>4. sounding = {voices[i] : i \in ActiveSlots(voices)} BY DEF PoolInv, PoolIsTheNotes
<1>5. \A m \in sounding : m \in Voice /\ m.left >= 0
  BY <1>1, <1>4 DEF ActiveSlots, IsActive
<1>6. {k \in sounding : k.left >= 0} = sounding BY <1>5
<1>7. \A m \in sounding : [m EXCEPT !.left = @ - 0] = m
  <2> TAKE m \in sounding
  <2>1. m.left \in Int /\ m \in Voice BY <1>5, VoiceFields
  <2>2. m.left - 0 = m.left BY <2>1
  <2>3. [m EXCEPT !.left = m.left] = m BY <2>1 DEF Voice
  <2> QED BY <2>2, <2>3
<1>8. NotesAfter(sounding, 0) = {[m EXCEPT !.left = @ - 0] : m \in sounding} BY <1>6 DEF NotesAfter
<1> QED BY <1>3, <1>7, <1>8

(* Every step of the event path is a step of the pool or leaves it alone.    *)
LEMMA PoolStep == Timed /\ EventInv /\ PoolInv /\ [Next]_vars => [PoolNext]_poolVars
<1> SUFFICES ASSUME Timed, EventInv, PoolInv, [Next]_vars PROVE [PoolNext]_poolVars OBVIOUS
<1>1. ASSUME MessageNext PROVE UNCHANGED poolVars
  BY <1>1 DEF MessageNext, Play, Stop, ChangeTempo, ChangeFeel, ChangeAudible, PushCommand, engineVars
<1>2. ASSUME TakeTempo \/ TakeReset \/ LoadPlaying \/ BeginBlock \/ FireStep \/ StepsDone
      PROVE  UNCHANGED poolVars
  BY <1>2 DEF TakeTempo, TakeReset, LoadPlaying, BeginBlock, FireStep, StepsDone
<1>3. blockStart \in Nat /\ numSamples \in Nat /\ cursor \in 0 .. numSamples
  BY DEF EventInv, Block
<1>4. ASSUME DrainCommand PROVE [PoolNext]_poolVars
  <2> DEFINE c == Head(commands)
  <2>1. c \in Command
    <3>1. commands \in Seq(Command) /\ commands # <<>>
      BY <1>4 DEF DrainCommand, EventInv, Control
    <3> HIDE DEF Command
    <3> QED BY <3>1
  <2>2. CASE c.type = "setPad" BY <1>4, <2>2 DEF DrainCommand
  <2>3. CASE c.type # "setPad"
    <3>1. PICK snd \in Sounds[c.pad] : Trigger(voices, sounding, c.pad, padGroup[c.pad], snd)
      BY <1>4, <2>3 DEF DrainCommand
    <3>2. c.pad \in Pads
      <4> HIDE DEF c
      <4> QED BY <2>1 DEF Command
    <3>3. padGroup[c.pad] \in Groups BY <3>2 DEF EventInv, Control
    <3>4. Trigger(Rendered(voices, 0), NotesAfter(sounding, 0), c.pad, padGroup[c.pad], snd)
      <4>1. Rendered(voices, 0) = voices /\ NotesAfter(sounding, 0) = sounding BY RenderNothing
      <4> QED BY <3>1, <4>1
    <3> QED BY <3>2, <3>3, <3>4 DEF PoolNext
  <2> QED BY <2>2, <2>3
<1>5. ASSUME RenderStopped PROVE PoolNext
  <2>1. PICK n \in Blocks : RenderVoices(n) BY <1>5 DEF RenderStopped
  <2>2. n \in Nat BY StepClockAssumption
  <2> QED BY <2>1, <2>2 DEF PoolNext
<1>6. ASSUME EndBlock PROVE PoolNext
  <2>1. RenderVoices(numSamples - cursor) BY <1>6 DEF EndBlock
  <2>2. numSamples - cursor \in Nat BY <1>3
  <2> QED BY <2>1, <2>2 DEF PoolNext
<1>7. ASSUME FireEvent PROVE PoolNext
  <2> DEFINE best == Least({i \in Due : \A k \in Due : pending[i].sample <= pending[k].sample})
             e == pending[best]
             offset == BetweenOf(e.sample - blockStart, cursor, numSamples)
  <2>1. pending \in Seq(Event) /\ Due # {} BY <1>7 DEF FireEvent, EventInv, Ahead
  <2>2. best \in DOMAIN pending BY <2>1, BestIsDue DEF Due
  <2>3. e.sample \in Nat /\ e.pad \in Pads
    <3>1. e \in Event
      <4> HIDE DEF best, Event
      <4> QED BY <2>1, <2>2
    <3> HIDE DEF e
    <3> QED BY <3>1 DEF Event
  <2>4. \/ \E snd \in Sounds[e.pad] :
             Trigger(Rendered(voices, offset - cursor), NotesAfter(sounding, offset - cursor),
                     e.pad, padGroup[e.pad], snd)
        \/ RenderVoices(offset - cursor)
    BY <1>7 DEF FireEvent
  <2>5. padGroup[e.pad] \in Groups
    <3> HIDE DEF e
    <3> QED BY <2>3 DEF EventInv, Control
  <2> HIDE DEF e
  <2>6. offset - cursor \in Nat
    <3>1. e.sample - blockStart \in Int /\ cursor \in Int /\ numSamples \in Int /\ cursor <= numSamples
      <4> HIDE DEF e
      <4> QED BY <1>3, <2>3
    <3>2. offset \in cursor .. numSamples
      <4> HIDE DEF e
      <4> QED BY <3>1 DEF BetweenOf
    <3> HIDE DEF offset
    <3> QED BY <1>3, <3>1, <3>2
  <2> HIDE DEF offset
  <2> QED BY <2>3, <2>4, <2>5, <2>6 DEF PoolNext
<1>8. ASSUME Prepare PROVE PoolNext BY <1>8 DEF Prepare, PoolNext
<1>9. ASSUME UNCHANGED vars PROVE UNCHANGED poolVars BY <1>9 DEF vars
<1> QED BY <1>1, <1>2, <1>4, <1>5, <1>6, <1>7, <1>8, <1>9 DEF Next, AudioNext

(* The three invariants together.                                           *)
LEMMA SpecPoolInv == Spec => [](Timed /\ EventInv /\ PoolInv)
<1>1. Init => PoolInv
  <2>1. Init => PoolInit BY DEF Init
  <2> QED BY <2>1, PoolInitInv
<1>2. Timed /\ EventInv /\ PoolInv /\ [Next]_vars => PoolInv' BY PoolStep, PoolStepInv
<1> QED BY <1>1, <1>2, SpecEventInv, PTL DEF Spec

(* VoicePool.h:6: every step of the running engine is a step of the pool       *)
(* alone: a trigger after some rendering, a rendering, or nothing.             *)
THEOREM SpecPool == Spec => PoolSpec
<1>1. Init => PoolInit BY DEF Init
<1> QED BY <1>1, PoolStep, SpecPoolInv, PTL DEF Spec, PoolSpec

(* VoicePool.h:6-17: under the event path too, whatever is sequenced,          *)
(* auditioned, edited or stolen, the voices play the notes of the policy.      *)
THEOREM SpecPoolIsTheNotes == Spec => []PoolIsTheNotes
  BY SpecPool, PoolSpecIsTheNotes, PTL

-----------------------------------------------------------------------------
(* The names of the hits: which lane or roll, which of its steps, which       *)
(* ratchet. A sequence of hits has each name once.                           *)

(* The names of a sequence of events, and that none has two. *)
NamesIn(seq) == {seq[i].of : i \in 1 .. Len(seq)}
Once(seq)    == \A i, k \in 1 .. Len(seq) : seq[i].of = seq[k].of => i = k

LEMMA JoinOnce ==
  ASSUME NEW S, NEW s \in Seq(S), NEW t \in Seq(S), Once(s), Once(t),
         NamesIn(s) \cap NamesIn(t) = {}
  PROVE  /\ s \o t \in Seq(S)
         /\ Once(s \o t)
         /\ NamesIn(s \o t) = NamesIn(s) \cup NamesIn(t)
<1> DEFINE m == Len(s)
           n == Len(t)
<1>1. m \in Nat /\ n \in Nat /\ s \o t \in Seq(S) /\ Len(s \o t) = m + n OBVIOUS
<1>2. \A i \in 1 .. m + n : (s \o t)[i] = IF i <= m THEN s[i] ELSE t[i - m] OBVIOUS
<1> DEFINE j == s \o t
<1>3. /\ \A i \in 1 .. m : i \in 1 .. m + n /\ j[i] = s[i]
      /\ \A i \in 1 .. n : m + i \in 1 .. m + n /\ j[m + i] = t[i]
      /\ \A i \in 1 .. m + n : i \in 1 .. m \/ (i - m \in 1 .. n /\ j[i] = t[i - m] /\ ~(i <= m))
  BY <1>1, <1>2
<1>4. NamesIn(j) = {j[i].of : i \in 1 .. m + n} BY <1>1 DEF NamesIn
<1>5. NamesIn(s) = {s[i].of : i \in 1 .. m} /\ NamesIn(t) = {t[i].of : i \in 1 .. n} BY DEF NamesIn
<1>6. Once(j) = (\A i, k \in 1 .. m + n : j[i].of = j[k].of => i = k) BY <1>1 DEF Once
<1>7. /\ \A i, k \in 1 .. m : s[i].of = s[k].of => i = k
      /\ \A i, k \in 1 .. n : t[i].of = t[k].of => i = k
  BY DEF Once
<1> HIDE DEF j, m, n
<1>8. NamesIn(j) = NamesIn(s) \cup NamesIn(t)
  <2>1. ASSUME NEW x \in NamesIn(j) PROVE x \in NamesIn(s) \cup NamesIn(t)
    <3>1. PICK i \in 1 .. m + n : x = j[i].of BY <1>4, <2>1
    <3>2. CASE i \in 1 .. m BY <1>3, <1>5, <3>1, <3>2
    <3>3. CASE i - m \in 1 .. n /\ j[i] = t[i - m] BY <1>5, <3>1, <3>3
    <3> QED BY <1>3, <3>2, <3>3
  <2>2. ASSUME NEW x \in NamesIn(s) PROVE x \in NamesIn(j) BY <1>3, <1>4, <1>5, <2>2
  <2>3. ASSUME NEW x \in NamesIn(t) PROVE x \in NamesIn(j) BY <1>3, <1>4, <1>5, <2>3
  <2> QED BY <2>1, <2>2, <2>3
<1>9. ASSUME NEW i \in 1 .. m + n, NEW k \in 1 .. m + n, j[i].of = j[k].of PROVE i = k
  <2>1. CASE i \in 1 .. m /\ k \in 1 .. m BY <1>3, <1>7, <1>9, <2>1
  <2>2. CASE i \in 1 .. m /\ k \notin 1 .. m
    <3>1. j[i].of \in NamesIn(s) BY <1>3, <1>5, <2>2
    <3>2. j[k].of \in NamesIn(t) BY <1>3, <1>5, <2>2
    <3> QED BY <1>9, <3>1, <3>2
  <2>3. CASE i \notin 1 .. m /\ k \in 1 .. m
    <3>1. j[k].of \in NamesIn(s) BY <1>3, <1>5, <2>3
    <3>2. j[i].of \in NamesIn(t) BY <1>3, <1>5, <2>3
    <3> QED BY <1>9, <3>1, <3>2
  <2>4. CASE i \notin 1 .. m /\ k \notin 1 .. m
    <3>1. i - m \in 1 .. n /\ k - m \in 1 .. n /\ t[i - m].of = t[k - m].of BY <1>3, <1>9, <2>4
    <3>2. i - m = k - m BY <1>7, <3>1
    <3> QED BY <1>1, <3>2
  <2> QED BY <2>1, <2>2, <2>3, <2>4
<1>10. Once(j) BY <1>6, <1>9
<1> QED BY <1>1, <1>8, <1>10 DEF j

(* Joined sequences whose names are apart name what each of them does, once. *)
LEMMA FlattenOnce ==
  ASSUME NEW S, NEW seqs, Len(seqs) \in Nat, Len(seqs) = 0 => seqs = <<>>,
         \A i \in 1 .. Len(seqs) : seqs[i] \in Seq(S) /\ Once(seqs[i]),
         \A i, k \in 1 .. Len(seqs) : i # k => NamesIn(seqs[i]) \cap NamesIn(seqs[k]) = {}
  PROVE  /\ Once(FlattenSeq(seqs))
         /\ NamesIn(FlattenSeq(seqs)) = UNION {NamesIn(seqs[i]) : i \in 1 .. Len(seqs)}
<1> DEFINE n == Len(seqs)
<1>0. CASE n = 0
  <2>1. FlattenSeq(seqs) = <<>> BY <1>0 DEF FlattenSeq
  <2>2. Once(<<>>) /\ NamesIn(<<>>) = {} BY DEF Once, NamesIn
  <2> QED BY <1>0, <2>1, <2>2
<1>1. CASE n # 0
  <2>1. PICK f : /\ FlattenSeq(seqs) = f[n]
                 /\ f[1] = seqs[1]
                 /\ \A i \in 2 .. n : f[i] = f[i - 1] \o seqs[i]
    BY <1>1, FlattenJoins
  <2> DEFINE Good(i) == /\ f[i] \in Seq(S) /\ Once(f[i])
                        /\ NamesIn(f[i]) = UNION {NamesIn(seqs[k]) : k \in 1 .. i}
             Bad == {i \in 1 .. n : ~Good(i)}
  <2> HIDE DEF n
  <2>2. n \in 1 .. n BY <1>1 DEF n
  <2>3. SUFFICES ASSUME Bad # {} PROVE FALSE
    <3>1. Good(n) BY <2>2, <2>3
    <3> QED BY <2>1, <3>1 DEF n
  <2> HIDE DEF Bad, Good
  <2>4. PICK m \in Bad : \A k \in Bad : m <= k
    <3>1. Bad \subseteq Nat BY DEF Bad
    <3> QED BY <2>3, <3>1, LeastExists
  <2>5. m \in 1 .. n /\ ~Good(m) /\ n \in Nat BY <2>4 DEF Bad, n
  <2>6. seqs[m] \in Seq(S) /\ Once(seqs[m]) BY <2>5 DEF n
  <2>7. CASE m = 1
    <3>1. UNION {NamesIn(seqs[k]) : k \in 1 .. 1} = NamesIn(seqs[1])
      <4>1. 1 .. 1 = {1} OBVIOUS
      <4> QED BY <4>1
    <3> QED BY <2>1, <2>5, <2>6, <2>7, <3>1 DEF Good
  <2>8. CASE m # 1
    <3>1. m - 1 \in 1 .. n /\ ~(m <= m - 1) /\ m \in 2 .. n BY <2>5, <2>8
    <3>2. Good(m - 1) BY <2>4, <3>1 DEF Bad
    <3>3. f[m - 1] \in Seq(S) /\ Once(f[m - 1])
          /\ NamesIn(f[m - 1]) = UNION {NamesIn(seqs[k]) : k \in 1 .. m - 1}
      BY <3>2 DEF Good
    <3>4. NamesIn(f[m - 1]) \cap NamesIn(seqs[m]) = {}
      <4>1. \A k \in 1 .. m - 1 : k \in 1 .. n /\ k # m BY <2>5
      <4>2. \A k \in 1 .. m - 1 : NamesIn(seqs[k]) \cap NamesIn(seqs[m]) = {}
        BY <2>5, <4>1 DEF n
      <4> QED BY <3>3, <4>2
    <3>5. f[m] = f[m - 1] \o seqs[m] BY <2>1, <3>1
    <3>6. f[m] \in Seq(S) /\ Once(f[m]) /\ NamesIn(f[m]) = NamesIn(f[m - 1]) \cup NamesIn(seqs[m])
      BY <2>6, <3>3, <3>4, <3>5, JoinOnce
    <3>7. 1 .. m = (1 .. m - 1) \cup {m} BY <2>5
    <3>8. NamesIn(f[m]) = UNION {NamesIn(seqs[k]) : k \in 1 .. m} BY <3>3, <3>6, <3>7
    <3> QED BY <2>5, <3>6, <3>8 DEF Good
  <2> QED BY <2>7, <2>8
<1> QED BY <1>0, <1>1

-----------------------------------------------------------------------------
(* Every hit a step generates has a name of its own.                         *)

(* What lane step p and a roll on step g are called.                        *)
StepNames(li, p) ==
  LET lane == pattern.lanes[li]
      pos  == p % LaneLength(lane)
  IN  IF pos \notin DOMAIN lane.lit \/ Gated(lane.lit[pos], p, li) THEN {}
      ELSE {<<"lane", li, p, j>> : j \in 0 .. RatchetCount(lane.lit[pos]) - 1}

LaneNames(li, g) ==
  UNION {StepNames(li, p) :
           p \in {q \in LaneStepsInGlobalStep(LaneStepRate(pattern.lanes[li].triplet), g) :
                    pattern.lanes[li].length >= 1}}

RollNames(ri, g) ==
  IF g % BarSteps # pattern.rolls[ri].start THEN {}
  ELSE {<<"roll", ri, g, k>> : k \in DOMAIN pattern.rolls[ri].offsets}

GlobalStepNames(g) ==
  (UNION {LaneNames(li, g) : li \in DOMAIN pattern.lanes})
    \cup (UNION {RollNames(ri, g) : ri \in DOMAIN pattern.rolls})

LEMMA StepHitsOnce ==
  ASSUME pattern \in Patterns, NEW li \in DOMAIN pattern.lanes, NEW p \in Nat, NEW g, NEW at
  PROVE  Once(StepHits(li, p, g, at)) /\ NamesIn(StepHits(li, p, g, at)) = StepNames(li, p)
<1> DEFINE lane == pattern.lanes[li]
           pos  == p % LaneLength(lane)
           r    == RatchetCount(lane.lit[pos])
           hs   == [j \in 1 .. r |-> LaneEvent(li, p, g, at, j)]
<1>1. CASE pos \notin DOMAIN lane.lit \/ Gated(lane.lit[pos], p, li)
  <2>1. StepHits(li, p, g, at) = <<>> BY <1>1, StepHitsAre
  <2>2. StepNames(li, p) = {} BY <1>1 DEF StepNames
  <2> QED BY <2>1, <2>2 DEF Once, NamesIn
<1>2. CASE pos \in DOMAIN lane.lit /\ ~Gated(lane.lit[pos], p, li)
  <2>1. StepHits(li, p, g, at) = hs BY <1>2, StepHitsAre
  <2>2. r \in 1 .. 8 BY <1>2, LaneOK
  <2>3. StepNames(li, p) = {<<"lane", li, p, j>> : j \in 0 .. r - 1} BY <1>2 DEF StepNames
  <2>4. \A j : LaneEvent(li, p, g, at, j).of = <<"lane", li, p, j - 1>> BY DEF LaneEvent
  <2> HIDE DEF r
  <2>5. Len(hs) = r /\ \A j \in 1 .. r : hs[j].of = <<"lane", li, p, j - 1>> BY <2>2, <2>4
  <2> HIDE DEF hs
  <2>6. Once(hs)
    <3> SUFFICES ASSUME NEW i \in 1 .. r, NEW k \in 1 .. r, hs[i].of = hs[k].of PROVE i = k
      BY <2>5 DEF Once
    <3>1. <<"lane", li, p, i - 1>> = <<"lane", li, p, k - 1>> BY <2>5
    <3>2. i - 1 = k - 1 BY <3>1
    <3> QED BY <2>2, <3>2
  <2>7. NamesIn(hs) = {<<"lane", li, p, j>> : j \in 0 .. r - 1}
    <3>1. NamesIn(hs) = {<<"lane", li, p, j - 1>> : j \in 1 .. r} BY <2>5 DEF NamesIn
    <3>2. \A j \in 1 .. r : j - 1 \in 0 .. r - 1 BY <2>2
    <3>3. \A j \in 0 .. r - 1 : j + 1 \in 1 .. r /\ j + 1 - 1 = j BY <2>2
    <3>4. \A j \in 0 .. r - 1 : \E i \in 1 .. r : <<"lane", li, p, j>> = <<"lane", li, p, i - 1>>
      BY <3>3
    <3> QED BY <3>1, <3>2, <3>4
  <2> QED BY <2>1, <2>3, <2>6, <2>7
<1> QED BY <1>1, <1>2

(* A name says of which lane and step it is. *)
LEMMA NamesApart ==
  /\ \A li, p, x : x \in StepNames(li, p) => x[1] = "lane" /\ x[2] = li /\ x[3] = p
  /\ \A li, g, x : x \in LaneNames(li, g) =>
       /\ x[1] = "lane" /\ x[2] = li
       /\ x[3] \in LaneStepsInGlobalStep(LaneStepRate(pattern.lanes[li].triplet), g)
  /\ \A ri, g, x : x \in RollNames(ri, g) => x[1] = "roll" /\ x[2] = ri /\ x[3] = g
<1>1. ASSUME NEW li, NEW p, NEW x \in StepNames(li, p) PROVE x[1] = "lane" /\ x[2] = li /\ x[3] = p
  <2>1. \E j : x = <<"lane", li, p, j>> BY DEF StepNames
  <2> QED BY <2>1
<1>2. ASSUME NEW ri, NEW g, NEW x \in RollNames(ri, g) PROVE x[1] = "roll" /\ x[2] = ri /\ x[3] = g
  <2>1. \E j : x = <<"roll", ri, g, j>> BY DEF RollNames
  <2> QED BY <2>1
<1>3. ASSUME NEW li, NEW g, NEW x \in LaneNames(li, g)
      PROVE /\ x[1] = "lane" /\ x[2] = li
            /\ x[3] \in LaneStepsInGlobalStep(LaneStepRate(pattern.lanes[li].triplet), g)
  <2>1. PICK p \in LaneStepsInGlobalStep(LaneStepRate(pattern.lanes[li].triplet), g) :
          x \in StepNames(li, p)
    BY DEF LaneNames
  <2> QED BY <1>1, <2>1
<1> QED BY <1>1, <1>2, <1>3

LEMMA LaneHitsOnce ==
  ASSUME pattern \in Patterns, feel \in Feels, tempo \in Tempos, NEW li \in DOMAIN pattern.lanes,
         NEW g \in Nat, NEW at \in Nat
  PROVE  Once(LaneHits(li, g, at)) /\ NamesIn(LaneHits(li, g, at)) = LaneNames(li, g)
<1> DEFINE rate == LaneStepRate(pattern.lanes[li].triplet)
           L    == LaneStepsInGlobalStep(rate, g)
           S    == NewEvents(at, 2 * at - g * tempo \in 0 .. 1)
           n    == Cardinality(L)
           p(k) == FirstLaneStep(rate, g) + k - 1
           sq   == [k \in 1 .. n |-> StepHits(li, p(k), g, at)]
<1>1. n \in Nat /\ FirstLaneStep(rate, g) \in Nat /\ \A q : q \in L <=> \E k \in 1 .. n : q = p(k)
  BY LaneOK, StepNumbers
<1>2. \A k \in 1 .. n : p(k) \in L /\ p(k) \in Nat BY <1>1
<1>3. \A i, k \in 1 .. n : p(i) = p(k) => i = k BY <1>1
<1>4. LaneHits(li, g, at) = IF pattern.lanes[li].length < 1 THEN <<>> ELSE FlattenSeq(sq)
  BY DEF LaneHits
<1>5. ASSUME NEW k \in 1 .. n
      PROVE  /\ StepHits(li, p(k), g, at) \in Seq(S)
             /\ Once(StepHits(li, p(k), g, at))
             /\ NamesIn(StepHits(li, p(k), g, at)) = StepNames(li, p(k))
  <2>1. p(k) \in L /\ p(k) \in Nat BY <1>2
  <2> HIDE DEF p
  <2>2. StepHits(li, p(k), g, at) \in Seq(S) BY <2>1, StepHitsNew
  <2> QED BY <2>1, <2>2, StepHitsOnce
<1> HIDE DEF S, n, p
<1>6. Len(sq) = n /\ (\A k \in 1 .. n : sq[k] \in Seq(S) /\ Once(sq[k])) /\ (n = 0 => sq = <<>>)
  BY <1>1, <1>5
<1>7. \A k \in 1 .. n : NamesIn(sq[k]) = StepNames(li, p(k)) BY <1>5
<1> HIDE DEF sq
<1>8. \A i, k \in 1 .. n : i # k => NamesIn(sq[i]) \cap NamesIn(sq[k]) = {}
  <2> SUFFICES ASSUME NEW i \in 1 .. n, NEW k \in 1 .. n, i # k,
                      NEW x \in NamesIn(sq[i]), x \in NamesIn(sq[k])
               PROVE  FALSE
    OBVIOUS
  <2>1. x[3] = p(i) /\ x[3] = p(k) BY <1>7, NamesApart
  <2> QED BY <1>3, <2>1
<1>9. Once(FlattenSeq(sq)) /\ NamesIn(FlattenSeq(sq)) = UNION {NamesIn(sq[k]) : k \in 1 .. n}
  BY <1>1, <1>6, <1>8, FlattenOnce
<1>10. UNION {NamesIn(sq[k]) : k \in 1 .. n} = UNION {StepNames(li, p(k)) : k \in 1 .. n} BY <1>7
<1>11. {StepNames(li, p(k)) : k \in 1 .. n} = {StepNames(li, q) : q \in L} BY <1>1, <1>2
<1>12. CASE pattern.lanes[li].length >= 1
  <2>1. ~(pattern.lanes[li].length < 1) BY <1>12, LaneOK
  <2>2. LaneNames(li, g) = UNION {StepNames(li, q) : q \in L} BY <1>12 DEF LaneNames
  <2> HIDE DEF L
  <2> QED BY <1>4, <1>9, <1>10, <1>11, <2>1, <2>2
<1>13. CASE ~(pattern.lanes[li].length >= 1)
  <2>1. pattern.lanes[li].length < 1 BY <1>13, LaneOK
  <2>2. LaneNames(li, g) = {} BY <1>13 DEF LaneNames
  <2>3. LaneHits(li, g, at) = <<>> BY <1>4, <2>1
  <2>4. Once(<<>>) /\ NamesIn(<<>>) = {} BY DEF Once, NamesIn
  <2> QED BY <2>2, <2>3, <2>4
<1> QED BY <1>12, <1>13

LEMMA RollHitsOnce ==
  ASSUME pattern \in Patterns, NEW ri \in DOMAIN pattern.rolls, NEW g, NEW at
  PROVE  Once(RollHits(ri, g, at)) /\ NamesIn(RollHits(ri, g, at)) = RollNames(ri, g)
<1> DEFINE n  == Len(pattern.rolls[ri].offsets)
           sq == [k \in 1 .. n |-> RollEvent(ri, g, at, k)]
<1>1. RollHits(ri, g, at) = IF g % BarSteps # pattern.rolls[ri].start THEN <<>> ELSE sq
  BY DEF RollHits, RollEvent
<1>2. n \in Nat /\ DOMAIN pattern.rolls[ri].offsets = 1 .. n BY RollOK
<1>3. \A k : RollEvent(ri, g, at, k).of = <<"roll", ri, g, k>> BY DEF RollEvent
<1> HIDE DEF n
<1>4. Len(sq) = n /\ \A k \in 1 .. n : sq[k].of = <<"roll", ri, g, k>> BY <1>2, <1>3
<1> HIDE DEF sq
<1>5. CASE g % BarSteps # pattern.rolls[ri].start
  <2>1. RollHits(ri, g, at) = <<>> /\ RollNames(ri, g) = {} BY <1>1, <1>5 DEF RollNames
  <2> QED BY <2>1 DEF Once, NamesIn
<1>6. CASE g % BarSteps = pattern.rolls[ri].start
  <2>1. RollHits(ri, g, at) = sq BY <1>1, <1>6
  <2>2. RollNames(ri, g) = {<<"roll", ri, g, k>> : k \in 1 .. n} BY <1>2, <1>6 DEF RollNames
  <2>3. NamesIn(sq) = {<<"roll", ri, g, k>> : k \in 1 .. n} BY <1>4 DEF NamesIn
  <2>4. Once(sq)
    <3> SUFFICES ASSUME NEW i \in 1 .. n, NEW k \in 1 .. n, sq[i].of = sq[k].of PROVE i = k
      BY <1>4 DEF Once
    <3>1. <<"roll", ri, g, i>> = <<"roll", ri, g, k>> BY <1>4
    <3> QED BY <3>1
  <2> QED BY <2>1, <2>2, <2>3, <2>4
<1> QED BY <1>5, <1>6

LEMMA GeneratedOnce ==
  ASSUME pattern \in Patterns, feel \in Feels, tempo \in Tempos, NEW g \in Nat, NEW at \in Nat
  PROVE  /\ Once(GeneratedEvents(g, at))
         /\ NamesIn(GeneratedEvents(g, at)) = GlobalStepNames(g)
<1> DEFINE S  == NewEvents(at, 2 * at - g * tempo \in 0 .. 1)
           ls == [li \in DOMAIN pattern.lanes |-> LaneHits(li, g, at)]
           rs == [ri \in DOMAIN pattern.rolls |-> RollHits(ri, g, at)]
           m  == Len(pattern.lanes)
           n  == Len(pattern.rolls)
<1>1. PatternOK(pattern) BY StepEventsAssumption
<1>2. m \in Nat /\ DOMAIN pattern.lanes = 1 .. m /\ n \in Nat /\ DOMAIN pattern.rolls = 1 .. n
  BY <1>1 DEF PatternOK
<1>3. \A li \in 1 .. m : /\ LaneHits(li, g, at) \in Seq(S) /\ Once(LaneHits(li, g, at))
                         /\ NamesIn(LaneHits(li, g, at)) = LaneNames(li, g)
  BY <1>2, LaneHitsNew, LaneHitsOnce
<1>4. \A ri \in 1 .. n : /\ RollHits(ri, g, at) \in Seq(S) /\ Once(RollHits(ri, g, at))
                         /\ NamesIn(RollHits(ri, g, at)) = RollNames(ri, g)
  BY <1>2, RollHitsNew, RollHitsOnce
<1> HIDE DEF S, m, n
<1>5. Len(ls) = m /\ (\A i \in 1 .. m : ls[i] \in Seq(S) /\ Once(ls[i])) /\ (m = 0 => ls = <<>>)
  BY <1>2, <1>3
<1>6. Len(rs) = n /\ (\A i \in 1 .. n : rs[i] \in Seq(S) /\ Once(rs[i])) /\ (n = 0 => rs = <<>>)
  BY <1>2, <1>4
<1>7. (\A i \in 1 .. m : NamesIn(ls[i]) = LaneNames(i, g)) BY <1>2, <1>3
<1>8. (\A i \in 1 .. n : NamesIn(rs[i]) = RollNames(i, g)) BY <1>2, <1>4
<1>9. GeneratedEvents(g, at) = FlattenSeq(ls) \o FlattenSeq(rs) BY DEF GeneratedEvents
<1> HIDE DEF ls, rs
<1>10. \A i, k \in 1 .. m : i # k => NamesIn(ls[i]) \cap NamesIn(ls[k]) = {}
  <2> SUFFICES ASSUME NEW i \in 1 .. m, NEW k \in 1 .. m, i # k,
                      NEW x \in NamesIn(ls[i]), x \in NamesIn(ls[k])
               PROVE  FALSE
    OBVIOUS
  <2>1. x[2] = i /\ x[2] = k BY <1>7, NamesApart
  <2> QED BY <2>1
<1>11. \A i, k \in 1 .. n : i # k => NamesIn(rs[i]) \cap NamesIn(rs[k]) = {}
  <2> SUFFICES ASSUME NEW i \in 1 .. n, NEW k \in 1 .. n, i # k,
                      NEW x \in NamesIn(rs[i]), x \in NamesIn(rs[k])
               PROVE  FALSE
    OBVIOUS
  <2>1. x[2] = i /\ x[2] = k BY <1>8, NamesApart
  <2> QED BY <2>1
<1>12. /\ FlattenSeq(ls) \in Seq(S) /\ Once(FlattenSeq(ls))
       /\ NamesIn(FlattenSeq(ls)) = UNION {NamesIn(ls[i]) : i \in 1 .. m}
  <2>1. FlattenSeq(ls) \in Seq(S) BY <1>2, <1>5, FlattenSeqIn
  <2> QED BY <1>2, <1>5, <1>10, <2>1, FlattenOnce
<1>13. /\ FlattenSeq(rs) \in Seq(S) /\ Once(FlattenSeq(rs))
       /\ NamesIn(FlattenSeq(rs)) = UNION {NamesIn(rs[i]) : i \in 1 .. n}
  <2>1. FlattenSeq(rs) \in Seq(S) BY <1>2, <1>6, FlattenSeqIn
  <2> QED BY <1>2, <1>6, <1>11, <2>1, FlattenOnce
<1>14. NamesIn(FlattenSeq(ls)) = UNION {LaneNames(i, g) : i \in 1 .. m} BY <1>7, <1>12
<1>15. NamesIn(FlattenSeq(rs)) = UNION {RollNames(i, g) : i \in 1 .. n} BY <1>8, <1>13
<1>16. NamesIn(FlattenSeq(ls)) \cap NamesIn(FlattenSeq(rs)) = {}
  <2> SUFFICES ASSUME NEW x \in NamesIn(FlattenSeq(ls)), x \in NamesIn(FlattenSeq(rs)) PROVE FALSE
    OBVIOUS
  <2>1. PICK i \in 1 .. m : x \in LaneNames(i, g) BY <1>14
  <2>2. PICK k \in 1 .. n : x \in RollNames(k, g) BY <1>15
  <2>3. x[1] = "lane" /\ x[1] = "roll" BY <2>1, <2>2, NamesApart
  <2> QED BY <2>3
<1>17. /\ Once(FlattenSeq(ls) \o FlattenSeq(rs))
       /\ NamesIn(FlattenSeq(ls) \o FlattenSeq(rs)) = NamesIn(FlattenSeq(ls)) \cup NamesIn(FlattenSeq(rs))
  BY <1>12, <1>13, <1>16, JoinOnce
<1>18. NamesIn(GeneratedEvents(g, at)) = GlobalStepNames(g)
  <2> DEFINE U == UNION {LaneNames(i, g) : i \in 1 .. m}
             V == UNION {RollNames(i, g) : i \in 1 .. n}
  <2>1. GlobalStepNames(g) = U \cup V BY <1>2 DEF GlobalStepNames
  <2>2. NamesIn(FlattenSeq(ls)) = U /\ NamesIn(FlattenSeq(rs)) = V BY <1>14, <1>15
  <2> HIDE DEF U, V
  <2>3. NamesIn(GeneratedEvents(g, at)) = NamesIn(FlattenSeq(ls)) \cup NamesIn(FlattenSeq(rs))
    BY <1>9, <1>17
  <2> QED BY <2>1, <2>2, <2>3
<1>19. Once(GeneratedEvents(g, at)) BY <1>9, <1>17
<1> QED BY <1>18, <1>19

-----------------------------------------------------------------------------
(* What a pattern asks for grows by what the next step generates.            *)

(* p < n * den / num, in Expected, and the lane steps of a global step.      *)
LEMMA LitStepsGrow ==
  ASSUME pattern \in Patterns, NEW li \in DOMAIN pattern.lanes, NEW g \in Nat, NEW p
  PROVE  LET lane == pattern.lanes[li]
             new  == /\ p \in LaneStepsInGlobalStep(LaneStepRate(lane.triplet), g)
                     /\ lane.length >= 1
                     /\ p % LaneLength(lane) \in DOMAIN lane.lit
                     /\ ~Gated(lane.lit[p % LaneLength(lane)], p, li)
         IN  /\ p \in LitSteps(li, g + 1) <=> p \in LitSteps(li, g) \/ new
             /\ ~(p \in LitSteps(li, g) /\ new)
<1> DEFINE lane == pattern.lanes[li]
           rate == LaneStepRate(lane.triplet)
           lit  == /\ lane.length >= 1
                   /\ p % LaneLength(lane) \in DOMAIN lane.lit
                   /\ ~Gated(lane.lit[p % LaneLength(lane)], p, li)
           in   == p \in LaneStepsInGlobalStep(rate, g)
<1>0. lane.triplet \in BOOLEAN BY LaneOK
<1>1. \A n : p \in LitSteps(li, n) <=> p \in 0 .. n /\ p * rate.num < n * rate.den /\ lit
  BY DEF LitSteps
<1>2. in => p \in Nat BY <1>0, StepsIn
<1>3. p \notin Nat => ~(p \in 0 .. g + 1) /\ ~(p \in 0 .. g) OBVIOUS
<1>4. ASSUME p \in Nat
      PROVE  /\ p \in 0 .. g + 1 /\ p * rate.num < (g + 1) * rate.den
                  <=> (p \in 0 .. g /\ p * rate.num < g * rate.den) \/ in
             /\ ~(p \in 0 .. g /\ p * rate.num < g * rate.den /\ in)
  <2>1. CASE lane.triplet = TRUE
    <3>1. in <=> (3 * g <= 4 * p /\ 4 * p < 3 * g + 3) BY <1>4, <2>1, StepsOf
    <3>2. rate.num = 4 /\ rate.den = 3 BY <2>1, Rates
    <3> HIDE DEF in, rate
    <3>3. /\ p \in 0 .. g + 1 /\ p * 4 < (g + 1) * 3
               <=> (p \in 0 .. g /\ p * 4 < g * 3) \/ (3 * g <= 4 * p /\ 4 * p < 3 * g + 3)
          /\ ~(p \in 0 .. g /\ p * 4 < g * 3 /\ 3 * g <= 4 * p /\ 4 * p < 3 * g + 3)
      BY <1>4
    <3> QED BY <3>1, <3>2, <3>3
  <2>2. CASE lane.triplet = FALSE
    <3>1. in <=> p = g BY <1>4, <2>2, StepsOf
    <3>2. rate.num = 1 /\ rate.den = 1 BY <2>2, Rates
    <3> HIDE DEF in, rate
    <3>3. /\ p \in 0 .. g + 1 /\ p * 1 < (g + 1) * 1
               <=> (p \in 0 .. g /\ p * 1 < g * 1) \/ p = g
          /\ ~(p \in 0 .. g /\ p * 1 < g * 1 /\ p = g)
      BY <1>4
    <3> QED BY <3>1, <3>2, <3>3
  <2> QED BY <1>0, <2>1, <2>2
<1>5. p \in LitSteps(li, g + 1) <=> p \in 0 .. g + 1 /\ p * rate.num < (g + 1) * rate.den /\ lit
  BY <1>1
<1>6. p \in LitSteps(li, g) <=> p \in 0 .. g /\ p * rate.num < g * rate.den /\ lit
  BY <1>1
<1> HIDE DEF in, lit, rate
<1>7. CASE p \in Nat
  <2>1. /\ p \in LitSteps(li, g + 1) <=> p \in LitSteps(li, g) \/ (in /\ lit)
        /\ ~(p \in LitSteps(li, g) /\ in /\ lit)
    BY <1>4, <1>5, <1>6, <1>7, Zenon
  <2> QED BY <2>1 DEF in, lit, rate
<1>8. CASE p \notin Nat
  <2>1. ~in /\ p \notin LitSteps(li, g + 1) /\ p \notin LitSteps(li, g)
    BY <1>2, <1>3, <1>5, <1>6, <1>8, Zenon
  <2> QED BY <2>1 DEF in, lit, rate
<1> QED BY <1>7, <1>8

(* What the first n global steps ask for of lane li and of roll ri.          *)
AskedOfLane(li, n) == UNION {StepNames(li, p) : p \in LitSteps(li, n)}
AskedOfRoll(ri, n) ==
  {<<"roll", ri, g, k>> : g \in {h \in 0 .. n - 1 : h % BarSteps = pattern.rolls[ri].start},
                          k \in DOMAIN pattern.rolls[ri].offsets}

LEMMA ExpectedAre ==
  ASSUME NEW n
  PROVE  Expected(n) = (UNION {AskedOfLane(li, n) : li \in DOMAIN pattern.lanes})
                         \cup (UNION {AskedOfRoll(ri, n) : ri \in DOMAIN pattern.rolls})
<1> DEFINE OfLane(li) == UNION {{<<"lane", li, p, j>> :
                             j \in 0 .. RatchetCount(pattern.lanes[li].lit[p % LaneLength(pattern.lanes[li])]) - 1} :
                             p \in LitSteps(li, n)}
<1>1. \A li : OfLane(li) = AskedOfLane(li, n)
  <2> TAKE li
  <2>1. \A p \in LitSteps(li, n) :
          StepNames(li, p) = {<<"lane", li, p, j>> :
             j \in 0 .. RatchetCount(pattern.lanes[li].lit[p % LaneLength(pattern.lanes[li])]) - 1}
    BY DEF LitSteps, StepNames
  <2> QED BY <2>1 DEF AskedOfLane
<1>2. Expected(n) = (UNION {OfLane(li) : li \in DOMAIN pattern.lanes})
                         \cup (UNION {AskedOfRoll(ri, n) : ri \in DOMAIN pattern.rolls})
  BY DEF Expected, AskedOfRoll
<1> HIDE DEF OfLane
<1> QED BY <1>1, <1>2

LEMMA ExpectedGrows ==
  ASSUME pattern \in Patterns, NEW g \in Nat
  PROVE  /\ Expected(g + 1) = Expected(g) \cup GlobalStepNames(g)
         /\ Expected(g) \cap GlobalStepNames(g) = {}
<1>1. ASSUME NEW li \in DOMAIN pattern.lanes
      PROVE  /\ AskedOfLane(li, g + 1) = AskedOfLane(li, g) \cup LaneNames(li, g)
             /\ AskedOfLane(li, g) \cap LaneNames(li, g) = {}
  <2> DEFINE lane == pattern.lanes[li]
             L == {q \in LaneStepsInGlobalStep(LaneStepRate(lane.triplet), g) : lane.length >= 1}
             Lit(p) == p % LaneLength(lane) \in DOMAIN lane.lit /\ ~Gated(lane.lit[p % LaneLength(lane)], p, li)
  <2>1. \A p : p \in LitSteps(li, g + 1) <=> p \in LitSteps(li, g) \/ (p \in L /\ Lit(p))
    BY LitStepsGrow
  <2>2. \A p : ~(p \in LitSteps(li, g) /\ p \in L /\ Lit(p)) BY LitStepsGrow
  <2>3. \A p : ~Lit(p) => StepNames(li, p) = {} BY DEF StepNames
  <2>4. LaneNames(li, g) = UNION {StepNames(li, p) : p \in L} BY DEF LaneNames
  <2> HIDE DEF L, Lit
  <2>5. \A x, n : x \in AskedOfLane(li, n) <=> \E p \in LitSteps(li, n) : x \in StepNames(li, p)
    BY DEF AskedOfLane
  <2>6. \A x : x \in LaneNames(li, g) <=> \E p \in L : Lit(p) /\ x \in StepNames(li, p)
    BY <2>3, <2>4
  <2>7. ASSUME NEW x
        PROVE  x \in AskedOfLane(li, g + 1) <=> x \in AskedOfLane(li, g) \/ x \in LaneNames(li, g)
    BY <2>1, <2>5, <2>6
  <2>8. ASSUME NEW x \in AskedOfLane(li, g), x \in LaneNames(li, g) PROVE FALSE
    <3>1. PICK p \in LitSteps(li, g) : x \in StepNames(li, p) BY <2>5, <2>8
    <3>2. PICK q \in L : Lit(q) /\ x \in StepNames(li, q) BY <2>6, <2>8
    <3>3. x[3] = p /\ x[3] = q BY <3>1, <3>2, NamesApart
    <3> QED BY <2>2, <3>1, <3>2, <3>3
  <2> QED BY <2>7, <2>8
<1>2. ASSUME NEW ri
      PROVE  /\ AskedOfRoll(ri, g + 1) = AskedOfRoll(ri, g) \cup RollNames(ri, g)
             /\ \A x \in AskedOfRoll(ri, g) : x[3] \in 0 .. g - 1
  <2> DEFINE start == pattern.rolls[ri].start
             D     == DOMAIN pattern.rolls[ri].offsets
             G(n)  == {h \in 0 .. n - 1 : h % BarSteps = start}
  <2>1. G(g + 1) = G(g) \cup (IF g % BarSteps = start THEN {g} ELSE {})
    <3>1. 0 .. g + 1 - 1 = (0 .. g - 1) \cup {g} OBVIOUS
    <3> QED BY <3>1
  <2>2. \A n : AskedOfRoll(ri, n) = {<<"roll", ri, h, k>> : h \in G(n), k \in D} BY DEF AskedOfRoll
  <2>3. RollNames(ri, g) = IF g % BarSteps = start THEN {<<"roll", ri, g, k>> : k \in D} ELSE {}
    BY DEF RollNames
  <2>4. \A h \in G(g) : h \in 0 .. g - 1 OBVIOUS
  <2> HIDE DEF G, D, start
  <2>5. \A x \in AskedOfRoll(ri, g) : x[3] \in 0 .. g - 1
    <3> TAKE x \in AskedOfRoll(ri, g)
    <3>1. PICK h \in G(g), k \in D : x = <<"roll", ri, h, k>> BY <2>2
    <3> QED BY <2>4, <3>1
  <2>6. AskedOfRoll(ri, g + 1) = AskedOfRoll(ri, g) \cup RollNames(ri, g)
    <3>1. CASE g % BarSteps = start
      <4>1. G(g + 1) = G(g) \cup {g} BY <2>1, <3>1
      <4>2. \A x : x \in RollNames(ri, g) <=> \E k \in D : x = <<"roll", ri, g, k>> BY <2>3, <3>1
      <4>3. ASSUME NEW n, NEW x
            PROVE  x \in AskedOfRoll(ri, n) <=> \E h \in G(n) : \E k \in D : x = <<"roll", ri, h, k>>
        BY <2>2
      <4>4. ASSUME NEW x
            PROVE  x \in AskedOfRoll(ri, g + 1) <=> x \in AskedOfRoll(ri, g) \/ x \in RollNames(ri, g)
        <5>1. x \in AskedOfRoll(ri, g + 1)
                <=> \E h \in G(g) \cup {g} : \E k \in D : x = <<"roll", ri, h, k>>
          BY <4>1, <4>3
        <5>2. x \in AskedOfRoll(ri, g) <=> \E h \in G(g) : \E k \in D : x = <<"roll", ri, h, k>>
          BY <4>3
        <5> DEFINE Named(h) == \E k \in D : x = <<"roll", ri, h, k>>
        <5>3. /\ x \in AskedOfRoll(ri, g + 1) <=> \E h \in G(g) \cup {g} : Named(h)
              /\ x \in AskedOfRoll(ri, g) <=> \E h \in G(g) : Named(h)
              /\ x \in RollNames(ri, g) <=> Named(g)
          BY <4>2, <5>1, <5>2
        <5> HIDE DEF Named
        <5> QED BY <5>3
      <4> QED BY <4>4
    <3>2. CASE g % BarSteps # start
      <4>1. G(g + 1) = G(g) BY <2>1, <3>2
      <4>2. RollNames(ri, g) = {} BY <2>3, <3>2
      <4> QED BY <2>2, <4>1, <4>2
    <3> QED BY <3>1, <3>2
  <2> QED BY <2>5, <2>6
<1>3. \A n : Expected(n) = (UNION {AskedOfLane(li, n) : li \in DOMAIN pattern.lanes})
                            \cup (UNION {AskedOfRoll(ri, n) : ri \in DOMAIN pattern.rolls})
  BY ExpectedAre
<1>4. ASSUME NEW n, NEW x
      PROVE  x \in Expected(n) <=> \/ \E li \in DOMAIN pattern.lanes : x \in AskedOfLane(li, n)
                                   \/ \E ri \in DOMAIN pattern.rolls : x \in AskedOfRoll(ri, n)
  <2> DEFINE U == UNION {AskedOfLane(li, n) : li \in DOMAIN pattern.lanes}
             V == UNION {AskedOfRoll(ri, n) : ri \in DOMAIN pattern.rolls}
  <2>1. x \in U <=> \E li \in DOMAIN pattern.lanes : x \in AskedOfLane(li, n) OBVIOUS
  <2>2. x \in V <=> \E ri \in DOMAIN pattern.rolls : x \in AskedOfRoll(ri, n) OBVIOUS
  <2>3. Expected(n) = U \cup V BY <1>3
  <2> HIDE DEF U, V
  <2> QED BY <2>1, <2>2, <2>3
<1>5. ASSUME NEW x
      PROVE  x \in GlobalStepNames(g) <=> \/ \E li \in DOMAIN pattern.lanes : x \in LaneNames(li, g)
                                          \/ \E ri \in DOMAIN pattern.rolls : x \in RollNames(ri, g)
  <2> DEFINE U == UNION {LaneNames(li, g) : li \in DOMAIN pattern.lanes}
             V == UNION {RollNames(ri, g) : ri \in DOMAIN pattern.rolls}
  <2>1. x \in U <=> \E li \in DOMAIN pattern.lanes : x \in LaneNames(li, g) OBVIOUS
  <2>2. x \in V <=> \E ri \in DOMAIN pattern.rolls : x \in RollNames(ri, g) OBVIOUS
  <2>3. GlobalStepNames(g) = U \cup V BY DEF GlobalStepNames
  <2> HIDE DEF U, V
  <2> QED BY <2>1, <2>2, <2>3
<1>6. Expected(g + 1) = Expected(g) \cup GlobalStepNames(g)
  <2>1. ASSUME NEW x PROVE x \in Expected(g + 1) <=> x \in Expected(g) \/ x \in GlobalStepNames(g)
    BY <1>1, <1>2, <1>4, <1>5
  <2> QED BY <2>1
<1>7. ASSUME NEW x \in Expected(g), x \in GlobalStepNames(g) PROVE FALSE
  <2>1. \A li, n : x \in AskedOfLane(li, n) => x[1] = "lane" /\ x[2] = li BY NamesApart DEF AskedOfLane
  <2>2. \A ri, n : x \in AskedOfRoll(ri, n) => x[1] = "roll" /\ x[2] = ri BY DEF AskedOfRoll
  <2>3. CASE \E li \in DOMAIN pattern.lanes : x \in AskedOfLane(li, g)
    <3>1. PICK li \in DOMAIN pattern.lanes : x \in AskedOfLane(li, g) BY <2>3
    <3>2. x[1] = "lane" /\ x[2] = li BY <2>1, <3>1
    <3>3. x \in LaneNames(li, g) BY <1>5, <1>7, <3>2, NamesApart
    <3> QED BY <1>1, <3>1, <3>3
  <2>4. CASE \E ri \in DOMAIN pattern.rolls : x \in AskedOfRoll(ri, g)
    <3>1. PICK ri \in DOMAIN pattern.rolls : x \in AskedOfRoll(ri, g) BY <2>4
    <3>2. x[1] = "roll" /\ x[2] = ri /\ x[3] \in 0 .. g - 1 BY <1>2, <2>2, <3>1
    <3>3. x[3] = g BY <1>5, <1>7, <3>2, NamesApart
    <3> QED BY <3>2, <3>3
  <2> QED BY <1>4, <1>7, <2>3, <2>4
<1> QED BY <1>6, <1>7

LEMMA NothingExpected == Expected(0) = {}
<1>1. ASSUME NEW li PROVE LitSteps(li, 0) = {}
  <2> SUFFICES ASSUME NEW p \in LitSteps(li, 0) PROVE FALSE OBVIOUS
  <2>1. p \in 0 .. 0 /\ p * LaneStepRate(pattern.lanes[li].triplet).num
                          < 0 * LaneStepRate(pattern.lanes[li].triplet).den
    BY DEF LitSteps
  <2>2. LaneStepRate(pattern.lanes[li].triplet).num \in Nat /\ LaneStepRate(pattern.lanes[li].triplet).den \in Nat
    BY DEF LaneStepRate
  <2> QED BY <2>1, <2>2
<1>2. \A li : AskedOfLane(li, 0) = {} BY <1>1 DEF AskedOfLane
<1>3. \A ri : AskedOfRoll(ri, 0) = {} BY DEF AskedOfRoll
<1> QED BY <1>2, <1>3, ExpectedAre

-----------------------------------------------------------------------------
(* Where hits go: kept or dropped, taken, played.                            *)

(* A sequence with every name once has as many names as entries.             *)
LEMMA CountOnce ==
  ASSUME NEW S, NEW s \in Seq(S), Once(s)
  PROVE  IsFiniteSet(NamesIn(s)) /\ Cardinality(NamesIn(s)) = Len(s)
<1> DEFINE D == 1 .. Len(s)
           f == [i \in D |-> s[i].of]
<1>1. Len(s) \in Nat OBVIOUS
<1>2. IsFiniteSet(D) /\ Cardinality(D) = Len(s) BY <1>1, FS_Interval
<1>3. f \in Surjection(D, NamesIn(s)) BY DEF Surjection, NamesIn
<1>4. f \in Injection(D, NamesIn(s))
  <2>1. f \in [D -> NamesIn(s)] BY DEF NamesIn
  <2>2. \A i, j \in D : f[i] = f[j] => i = j BY DEF Once
  <2> QED BY <2>1, <2>2 DEF Injection, IsInjective
<1> QED BY <1>2, <1>3, <1>4, FS_Surjection

(* addEvent(): what is kept and what is lost.                                *)
LEMMA SplitOnce ==
  ASSUME NEW S, NEW s \in Seq(S), Once(s), NEW k \in 0 .. Len(s)
  PROVE  LET kept == SubSeq(s, 1, k)
             rest == {s[i].of : i \in k + 1 .. Len(s)}
         IN  /\ kept \in Seq(S) /\ Len(kept) = k /\ Once(kept) /\ IsFiniteSet(rest)
             /\ NamesIn(kept) \cap rest = {} /\ NamesIn(kept) \cup rest = NamesIn(s)
<1> DEFINE n    == Len(s)
           kept == SubSeq(s, 1, k)
           rest == {s[i].of : i \in k + 1 .. n}
<1>1. n \in Nat /\ k \in Nat /\ k <= n OBVIOUS
<1>2. kept \in Seq(S) /\ Len(kept) = k /\ \A i \in 1 .. k : kept[i] = s[i] OBVIOUS
<1>3. NamesIn(s) = {s[i].of : i \in 1 .. n} BY DEF NamesIn
<1>4. \A i, j \in 1 .. n : s[i].of = s[j].of => i = j BY DEF Once
<1>5. IsFiniteSet(rest)
  <2> DEFINE D == k + 1 .. n
             f == [i \in D |-> s[i].of]
  <2>1. IsFiniteSet(D) BY <1>1, FS_Interval
  <2>2. f \in Surjection(D, rest) BY DEF Surjection
  <2> QED BY <2>1, <2>2, FS_Surjection
<1> HIDE DEF n, kept
<1>6. NamesIn(kept) = {s[i].of : i \in 1 .. k} BY <1>2 DEF NamesIn
<1>7. /\ \A i \in 1 .. k : i \in 1 .. n
      /\ \A i \in k + 1 .. n : i \in 1 .. n /\ i \notin 1 .. k
      /\ \A i \in 1 .. n : i \in 1 .. k \/ i \in k + 1 .. n
  BY <1>1
<1>8. Once(kept)
  <2>1. \A i, j \in 1 .. k : kept[i].of = kept[j].of => i = j BY <1>2, <1>4, <1>7
  <2> QED BY <1>2, <2>1 DEF Once
<1>9. ASSUME NEW x \in NamesIn(kept), x \in rest PROVE FALSE
  <2>1. PICK i \in 1 .. k : x = s[i].of BY <1>6
  <2>2. PICK j \in k + 1 .. n : x = s[j].of BY <1>9
  <2> QED BY <1>4, <1>7, <2>1, <2>2
<1>10. NamesIn(kept) \cup rest = NamesIn(s)
  <2>1. \A x : x \in NamesIn(s) <=> x \in NamesIn(kept) \/ x \in rest BY <1>3, <1>6, <1>7
  <2> QED BY <2>1
<1> HIDE DEF rest
<1>11. /\ kept \in Seq(S) /\ Len(kept) = k /\ Once(kept) /\ IsFiniteSet(rest)
       /\ NamesIn(kept) \cap rest = {} /\ NamesIn(kept) \cup rest = NamesIn(s)
  BY <1>2, <1>5, <1>8, <1>9, <1>10
<1> QED BY <1>11 DEF kept, rest, n

(* The event that fires leaves the pending ones and no other does.           *)
LEMMA TakenOnce ==
  ASSUME NEW S, pending \in Seq(S), Once(pending), NEW i \in DOMAIN pending
  PROVE  /\ Once(Without(i))
         /\ NamesIn(Without(i)) = NamesIn(pending) \ {pending[i].of}
         /\ pending[i].of \in NamesIn(pending)
<1> DEFINE n == Len(pending)
           w == Without(i)
<1>1. n \in Nat /\ n \in 1 .. n /\ i \in 1 .. n OBVIOUS
<1>2. /\ w \in Seq(S) /\ Len(w) = n - 1
      /\ \A k \in 1 .. n - 1 : w[k] = IF k = i THEN pending[n] ELSE pending[k]
  BY WithoutOne
<1>3. NamesIn(pending) = {pending[k].of : k \in 1 .. n} BY DEF NamesIn
<1>4. \A k, m \in 1 .. n : pending[k].of = pending[m].of => k = m BY DEF Once
<1> HIDE DEF n, w
<1>5. NamesIn(w) = {w[k].of : k \in 1 .. n - 1} BY <1>2 DEF NamesIn
<1>6. \A k \in 1 .. n - 1 : k \in 1 .. n /\ k # n BY <1>1
<1>7. \A k \in 1 .. n : k # n => k \in 1 .. n - 1 BY <1>1
<1>8. Once(w)
  <2> SUFFICES ASSUME NEW k \in 1 .. n - 1, NEW m \in 1 .. n - 1, w[k].of = w[m].of PROVE k = m
    BY <1>2 DEF Once
  <2> QED BY <1>1, <1>2, <1>4, <1>6
<1>9. ASSUME NEW x \in NamesIn(w) PROVE x \in NamesIn(pending) /\ x # pending[i].of
  <2>1. PICK k \in 1 .. n - 1 : x = w[k].of BY <1>5
  <2>2. CASE k = i
    <3>1. x = pending[n].of /\ n # i BY <1>2, <1>6, <2>1, <2>2
    <3> QED BY <1>1, <1>3, <1>4, <3>1
  <2>3. CASE k # i
    <3>1. x = pending[k].of BY <1>2, <2>1, <2>3
    <3> QED BY <1>1, <1>3, <1>4, <1>6, <2>3, <3>1
  <2> QED BY <2>2, <2>3
<1>10. ASSUME NEW x \in NamesIn(pending), x # pending[i].of PROVE x \in NamesIn(w)
  <2>1. PICK k \in 1 .. n : x = pending[k].of BY <1>3
  <2>2. k # i BY <1>10, <2>1
  <2>3. CASE k = n
    <3>1. i \in 1 .. n - 1 BY <1>1, <1>7, <2>2, <2>3
    <3>2. w[i] = pending[n] BY <1>2, <3>1
    <3> QED BY <1>5, <2>1, <2>3, <3>1, <3>2
  <2>4. CASE k # n
    <3>1. k \in 1 .. n - 1 BY <1>7, <2>4
    <3>2. w[k] = pending[k] BY <1>2, <2>2, <3>1
    <3> QED BY <1>5, <2>1, <3>1, <3>2
  <2> QED BY <2>3, <2>4
<1>11. pending[i].of \in NamesIn(pending) BY <1>1, <1>3
<1>12. NamesIn(w) = NamesIn(pending) \ {pending[i].of} BY <1>9, <1>10
<1> QED BY <1>8, <1>11, <1>12 DEF w

LEMMA AppendOnce ==
  ASSUME NEW S, NEW s \in Seq(S), Once(s), NEW x, x.of \notin NamesIn(s)
  PROVE  Once(Append(s, x)) /\ NamesIn(Append(s, x)) = NamesIn(s) \cup {x.of}
<1> DEFINE n == Len(s)
           t == Append(s, x)
<1>1. n \in Nat /\ Len(t) = n + 1 /\ t[n + 1] = x /\ \A i \in 1 .. n : t[i] = s[i] OBVIOUS
<1>2. NamesIn(s) = {s[i].of : i \in 1 .. n} BY DEF NamesIn
<1>3. \A i, k \in 1 .. n : s[i].of = s[k].of => i = k BY DEF Once
<1> HIDE DEF n, t
<1>4. NamesIn(t) = {t[i].of : i \in 1 .. n + 1} BY <1>1 DEF NamesIn
<1>5. /\ \A i \in 1 .. n + 1 : i \in 1 .. n \/ i = n + 1
      /\ n + 1 \in 1 .. n + 1 /\ \A i \in 1 .. n : i \in 1 .. n + 1
  BY <1>1
<1>6. NamesIn(t) = NamesIn(s) \cup {x.of}
  <2>1. ASSUME NEW y PROVE y \in NamesIn(t) <=> y \in NamesIn(s) \/ y = x.of
    BY <1>1, <1>2, <1>4, <1>5
  <2> QED BY <2>1
<1>7. ASSUME NEW i \in 1 .. n + 1, NEW k \in 1 .. n + 1, t[i].of = t[k].of PROVE i = k
  <2>1. \A m \in 1 .. n : t[m].of \in NamesIn(s) /\ t[m].of # x.of BY <1>1, <1>2
  <2> QED BY <1>1, <1>3, <1>5, <1>7, <2>1
<1>8. Once(t) BY <1>1, <1>7 DEF Once
<1> QED BY <1>6, <1>8 DEF t

-----------------------------------------------------------------------------
(* Every hit of the steps so far is played, waits or was dropped, and once.  *)
Kept ==
  /\ Once(hits) /\ Once(pending) /\ IsFiniteSet(lost)
  /\ NamesIn(hits) \cap NamesIn(pending) = {}
  /\ NamesIn(hits) \cap lost = {} /\ NamesIn(pending) \cap lost = {}
  /\ NamesIn(hits) \cup NamesIn(pending) \cup lost = Expected(nextStep)

LEMMA KeptStays ==
  ASSUME Kept, UNCHANGED <<pattern, hits, pending, lost, nextStep>>
  PROVE  Kept'
<1>1. Expected(nextStep)' = Expected(nextStep) BY DEF Expected, LitSteps
<1>2. /\ Once(hits)' = Once(hits) /\ Once(pending)' = Once(pending)
      /\ NamesIn(hits)' = NamesIn(hits) /\ NamesIn(pending)' = NamesIn(pending) /\ lost' = lost
  BY DEF Once, NamesIn
<1> QED BY <1>1, <1>2 DEF Kept

LEMMA KeptFromTheTop ==
  ASSUME pending' = <<>>, hits' = <<>>, lost' = {}, nextStep' = 0
  PROVE  Kept'
<1>1. (Expected(0) = {})' BY NothingExpected, PTL
<1>2. Expected(nextStep)' = {} BY <1>1
<1> QED BY <1>2, FS_EmptySet DEF Kept, Once, NamesIn

LEMMA FireStepKept == Timed /\ EventInv /\ Kept /\ FireStep => Kept'
<1> SUFFICES ASSUME Timed, EventInv, Kept, FireStep PROVE Kept' OBVIOUS
<1> DEFINE at  == StepSampleOf(nextStep)
           new == GeneratedEvents(nextStep, at)
           k   == BetweenOf(MaxPending - Len(pending), 0, Len(new))
           kept == SubSeq(new, 1, k)
           rest == {new[i].of : i \in k + 1 .. Len(new)}
           S   == Event
<1>1. UNCHANGED <<pattern, hits>> /\ nextStep' = nextStep + 1
  BY DEF FireStep, AdvanceStep, atomics
<1>2. Fits(new) = kept BY DEF Fits
<1>3. /\ pattern \in Patterns /\ feel \in Feels /\ tempo \in Tempos /\ nextStep \in Nat
      /\ at \in Nat
  <2>1. ClockTypeOK /\ GridOK /\ NeverLate BY DEF Timed, ClockInv
  <2>2. at \in Nat BY <2>1, NextStepSample
  <2> QED BY <2>1, <2>2 DEF EventInv, Control, ClockTypeOK
<1>4. pending' = pending \o Fits(new) /\ lost' = lost \cup {new[i].of : i \in Len(Fits(new)) + 1 .. Len(new)}
  BY DEF FireStep
<1> HIDE DEF at, S
<1>5. new \in Seq(S)
  <2>1. new \in Seq(NewEvents(at, 2 * at - nextStep * tempo \in 0 .. 1)) BY <1>3, GeneratedNew
  <2>2. NewEvents(at, 2 * at - nextStep * tempo \in 0 .. 1) \subseteq S BY DEF NewEvents, S
  <2> HIDE DEF new
  <2> QED BY <2>1, <2>2
<1>6. Once(new) /\ NamesIn(new) = GlobalStepNames(nextStep) BY <1>3, GeneratedOnce
<1>7. pending \in Seq(S) BY DEF EventInv, Ahead, S
<1> HIDE DEF new
<1>8. k \in 0 .. Len(new)
  <2>1. MaxPending - Len(pending) \in Int /\ Len(new) \in Nat BY <1>5, <1>7, StepEventsAssumption
  <2> QED BY <2>1, Between
<1> HIDE DEF k
<1>9. /\ kept \in Seq(S) /\ Len(kept) = k /\ Once(kept) /\ IsFiniteSet(rest)
      /\ NamesIn(kept) \cap rest = {} /\ NamesIn(kept) \cup rest = NamesIn(new)
  BY <1>5, <1>6, <1>8, SplitOnce
<1>10. pending' = pending \o kept /\ lost' = lost \cup rest BY <1>2, <1>4, <1>9
<1> HIDE DEF kept, rest
<1>11. /\ Expected(nextStep + 1) = Expected(nextStep) \cup NamesIn(new)
       /\ Expected(nextStep) \cap NamesIn(new) = {}
  BY <1>3, <1>6, ExpectedGrows
<1>12. /\ Once(hits) /\ Once(pending) /\ IsFiniteSet(lost)
       /\ NamesIn(hits) \cap NamesIn(pending) = {}
       /\ NamesIn(hits) \cap lost = {} /\ NamesIn(pending) \cap lost = {}
       /\ NamesIn(hits) \cup NamesIn(pending) \cup lost = Expected(nextStep)
  BY DEF Kept
<1>13. NamesIn(pending) \cap NamesIn(kept) = {} BY <1>9, <1>11, <1>12
<1>14. /\ Once(pending \o kept)
       /\ NamesIn(pending \o kept) = NamesIn(pending) \cup NamesIn(kept)
  BY <1>7, <1>9, <1>12, <1>13, JoinOnce
<1>15. Once(pending') /\ NamesIn(pending') = NamesIn(pending) \cup NamesIn(kept) BY <1>10, <1>14
<1>16. Once(hits') /\ NamesIn(hits') = NamesIn(hits) BY <1>1, <1>12
<1>17. IsFiniteSet(lost') BY <1>9, <1>10, <1>12, FS_Union
<1>18. Expected(nextStep)' = Expected(nextStep + 1) BY <1>1 DEF Expected, LitSteps
<1>19. /\ NamesIn(hits') \cap NamesIn(pending') = {}
       /\ NamesIn(hits') \cap lost' = {} /\ NamesIn(pending') \cap lost' = {}
  BY <1>9, <1>10, <1>11, <1>12, <1>15, <1>16
<1>20. NamesIn(hits') \cup NamesIn(pending') \cup lost' = Expected(nextStep + 1)
  BY <1>9, <1>10, <1>11, <1>12, <1>15, <1>16
<1> QED BY <1>15, <1>16, <1>17, <1>18, <1>19, <1>20 DEF Kept, Once, NamesIn

LEMMA FireEventKept == EventInv /\ Kept /\ FireEvent => Kept'
<1> SUFFICES ASSUME EventInv, Kept, FireEvent PROVE Kept' OBVIOUS
<1> DEFINE best == Least({i \in Due : \A k \in Due : pending[i].sample <= pending[k].sample})
           e == pending[best]
           h == [of |-> e.of, at |-> blockStart + BetweenOf(e.sample - blockStart, cursor, numSamples),
                 sample |-> e.sample, late |-> e.late]
<1>1. /\ Due # {} /\ UNCHANGED <<pattern, nextStep, lost>>
      /\ pending' = Without(best) /\ hits' = Append(hits, h)
  BY DEF FireEvent, clockVars
<1>2. pending \in Seq(Event) /\ hits \in Seq(HitRecord) BY DEF EventInv, Ahead, Played
<1>3. best \in DOMAIN pending BY <1>1, <1>2, BestIsDue DEF Due
<1>4. h.of = pending[best].of OBVIOUS
<1> HIDE DEF best, h
<1>5. /\ Once(hits) /\ Once(pending) /\ IsFiniteSet(lost)
      /\ NamesIn(hits) \cap NamesIn(pending) = {}
      /\ NamesIn(hits) \cap lost = {} /\ NamesIn(pending) \cap lost = {}
      /\ NamesIn(hits) \cup NamesIn(pending) \cup lost = Expected(nextStep)
  BY DEF Kept
<1>6. /\ Once(Without(best)) /\ NamesIn(Without(best)) = NamesIn(pending) \ {h.of}
      /\ h.of \in NamesIn(pending)
  BY <1>2, <1>3, <1>4, <1>5, TakenOnce
<1>7. h.of \notin NamesIn(hits) BY <1>5, <1>6
<1>8. Once(Append(hits, h)) /\ NamesIn(Append(hits, h)) = NamesIn(hits) \cup {h.of}
  BY <1>2, <1>5, <1>7, AppendOnce
<1>9. Once(pending') /\ NamesIn(pending') = NamesIn(pending) \ {h.of} BY <1>1, <1>6
<1>10. Once(hits') /\ NamesIn(hits') = NamesIn(hits) \cup {h.of} BY <1>1, <1>8
<1>11. Expected(nextStep)' = Expected(nextStep) BY <1>1 DEF Expected, LitSteps
<1>12. /\ NamesIn(hits') \cap NamesIn(pending') = {}
       /\ NamesIn(hits') \cap lost' = {} /\ NamesIn(pending') \cap lost' = {}
       /\ NamesIn(hits') \cup NamesIn(pending') \cup lost' = Expected(nextStep)
  BY <1>1, <1>5, <1>6, <1>9, <1>10
<1> QED BY <1>1, <1>5, <1>9, <1>10, <1>11, <1>12 DEF Kept, Once, NamesIn

LEMMA NextKept == Timed /\ EventInv /\ Kept /\ [Next]_vars => Kept'
<1> SUFFICES ASSUME Timed, EventInv, Kept, [Next]_vars PROVE Kept' OBVIOUS
<1>1. ASSUME MessageNext \/ LoadPlaying \/ DrainCommand \/ RenderStopped \/ BeginBlock \/ StepsDone
             \/ EndBlock \/ TakeTempo \/ UNCHANGED vars
      PROVE  UNCHANGED <<pattern, hits, pending, lost, nextStep>>
  BY <1>1 DEF MessageNext, Play, Stop, ChangeTempo, ChangeFeel, ChangeAudible, PushCommand, engineVars,
              LoadPlaying, DrainCommand, RenderStopped, BeginBlock, BeginSteps, StepsDone, EndSteps,
              EndBlock, TakeTempo, SetTempo, clockVars, history, vars
<1>2. ASSUME TakeReset PROVE Kept'
  <2>1. CASE resetRequested
    <3>1. pending' = <<>> /\ hits' = <<>> /\ lost' = {} /\ nextStep' = 0
      BY <1>2, <2>1 DEF TakeReset, Reset
    <3> QED BY <3>1, KeptFromTheTop
  <2>2. CASE ~resetRequested
    <3>1. UNCHANGED <<pattern, hits, pending, lost, nextStep>>
      BY <1>2, <2>2 DEF TakeReset, clockVars, history
    <3> QED BY <3>1, KeptStays
  <2> QED BY <2>1, <2>2
<1>3. ASSUME Prepare PROVE Kept'
  <2>1. pending' = <<>> /\ hits' = <<>> /\ lost' = {} /\ nextStep' = 0
    BY <1>3 DEF Prepare, PrepareClock
  <2> QED BY <2>1, KeptFromTheTop
<1> QED BY <1>1, <1>2, <1>3, KeptStays, FireStepKept, FireEventKept DEF Next, AudioNext

LEMMA SpecKept == Spec => [](Timed /\ EventInv /\ Kept)
<1>1. Init => Kept
  <2> SUFFICES ASSUME Init PROVE Kept OBVIOUS
  <2>1. hits = <<>> /\ pending = <<>> /\ lost = {} /\ nextStep = 0 BY DEF Init, ClockInit
  <2> QED BY <2>1, NothingExpected, FS_EmptySet DEF Kept, Once, NamesIn
<1> QED BY <1>1, NextKept, SpecEventInv, PTL DEF Spec

(* Sequencer.cpp:266-314 with Clock.h:54: whatever the blocks, the tempo      *)
(* changes and the stops, every hit that the steps so far ask for has fired, *)
(* waits, or was dropped by a full buffer, and no hit twice.                 *)
THEOREM SpecEveryHitOnce == Spec => []EveryHitOnce
<1>1. EventInv /\ Kept => EveryHitOnce
  <2> SUFFICES ASSUME EventInv, Kept PROVE EveryHitOnce OBVIOUS
  <2>1. pending \in Seq(Event) /\ hits \in Seq(HitRecord) BY DEF EventInv, Ahead, Played
  <2>2. /\ Once(hits) /\ Once(pending) /\ IsFiniteSet(lost)
        /\ NamesIn(hits) \cap NamesIn(pending) = {}
        /\ NamesIn(hits) \cap lost = {} /\ NamesIn(pending) \cap lost = {}
        /\ NamesIn(hits) \cup NamesIn(pending) \cup lost = Expected(nextStep)
    BY DEF Kept
  <2>3. Fired = NamesIn(hits) /\ Waiting = NamesIn(pending)
    <3>1. DOMAIN hits = 1 .. Len(hits) /\ DOMAIN pending = 1 .. Len(pending) BY <2>1
    <3> QED BY <3>1 DEF Fired, Waiting, NamesIn
  <2>4. /\ IsFiniteSet(NamesIn(hits)) /\ Cardinality(NamesIn(hits)) = Len(hits)
        /\ IsFiniteSet(NamesIn(pending)) /\ Cardinality(NamesIn(pending)) = Len(pending)
    BY <2>1, <2>2, CountOnce
  <2> DEFINE A == NamesIn(hits)
             B == NamesIn(pending)
  <2>5. IsFiniteSet(A \cup B) /\ Cardinality(A \cup B) = Len(hits) + Len(pending)
    <3> HIDE DEF A, B
    <3>1. IsFiniteSet(A \cup B) /\ Cardinality(A \cup B) = Cardinality(A) + Cardinality(B) - Cardinality(A \cap B)
      BY <2>4, FS_Union DEF A, B
    <3>2. Cardinality(A \cap B) = 0 BY <2>2, FS_EmptySet DEF A, B
    <3>3. Len(hits) \in Nat /\ Len(pending) \in Nat BY <2>1
    <3> QED BY <2>4, <3>1, <3>2, <3>3 DEF A, B
  <2>6. Cardinality(Expected(nextStep)) = Len(hits) + Len(pending) + Cardinality(lost)
    <3>1. (A \cup B) \cap lost = {} BY <2>2
    <3> HIDE DEF A, B
    <3>2. Cardinality((A \cup B) \cup lost)
            = Cardinality(A \cup B) + Cardinality(lost) - Cardinality((A \cup B) \cap lost)
      BY <2>2, <2>5, FS_Union
    <3>3. Cardinality((A \cup B) \cap lost) = 0 BY <3>1, FS_EmptySet
    <3>4. (A \cup B) \cup lost = Expected(nextStep) BY <2>2 DEF A, B
    <3>5. Cardinality(lost) \in Nat BY <2>2, FS_CardinalityType
    <3>6. Len(hits) \in Nat /\ Len(pending) \in Nat BY <2>1
    <3> DEFINE u == Cardinality(A \cup B)
               l == Cardinality(lost)
               a == Len(hits)
               b == Len(pending)
    <3>7. Cardinality(Expected(nextStep)) = u + l - 0 BY <3>2, <3>3, <3>4
    <3>8. u = a + b /\ l \in Nat /\ a \in Nat /\ b \in Nat BY <2>5, <3>5, <3>6
    <3> HIDE DEF u, l, a, b
    <3>9. Cardinality(Expected(nextStep)) = a + b + l BY <3>7, <3>8
    <3> QED BY <3>9 DEF a, b, l
  <2> QED BY <2>2, <2>3, <2>6 DEF EveryHitOnce
<1> QED BY <1>1, SpecKept, PTL

-----------------------------------------------------------------------------
(* MidiExport: the notes of the file are the hits a pattern asks for.        *)

(* What the first n global steps are asked for, step by step.                *)
LEMMA ExpectedOfSteps ==
  ASSUME pattern \in Patterns, NEW n \in Nat, NEW x
  PROVE  x \in Expected(n) <=> \E g \in 0 .. n - 1 : x \in GlobalStepNames(g)
<1> DEFINE Same(m) == x \in Expected(m) <=> \E g \in 0 .. m - 1 : x \in GlobalStepNames(g)
           Bad == {m \in Nat : ~Same(m)}
<1>1. SUFFICES ASSUME Bad # {} PROVE FALSE OBVIOUS
<1> HIDE DEF Bad, Same
<1>2. PICK m \in Bad : \A k \in Bad : m <= k
  <2>1. Bad \subseteq Nat BY DEF Bad
  <2> QED BY <1>1, <2>1, LeastExists
<1>3. m \in Nat /\ ~Same(m) BY <1>2 DEF Bad
<1>4. CASE m = 0
  <2>1. 0 .. 0 - 1 = {} OBVIOUS
  <2> QED BY <1>3, <1>4, <2>1, NothingExpected DEF Same
<1>5. CASE m # 0
  <2>1. m - 1 \in Nat /\ ~(m <= m - 1) /\ m - 1 + 1 = m BY <1>3, <1>5
  <2>2. Same(m - 1) BY <1>2, <2>1 DEF Bad
  <2>3. Expected(m) = Expected(m - 1) \cup GlobalStepNames(m - 1)
    <3> DEFINE k == m - 1
    <3>1. k \in Nat /\ k + 1 = m BY <2>1
    <3> HIDE DEF k
    <3>2. Expected(k + 1) = Expected(k) \cup GlobalStepNames(k) BY <3>1, ExpectedGrows
    <3>3. Expected(m) = Expected(k) \cup GlobalStepNames(k) BY <3>1, <3>2
    <3> QED BY <3>3 DEF k
  <2>4. 0 .. m - 1 = (0 .. m - 1 - 1) \cup {m - 1} BY <1>3, <1>5
  <2>5. Same(m) BY <2>2, <2>3, <2>4 DEF Same
  <2> QED BY <1>3, <2>5
<1> QED BY <1>4, <1>5

NotePlace(tick, of) ==
  IF of[1] = "roll"
    THEN tick = RoundDiv(24 * (24 * of[3] + pattern.rolls[of[2]].offsets[of[4]]), 24)
    ELSE LET lane == pattern.lanes[of[2]]
             rate == LaneStepRate(lane.triplet)
             s    == lane.lit[of[3] % LaneLength(lane)]
             r    == RatchetCount(s)
         IN  tick = RoundDiv(24 * rate.num * (24 * r * of[3] + r * BetweenOf(s.shift, 0, 12) + 24 * of[4]),
                             24 * r * rate.den)

AskedNote(m) ==
  m.of[1] = "lane" =>
    /\ pattern.lanes[m.of[2]].length >= 1
    /\ ~Gated(pattern.lanes[m.of[2]].lit[m.of[3] % LaneLength(pattern.lanes[m.of[2]])], m.of[3], m.of[2])

(* The notes of lane li in global step g. *)
LEMMA LaneNotesAre ==
  ASSUME NEW li \in DOMAIN pattern.lanes, NEW g
  PROVE  /\ \A m \in LaneNotes(pattern.lanes[li], li, g) :
              NotePlace(m.tick, m.of) /\ (AskedNote(m) => m.of \in LaneNames(li, g))
         /\ \A x \in LaneNames(li, g) :
              \E m \in LaneNotes(pattern.lanes[li], li, g) : m.of = x /\ AskedNote(m)
<1> DEFINE lane == pattern.lanes[li]
           rate == LaneStepRate(lane.triplet)
           L    == LaneStepsInGlobalStep(rate, g)
           r(p) == RatchetCount(lane.lit[p % LaneLength(lane)])
           shift(p) == BetweenOf(lane.lit[p % LaneLength(lane)].shift, 0, 12)
           tick(p, j) == RoundDiv(24 * rate.num * (24 * r(p) * p + r(p) * shift(p) + 24 * j),
                                  24 * r(p) * rate.den)
           note(p, j) == [of |-> <<"lane", li, p, j>>, pad |-> lane.pad, step |-> g, tick |-> tick(p, j)]
           Lit(p) == p % LaneLength(lane) \in DOMAIN lane.lit
           Out(p) == Gated(lane.lit[p % LaneLength(lane)], p, li)
           Long == lane.length >= 1
<1>1. \A p : StepNotes(lane, li, g, p) = {note(p, j) : j \in 0 .. r(p) - 1}
  BY DEF StepNotes, StepTicks
<1>2. LaneNotes(lane, li, g) = UNION {StepNotes(lane, li, g, p) : p \in {q \in L : Lit(q)}}
  BY DEF LaneNotes
<1>3. \A p, j : AskedNote(note(p, j)) <=> Long /\ ~Out(p) BY DEF AskedNote
<1>4. \A p, j : NotePlace(note(p, j).tick, note(p, j).of) BY DEF NotePlace
<1>5. \A p : StepNames(li, p) = IF ~Lit(p) \/ Out(p) THEN {} ELSE {<<"lane", li, p, j>> : j \in 0 .. r(p) - 1}
  BY DEF StepNames
<1>6. LaneNames(li, g) = UNION {StepNames(li, p) : p \in {q \in L : Long}} BY DEF LaneNames
<1>7. \A p, j : note(p, j).of = <<"lane", li, p, j>> OBVIOUS
<1> HIDE DEF L, Lit, Out, Long, r, note, lane
<1>8. ASSUME NEW m \in LaneNotes(lane, li, g)
      PROVE  NotePlace(m.tick, m.of) /\ (AskedNote(m) => m.of \in LaneNames(li, g))
  <2>1. PICK p \in L : Lit(p) /\ m \in StepNotes(lane, li, g, p) BY <1>2, <1>8
  <2>2. PICK j \in 0 .. r(p) - 1 : m = note(p, j) BY <1>1, <2>1
  <2>3. NotePlace(m.tick, m.of) BY <1>4, <2>2
  <2>4. ASSUME AskedNote(m) PROVE m.of \in LaneNames(li, g)
    <3>1. Long /\ ~Out(p) BY <1>3, <2>2, <2>4
    <3>2. m.of \in StepNames(li, p) BY <1>5, <1>7, <2>1, <2>2, <3>1
    <3> QED BY <1>6, <2>1, <3>1, <3>2
  <2> QED BY <2>3, <2>4
<1>9. ASSUME NEW x \in LaneNames(li, g)
      PROVE  \E m \in LaneNotes(lane, li, g) : m.of = x /\ AskedNote(m)
  <2>1. PICK p \in L : Long /\ x \in StepNames(li, p) BY <1>6, <1>9
  <2>2. Lit(p) /\ ~Out(p) /\ x \in {<<"lane", li, p, j>> : j \in 0 .. r(p) - 1} BY <1>5, <2>1
  <2>3. PICK j \in 0 .. r(p) - 1 : x = <<"lane", li, p, j>> BY <2>2
  <2>4. note(p, j) \in StepNotes(lane, li, g, p) BY <1>1
  <2>5. note(p, j) \in LaneNotes(lane, li, g) BY <1>2, <2>1, <2>2, <2>4
  <2>6. note(p, j).of = x /\ AskedNote(note(p, j)) BY <1>3, <1>7, <2>1, <2>2, <2>3
  <2> QED BY <2>5, <2>6
<1> QED BY <1>8, <1>9 DEF lane

LEMMA RollNotesAre ==
  ASSUME NEW ri \in DOMAIN pattern.rolls, NEW g
  PROVE  /\ \A m \in RollNotes(pattern.rolls[ri], ri, g) :
              /\ NotePlace(m.tick, m.of) /\ AskedNote(m)
              /\ pattern.rolls[ri].start = g % BarSteps => m.of \in RollNames(ri, g)
         /\ \A x \in RollNames(ri, g) :
              /\ pattern.rolls[ri].start = g % BarSteps
              /\ \E m \in RollNotes(pattern.rolls[ri], ri, g) : m.of = x
<1> DEFINE roll == pattern.rolls[ri]
           D    == DOMAIN roll.offsets
           note(k) == [of |-> <<"roll", ri, g, k>>, pad |-> roll.pad, step |-> g,
                       tick |-> RoundDiv(24 * (24 * g + roll.offsets[k]), 24)]
<1>1. RollNotes(roll, ri, g) = {note(k) : k \in D} BY DEF RollNotes, StepTicks
<1>2. \A k : AskedNote(note(k)) BY DEF AskedNote
<1>3. \A k : NotePlace(note(k).tick, note(k).of) BY DEF NotePlace
<1>4. RollNames(ri, g) = IF g % BarSteps # roll.start THEN {} ELSE {<<"roll", ri, g, k>> : k \in D}
  BY DEF RollNames
<1>5. \A k : note(k).of = <<"roll", ri, g, k>> OBVIOUS
<1> HIDE DEF note, D
<1>6. ASSUME NEW m \in RollNotes(roll, ri, g)
      PROVE  /\ NotePlace(m.tick, m.of) /\ AskedNote(m)
             /\ roll.start = g % BarSteps => m.of \in RollNames(ri, g)
  <2>1. PICK k \in D : m = note(k) BY <1>1, <1>6
  <2> QED BY <1>2, <1>3, <1>4, <1>5, <2>1
<1>7. ASSUME NEW x \in RollNames(ri, g)
      PROVE roll.start = g % BarSteps /\ \E m \in RollNotes(roll, ri, g) : m.of = x
  <2>1. roll.start = g % BarSteps /\ x \in {<<"roll", ri, g, k>> : k \in D} BY <1>4, <1>7
  <2>2. PICK k \in D : x = <<"roll", ri, g, k>> BY <2>1
  <2>3. note(k) \in RollNotes(roll, ri, g) /\ note(k).of = x BY <1>1, <1>5, <2>2
  <2> QED BY <2>1, <2>3
<1> QED BY <1>6, <1>7

(* The notes of the first n steps are those asked for, each at its place, and *)
(* those their probability leaves out.                                      *)
LEMMA NotesAre ==
  ASSUME pattern \in Patterns, NEW n \in Nat
  PROVE  /\ \A m \in MidiNotes(pattern, n, BarSteps) : NotePlace(m.tick, m.of)
         /\ {m.of : m \in {k \in MidiNotes(pattern, n, BarSteps) : AskedNote(k)}} = Expected(n)
<1> DEFINE notes == MidiNotes(pattern, n, BarSteps)
           N(g)  == NotesOfStep(pattern, g, BarSteps)
           R(g)  == {i \in DOMAIN pattern.rolls : pattern.rolls[i].start = g % BarSteps}
           U(g)  == UNION {LaneNotes(pattern.lanes[li], li, g) : li \in DOMAIN pattern.lanes}
           V(g)  == UNION {RollNotes(pattern.rolls[ri], ri, g) : ri \in R(g)}
<1>1. \A m : m \in notes <=> \E g \in 0 .. n - 1 : m \in N(g) BY DEF MidiNotes
<1>2. ASSUME NEW g, NEW m
      PROVE  m \in N(g) <=> \/ \E li \in DOMAIN pattern.lanes : m \in LaneNotes(pattern.lanes[li], li, g)
                            \/ \E ri \in DOMAIN pattern.rolls :
                                 pattern.rolls[ri].start = g % BarSteps
                                   /\ m \in RollNotes(pattern.rolls[ri], ri, g)
  <2>1. m \in U(g) <=> \E li \in DOMAIN pattern.lanes : m \in LaneNotes(pattern.lanes[li], li, g) OBVIOUS
  <2>2. m \in V(g) <=> \E ri \in R(g) : m \in RollNotes(pattern.rolls[ri], ri, g)
    <3> HIDE DEF R
    <3> QED OBVIOUS
  <2>3. \A ri : ri \in R(g) <=> ri \in DOMAIN pattern.rolls /\ pattern.rolls[ri].start = g % BarSteps
    OBVIOUS
  <2>4. N(g) = U(g) \cup V(g) BY DEF NotesOfStep
  <2> HIDE DEF N, U, V, R
  <2> QED BY <2>1, <2>2, <2>3, <2>4
<1>3. ASSUME NEW g, NEW x
      PROVE  x \in GlobalStepNames(g) <=> \/ \E li \in DOMAIN pattern.lanes : x \in LaneNames(li, g)
                                          \/ \E ri \in DOMAIN pattern.rolls : x \in RollNames(ri, g)
  <2> DEFINE A == UNION {LaneNames(li, g) : li \in DOMAIN pattern.lanes}
             B == UNION {RollNames(ri, g) : ri \in DOMAIN pattern.rolls}
  <2>1. x \in A <=> \E li \in DOMAIN pattern.lanes : x \in LaneNames(li, g) OBVIOUS
  <2>2. x \in B <=> \E ri \in DOMAIN pattern.rolls : x \in RollNames(ri, g) OBVIOUS
  <2>3. GlobalStepNames(g) = A \cup B BY DEF GlobalStepNames
  <2> HIDE DEF A, B
  <2> QED BY <2>1, <2>2, <2>3
<1> HIDE DEF notes, N
<1>4. ASSUME NEW g, NEW m \in N(g)
      PROVE  NotePlace(m.tick, m.of) /\ (AskedNote(m) => m.of \in GlobalStepNames(g))
  <2>1. CASE \E li \in DOMAIN pattern.lanes : m \in LaneNotes(pattern.lanes[li], li, g)
    <3>1. PICK li \in DOMAIN pattern.lanes : m \in LaneNotes(pattern.lanes[li], li, g) BY <2>1
    <3>2. NotePlace(m.tick, m.of) /\ (AskedNote(m) => m.of \in LaneNames(li, g)) BY <3>1, LaneNotesAre
    <3> QED BY <1>3, <3>2
  <2>2. CASE \E ri \in DOMAIN pattern.rolls : pattern.rolls[ri].start = g % BarSteps
                                   /\ m \in RollNotes(pattern.rolls[ri], ri, g)
    <3>1. PICK ri \in DOMAIN pattern.rolls : pattern.rolls[ri].start = g % BarSteps
                                   /\ m \in RollNotes(pattern.rolls[ri], ri, g)
      BY <2>2
    <3>2. NotePlace(m.tick, m.of) /\ m.of \in RollNames(ri, g) BY <3>1, RollNotesAre
    <3> QED BY <1>3, <3>2
  <2> QED BY <1>2, <1>4, <2>1, <2>2
<1>5. ASSUME NEW g, NEW x \in GlobalStepNames(g)
      PROVE  \E m \in N(g) : m.of = x /\ AskedNote(m)
  <2>1. CASE \E li \in DOMAIN pattern.lanes : x \in LaneNames(li, g)
    <3>1. PICK li \in DOMAIN pattern.lanes : x \in LaneNames(li, g) BY <2>1
    <3>2. PICK m \in LaneNotes(pattern.lanes[li], li, g) : m.of = x /\ AskedNote(m)
      BY <3>1, LaneNotesAre
    <3>3. m \in N(g) BY <1>2
    <3> QED BY <3>2, <3>3
  <2>2. CASE \E ri \in DOMAIN pattern.rolls : x \in RollNames(ri, g)
    <3>1. PICK ri \in DOMAIN pattern.rolls : x \in RollNames(ri, g) BY <2>2
    <3>2. pattern.rolls[ri].start = g % BarSteps BY <3>1, RollNotesAre
    <3>3. PICK m \in RollNotes(pattern.rolls[ri], ri, g) : m.of = x BY <3>1, RollNotesAre
    <3>4. AskedNote(m) BY RollNotesAre
    <3>5. m \in N(g) BY <1>2, <3>2
    <3> QED BY <3>3, <3>4, <3>5
  <2> QED BY <1>3, <1>5, <2>1, <2>2
<1>6. \A m \in notes : NotePlace(m.tick, m.of) BY <1>1, <1>4
<1>7. ASSUME NEW m \in notes, AskedNote(m) PROVE m.of \in Expected(n)
  <2>1. PICK g \in 0 .. n - 1 : m \in N(g) BY <1>1
  <2>2. m.of \in GlobalStepNames(g) BY <1>4, <1>7, <2>1
  <2> QED BY <2>2, ExpectedOfSteps
<1>8. ASSUME NEW x \in Expected(n) PROVE \E m \in notes : m.of = x /\ AskedNote(m)
  <2>1. PICK g \in 0 .. n - 1 : x \in GlobalStepNames(g) BY ExpectedOfSteps
  <2>2. PICK m \in N(g) : m.of = x /\ AskedNote(m) BY <1>5, <2>1
  <2> QED BY <1>1, <2>2
<1>9. {m.of : m \in {k \in notes : AskedNote(k)}} = Expected(n) BY <1>7, <1>8
<1> QED BY <1>6, <1>9 DEF notes

LEMMA Shorten ==
  ASSUME NEW d \in Nat \ {0}, NEW c \in Nat, NEW y \in Int, d * y \in -(d * c) .. d * c
  PROVE  y \in -c .. c
<1>1. y <= c
  <2> SUFFICES ASSUME y - c - 1 \in Nat PROVE FALSE OBVIOUS
  <2>1. d * (y - c - 1) \in Nat OBVIOUS
  <2>2. d * (y - c - 1) = d * y - d * c - d OBVIOUS
  <2>3. d * y \in Int /\ d * c \in Nat OBVIOUS
  <2> QED BY <2>1, <2>2, <2>3
<1>2. -c <= y
  <2> SUFFICES ASSUME -y - c - 1 \in Nat PROVE FALSE OBVIOUS
  <2>1. d * (-y - c - 1) \in Nat OBVIOUS
  <2>2. d * (-y - c - 1) = -(d * y) - d * c - d OBVIOUS
  <2>3. d * y \in Int /\ d * c \in Nat OBVIOUS
  <2> QED BY <2>1, <2>2, <2>3
<1> QED BY <1>1, <1>2

(* A hit within three roundings of a place, and the tick of that place: they *)
(* differ by the roundings of both.                                         *)
LEMMA TickOfPlace ==
  ASSUME NEW at \in Nat, NEW x \in Nat, NEW d \in Nat \ {0}, NEW t \in Nat,
         2 * (48 * (at * d) - t * x) \in -(144 * d) .. 144 * d
  PROVE  LET tick == RoundDiv(24 * x, 24 * d)
         IN  tick \in Nat /\ 2 * (48 * at - tick * t) \in -(144 + t) .. 144 + t
<1> DEFINE a == 24 * x
           b == 24 * d
           tick == RoundDiv(a, b)
<1>1. a \in Nat /\ b \in Nat \ {0} OBVIOUS
<1> HIDE DEF a, b
<1>2. tick \in Nat /\ 2 * (b * tick) - 2 * a \in -b .. b BY <1>1, Rounds
<1> HIDE DEF tick
<1>3. b * tick = 24 * (d * tick)
  <2>1. b = 24 * d BY DEF b
  <2> QED BY <1>2, <2>1
<1>4. d * tick \in Nat BY <1>2
<1> DEFINE u == d * tick - x
<1>5. u \in Int BY <1>4
<1>6. 2 * u \in -d .. d
  <2>1. 48 * (d * tick) - 48 * x \in -(24 * d) .. 24 * d BY <1>2, <1>3, <1>4 DEF a, b
  <2> QED BY <1>4, <2>1
<1> HIDE DEF u
<1>7. t * (2 * u) \in -(d * t) .. d * t BY <1>5, <1>6, Times
<1>8. t * (2 * u) = 2 * (t * (d * tick)) - 2 * (t * x)
  <2>1. t * u = t * (d * tick) - t * x BY <1>4 DEF u
  <2>2. t * (2 * u) = 2 * (t * u) BY <1>5
  <2>3. t * (d * tick) \in Nat /\ t * x \in Nat BY <1>4
  <2> QED BY <2>1, <2>2, <2>3
<1> DEFINE y == 2 * (48 * at - tick * t)
           c == 144 + t
<1>9. d * y = 96 * (at * d) - 2 * (t * (d * tick))
  <2>1. d * (48 * at - tick * t) = d * (48 * at) - d * (tick * t) BY <1>2
  <2>2. d * (48 * at) = 48 * (at * d) OBVIOUS
  <2>3. d * (tick * t) = t * (d * tick) BY <1>2
  <2>4. d * y = 2 * (d * (48 * at - tick * t)) BY <1>2
  <2>5. at * d \in Nat /\ t * (d * tick) \in Nat BY <1>4
  <2> QED BY <2>1, <2>2, <2>3, <2>4, <2>5
<1>10. d * c = 144 * d + d * t OBVIOUS
<1>11. at * d \in Nat /\ t * x \in Nat /\ t * (d * tick) \in Nat /\ d * t \in Nat BY <1>4
<1>12. y \in Int /\ c \in Nat BY <1>2
<1> HIDE DEF y, c
<1>13. d * y \in -(d * c) .. d * c BY <1>7, <1>8, <1>9, <1>10, <1>11
<1>14. y \in -c .. c BY <1>12, <1>13, Shorten
<1> QED BY <1>2, <1>14 DEF y, c, tick, a, b

LEMMA NotesOnTime ==
  ASSUME Timed, EventInv, Kept, ~retuned, NEW i \in DOMAIN hits,
         LET h == hits[i]
         IN  h.of[1] = "lane" =>
               h.late = BetweenOf(pattern.lanes[h.of[2]].lit
                                    [h.of[3] % LaneLength(pattern.lanes[h.of[2]])].shift, 0, 12)
  PROVE  \E m \in MidiNotes(pattern, nextStep, BarSteps) :
           /\ m.of = hits[i].of
           /\ 2 * (48 * hits[i].at - m.tick * tempo) \in -(144 + tempo) .. 144 + tempo
<1> DEFINE h == hits[i]
           of == h.of
<1>1. pattern \in Patterns /\ nextStep \in Nat /\ tempo \in Nat
  BY StepClockAssumption DEF EventInv, Control, Timed, ClockInv, ClockTypeOK
<1>2. h \in HitRecord /\ Near(h)
  <2>1. hits \in Seq(HitRecord) BY DEF EventInv, Played
  <2>2. Near(h) BY DEF EventInv, OnGrid
  <2> HIDE DEF HitRecord
  <2> QED BY <2>1, <2>2
<1>3. of \in Expected(nextStep)
  <2>1. hits \in Seq(HitRecord) BY DEF EventInv, Played
  <2>2. i \in 1 .. Len(hits) BY <2>1
  <2>3. of \in NamesIn(hits) BY <2>2 DEF NamesIn
  <2> QED BY <2>3 DEF Kept
<1>4. PICK m \in MidiNotes(pattern, nextStep, BarSteps) : m.of = of /\ NotePlace(m.tick, of)
  <2> HIDE DEF of
  <2>1. \E m \in MidiNotes(pattern, nextStep, BarSteps) : m.of = of BY <1>1, <1>3, NotesAre
  <2> QED BY <1>1, <2>1, NotesAre
<1> HIDE DEF h
<1>5. /\ h.at \in Nat /\ h.late \in Nat /\ of \in Names BY <1>2 DEF HitRecord
<1> HIDE DEF of
<1>6. /\ of[1] \in {"lane", "roll"} /\ of[2] \in Nat /\ of[3] \in Nat /\ of[4] \in Nat
  BY <1>5 DEF Names
<1>7. CASE of[1] = "roll"
  <2> DEFINE off == pattern.rolls[of[2]].offsets[of[4]]
             x   == 24 * of[3] + off
  <2>1. off \in Nat
    <3>1. PICK g \in 0 .. nextStep - 1 : of \in GlobalStepNames(g) BY <1>1, <1>3, ExpectedOfSteps
    <3>2. PICK ri \in DOMAIN pattern.rolls : of \in RollNames(ri, g)
      <4>1. (\E ri \in DOMAIN pattern.rolls : of \in RollNames(ri, g))
              \/ (\E li \in DOMAIN pattern.lanes : of \in LaneNames(li, g))
        <5> DEFINE A == UNION {LaneNames(li, g) : li \in DOMAIN pattern.lanes}
                   B == UNION {RollNames(ri, g) : ri \in DOMAIN pattern.rolls}
        <5>1. GlobalStepNames(g) = A \cup B BY DEF GlobalStepNames
        <5>2. of \in A \/ of \in B
          <6> HIDE DEF A, B
          <6> QED BY <3>1, <5>1
        <5> QED BY <5>2
      <4>2. \A li : of \notin LaneNames(li, g) BY <1>7, NamesApart
      <4> QED BY <4>1, <4>2
    <3>3. of[2] = ri BY <3>2, NamesApart
    <3>4. of \in {<<"roll", ri, g, k>> : k \in DOMAIN pattern.rolls[ri].offsets} BY <3>2 DEF RollNames
    <3>5. of[4] \in DOMAIN pattern.rolls[ri].offsets BY <3>4
    <3>6. pattern.rolls[ri].offsets \in Seq(Nat) BY <1>1, RollOK
    <3> QED BY <3>3, <3>5, <3>6
  <2> HIDE DEF off
  <2>2. x \in Nat BY <1>6, <2>1
  <2>3. m.tick = RoundDiv(24 * x, 24) BY <1>4, <1>7 DEF NotePlace, off
  <2>4. Deviation(h) = 2 * (h.at * 48 - tempo * x) /\ Scale(h) = 48
    BY <1>7 DEF Deviation, Scale, of, off
  <2> HIDE DEF x
  <2> DEFINE d == 1
  <2>5. d \in Nat \ {0} /\ 24 * d = 24 /\ h.at * d = h.at BY <1>5
  <2> HIDE DEF d
  <2>6. 2 * (48 * (h.at * d) - tempo * x) \in -(144 * d) .. 144 * d
    <3>1. 2 * (h.at * 48 - tempo * x) \in -3 * 48 .. 3 * 48 BY <1>2, <2>4 DEF Near
    <3>2. tempo * x \in Nat BY <1>1, <2>2
    <3>3. 144 * d = 144 BY DEF d
    <3> QED BY <1>5, <2>5, <3>1, <3>2, <3>3
  <2> DEFINE tick == RoundDiv(24 * x, 24 * d)
  <2>7. tick \in Nat /\ 2 * (48 * h.at - tick * tempo) \in -(144 + tempo) .. 144 + tempo
    BY <1>1, <1>5, <2>2, <2>5, <2>6, TickOfPlace
  <2>8. m.tick = tick BY <2>3, <2>5
  <2> HIDE DEF tick
  <2> QED BY <1>4, <2>7, <2>8 DEF h, of
<1>8. CASE of[1] = "lane"
  <2> DEFINE lane == pattern.lanes[of[2]]
             num  == LaneStepRate(lane.triplet).num
             den  == LaneStepRate(lane.triplet).den
             s    == lane.lit[of[3] % LaneLength(lane)]
             r    == RatchetCount(s)
             late == h.late
             w    == 24 * r * of[3] + r * late + 24 * of[4]
  <2>1. r \in Nat \ {0}
    <3>1. PICK g \in 0 .. nextStep - 1 : of \in GlobalStepNames(g) BY <1>1, <1>3, ExpectedOfSteps
    <3>2. PICK li \in DOMAIN pattern.lanes : of \in LaneNames(li, g)
      <4>1. (\E ri \in DOMAIN pattern.rolls : of \in RollNames(ri, g))
              \/ (\E li \in DOMAIN pattern.lanes : of \in LaneNames(li, g))
        <5> DEFINE A == UNION {LaneNames(li, g) : li \in DOMAIN pattern.lanes}
                   B == UNION {RollNames(ri, g) : ri \in DOMAIN pattern.rolls}
        <5>1. GlobalStepNames(g) = A \cup B BY DEF GlobalStepNames
        <5>2. of \in A \/ of \in B
          <6> HIDE DEF A, B
          <6> QED BY <3>1, <5>1
        <5> QED BY <5>2
      <4>2. \A ri : of \notin RollNames(ri, g) BY <1>8, NamesApart
      <4> QED BY <4>1, <4>2
    <3>3. of[2] = li BY <3>2, NamesApart
    <3>4. PICK p : of \in StepNames(li, p) BY <3>2 DEF LaneNames
    <3>5. of[3] = p BY <3>4, NamesApart
    <3>6. of[3] % LaneLength(lane) \in DOMAIN lane.lit BY <3>3, <3>4, <3>5 DEF StepNames
    <3>7. r \in 1 .. 8 BY <1>1, <3>3, <3>6, LaneOK
    <3> HIDE DEF r
    <3> QED BY <3>7
  <2>2. num \in Nat \ {0} /\ den \in Nat \ {0} BY DEF LaneStepRate
  <2>3. late = BetweenOf(s.shift, 0, 12) BY <1>8 DEF h, of
  <2>4. m.tick = RoundDiv(24 * num * w, 24 * r * den) BY <1>4, <1>8, <2>3 DEF NotePlace
  <2>5. Deviation(h) = 2 * (h.at * 48 * den * r - tempo * num * w) /\ Scale(h) = 48 * den * r
    BY <1>8 DEF Deviation, Scale, of
  <2>6. late \in Nat BY <1>5
  <2> HIDE DEF r, num, den, late
  <2>7. w \in Nat
    <3>1. r * of[3] \in Nat /\ r * late \in Nat BY <1>6, <2>1, <2>6
    <3>2. 24 * r * of[3] \in Nat BY <1>6, <2>1
    <3> QED BY <1>6, <3>1, <3>2
  <2> HIDE DEF w
  <2> DEFINE x == num * w
             d == den * r
             a == h.at
  <2>8. x \in Nat /\ d \in Nat \ {0} /\ a \in Nat BY <1>5, <2>1, <2>2, <2>7
  <2>9. 24 * num * w = 24 * x /\ 24 * r * den = 24 * d BY <2>1, <2>2, <2>7
  <2>10. a * 48 * den * r = 48 * (a * d)
    <3>1. a * 48 * den * r = 48 * (a * (den * r)) BY <2>1, <2>2, <2>8
    <3> QED BY <3>1
  <2>11. tempo * num * w = tempo * x BY <1>1, <2>2, <2>7
  <2>12. 48 * den * r = 48 * d BY <2>1, <2>2
  <2>13. Deviation(h) = 2 * (48 * (a * d) - tempo * x) /\ Scale(h) = 48 * d BY <2>5, <2>10, <2>11, <2>12
  <2> HIDE DEF x, d, a
  <2>14. 2 * (48 * (a * d) - tempo * x) \in -3 * (48 * d) .. 3 * (48 * d) BY <1>2, <2>13 DEF Near
  <2>15. 2 * (48 * (a * d) - tempo * x) \in -(144 * d) .. 144 * d
    <3>1. a * d \in Nat /\ tempo * x \in Nat BY <1>1, <2>8
    <3> QED BY <2>8, <2>14, <3>1
  <2> DEFINE tick == RoundDiv(24 * x, 24 * d)
  <2>16. tick \in Nat /\ 2 * (48 * a - tick * tempo) \in -(144 + tempo) .. 144 + tempo
    BY <1>1, <2>8, <2>15, TickOfPlace
  <2>17. m.tick = tick BY <2>4, <2>9
  <2> HIDE DEF tick
  <2> QED BY <1>4, <2>16, <2>17 DEF h, of, a
<1> QED BY <1>6, <1>7, <1>8

(* MidiExporter.cpp:54-56: the hits of the engine are the notes of the file,  *)
(* but for those of a step's probability and of a lane of no length, and each *)
(* that swing and humanise leave alone is at the place where it is heard: for *)
(* every pattern, its lanes of any length.                                   *)
THEOREM SpecMidiIsTheImage == Spec => []MidiIsTheImage
<1>1. Timed /\ EventInv /\ Kept => MidiIsTheImage
  <2> SUFFICES ASSUME Timed, EventInv, Kept PROVE MidiIsTheImage OBVIOUS
  <2> DEFINE notes == MidiNotes(pattern, nextStep, BarSteps)
  <2>1. pattern \in Patterns /\ nextStep \in Nat
    BY DEF EventInv, Control, Timed, ClockInv, ClockTypeOK
  <2>2. {m.of : m \in {k \in notes : AskedNote(k)}} = Expected(nextStep) BY <2>1, NotesAre
  <2>3. Fired \cup Waiting \cup lost = Expected(nextStep)
    <3>1. pending \in Seq(Event) /\ hits \in Seq(HitRecord) BY DEF EventInv, Ahead, Played
    <3>2. DOMAIN hits = 1 .. Len(hits) /\ DOMAIN pending = 1 .. Len(pending) BY <3>1
    <3>3. Fired = NamesIn(hits) /\ Waiting = NamesIn(pending) BY <3>2 DEF Fired, Waiting, NamesIn
    <3> QED BY <3>3 DEF Kept
  <2> HIDE DEF notes
  <2>4. {m.of : m \in {k \in notes : AskedNote(k)}} = Fired \cup Waiting \cup lost BY <2>2, <2>3
  <2>5. ASSUME NEW i \in DOMAIN hits, ~retuned,
               hits[i].of[1] = "lane" =>
                 hits[i].late = BetweenOf(pattern.lanes[hits[i].of[2]].lit
                   [hits[i].of[3] % LaneLength(pattern.lanes[hits[i].of[2]])].shift, 0, 12)
        PROVE  \E m \in notes : /\ m.of = hits[i].of
                                /\ 2 * (48 * hits[i].at - m.tick * tempo) \in -(144 + tempo) .. 144 + tempo
    BY <2>5, NotesOnTime DEF notes
  <2> QED BY <2>4, <2>5 DEF MidiIsTheImage, AskedNote, notes
<1> QED BY <1>1, SpecKept, PTL

-----------------------------------------------------------------------------
(* Taps: the step that sounds nearest. First the rounding and the way around *)
(* the lane.                                                                 *)

(* The nearer of the two ways around.                                        *)
LEMMA Around ==
  ASSUME NEW around \in Nat \ {0}, NEW d \in Int, NEW z \in Int, NEW error \in Nat,
         error < around, error = d - around * z
  PROVE  (d >= 0 /\ error <= d) \/ (d < 0 /\ around - error <= -d)
<1> DEFINE w == around * z
<1>1. w \in Int OBVIOUS
<1>2. z >= 0 => w >= 0
  <2>1. z >= 0 => z \in Nat OBVIOUS
  <2>2. z \in Nat => around * z \in Nat OBVIOUS
  <2> QED BY <2>1, <2>2
<1>3. z < 0 => w <= -around
  <2> SUFFICES ASSUME z < 0 PROVE w <= -around OBVIOUS
  <2>1. -1 - z \in Nat OBVIOUS
  <2>2. around * (-1 - z) \in Nat BY <2>1
  <2>3. around * (-1 - z) = -around - w OBVIOUS
  <2> HIDE DEF w
  <2> QED BY <1>1, <2>2, <2>3
<1>4. z >= 0 \/ z < 0 OBVIOUS
<1>5. error = d - w OBVIOUS
<1> HIDE DEF w
<1> QED BY <1>1, <1>2, <1>3, <1>4, <1>5

LEMMA Mods ==
  ASSUME NEW x \in Int, NEW b \in Nat \ {0}
  PROVE  /\ x % b \in Nat /\ x % b < b /\ x \div b \in Int
         /\ x = b * (x \div b) + (x % b)
<1>1. x \div b \in Int OBVIOUS
<1>2. x % b \in 0 .. b - 1 OBVIOUS
<1>3. x = b * (x \div b) + (x % b) OBVIOUS
<1> QED BY <1>1, <1>2, <1>3

LEMMA TapNear ==
  ASSUME NEW num \in Nat \ {0}, NEW den \in Nat \ {0}, NEW long \in Nat \ {0},
         NEW t \in Nat \ {0}, NEW s \in Nat, NEW n \in Nat, NEW at \in Nat,
         2 * at - n * t \in 0 .. 1
  PROVE  LET around == long * num * t
             q      == RoundDiv(2 * s * den, t * num) % long
             played == den * (n * t + 2 * (s - at))
             error  == (q * num * t - played) % around
         IN  2 * Least({error, around - error}) <= num * t + 2 * den
<1> DEFINE around == long * num * t
           b == t * num
           a == 2 * s * den
           r == RoundDiv(a, b)
           q == r % long
           m == r \div long
           e == 2 * at - n * t
           c == den * e
           played == den * (n * t + 2 * (s - at))
           x == q * num * t - played
           error == x % around
           k == x \div around
           d == b * r - a + c
<1>1. b \in Nat \ {0} /\ around \in Nat \ {0} /\ a \in Nat
  <2>1. \A i, j \in Nat \ {0} : i * j \in Nat \ {0} OBVIOUS
  <2>2. long * num \in Nat \ {0} BY <2>1
  <2>3. around \in Nat \ {0} BY <2>1, <2>2
  <2> QED BY <2>1, <2>3
<1>2. r \in Nat /\ 2 * (b * r) - 2 * a \in -b .. b
  <2> HIDE DEF a, b
  <2> QED BY <1>1, Rounds
<1>3. q \in Nat /\ m \in Int /\ r = long * m + q
  <2> HIDE DEF r
  <2> QED BY <1>2, Mods
<1>4. c \in 0 .. den
  <2>1. e = 0 \/ e = 1 OBVIOUS
  <2> HIDE DEF e
  <2> QED BY <2>1
<1>5. played = a - c
  <2>1. n * t + 2 * (s - at) = 2 * s - e OBVIOUS
  <2>2. e \in Int OBVIOUS
  <2>3. den * (2 * s - e) = 2 * s * den - den * e
    <3> HIDE DEF e
    <3> QED BY <2>2
  <2> QED BY <2>1, <2>3
<1>6. q * num * t = b * r - around * m
  <2> HIDE DEF r, q, m
  <2>1. b * r = b * (long * m + q) BY <1>3
  <2>2. b * (long * m + q) = b * (long * m) + b * q BY <1>1, <1>3
  <2>3. b * q = q * num * t BY <1>3
  <2>4. b * (long * m) = around * m BY <1>3
  <2>5. b * q \in Int /\ around * m \in Int /\ b * r \in Int BY <1>1, <1>2, <1>3
  <2> HIDE DEF b, around
  <2> QED BY <2>1, <2>2, <2>3, <2>4, <2>5
<1>7. x = d - around * m /\ d \in Int /\ x \in Int
  <2>1. b * r \in Nat /\ around * m \in Int /\ a \in Nat /\ c \in Int
    <3> HIDE DEF b, around, r, m, a, c
    <3> QED BY <1>1, <1>2, <1>3, <1>4
  <2> DEFINE u == b * r
             v == around * m
  <2>2. x = u - v - (a - c)
    <3> HIDE DEF u, v, a, c, q, played
    <3>1. q * num * t = u - v BY <1>6 DEF u, v
    <3> QED BY <1>5, <3>1
  <2>3. u \in Nat /\ v \in Int BY <2>1
  <2>4. d = u - a + c OBVIOUS
  <2> HIDE DEF x, a, c, d, u, v
  <2>5. x = d - v /\ d \in Int /\ x \in Int BY <2>1, <2>2, <2>3, <2>4
  <2> QED BY <2>5 DEF v
<1>8. error \in Nat /\ error < around /\ k \in Int /\ x = around * k + error
  <2> HIDE DEF x, around
  <2> QED BY <1>1, <1>7, Mods
<1> DEFINE z == m + k
<1>9. z \in Int /\ error = d - around * z
  <2> HIDE DEF x, around, d, m, k, error
  <2>1. around * (m + k) = around * m + around * k BY <1>1, <1>3, <1>8
  <2>2. around * m \in Int /\ around * k \in Int BY <1>1, <1>3, <1>8
  <2>3. d - around * m = around * k + error BY <1>7, <1>8
  <2>4. error \in Int BY <1>8
  <2>5. error = d - (around * m + around * k) BY <1>7, <2>2, <2>3, <2>4
  <2> QED BY <1>3, <1>8, <2>1, <2>5
<1>10. 2 * d >= -b /\ 2 * d <= b + 2 * den
  <2> DEFINE y == b * r
  <2>1. y \in Nat BY <1>1, <1>2
  <2>2. d = y - a + c /\ 2 * y - 2 * a \in -b .. b BY <1>2
  <2> HIDE DEF y, a, b, c, d
  <2> QED BY <1>1, <1>4, <2>1, <2>2
<1>11. (d >= 0 /\ error <= d) \/ (d < 0 /\ around - error <= -d)
  <2> HIDE DEF x, around, d, z, error
  <2> QED BY <1>1, <1>7, <1>8, <1>9, Around
<1> DEFINE both  == {error, around - error}
           least == Least(both)
<1>12. least \in Nat /\ least <= error /\ least <= around - error
  <2>1. around - error \in Nat
    <3> HIDE DEF error, around
    <3> QED BY <1>1, <1>8
  <2>2. both \subseteq Nat /\ both # {} /\ error \in both /\ around - error \in both
    <3> HIDE DEF error, around
    <3> QED BY <1>8, <2>1
  <2> HIDE DEF both, error, around
  <2> QED BY <2>2, LeastExists
<1>13. b = num * t OBVIOUS
<1>14. 2 * least <= b + 2 * den
  <2> HIDE DEF least, error, around, d, b
  <2> QED BY <1>1, <1>7, <1>8, <1>10, <1>11, <1>12
<1>15. 2 * least <= num * t + 2 * den
  <2> HIDE DEF least
  <2> QED BY <1>13, <1>14
<1> QED BY <1>15

-----------------------------------------------------------------------------
(* What a tap reads: the block's start, and the last step as long as the grid *)
(* begins at the top.                                                        *)
TapInv ==
  /\ phase = "steps" => transportSamples = blockStart
  /\ ~retuned /\ lastAt # -1 => /\ nextStep >= 1
                                /\ 2 * lastAt - (nextStep - 1) * tempo \in 0 .. 1

LEMMA NextTap == Timed /\ EventInv /\ TapInv /\ [Next]_vars => TapInv'
<1> SUFFICES ASSUME Timed, EventInv, TapInv, [Next]_vars PROVE TapInv' OBVIOUS
<1>1. ASSUME MessageNext \/ DrainCommand \/ UNCHANGED vars PROVE TapInv'
  <2>1. UNCHANGED <<phase, transportSamples, blockStart, retuned, lastAt, nextStep, tempo>>
    BY <1>1 DEF MessageNext, Play, Stop, ChangeTempo, ChangeFeel, ChangeAudible, PushCommand,
                engineVars, DrainCommand, local, clockVars, grid, history, vars
  <2> QED BY <2>1 DEF TapInv
<1>2. ASSUME LoadPlaying \/ RenderStopped \/ StepsDone \/ EndBlock PROVE TapInv'
  <2>1. UNCHANGED <<retuned, lastAt, nextStep, tempo>> /\ phase' # "steps"
    BY <1>2 DEF LoadPlaying, RenderStopped, StepsDone, EndSteps, EndBlock, clockVars, grid, history
  <2> QED BY <2>1 DEF TapInv
<1>3. ASSUME TakeTempo PROVE TapInv'
  <2>1. phase' # "steps" BY <1>3 DEF TakeTempo
  <2>2. CASE tempoDirty
    <3>1. retuned' BY <1>3, <2>2 DEF TakeTempo
    <3> QED BY <2>1, <3>1 DEF TapInv
  <2>3. CASE ~tempoDirty
    <3>1. UNCHANGED <<lastAt, nextStep, tempo>> BY <1>3, <2>3 DEF TakeTempo, clockVars, grid
    <3>2. retuned' = (retuned \/ tempoDirty) BY <1>3 DEF TakeTempo
    <3>3. ~retuned' => ~retuned BY <3>2
    <3> QED BY <2>1, <3>1, <3>3 DEF TapInv
  <2> QED BY <2>2, <2>3
<1>4. ASSUME TakeReset PROVE TapInv'
  <2>1. phase' # "steps" BY <1>4 DEF TakeReset
  <2>2. CASE resetRequested
    <3>1. lastAt' = -1 BY <1>4, <2>2 DEF TakeReset, Reset
    <3> QED BY <2>1, <3>1 DEF TapInv
  <2>3. CASE ~resetRequested
    <3>1. UNCHANGED <<retuned, lastAt, nextStep, tempo>>
      BY <1>4, <2>3 DEF TakeReset, clockVars, grid, history
    <3> QED BY <2>1, <3>1 DEF TapInv
  <2> QED BY <2>2, <2>3
<1>5. ASSUME BeginBlock PROVE TapInv'
  <2>1. /\ UNCHANGED <<retuned, lastAt, nextStep, tempo>>
        /\ transportSamples' = sampleCounter /\ blockStart' = sampleCounter
    BY <1>5 DEF BeginBlock, BeginSteps, grid, history
  <2> QED BY <2>1 DEF TapInv
<1>6. ASSUME FireStep PROVE TapInv'
  <2>1. /\ UNCHANGED <<phase, transportSamples, blockStart, retuned, tempo>>
        /\ nextStep' = nextStep + 1 /\ lastAt' = StepSampleOf(nextStep)
    BY <1>6 DEF FireStep, AdvanceStep, local, grid
  <2>2. nextStep \in Nat BY DEF Timed, ClockInv, ClockTypeOK
  <2>3. nextStep' >= 1 /\ nextStep' - 1 = nextStep BY <2>1, <2>2
  <2>4. ~retuned => 2 * StepSampleOf(nextStep) - nextStep * tempo \in 0 .. 1
    BY PlainStep DEF EventInv, OnGrid
  <2>5. ~retuned => 2 * lastAt' - (nextStep' - 1) * tempo' \in 0 .. 1 BY <2>1, <2>3, <2>4
  <2> QED BY <2>1, <2>3, <2>5 DEF TapInv
<1>7. ASSUME FireEvent PROVE TapInv'
  <2>1. UNCHANGED <<phase, transportSamples, blockStart, retuned, lastAt, nextStep, tempo>>
    BY <1>7 DEF FireEvent, clockVars, grid
  <2> QED BY <2>1 DEF TapInv
<1>8. ASSUME Prepare PROVE TapInv'
  <2>1. phase' # "steps" /\ lastAt' = -1 BY <1>8 DEF Prepare, PrepareClock
  <2> QED BY <2>1 DEF TapInv
<1> QED BY <1>1, <1>2, <1>3, <1>4, <1>5, <1>6, <1>7, <1>8 DEF Next, AudioNext

LEMMA SpecTap == Spec => [](Timed /\ EventInv /\ TapInv)
<1>1. Init => TapInv BY DEF Init, ClockInit, TapInv
<1> QED BY <1>1, NextTap, SpecEventInv, PTL DEF Spec

(* Capture.cpp:36-39: while the tempo stands still, a tap is written to the    *)
(* step of its lane that sounds nearest to it, in every bar and for every    *)
(* length of the lane.                                                       *)
THEOREM SpecTapLandsWhereItPlays == Spec => []TapLandsWhereItPlays
<1>1. Timed /\ EventInv /\ TapInv => TapLandsWhereItPlays
  <2> SUFFICES ASSUME Timed, EventInv, TapInv, TapTime, ~retuned,
                      NEW li \in DOMAIN pattern.lanes, pattern.lanes[li].length >= 1
               PROVE  LET lane == pattern.lanes[li]
                          rate == LaneStepRate(lane.triplet)
                      IN  TapError(lane) <= rate.num * tempo + 2 * rate.den
    BY DEF TapLandsWhereItPlays, TapLands
  <2> DEFINE lane == pattern.lanes[li]
             rate == LaneStepRate(lane.triplet)
             s == transportSamples
             n == nextStep - 1
  <2>1. LaneLength(lane) \in Nat \ {0} /\ lane.triplet \in BOOLEAN BY LaneOK DEF EventInv, Control
  <2>2. rate.num \in Nat \ {0} /\ rate.den \in Nat \ {0}
    <3>1. LaneStepRate(TRUE).num \in Nat \ {0} /\ LaneStepRate(TRUE).den \in Nat \ {0}
          /\ LaneStepRate(FALSE).num \in Nat \ {0} /\ LaneStepRate(FALSE).den \in Nat \ {0}
      BY DEF LaneStepRate
    <3>2. rate = LaneStepRate(TRUE) \/ rate = LaneStepRate(FALSE)
      <4>1. lane.triplet = TRUE \/ lane.triplet = FALSE BY <2>1
      <4> QED BY <4>1
    <3> HIDE DEF rate
    <3> QED BY <3>1, <3>2
  <2>3. pendingTempo = tempo /\ tempo \in Nat \ {0}
    BY StepClockAssumption DEF TapTime, Timed, ClockInv, ClockTypeOK
  <2>4. s \in Nat BY DEF TapInv, TapTime, EventInv, Block
  <2>5. lastAt \in Nat /\ lastAt # -1
    <3>1. blockStart \in Nat /\ lastAt \in 0 .. blockStart - 1 BY DEF EventInv, Block, TapTime
    <3> QED BY <3>1
  <2>6. n \in Nat /\ 2 * lastAt - n * tempo \in 0 .. 1
    <3>1. nextStep \in Nat BY DEF Timed, ClockInv, ClockTypeOK
    <3>2. nextStep >= 1 /\ 2 * lastAt - (nextStep - 1) * tempo \in 0 .. 1 BY <2>5 DEF TapInv
    <3> QED BY <3>1, <3>2
  <2>7. 2 * s * rate.den >= 0
    <3> HIDE DEF rate, s
    <3>1. 2 * s * rate.den \in Nat BY <2>2, <2>4
    <3> QED BY <3>1
  <2>8. Quantise(lane, s, pendingTempo) = RoundDiv(2 * s * rate.den, tempo * rate.num) % LaneLength(lane)
    BY <2>3, <2>7 DEF Quantise, RoundAway
  <2> HIDE DEF rate, lane, s, n
  <2> DEFINE around == LaneLength(lane) * rate.num * tempo
             q      == RoundDiv(2 * s * rate.den, tempo * rate.num) % LaneLength(lane)
             played == rate.den * (n * tempo + 2 * (s - lastAt))
             error  == (q * rate.num * tempo - played) % around
  <2>9. 2 * Least({error, around - error}) <= rate.num * tempo + 2 * rate.den
    BY <2>1, <2>2, <2>3, <2>4, <2>5, <2>6, TapNear
  <2>10. TapError(lane) = 2 * Least({error, around - error})
    BY <2>8 DEF TapError, rate, s, n
  <2> HIDE DEF error, around
  <2>11. TapError(lane) <= rate.num * tempo + 2 * rate.den BY <2>9, <2>10
  <2> QED BY <2>11 DEF lane, rate
<1> QED BY <1>1, SpecTap, PTL
=============================================================================
