------------------------- MODULE InputRecorderProofs -------------------------
(***************************************************************************)
(* Where the recorder's handshake can break, and that it breaks nowhere      *)
(* else: a block is in the buffer that take() reads or prepare() replaces   *)
(* only after a look at the other's flag that overtook the store of the own  *)
(* one; and until a look has done so, what take() hands out is the take that *)
(* was played, whole and in order. For any capacity, block length, number   *)
(* of takes and number of stores under way.                                 *)
(*                                                                         *)
(* The first argument is Dekker's: each side raises its flag and then looks *)
(* at the other's. A look that overtakes nothing finds the raised flag in    *)
(* memory, and it is all that is in the way of the other. The second follows *)
(* the stores of `written` from the appends of a block to the memory take() *)
(* reads: what is on its way there is in the order it was stored, and       *)
(* nothing is on its way once both sides are quiet.                         *)
(***************************************************************************)
EXTENDS InputRecorder, SequenceTheorems, NaturalsInduction, WellFoundedInduction, TLAPS

Values  == BOOLEAN \cup Int
Entries == [atomic : Atomics, value : Values]

(* The stores a thread may make: of `written` a number, of `writing` none by *)
(* the message thread, and of `armed` only FALSE by the audio thread.       *)
Proper(t, e) ==
  /\ e \in Entries
  /\ e.atomic = "written" => e.value \in Int
  /\ e.atomic = "armed" => e.value \in BOOLEAN
  /\ t = "message" => e.atomic # "writing"
  /\ t = "audio" /\ e.atomic = "armed" => e.value = FALSE

(* The memory and the stores under way, as far as the argument needs them.  *)
MemoryOK ==
  /\ mem \in [Atomics -> Values]
  /\ stores \in [Threads -> Seq(Entries)]
  /\ \A t \in Threads : \A i \in 1 .. Len(stores[t]) : Proper(t, stores[t][i])
  /\ mem["written"] \in Int /\ mem["armed"] \in BOOLEAN
  /\ mop \in {"take", "prepare"}
  /\ at \in Int

LooksOK ==
  /\ early \in [Threads -> BOOLEAN] /\ overtook \in BOOLEAN
  /\ ~overtook => \A t \in Threads : ~early[t]

LastOf(s) == s[Len(s)]

(* Once disarmed, `armed` is down in memory, or the store that brings it    *)
(* down is the message thread's last; and a look that overtook nothing found *)
(* it in memory.                                                            *)
Disarmed ==
  /\ mpc = "wait" =>
       IF stores["message"] = <<>> THEN mem["armed"] = FALSE
       ELSE LastOf(stores["message"]) = Put("armed", FALSE)
  /\ mpc \in {"take", "prepare"} /\ ~early["message"] =>
       stores["message"] = <<>> /\ mem["armed"] = FALSE

(* A block that has raised `writing` keeps it up until it is done.          *)
Raised ==
  /\ apc = "recheck" =>
       IF stores["audio"] = <<>> THEN mem["writing"] = TRUE
       ELSE LastOf(stores["audio"]) = Put("writing", TRUE)
  /\ apc = "append" /\ ~early["audio"] =>
       /\ mem["writing"] = TRUE
       /\ \A i \in 1 .. Len(stores["audio"]) : stores["audio"][i].atomic # "writing"

IInv == MemoryOK /\ LooksOK /\ Disarmed /\ Raised /\ ExclusiveWhenSeen

-----------------------------------------------------------------------------
(* What Flush does: the oldest store of a thread reaches memory.            *)
LEMMA FlushMemory ==
  ASSUME MemoryOK, NEW t \in Threads, Flush(t)
  PROVE  /\ stores[t] # <<>> /\ stores[t][1] \in Entries
         /\ mem' = [mem EXCEPT ![stores[t][1].atomic] = stores[t][1].value]
         /\ stores' \in [Threads -> Seq(Entries)]
         /\ \A u \in Threads \ {t} : stores'[u] = stores[u]
         /\ Len(stores'[t]) = Len(stores[t]) - 1
         /\ \A i \in 1 .. Len(stores'[t]) : stores'[t][i] = stores[t][i + 1]
  <1>1. stores[t] \in Seq(Entries) /\ stores[t] # <<>>
    BY DEF MemoryOK, Flush
  <1>2. /\ Head(stores[t]) = stores[t][1] /\ Head(stores[t]) \in Entries
        /\ Tail(stores[t]) \in Seq(Entries)
        /\ Len(Tail(stores[t])) = Len(stores[t]) - 1
        /\ \A i \in 1 .. Len(Tail(stores[t])) : Tail(stores[t])[i] = stores[t][i + 1]
    BY <1>1, HeadTailProperties
  <1>3. stores' = [stores EXCEPT ![t] = Tail(stores[t])]
        /\ mem' = [mem EXCEPT ![Head(stores[t]).atomic] = Head(stores[t]).value]
    BY DEF Flush
  <1>4. QED
    BY <1>1, <1>2, <1>3 DEF MemoryOK

(* What Store does: the new stores follow those under way.                  *)
LEMMA StoreAppends ==
  ASSUME MemoryOK, NEW t \in Threads, NEW s \in Seq(Entries), Store(t, s)
  PROVE  /\ stores' \in [Threads -> Seq(Entries)]
         /\ \A u \in Threads \ {t} : stores'[u] = stores[u]
         /\ Len(stores'[t]) = Len(stores[t]) + Len(s)
         /\ \A i \in 1 .. Len(stores[t]) : stores'[t][i] = stores[t][i]
         /\ \A i \in 1 .. Len(s) : stores'[t][Len(stores[t]) + i] = s[i]
         /\ \A i \in 1 .. Len(stores'[t]) :
              \/ i \in 1 .. Len(stores[t])
              \/ \E j \in 1 .. Len(s) : i = Len(stores[t]) + j
  <1>1. stores[t] \in Seq(Entries) /\ stores' = [stores EXCEPT ![t] = stores[t] \o s]
    BY DEF MemoryOK, Store
  <1>2. /\ stores[t] \o s \in Seq(Entries)
        /\ Len(stores[t] \o s) = Len(stores[t]) + Len(s)
        /\ \A i \in 1 .. Len(stores[t]) + Len(s) : (stores[t] \o s)[i] =
             IF i <= Len(stores[t]) THEN stores[t][i] ELSE s[i - Len(stores[t])]
    BY <1>1, ConcatProperties
  <1>3. Len(stores[t]) \in Nat /\ Len(s) \in Nat
    BY <1>1
  <1>4. stores' \in [Threads -> Seq(Entries)] /\ stores'[t] = stores[t] \o s
        /\ \A u \in Threads \ {t} : stores'[u] = stores[u]
    BY <1>1, <1>2 DEF MemoryOK
  <1>5. \A i \in 1 .. Len(stores[t]) + Len(s) :
          i \in 1 .. Len(stores[t]) \/ i - Len(stores[t]) \in 1 .. Len(s)
    BY <1>3
  <1>6. QED
    BY <1>2, <1>3, <1>4, <1>5

(* A thread without stores under way loads what is in memory.               *)
LEMMA LoadMemory ==
  ASSUME NEW t, NEW a, stores[t] = <<>>
  PROVE  Load(t, a) = mem[a]
  BY DEF Load

LEMMA LatestExists ==
  ASSUME NEW n \in Nat, NEW S \in SUBSET (1 .. n), S # {}
  PROVE  \E i \in S : \A j \in S : j <= i
  <1> DEFINE D == {n - i : i \in S}
  <1>1. D \subseteq Nat /\ D # {}
    <2>1. \A i \in S : n - i \in Nat
      OBVIOUS
    <2>2. PICK i \in S : TRUE
      OBVIOUS
    <2>3. n - i \in D
      OBVIOUS
    <2>4. QED
      BY <2>1, <2>3, Zenon
  <1>2. \E x \in D : \A y \in D : ~ (<<y, x>> \in OpToRel(<, Nat))
    BY <1>1, NatLessThanWellFounded, WFMin
  <1>3. PICK x \in D : \A y \in D : ~ (<<y, x>> \in OpToRel(<, Nat))
    BY <1>2
  <1>4. PICK i \in S : x = n - i
    BY <1>3
  <1>5. ASSUME NEW j \in S
        PROVE  j <= i
    <2>1. n - j \in D /\ n - j \in Nat /\ n - i \in Nat
      OBVIOUS
    <2>2. ~(n - j < n - i)
      BY <1>3, <1>4, <2>1 DEF OpToRel
    <2>3. QED
      BY <2>2
  <1>6. QED
    BY <1>4, <1>5

(* A length is a length, wherever it is loaded from.                        *)
LEMMA LoadWritten ==
  ASSUME MemoryOK, NEW t \in Threads
  PROVE  Load(t, "written") \in Int
  <1> DEFINE own == {i \in DOMAIN stores[t] : stores[t][i].atomic = "written"}
  <1>1. /\ stores[t] \in Seq(Entries) /\ DOMAIN stores[t] = 1 .. Len(stores[t])
        /\ Len(stores[t]) \in Nat
        /\ \A i \in 1 .. Len(stores[t]) : Proper(t, stores[t][i])
    BY DEF MemoryOK
  <1>2. CASE own = {}
    BY <1>2 DEF Load, MemoryOK
  <1>3. CASE own # {}
    <2>1. \E i \in own : \A j \in own : j <= i
      BY <1>1, <1>3, LatestExists
    <2>2. PICK k \in own : k = CHOOSE i \in own : \A j \in own : j <= i
      BY <2>1
    <2>3. stores[t][k].value \in Int
      BY <1>1 DEF Proper
    <2>4. QED
      BY <1>3, <2>2, <2>3 DEF Load
  <1>4. QED
    BY <1>2, <1>3

LEMMA StoreMemoryOK ==
  ASSUME MemoryOK, NEW t \in Threads, NEW s \in Seq(Entries), Store(t, s),
         \A i \in 1 .. Len(s) : Proper(t, s[i]),
         UNCHANGED mem, mop' \in {"take", "prepare"}, at' \in Int
  PROVE  MemoryOK'
  <1>1. \A u \in Threads : \A i \in 1 .. Len(stores[u]) : Proper(u, stores[u][i])
    BY DEF MemoryOK
  <1>2. /\ \A i \in 1 .. Len(stores[t]) : stores'[t][i] = stores[t][i]
        /\ \A i \in 1 .. Len(s) : stores'[t][Len(stores[t]) + i] = s[i]
        /\ \A i \in 1 .. Len(stores'[t]) :
             \/ i \in 1 .. Len(stores[t])
             \/ \E j \in 1 .. Len(s) : i = Len(stores[t]) + j
    BY StoreAppends
  <1>3. ASSUME NEW i \in 1 .. Len(stores'[t])
        PROVE  Proper(t, stores'[t][i])
    <2>1. CASE i \in 1 .. Len(stores[t])
      <3>1. stores'[t][i] = stores[t][i]
        BY <1>2, <2>1
      <3>2. QED
        BY <1>1, <2>1, <3>1
    <2>2. CASE \E j \in 1 .. Len(s) : i = Len(stores[t]) + j
      <3>1. PICK j \in 1 .. Len(s) : i = Len(stores[t]) + j
        BY <2>2
      <3>2. stores'[t][i] = s[j]
        BY <1>2, <3>1
      <3>3. QED
        BY <3>2
    <2>3. QED
      BY <1>2, <2>1, <2>2
  <1>4. \A u \in Threads \ {t} : stores'[u] = stores[u]
    BY StoreAppends
  <1>5. stores' \in [Threads -> Seq(Entries)]
    BY StoreAppends
  <1>6. \A u \in Threads : \A i \in 1 .. Len(stores'[u]) : Proper(u, stores'[u][i])
    BY <1>1, <1>3, <1>4
  <1>7. QED
    BY <1>5, <1>6 DEF MemoryOK

LEMMA FlushMemoryOK ==
  ASSUME MemoryOK, NEW t \in Threads, Flush(t)
  PROVE  MemoryOK'
  <1>1. \A u \in Threads : \A i \in 1 .. Len(stores[u]) : Proper(u, stores[u][i])
    BY DEF MemoryOK
  <1>2. stores[t] \in Seq(Entries) /\ stores[t] # <<>> /\ Len(stores[t]) \in Nat \ {0}
    BY FlushMemory, EmptySeq DEF MemoryOK
  <1>3. \A i \in 1 .. Len(stores'[t]) : Proper(t, stores'[t][i])
    <2>1. /\ Len(stores'[t]) = Len(stores[t]) - 1
          /\ \A i \in 1 .. Len(stores'[t]) : stores'[t][i] = stores[t][i + 1]
      BY FlushMemory
    <2>2. \A i \in 1 .. Len(stores'[t]) : i + 1 \in 1 .. Len(stores[t])
      BY <1>2, <2>1
    <2>3. \A i \in 1 .. Len(stores'[t]) : Proper(t, stores[t][i + 1])
      BY <1>1, <2>2
    <2>4. QED
      BY <2>1, <2>3
  <1>4. \A u \in Threads : \A i \in 1 .. Len(stores'[u]) : Proper(u, stores'[u][i])
    BY <1>1, <1>3, FlushMemory
  <1>5. stores[t][1] \in Entries /\ Proper(t, stores[t][1])
    BY <1>1, <1>2
  <1>6. /\ mem' = [mem EXCEPT ![stores[t][1].atomic] = stores[t][1].value]
        /\ mem \in [Atomics -> Values] /\ mem["written"] \in Int /\ mem["armed"] \in BOOLEAN
        /\ stores[t][1].atomic \in Atomics /\ stores[t][1].value \in Values
        /\ stores[t][1].atomic = "written" => stores[t][1].value \in Int
        /\ stores[t][1].atomic = "armed" => stores[t][1].value \in BOOLEAN
    BY <1>5, FlushMemory DEF Entries, MemoryOK, Proper
  <1>7. mem' \in [Atomics -> Values]
    BY <1>6
  <1>8. mem'["written"] \in Int /\ mem'["armed"] \in BOOLEAN
    BY <1>6 DEF Atomics
  <1>9. mem' \in [Atomics -> Values] /\ mem'["written"] \in Int /\ mem'["armed"] \in BOOLEAN
    BY <1>7, <1>8
  <1>10. stores' \in [Threads -> Seq(Entries)] /\ UNCHANGED <<mop, at>>
    BY FlushMemory DEF Flush, message, audio
  <1>11. QED
    BY <1>4, <1>9, <1>10 DEF MemoryOK

-----------------------------------------------------------------------------
LEMMA InitIInv == Init => IInv
  <1> SUFFICES ASSUME Init PROVE IInv
    OBVIOUS
  <1>1. mem \in [Atomics -> Values] /\ mem["written"] \in Int /\ mem["armed"] \in BOOLEAN
    BY DEF Init, Atomics, Values
  <1>2. stores \in [Threads -> Seq(Entries)]
        /\ stores["message"] = <<>> /\ stores["audio"] = <<>>
    BY DEF Init, Threads
  <1>3. \A t \in Threads : 1 .. Len(stores[t]) = {}
    BY <1>2 DEF Threads
  <1>4. mop \in {"take", "prepare"} /\ at \in Int
    BY DEF Init
  <1>5. MemoryOK
    BY <1>1, <1>2, <1>3, <1>4 DEF MemoryOK
  <1>6. LooksOK /\ Disarmed /\ Raised /\ ExclusiveWhenSeen
    BY DEF Init, LooksOK, Disarmed, Raised, ExclusiveWhenSeen, Collision
  <1>7. QED
    BY <1>5, <1>6 DEF IInv

LEMMA LookOK ==
  ASSUME LooksOK, NEW t \in Threads, Look(t)
  PROVE  /\ LooksOK'
         /\ early'[t] = (stores[t] # <<>>)
         /\ \A u \in Threads \ {t} : early'[u] = early[u]
         /\ ~overtook' => ~overtook /\ stores[t] = <<>>
  <1> DEFINE b == stores[t] # <<>>
  <1>1. b \in BOOLEAN /\ early' = [early EXCEPT ![t] = b] /\ (overtook' <=> overtook \/ b)
        /\ overtook' \in BOOLEAN
    BY DEF Look
  <1>2. b <=> stores[t] # <<>>
    OBVIOUS
  <1> HIDE DEF b
  <1>3. early \in [Threads -> BOOLEAN]
    BY DEF LooksOK
  <1>4. early' \in [Threads -> BOOLEAN] /\ (early'[t] <=> b)
        /\ \A u \in Threads \ {t} : early'[u] = early[u]
    BY <1>1, <1>3
  <1>5. ~overtook' => \A u \in Threads : ~early'[u]
    BY <1>1, <1>4 DEF LooksOK
  <1>6. QED
    BY <1>1, <1>2, <1>4, <1>5 DEF LooksOK

LEMMA NextLooksOK == LooksOK /\ [Next]_vars => LooksOK'
  <1> SUFFICES ASSUME LooksOK, [Next]_vars
               PROVE  LooksOK'
    OBVIOUS
  <1>1. CASE Look("message") \/ Look("audio")
    BY <1>1, LookOK DEF Threads
  <1>2. CASE UNCHANGED looks
    BY <1>2 DEF LooksOK, looks
  <1>3. UNCHANGED looks \/ Look("message") \/ Look("audio")
    BY DEF Next, MessageNext, AudioNext, Start, Stop, Disarm, Spin, AwaitBlock, TakeOut, Resize,
           CheckArmed, RaiseWriting, Recheck, AppendBlock, LowerWriting, Flush, vars, history
  <1>4. QED
    BY <1>1, <1>2, <1>3

(* A thread's stores reach memory.                                          *)
LEMMA FlushIInv ==
  ASSUME IInv, NEW t \in Threads, Flush(t)
  PROVE  IInv'
  <1>1. MemoryOK /\ Disarmed /\ Raised /\ ExclusiveWhenSeen /\ MemoryOK' /\ LooksOK /\ LooksOK'
    BY FlushMemoryOK, NextLooksOK DEF IInv, Next
  <1>2. UNCHANGED <<mpc, apc, early>>
    BY DEF Flush, message, audio, history, looks
  <1>3. /\ stores[t] \in Seq(Entries) /\ Len(stores[t]) \in Nat \ {0}
        /\ stores'[t] \in Seq(Entries) /\ stores[t][1] \in Entries
        /\ Len(stores'[t]) = Len(stores[t]) - 1
        /\ \A i \in 1 .. Len(stores'[t]) : stores'[t][i] = stores[t][i + 1]
        /\ mem' = [mem EXCEPT ![stores[t][1].atomic] = stores[t][1].value]
        /\ mem \in [Atomics -> Values]
    BY <1>1, FlushMemory, EmptySeq DEF MemoryOK
  (* The last store stays the last one until it reaches memory itself.      *)
  <1>4. ASSUME NEW a \in Atomics, NEW v \in BOOLEAN, LastOf(stores[t]) = Put(a, v)
        PROVE  IF stores'[t] = <<>> THEN mem'[a] = v ELSE LastOf(stores'[t]) = Put(a, v)
    <2>1. CASE Len(stores[t]) = 1
      <3>1. stores[t][1] = Put(a, v) /\ stores'[t] = <<>>
        BY <1>3, <1>4, <2>1 DEF LastOf
      <3>2. mem'[a] = v
        BY <1>3, <3>1 DEF Put
      <3>3. QED
        BY <3>1, <3>2
    <2>2. CASE Len(stores[t]) > 1
      <3>1. Len(stores'[t]) \in 1 .. Len(stores'[t]) /\ Len(stores'[t]) + 1 = Len(stores[t])
        BY <1>3, <2>2
      <3>2. stores'[t] # <<>> /\ LastOf(stores'[t]) = LastOf(stores[t])
        BY <1>3, <3>1 DEF LastOf
      <3>3. QED
        BY <1>4, <3>2
    <2>3. Len(stores[t]) \in Nat \ {0}
      BY <1>3
    <2>4. \A n \in Nat \ {0} : n = 1 \/ n > 1
      OBVIOUS
    <2>5. QED
      BY <2>1, <2>2, <2>3, <2>4
  <1>5. CASE t = "message"
    <2>1. stores'["audio"] = stores["audio"] /\ stores["message"] # <<>>
      BY <1>1, <1>5, FlushMemory DEF Threads
    <2>2. mem'["writing"] = mem["writing"]
      BY <1>1, <1>3, <1>5 DEF MemoryOK, Proper, Atomics, Threads
    <2>3. Raised'
      BY <1>1, <1>2, <2>1, <2>2 DEF Raised
    <2>4. Disarmed'
      BY <1>1, <1>2, <1>4, <1>5, <2>1 DEF Disarmed, Atomics
    <2>5. QED
      BY <1>1, <1>2, <2>3, <2>4 DEF IInv, ExclusiveWhenSeen, Collision
  <1>6. CASE t = "audio"
    <2>1. stores'["message"] = stores["message"] /\ stores["audio"] # <<>>
      BY <1>1, <1>6, FlushMemory DEF Threads
    <2>2. mem'["armed"] = mem["armed"] \/ mem'["armed"] = FALSE
      BY <1>1, <1>3, <1>6 DEF MemoryOK, Proper, Atomics, Threads
    <2>3. Disarmed'
      BY <1>1, <1>2, <2>1, <2>2 DEF Disarmed
    <2>4. ASSUME apc = "append", ~early["audio"]
          PROVE  mem'["writing"] = TRUE /\ \A i \in 1 .. Len(stores'["audio"]) :
                                             stores'["audio"][i].atomic # "writing"
      <3>1. /\ mem["writing"] = TRUE
            /\ \A i \in 1 .. Len(stores["audio"]) : stores["audio"][i].atomic # "writing"
        BY <1>1, <2>4 DEF Raised
      <3>2. \A i \in 1 .. Len(stores'["audio"]) : i + 1 \in 1 .. Len(stores["audio"])
        BY <1>3, <1>6
      <3>3. \A i \in 1 .. Len(stores'["audio"]) : stores'["audio"][i].atomic # "writing"
        BY <1>3, <1>6, <3>1, <3>2
      <3>4. stores["audio"][1].atomic # "writing"
        BY <1>3, <1>6, <3>1
      <3>5. mem'["writing"] = TRUE
        BY <1>3, <1>6, <3>1, <3>4 DEF Atomics
      <3>6. QED
        BY <3>3, <3>5
    <2>5. Raised'
      BY <1>1, <1>2, <1>4, <1>6, <2>1, <2>4 DEF Raised, Atomics
    <2>6. QED
      BY <1>1, <1>2, <2>3, <2>5 DEF IInv, ExclusiveWhenSeen, Collision
  <1>7. QED
    BY <1>5, <1>6 DEF Threads

(* What a thread stores at once, four stores at the most.                   *)
LEMMA Puts ==
  ASSUME NEW t, NEW e1, NEW e2, NEW e3, NEW e4,
         Proper(t, e1), Proper(t, e2), Proper(t, e3), Proper(t, e4)
  PROVE  /\ <<>> \in Seq(Entries) /\ Len(<<>>) = 0
         /\ <<e1>> \in Seq(Entries) /\ \A i \in 1 .. Len(<<e1>>) : Proper(t, <<e1>>[i])
         /\ <<e1, e2>> \in Seq(Entries)
         /\ \A i \in 1 .. Len(<<e1, e2>>) : Proper(t, <<e1, e2>>[i])
         /\ <<e1, e2, e3>> \in Seq(Entries)
         /\ \A i \in 1 .. Len(<<e1, e2, e3>>) : Proper(t, <<e1, e2, e3>>[i])
         /\ <<e1, e2, e3, e4>> \in Seq(Entries)
         /\ \A i \in 1 .. Len(<<e1, e2, e3, e4>>) : Proper(t, <<e1, e2, e3, e4>>[i])
  <1>1. e1 \in Entries /\ e2 \in Entries /\ e3 \in Entries /\ e4 \in Entries
    BY DEF Proper
  <1>2. QED
    BY <1>1

LEMMA ConcatProper ==
  ASSUME NEW t, NEW r \in Seq(Entries), NEW s \in Seq(Entries),
         \A i \in 1 .. Len(r) : Proper(t, r[i]), \A i \in 1 .. Len(s) : Proper(t, s[i])
  PROVE  r \o s \in Seq(Entries) /\ \A i \in 1 .. Len(r \o s) : Proper(t, (r \o s)[i])
  <1>1. /\ r \o s \in Seq(Entries) /\ Len(r \o s) = Len(r) + Len(s)
        /\ \A i \in 1 .. Len(r) + Len(s) :
             (r \o s)[i] = IF i <= Len(r) THEN r[i] ELSE s[i - Len(r)]
    BY ConcatProperties
  <1>2. Len(r) \in Nat /\ Len(s) \in Nat
    OBVIOUS
  <1>3. \A i \in 1 .. Len(r) + Len(s) : i \in 1 .. Len(r) \/ (i > Len(r) /\ i - Len(r) \in 1 .. Len(s))
    BY <1>2
  <1>4. QED
    BY <1>1, <1>2, <1>3

(* A thread that stores something last has it as its last store.            *)
LEMMA StoreLast ==
  ASSUME MemoryOK, NEW t \in Threads, NEW e \in Entries, Store(t, <<e>>)
  PROVE  stores'[t] # <<>> /\ LastOf(stores'[t]) = e
  <1>1. <<e>> \in Seq(Entries) /\ Len(<<e>>) = 1 /\ <<e>>[1] = e
    OBVIOUS
  <1>2. /\ stores' \in [Threads -> Seq(Entries)]
        /\ Len(stores'[t]) = Len(stores[t]) + Len(<<e>>)
        /\ \A i \in 1 .. Len(<<e>>) : stores'[t][Len(stores[t]) + i] = <<e>>[i]
    BY <1>1, StoreAppends
  <1>3. /\ stores'[t] \in Seq(Entries)
        /\ Len(stores'[t]) = Len(stores[t]) + 1
        /\ stores'[t][Len(stores[t]) + 1] = e
    BY <1>1, <1>2
  <1>4. Len(stores[t]) \in Nat
    BY DEF MemoryOK
  <1>5. QED
    BY <1>3, <1>4 DEF LastOf

-----------------------------------------------------------------------------
(* The message thread stores from where it holds nothing.                   *)
LEMMA MessageStore ==
  ASSUME IInv, NEW s \in Seq(Entries), \A i \in 1 .. Len(s) : Proper("message", s[i]),
         Store("message", s), UNCHANGED <<mem, apc, at, looks>>,
         mop' \in {"take", "prepare"}, mpc' \in {"idle", "wait"},
         mpc' = "wait" => s = <<Put("armed", FALSE)>>
  PROVE  IInv'
  <1>1. MemoryOK /\ MemoryOK'
    BY StoreMemoryOK DEF IInv, MemoryOK, Threads
  <1>2. stores'["audio"] = stores["audio"]
    BY <1>1, StoreAppends DEF Threads
  <1>3. Raised' /\ ExclusiveWhenSeen' /\ LooksOK'
    BY <1>2 DEF IInv, Raised, ExclusiveWhenSeen, Collision, LooksOK, looks
  <1>4. ASSUME mpc' = "wait"
        PROVE  stores'["message"] # <<>> /\ LastOf(stores'["message"]) = Put("armed", FALSE)
    <2>1. Put("armed", FALSE) \in Entries
      BY DEF Put, Entries, Atomics, Values
    <2>2. Store("message", <<Put("armed", FALSE)>>)
      BY <1>4
    <2>3. QED
      BY <1>1, <2>1, <2>2, StoreLast DEF Threads
  <1>5. Disarmed'
    BY <1>4 DEF Disarmed
  <1>6. QED
    BY <1>1, <1>3, <1>5 DEF IInv

(* The audio thread stores, and leaves the message thread alone.            *)
LEMMA AudioStore ==
  ASSUME IInv, NEW s \in Seq(Entries), \A i \in 1 .. Len(s) : Proper("audio", s[i]),
         Store("audio", s), UNCHANGED <<mem, mpc, mop>>, at' \in Int,
         early'["message"] = early["message"]
  PROVE  MemoryOK' /\ Disarmed'
  <1>1. MemoryOK /\ MemoryOK'
    BY StoreMemoryOK DEF IInv, MemoryOK, Threads
  <1>2. stores'["message"] = stores["message"]
    BY <1>1, StoreAppends DEF Threads
  <1>3. QED
    BY <1>1, <1>2 DEF IInv, Disarmed

(* Nothing but program counters moves.                                      *)
LEMMA MemoryStays ==
  ASSUME MemoryOK, UNCHANGED <<mem, stores, mop>>, at' \in Int
  PROVE  MemoryOK'
  BY DEF MemoryOK

LEMMA ProperPuts ==
  ASSUME NEW t \in Threads
  PROVE  /\ Proper(t, Put("armed", FALSE)) /\ Proper(t, Put("full", FALSE))
         /\ Proper(t, Put("full", TRUE))
         /\ \A n \in Int : Proper(t, Put("written", n))
         /\ Proper(t, Put("written", 0)) /\ Proper(t, Put("start", 0))
         /\ Proper(t, Put("start", -1))
         /\ Proper("message", Put("armed", TRUE))
         /\ \A v \in BOOLEAN : Proper("audio", Put("writing", v))
  BY DEF Proper, Put, Entries, Atomics, Values

LEMMA NextIInv ==
  ASSUME IInv, [Next]_vars
  PROVE  IInv'
  <1>1. MemoryOK /\ LooksOK /\ Disarmed /\ Raised /\ ExclusiveWhenSeen /\ at \in Int
        /\ mop \in {"take", "prepare"} /\ "message" \in Threads /\ "audio" \in Threads
    BY DEF IInv, MemoryOK, Threads
  <1>0. LooksOK'
    BY <1>1, NextLooksOK
  <1>2. CASE Start
    <2>1. /\ Store("message", <<Put("written", 0), Put("full", FALSE), Put("start", -1),
                                Put("armed", TRUE)>>)
          /\ UNCHANGED <<mem, apc, at, mop, mpc, looks>> /\ mpc = "idle"
      BY <1>2 DEF Start, message, audio, history, looks
    <2>2. /\ Proper("message", Put("written", 0)) /\ Proper("message", Put("full", FALSE))
          /\ Proper("message", Put("start", -1)) /\ Proper("message", Put("armed", TRUE))
      BY <1>1, ProperPuts
    <2> DEFINE s == <<Put("written", 0), Put("full", FALSE), Put("start", -1),
                      Put("armed", TRUE)>>
    <2>3. s \in Seq(Entries) /\ \A i \in 1 .. Len(s) : Proper("message", s[i])
      BY <2>2, Puts
    <2> HIDE DEF s
    <2>4. Store("message", s)
      BY <2>1 DEF s
    <2>5. QED
      BY <1>1, <2>1, <2>3, <2>4, MessageStore
  <1>3. CASE Stop
    <2>1. /\ Store("message", <<Put("armed", FALSE)>>)
          /\ UNCHANGED <<mem, apc, at, mop, mpc, looks>> /\ mpc = "idle"
      BY <1>3 DEF Stop, message, audio, history, looks
    <2>2. QED
      BY <1>1, <2>1, Puts, ProperPuts, MessageStore
  <1>4. ASSUME NEW op \in {"take", "prepare"}, Disarm(op)
        PROVE  IInv'
    <2>1. /\ Store("message", <<Put("armed", FALSE)>>)
          /\ UNCHANGED <<mem, apc, at, looks>> /\ mop' = op /\ mpc' = "wait"
      BY <1>4 DEF Disarm, audio, history, looks
    <2>2. QED
      BY <1>1, <2>1, Puts, ProperPuts, MessageStore
  <1>5. CASE Spin \/ UNCHANGED vars
    <2>1. UNCHANGED <<mem, stores, mop, at, mpc, apc, early>>
      BY <1>5 DEF Spin, vars, message, audio, history, looks
    <2>2. QED
      BY <1>0, <1>1, <2>1, MemoryStays DEF IInv, Disarmed, Raised, ExclusiveWhenSeen, Collision
  (* The message thread sees `writing` down with its own stores in memory:  *)
  (* no block that looked late is appending, and `armed` is down.           *)
  <1>6. CASE AwaitBlock
    <2>1. /\ mpc = "wait" /\ mpc' = mop /\ ~Load("message", "writing")
          /\ Look("message") /\ UNCHANGED <<mem, stores, mop, at, apc>>
      BY <1>6 DEF AwaitBlock, audio
    <2>2. (early'["message"] <=> stores["message"] # <<>>) /\ early'["audio"] = early["audio"]
      BY <1>1, <2>1, LookOK DEF Threads
    <2>3. ASSUME ~early'["message"]
          PROVE  stores["message"] = <<>> /\ mem["writing"] # TRUE /\ mem["armed"] = FALSE
      <3>1. stores["message"] = <<>>
        BY <2>2, <2>3
      <3>2. mem["writing"] # TRUE
        BY <2>1, <3>1, LoadMemory
      <3>3. mem["armed"] = FALSE
        BY <1>1, <2>1, <3>1 DEF Disarmed
      <3>4. QED
        BY <3>1, <3>2, <3>3
    <2>4. MemoryOK'
      BY <1>1, <2>1, MemoryStays
    <2>5. Disarmed'
      BY <1>1, <2>1, <2>3 DEF Disarmed
    <2>6. Raised' /\ ExclusiveWhenSeen'
      BY <1>1, <2>1, <2>2, <2>3 DEF Raised, ExclusiveWhenSeen, Collision
    <2>7. QED
      BY <1>0, <2>4, <2>5, <2>6 DEF IInv
  <1>7. CASE TakeOut
    <2>1. /\ Store("message", <<Put("written", 0), Put("full", FALSE)>>)
          /\ UNCHANGED <<mem, apc, at, mop, looks>> /\ mpc' = "idle"
      BY <1>7 DEF TakeOut, audio, history, looks
    <2>2. Proper("message", Put("written", 0)) /\ Proper("message", Put("full", FALSE))
      BY <1>1, ProperPuts
    <2> DEFINE s == <<Put("written", 0), Put("full", FALSE)>>
    <2>3. s \in Seq(Entries) /\ \A i \in 1 .. Len(s) : Proper("message", s[i])
      BY <2>2, Puts
    <2> HIDE DEF s
    <2>4. Store("message", s)
      BY <2>1 DEF s
    <2>5. QED
      BY <1>1, <2>1, <2>3, <2>4, MessageStore
  <1>8. CASE Resize
    <2>1. /\ Store("message", <<Put("written", 0), Put("full", FALSE), Put("start", -1)>>)
          /\ UNCHANGED <<mem, apc, at, mop, looks>> /\ mpc' = "idle"
      BY <1>8 DEF Resize, audio, history, looks
    <2>2. /\ Proper("message", Put("written", 0)) /\ Proper("message", Put("full", FALSE))
          /\ Proper("message", Put("start", -1))
      BY <1>1, ProperPuts
    <2> DEFINE s == <<Put("written", 0), Put("full", FALSE), Put("start", -1)>>
    <2>3. s \in Seq(Entries) /\ \A i \in 1 .. Len(s) : Proper("message", s[i])
      BY <2>2, Puts
    <2> HIDE DEF s
    <2>4. Store("message", s)
      BY <2>1 DEF s
    <2>5. QED
      BY <1>1, <2>1, <2>3, <2>4, MessageStore
  <1>9. CASE CheckArmed
    <2>1. UNCHANGED <<mem, stores, mop, at, mpc, early>> /\ apc' = "raise"
      BY <1>9 DEF CheckArmed, message, history, looks
    <2>2. QED
      BY <1>0, <1>1, <2>1, MemoryStays DEF IInv, Disarmed, Raised, ExclusiveWhenSeen, Collision
  <1>10. CASE RaiseWriting
    <2>1. /\ Store("audio", <<Put("writing", TRUE)>>)
          /\ UNCHANGED <<mem, mpc, mop, at, early>> /\ apc' = "recheck"
      BY <1>10 DEF RaiseWriting, message, history, looks
    <2>2. Proper("audio", Put("writing", TRUE)) /\ Put("writing", TRUE) \in Entries
      BY <1>1, ProperPuts DEF Proper
    <2>3. MemoryOK' /\ Disarmed'
      BY <1>1, <2>1, <2>2, Puts, AudioStore
    <2>4. Raised' /\ ExclusiveWhenSeen'
      BY <1>1, <2>1, <2>2, StoreLast DEF Raised, ExclusiveWhenSeen, Collision
    <2>5. QED
      BY <1>0, <2>3, <2>4 DEF IInv
  (* The block sees `armed` up with `writing` in memory: a take() or        *)
  (* prepare() that looked late is not past its wait.                       *)
  <1>11. CASE Recheck
    <2>1. /\ apc = "recheck" /\ at' = Load("audio", "written")
          /\ Look("audio") /\ UNCHANGED <<mem, mpc, mop>>
      BY <1>11 DEF Recheck, message
    <2>2. at' \in Int
      BY <1>1, <2>1, LoadWritten
    <2>3. (early'["audio"] <=> stores["audio"] # <<>>) /\ early'["message"] = early["message"]
      BY <1>1, <2>1, LookOK DEF Threads
    <2>4. CASE ~Load("audio", "armed") /\ apc' = "lower" /\ UNCHANGED stores
      <3>1. MemoryOK'
        BY <1>1, <2>1, <2>2, <2>4, MemoryStays
      <3>2. Disarmed'
        BY <1>1, <2>1, <2>3, <2>4 DEF Disarmed
      <3>3. QED
        BY <1>0, <2>4, <3>1, <3>2 DEF IInv, Raised, ExclusiveWhenSeen, Collision
    <2>5. CASE Load("audio", "armed") /\ apc' = "append" /\ Store("audio", Stamped)
      <3>1. /\ Stamped \in Seq(Entries)
            /\ \A i \in 1 .. Len(Stamped) : Proper("audio", Stamped[i])
            /\ \A i \in 1 .. Len(Stamped) : Stamped[i].atomic # "writing"
        <4>1. Proper("audio", Put("start", 0))
          BY <1>1, ProperPuts
        <4>2. CASE Stamped = <<>>
          BY <4>2
        <4>3. CASE Stamped = <<Put("start", 0)>>
          <5>1. Put("start", 0).atomic = "start" /\ Put("start", 0) \in Entries
            BY <4>1 DEF Put, Proper
          <5>2. QED
            BY <4>1, <4>3, <5>1
        <4>4. QED
          BY <4>2, <4>3 DEF Stamped
      <3>2. MemoryOK' /\ Disarmed'
        BY <2>1, <2>2, <2>3, <2>5, <3>1, AudioStore
      <3>3. ASSUME ~early'["audio"]
            PROVE  /\ mem["armed"] # FALSE /\ mem["writing"] = TRUE
                   /\ stores'["audio"] = Stamped
        <4>1. stores["audio"] = <<>>
          BY <2>3, <3>3
        <4>2. mem["armed"] # FALSE
          BY <2>5, <4>1, LoadMemory
        <4>3. mem["writing"] = TRUE
          BY <1>1, <2>1, <4>1 DEF Raised
        <4>4. stores' = [stores EXCEPT !["audio"] = stores["audio"] \o Stamped]
          BY <2>5 DEF Store
        <4>5. stores["audio"] \o Stamped = Stamped
          BY <3>1, <4>1
        <4>6. stores'["audio"] = Stamped
          BY <1>1, <4>4, <4>5 DEF MemoryOK
        <4>7. QED
          BY <4>2, <4>3, <4>6
      <3>4. Raised'
        BY <2>1, <2>5, <3>1, <3>3 DEF Raised
      <3>5. ExclusiveWhenSeen'
        <4>1. ASSUME mpc \in {"take", "prepare"}, ~early["message"]
              PROVE  mem["armed"] = FALSE
          BY <1>1, <4>1 DEF Disarmed
        <4>2. QED
          BY <2>1, <2>3, <3>3, <4>1 DEF ExclusiveWhenSeen, Collision
      <3>6. QED
        BY <1>0, <3>2, <3>4, <3>5 DEF IInv
    <2>6. QED
      BY <1>11, <2>4, <2>5 DEF Recheck
  <1>12. CASE AppendBlock
    <2> DEFINE n    == MinOf(BlockLen, Capacity - at)
               grew == IF n > 0 THEN <<Put("written", at + n)>> ELSE <<>>
               stop == IF at + n >= Capacity
                       THEN <<Put("full", TRUE), Put("armed", FALSE)>> ELSE <<>>
    <2>1. /\ Store("audio", grew \o stop)
          /\ UNCHANGED <<mem, mpc, mop, at, early>> /\ apc' = "lower"
      BY <1>12 DEF AppendBlock, message, looks
    <2>2. at + n \in Int
      BY <1>1, InputRecorderAssumption DEF MinOf
    <2> HIDE DEF n
    <2>3. /\ Proper("audio", Put("written", at + n)) /\ Proper("audio", Put("full", TRUE))
          /\ Proper("audio", Put("armed", FALSE))
      BY <1>1, <2>2, ProperPuts
    <2> HIDE DEF grew, stop
    <2>4. ASSUME NEW s, s = <<>>
          PROVE  s \in Seq(Entries) /\ \A i \in 1 .. Len(s) : Proper("audio", s[i])
      BY <2>4
    <2>5. grew \in Seq(Entries) /\ \A i \in 1 .. Len(grew) : Proper("audio", grew[i])
      <3>1. CASE grew = <<>>
        BY <2>4, <3>1
      <3>2. CASE grew = <<Put("written", at + n)>>
        <4>1. /\ <<Put("written", at + n)>> \in Seq(Entries)
              /\ \A i \in 1 .. Len(<<Put("written", at + n)>>) :
                   Proper("audio", <<Put("written", at + n)>>[i])
          BY <2>3, Puts
        <4>2. QED
          BY <3>2, <4>1
      <3>3. QED
        BY <3>1, <3>2 DEF grew
    <2>6. stop \in Seq(Entries) /\ \A i \in 1 .. Len(stop) : Proper("audio", stop[i])
      <3>1. CASE stop = <<>>
        BY <2>4, <3>1
      <3>2. CASE stop = <<Put("full", TRUE), Put("armed", FALSE)>>
        <4>1. /\ <<Put("full", TRUE), Put("armed", FALSE)>> \in Seq(Entries)
              /\ \A i \in 1 .. Len(<<Put("full", TRUE), Put("armed", FALSE)>>) :
                   Proper("audio", <<Put("full", TRUE), Put("armed", FALSE)>>[i])
          BY <2>3, Puts
        <4>2. QED
          BY <3>2, <4>1
      <3>3. QED
        BY <3>1, <3>2 DEF stop
    <2>7. MemoryOK' /\ Disarmed'
      BY <1>1, <2>1, <2>5, <2>6, ConcatProper, AudioStore
    <2>8. QED
      BY <1>0, <2>1, <2>7 DEF IInv, Raised, ExclusiveWhenSeen, Collision
  <1>13. CASE LowerWriting
    <2>1. /\ Store("audio", <<Put("writing", FALSE)>>)
          /\ UNCHANGED <<mem, mpc, mop, at, early>> /\ apc' = "idle"
      BY <1>13 DEF LowerWriting, message, history, looks
    <2>2. MemoryOK' /\ Disarmed'
      BY <1>1, <2>1, Puts, ProperPuts, AudioStore
    <2>3. QED
      BY <1>0, <2>1, <2>2 DEF IInv, Raised, ExclusiveWhenSeen, Collision
  <1>14. ASSUME NEW t \in Threads, Flush(t)
         PROVE  IInv'
    BY <1>14, FlushIInv
  <1>15. QED
    BY <1>2, <1>3, <1>4, <1>5, <1>6, <1>7, <1>8, <1>9, <1>10, <1>11, <1>12, <1>13, <1>14
    DEF Next, MessageNext, AudioNext

-----------------------------------------------------------------------------
(* InputRecorder.cpp:53-54, as far as it is so: take() reads, and prepare()  *)
(* replaces, a buffer that a block is still appending to only when one of    *)
(* the two looks at the other's flag overtook the store of its own.         *)
THEOREM SpecExclusiveWhenSeen == Spec => []ExclusiveWhenSeen
  <1>1. Init => IInv
    BY InitIInv
  <1>2. IInv /\ [Next]_vars => IInv'
    BY NextIInv
  <1>3. IInv => ExclusiveWhenSeen
    BY DEF IInv
  <1>4. QED
    BY <1>1, <1>2, <1>3, PTL DEF Spec

-----------------------------------------------------------------------------
(* What take() hands out. The stores under way, by what they are of. *)

Has(q, a) == \E i \in 1 .. Len(q) : q[i].atomic = a

Raises(e)  == e.atomic = "armed" /\ e.value # FALSE
HasArm(q)  == \E i \in 1 .. Len(q) : Raises(q[i])

WrittenFirst(q) ==
  \A i, j \in 1 .. Len(q) : i < j /\ q[i].atomic = "writing" => q[j].atomic # "written"

ArmLast(q) ==
  \A i, j \in 1 .. Len(q) :
    i < j /\ Raises(q[i]) => q[j].atomic # "written" /\ ~Raises(q[j])

AllWritten(q, v) == \A i \in 1 .. Len(q) : q[i].atomic = "written" => q[i].value = v

(* The buffer's length is stored before the flag that covers it comes down,  *)
(* and reset before the recorder is armed.                                  *)
InOrder ==
  /\ WrittenFirst(stores["audio"])
  /\ restarted \/ ArmLast(stores["message"])
  /\ AllWritten(stores["message"], 0)
  /\ Has(stores["audio"], "written") => mem["writing"] = TRUE /\ apc # "append"

(* Between a take that has been taken, or that no block can reach any more,  *)
(* and the next one that is armed, the audio thread has nothing to say about *)
(* the buffer.                                                              *)
Quiet ==
  /\ collected \/ (HasArm(stores["message"]) /\ ~restarted) =>
       mem["armed"] = FALSE /\ apc # "append" /\ ~Has(stores["audio"], "written")
  /\ collected => ~HasArm(stores["message"])
  /\ mpc \in {"take", "prepare"} => ~Has(stores["audio"], "written")

(* From start() to take(): the buffer begins with the take, and `written` is *)
(* its length as soon as every store of it has arrived.                     *)
Arming == recorded = 0 /\ (mem["written"] = 0 \/ Has(stores["message"], "written"))

Running ==
  /\ ~Has(stores["message"], "written")
  /\ AllWritten(stores["audio"], recorded)
  /\ Has(stores["audio"], "written") \/ mem["written"] = recorded
  /\ apc = "append" => at = recorded

TakeKept ==
  ~collected /\ ~restarted =>
    /\ recorded \in 0 .. Capacity
    /\ \A i \in 1 .. recorded : buffer[i] = take
    /\ IF HasArm(stores["message"]) THEN Arming ELSE Running
    /\ mpc = "take" => count = recorded

Kept    == InOrder /\ Quiet /\ TakeKept
TakeInv == IInv /\ (overtook \/ Kept)

LEMMA Nothing == /\ \A a : ~Has(<<>>, a)
                 /\ ~HasArm(<<>>) /\ WrittenFirst(<<>>) /\ ArmLast(<<>>)
                 /\ \A v : AllWritten(<<>>, v)
  BY DEF Has, HasArm, WrittenFirst, ArmLast, AllWritten

LEMMA Tails ==
  ASSUME NEW q \in Seq(Entries), NEW r \in Seq(Entries), Len(q) \in Nat \ {0},
         Len(r) = Len(q) - 1, \A i \in 1 .. Len(r) : r[i] = q[i + 1]
  PROVE  /\ \A a : Has(q, a) <=> q[1].atomic = a \/ Has(r, a)
         /\ HasArm(q) <=> Raises(q[1]) \/ HasArm(r)
         /\ WrittenFirst(q) => WrittenFirst(r) /\ (q[1].atomic = "writing" => ~Has(r, "written"))
         /\ ArmLast(q) =>
              ArmLast(r) /\ (Raises(q[1]) => ~Has(r, "written") /\ ~HasArm(r))
         /\ \A v : AllWritten(q, v) =>
              AllWritten(r, v) /\ (q[1].atomic = "written" => q[1].value = v)
<1>1. /\ \A i \in 1 .. Len(r) : i + 1 \in 1 .. Len(q) /\ 1 < i + 1
      /\ \A i \in 1 .. Len(q) : i = 1 \/ i - 1 \in 1 .. Len(r)
      /\ 1 \in 1 .. Len(q)
  OBVIOUS
<1>2. \A i \in 1 .. Len(q) : i = 1 \/ (i - 1 \in 1 .. Len(r) /\ q[i] = r[i - 1])
  BY <1>1
<1>3. \A a : Has(q, a) <=> q[1].atomic = a \/ Has(r, a) BY <1>1, <1>2 DEF Has
<1>4. HasArm(q) <=> Raises(q[1]) \/ HasArm(r) BY <1>1, <1>2 DEF HasArm
<1>5. \A i, j \in 1 .. Len(r) : i < j => i + 1 < j + 1 OBVIOUS
<1>6. WrittenFirst(q) => WrittenFirst(r) /\ (q[1].atomic = "writing" => ~Has(r, "written"))
  BY <1>1, <1>5 DEF WrittenFirst, Has
<1>7. ArmLast(q) => ArmLast(r) /\ (Raises(q[1]) => ~Has(r, "written") /\ ~HasArm(r))
  <2> SUFFICES ASSUME ArmLast(q)
               PROVE  ArmLast(r) /\ (Raises(q[1]) => ~Has(r, "written") /\ ~HasArm(r))
    OBVIOUS
  <2>1. \A i, j \in 1 .. Len(r) :
          i < j /\ Raises(q[i + 1]) => q[j + 1].atomic # "written" /\ ~Raises(q[j + 1])
    BY <1>1, <1>5 DEF ArmLast
  <2>2. \A j \in 1 .. Len(r) :
          Raises(q[1]) => q[j + 1].atomic # "written" /\ ~Raises(q[j + 1])
    BY <1>1 DEF ArmLast
  <2> QED BY <2>1, <2>2 DEF ArmLast, Has, HasArm
<1>8. \A v : AllWritten(q, v) =>
         AllWritten(r, v) /\ (q[1].atomic = "written" => q[1].value = v)
  BY <1>1 DEF AllWritten
<1> QED BY <1>3, <1>4, <1>6, <1>7, <1>8

LEMMA Joins ==
  ASSUME NEW q \in Seq(Entries), NEW s \in Seq(Entries), NEW r \in Seq(Entries),
         Len(r) = Len(q) + Len(s), \A i \in 1 .. Len(q) : r[i] = q[i],
         \A i \in 1 .. Len(s) : r[Len(q) + i] = s[i]
  PROVE  /\ \A a : Has(r, a) <=> Has(q, a) \/ Has(s, a)
         /\ HasArm(r) <=> HasArm(q) \/ HasArm(s)
         /\ WrittenFirst(q) /\ WrittenFirst(s) /\ (Has(q, "writing") => ~Has(s, "written"))
              => WrittenFirst(r)
         /\ ArmLast(q) /\ ArmLast(s) /\ (HasArm(q) => ~HasArm(s) /\ ~Has(s, "written"))
              => ArmLast(r)
         /\ \A v : AllWritten(q, v) /\ AllWritten(s, v) => AllWritten(r, v)
<1>1. Len(q) \in Nat /\ Len(s) \in Nat OBVIOUS
<1>2. \A i \in 1 .. Len(r) : \/ i \in 1 .. Len(q) /\ r[i] = q[i]
                            \/ /\ i - Len(q) \in 1 .. Len(s) /\ i > Len(q)
                               /\ r[i] = s[i - Len(q)]
  <2> TAKE i \in 1 .. Len(r)
  <2>1. CASE i <= Len(q) BY <1>1, <2>1
  <2>2. CASE i > Len(q)
    <3>1. i - Len(q) \in 1 .. Len(s) /\ Len(q) + (i - Len(q)) = i BY <1>1, <2>2
    <3> QED BY <2>2, <3>1
  <2> QED BY <1>1, <2>1, <2>2
<1>3. /\ \A i \in 1 .. Len(q) : i \in 1 .. Len(r)
      /\ \A i \in 1 .. Len(s) : Len(q) + i \in 1 .. Len(r)
  BY <1>1
<1>4. \A a : Has(r, a) <=> Has(q, a) \/ Has(s, a) BY <1>2, <1>3 DEF Has
<1>5. HasArm(r) <=> HasArm(q) \/ HasArm(s) BY <1>2, <1>3 DEF HasArm
<1>6. ASSUME WrittenFirst(q), WrittenFirst(s), Has(q, "writing") => ~Has(s, "written")
      PROVE  WrittenFirst(r)
  <2> SUFFICES ASSUME NEW i \in 1 .. Len(r), NEW j \in 1 .. Len(r), i < j,
                      r[i].atomic = "writing", r[j].atomic = "written"
               PROVE  FALSE
    BY DEF WrittenFirst
  <2>1. CASE j \in 1 .. Len(q)
    <3>1. i \in 1 .. Len(q) BY <1>1, <2>1
    <3> QED BY <1>6, <2>1, <3>1 DEF WrittenFirst
  <2>2. CASE j - Len(q) \in 1 .. Len(s) /\ r[j] = s[j - Len(q)]
    <3>1. CASE i \in 1 .. Len(q) /\ r[i] = q[i] BY <1>6, <2>2, <3>1 DEF Has
    <3>2. CASE i - Len(q) \in 1 .. Len(s) /\ r[i] = s[i - Len(q)]
      <4>1. i - Len(q) < j - Len(q) BY <1>1
      <4> QED BY <1>6, <2>2, <3>2, <4>1 DEF WrittenFirst
    <3> QED BY <1>2, <3>1, <3>2
  <2> QED BY <1>2, <2>1, <2>2
<1>7. ASSUME ArmLast(q), ArmLast(s), HasArm(q) => ~HasArm(s) /\ ~Has(s, "written")
      PROVE  ArmLast(r)
  <2> SUFFICES ASSUME NEW i \in 1 .. Len(r), NEW j \in 1 .. Len(r), i < j, Raises(r[i])
               PROVE  r[j].atomic # "written" /\ ~Raises(r[j])
    BY DEF ArmLast
  <2>1. CASE j \in 1 .. Len(q)
    <3>1. i \in 1 .. Len(q) BY <1>1, <2>1
    <3> QED BY <1>7, <2>1, <3>1 DEF ArmLast
  <2>2. CASE j - Len(q) \in 1 .. Len(s) /\ r[j] = s[j - Len(q)]
    <3>1. CASE i \in 1 .. Len(q) /\ r[i] = q[i] BY <1>7, <2>2, <3>1 DEF Has, HasArm
    <3>2. CASE i - Len(q) \in 1 .. Len(s) /\ r[i] = s[i - Len(q)]
      <4>1. i - Len(q) < j - Len(q) BY <1>1
      <4> QED BY <1>7, <2>2, <3>2, <4>1 DEF ArmLast
    <3> QED BY <1>2, <3>1, <3>2
  <2> QED BY <1>2, <2>1, <2>2
<1>8. \A v : AllWritten(q, v) /\ AllWritten(s, v) => AllWritten(r, v)
  BY <1>2 DEF AllWritten
<1> QED BY <1>4, <1>5, <1>6, <1>7, <1>8
LEMMA Stored ==
  ASSUME MemoryOK, NEW t \in Threads, NEW s \in Seq(Entries), Store(t, s)
  PROVE  /\ \A u \in Threads \ {t} : stores'[u] = stores[u]
         /\ \A a : Has(stores'[t], a) <=> Has(stores[t], a) \/ Has(s, a)
         /\ HasArm(stores'[t]) <=> HasArm(stores[t]) \/ HasArm(s)
         /\ WrittenFirst(stores[t]) /\ WrittenFirst(s) /\ (Has(stores[t], "writing") => ~Has(s, "written"))
              => WrittenFirst(stores'[t])
         /\ ArmLast(stores[t]) /\ ArmLast(s) /\ (HasArm(stores[t]) => ~HasArm(s) /\ ~Has(s, "written"))
              => ArmLast(stores'[t])
         /\ \A v : AllWritten(stores[t], v) /\ AllWritten(s, v) => AllWritten(stores'[t], v)
<1>1. /\ stores[t] \in Seq(Entries) /\ stores'[t] \in Seq(Entries)
      /\ Len(stores'[t]) = Len(stores[t]) + Len(s)
      /\ \A i \in 1 .. Len(stores[t]) : stores'[t][i] = stores[t][i]
      /\ \A i \in 1 .. Len(s) : stores'[t][Len(stores[t]) + i] = s[i]
      /\ \A u \in Threads \ {t} : stores'[u] = stores[u]
  BY StoreAppends DEF MemoryOK
<1> QED BY <1>1, Joins

LEMMA Flushed ==
  ASSUME MemoryOK, NEW t \in Threads, Flush(t)
  PROVE  /\ \A u \in Threads \ {t} : stores'[u] = stores[u]
         /\ stores[t] # <<>> /\ Proper(t, stores[t][1]) /\ mem \in [Atomics -> Values]
         /\ mem' = [mem EXCEPT ![stores[t][1].atomic] = stores[t][1].value]
         /\ \A a : Has(stores[t], a) <=> stores[t][1].atomic = a \/ Has(stores'[t], a)
         /\ HasArm(stores[t]) <=> Raises(stores[t][1]) \/ HasArm(stores'[t])
         /\ WrittenFirst(stores[t]) =>
              /\ WrittenFirst(stores'[t])
              /\ stores[t][1].atomic = "writing" => ~Has(stores'[t], "written")
         /\ ArmLast(stores[t]) =>
              /\ ArmLast(stores'[t])
              /\ Raises(stores[t][1]) => ~Has(stores'[t], "written") /\ ~HasArm(stores'[t])
         /\ \A v : AllWritten(stores[t], v) =>
              /\ AllWritten(stores'[t], v)
              /\ stores[t][1].atomic = "written" => stores[t][1].value = v
<1>1. /\ stores[t] \in Seq(Entries) /\ stores[t] # <<>> /\ Len(stores[t]) \in Nat \ {0}
      /\ stores'[t] \in Seq(Entries) /\ Len(stores'[t]) = Len(stores[t]) - 1
      /\ \A i \in 1 .. Len(stores'[t]) : stores'[t][i] = stores[t][i + 1]
      /\ \A u \in Threads \ {t} : stores'[u] = stores[u]
      /\ mem' = [mem EXCEPT ![stores[t][1].atomic] = stores[t][1].value]
  BY FlushMemory, EmptySeq DEF MemoryOK
<1>2. Proper(t, stores[t][1]) /\ mem \in [Atomics -> Values] BY <1>1 DEF MemoryOK
<1> QED BY <1>1, <1>2, Tails

(* What the code stores, as far as it matters here.                         *)
LEMMA OnePut ==
  ASSUME NEW e \in Entries
  PROVE  /\ <<e>> \in Seq(Entries)
         /\ \A a : Has(<<e>>, a) <=> e.atomic = a
         /\ HasArm(<<e>>) <=> Raises(e)
         /\ WrittenFirst(<<e>>) /\ ArmLast(<<e>>)
         /\ \A v : AllWritten(<<e>>, v) <=> (e.atomic = "written" => e.value = v)
<1>1. <<e>> \in Seq(Entries) /\ Len(<<e>>) = 1 /\ <<e>>[1] = e /\ 1 .. 1 = {1} OBVIOUS
<1>2. \A i, j \in 1 .. 1 : ~(i < j) OBVIOUS
<1> QED BY <1>1, <1>2 DEF Has, HasArm, WrittenFirst, ArmLast, AllWritten

LEMMA ArmedDown ==
  LET s == <<Put("armed", FALSE)>>
  IN  /\ s \in Seq(Entries) /\ ~Has(s, "written") /\ ~HasArm(s) /\ ArmLast(s) /\ AllWritten(s, 0)
<1>1. Put("armed", FALSE) \in Entries BY DEF Put, Entries, Atomics, Values
<1>2. Put("armed", FALSE).atomic = "armed" /\ ~Raises(Put("armed", FALSE)) BY DEF Put, Raises
<1> QED BY <1>1, <1>2, OnePut

LEMMA ResetPuts ==
  ASSUME NEW s, \/ s = <<Put("written", 0), Put("full", FALSE)>>
                \/ s = <<Put("written", 0), Put("full", FALSE), Put("start", -1)>>
  PROVE  s \in Seq(Entries) /\ ~HasArm(s) /\ ArmLast(s) /\ AllWritten(s, 0)
<1> DEFINE e1 == Put("written", 0)
           e2 == Put("full", FALSE)
           e3 == Put("start", -1)
<1>1. e1 \in Entries /\ e2 \in Entries /\ e3 \in Entries
  BY DEF Put, Entries, Atomics, Values
<1>2. /\ ~Raises(e1) /\ ~Raises(e2) /\ ~Raises(e3)
      /\ e1.value = 0 /\ e2.atomic = "full" /\ e3.atomic = "start"
  BY DEF Put, Raises
<1>3. s = <<e1, e2>> \/ s = <<e1, e2, e3>> OBVIOUS
<1> HIDE DEF e1, e2, e3
<1>4. s \in Seq(Entries) /\ \A i \in 1 .. Len(s) : s[i] \in {e1, e2, e3}
  <2>1. /\ <<e1, e2>> \in Seq(Entries)
        /\ \A i \in 1 .. Len(<<e1, e2>>) : <<e1, e2>>[i] \in {e1, e2, e3}
    BY <1>1
  <2>2. /\ <<e1, e2, e3>> \in Seq(Entries)
        /\ \A i \in 1 .. Len(<<e1, e2, e3>>) : <<e1, e2, e3>>[i] \in {e1, e2, e3}
    BY <1>1
  <2> QED BY <1>3, <2>1, <2>2, Zenon
<1>5. \A i \in 1 .. Len(s) : ~Raises(s[i]) /\ (s[i].atomic = "written" => s[i].value = 0)
  BY <1>2, <1>4
<1> QED BY <1>4, <1>5 DEF HasArm, ArmLast, AllWritten

LEMMA StartPuts ==
  ASSUME NEW s, s = <<Put("written", 0), Put("full", FALSE), Put("start", -1), Put("armed", TRUE)>>
  PROVE  s \in Seq(Entries) /\ Has(s, "written") /\ HasArm(s) /\ ArmLast(s) /\ AllWritten(s, 0)
<1> DEFINE e1 == Put("written", 0)
           e2 == Put("full", FALSE)
           e3 == Put("start", -1)
           e4 == Put("armed", TRUE)
<1>1. e1 \in Entries /\ e2 \in Entries /\ e3 \in Entries /\ e4 \in Entries
  BY DEF Put, Entries, Atomics, Values
<1>2. /\ ~Raises(e1) /\ ~Raises(e2) /\ ~Raises(e3) /\ Raises(e4) /\ e4.atomic = "armed"
      /\ e1.value = 0 /\ e1.atomic = "written" /\ e2.atomic = "full" /\ e3.atomic = "start"
  BY DEF Put, Raises
<1> HIDE DEF e1, e2, e3, e4
<1>3. /\ s \in Seq(Entries) /\ Len(s) = 4
      /\ s[1] = e1 /\ s[2] = e2 /\ s[3] = e3 /\ s[4] = e4
  <2>1. s = <<e1, e2, e3, e4>> BY DEF e1, e2, e3, e4
  <2>2. /\ <<e1, e2, e3, e4>> \in Seq(Entries) /\ Len(<<e1, e2, e3, e4>>) = 4
        /\ <<e1, e2, e3, e4>>[1] = e1 /\ <<e1, e2, e3, e4>>[2] = e2
        /\ <<e1, e2, e3, e4>>[3] = e3 /\ <<e1, e2, e3, e4>>[4] = e4
    BY <1>1
  <2> QED BY <2>1, <2>2, Zenon
<1>4. \A i \in 1 .. Len(s) : i = 1 \/ i = 2 \/ i = 3 \/ i = 4 BY <1>3
<1>5. \A i \in 1 .. Len(s) : Raises(s[i]) => i = 4 BY <1>2, <1>3, <1>4
<1>6. ASSUME NEW i \in 1 .. Len(s), s[i].atomic = "written" PROVE s[i].value = 0
  <2>1. i = 1 BY <1>2, <1>3, <1>4, <1>6
  <2> QED BY <1>2, <1>3, <2>1
<1>7. ArmLast(s)
  <2> SUFFICES ASSUME NEW i \in 1 .. Len(s), NEW j \in 1 .. Len(s), i < j, Raises(s[i]) PROVE FALSE
    BY DEF ArmLast
  <2>1. i = 4 BY <1>5
  <2> QED BY <1>3, <2>1
<1>8. Has(s, "written") /\ HasArm(s)
  <2>1. 1 \in 1 .. Len(s) /\ 4 \in 1 .. Len(s) BY <1>3
  <2> QED BY <1>2, <1>3, <2>1 DEF Has, HasArm
<1> QED BY <1>3, <1>6, <1>7, <1>8 DEF AllWritten

-----------------------------------------------------------------------------
LEMMA InitTakeInv == Init => TakeInv
<1> SUFFICES ASSUME Init PROVE TakeInv OBVIOUS
<1>1. /\ stores["message"] = <<>> /\ stores["audio"] = <<>> /\ mem["armed"] = FALSE
      /\ collected = TRUE /\ apc = "idle" /\ mpc = "idle"
  BY DEF Init, Threads, Atomics
<1> QED BY <1>1, InitIInv, Nothing DEF TakeInv, Kept, InOrder, Quiet, TakeKept

LEMMA FlushTakeInv ==
  ASSUME IInv, Kept, NEW t \in Threads, Flush(t)
  PROVE  Kept'
<1>0. MemoryOK /\ InOrder /\ Quiet /\ TakeKept BY DEF Kept, IInv
<1>1. UNCHANGED <<mpc, apc, at, count, buffer, take, recorded, collected, restarted>>
  BY DEF Flush, message, audio, history
<1> DEFINE e == stores[t][1]
<1>2. /\ mem' = [mem EXCEPT ![e.atomic] = e.value] /\ mem \in [Atomics -> Values]
      /\ Proper(t, e) /\ stores[t] # <<>> /\ e.atomic \in Atomics
  BY <1>0, Flushed DEF Proper, Entries
<1>3. \A a \in Atomics : mem'[a] = IF e.atomic = a THEN e.value ELSE mem[a] BY <1>2
<1>4. CASE t = "message"
  <2>1. stores'["audio"] = stores["audio"] BY <1>0, <1>4, Flushed DEF Threads
  <2> DEFINE q == stores["message"]
             r == stores'["message"]
  <2>2. /\ \A a : Has(q, a) <=> e.atomic = a \/ Has(r, a)
        /\ HasArm(q) <=> Raises(e) \/ HasArm(r)
        /\ restarted \/ (ArmLast(r) /\ (Raises(e) => ~Has(r, "written") /\ ~HasArm(r)))
        /\ AllWritten(r, 0) /\ (e.atomic = "written" => e.value = 0)
    BY <1>0, <1>4, Flushed DEF InOrder
  <2>3. e.atomic # "writing" BY <1>2, <1>4 DEF Proper
  <2> HIDE DEF e, q, r
  <2>4. InOrder'
    <3>1. mem'["writing"] = mem["writing"] BY <1>3, <2>3 DEF Atomics
    <3> QED BY <1>0, <1>1, <2>1, <2>2, <3>1 DEF InOrder, r
  <2>5. Quiet'
    <3>1. collected \/ (HasArm(r) /\ ~restarted) => mem'["armed"] = FALSE
      <4>1. collected \/ (HasArm(r) /\ ~restarted) => mem["armed"] = FALSE /\ ~Raises(e)
        BY <1>0, <2>2 DEF Quiet, q
      <4> QED BY <1>3, <4>1 DEF Raises, Atomics
    <3> QED BY <1>0, <1>1, <2>1, <2>2, <3>1 DEF Quiet, q, r
  <2>6. TakeKept'
    <3> SUFFICES ASSUME ~collected, ~restarted PROVE IF HasArm(r) THEN Arming' ELSE Running'
      BY <1>0, <1>1 DEF TakeKept, r
    <3>1. mem'["written"] = IF e.atomic = "written" THEN 0 ELSE mem["written"]
      BY <1>3, <2>2 DEF Atomics
    <3>2. CASE HasArm(r)
      <4>1. Arming BY <1>0, <2>2, <3>2 DEF TakeKept, q
      <4> QED BY <1>1, <2>2, <3>1, <3>2, <4>1 DEF Arming, q, r
    <3>3. CASE ~HasArm(r) /\ HasArm(q)
      <4>1. Raises(e) /\ ~Has(r, "written") /\ e.atomic = "armed" BY <2>2, <3>3 DEF Raises
      <4>2. Arming /\ ~Has(stores["audio"], "written") /\ apc # "append"
        BY <1>0, <3>3 DEF TakeKept, Quiet, q
      <4>3. mem'["written"] = 0 /\ recorded = 0 BY <2>2, <3>1, <4>1, <4>2 DEF Arming, q
      <4>4. AllWritten(stores["audio"], recorded) BY <4>2 DEF Has, AllWritten
      <4> QED BY <1>1, <2>1, <3>3, <4>1, <4>2, <4>3, <4>4 DEF Running, r
    <3>4. CASE ~HasArm(r) /\ ~HasArm(q)
      <4>1. Running BY <1>0, <3>4 DEF TakeKept, q
      <4> QED BY <1>1, <2>1, <2>2, <3>1, <3>4, <4>1 DEF Running, q, r
    <3> QED BY <3>2, <3>3, <3>4
  <2> QED BY <2>4, <2>5, <2>6 DEF Kept
<1>5. CASE t = "audio"
  <2>1. stores'["message"] = stores["message"] BY <1>0, <1>5, Flushed DEF Threads
  <2> DEFINE q == stores["audio"]
             r == stores'["audio"]
  <2>2. /\ \A a : Has(q, a) <=> e.atomic = a \/ Has(r, a)
        /\ WrittenFirst(r) /\ (e.atomic = "writing" => ~Has(r, "written"))
        /\ \A v : AllWritten(q, v) => AllWritten(r, v) /\ (e.atomic = "written" => e.value = v)
    BY <1>0, <1>5, Flushed DEF InOrder
  <2>3. e.atomic = "armed" => e.value = FALSE BY <1>2, <1>5 DEF Proper
  <2>4. q # <<>> BY <1>2, <1>5
  <2> HIDE DEF e, q, r
  <2>5. InOrder'
    <3>1. Has(r, "written") => mem'["writing"] = mem["writing"] BY <1>3, <2>2 DEF Atomics
    <3> QED BY <1>0, <1>1, <2>1, <2>2, <2>4, <3>1 DEF InOrder, q, r
  <2>6. Quiet'
    <3>1. mem["armed"] = FALSE => mem'["armed"] = FALSE BY <1>3, <2>3 DEF Atomics
    <3> QED BY <1>0, <1>1, <2>1, <2>2, <3>1 DEF Quiet, q, r
  <2>7. TakeKept'
    <3> SUFFICES ASSUME ~collected, ~restarted PROVE IF HasArm(stores["message"]) THEN Arming' ELSE Running'
      BY <1>0, <1>1, <2>1 DEF TakeKept
    <3>1. CASE HasArm(stores["message"])
      <4>1. Arming /\ ~Has(q, "written") BY <1>0, <3>1 DEF TakeKept, Quiet, q
      <4>2. mem'["written"] = mem["written"] BY <1>3, <2>2, <4>1 DEF Atomics
      <4> QED BY <1>1, <2>1, <3>1, <4>1, <4>2 DEF Arming
    <3>2. CASE ~HasArm(stores["message"])
      <4>1. Running BY <1>0, <3>2 DEF TakeKept
      <4>2. /\ AllWritten(r, recorded)
            /\ mem'["written"] = IF e.atomic = "written" THEN recorded ELSE mem["written"]
        BY <1>3, <2>2, <4>1 DEF Atomics, Running, q
      <4> QED BY <1>1, <2>1, <2>2, <3>2, <4>1, <4>2 DEF Running, q, r
    <3> QED BY <3>1, <3>2
  <2> QED BY <2>5, <2>6, <2>7 DEF Kept
<1> QED BY <1>4, <1>5 DEF Threads
(* The message thread's stores that leave the buffer alone.                 *)
LEMMA DisarmTakeInv ==
  ASSUME IInv, Kept, Store("message", <<Put("armed", FALSE)>>), mpc' \in {"idle", "wait"},
         UNCHANGED <<mem, buffer, audio, history>>
  PROVE  Kept'
<1>0. MemoryOK /\ InOrder /\ Quiet /\ TakeKept BY DEF Kept, IInv
<1> DEFINE s == <<Put("armed", FALSE)>>
<1>1. s \in Seq(Entries) /\ ~Has(s, "written") /\ ~HasArm(s) /\ ArmLast(s) /\ AllWritten(s, 0)
  BY ArmedDown
<1>2. Store("message", s) OBVIOUS
<1> HIDE DEF s
<1>3. /\ stores'["audio"] = stores["audio"]
      /\ Has(stores'["message"], "written") <=> Has(stores["message"], "written")
      /\ HasArm(stores'["message"]) <=> HasArm(stores["message"])
      /\ restarted \/ ArmLast(stores'["message"])
      /\ AllWritten(stores'["message"], 0)
  BY <1>0, <1>1, <1>2, Stored DEF Threads, InOrder
<1>4. InOrder' BY <1>0, <1>3 DEF InOrder, audio, history
<1>5. Quiet' BY <1>0, <1>3 DEF Quiet, audio, history
<1>6. TakeKept' BY <1>0, <1>3 DEF TakeKept, Arming, Running, audio, history
<1> QED BY <1>4, <1>5, <1>6 DEF Kept

(* The take is over: whatever is stored then arms nothing.                  *)
LEMMA ResetTakeInv ==
  ASSUME IInv, Kept, mpc \in {"take", "prepare"}, mpc' = "idle",
         NEW s, \/ s = <<Put("written", 0), Put("full", FALSE)>>
                \/ s = <<Put("written", 0), Put("full", FALSE), Put("start", -1)>>,
         Store("message", s), collected' = TRUE, UNCHANGED <<mem, audio>>, ~overtook
  PROVE  Kept'
<1>0. MemoryOK /\ InOrder /\ Quiet /\ Disarmed /\ ExclusiveWhenSeen BY DEF Kept, IInv
<1>9. ~early["message"] /\ ~early["audio"] BY DEF IInv, LooksOK, Threads
<1>1. s \in Seq(Entries) /\ ~HasArm(s) /\ ArmLast(s) /\ AllWritten(s, 0) BY ResetPuts
<1>2. /\ stores["message"] = <<>> /\ mem["armed"] = FALSE /\ apc # "append"
      /\ ~Has(stores["audio"], "written")
  BY <1>0, <1>9 DEF Disarmed, ExclusiveWhenSeen, Collision, Quiet
<1>3. /\ stores'["audio"] = stores["audio"] /\ ~HasArm(stores'["message"])
      /\ ArmLast(stores'["message"]) /\ AllWritten(stores'["message"], 0)
  BY <1>0, <1>1, <1>2, Stored, Nothing DEF Threads
<1>4. InOrder' BY <1>0, <1>3 DEF InOrder, audio
<1>5. Quiet' BY <1>2, <1>3 DEF Quiet, audio
<1> QED BY <1>4, <1>5 DEF TakeKept, Kept

(* start(): a new take, or one that has begun anew under a block.            *)
LEMMA StartTakeInv == IInv /\ Kept /\ Start => Kept'
<1> SUFFICES ASSUME IInv, Kept, Start PROVE Kept' OBVIOUS
<1>0. MemoryOK /\ InOrder /\ Quiet BY DEF Kept, IInv
<1> DEFINE s == <<Put("written", 0), Put("full", FALSE), Put("start", -1), Put("armed", TRUE)>>
<1>1. s \in Seq(Entries) /\ Has(s, "written") /\ HasArm(s) /\ ArmLast(s) /\ AllWritten(s, 0)
  BY StartPuts
<1>2. /\ Store("message", s) /\ mpc = "idle"
      /\ UNCHANGED <<mem, buffer, mpc, apc, at>>
      /\ recorded' = 0 /\ collected' = FALSE /\ (restarted' <=> ~collected /\ BlockMayRun)
  BY DEF Start, message, audio
<1> HIDE DEF s
<1>3. /\ stores'["audio"] = stores["audio"] /\ HasArm(stores'["message"])
      /\ Has(stores'["message"], "written") /\ AllWritten(stores'["message"], 0)
      /\ ~HasArm(stores["message"]) => ArmLast(stores'["message"])
  <2>1. ~HasArm(stores["message"]) => ArmLast(stores["message"]) BY DEF HasArm, ArmLast
  <2> QED BY <1>0, <1>1, <1>2, <2>1, Stored DEF Threads, InOrder
<1>4. CASE restarted'
  <2>1. InOrder' BY <1>0, <1>2, <1>3, <1>4 DEF InOrder
  <2>2. Quiet' BY <1>2, <1>4 DEF Quiet
  <2> QED BY <1>4, <2>1, <2>2 DEF TakeKept, Kept
(* Collected, or out of every block's reach: the recorder is quiet.         *)
<1>5. CASE ~restarted'
  <2>1. /\ mem["armed"] = FALSE /\ apc # "append" /\ ~Has(stores["audio"], "written")
        /\ ~HasArm(stores["message"])
    <3>1. CASE collected BY <1>0, <3>1 DEF Quiet
    <3>2. CASE ~BlockMayRun
      <4>1. /\ ~mem["armed"] /\ mem["armed"] \in BOOLEAN /\ apc = "idle" /\ stores["audio"] = <<>>
            /\ \A i \in DOMAIN stores["message"] : stores["message"][i] # Put("armed", TRUE)
        BY <1>0, <3>2 DEF BlockMayRun, MemoryOK
      <4>2. ASSUME NEW i \in 1 .. Len(stores["message"]), Raises(stores["message"][i]) PROVE FALSE
        <5> DEFINE e == stores["message"][i]
        <5>1. i \in DOMAIN stores["message"] BY <1>0 DEF MemoryOK, Threads
        <5>2. Proper("message", e) BY <1>0 DEF MemoryOK, Threads
        <5> HIDE DEF e
        <5>3. e = [atomic |-> e.atomic, value |-> e.value] /\ (e.atomic = "armed" => e.value \in BOOLEAN)
          BY <5>2 DEF Proper, Entries
        <5>4. e.atomic = "armed" /\ e.value # FALSE BY <4>2 DEF Raises, e
        <5>5. e.value = TRUE BY <5>3, <5>4
        <5>6. e = Put("armed", TRUE) BY <5>3, <5>4, <5>5 DEF Put
        <5> QED BY <4>1, <5>1, <5>6 DEF e
      <4> QED BY <4>1, <4>2, Nothing DEF HasArm
    <3> QED BY <1>2, <1>5, <3>1, <3>2
  <2>2. InOrder' BY <1>0, <1>2, <1>3, <2>1 DEF InOrder
  <2>3. Quiet' BY <1>2, <1>3, <2>1 DEF Quiet
  <2>4. Arming' BY <1>2, <1>3 DEF Arming
  <2>5. recorded' \in 0 .. Capacity /\ 1 .. recorded' = {} BY <1>2, InputRecorderAssumption
  <2>6. TakeKept' BY <1>2, <1>3, <2>4, <2>5 DEF TakeKept
  <2> QED BY <2>2, <2>3, <2>6 DEF Kept
<1> QED BY <1>4, <1>5

(* take() reads `written` when no block is in the buffer any more: every     *)
(* store of it has arrived.                                                 *)
LEMMA AwaitTakeInv == IInv /\ Kept /\ AwaitBlock /\ ~overtook' => Kept'
<1> SUFFICES ASSUME IInv, Kept, AwaitBlock, ~overtook' PROVE Kept' OBVIOUS
<1>0. InOrder /\ Quiet /\ TakeKept BY DEF Kept
<1>1. /\ stores["message"] = <<>> /\ ~Load("message", "writing")
      /\ count' = Load("message", "written") /\ mpc = "wait"
      /\ UNCHANGED <<mem, stores, buffer, apc, at, take, recorded, collected, restarted>>
  BY LookOK DEF AwaitBlock, audio, IInv, Threads
<1>2. mem["writing"] # TRUE /\ count' = mem["written"] BY <1>1, LoadMemory
<1>3. ~Has(stores["audio"], "written") BY <1>0, <1>2 DEF InOrder
<1>4. ~HasArm(stores["message"]) BY <1>1, Nothing
<1>5. ~collected /\ ~restarted => Running /\ mem["written"] = recorded
  BY <1>0, <1>3, <1>4 DEF TakeKept, Running
<1>6. InOrder' BY <1>0, <1>1 DEF InOrder
<1>7. Quiet' BY <1>0, <1>1, <1>3 DEF Quiet
<1>8. TakeKept' BY <1>0, <1>1, <1>2, <1>4, <1>5 DEF TakeKept, Running
<1> QED BY <1>6, <1>7, <1>8 DEF Kept

(* The audio thread stores, without a length.                               *)
LEMMA AudioTakeInv ==
  ASSUME IInv, Kept, NEW s \in Seq(Entries), Store("audio", s), ~Has(s, "written"),
         WrittenFirst(s), apc # "append", apc' \in {"idle", "recheck", "lower"},
         UNCHANGED <<mem, buffer, message, at, history>>
  PROVE  Kept'
<1>0. MemoryOK /\ InOrder /\ Quiet /\ TakeKept BY DEF Kept, IInv
<1>1. /\ stores'["message"] = stores["message"]
      /\ Has(stores'["audio"], "written") <=> Has(stores["audio"], "written")
      /\ WrittenFirst(stores'["audio"])
      /\ \A v : AllWritten(stores["audio"], v) => AllWritten(stores'["audio"], v)
  <2>1. \A v : AllWritten(s, v) BY DEF Has, AllWritten
  <2> QED BY <1>0, <2>1, Stored DEF Threads, InOrder
<1>2. InOrder' BY <1>0, <1>1 DEF InOrder, history
<1>3. Quiet' BY <1>0, <1>1 DEF Quiet, message, history
<1>4. TakeKept' BY <1>0, <1>1 DEF TakeKept, Arming, Running, message, history
<1> QED BY <1>2, <1>3, <1>4 DEF Kept

(* A block goes on with what it has been told, or returns.                  *)
LEMMA RecheckTakeInv == IInv /\ Kept /\ Recheck /\ ~overtook' => Kept'
<1> SUFFICES ASSUME IInv, Kept, Recheck, ~overtook' PROVE Kept' OBVIOUS
<1>0. MemoryOK /\ InOrder /\ Quiet /\ TakeKept BY DEF Kept, IInv
<1>1. /\ stores["audio"] = <<>> /\ at' = mem["written"]
      /\ UNCHANGED <<mem, buffer, message, take, recorded, collected, restarted>>
  <2>1. stores["audio"] = <<>> BY LookOK DEF Recheck, IInv, Threads
  <2> QED BY <2>1, LoadMemory DEF Recheck
<1>2. ~Has(stores["audio"], "written") /\ WrittenFirst(stores["audio"]) BY <1>1, Nothing
<1>3. CASE apc' = "lower" /\ UNCHANGED stores
  <2>1. InOrder' BY <1>0, <1>1, <1>3 DEF InOrder
  <2>2. Quiet' BY <1>0, <1>1, <1>2, <1>3 DEF Quiet, message
  <2>3. TakeKept' BY <1>0, <1>1, <1>3 DEF TakeKept, Arming, Running, message
  <2> QED BY <2>1, <2>2, <2>3 DEF Kept
<1>4. CASE Load("audio", "armed") /\ apc' = "append" /\ Store("audio", Stamped)
  <2>1. mem["armed"] # FALSE BY <1>1, <1>4, LoadMemory
  <2>2. ~collected /\ (restarted \/ ~HasArm(stores["message"])) BY <1>0, <2>1 DEF Quiet
  <2>3. /\ Stamped \in Seq(Entries) /\ ~Has(Stamped, "written") /\ WrittenFirst(Stamped)
    <3>1. Put("start", 0) \in Entries /\ Put("start", 0).atomic = "start"
      BY DEF Put, Entries, Atomics, Values
    <3>2. CASE Stamped = <<>> BY <3>2, Nothing
    <3>3. CASE Stamped = <<Put("start", 0)>> BY <3>1, <3>3, OnePut
    <3> QED BY <3>2, <3>3 DEF Stamped
  <2>4. /\ stores'["message"] = stores["message"] /\ ~Has(stores'["audio"], "written")
        /\ WrittenFirst(stores'["audio"])
    BY <1>0, <1>2, <1>4, <2>3, Stored DEF Threads
  <2>5. restarted \/ (Running /\ mem["written"] = recorded) BY <1>0, <1>2, <2>2 DEF TakeKept, Running
  <2>6. AllWritten(stores'["audio"], recorded) BY <2>4 DEF Has, AllWritten
  <2>7. InOrder' BY <1>0, <1>1, <1>4, <2>4 DEF InOrder
  <2>8. Quiet' BY <1>0, <1>1, <2>2, <2>4 DEF Quiet, message
  <2>9. restarted \/ Running' BY <1>1, <2>4, <2>5, <2>6 DEF Running
  <2>10. TakeKept' BY <1>0, <1>1, <2>2, <2>4, <2>9 DEF TakeKept, message
  <2> QED BY <2>7, <2>8, <2>10 DEF Kept
<1> QED BY <1>3, <1>4 DEF Recheck

(* A block extends the take by what fits, and says how long it is.          *)
LEMMA AppendTakeInv == IInv /\ Kept /\ AppendBlock /\ ~overtook => Kept'
<1> SUFFICES ASSUME IInv, Kept, AppendBlock, ~overtook PROVE Kept' OBVIOUS
<1>0. MemoryOK /\ InOrder /\ Quiet /\ TakeKept /\ Raised /\ ExclusiveWhenSeen BY DEF Kept, IInv
<1>19. ~early["message"] /\ ~early["audio"] BY DEF IInv, LooksOK, Threads
<1> DEFINE n    == MinOf(BlockLen, Capacity - at)
           grew == IF n > 0 THEN <<Put("written", at + n)>> ELSE <<>>
           stop == IF at + n >= Capacity
                   THEN <<Put("full", TRUE), Put("armed", FALSE)>> ELSE <<>>
<1>1. /\ apc = "append" /\ apc' = "lower" /\ recorded' = recorded + n
      /\ Store("audio", grew \o stop)
      /\ buffer' = [i \in 1 .. Capacity |-> IF i > at /\ i <= at + n THEN take ELSE buffer[i]]
      /\ UNCHANGED <<mem, message, at, take, collected, restarted>>
  BY DEF AppendBlock
<1>2. ~collected /\ (restarted \/ ~HasArm(stores["message"])) BY <1>0, <1>1 DEF Quiet
<1>3. /\ ~Has(stores["audio"], "written") /\ mem["writing"] = TRUE
      /\ ~Has(stores["audio"], "writing") /\ mpc \notin {"take", "prepare"} /\ at \in Int
  BY <1>0, <1>1, <1>19 DEF InOrder, Raised, ExclusiveWhenSeen, Collision, Has, MemoryOK
<1>30. ASSUME ~restarted
       PROVE  /\ at = recorded /\ recorded \in 0 .. Capacity
              /\ ~Has(stores["message"], "written") /\ mem["written"] = recorded
  BY <1>0, <1>1, <1>2, <1>3, <1>30 DEF TakeKept, Running
<1>4. n \in Int /\ (~restarted => n \in Nat /\ at + n <= Capacity)
  BY <1>3, <1>30, InputRecorderAssumption DEF MinOf
<1> HIDE DEF n
<1>5. /\ grew \in Seq(Entries) /\ WrittenFirst(grew) /\ AllWritten(grew, at + n)
      /\ Has(grew, "written") <=> n > 0
      /\ ~Has(grew, "writing")
  <2>1. CASE n > 0
    <3>1. Put("written", at + n) \in Entries BY <1>3, <1>4 DEF Put, Entries, Atomics, Values
    <3>2. Put("written", at + n).atomic = "written" /\ Put("written", at + n).value = at + n
      BY DEF Put
    <3> QED BY <2>1, <3>1, <3>2, OnePut
  <2>2. CASE ~(n > 0)
    <3>1. grew = <<>> BY <2>2
    <3>2. <<>> \in Seq(Entries) OBVIOUS
    <3> QED BY <2>2, <3>1, <3>2, Nothing
  <2> QED BY <2>1, <2>2
<1>6. /\ stop \in Seq(Entries) /\ WrittenFirst(stop) /\ ~Has(stop, "written")
      /\ \A v : AllWritten(stop, v)
  <2> DEFINE e1 == Put("full", TRUE)
             e2 == Put("armed", FALSE)
  <2>1. e1 \in Entries /\ e2 \in Entries /\ e1.atomic = "full" /\ e2.atomic = "armed"
    BY DEF Put, Entries, Atomics, Values
  <2>2. stop = <<e1, e2>> \/ stop = <<>> OBVIOUS
  <2> HIDE DEF e1, e2, stop
  <2>3. CASE stop = <<>>
    <3>1. <<>> \in Seq(Entries) OBVIOUS
    <3> QED BY <2>3, <3>1, Nothing
  <2>4. CASE stop = <<e1, e2>>
    <3>1. stop \in Seq(Entries) /\ \A i \in 1 .. Len(stop) : stop[i] \in {e1, e2}
      BY <2>1, <2>4
    <3>2. \A i \in 1 .. Len(stop) : stop[i].atomic # "written" BY <2>1, <3>1
    <3> QED BY <3>1, <3>2 DEF WrittenFirst, Has, AllWritten
  <2> QED BY <2>2, <2>3, <2>4
<1> HIDE DEF grew, stop
<1>7. /\ grew \o stop \in Seq(Entries) /\ WrittenFirst(grew \o stop)
      /\ Has(grew \o stop, "written") <=> n > 0
      /\ AllWritten(grew \o stop, at + n)
  <2>1. Len(grew) \in Nat /\ Len(stop) \in Nat BY <1>5, <1>6
  <2>2. /\ grew \o stop \in Seq(Entries) /\ Len(grew \o stop) = Len(grew) + Len(stop)
        /\ \A i \in 1 .. Len(grew) + Len(stop) : (grew \o stop)[i] =
             IF i <= Len(grew) THEN grew[i] ELSE stop[i - Len(grew)]
    BY <1>5, <1>6, ConcatProperties
  <2>3. /\ \A i \in 1 .. Len(grew) : (grew \o stop)[i] = grew[i]
        /\ \A i \in 1 .. Len(stop) : (grew \o stop)[Len(grew) + i] = stop[i]
    BY <2>1, <2>2
  <2> QED BY <1>5, <1>6, <2>2, <2>3, Joins
<1>8. /\ stores'["message"] = stores["message"]
      /\ Has(stores'["audio"], "written") <=> n > 0
      /\ WrittenFirst(stores'["audio"]) /\ AllWritten(stores'["audio"], at + n)
  <2>1. AllWritten(stores["audio"], at + n) BY <1>3 DEF Has, AllWritten
  <2>2. WrittenFirst(stores["audio"]) BY <1>0 DEF InOrder
  <2> QED BY <1>0, <1>1, <1>3, <1>7, <2>1, <2>2, Stored DEF Threads
<1>9. InOrder' BY <1>0, <1>1, <1>3, <1>8 DEF InOrder
<1>10. Quiet' BY <1>0, <1>1, <1>2, <1>3, <1>8 DEF Quiet, message
<1>11. ASSUME ~restarted PROVE recorded' = at + n /\ recorded' \in 0 .. Capacity
  BY <1>1, <1>3, <1>4, <1>11, <1>30
<1>12. ASSUME ~restarted PROVE Running'
  <2>1. n > 0 \/ mem["written"] = recorded' BY <1>4, <1>11, <1>12, <1>30
  <2> QED BY <1>1, <1>8, <1>11, <1>12, <1>30, <2>1 DEF Running
<1>13. ASSUME ~restarted, NEW i \in 1 .. recorded' PROVE buffer'[i] = take
  <2>1. i \in 1 .. Capacity BY <1>11, <1>13, InputRecorderAssumption
  <2>2. CASE i > at BY <1>1, <1>11, <1>13, <2>1, <2>2
  <2>3. CASE i <= at
    <3>1. buffer'[i] = buffer[i] BY <1>1, <1>3, <2>1, <2>3
    <3>2. i \in 1 .. recorded BY <1>13, <1>30, <2>3
    <3> QED BY <1>0, <1>2, <1>13, <3>1, <3>2 DEF TakeKept
  <2> QED BY <1>3, <2>2, <2>3
<1>14. TakeKept' BY <1>1, <1>2, <1>3, <1>8, <1>11, <1>12, <1>13 DEF TakeKept, message
<1> QED BY <1>9, <1>10, <1>14 DEF Kept

LEMMA NextKept ==
  ASSUME IInv, Kept, ~overtook, ~overtook', [Next]_vars
  PROVE  Kept'
<1>0. MemoryOK /\ InOrder /\ Quiet /\ TakeKept BY DEF Kept, IInv
<1>2. CASE Start BY <1>2, StartTakeInv
<1>3. CASE Stop BY <1>3, DisarmTakeInv DEF Stop, message
<1>4. ASSUME NEW op, Disarm(op) PROVE Kept'
  BY <1>4, DisarmTakeInv DEF Disarm
<1>5. CASE Spin \/ UNCHANGED vars
  BY <1>0, <1>5 DEF Spin, vars, message, audio, history, Kept, InOrder, Quiet, TakeKept, Arming, Running
<1>6. CASE AwaitBlock BY <1>6, AwaitTakeInv
<1>7. CASE TakeOut BY <1>7, ResetTakeInv DEF TakeOut
<1>8. CASE Resize BY <1>8, ResetTakeInv DEF Resize
<1>9. CASE CheckArmed
  <2>1. apc = "idle" /\ apc' = "raise" /\ UNCHANGED <<mem, stores, buffer, message, at, history>>
    BY <1>9 DEF CheckArmed
  <2>3. InOrder' BY <1>0, <2>1 DEF InOrder, history
  <2>4. Quiet' BY <1>0, <2>1 DEF Quiet, message, history
  <2>5. TakeKept' BY <1>0, <2>1 DEF TakeKept, Arming, Running, message, history
  <2> QED BY <2>3, <2>4, <2>5 DEF Kept
<1>10. ASSUME NEW v \in BOOLEAN
       PROVE  /\ <<Put("writing", v)>> \in Seq(Entries) /\ ~Has(<<Put("writing", v)>>, "written")
              /\ WrittenFirst(<<Put("writing", v)>>)
  <2>1. Put("writing", v) \in Entries /\ Put("writing", v).atomic = "writing"
    BY DEF Put, Entries, Atomics, Values
  <2> QED BY <2>1, OnePut
<1>11. CASE RaiseWriting BY <1>10, <1>11, AudioTakeInv DEF RaiseWriting
<1>12. CASE Recheck BY <1>12, RecheckTakeInv
<1>13. CASE AppendBlock BY <1>13, AppendTakeInv
<1>14. CASE LowerWriting BY <1>10, <1>14, AudioTakeInv DEF LowerWriting
<1>15. ASSUME NEW t \in Threads, Flush(t) PROVE Kept'
  BY <1>15, FlushTakeInv
<1> QED BY <1>2, <1>3, <1>4, <1>5, <1>6, <1>7, <1>8, <1>9, <1>11, <1>12, <1>13, <1>14, <1>15
        DEF Next, MessageNext, AudioNext

LEMMA NextTakeInv ==
  ASSUME TakeInv, [Next]_vars
  PROVE  TakeInv'
<1>0. IInv BY DEF TakeInv
<1>1. IInv' BY <1>0, NextIInv
<1>2. overtook => overtook'
  <2>1. CASE Look("message") \/ Look("audio") BY <2>1 DEF Look
  <2>2. CASE UNCHANGED looks BY <2>2 DEF looks
  <2>3. UNCHANGED looks \/ Look("message") \/ Look("audio")
    BY DEF Next, MessageNext, AudioNext, Start, Stop, Disarm, Spin, AwaitBlock, TakeOut, Resize,
           CheckArmed, RaiseWriting, Recheck, AppendBlock, LowerWriting, Flush, vars, history
  <2> QED BY <2>1, <2>2, <2>3
<1>3. ASSUME ~overtook' PROVE Kept'
  <2>1. ~overtook /\ Kept BY <1>2, <1>3 DEF TakeInv
  <2> QED BY <1>0, <1>3, <2>1, NextKept
<1> QED BY <1>1, <1>3 DEF TakeInv

(* What take() hands out is the take, whole and alone: every sample recorded *)
(* since start() and none of an earlier one, wherever stop(), a full buffer, *)
(* prepare() or another start() meets a block - until a look has overtaken   *)
(* the store before it, and unless start() began the take anew under a block. *)
THEOREM SpecTakeIsTheTake == Spec => []TakeIsTheTake
<1>1. TakeInv /\ [Next]_vars => TakeInv' BY NextTakeInv
<1>2. TakeInv => TakeIsTheTake
  <2> SUFFICES ASSUME TakeInv, mpc = "take", ~collected, ~restarted, ~overtook
               PROVE  count = recorded /\ \A i \in 1 .. count : buffer[i] = take
    BY DEF TakeIsTheTake
  <2> QED BY DEF TakeInv, Kept, TakeKept
<1> QED BY <1>1, <1>2, InitTakeInv, PTL DEF Spec
=============================================================================
