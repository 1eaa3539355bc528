------------------------- MODULE TripleBufferProofs -------------------------
(***************************************************************************)
(* The safety of engine/TripleBuffer.h for any number of published values. *)
(* IInv is inductive: the permutation of the indices keeps the writer's    *)
(* buffer apart from the two the reader can reach, so the reader's two     *)
(* hold whole versions; and what is announced is what the slot holds, for  *)
(* as long as no read() straddles a publish().                             *)
(***************************************************************************)
EXTENDS TripleBuffer, TLAPS

(* The initial buffers satisfy the inductive invariant. *)
LEMMA InitIInv == Init => IInv
  <1> SUFFICES ASSUME Init PROVE IInv
    OBVIOUS
  <1> USE DEF Init, Indices, Torn, Latest
  <1>1. TypeOK
    <2>1. buffers \in [Indices -> {Torn} \cup Nat]
      BY SMT
    <2>2. hasNew \in BOOLEAN /\ straddled \in BOOLEAN
      BY Zenon
    <2>3. QED
      BY <2>1, <2>2 DEF TypeOK
  <1>2. Permutation
    BY DEF Permutation
  <1>3. FilledWhole /\ NoTornRead
    BY DEF FilledWhole, NoTornRead
  <1>4. AnnouncedOrHeld
    BY DEF AnnouncedOrHeld
  <1>5. QED
    BY <1>1, <1>2, <1>3, <1>4 DEF IInv

(* Every step of either thread keeps it. *)
LEMMA NextIInv == IInv /\ [Next]_vars => IInv'
  <1> SUFFICES ASSUME IInv, [Next]_vars PROVE IInv'
    OBVIOUS
  <1> USE DEF IInv, TypeOK, Permutation, FilledWhole, NoTornRead, AnnouncedOrHeld,
              Latest, Indices, Torn
  <1>1. CASE BeginFill
    BY <1>1 DEF BeginFill
  <1>2. CASE EndFill
    BY <1>2 DEF EndFill
  <1>3. CASE PublishSwap
    <2>1. writeIndex # ready /\ readIndex # ready /\ writeIndex # readIndex
      OBVIOUS
    <2>2. TypeOK' /\ Permutation' /\ FilledWhole'
      BY <1>3 DEF PublishSwap
    <2>3. NoTornRead'
      BY <1>3, <2>1 DEF PublishSwap
    <2>4. AnnouncedOrHeld'
      BY <1>3 DEF PublishSwap
    <2>5. QED
      BY <2>2, <2>3, <2>4
  <1>4. CASE PublishFlag
    BY <1>4 DEF PublishFlag
  <1>5. CASE ReadFlag
    BY <1>5 DEF ReadFlag
  <1>6. CASE ReadSwap
    BY <1>6 DEF ReadSwap
  <1>7. CASE ReadCopy
    BY <1>7 DEF ReadCopy
  <1>8. CASE UNCHANGED vars
    BY <1>8 DEF vars
  <1>9. QED
    BY <1>1, <1>2, <1>3, <1>4, <1>5, <1>6, <1>7, <1>8 DEF Next, Write, Read

(* The strengthened invariant holds throughout every behaviour. *)
THEOREM SpecIInv == Spec => []IInv
  BY InitIInv, NextIInv, PTL DEF Spec

(* publish() and read() keep the types of the buffers, indices and flags. *)
THEOREM SpecTypeOK == Spec => []TypeOK
  BY SpecIInv, PTL DEF IInv

(* The three indices are a permutation of {0,1,2} under every interleaving *)
(* of publish() and read() (TripleBuffer.h:54).                            *)
THEOREM SpecPermutation == Spec => []Permutation
  BY SpecIInv, PTL DEF IInv

(* read() only ever returns a whole, published version. *)
THEOREM SpecNoTornRead == Spec => []NoTornRead
  BY SpecIInv, PTL DEF IInv

(* At rest the reader holds the newest version, unless a read() straddled *)
(* a publish().                                                           *)
THEOREM SpecFresh == Spec => []FreshUnlessStraddled
  <1>1. IInv => FreshUnlessStraddled
    BY DEF IInv, AnnouncedOrHeld, FreshUnlessStraddled
  <1>2. QED
    BY <1>1, SpecIInv, PTL

LEMMA NextSnapshot ==
  ASSUME IInv, [Next]_vars, rpc = "copy"
  PROVE  buffers'[readIndex] = buffers[readIndex]
  <1>1. writeIndex # readIndex
    BY DEF IInv, TypeOK, Permutation, Indices
  <1>2. CASE BeginFill \/ EndFill
    BY <1>1, <1>2 DEF BeginFill, EndFill, IInv, TypeOK
  <1>3. CASE UNCHANGED buffers
    BY <1>3
  <1>4. QED
    BY <1>2, <1>3 DEF Next, Write, Read, PublishSwap, PublishFlag, ReadFlag,
                      ReadSwap, ReadCopy, vars

(* No step changes the buffer a copy is being taken from. *)
THEOREM SpecSnapshotImmutable == Spec => SnapshotImmutable
  <1>1. IInv /\ [Next]_vars
          => [rpc = "copy" => buffers'[readIndex] = buffers[readIndex]]_vars
    BY NextSnapshot
  <1>2. QED
    BY <1>1, SpecIInv, PTL DEF Spec, SnapshotImmutable
=============================================================================
