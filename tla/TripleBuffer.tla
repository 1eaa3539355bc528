---------------------------- MODULE TripleBuffer ----------------------------
(***************************************************************************)
(* engine/TripleBuffer.h: the lock-free single-producer, single-consumer   *)
(* triple buffer that carries a Pattern from the message thread (writer)   *)
(* to the audio thread (reader).                                           *)
(*                                                                         *)
(* A buffer's contents are abstracted to the number of the version written *)
(* into it; Torn stands for a buffer whose contents are being overwritten. *)
(* Each atomic access of publish() and read() is a step of its own, and so *)
(* are the beginning and the end of the (non-atomic) copies made into      *)
(* writeBuffer() and out of read()'s result.                               *)
(***************************************************************************)
EXTENDS Integers

CONSTANT MaxVersions    (* bound: how many values the writer ever publishes *)

VARIABLES
  buffers,      (* the three T's: the version each one holds                *)
  writeIndex,   (* the buffer only the writer touches                       *)
  readIndex,    (* the buffer only the reader touches                       *)
  ready,        (* std::atomic<int>: the hand-off slot                      *)
  hasNew,       (* std::atomic<bool>                                        *)
  wpc,          (* where the writer is in  writeBuffer() = v; publish()     *)
  rpc,          (* where the reader is in  copy = read()                    *)
  version,      (* history: how many versions the writer has begun          *)
  got,          (* history: the version the last completed read() returned  *)
  straddled     (* history: see ReadSwap                                    *)

vars == <<buffers, writeIndex, readIndex, ready, hasNew, wpc, rpc,
          version, got, straddled>>

Indices == 0 .. 2
Torn    == -1

(* The newest version that has reached the hand-off slot. *)
Latest == IF wpc \in {"filling", "filled"} THEN version - 1 ELSE version

Init ==
  /\ buffers    = [i \in Indices |-> 0]
  /\ writeIndex = 0
  /\ readIndex  = 1
  /\ ready      = 2
  /\ hasNew     = FALSE
  /\ wpc        = "idle"
  /\ rpc        = "idle"
  /\ version    = 0
  /\ got        = 0
  /\ straddled  = FALSE

-----------------------------------------------------------------------------
(* The writer: writeBuffer() = v; publish(). *)

BeginFill ==
  /\ wpc = "idle"
  /\ version < MaxVersions
  /\ wpc'     = "filling"
  /\ version' = version + 1
  /\ buffers' = [buffers EXCEPT ![writeIndex] = Torn]
  /\ UNCHANGED <<writeIndex, readIndex, ready, hasNew, rpc, got, straddled>>

EndFill ==
  /\ wpc = "filling"
  /\ wpc'     = "filled"
  /\ buffers' = [buffers EXCEPT ![writeIndex] = version]
  /\ UNCHANGED <<writeIndex, readIndex, ready, hasNew, rpc, version, got, straddled>>

(* Mutant: publish() stores its index without taking the recycled one. *)
PublishSwapNoRecycle ==
  /\ wpc = "filled"
  /\ wpc'       = "flag"
  /\ ready'     = writeIndex
  /\ straddled' = FALSE
  /\ UNCHANGED <<buffers, writeIndex, readIndex, hasNew, rpc, version, got>>

(* writeIndex = ready.exchange (writeIndex). A version that reaches the     *)
(* slot makes the slot the newest again, whatever was there.                *)
PublishSwap ==
  /\ wpc = "filled"
  /\ wpc'        = "flag"
  /\ ready'      = writeIndex
  /\ writeIndex' = ready
  /\ straddled'  = FALSE
  /\ UNCHANGED <<buffers, readIndex, hasNew, rpc, version, got>>

(* Mutant: the hasNew store is forgotten. *)
PublishFlagDropped ==
  /\ wpc = "flag"
  /\ wpc' = "idle"
  /\ UNCHANGED <<buffers, writeIndex, readIndex, ready, hasNew, rpc, version, got, straddled>>

(* hasNew.store (true) *)
PublishFlag ==
  /\ wpc = "flag"
  /\ wpc'    = "idle"
  /\ hasNew' = TRUE
  /\ UNCHANGED <<buffers, writeIndex, readIndex, ready, rpc, version, got, straddled>>

-----------------------------------------------------------------------------
(* The reader: copy = read(). *)

(* if (hasNew.exchange (false)) *)
ReadFlag ==
  /\ rpc = "idle"
  /\ rpc'    = IF hasNew THEN "swap" ELSE "copy"
  /\ hasNew' = FALSE
  /\ UNCHANGED <<buffers, writeIndex, readIndex, ready, wpc, version, got, straddled>>

(* Mutant: the reader takes the ready buffer and does not give its own back. *)
ReadSwapNoReturn ==
  /\ rpc = "swap"
  /\ rpc'       = "copy"
  /\ readIndex' = ready
  /\ straddled' = (straddled \/ hasNew \/ wpc = "flag")
  /\ UNCHANGED <<buffers, writeIndex, ready, hasNew, wpc, version, got>>

(* readIndex = ready.exchange (readIndex). The history variable notes that  *)
(* the reader took a version whose hasNew store it had not consumed: the    *)
(* store is still to come (wpc = "flag") or came after ReadFlag (hasNew).   *)
(* The flag then announces a slot that holds what the reader gave back.     *)
ReadSwap ==
  /\ rpc = "swap"
  /\ rpc'       = "copy"
  /\ readIndex' = ready
  /\ ready'     = readIndex
  /\ straddled' = (straddled \/ hasNew \/ wpc = "flag")
  /\ UNCHANGED <<buffers, writeIndex, hasNew, wpc, version, got>>

(* The caller has finished copying out of buffers[readIndex]. *)
ReadCopy ==
  /\ rpc = "copy"
  /\ rpc' = "idle"
  /\ got' = buffers[readIndex]
  /\ UNCHANGED <<buffers, writeIndex, readIndex, ready, hasNew, wpc, version, straddled>>

-----------------------------------------------------------------------------
Write == BeginFill \/ EndFill \/ PublishSwap \/ PublishFlag
Read  == ReadFlag \/ ReadSwap \/ ReadCopy
Next  == Write \/ Read

Spec == Init /\ [][Next]_vars

-----------------------------------------------------------------------------
TypeOK ==
  /\ buffers \in [Indices -> {Torn} \cup Nat]
  /\ writeIndex \in Indices
  /\ readIndex \in Indices
  /\ ready \in Indices
  /\ hasNew \in BOOLEAN
  /\ wpc \in {"idle", "filling", "filled", "flag"}
  /\ rpc \in {"idle", "swap", "copy"}
  /\ version \in Nat
  /\ got \in {Torn} \cup Nat
  /\ straddled \in BOOLEAN

(* The three indices {writeIndex, readIndex, ready} are always a permutation *)
(* of {0,1,2} (TripleBuffer.h:54), through every interleaving of publish()   *)
(* and read().                                                               *)
Permutation == {writeIndex, readIndex, ready} = Indices

(* The reader never holds a buffer that is being overwritten, and neither    *)
(* does the slot it takes its next buffer from: what read() returns is       *)
(* always a value the writer finished and published.                         *)
NoTornRead ==
  /\ buffers[readIndex] \in 0 .. Latest
  /\ buffers[ready] \in 0 .. Latest
  /\ got \in 0 .. Latest

(* The buffer the reader holds never changes under it ("a consistent,        *)
(* immutable snapshot per block"): while a copy is being taken no step of    *)
(* the writer alters the buffer it is taken from.                            *)
SnapshotImmutable ==
  [][rpc = "copy" => buffers'[readIndex] = buffers[readIndex]]_vars

(* With no publish() or read() half done and nothing announced, the reader   *)
(* holds the newest version - unless a read() straddled a publish() (see     *)
(* ReadSwap) and no later version has been published since.                  *)
FreshUnlessStraddled ==
  (~straddled /\ ~hasNew /\ wpc # "flag" /\ rpc # "swap")
    => buffers[readIndex] = Latest

(* The inductive strengthening of FreshUnlessStraddled: unless straddled,   *)
(* either the newest version sits in the slot and some announcement of it is *)
(* on its way (the store to come, the flag, or the reader past the flag), or *)
(* the reader holds it and nothing is announced.                             *)
AnnouncedOrHeld ==
  \/ straddled
  \/ /\ buffers[ready] = Latest
     /\ hasNew \/ wpc = "flag" \/ rpc = "swap"
  \/ /\ buffers[readIndex] = Latest
     /\ ~hasNew /\ wpc # "flag" /\ rpc # "swap"

(* The writer's side of NoTornRead: what it is about to publish is the whole *)
(* of the version it began.                                                  *)
FilledWhole ==
  /\ wpc \in {"filling", "filled"} => version > 0
  /\ wpc = "filled" => buffers[writeIndex] = version

IInv == TypeOK /\ Permutation /\ FilledWhole /\ NoTornRead /\ AnnouncedOrHeld

(* What TripleBuffer.h:43 says of read(): "the latest published value, or    *)
(* the previously-read one if nothing new has been published". Either way a  *)
(* read never returns an older value than the read before it. The code does  *)
(* not keep this.                                                            *)
ReadNeverGoesBack == [][got' >= got]_vars
=============================================================================
