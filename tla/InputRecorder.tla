--------------------------- MODULE InputRecorder ----------------------------
(***************************************************************************)
(* engine/InputRecorder.{h,cpp}: the handshake that keeps the message       *)
(* thread out of a buffer the audio thread appends to.                     *)
(*                                                                         *)
(* The atomics are stored with release and loaded with acquire, which lets *)
(* a load overtake an earlier store of its own thread: each thread has a    *)
(* FIFO of stores the other cannot see yet.                                *)
(***************************************************************************)
EXTENDS Integers, Sequences

CONSTANTS
  Capacity,     (* of the buffer, in samples                                *)
  BlockLen,     (* samples of a block                                       *)
  MaxTakes,     (* bound: calls of start()                                  *)
  MaxStores     (* bound: stores a thread may have outstanding              *)

ASSUME InputRecorderAssumption ==
  /\ Capacity \in Nat \ {0} /\ BlockLen \in Nat \ {0}
  /\ MaxTakes \in Nat /\ MaxStores \in Nat

VARIABLES
  mem,          (* the atomics, as every thread sees them                   *)
  stores,       (* per thread: stores nobody else sees yet, oldest first    *)
  buffer,       (* each sample is the take it was recorded in               *)
  mpc, mop,     (* message thread: where it is, in take() or prepare()      *)
  count,        (* ... and its local n                                      *)
  apc, at,      (* audio thread: where it is in writeBlock(), and its `at`  *)
  take,         (* history: calls of start()                                *)
  recorded,     (* history: samples appended since the last start()         *)
  collected,    (* history: has take() or prepare() run since start()?      *)
  restarted,    (* history: did start() find a block that may still append  *)
                (* to a take nobody collected?                              *)
  early,        (* history: per thread, did its last look at the other's    *)
                (* flag overtake the store of its own?                      *)
  overtook      (* history: has any look done so?                           *)

message == <<mpc, mop, count>>
audio   == <<apc, at>>
looks   == <<early, overtook>>
history == <<take, recorded, collected, restarted, looks>>
vars    == <<mem, stores, buffer, message, audio, history>>

Atomics == {"armed", "writing", "full", "written", "start"}
Threads == {"message", "audio"}

(* What a thread loads: its own latest store, or what everyone sees.        *)
Load(t, a) ==
  LET own == {i \in DOMAIN stores[t] : stores[t][i].atomic = a}
  IN  IF own = {} THEN mem[a]
      ELSE stores[t][CHOOSE i \in own : \A j \in own : j <= i].value

Store(t, sequence) ==
  /\ Len(stores[t]) <= MaxStores
  /\ stores' = [stores EXCEPT ![t] = @ \o sequence]

Put(a, v) == [atomic |-> a, value |-> v]

(* A look at the other's flag, with the own one perhaps not yet seen.       *)
Look(t) ==
  /\ early'    = [early EXCEPT ![t] = stores[t] # <<>>]
  /\ overtook' = (overtook \/ stores[t] # <<>>)

Init ==
  /\ mem = [a \in Atomics |-> CASE a = "written" -> 0 [] a = "start" -> -1 [] OTHER -> FALSE]
  /\ stores = [t \in Threads |-> <<>>]
  /\ buffer = [i \in 1 .. Capacity |-> 0]
  /\ mpc = "idle" /\ mop = "take" /\ count = 0
  /\ apc = "idle" /\ at = 0
  /\ take = 0 /\ recorded = 0 /\ collected = TRUE /\ restarted = FALSE
  /\ early = [t \in Threads |-> FALSE] /\ overtook = FALSE

(* A store reaches everyone. *)
Flush(t) ==
  /\ stores[t] # <<>>
  /\ mem'    = [mem EXCEPT ![Head(stores[t]).atomic] = Head(stores[t]).value]
  /\ stores' = [stores EXCEPT ![t] = Tail(@)]
  /\ UNCHANGED <<buffer, message, audio, history>>

-----------------------------------------------------------------------------
(* Message thread. *)

(* A block is between writeBlock's first line and its last, or may yet be:   *)
(* the recorder is armed, or about to be seen so.                           *)
BlockMayRun ==
  \/ mem["armed"] \/ \E i \in DOMAIN stores["message"] : stores["message"][i] = Put("armed", TRUE)
  \/ apc # "idle" \/ stores["audio"] # <<>>

(* start() asks nothing: a take that nobody has collected is begun anew.    *)
Start ==
  /\ mpc = "idle" /\ take < MaxTakes
  /\ Store("message", <<Put("written", 0), Put("full", FALSE), Put("start", -1),
                        Put("armed", TRUE)>>)
  /\ take' = take + 1 /\ recorded' = 0 /\ collected' = FALSE
  /\ restarted' = (~collected /\ BlockMayRun)
  /\ UNCHANGED <<mem, buffer, message, audio, looks>>

(* stop(); also audioDeviceStopped(). *)
Stop ==
  /\ mpc = "idle"
  /\ Store("message", <<Put("armed", FALSE)>>)
  /\ UNCHANGED <<mem, buffer, message, audio, history>>

(* take() and prepare() disarm first ...  *)
Disarm(op) ==
  /\ mpc = "idle"
  /\ Store("message", <<Put("armed", FALSE)>>)
  /\ mpc' = "wait" /\ mop' = op
  /\ UNCHANGED <<mem, buffer, count, audio, history>>

(* Mutant: nothing is waited for. *)
AwaitNothing ==
  /\ mpc = "wait"
  /\ Look("message")
  /\ mpc'   = mop
  /\ count' = Load("message", "written")
  /\ UNCHANGED <<mem, stores, buffer, mop, audio, take, recorded, collected, restarted>>

(* ... yield while a block is still inside the buffer ... *)
Spin ==
  /\ mpc = "wait"
  /\ Load("message", "writing")
  /\ UNCHANGED vars

AwaitBlock ==
  /\ mpc = "wait"
  /\ ~Load("message", "writing")
  /\ Look("message")
  /\ mpc'   = mop
  /\ count' = Load("message", "written")
  /\ UNCHANGED <<mem, stores, buffer, mop, audio, take, recorded, collected, restarted>>

(* ... and take() has copied the recording out, *)
TakeOut ==
  /\ mpc = "take"
  /\ Store("message", <<Put("written", 0), Put("full", FALSE)>>)
  /\ mpc' = "idle"
  /\ collected' = TRUE
  /\ UNCHANGED <<mem, buffer, mop, count, audio, take, recorded, restarted, looks>>

(* or prepare() has replaced the buffer. *)
Resize ==
  /\ mpc = "prepare"
  /\ buffer' = [i \in 1 .. Capacity |-> 0]
  /\ Store("message", <<Put("written", 0), Put("full", FALSE), Put("start", -1)>>)
  /\ mpc' = "idle"
  /\ collected' = TRUE /\ recorded' = 0
  /\ UNCHANGED <<mem, mop, count, audio, take, restarted, looks>>

-----------------------------------------------------------------------------
(* Audio thread: writeBlock(). *)

CheckArmed ==
  /\ apc = "idle"
  /\ Load("audio", "armed")
  /\ apc' = "raise"
  /\ UNCHANGED <<mem, stores, buffer, message, at, history>>

RaiseWriting ==
  /\ apc = "raise"
  /\ Store("audio", <<Put("writing", TRUE)>>)
  /\ apc' = "recheck"
  /\ UNCHANGED <<mem, buffer, message, at, history>>

Stamped == IF Load("audio", "start") < 0 THEN <<Put("start", 0)>> ELSE <<>>

(* Mutant: no second look at armed. *)
RecheckNothing ==
  /\ apc = "recheck"
  /\ Look("audio")
  /\ at'  = Load("audio", "written")
  /\ apc' = "append"
  /\ Store("audio", Stamped)
  /\ UNCHANGED <<mem, buffer, message, take, recorded, collected, restarted>>

(* Mutant: disarmed, the block returns with the flag still up. *)
RecheckReturns ==
  /\ apc = "recheck"
  /\ Look("audio")
  /\ at' = Load("audio", "written")
  /\ \/ /\ Load("audio", "armed") /\ apc' = "append" /\ Store("audio", Stamped)
     \/ /\ ~Load("audio", "armed") /\ apc' = "idle" /\ UNCHANGED stores
  /\ UNCHANGED <<mem, buffer, message, take, recorded, collected, restarted>>

(* armed is looked at again under the flag. *)
Recheck ==
  /\ apc = "recheck"
  /\ Look("audio")
  /\ at' = Load("audio", "written")
  /\ \/ /\ Load("audio", "armed") /\ apc' = "append" /\ Store("audio", Stamped)
     \/ /\ ~Load("audio", "armed") /\ apc' = "lower" /\ UNCHANGED stores
  /\ UNCHANGED <<mem, buffer, message, take, recorded, collected, restarted>>

MinOf(a, b) == IF a < b THEN a ELSE b

(* The samples that fit; a full buffer disarms. *)
AppendBlock ==
  LET n == MinOf(BlockLen, Capacity - at)
  IN  /\ apc = "append"
      /\ buffer'   = [i \in 1 .. Capacity |-> IF i > at /\ i <= at + n THEN take ELSE buffer[i]]
      /\ recorded' = recorded + n
      /\ Store("audio", (IF n > 0 THEN <<Put("written", at + n)>> ELSE <<>>)
                          \o (IF at + n >= Capacity
                              THEN <<Put("full", TRUE), Put("armed", FALSE)>> ELSE <<>>))
      /\ apc' = "lower"
      /\ UNCHANGED <<mem, message, at, take, collected, restarted, looks>>

LowerWriting ==
  /\ apc = "lower"
  /\ Store("audio", <<Put("writing", FALSE)>>)
  /\ apc' = "idle"
  /\ UNCHANGED <<mem, buffer, message, at, history>>

-----------------------------------------------------------------------------
MessageNext == Start \/ Stop \/ Disarm("take") \/ Disarm("prepare") \/ Spin \/ AwaitBlock
                 \/ TakeOut \/ Resize
AudioNext   == CheckArmed \/ RaiseWriting \/ Recheck \/ AppendBlock \/ LowerWriting

Next == MessageNext \/ AudioNext \/ \E t \in Threads : Flush(t)

Spec == Init /\ [][Next]_vars

(* A store becomes visible, a block that has begun runs to its end, and the *)
(* spinning thread is scheduled.                                            *)
FairSpec ==
  /\ Spec
  /\ \A t \in Threads : WF_vars(Flush(t))
  /\ WF_vars(AudioNext)
  /\ WF_vars(AwaitBlock) /\ WF_vars(TakeOut) /\ WF_vars(Resize)

-----------------------------------------------------------------------------
TypeOK ==
  /\ mem.armed \in BOOLEAN /\ mem.writing \in BOOLEAN /\ mem.full \in BOOLEAN
  /\ mem.written \in 0 .. Capacity /\ mem.start \in {-1, 0}
  /\ buffer \in [1 .. Capacity -> 0 .. MaxTakes]
  /\ mpc \in {"idle", "wait", "take", "prepare"} /\ mop \in {"take", "prepare"}
  /\ count \in 0 .. Capacity
  /\ apc \in {"idle", "raise", "recheck", "append", "lower"} /\ at \in 0 .. Capacity

Collision == apc = "append" /\ mpc \in {"take", "prepare"}

(* InputRecorder.cpp:54: "take() must never read a buffer this block is still *)
(* appending to" - nor prepare() replace it. (It may: each stores its own    *)
(* flag and then loads the other's, and release and acquire let both loads  *)
(* come first.)                                                             *)
Exclusive == ~Collision

(* Where the handshake breaks, and nowhere else: a block is inside the       *)
(* buffer that take() reads or prepare() replaces only if its second look    *)
(* at `armed`, or the look at `writing` that ended the wait, overtook the    *)
(* store just before it.                                                    *)
ExclusiveWhenSeen == Collision => early["audio"] \/ early["message"]

(* What take() hands out is the take: every sample recorded since start(),  *)
(* none of an earlier one - while no look has overtaken a store, unless     *)
(* start() began it anew under a block.                                     *)
TakeIsTheTake ==
  mpc = "take" /\ take > 0 /\ ~collected /\ ~restarted /\ ~overtook =>
    /\ count = recorded
    /\ \A i \in 1 .. count : buffer[i] = take

(* take() and prepare() return: no block keeps them spinning.               *)
WaitEnds == mpc = "wait" ~> mpc = "idle"
=============================================================================
