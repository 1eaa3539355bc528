--------------------------- MODULE SequencerProofs ---------------------------
(***************************************************************************)
(* The pattern hand-off of engine/Sequencer.cpp, for any number of calls    *)
(* and any bar length: it uses the triple buffer as its two threads should, *)
(* the last request wins, a queued pattern takes over on a bar line, and,   *)
(* until a call overlaps applyIncomingPattern(), it is the channel that     *)
(* Sequencer.h promises.                                                    *)
(*                                                                         *)
(* Every step of the sequencer is a step of the triple buffer or leaves it  *)
(* alone, so the invariant proved of TripleBuffer is one of the sequencer,  *)
(* and what is shown here of the mode, the pattern that waits and the one   *)
(* that plays rests on it.                                                  *)
(***************************************************************************)
EXTENDS Sequencer, TLAPS

TBP == INSTANCE TripleBufferProofs

(* The versions handed over and the modes they were handed over with.       *)
Handed ==
  /\ version \in 0 .. MaxVersions
  /\ modeOf \in [1 .. MaxVersions -> 0 .. 2]

(* Each half of the triple buffer is used inside the call it belongs to. *)
Inside ==
  /\ wpc # "idle" => mpc = "publish"
  /\ rpc # "idle" => apc = "read"
  /\ mpc = "publish" => callMode \in {Immediate, Queued} /\ version > 0
  /\ incomingMode # 0 => version > 0
  /\ apc = "read" => mode \in {Immediate, Queued} /\ version > 0

(* With every call returned and its mode taken, the newest version is on    *)
(* its way to this block, or waits, or plays.                               *)
Newest ==
  (mpc # "publish" /\ incomingMode = 0 /\ ~straddled) =>
    IF apc = "read" THEN rpc # "idle" => ~hasNew
    ELSE IF hasQueued THEN queued = version ELSE active = version

IInv == TBP!IInv /\ TypeOK /\ Handed /\ Inside /\ Newest

(* Until a call overlaps applyIncomingPattern(): the mode the block took is *)
(* that of the version it reads.                                            *)
Apart ==
  ~overlapped =>
    /\ Applying => mpc # "publish"
    /\ ~straddled
    /\ apc = "read" => incomingMode = 0 /\ mode = modeOf[version]
    /\ mpc = "publish" => callMode = modeOf[version]
    /\ mpc # "publish" /\ incomingMode # 0 => incomingMode = modeOf[version]

-----------------------------------------------------------------------------
(* The triple buffer of Sequencer is the one of TripleBufferProofs. *)
LEMMA SameBuffer ==
  /\ TB!Init <=> TBP!Init
  /\ TB!Next <=> TBP!Next
  /\ TB!vars = TBP!vars
  /\ TB!TypeOK <=> TBP!TypeOK
  <1>1. TB!Init <=> TBP!Init
    BY Zenon DEF TB!Init, TBP!Init, TB!Indices, TBP!Indices
  <1>2. TB!Next <=> TBP!Next
    BY Zenon DEF TB!Next, TB!Write, TB!Read, TBP!Next, TBP!Write, TBP!Read, TB!Torn, TBP!Torn,
                 TB!BeginFill, TB!EndFill, TB!PublishSwap, TB!PublishFlag, TB!ReadFlag,
                 TB!ReadSwap, TB!ReadCopy, TBP!BeginFill, TBP!EndFill, TBP!PublishSwap,
                 TBP!PublishFlag, TBP!ReadFlag, TBP!ReadSwap, TBP!ReadCopy
  <1>3. TB!vars = TBP!vars
    BY DEF TB!vars, TBP!vars
  <1>4. TB!TypeOK <=> TBP!TypeOK
    BY Zenon DEF TB!TypeOK, TBP!TypeOK, TB!Indices, TBP!Indices, TB!Torn, TBP!Torn
  <1>5. QED
    BY <1>1, <1>2, <1>3, <1>4

(* A step is one of the triple buffer's, or leaves it alone. *)
LEMMA NextBuffer == [Next]_vars => [TB!Next]_(TB!vars)
  BY DEF Next, MessageNext, AudioNext, SetPattern, QueuePattern, Call, Publish, StoreMode,
         RequestReset, SetPlaying, Stop, TakeReset, LoadPlaying, ExchangeMode, ReadIncoming,
         CopyIncoming, Settle, FireStep, EndBlock, Prepare, vars, buffer,
         TB!Next, TB!Write, TB!Read, TB!vars

LEMMA InitTB == Init => TBP!IInv
  BY SameBuffer, TBP!InitIInv DEF Init

LEMMA NextTB == TBP!IInv /\ [Next]_vars => TBP!IInv'
  <1>2. TBP!IInv /\ [TBP!Next]_(TBP!vars) => TBP!IInv'
    BY TBP!NextIInv
  <1>3. [Next]_vars => [TBP!Next]_(TBP!vars)
    <2>1. [TB!Next]_(TB!vars) => [TBP!Next]_(TBP!vars)
      BY SameBuffer, Zenon DEF TB!vars, TBP!vars
    <2>2. QED
      BY <2>1, NextBuffer
  <1>4. QED
    BY <1>2, <1>3

(* What the invariant of the triple buffer says where the sequencer reads.  *)
LEMMA ReadResult ==
  ASSUME TBP!IInv, version \in 0 .. MaxVersions
  PROVE  /\ buffers[readIndex] \in 0 .. MaxVersions /\ got \in 0 .. MaxVersions
         /\ (wpc = "idle" /\ ~straddled /\ ~hasNew /\ rpc # "swap")
              => buffers[readIndex] = version
  <1>1. TBP!Latest \in Int /\ TBP!Latest <= version /\ (wpc = "idle" => TBP!Latest = version)
    BY DEF TBP!Latest
  <1>2. buffers[readIndex] \in 0 .. TBP!Latest /\ got \in 0 .. TBP!Latest
    BY DEF TBP!IInv, TBP!NoTornRead
  <1>3. buffers[readIndex] \in 0 .. MaxVersions /\ got \in 0 .. MaxVersions
    BY <1>1, <1>2, SequencerAssumption
  <1>4. (~straddled /\ ~hasNew /\ wpc = "idle" /\ rpc # "swap")
          => buffers[readIndex] = TBP!Latest
    BY DEF TBP!IInv, TBP!AnnouncedOrHeld
  <1>5. QED
    BY <1>1, <1>3, <1>4

-----------------------------------------------------------------------------
(* The types, apart from those of the triple buffer. *)
Flags ==
  /\ playing \in BOOLEAN /\ resetRequested \in BOOLEAN /\ nowPlaying \in BOOLEAN
  /\ hasQueued \in BOOLEAN /\ switchQueued \in BOOLEAN
  /\ pressed \in BOOLEAN /\ overlapped \in BOOLEAN

Numbers ==
  /\ incomingMode \in 0 .. 2 /\ mode \in 0 .. 2 /\ callMode \in 0 .. 2
  /\ mpc \in {"idle", "publish", "play"}
  /\ apc \in {"idle", "playing", "mode", "read", "settle", "steps"}
  /\ active \in 0 .. MaxVersions /\ queued \in 0 .. MaxVersions
  /\ switchCount \in Nat
  /\ nextStep \in 0 .. MaxStep + 1 /\ currentStep \in -1 .. MaxStep

OwnTypes == Flags /\ Numbers

LEMMA TypesSplit == TypeOK <=> TB!TypeOK /\ OwnTypes
  BY SMT DEF TypeOK, OwnTypes, Flags, Numbers

LEMMA TypesSplitNext == TypeOK' <=> TB!TypeOK' /\ OwnTypes'
  BY SMT DEF TypeOK, OwnTypes, Flags, Numbers

LEMMA InitIInv == Init => IInv
  <1> SUFFICES ASSUME Init PROVE IInv
    OBVIOUS
  <1>1. TBP!IInv
    BY InitTB
  <1>2. TB!Init
    BY DEF Init
  <1>3. /\ version = 0 /\ wpc = "idle" /\ rpc = "idle"
    BY <1>2 DEF TB!Init
  <1>4. OwnTypes
    <2>1. Flags
      BY Zenon DEF Init, Flags
    <2>2. Numbers
      BY SequencerAssumption DEF Init, Numbers
    <2>3. QED
      BY <2>1, <2>2 DEF OwnTypes
  <1>5. TypeOK
    BY <1>1, <1>4, SameBuffer, TypesSplit DEF TBP!IInv
  <1>6. Handed
    BY <1>3, SequencerAssumption DEF Init, Handed
  <1>7. Inside /\ Newest
    BY <1>3 DEF Init, Inside, Newest
  <1>8. QED
    BY <1>1, <1>5, <1>6, <1>7 DEF IInv

(* Each conjunct of the invariant is kept by every step. *)
LEMMA NextFlags == Flags /\ [Next]_vars => Flags'
  <1> SUFFICES ASSUME Flags, [Next]_vars PROVE Flags'
    OBVIOUS
  <1>1. CASE MessageNext
    BY <1>1, Zenon DEF Flags, MessageNext, SetPattern, QueuePattern, Call, Publish, StoreMode,
                       RequestReset, SetPlaying, Stop, message, local, switch, clock
  <1>2. CASE TakeReset \/ LoadPlaying \/ ExchangeMode \/ ReadIncoming
    BY <1>2, Zenon DEF Flags, TakeReset, LoadPlaying, ExchangeMode, ReadIncoming,
                       message, local, switch, clock
  <1>3. CASE CopyIncoming \/ EndBlock \/ Prepare
    BY <1>3, Zenon DEF Flags, CopyIncoming, EndBlock, Prepare, message, local, switch, clock
  <1>4. CASE Settle \/ FireStep
    <2>1. UNCHANGED <<playing, resetRequested, nowPlaying, overlapped, pressed>>
      BY <1>4 DEF Settle, FireStep, local
    <2>2. Swap \/ UNCHANGED switch
      BY <1>4 DEF Settle, FireStep
    <2>3. hasQueued' \in BOOLEAN /\ switchQueued' \in BOOLEAN
      BY <2>2, Zenon DEF Swap, switch, Flags
    <2>4. QED
      BY <2>1, <2>3, Zenon DEF Flags
  <1>5. CASE UNCHANGED vars
    BY <1>5, Zenon DEF Flags, vars, message, local, switch, clock
  <1>6. QED
    BY <1>1, <1>2, <1>3, <1>4, <1>5 DEF Next, AudioNext

LEMMA NextNumbers == IInv /\ [Next]_vars => Numbers'
  <1> SUFFICES ASSUME IInv, [Next]_vars PROVE Numbers'
    OBVIOUS
  <1> USE SequencerAssumption
  <1>1. Numbers /\ Handed
    BY TypesSplit DEF IInv, OwnTypes
  <1>2. buffers[readIndex] \in 0 .. MaxVersions
    BY ReadResult DEF IInv, Handed
  <1>3. CASE SetPattern \/ QueuePattern
    BY <1>1, <1>3 DEF Numbers, SetPattern, QueuePattern, Call, switch, clock, Immediate, Queued
  <1>4. CASE Publish \/ StoreMode
    BY <1>1, <1>4 DEF Numbers, Publish, StoreMode, message, local, switch, clock
  <1>5. CASE RequestReset \/ SetPlaying \/ Stop
    BY <1>1, <1>5 DEF Numbers, RequestReset, SetPlaying, Stop, message, local, switch, clock
  <1>6. CASE TakeReset \/ LoadPlaying \/ ExchangeMode
    BY <1>1, <1>6 DEF Numbers, TakeReset, LoadPlaying, ExchangeMode, message, local, switch, clock
  <1>7. CASE ReadIncoming \/ EndBlock \/ Prepare
    BY <1>1, <1>7 DEF Numbers, ReadIncoming, EndBlock, Prepare, message, local, switch, clock
  <1>8. CASE CopyIncoming
    BY <1>1, <1>2, <1>8 DEF Numbers, CopyIncoming, TB!ReadCopy, message, local, clock
  <1>9. CASE Settle
    BY <1>1, <1>9 DEF Numbers, Settle, Swap, message, local, switch, clock
  <1>10. CASE FireStep
    BY <1>1, <1>10 DEF Numbers, FireStep, Swap, message, local, switch
  <1>11. CASE UNCHANGED vars
    BY <1>1, <1>11 DEF Numbers, vars, message, local, switch, clock
  <1>12. QED
    BY <1>3, <1>4, <1>5, <1>6, <1>7, <1>8, <1>9, <1>10, <1>11 DEF Next, MessageNext, AudioNext

LEMMA NextOwnTypes == IInv /\ [Next]_vars => OwnTypes'
  BY NextFlags, NextNumbers, TypesSplit DEF IInv, OwnTypes

LEMMA NextHanded == IInv /\ [Next]_vars => Handed'
  <1> SUFFICES ASSUME IInv, [Next]_vars PROVE Handed'
    OBVIOUS
  <1> USE SequencerAssumption
  <1>1. Handed
    BY DEF IInv
  <1>2. CASE SetPattern \/ QueuePattern
    <2>1. PICK m \in {Immediate, Queued} : Call(m)
      BY <1>2 DEF SetPattern, QueuePattern
    <2>2. version < MaxVersions /\ version' = version + 1
          /\ modeOf' = [modeOf EXCEPT ![version'] = m]
      BY <2>1 DEF Call, TB!BeginFill
    <2>3. QED
      BY <1>1, <2>2 DEF Handed, Immediate, Queued
  <1>3. CASE UNCHANGED <<version, modeOf>>
    BY <1>1, <1>3 DEF Handed
  <1>4. ASSUME ~(SetPattern \/ QueuePattern) PROVE UNCHANGED <<version, modeOf>>
    BY <1>4 DEF Next, MessageNext, AudioNext, Publish, StoreMode,
         RequestReset, SetPlaying, Stop, TakeReset, LoadPlaying, ExchangeMode, ReadIncoming,
         CopyIncoming, Settle, FireStep, EndBlock, Prepare, vars, buffer, message,
         TB!EndFill, TB!PublishSwap, TB!PublishFlag, TB!ReadFlag, TB!ReadSwap, TB!ReadCopy
  <1>5. QED
    BY <1>2, <1>3, <1>4

LEMMA NextInside == IInv /\ [Next]_vars => Inside'
  <1> SUFFICES ASSUME IInv, [Next]_vars PROVE Inside'
    OBVIOUS
  <1>1. OwnTypes /\ Inside /\ version \in Nat
    BY TypesSplit, SequencerAssumption DEF IInv, Handed
  <1> USE DEF Inside, Immediate, Queued
  <1>2. CASE SetPattern \/ QueuePattern
    BY <1>1, <1>2 DEF SetPattern, QueuePattern, Call, TB!BeginFill
  <1>3. CASE Publish
    BY <1>1, <1>3 DEF Publish, TB!EndFill, TB!PublishSwap, TB!PublishFlag, message, local
  <1>4. CASE StoreMode \/ RequestReset \/ SetPlaying \/ Stop
    BY <1>1, <1>4 DEF StoreMode, RequestReset, SetPlaying, Stop, buffer, message, local
  <1>5. CASE TakeReset \/ LoadPlaying \/ ExchangeMode
    BY <1>1, <1>5 DEF TakeReset, LoadPlaying, ExchangeMode, buffer, message, local, OwnTypes, Flags, Numbers
  <1>6. CASE ReadIncoming
    BY <1>1, <1>6 DEF ReadIncoming, TB!ReadFlag, TB!ReadSwap, message, local
  <1>7. CASE CopyIncoming
    BY <1>1, <1>7 DEF CopyIncoming, TB!ReadCopy, message, local
  <1>8. CASE Settle \/ FireStep \/ EndBlock \/ Prepare
    BY <1>1, <1>8 DEF Settle, FireStep, EndBlock, Prepare, buffer, message, local
  <1>9. CASE UNCHANGED vars
    BY <1>1, <1>9 DEF vars, buffer, message, local
  <1>10. QED
    BY <1>2, <1>3, <1>4, <1>5, <1>6, <1>7, <1>8, <1>9 DEF Next, MessageNext, AudioNext

LEMMA NextNewest == IInv /\ [Next]_vars => Newest'
  <1> SUFFICES ASSUME IInv, [Next]_vars PROVE Newest'
    OBVIOUS
  <1>1. OwnTypes /\ Inside /\ Newest /\ version \in 0 .. MaxVersions
    BY TypesSplit DEF IInv, Handed
  <1>2. hasNew \in BOOLEAN /\ straddled \in BOOLEAN
    BY DEF IInv, TBP!IInv, TBP!TypeOK
  <1> USE DEF Newest
  <1>3. CASE SetPattern \/ QueuePattern
    BY <1>3 DEF SetPattern, QueuePattern, Call
  <1>4. CASE Publish
    BY <1>1, <1>4 DEF Publish, message
  <1>5. CASE StoreMode
    BY <1>1, <1>5 DEF StoreMode, Inside, Immediate, Queued
  <1>6. CASE RequestReset \/ SetPlaying \/ Stop
    BY <1>1, <1>6 DEF RequestReset, SetPlaying, Stop, buffer, switch
  <1>7. CASE TakeReset \/ LoadPlaying
    BY <1>1, <1>7 DEF TakeReset, LoadPlaying, buffer, switch, message
  <1>8. CASE ExchangeMode
    BY <1>1, <1>8 DEF ExchangeMode, buffer, switch, message, Inside
  <1>9. CASE ReadIncoming
    <2>1. CASE TB!ReadFlag
      BY <1>1, <1>2, <1>9, <2>1 DEF ReadIncoming, TB!ReadFlag, message, switch
    <2>2. CASE TB!ReadSwap
      BY <1>1, <1>2, <1>9, <2>2 DEF ReadIncoming, TB!ReadSwap, message, switch
    <2>3. QED
      BY <1>9, <2>1, <2>2 DEF ReadIncoming
  <1>10. CASE CopyIncoming
    <2> SUFFICES ASSUME mpc' # "publish", incomingMode' = 0, ~straddled'
                 PROVE  IF hasQueued' THEN queued' = version' ELSE active' = version'
      BY <1>10 DEF CopyIncoming
    <2>1. /\ mpc # "publish" /\ incomingMode = 0 /\ ~straddled
          /\ apc = "read" /\ rpc = "copy" /\ version' = version
          /\ got' = buffers[readIndex]
      BY <1>10 DEF CopyIncoming, TB!ReadCopy, message
    <2>2. wpc = "idle" /\ ~hasNew /\ mode \in {Immediate, Queued}
      BY <1>1, <2>1 DEF Inside
    <2>3. got' = version
      BY <1>1, <2>1, <2>2, ReadResult DEF IInv
    <2>4. QED
      BY <1>10, <2>1, <2>2, <2>3 DEF CopyIncoming, Immediate, Queued
  <1>11. CASE Settle
    BY <1>1, <1>11 DEF Settle, Swap, buffer, switch, message
  <1>12. CASE FireStep
    BY <1>1, <1>12 DEF FireStep, Swap, buffer, switch, message
  <1>13. CASE EndBlock \/ Prepare
    BY <1>1, <1>13 DEF EndBlock, Prepare, buffer, switch, message
  <1>14. CASE UNCHANGED vars
    BY <1>1, <1>14 DEF vars, buffer, switch, message
  <1>15. QED
    BY <1>3, <1>4, <1>5, <1>6, <1>7, <1>8, <1>9, <1>10, <1>11, <1>12, <1>13, <1>14
    DEF Next, MessageNext, AudioNext

LEMMA NextIInv == IInv /\ [Next]_vars => IInv'
  <1> SUFFICES ASSUME IInv, [Next]_vars PROVE IInv'
    OBVIOUS
  <1>1. TBP!IInv'
    BY NextTB DEF IInv
  <1>2. TB!TypeOK'
    BY <1>1, Zenon DEF TBP!IInv, TB!TypeOK, TBP!TypeOK, TB!Indices, TBP!Indices, TB!Torn, TBP!Torn
  <1>3. TypeOK'
    BY <1>2, NextOwnTypes, TypesSplitNext
  <1>4. QED
    BY <1>1, <1>3, NextHanded, NextInside, NextNewest DEF IInv

-----------------------------------------------------------------------------
(* Until a call overlaps the two reads of a block, neither sees the other.  *)
LEMMA InitApart == Init => Apart
  <1> SUFFICES ASSUME Init PROVE Apart
    OBVIOUS
  <1>1. straddled = FALSE
    BY DEF Init, TB!Init
  <1>2. QED
    BY <1>1 DEF Init, Apart, Applying

LEMMA NextApart == IInv /\ Apart /\ [Next]_vars => Apart'
  <1> SUFFICES ASSUME IInv, Apart, [Next]_vars, ~overlapped'
               PROVE  Apart'
    BY DEF Apart
  <1>1. OwnTypes /\ Inside /\ Newest /\ version \in 0 .. MaxVersions
        /\ modeOf \in [1 .. MaxVersions -> 0 .. 2] /\ MaxVersions \in Nat
    BY TypesSplit, SequencerAssumption DEF IInv, Handed
  <1>2. hasNew \in BOOLEAN /\ straddled \in BOOLEAN
    BY DEF IInv, TBP!IInv, TBP!TypeOK
  <1>3. ~overlapped
    BY <1>1 DEF Next, MessageNext, AudioNext, SetPattern, QueuePattern, Call, Publish, StoreMode,
         RequestReset, SetPlaying, Stop, TakeReset, LoadPlaying, ExchangeMode, ReadIncoming,
         CopyIncoming, Settle, FireStep, EndBlock, Prepare, vars, local, OwnTypes, Flags, Numbers
  <1>4. /\ Applying => mpc # "publish"
        /\ ~straddled
        /\ apc = "read" => incomingMode = 0 /\ mode = modeOf[version]
        /\ mpc = "publish" => callMode = modeOf[version]
        /\ mpc # "publish" /\ incomingMode # 0 => incomingMode = modeOf[version]
    BY <1>3 DEF Apart
  <1> USE DEF Apart, Applying
  <1>5. CASE SetPattern \/ QueuePattern
    <2>1. PICK m \in {Immediate, Queued} : Call(m)
      BY <1>5 DEF SetPattern, QueuePattern
    <2>2. /\ version' = version + 1 /\ version < MaxVersions /\ straddled' = straddled
          /\ modeOf' = [modeOf EXCEPT ![version'] = m]
          /\ mpc' = "publish" /\ callMode' = m /\ apc' = apc
          /\ overlapped' = (overlapped \/ Applying)
      BY <2>1 DEF Call, TB!BeginFill
    <2>3. ~Applying
      BY <2>2
    <2>4. modeOf'[version'] = m
      BY <1>1, <2>2
    <2>5. QED
      BY <1>4, <2>2, <2>3, <2>4
  <1>6. CASE Publish
    BY <1>1, <1>4, <1>6
    DEF Publish, TB!EndFill, TB!PublishSwap, TB!PublishFlag, message, local
  <1>7. CASE StoreMode
    BY <1>1, <1>4, <1>7 DEF StoreMode, buffer, local
  <1>8. CASE RequestReset \/ SetPlaying \/ Stop
    BY <1>1, <1>4, <1>8 DEF RequestReset, SetPlaying, Stop, buffer, message, local
  <1>9. CASE TakeReset
    BY <1>1, <1>4, <1>9 DEF TakeReset, buffer, message, local
  <1>10. CASE LoadPlaying
    BY <1>1, <1>3, <1>4, <1>10 DEF LoadPlaying, buffer, message, OwnTypes, Flags
  <1>11. CASE ExchangeMode
    BY <1>1, <1>4, <1>11 DEF ExchangeMode, buffer, message, Inside
  <1>12. CASE ReadIncoming
    <2>1. wpc = "idle" /\ mpc # "publish"
      BY <1>1, <1>4, <1>12 DEF Inside, ReadIncoming
    <2>2. CASE TB!ReadFlag
      BY <1>1, <1>4, <1>12, <2>2 DEF ReadIncoming, TB!ReadFlag, message, local
    <2>3. CASE TB!ReadSwap
      <3>1. ~hasNew
        BY <1>1, <1>4, <1>12, <2>1, <2>3 DEF Newest, ReadIncoming, TB!ReadSwap
      <3>2. ~straddled'
        BY <1>2, <1>4, <2>1, <2>3, <3>1 DEF TB!ReadSwap
      <3>3. QED
        BY <1>1, <1>4, <1>12, <2>3, <3>2 DEF ReadIncoming, TB!ReadSwap, message, local
    <2>4. QED
      BY <1>12, <2>2, <2>3 DEF ReadIncoming
  <1>13. CASE CopyIncoming
    BY <1>1, <1>4, <1>13 DEF CopyIncoming, TB!ReadCopy, message, local
  <1>14. CASE Settle \/ FireStep \/ EndBlock \/ Prepare
    BY <1>1, <1>4, <1>14 DEF Settle, FireStep, EndBlock, Prepare, buffer, message, local
  <1>15. CASE UNCHANGED vars
    BY <1>1, <1>4, <1>15 DEF vars, buffer, message, local
  <1>16. QED
    BY <1>5, <1>6, <1>7, <1>8, <1>9, <1>10, <1>11, <1>12, <1>13, <1>14, <1>15
    DEF Next, MessageNext, AudioNext

(* What the block then hands on is the version it announced. *)
LEMMA CopiesNewest ==
  ASSUME IInv, Apart, ~overlapped, CopyIncoming
  PROVE  /\ got' = version /\ version > 0 /\ version' = version
         /\ mode = modeOf[version] /\ mode \in {Immediate, Queued} /\ modeOf' = modeOf
         /\ incomingMode = 0
  <1>1. Inside /\ Newest /\ version \in 0 .. MaxVersions
    BY DEF IInv, Handed
  <1>2. apc = "read" /\ rpc = "copy" /\ mpc # "publish" /\ ~straddled /\ incomingMode = 0
        /\ mode = modeOf[version]
    BY DEF CopyIncoming, TB!ReadCopy, Apart, Applying
  <1>3. wpc = "idle" /\ ~hasNew /\ version > 0 /\ mode \in {Immediate, Queued}
    BY <1>1, <1>2 DEF Inside, Newest
  <1>4. buffers[readIndex] = version
    BY <1>1, <1>2, <1>3, ReadResult DEF IInv
  <1>5. QED
    BY <1>2, <1>3, <1>4 DEF CopyIncoming, TB!ReadCopy, message

-----------------------------------------------------------------------------
(* The sequencer is a user of the triple buffer whose writer and reader each *)
(* make one call at a time (Sequencer.h:17: setPattern and queuePattern on  *)
(* the message thread, process on the audio thread).                        *)
THEOREM SpecUsesTripleBuffer == Spec => UsesTripleBuffer
  <1>1. Init => TB!Init
    BY DEF Init
  <1>2. QED
    BY <1>1, NextBuffer, PTL DEF Spec, UsesTripleBuffer, TB!Spec

(* The inductive invariant of the hand-off holds throughout. *)
THEOREM SpecIInv == Spec => []IInv
  BY InitIInv, NextIInv, PTL DEF Spec

(* In the sequencer the three indices of the triple buffer stay a           *)
(* permutation of its buffers (TripleBuffer.h:54).                          *)
THEOREM SpecPermutation == Spec => []Permutation
  <1>1. IInv => Permutation
    BY DEF IInv, Permutation, TBP!IInv, TBP!Permutation, TB!Permutation, TB!Indices, TBP!Indices
  <1>2. QED
    BY <1>1, SpecIInv, PTL

(* The block never gets a pattern that is being written, nor is one on its  *)
(* way.                                                                     *)
THEOREM SpecNoTornRead == Spec => []NoTornRead
  <1>1. TB!Latest = TBP!Latest
    BY DEF TB!Latest, TBP!Latest
  <1>2. IInv => NoTornRead
    BY <1>1 DEF IInv, NoTornRead, TBP!IInv, TBP!NoTornRead, TB!NoTornRead
  <1>3. QED
    BY <1>2, SpecIInv, PTL

(* With nothing announced the block has the newest pattern, unless a read   *)
(* straddled a publish and no other has followed.                           *)
THEOREM SpecFresh == Spec => []FreshUnlessStraddled
  <1>1. TB!Latest = TBP!Latest
    BY DEF TB!Latest, TBP!Latest
  <1>2. IInv => FreshUnlessStraddled
    BY <1>1 DEF IInv, FreshUnlessStraddled, TBP!IInv, TBP!AnnouncedOrHeld,
                TB!FreshUnlessStraddled
  <1>3. QED
    BY <1>2, SpecIInv, PTL

(* The pattern the block copies does not change while it does.              *)
THEOREM SpecSnapshotImmutable == Spec => SnapshotImmutable
  <1>1. ASSUME IInv, [Next]_vars
        PROVE  [rpc = "copy" => buffers'[readIndex] = buffers[readIndex]]_(TB!vars)
    <2>1. TBP!IInv
      BY <1>1 DEF IInv
    <2>2. [TBP!Next]_(TBP!vars)
      <3>1. [TB!Next]_(TB!vars) => [TBP!Next]_(TBP!vars)
        BY SameBuffer, Zenon DEF TB!vars, TBP!vars
      <3>2. QED
        BY <1>1, <3>1, NextBuffer
    <2>3. rpc = "copy" => buffers'[readIndex] = buffers[readIndex]
      BY <2>1, <2>2, TBP!NextSnapshot
    <2>4. QED
      BY <2>3
  <1>2. QED
    BY <1>1, SpecIInv, PTL DEF Spec, SnapshotImmutable, TB!SnapshotImmutable

(* Sequencer's state keeps its types, for any number of calls and any bar.  *)
THEOREM SpecTypeOK == Spec => []TypeOK
  BY SpecIInv, PTL DEF IInv

(* Once no call and no block is under way and nothing is requested or       *)
(* waits, the pattern of the last setPattern or queuePattern plays, unless  *)
(* a read() straddled a publish(): through any order of calls and blocks,   *)
(* those that overlap included.                                             *)
THEOREM SpecLastRequestWins == Spec => []LastRequestWins
  <1>1. IInv => LastRequestWins
    BY DEF IInv, Newest, LastRequestWins
  <1>2. QED
    BY <1>1, SpecIInv, PTL

(* Until a call overlaps applyIncomingPattern(), the mode of a block is that *)
(* of the version it reads.                                                 *)
THEOREM SpecApart == Spec => [](IInv /\ Apart)
  BY InitIInv, InitApart, NextIInv, NextApart, PTL DEF Spec

(* Sequencer.h:58, "swap in at next bar": while the transport runs, a       *)
(* queued pattern takes over on a bar line only, until a call has overlapped *)
(* applyIncomingPattern().                                                  *)
THEOREM SpecQueuedLandsOnBar == Spec => QueuedLandsOnBar
  <1>1. ASSUME IInv, Apart, [Next]_vars, QueuedTakesOver, nowPlaying, ~overlapped
        PROVE  OnBarLine
    <2>1. active' # active /\ modeOf[active'] = Queued
      BY <1>1 DEF QueuedTakesOver
    <2>2. ~CopyIncoming
      <3> SUFFICES ASSUME CopyIncoming PROVE FALSE
        OBVIOUS
      <3>1. got' = version /\ mode = modeOf[version] /\ modeOf' = modeOf
        BY <1>1, CopiesNewest
      <3>2. mode = Immediate /\ active' = version
        BY <2>1, <3>1 DEF CopyIncoming
      <3>3. modeOf[version] = Queued
        BY <2>1, <3>2, Zenon
      <3>4. Immediate # Queued
        BY DEF Immediate, Queued
      <3>5. QED
        BY <3>1, <3>2, <3>3, <3>4, Zenon
    <2>3. ~Settle
      BY <1>1, <2>1 DEF Settle, switch
    <2>4. FireStep
      BY <1>1, <2>1, <2>2, <2>3 DEF Next, MessageNext, AudioNext, SetPattern, QueuePattern, Call,
         Publish, StoreMode, RequestReset, SetPlaying, Stop, TakeReset, LoadPlaying, ExchangeMode,
         ReadIncoming, EndBlock, Prepare, vars, switch
    <2>5. QED
      BY <2>1, <2>4 DEF FireStep, OnBarLine, switch
  <1>2. IInv /\ Apart /\ [Next]_vars
          => [QueuedTakesOver => ~nowPlaying \/ OnBarLine \/ overlapped]_vars
    BY <1>1
  <1>3. QED
    BY <1>2, SpecApart, PTL DEF Spec, QueuedLandsOnBar

-----------------------------------------------------------------------------
(* The refinement. The abstract state, as a table over where the block is.  *)
AbsQueued == IF SettlesStopped THEN -1 ELSE Waiting
AbsCount  == IF SettlesStopped THEN switchCount + 1 ELSE switchCount

Held == IF hasQueued THEN queued ELSE -1

Shows(a, q, n) == AbsActive = a /\ AbsQueued = q /\ AbsCount = n

AbsTable ==
  /\ apc \notin {"read", "settle"} => Shows(active, Held, switchCount)
  /\ apc = "read" /\ mode = Immediate => Shows(version, -1, switchCount)
  /\ apc = "read" /\ mode = Queued /\ nowPlaying => Shows(active, version, switchCount)
  /\ apc = "read" /\ mode = Queued /\ ~nowPlaying => Shows(version, -1, switchCount + 1)
  /\ apc = "settle" /\ (nowPlaying \/ ~hasQueued) => Shows(active, Held, switchCount)
  /\ apc = "settle" /\ ~nowPlaying /\ hasQueued => Shows(queued, -1, switchCount + 1)

LEMMA TableNow == IInv => AbsTable
  <1> SUFFICES ASSUME IInv PROVE AbsTable
    OBVIOUS
  <1>1. version # -1 /\ queued # -1
    BY TypesSplit, SequencerAssumption DEF IInv, Handed, OwnTypes, Numbers
  <1>2. QED
    BY <1>1 DEF AbsTable, Shows, AbsActive, AbsQueued, AbsCount, SettlesStopped, Waiting, Held,
                Immediate, Queued

LEMMA TableNext == IInv' => AbsTable'
  <1> SUFFICES ASSUME IInv' PROVE AbsTable'
    OBVIOUS
  <1>1. version' # -1 /\ queued' # -1
    BY TypesSplitNext, SequencerAssumption DEF IInv, Handed, OwnTypes, Numbers
  <1>2. QED
    BY <1>1 DEF AbsTable, Shows, AbsActive, AbsQueued, AbsCount, SettlesStopped, Waiting, Held,
                Immediate, Queued

(* The channel's variables, by their abstract values. *)
LEMMA ChannelStutters ==
  ASSUME AbsRequest' = AbsRequest, AbsActive' = AbsActive, AbsQueued' = AbsQueued,
         AbsCount' = AbsCount
  PROVE  UNCHANGED PC!channel
  BY DEF PC!channel, AbsQueued, AbsCount

LEMMA ChannelRequests ==
  ASSUME NEW p \in 0 .. MaxVersions,
         \/ AbsRequest' = [mode |-> "immediate", pattern |-> p]
         \/ AbsRequest' = [mode |-> "queued", pattern |-> p],
         AbsActive' = AbsActive, AbsQueued' = AbsQueued, AbsCount' = AbsCount
  PROVE  PC!ChannelNext
  BY DEF PC!ChannelNext, PC!SetPattern, PC!QueuePattern, AbsQueued, AbsCount

LEMMA ChannelBarLine ==
  ASSUME AbsQueued # -1, AbsActive' = AbsQueued, AbsQueued' = -1, AbsCount' = AbsCount + 1,
         AbsRequest' = AbsRequest
  PROVE  PC!ChannelNext
  BY DEF PC!ChannelNext, PC!BarLine, AbsQueued, AbsCount

(* The mode of a request, and the pattern with it. *)
LEMMA RequestNow ==
  /\ incomingMode = 0 => AbsRequest = [mode |-> "none"]
  /\ incomingMode = Immediate => AbsRequest = [mode |-> "immediate", pattern |-> version]
  /\ incomingMode = Queued => AbsRequest = [mode |-> "queued", pattern |-> version]
  BY DEF AbsRequest, Immediate, Queued

LEMMA RequestNext ==
  /\ incomingMode' = 0 => AbsRequest' = [mode |-> "none"]
  /\ incomingMode' = Immediate => AbsRequest' = [mode |-> "immediate", pattern |-> version']
  /\ incomingMode' = Queued => AbsRequest' = [mode |-> "queued", pattern |-> version']
  BY DEF AbsRequest, Immediate, Queued

(* ExchangeMode is the channel's Apply. *)
LEMMA ExchangeApplies ==
  ASSUME IInv, IInv', ExchangeMode
  PROVE  PC!ChannelNext
  <1>1. /\ apc = "mode" /\ mode' = incomingMode /\ incomingMode' = 0 /\ nowPlaying' = nowPlaying
        /\ apc' = (IF incomingMode = 0 THEN "settle" ELSE "read")
        /\ active' = active /\ queued' = queued /\ hasQueued' = hasQueued
        /\ switchCount' = switchCount /\ version' = version
    BY DEF ExchangeMode, buffer, switch
  <1>2. Numbers /\ Flags /\ version \in Nat
    BY TypesSplit, SequencerAssumption DEF IInv, OwnTypes, Handed
  <1>3. AbsTable /\ AbsTable'
    BY TableNow, TableNext
  <1>4. Shows(active, Held, switchCount)
    BY <1>1, <1>3 DEF AbsTable
  <1>5. AbsRequest' = [mode |-> "none"]
    BY <1>1, RequestNext
  <1>6. Held' = Held
    BY <1>1 DEF Held
  <1> DEFINE w == CASE AbsRequest.mode = "immediate" -> -1
                    [] AbsRequest.mode = "queued" -> AbsRequest.pattern
                    [] OTHER -> AbsQueued
  <1>7. /\ ~nowPlaying /\ w # -1 =>
             AbsActive' = w /\ AbsQueued' = -1 /\ AbsCount' = switchCount + 1
        /\ nowPlaying \/ w = -1 =>
             /\ AbsActive' = IF AbsRequest.mode = "immediate" THEN AbsRequest.pattern ELSE AbsActive
             /\ AbsQueued' = w /\ AbsCount' = AbsCount
    <2>1. CASE incomingMode = 0
      <3>1. AbsRequest.mode = "none" /\ apc' = "settle"
        BY <1>1, <2>1, RequestNow
      <3>2. w = Held
        BY <1>4, <3>1 DEF Shows
      <3>3. Held # -1 <=> hasQueued
        BY <1>2 DEF Held, Numbers
      <3>4. hasQueued => Held = queued
        BY DEF Held
      <3>5. (nowPlaying \/ ~hasQueued) => Shows(active, Held, switchCount)'
        BY <1>1, <1>3, <3>1 DEF AbsTable
      <3>6. (~nowPlaying /\ hasQueued) => Shows(queued, -1, switchCount + 1)'
        BY <1>1, <1>3, <3>1 DEF AbsTable
      <3>7. QED
        BY <1>1, <1>4, <1>6, <3>1, <3>2, <3>3, <3>4, <3>5, <3>6 DEF Shows
    <2>2. CASE incomingMode = Immediate
      <3>1. AbsRequest.mode = "immediate" /\ AbsRequest.pattern = version
        BY <2>2, RequestNow
      <3>2. w = -1 /\ apc' = "read" /\ mode' = Immediate
        BY <1>1, <2>2, <3>1 DEF Immediate
      <3>3. Shows(version, -1, switchCount)'
        BY <1>3, <3>2 DEF AbsTable
      <3>4. QED
        BY <1>1, <1>4, <3>1, <3>2, <3>3 DEF Shows
    <2>3. CASE incomingMode = Queued
      <3>1. AbsRequest.mode = "queued" /\ AbsRequest.pattern = version
        BY <2>3, RequestNow
      <3>2. w = version /\ version # -1 /\ apc' = "read" /\ mode' = Queued
        BY <1>1, <1>2, <2>3, <3>1 DEF Queued
      <3>3. nowPlaying => Shows(active, version, switchCount)'
        BY <1>1, <1>3, <3>2 DEF AbsTable
      <3>4. ~nowPlaying => Shows(version, -1, switchCount + 1)'
        BY <1>1, <1>3, <3>2 DEF AbsTable
      <3>5. QED
        BY <1>1, <1>4, <3>1, <3>2, <3>3, <3>4 DEF Shows
    <2>4. QED
      BY <1>2, <2>1, <2>2, <2>3 DEF Numbers, Immediate, Queued
  <1>8. w = PC!WaitingAfterRequest
    BY DEF PC!WaitingAfterRequest, AbsQueued
  <1>9. AbsCount = switchCount /\ nowPlaying \in BOOLEAN
    BY <1>2, <1>4 DEF Shows, Flags
  <1> HIDE DEF w
  <1>10. CASE ~nowPlaying /\ w # -1
    <2>1. AbsActive' = w /\ AbsQueued' = -1 /\ AbsCount' = AbsCount + 1
      BY <1>1, <1>7, <1>9, <1>10 DEF Shows
    <2>2. PC!Apply(FALSE)
      BY <1>5, <1>8, <1>10, <2>1 DEF PC!Apply, PC!NoRequest, AbsQueued, AbsCount
    <2>3. QED
      BY <2>2 DEF PC!ChannelNext
  <1>11. CASE nowPlaying \/ w = -1
    <2>1. PC!Apply(nowPlaying)
      BY <1>5, <1>7, <1>8, <1>11 DEF PC!Apply, PC!NoRequest, AbsQueued, AbsCount
    <2>2. QED
      BY <1>9, <2>1 DEF PC!ChannelNext
  <1>12. QED
    BY <1>10, <1>11

(* Every other step is a request, a bar line, or none of the channel's.     *)
LEMMA StepImplements ==
  ASSUME IInv, IInv', Apart, [Next]_vars, ~overlapped'
  PROVE  PC!ChannelNext \/ UNCHANGED PC!channel
  <1>1. Numbers /\ Flags /\ Inside /\ version \in 0 .. MaxVersions
    BY TypesSplit DEF IInv, OwnTypes, Handed
  <1>2. version' \in 0 .. MaxVersions /\ Numbers' /\ Flags'
    BY TypesSplitNext DEF IInv, OwnTypes, Handed
  <1>3. AbsTable /\ AbsTable'
    BY TableNow, TableNext
  <1>4. ~overlapped
    BY <1>1 DEF Next, MessageNext, AudioNext, SetPattern, QueuePattern, Call, Publish, StoreMode,
         RequestReset, SetPlaying, Stop, TakeReset, LoadPlaying, ExchangeMode, ReadIncoming,
         CopyIncoming, Settle, FireStep, EndBlock, Prepare, vars, local, Flags
  <1>5. CASE SetPattern \/ QueuePattern
    <2>1. /\ ~Applying /\ apc' = apc /\ incomingMode' = incomingMode
          /\ active' = active /\ queued' = queued /\ hasQueued' = hasQueued
          /\ switchCount' = switchCount
      BY <1>1, <1>5 DEF SetPattern, QueuePattern, Call, switch, Flags
    <2>2. Shows(active, Held, switchCount) /\ Shows(active, Held, switchCount)'
      BY <1>3, <2>1 DEF AbsTable, Applying
    <2>3. Held' = Held
      BY <2>1 DEF Held
    <2>4. AbsActive' = AbsActive /\ AbsQueued' = AbsQueued /\ AbsCount' = AbsCount
      BY <2>1, <2>2, <2>3 DEF Shows
    <2>5. CASE incomingMode = 0
      BY <2>1, <2>4, <2>5, RequestNow, RequestNext, ChannelStutters
    <2>6. CASE incomingMode # 0
      <3>1. incomingMode' \in {Immediate, Queued}
        BY <1>1, <2>1, <2>6 DEF Numbers, Immediate, Queued
      <3>2. QED
        BY <1>2, <2>4, <3>1, RequestNext, ChannelRequests
    <2>7. QED
      BY <2>5, <2>6
  <1>6. CASE StoreMode
    <2>1. /\ mpc = "publish" /\ apc' = apc /\ incomingMode' = callMode /\ version' = version
          /\ active' = active /\ queued' = queued /\ hasQueued' = hasQueued
          /\ switchCount' = switchCount
      BY <1>6 DEF StoreMode, buffer, switch
    <2>2. ~Applying
      BY <1>4, <2>1 DEF Apart
    <2>3. Shows(active, Held, switchCount) /\ Shows(active, Held, switchCount)'
      BY <1>3, <2>1, <2>2 DEF AbsTable, Applying
    <2>4. Held' = Held
      BY <2>1 DEF Held
    <2>5. AbsActive' = AbsActive /\ AbsQueued' = AbsQueued /\ AbsCount' = AbsCount
      BY <2>1, <2>3, <2>4 DEF Shows
    <2>6. incomingMode' \in {Immediate, Queued}
      BY <1>1, <2>1 DEF Inside
    <2>7. QED
      BY <1>2, <2>5, <2>6, RequestNext, ChannelRequests
  <1>7. CASE Publish \/ RequestReset \/ SetPlaying \/ Stop \/ ReadIncoming \/ UNCHANGED vars
    <2>1. UNCHANGED <<apc, mode, nowPlaying, incomingMode, version, active, queued, hasQueued,
                      switchCount>>
      BY <1>7 DEF Publish, RequestReset, SetPlaying, Stop, ReadIncoming, vars, buffer, local,
                  switch, TB!EndFill, TB!PublishSwap, TB!PublishFlag, TB!ReadFlag, TB!ReadSwap
    <2>2. AbsRequest' = AbsRequest /\ AbsActive' = AbsActive /\ AbsQueued' = AbsQueued
          /\ AbsCount' = AbsCount
      BY <2>1 DEF AbsRequest, AbsActive, AbsQueued, AbsCount, SettlesStopped, Waiting
    <2>3. QED
      BY <2>2, ChannelStutters
  <1>8. CASE TakeReset \/ LoadPlaying \/ EndBlock \/ Prepare
    <2>1. /\ apc \notin {"read", "settle"} /\ apc' \notin {"read", "settle"}
          /\ UNCHANGED <<incomingMode, version, active, queued, hasQueued, switchCount>>
      BY <1>8 DEF TakeReset, LoadPlaying, EndBlock, Prepare, buffer, switch
    <2>2. Shows(active, Held, switchCount) /\ Shows(active, Held, switchCount)'
      BY <1>3, <2>1 DEF AbsTable
    <2>3. AbsRequest' = AbsRequest /\ Held' = Held
      BY <2>1 DEF AbsRequest, Held
    <2>4. QED
      BY <2>1, <2>2, <2>3, ChannelStutters DEF Shows
  <1>9. CASE ExchangeMode
    BY <1>9, ExchangeApplies
  <1>10. CASE CopyIncoming
    <2>1. /\ got' = version /\ version' = version /\ mode \in {Immediate, Queued}
      BY <1>4, <1>10, CopiesNewest
    <2>2. /\ apc = "read" /\ apc' = "settle" /\ incomingMode' = incomingMode
          /\ active' = (IF mode = Immediate THEN got' ELSE active)
          /\ queued' = (IF mode = Queued THEN got' ELSE queued)
          /\ hasQueued' = (mode = Queued) /\ switchCount' = switchCount
          /\ nowPlaying' = nowPlaying
      BY <1>10 DEF CopyIncoming, local
    <2>3. AbsRequest' = AbsRequest
      BY <2>1, <2>2 DEF AbsRequest
    <2>4. CASE mode = Immediate
      <3>1. active' = version /\ ~hasQueued' /\ Held' = -1
        <4>1. mode # Queued
          BY <2>4 DEF Immediate, Queued
        <4>2. active' = version
          BY <2>1, <2>2, <2>4
        <4>3. ~hasQueued'
          BY <2>2, <4>1, Zenon
        <4>4. QED
          BY <4>2, <4>3 DEF Held
      <3>2. Shows(version, -1, switchCount) /\ Shows(active, Held, switchCount)'
        BY <1>3, <2>2, <2>4, <3>1 DEF AbsTable
      <3>3. QED
        BY <2>2, <2>3, <3>1, <3>2, ChannelStutters DEF Shows
    <2>5. CASE mode = Queued
      <3>1. active' = active /\ queued' = version /\ hasQueued' /\ Held' = version
        <4>1. mode # Immediate
          BY <2>5 DEF Immediate, Queued
        <4>2. active' = active /\ queued' = version
          BY <2>1, <2>2, <2>5, <4>1
        <4>3. hasQueued'
          BY <2>2, <2>5, Zenon
        <4>4. QED
          BY <4>2, <4>3 DEF Held
      <3>2. CASE nowPlaying
        <4>1. Shows(active, version, switchCount) /\ Shows(active, Held, switchCount)'
          BY <1>3, <2>2, <2>5, <3>2 DEF AbsTable
        <4>2. QED
          BY <2>2, <2>3, <3>1, <4>1, ChannelStutters DEF Shows
      <3>3. CASE ~nowPlaying
        <4>1. Shows(version, -1, switchCount + 1) /\ Shows(queued, -1, switchCount + 1)'
          BY <1>3, <2>2, <2>5, <3>1, <3>3 DEF AbsTable
        <4>2. QED
          BY <2>2, <2>3, <3>1, <4>1, ChannelStutters DEF Shows
      <3>4. QED
        BY <3>2, <3>3
    <2>6. QED
      BY <2>1, <2>4, <2>5
  <1>11. CASE Settle
    <2>1. /\ apc = "settle" /\ apc' \notin {"read", "settle"}
          /\ UNCHANGED <<incomingMode, version, nowPlaying>>
          /\ IF ~nowPlaying /\ hasQueued THEN Swap ELSE UNCHANGED switch
      BY <1>11 DEF Settle, buffer, local
    <2>2. AbsRequest' = AbsRequest
      BY <2>1 DEF AbsRequest
    <2>3. Shows(active, Held, switchCount)'
      BY <1>3, <2>1 DEF AbsTable
    <2>4. CASE ~nowPlaying /\ hasQueued
      <3>1. active' = queued /\ ~hasQueued' /\ switchCount' = switchCount + 1 /\ Held' = -1
        BY <2>1, <2>4 DEF Swap, Held
      <3>2. Shows(queued, -1, switchCount + 1)
        BY <1>3, <2>1, <2>4 DEF AbsTable
      <3>3. QED
        BY <2>2, <2>3, <3>1, <3>2, ChannelStutters DEF Shows
    <2>5. CASE nowPlaying \/ ~hasQueued
      <3>1. UNCHANGED <<active, queued, hasQueued, switchCount>> /\ Held' = Held
        BY <2>1, <2>5 DEF switch, Held
      <3>2. Shows(active, Held, switchCount)
        BY <1>3, <2>1, <2>5 DEF AbsTable
      <3>3. QED
        BY <2>2, <2>3, <3>1, <3>2, ChannelStutters DEF Shows
    <2>6. QED
      BY <2>4, <2>5
  <1>12. CASE FireStep
    <2>1. /\ apc = "steps" /\ apc' = "steps" /\ UNCHANGED <<incomingMode, version>>
          /\ IF hasQueued /\ nextStep % BarSteps = 0 THEN Swap ELSE UNCHANGED switch
      BY <1>12 DEF FireStep, buffer
    <2>2. AbsRequest' = AbsRequest
      BY <2>1 DEF AbsRequest
    <2>3. Shows(active, Held, switchCount) /\ Shows(active, Held, switchCount)'
      BY <1>3, <2>1 DEF AbsTable
    <2>4. CASE hasQueued /\ nextStep % BarSteps = 0
      <3>1. active' = queued /\ ~hasQueued' /\ switchCount' = switchCount + 1
            /\ Held = queued /\ Held' = -1
        BY <2>1, <2>4 DEF Swap, Held
      <3>2. queued # -1
        BY <1>1 DEF Numbers
      <3>3. QED
        BY <2>2, <2>3, <3>1, <3>2, ChannelBarLine DEF Shows
    <2>5. CASE ~(hasQueued /\ nextStep % BarSteps = 0)
      <3>1. UNCHANGED <<active, queued, hasQueued, switchCount>> /\ Held' = Held
        BY <2>1, <2>5 DEF switch, Held
      <3>2. QED
        BY <2>2, <2>3, <3>1, ChannelStutters DEF Shows
    <2>6. QED
      BY <2>4, <2>5
  <1>13. QED
    BY <1>5, <1>6, <1>7, <1>8, <1>9, <1>10, <1>11, <1>12 DEF Next, MessageNext, AudioNext

(* Until a call overlaps applyIncomingPattern(), each step of the hand-off  *)
(* is a step of the channel Sequencer.h promises (a request, the block's    *)
(* taking of it, a bar line) or one the channel does not see.               *)
THEOREM SpecImplementsChannel == Spec => ImplementsChannel
  <1>1. Init => PC!ChannelInit(0)
    BY DEF Init, PC!ChannelInit, PC!NoRequest, AbsRequest, AbsActive, SettlesStopped, Waiting,
           Immediate, Queued
  <1>2. ASSUME IInv, IInv', Apart, [Next]_vars, ~overlapped'
        PROVE  PC!ChannelNext \/ UNCHANGED <<PC!channel, overlapped>>
    <2>1. ~overlapped /\ overlapped \in BOOLEAN /\ overlapped' \in BOOLEAN
      BY <1>2, TypesSplit, TypesSplitNext
      DEF IInv, OwnTypes, Flags, Next, MessageNext, AudioNext, SetPattern, QueuePattern, Call,
          Publish, StoreMode, RequestReset, SetPlaying, Stop, TakeReset, LoadPlaying,
          ExchangeMode, ReadIncoming, CopyIncoming, Settle, FireStep, EndBlock, Prepare, vars,
          local
    <2>2. overlapped' = overlapped
      BY <1>2, <2>1
    <2>3. QED
      BY <1>2, <2>2, StepImplements
  <1>3. IInv /\ Apart /\ IInv' /\ [Next]_vars
          => [overlapped' \/ PC!ChannelNext]_<<PC!channel, overlapped>>
    BY <1>2
  <1>4. QED
    BY <1>1, <1>3, SpecApart, PTL DEF Spec, ImplementsChannel
=============================================================================
