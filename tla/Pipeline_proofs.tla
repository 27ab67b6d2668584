--------------------------- MODULE Pipeline_proofs --------------------------
(***************************************************************************)
(* Proofs about Pipeline, for every input, every set of guessed            *)
(* boundaries, every number of workers and resolvers, and every bound:     *)
(* type correctness, and the main safety theorems (what reaches the sink   *)
(* is a prefix of the true output that stops before the first damage, and  *)
(* Ok means that all of it was delivered).  The argument for the latter is *)
(* ChainInvariant, which follows a chunk from its worker through stage A   *)
(* and the resolve pool.                                                   *)
(*                                                                         *)
(* Then the flow of the chunks: none is lost or handled twice, the         *)
(* in-flight cap bounds what is in memory, a chunk is decoded again only   *)
(* for a cause, and parallel_decode_member keeps the promise of            *)
(* OrderedDecode: it never reports a closed channel or a missing last      *)
(* block, and an error it reports names damage of the input.               *)
(* FlowInvariant says where the chunks are.  The ids between dispatch and  *)
(* stage A are those from aNext on, the ids between stage A and the sink   *)
(* those below; the work and resolve channels hold the last ones in order, *)
(* and the rest is in the pool behind the channel, each id once.           *)
(***************************************************************************)
EXTENDS Pipeline, ChunkDecode_proofs, FiniteSetTheorems

-----------------------------------------------------------------------------
(* Type correctness. *)

\* The boundary scan returns at least one chunk, and positions of the input.
LEMMA ScanType ==
    ASSUME NEW c \in SUBSET (1 .. EndOfInput - 1), NEW b \in ScanBoundaries(c)
    PROVE  b \in Seq(Position) /\ Len(b) > 0
<1> DEFINE found == ScanFound(c)
<1>1. NumBlocks \in Nat /\ NumBlocks > 0 /\ EndOfInput \in Nat /\ EndOfInput > 0
  BY ConstantTypes DEF EndOfInput, Bit
<1>2. found \subseteq 0 .. EndOfInput
  <2>1. ASSUME NEW t, FoundFrom(c, t) # {} PROVE Min(FoundFrom(c, t)) \in 1 .. EndOfInput - 1
    <3>1. FoundFrom(c, t) \subseteq c
      BY Zenon DEF FoundFrom
    <3>2. FoundFrom(c, t) \subseteq Nat
      <4>1. \A x \in c : x \in Nat
        BY <1>1
      <4> QED BY <3>1, <4>1, Zenon
    <3>3. Min(FoundFrom(c, t)) \in FoundFrom(c, t)
      BY <2>1, <3>2, MinProperty
    <3> QED BY <3>1, <3>3
  <2>2. ASSUME NEW x \in found PROVE x \in 0 .. EndOfInput
    <3>1. CASE x = 0
      BY <1>1, <3>1
    <3>2. CASE x # 0
      <4>1. PICK t \in Targets : FoundFrom(c, t) # {} /\ x = Min(FoundFrom(c, t))
        BY <3>2 DEF ScanFound
      <4> QED BY <1>1, <2>1, <4>1
    <3> QED BY <3>1, <3>2
  <2> QED BY <2>2, Zenon
<1>3. IsFiniteSet(found) /\ found # {}
  <2>1. IsFiniteSet(0 .. EndOfInput)
    BY <1>1, FS_Interval
  <2>2. 0 \in found
    BY DEF ScanFound
  <2> QED BY <1>2, <2>1, <2>2, FS_Subset
<1>4. Cardinality(found) \in Nat /\ Cardinality(found) > 0
  BY <1>3, FS_CardinalityType, FS_EmptySet
<1> DEFINE n == Cardinality(found)
<1>5. b \in [1 .. n -> found]
  BY Zenon DEF ScanBoundaries
<1> HIDE DEF found
<1>6. 0 .. EndOfInput \subseteq Position
  BY <1>1 DEF Position, NoHint
<1>7. b \in [1 .. n -> Position]
  BY <1>2, <1>5, <1>6
<1> QED BY <1>4, <1>7, FcnIsSeq

LEMMA InitType == Init => TypeOK
<1> SUFFICES ASSUME Init PROVE TypeOK
  OBVIOUS
<1>1. PICK c \in SUBSET (1 .. EndOfInput - 1) : boundaries \in ScanBoundaries(c)
  <2>1. fault \in InputFaults /\ config \in Configs[fault]
    BY Zenon DEF Init
  <2>2. config.finds \subseteq SUBSET (1 .. EndOfInput - 1)
    BY <2>1, PipelineAssumption
  <2>3. \E c \in config.finds : boundaries \in ScanBoundaries(c)
    BY Zenon DEF Init
  <2> QED BY <2>2, <2>3, Zenon
<1>2. boundaries \in Seq(Position) /\ NumChunks > 0 /\ NumChunks \in Nat
  BY <1>1, ScanType DEF NumChunks
<1>3. NumBlocks \in Nat /\ NumBlocks > 0
  BY ConstantTypes
<1>4. DecodeError \in DecodeResult
  BY <1>3 DEF DecodeError, DecodeResult, Value, Position, NoHint, EndOfInput, Bit
<1>5. NoOutcome \in Outcome /\ NoDone \in DoneMsg
  BY <1>3, <1>4 DEF NoOutcome, Outcome, NoDone, DoneError, DoneMsg, Value, Blocks
<1>6. 0 \in Position /\ <<0>> \in Seq(Value \cup {NumBlocks}) /\ 0 \in 0 .. SinkCapacity
  BY <1>3, PipelineAssumption DEF Position, NoHint, EndOfInput, Bit, Value, Blocks
<1>7. InputType
  BY <1>2, Zenon DEF Init, InputType
<1>8. ChannelType
  BY <1>2 DEF Init, ChannelType
<1>9. DispatchType /\ SinkType
  <2>1. capShutdown \in BOOLEAN /\ consumerAlive \in BOOLEAN
    BY Zenon DEF Init
  <2>2. inFlight = 0 /\ dPc = "acquire" /\ dNext = 1 /\ delivered = <<>> /\ sinkLen = 0
    BY Zenon DEF Init
  <2> QED BY <1>2, <1>6, <2>1, <2>2 DEF DispatchType, SinkType
<1>10. WorkerType /\ ResolverType
  BY <1>5 DEF Init, WorkerType, ResolverType
<1>11. StageAType /\ OutputType
  BY <1>2, <1>6 DEF Init, StageAType, OutputType, Verdict
<1> QED BY <1>7, <1>8, <1>9, <1>10, <1>11 DEF TypeOK

\* A part of the state that a step leaves alone keeps its type.
LEMMA FrameType ==
    ASSUME TypeOK, UNCHANGED inputVars
    PROVE  /\ InputType'
           /\ UNCHANGED <<work, result, resolve, done>> => ChannelType'
           /\ UNCHANGED <<capVars, dVars>> => DispatchType'
           /\ UNCHANGED wVars => WorkerType'
           /\ UNCHANGED aVars => StageAType'
           /\ UNCHANGED rVars => ResolverType'
           /\ UNCHANGED <<oVars, status>> => OutputType'
           /\ UNCHANGED sinkVars => SinkType'
<1>1. boundaries' = boundaries /\ NumChunks' = NumChunks
  BY DEF inputVars, NumChunks
<1>2. InputType'
  BY <1>1 DEF TypeOK, InputType, inputVars
<1>3. UNCHANGED <<work, result, resolve, done>> => ChannelType'
  BY <1>1 DEF TypeOK, ChannelType
<1>4. UNCHANGED <<capVars, dVars>> => DispatchType'
  BY <1>1, Zenon DEF TypeOK, DispatchType, capVars, dVars
<1>5. UNCHANGED wVars => WorkerType'
  BY DEF TypeOK, WorkerType, wVars
<1>6. UNCHANGED aVars => StageAType'
  BY <1>1, Zenon DEF TypeOK, StageAType, aVars
<1>7. UNCHANGED rVars => ResolverType'
  BY DEF TypeOK, ResolverType, rVars
<1>8. UNCHANGED <<oVars, status>> => OutputType'
  BY <1>1, Zenon DEF TypeOK, OutputType, oVars
<1>9. UNCHANGED sinkVars => SinkType'
  BY Zenon DEF TypeOK, SinkType, sinkVars
<1> QED BY <1>2, <1>3, <1>4, <1>5, <1>6, <1>7, <1>8, <1>9

\* The hint of a chunk is a position.
LEMMA HintType ==
    ASSUME InputType, NEW i \in 1 .. NumChunks
    PROVE  boundaries[i] \in Position /\ Hint(i) \in Position
<1>1. NoHint \in Position
  BY ConstantTypes DEF Position, NoHint, EndOfInput, Bit
<1> QED BY <1>1 DEF InputType, Hint, NumChunks

LEMMA DispatchTypeStep == TypeOK /\ Dispatch => TypeOK'
<1> SUFFICES ASSUME TypeOK, Dispatch PROVE TypeOK'
  OBVIOUS
<1>1. UNCHANGED inputVars /\ UNCHANGED <<result, resolve, done, wVars, aVars, rVars, oVars, sinkVars, status>>
  BY Zenon DEF Dispatch, AcquireSlot, AcquireShutdown, DispatchSend, DispatchSendFails
<1>2. InputType' /\ WorkerType' /\ StageAType' /\ ResolverType' /\ OutputType' /\ SinkType'
  BY <1>1, FrameType
<1>3. NumChunks' = NumChunks /\ NumChunks \in Nat
  BY <1>1 DEF TypeOK, InputType, inputVars, NumChunks
<1>4. CASE AcquireSlot
  <2>1. capShutdown' \in BOOLEAN /\ UNCHANGED <<work, dNext>>
    BY <1>4, Zenon DEF AcquireSlot, TypeOK, DispatchType
  <2>2. inFlight' \in Nat /\ dPc' = "send" /\ dNext <= NumChunks
    BY <1>4 DEF AcquireSlot, TypeOK, DispatchType
  <2> QED BY <1>1, <1>2, <1>3, <2>1, <2>2, FrameType DEF TypeOK, DispatchType
<1>5. CASE AcquireShutdown \/ DispatchSendFails
  <2>1. capShutdown' \in BOOLEAN /\ UNCHANGED <<work, dNext, inFlight>> /\ dPc' = "exited"
    BY <1>5, Zenon DEF AcquireShutdown, DispatchSendFails, TypeOK, DispatchType, capVars
  <2> QED BY <1>1, <1>2, <1>3, <2>1, FrameType DEF TypeOK, DispatchType
<1>6. CASE DispatchSend
  <2>1. capShutdown' \in BOOLEAN /\ UNCHANGED inFlight /\ dPc = "send"
    BY <1>6, Zenon DEF DispatchSend, TypeOK, DispatchType, capVars
  <2>2. dNext \in 1 .. NumChunks
    BY <1>3, <2>1 DEF TypeOK, DispatchType
  <2>3. work' \in Seq(1 .. NumChunks)
    BY <1>6, <2>2, PutType DEF DispatchSend, TypeOK, ChannelType
  <2>4. /\ dNext' \in 1 .. NumChunks + 1 /\ dPc' \in {"acquire", "exited"}
        /\ dPc' = "acquire" => dNext' <= NumChunks
    BY <1>3, <1>6, <2>2 DEF DispatchSend, MoreItems
  <2> QED BY <1>1, <1>2, <1>3, <2>1, <2>3, <2>4 DEF TypeOK, DispatchType, ChannelType
<1> QED BY <1>4, <1>5, <1>6 DEF Dispatch

LEMMA WorkerTypeStep == ASSUME NEW w \in Workers PROVE TypeOK /\ Worker(w) => TypeOK'
<1> SUFFICES ASSUME TypeOK, Worker(w) PROVE TypeOK'
  OBVIOUS
<1>1. UNCHANGED inputVars /\ UNCHANGED <<resolve, done, capVars, dVars, aVars, rVars, oVars, sinkVars, status>>
  BY Zenon DEF Worker, WorkerRecv, WorkerSend, WorkerExit
<1>2. InputType' /\ DispatchType' /\ StageAType' /\ ResolverType' /\ OutputType' /\ SinkType'
  BY <1>1, FrameType
<1>3. NumChunks' = NumChunks
  BY <1>1 DEF inputVars, NumChunks
<1>4. NoOutcome \in Outcome
  BY ConstantTypes DEF NoOutcome, Outcome, DecodeError, DecodeResult, Value, Position, NoHint, EndOfInput, Bit
<1>5. CASE WorkerRecv(w)
  <2> DEFINE i == Head(work)
  <2>1. i \in 1 .. NumChunks /\ Tail(work) \in Seq(1 .. NumChunks)
    BY <1>5, TakeType DEF WorkerRecv, TypeOK, ChannelType
  <2>2. PICK r \in DecodeOneChunk(boundaries[i], Hint(i)) :
          wHold' = [wHold EXCEPT ![w] = [id |-> i, res |-> r]]
    BY <1>5 DEF WorkerRecv
  <2>3. r \in DecodeResult
    BY <2>1, <2>2, HintType, DecodeType DEF TypeOK
  <2>4. [id |-> i, res |-> r] \in Outcome
    BY <2>1, <2>3 DEF Outcome, TypeOK, InputType, NumChunks
  <2>5. WorkerType'
    BY <1>5, <2>2, <2>4 DEF WorkerRecv, TypeOK, WorkerType
  <2>6. ChannelType'
    BY <1>1, <1>3, <1>5, <2>1 DEF WorkerRecv, TypeOK, ChannelType
  <2> QED BY <1>2, <2>5, <2>6 DEF TypeOK
<1>6. CASE WorkerSend(w)
  <2>1. wHold[w] \in Outcome
    BY DEF TypeOK, WorkerType
  <2>2. ChannelType'
    BY <1>1, <1>3, <1>6, <2>1 DEF WorkerSend, TypeOK, ChannelType
  <2>3. WorkerType'
    BY <1>4, <1>6 DEF WorkerSend, TypeOK, WorkerType
  <2> QED BY <1>2, <2>2, <2>3 DEF TypeOK
<1>7. CASE WorkerExit(w)
  <2>1. WorkerType'
    BY <1>4, <1>7 DEF WorkerExit, TypeOK, WorkerType
  <2>2. UNCHANGED <<work, result>>
    BY <1>7, Zenon DEF WorkerExit
  <2> QED BY <1>1, <1>2, <2>1, <2>2, FrameType DEF TypeOK
<1> QED BY <1>5, <1>6, <1>7 DEF Worker

\* Error messages of stage A and of the pool.
LEMMA DoneErrorType ==
    ASSUME NEW kind \in FaultKind \cup {"none", "worker channel closed"}
    PROVE  DoneError(kind) \in DoneMsg
<1>1. 0 \in Value \cup {NumBlocks} /\ 0 \in Nat
  BY ZeroIsBlock, Zenon
<1>2. <<>> \in Seq(Value)
  BY EmptySeq
<1> QED BY <1>1, <1>2, Zenon DEF DoneError, DoneMsg

LEMMA StageATypeStep == TypeOK /\ StageA => TypeOK'
<1> SUFFICES ASSUME TypeOK, StageA PROVE TypeOK'
  OBVIOUS
<1>1. UNCHANGED inputVars /\ UNCHANGED <<work, capVars, dVars, wVars, rVars, oVars, sinkVars, status>>
  BY Zenon DEF StageA, StageAForward, StageAFail, StageARecv, StageAWorkersGone
<1>2. InputType' /\ DispatchType' /\ WorkerType' /\ ResolverType' /\ OutputType' /\ SinkType'
  BY <1>1, FrameType
<1>3. NumChunks' = NumChunks /\ NumChunks \in Nat
  BY <1>1 DEF TypeOK, InputType, inputVars, NumChunks
<1>4. CASE StageAForward
  <2>0. PICK o \in aReorder : AReady(o) /\ \E r \in ChainResults(o) : r.ok /\ Forward(o, r)
    BY <1>4, Zenon DEF StageAForward
  <2>1. PICK r \in ChainResults(o) : r.ok /\ Forward(o, r)
    BY <2>0
  <2>2. aPc = "run" /\ UNCHANGED <<result, done>> /\ aNext \in 1 .. NumChunks /\ o.id = aNext
    BY <1>3, <1>4, <2>0 DEF StageAForward, TypeOK, StageAType, AReady
  <2>3. r \in DecodeResult
    <3>1. CASE Anchored(o)
      BY <2>1, <3>1 DEF ChainResults, TypeOK, StageAType, Outcome
    <3>2. CASE ~Anchored(o)
      <4>1. expectedStart \in Position /\ Hint(o.id) \in Position
        BY <2>2, HintType DEF TypeOK, StageAType
      <4> QED BY <2>1, <3>2, <4>1, DecodeType DEF ChainResults
    <3> QED BY <3>1, <3>2
  <2>4. /\ r.first \in Value \cup {NumBlocks} /\ r.next \in Value \cup {NumBlocks}
        /\ r.end \in Position /\ r.final \in BOOLEAN
    BY <2>3, Zenon DEF DecodeResult
  <2>5. prevTail \in Seq(Value) /\ prevTail' \in Seq(Value)
    BY <2>1, <2>4, NextTailType DEF Forward, TypeOK, StageAType
  <2> DEFINE job == [id |-> o.id, first |-> r.first, next |-> r.next,
                     final |-> r.final, tail |-> prevTail]
  <2>6. job \in Job
    BY <1>3, <2>2, <2>4, <2>5 DEF Job
  <2> HIDE DEF job
  <2>7. /\ specFailures' \in Nat /\ aReorder' \in SUBSET Outcome /\ expectedStart' \in Position
    BY <2>1, <2>4 DEF Forward, TypeOK, StageAType
  <2>8. CASE ResolveRxAlive
    <3>1. /\ resolve' = Append(resolve, job) /\ aNext' = aNext + 1
          /\ chain' = Append(chain, r.next)
          /\ aPc' = IF r.final \/ aNext = NumChunks THEN "exited" ELSE "run"
      BY <2>1, <2>8, Zenon DEF Forward, job
    <3>2. ChannelType'
      BY <1>1, <1>3, <2>2, <2>6, <3>1 DEF TypeOK, ChannelType
    <3>3. chain' \in Seq(Value \cup {NumBlocks})
      BY <2>4, <3>1, PutType DEF TypeOK, StageAType
    <3>4. /\ aPc' \in {"run", "exited"} /\ aNext' \in 1 .. NumChunks + 1
          /\ aPc' = "run" => aNext' <= NumChunks
      BY <1>3, <2>2, <3>1
    <3> QED BY <1>2, <1>3, <2>5, <2>7, <3>2, <3>3, <3>4 DEF TypeOK, StageAType
  <2>9. CASE ~ResolveRxAlive
    <3>1. aPc' = "exited" /\ UNCHANGED <<resolve, aNext, chain>>
      BY <2>1, <2>9 DEF Forward
    <3> QED BY <1>1, <1>2, <1>3, <2>2, <2>5, <2>7, <3>1, FrameType DEF TypeOK, StageAType
  <2> QED BY <2>8, <2>9
<1>5. CASE StageAFail \/ StageAWorkersGone
  <2>1. /\ UNCHANGED <<result, resolve, aReorder, aNext, expectedStart, prevTail, chain>>
        /\ aPc' = "exited"
    BY <1>5, Zenon DEF StageAFail, StageAWorkersGone
  <2>2. specFailures' \in Nat
    <3>1. specFailures' = specFailures + 1 \/ specFailures' = specFailures
      BY <1>5, Zenon DEF StageAFail, StageAWorkersGone
    <3> QED BY <3>1 DEF TypeOK, StageAType
  <2>3. done' \in Seq(DoneMsg)
    <3>1. DoneError("decode") \in DoneMsg /\ DoneError("worker channel closed") \in DoneMsg
      BY DoneErrorType DEF FaultKind
    <3>2. done \in Seq(DoneMsg)
      BY DEF TypeOK, ChannelType
    <3>3. \/ done' = Append(done, DoneError("decode"))
          \/ done' = Append(done, DoneError("worker channel closed"))
          \/ done' = done
      BY <1>5, Zenon DEF StageAFail, StageAWorkersGone
    <3> QED BY <3>1, <3>2, <3>3, PutType, Zenon
  <2> QED BY <1>1, <1>2, <1>3, <2>1, <2>2, <2>3 DEF TypeOK, StageAType, ChannelType
<1>6. CASE StageARecv
  <2>1. /\ UNCHANGED <<resolve, done, aPc, aNext, expectedStart, prevTail, specFailures, chain>>
        /\ aReorder' = aReorder \cup {Head(result)} /\ result' = Tail(result) /\ result # <<>>
    BY <1>6, Zenon DEF StageARecv
  <2>2. Head(result) \in Outcome /\ Tail(result) \in Seq(Outcome)
    BY <2>1, TakeType DEF TypeOK, ChannelType
  <2> QED BY <1>1, <1>2, <1>3, <2>1, <2>2 DEF TypeOK, StageAType, ChannelType
<1> QED BY <1>4, <1>5, <1>6 DEF StageA

\* The pool turns a job into a message of the done channel.
LEMMA ResolvedType ==
    ASSUME NEW job \in Job
    PROVE  Resolved(job) \in DoneMsg
<1>1. /\ job.id \in Nat /\ job.first \in Value \cup {NumBlocks} /\ job.next \in Value \cup {NumBlocks}
      /\ job.final \in BOOLEAN
  BY Zenon DEF Job
<1>2. ResolvedBytes(job.first, job.next, job.tail) \in Seq(Value)
  BY <1>1, ResolvedBytesType
<1>3. DoneError("resolve") \in DoneMsg
  BY DoneErrorType DEF FaultKind
<1> QED BY <1>1, <1>2, <1>3 DEF Resolved, DoneMsg

LEMMA ResolverTypeStep == ASSUME NEW r \in Resolvers PROVE TypeOK /\ Resolver(r) => TypeOK'
<1> SUFFICES ASSUME TypeOK, Resolver(r) PROVE TypeOK'
  OBVIOUS
<1>1. UNCHANGED inputVars /\ UNCHANGED <<work, result, capVars, dVars, wVars, aVars, oVars, sinkVars, status>>
  BY Zenon DEF Resolver, ResolverRecv, ResolverSend, ResolverExit
<1>2. InputType' /\ DispatchType' /\ WorkerType' /\ StageAType' /\ OutputType' /\ SinkType'
  BY <1>1, FrameType
<1>3. NumChunks' = NumChunks
  BY <1>1 DEF inputVars, NumChunks
<1>4. NoDone \in DoneMsg
  BY DoneErrorType DEF NoDone
<1>5. CASE ResolverRecv(r)
  <2>1. Head(resolve) \in Job /\ Tail(resolve) \in Seq(Job)
    BY <1>5, TakeType DEF ResolverRecv, TypeOK, ChannelType
  <2>2. Resolved(Head(resolve)) \in DoneMsg
    BY <2>1, ResolvedType
  <2>3. ResolverType'
    BY <1>5, <2>2 DEF ResolverRecv, TypeOK, ResolverType
  <2>4. ChannelType'
    BY <1>1, <1>3, <1>5, <2>1 DEF ResolverRecv, TypeOK, ChannelType
  <2> QED BY <1>2, <2>3, <2>4 DEF TypeOK
<1>6. CASE ResolverSend(r)
  <2>1. rHold[r] \in DoneMsg
    BY DEF TypeOK, ResolverType
  <2>2. ChannelType'
    BY <1>1, <1>3, <1>6, <2>1 DEF ResolverSend, TypeOK, ChannelType
  <2>3. ResolverType'
    BY <1>4, <1>6 DEF ResolverSend, TypeOK, ResolverType
  <2> QED BY <1>2, <2>2, <2>3 DEF TypeOK
<1>7. CASE ResolverExit(r)
  <2>1. ResolverType'
    BY <1>4, <1>7 DEF ResolverExit, TypeOK, ResolverType
  <2>2. UNCHANGED <<resolve, done>>
    BY <1>7, Zenon DEF ResolverExit
  <2> QED BY <1>1, <1>2, <2>1, <2>2, FrameType DEF TypeOK
<1> QED BY <1>5, <1>6, <1>7 DEF Resolver

LEMMA OutputTypeStep == TypeOK /\ Output => TypeOK'
<1> SUFFICES ASSUME TypeOK, Output PROVE TypeOK'
  OBVIOUS
<1>1. UNCHANGED inputVars /\ UNCHANGED <<work, result, resolve, dVars, wVars, aVars, rVars>>
  BY Zenon DEF Output, OutputMismatch, OutputSend, OutputRecv, DropDoneRx, ShutdownCap, JoinAndReturn
<1>2. InputType' /\ WorkerType' /\ StageAType' /\ ResolverType'
  BY <1>1, FrameType
<1>3. NumChunks' = NumChunks /\ NumChunks \in Nat
  BY <1>1 DEF TypeOK, InputType, inputVars, NumChunks
<1>4. CASE OutputMismatch
  <2>1. PICK d \in oReorder : InOrder(d) # "none" /\ Break(InOrder(d)) /\ oReorder' = oReorder \ {d}
    BY <1>4, Zenon DEF OutputMismatch
  <2>2. InOrder(d) \in Verdict
    BY <2>1, ChunkVerdictType DEF InOrder, Verdict, FaultKind
  <2>3. UNCHANGED <<capVars, done, oNext, curMember, sinkVars, status>>
    BY <1>4, Zenon DEF OutputMismatch
  <2>4. oPc' = "drop" /\ verdict' \in Verdict
    BY <2>1, <2>2 DEF Break
  <2>5. OutputType'
    BY <1>3, <2>1, <2>3, <2>4 DEF TypeOK, OutputType
  <2> QED BY <1>1, <1>2, <2>3, <2>5, FrameType DEF TypeOK
<1>5. CASE OutputSend
  <2>1. PICK d \in oReorder :
          /\ OReady(d)
          /\ curMember' = CarriedBytes(d.first, d.next, d.bytes, curMember)
          /\ oReorder' = oReorder \ {d}
          /\ IF consumerAlive
             THEN /\ delivered' = delivered \o d.bytes
                  /\ sinkLen' = sinkLen + 1
                  /\ oNext' = oNext + 1
                  /\ IF d.final THEN Break("ok")
                     ELSE IF oNext = NumChunks THEN Break("no final block")
                     ELSE UNCHANGED <<oPc, verdict>>
             ELSE /\ Break("closed")
                  /\ UNCHANGED <<delivered, sinkLen, oNext>>
    BY <1>5, Zenon DEF OutputSend
  <2>2. /\ oPc = "run" /\ (consumerAlive => sinkLen < SinkCapacity)
        /\ inFlight' = SlotReleased
        /\ UNCHANGED <<capShutdown, done, consumerAlive, status>>
    BY <1>5, Zenon DEF OutputSend
  <2>3. /\ d.first \in Value \cup {NumBlocks} /\ d.next \in Value \cup {NumBlocks}
        /\ d.bytes \in Seq(Value)
    BY DEF TypeOK, OutputType, DoneMsg
  <2>4. DispatchType'
    <3>1. capShutdown' \in BOOLEAN /\ UNCHANGED <<dPc, dNext>>
      BY <1>1, <2>2, Zenon DEF TypeOK, DispatchType, dVars
    <3>2. inFlight' \in Nat
      BY <2>2 DEF TypeOK, DispatchType, SlotReleased
    <3> QED BY <1>3, <3>1, <3>2 DEF TypeOK, DispatchType
  <2>5. curMember' \in Seq(Value)
    BY <2>1, <2>3, CarriedBytesType DEF TypeOK, OutputType
  <2>6. consumerAlive' \in BOOLEAN
    BY <2>2, Zenon DEF TypeOK, SinkType
  <2>7. delivered \in Seq(Value) /\ sinkLen \in 0 .. SinkCapacity /\ SinkCapacity \in Nat
    BY PipelineAssumption DEF TypeOK, SinkType
  <2>8. oNext \in 1 .. NumChunks
    BY <1>3, <2>2 DEF TypeOK, OutputType
  <2>9. oReorder' \in SUBSET DoneMsg /\ status' \in Verdict \cup {"running", "none"}
    BY <2>1, <2>2, Zenon DEF TypeOK, OutputType
  <2>10. CASE consumerAlive
    <3>0. /\ delivered' = delivered \o d.bytes /\ sinkLen' = sinkLen + 1
          /\ oNext' = oNext + 1 /\ sinkLen < SinkCapacity
      BY <2>1, <2>2, <2>10, Zenon
    <3>1. delivered' \in Seq(Value) /\ sinkLen' \in 0 .. SinkCapacity
      BY <2>3, <2>7, <3>0
    <3>2. /\ oNext' \in 1 .. NumChunks + 1
          /\ \/ oPc' = "drop" /\ verdict' \in Verdict
             \/ oPc' = "run" /\ oNext' <= NumChunks /\ verdict' = verdict
      <4>1. \/ oPc' = "drop" /\ verdict' = "ok"
            \/ oPc' = "drop" /\ verdict' = "no final block"
            \/ oPc' = oPc /\ verdict' = verdict /\ oNext # NumChunks
        BY <2>1, <2>10, Zenon DEF Break
      <4>2. "ok" \in Verdict /\ "no final block" \in Verdict
        BY DEF Verdict
      <4>3. oNext' \in 1 .. NumChunks + 1 /\ (oNext # NumChunks => oNext' <= NumChunks)
        BY <1>3, <2>8, <3>0
      <4> QED BY <2>2, <4>1, <4>2, <4>3, Zenon
    <3>3. SinkType'
      BY <2>6, <3>1 DEF SinkType
    <3>4. OutputType'
      BY <1>3, <2>5, <2>9, <3>2 DEF OutputType, TypeOK
    <3> QED BY <1>1, <1>2, <2>2, <2>4, <3>3, <3>4, FrameType DEF TypeOK
  <2>11. CASE ~consumerAlive
    <3>1. oPc' = "drop" /\ verdict' = "closed" /\ UNCHANGED <<delivered, sinkLen, oNext>>
      BY <2>1, <2>11, Zenon DEF Break
    <3>2. SinkType'
      BY <2>6, <2>7, <3>1 DEF SinkType
    <3>3. OutputType'
      <4>1. verdict' \in Verdict
        BY <3>1 DEF Verdict
      <4> QED BY <1>3, <2>5, <2>8, <2>9, <3>1, <4>1 DEF OutputType
    <3> QED BY <1>1, <1>2, <2>2, <2>4, <3>2, <3>3, FrameType DEF TypeOK
  <2> QED BY <2>10, <2>11
<1>6. CASE OutputRecv
  <2>1. UNCHANGED <<capVars, oNext, curMember, sinkVars, status>> /\ oPc = "run"
    BY <1>6, Zenon DEF OutputRecv
  <2>2. CASE done = <<>>
    <3>1. oPc' = "drop" /\ verdict' = "resolve channel closed" /\ UNCHANGED <<done, oReorder>>
      BY <1>6, <2>2 DEF OutputRecv, Break
    <3>2. OutputType'
      BY <1>3, <2>1, <3>1 DEF TypeOK, OutputType, Verdict
    <3> QED BY <1>1, <1>2, <2>1, <3>1, <3>2, FrameType DEF TypeOK
  <2>3. CASE done # <<>>
    <3>1. /\ done' = Tail(done)
          /\ \/ oReorder' = oReorder \cup {Head(done)} /\ UNCHANGED <<oPc, verdict>>
             \/ /\ oPc' = "drop" /\ verdict' = Head(done).err /\ Head(done).err # "none"
                /\ UNCHANGED oReorder
      BY <1>6, <2>3, Zenon DEF OutputRecv, Break
    <3>2. Head(done) \in DoneMsg /\ Tail(done) \in Seq(DoneMsg)
      BY <2>3, TakeType DEF TypeOK, ChannelType
    <3>3. Head(done).err # "none" => Head(done).err \in Verdict
      BY <3>2 DEF DoneMsg, Verdict
    <3>4. OutputType'
      BY <1>3, <2>1, <3>1, <3>2, <3>3 DEF TypeOK, OutputType
    <3>5. ChannelType'
      BY <1>1, <1>3, <3>1, <3>2 DEF TypeOK, ChannelType
    <3> QED BY <1>1, <1>2, <2>1, <3>4, <3>5, FrameType DEF TypeOK
  <2> QED BY <2>2, <2>3
<1>7. CASE DropDoneRx \/ ShutdownCap
  <2>1. /\ oPc' \in {"shutdown", "join"}
        /\ UNCHANGED <<inFlight, done, oReorder, oNext, curMember, verdict, sinkVars, status>>
        /\ capShutdown' = capShutdown \/ capShutdown' = CapEnabled
    BY <1>7, Zenon DEF DropDoneRx, ShutdownCap, capVars
  <2>2. OutputType'
    BY <1>3, <2>1 DEF TypeOK, OutputType
  <2>3. DispatchType'
    <3>1. capShutdown' \in BOOLEAN
      <4>1. CapEnabled \in BOOLEAN
        BY DEF CapEnabled
      <4>2. capShutdown \in BOOLEAN
        BY Zenon DEF TypeOK, DispatchType
      <4> QED BY <2>1, <4>1, <4>2, Zenon
    <3> QED BY <1>1, <1>3, <2>1, <3>1 DEF TypeOK, DispatchType, dVars
  <2> QED BY <1>1, <1>2, <2>1, <2>2, <2>3, FrameType DEF TypeOK
<1>8. CASE JoinAndReturn
  <2>1. /\ oPc' = "returned" /\ status' = verdict
        /\ UNCHANGED <<capVars, done, oReorder, oNext, curMember, verdict, sinkVars>>
    BY <1>8, Zenon DEF JoinAndReturn
  <2>2. OutputType'
    BY <1>3, <2>1 DEF TypeOK, OutputType
  <2> QED BY <1>1, <1>2, <2>1, <2>2, FrameType DEF TypeOK
<1> QED BY <1>4, <1>5, <1>6, <1>7, <1>8 DEF Output

LEMMA ConsumerTypeStep == TypeOK /\ (ConsumerRecv \/ ConsumerHangsUp) => TypeOK'
<1> SUFFICES ASSUME TypeOK, ConsumerRecv \/ ConsumerHangsUp PROVE TypeOK'
  OBVIOUS
<1>1. UNCHANGED inputVars /\ UNCHANGED <<work, result, resolve, done, capVars, dVars, wVars, aVars, rVars,
                                         oVars, status, delivered>>
  BY Zenon DEF ConsumerRecv, ConsumerHangsUp
<1>2. consumerAlive' \in BOOLEAN
  BY Zenon DEF ConsumerRecv, ConsumerHangsUp, TypeOK, SinkType
<1>3. sinkLen' = sinkLen \/ (sinkLen > 0 /\ sinkLen' = sinkLen - 1)
  BY Zenon DEF ConsumerRecv, ConsumerHangsUp
<1>4. SinkType'
  BY <1>1, <1>2, <1>3, PipelineAssumption DEF TypeOK, SinkType
<1> QED BY <1>1, <1>4, FrameType DEF TypeOK

\* Type correctness of the pipeline: every variable has the values the code
\* can give it in every reachable state.
THEOREM TypeCorrect == Spec => []TypeOK
<1>1. Init => TypeOK
  BY InitType
<1>2. TypeOK /\ [Next]_vars => TypeOK'
  <2> SUFFICES ASSUME TypeOK, [Next]_vars PROVE TypeOK'
    OBVIOUS
  <2>1. CASE UNCHANGED vars
    BY <2>1, FrameType DEF vars, TypeOK
  <2>2. CASE Returned
    BY <2>2, FrameType DEF Returned, vars, TypeOK
  <2> QED BY <2>1, <2>2, DispatchTypeStep, WorkerTypeStep, StageATypeStep, ResolverTypeStep,
             OutputTypeStep, ConsumerTypeStep DEF Next
<1> QED BY <1>1, <1>2, PTL DEF Spec

-----------------------------------------------------------------------------
(* The chain only grows, so what is on it stays on it. *)

\* A decode depends on the input alone, which does not change.
LEMMA DecodeStable ==
    ASSUME UNCHANGED inputVars
    PROVE  /\ \A start, hint : DecodeOneChunk(start, hint)' = DecodeOneChunk(start, hint)
           /\ \A o : OwnChunk(o) => OwnChunk(o)'
<1>1. fault' = fault /\ boundaries' = boundaries
  BY DEF inputVars
<1>2. \A k, hint : DecodeBlocks(k, hint)' = DecodeBlocks(k, hint)
  BY <1>1 DEF DecodeBlocks
<1>3. \A start, hint : DecodeOneChunk(start, hint)' = DecodeOneChunk(start, hint)
  BY <1>2 DEF DecodeOneChunk
<1>4. NumChunks' = NumChunks /\ \A i : Hint(i)' = Hint(i)
  BY <1>1 DEF Hint, NumChunks
<1> QED BY <1>1, <1>3, <1>4, Zenon DEF OwnChunk

LEMMA ChainStable ==
    ASSUME TypeOK, ChainGrows, UNCHANGED inputVars,
           \/ UNCHANGED <<aNext, chain>>
           \/ aNext' = aNext + 1 /\ \E e \in 0 .. NumBlocks : chain' = Append(chain, e)
    PROVE  /\ aNext' >= aNext /\ \A i \in 1 .. aNext : chain'[i] = chain[i]
           /\ \A id, first, next, final :
                 OnChain(id, first, next, final) => OnChain(id, first, next, final)'
           /\ \A d : TrueChunk(d) => TrueChunk(d)'
<1>1. aNext \in Nat /\ aNext >= 1 /\ chain \in Seq(Value \cup {NumBlocks}) /\ Len(chain) = aNext
  BY DEF TypeOK, StageAType, ChainGrows, InputType, NumChunks
<1>2. aNext' >= aNext /\ \A i \in 1 .. aNext : chain'[i] = chain[i]
  <2>1. CASE UNCHANGED <<aNext, chain>>
    BY <1>1, <2>1
  <2>2. CASE aNext' = aNext + 1 /\ \E e \in 0 .. NumBlocks : chain' = Append(chain, e)
    <3>1. PICK e \in 0 .. NumBlocks : chain' = Append(chain, e)
      BY <2>2
    <3>2. \A i \in 1 .. Len(chain) : Append(chain, e)[i] = chain[i]
      BY <1>1
    <3> QED BY <1>1, <2>2, <3>1, <3>2
  <2> QED BY <2>1, <2>2
<1>3. fault' = fault
  BY DEF inputVars
<1>4. ASSUME NEW id \in 1 .. aNext - 1
      PROVE  id \in 1 .. aNext /\ id + 1 \in 1 .. aNext /\ id \in 1 .. aNext' - 1
  <2>1. aNext' = aNext \/ aNext' = aNext + 1
    BY Zenon
  <2> QED BY <1>1, <2>1
<1>5. ASSUME NEW id, NEW first, NEW next, NEW final, OnChain(id, first, next, final)
      PROVE  OnChain(id, first, next, final)'
  <2>1. id \in 1 .. aNext - 1 /\ first = chain[id] /\ next = chain[id + 1]
    BY <1>5, Zenon DEF OnChain
  <2>2. id \in 1 .. aNext /\ id + 1 \in 1 .. aNext /\ id \in 1 .. aNext' - 1
    BY <1>4, <2>1, Zenon
  <2>3. id \in 1 .. aNext' - 1 /\ first = chain'[id] /\ next = chain'[id + 1]
    BY <1>2, <2>1, <2>2, Zenon
  <2> QED BY <1>3, <1>5, <2>3, Zenon DEF OnChain
<1>6. ASSUME NEW d, TrueChunk(d) PROVE TrueChunk(d)'
  BY <1>3, <1>5, <1>6, Zenon DEF TrueChunk
<1> QED BY <1>2, <1>5, <1>6

\* A part of the invariant whose variables a step leaves alone is kept.
LEMMA FrameChain ==
    ASSUME TypeOK, ChainInvariant, UNCHANGED inputVars
    PROVE  /\ UNCHANGED <<aPc, aNext, expectedStart, prevTail, chain>> => ChainGrows' /\ ChainAnchored'
           /\ UNCHANGED <<wHold, result, aReorder>> => OutcomesOwn'
           /\ UNCHANGED <<resolve, aNext, chain>> => JobsOnChain'
           /\ UNCHANGED <<rHold, done, oReorder, aNext, chain>> => ChunksTrue'
           /\ UNCHANGED <<oNext, delivered, aNext, chain>> => OutputFollowsChain'
           /\ UNCHANGED <<oPc, verdict, delivered, status>> => VerdictHolds'
<1>1. fault' = fault /\ ChainGrows
  BY DEF inputVars, ChainInvariant
<1>2. UNCHANGED <<aPc, aNext, expectedStart, prevTail, chain>> => ChainGrows' /\ ChainAnchored'
  BY DEF ChainInvariant, ChainGrows, ChainAnchored
<1>3. UNCHANGED <<wHold, result, aReorder>> => OutcomesOwn'
  BY DecodeStable, Zenon DEF ChainInvariant, OutcomesOwn
<1>4. UNCHANGED <<resolve, aNext, chain>> => JobsOnChain'
  BY <1>1, ChainStable, Zenon DEF ChainInvariant, JobsOnChain
<1>5. UNCHANGED <<rHold, done, oReorder, aNext, chain>> => ChunksTrue'
  BY <1>1, ChainStable, Zenon DEF ChainInvariant, ChunksTrue
<1>6. UNCHANGED <<oNext, delivered, aNext, chain>> => OutputFollowsChain'
  BY <1>1, Zenon DEF ChainInvariant, OutputFollowsChain
<1>7. UNCHANGED <<oPc, verdict, delivered, status>> => VerdictHolds'
  BY <1>1, Zenon DEF ChainInvariant, VerdictHolds, Healthy
<1> QED BY <1>2, <1>3, <1>4, <1>5, <1>6, <1>7

-----------------------------------------------------------------------------
(* One lemma per thread. *)

LEMMA InitChain == Init => ChainInvariant
<1> SUFFICES ASSUME Init PROVE ChainInvariant
  OBVIOUS
<1>1. NumBlocks \in Nat /\ NumBlocks > 0 /\ Window \in Nat
  BY ConstantTypes
<1>2. aNext = 1 /\ chain = <<0>> /\ expectedStart = 0 /\ prevTail = <<>>
  BY DEF Init
<1>3. ChainGrows
  BY <1>1, <1>2 DEF ChainGrows
<1>4. Bytes(0, 0) = <<>> /\ WindowAt(0) = <<>>
  BY <1>1, BytesType DEF WindowAt
<1>5. ChainAnchored
  BY <1>2, <1>4 DEF ChainAnchored, Bit
<1>6. OutcomesOwn
  BY DEF Init, OutcomesOwn, OwnChunk, NoOutcome
<1>7. JobsOnChain
  BY DEF Init, JobsOnChain
<1>8. ChunksTrue
  BY DEF Init, ChunksTrue, TrueChunk, NoDone, DoneError
<1>9. OutputFollowsChain
  BY <1>2, <1>4 DEF Init, OutputFollowsChain
<1>10. VerdictHolds
  BY DEF Init, VerdictHolds
<1> QED BY <1>3, <1>5, <1>6, <1>7, <1>8, <1>9, <1>10 DEF ChainInvariant

LEMMA DispatchChainStep == TypeOK /\ ChainInvariant /\ Dispatch => ChainInvariant'
<1> SUFFICES ASSUME TypeOK, ChainInvariant, Dispatch PROVE ChainInvariant'
  OBVIOUS
<1>1. UNCHANGED inputVars /\ UNCHANGED <<result, resolve, done, wVars, aVars, rVars, oVars, sinkVars, status>>
  BY Zenon DEF Dispatch, AcquireSlot, AcquireShutdown, DispatchSend, DispatchSendFails
<1> QED BY <1>1, FrameChain DEF ChainInvariant, wVars, aVars, rVars, oVars, sinkVars

LEMMA ConsumerChainStep ==
    TypeOK /\ ChainInvariant /\ (ConsumerRecv \/ ConsumerHangsUp) => ChainInvariant'
<1> SUFFICES ASSUME TypeOK, ChainInvariant, ConsumerRecv \/ ConsumerHangsUp PROVE ChainInvariant'
  OBVIOUS
<1>1. UNCHANGED inputVars /\ UNCHANGED <<result, resolve, done, wVars, aVars, rVars, oVars, delivered, status>>
  BY Zenon DEF ConsumerRecv, ConsumerHangsUp
<1> QED BY <1>1, FrameChain DEF ChainInvariant, wVars, aVars, rVars, oVars

LEMMA WorkerChainStep ==
    ASSUME NEW w \in Workers
    PROVE  TypeOK /\ ChainInvariant /\ Worker(w) => ChainInvariant'
<1> SUFFICES ASSUME TypeOK, ChainInvariant, Worker(w) PROVE ChainInvariant'
  OBVIOUS
<1>1. UNCHANGED inputVars /\ UNCHANGED <<resolve, done, aVars, rVars, oVars, sinkVars, status>>
  BY Zenon DEF Worker, WorkerRecv, WorkerSend, WorkerExit
<1>2. /\ ChainGrows' /\ ChainAnchored' /\ JobsOnChain' /\ ChunksTrue'
      /\ OutputFollowsChain' /\ VerdictHolds'
  BY <1>1, FrameChain DEF aVars, rVars, oVars, sinkVars
<1>3. UNCHANGED aReorder /\ OutcomesOwn /\ \A o : OwnChunk(o) => OwnChunk(o)'
  BY <1>1, DecodeStable DEF aVars, ChainInvariant
<1>4. wHold \in [Workers -> Outcome] /\ result \in Seq(Outcome)
  BY DEF TypeOK, WorkerType, ChannelType
<1>5. OwnChunk(NoOutcome)
  BY DEF OwnChunk, NoOutcome
<1>6. CASE WorkerRecv(w)
  <2> DEFINE i == Head(work)
  <2>1. i \in 1 .. NumChunks
    BY <1>6, TakeType DEF WorkerRecv, TypeOK, ChannelType
  <2>2. PICK r \in DecodeOneChunk(boundaries[i], Hint(i)) :
          wHold' = [wHold EXCEPT ![w] = [id |-> i, res |-> r]]
    BY <1>6 DEF WorkerRecv
  <2> DEFINE o == [id |-> i, res |-> r]
  <2>3. OwnChunk(o)
    BY <2>1, <2>2 DEF OwnChunk
  <2> HIDE DEF i, o
  <2>4. \A v \in Workers : wHold'[v] = o \/ wHold'[v] = wHold[v]
    BY <1>4, <2>2 DEF o
  <2>5. UNCHANGED result
    BY <1>6, Zenon DEF WorkerRecv
  <2>6. OutcomesOwn'
    BY <1>3, <2>3, <2>4, <2>5, Zenon DEF OutcomesOwn
  <2> QED BY <1>2, <2>6 DEF ChainInvariant
<1>7. CASE WorkerSend(w)
  <2>1. result' = Append(result, wHold[w]) /\ wHold' = [wHold EXCEPT ![w] = NoOutcome]
    BY <1>7, Zenon DEF WorkerSend
  <2>2. \A v \in Workers : wHold'[v] = NoOutcome \/ wHold'[v] = wHold[v]
    BY <1>4, <2>1
  <2>3. \A i \in DOMAIN result' : result'[i] = wHold[w] \/ (i \in DOMAIN result /\ result'[i] = result[i])
    BY <1>4, <2>1, PutElems
  <2>4. OutcomesOwn'
    BY <1>3, <1>5, <2>2, <2>3, Zenon DEF OutcomesOwn
  <2> QED BY <1>2, <2>4 DEF ChainInvariant
<1>8. CASE WorkerExit(w)
  <2>1. UNCHANGED result /\ wHold' = [wHold EXCEPT ![w] = NoOutcome]
    BY <1>8, Zenon DEF WorkerExit
  <2>2. \A v \in Workers : wHold'[v] = NoOutcome \/ wHold'[v] = wHold[v]
    BY <1>4, <2>1
  <2>3. OutcomesOwn'
    BY <1>3, <1>5, <2>1, <2>2, Zenon DEF OutcomesOwn
  <2> QED BY <1>2, <2>3 DEF ChainInvariant
<1> QED BY <1>6, <1>7, <1>8 DEF Worker

\* Whatever stage A accepts or decodes again is the decode of the blocks from
\* the one the chain has reached.
LEMMA ChainResultsProperty ==
    ASSUME TypeOK, ChainInvariant, aPc = "run",
           NEW o \in aReorder, AReady(o), NEW r \in ChainResults(o), r.ok
    PROVE  LET k == chain[aNext] IN
           /\ k \in 0 .. NumBlocks /\ r.first = k /\ r.next \in k .. NumBlocks
           /\ r.end = Bit(r.next)
           /\ \A j \in k .. r.next - 1 : fault[j] # "decode"
           /\ r.final = (k < r.next /\ r.next = NumBlocks)
<1> DEFINE k == chain[aNext]
<1>1. aNext \in 1 .. NumChunks /\ o.id = aNext
  BY DEF TypeOK, InputType, StageAType, AReady, NumChunks
<1>2. k \in 0 .. NumBlocks /\ expectedStart = Bit(k)
  BY <1>1 DEF ChainInvariant, ChainGrows, ChainAnchored, TypeOK, InputType, NumChunks
<1>3. Hint(o.id) \in Int
  BY <1>1, HintType, ConstantTypes DEF TypeOK, Position, NoHint, EndOfInput, Bit
<1>4. r \in DecodeOneChunk(expectedStart, Hint(o.id))
  <2>1. CASE Anchored(o)
    <3>1. r = o.res /\ boundaries[o.id] = expectedStart
      BY <2>1, Zenon DEF ChainResults, Anchored
    <3>2. OwnChunk(o) /\ o.id # 0
      BY <1>1 DEF ChainInvariant, OutcomesOwn, TypeOK, InputType, NumChunks
    <3> QED BY <3>1, <3>2, Zenon DEF OwnChunk
  <2>2. CASE ~Anchored(o)
    BY <2>2, Zenon DEF ChainResults
  <2> QED BY <2>1, <2>2
<1>5. r = DecodeBlocks(k, Hint(o.id))
  BY <1>2, <1>4, DecodeAtBlock
<1> QED BY <1>2, <1>3, <1>5, DecodeBlocksProperty

LEMMA StageAChainStep == TypeOK /\ ChainInvariant /\ StageA => ChainInvariant'
<1> SUFFICES ASSUME TypeOK, ChainInvariant, StageA PROVE ChainInvariant'
  OBVIOUS
<1>1. UNCHANGED inputVars /\ UNCHANGED <<wVars, rVars, oVars, sinkVars, status>>
  BY Zenon DEF StageA, StageAForward, StageAFail, StageARecv, StageAWorkersGone
<1>2. UNCHANGED <<wHold, rHold, oPc, oReorder, oNext, verdict, delivered>>
  BY <1>1 DEF wVars, rVars, oVars, sinkVars
<1>3. VerdictHolds'
  BY <1>1, <1>2, FrameChain
<1>4. \A o : OwnChunk(o) => OwnChunk(o)'
  BY <1>1, DecodeStable
<1>5. ChainGrows /\ OutcomesOwn /\ JobsOnChain /\ ChunksTrue /\ OutputFollowsChain /\ ChainAnchored
  BY DEF ChainInvariant
<1>6. CASE StageAForward
  <2>0. PICK o \in aReorder : AReady(o) /\ \E r \in ChainResults(o) : r.ok /\ Forward(o, r)
    BY <1>6, Zenon DEF StageAForward
  <2>1. PICK r \in ChainResults(o) : r.ok /\ Forward(o, r)
    BY <2>0
  <2>2. aPc = "run" /\ UNCHANGED <<result, done>>
    BY <1>6, Zenon DEF StageAForward
  <2> DEFINE k == chain[aNext]
  <2>3. /\ k \in 0 .. NumBlocks /\ r.first = k /\ r.next \in k .. NumBlocks
        /\ r.end = Bit(r.next)
        /\ \A j \in k .. r.next - 1 : fault[j] # "decode"
        /\ r.final = (k < r.next /\ r.next = NumBlocks)
    BY <2>0, <2>1, <2>2, ChainResultsProperty
  <2>4. OutcomesOwn'
    <3>1. aReorder' = aReorder \ {o}
      BY <2>1, Zenon DEF Forward
    <3> QED BY <1>2, <1>4, <1>5, <2>2, <3>1, Zenon DEF OutcomesOwn
  <2>5. CASE ~ResolveRxAlive
    <3>1. aPc' = "exited" /\ UNCHANGED <<resolve, aNext, chain>>
      BY <2>1, <2>5, Zenon DEF Forward
    <3>2. ChainGrows' /\ ChainAnchored'
      BY <1>5, <3>1 DEF ChainGrows, ChainAnchored
    <3> QED BY <1>1, <1>2, <1>3, <2>2, <2>4, <3>1, <3>2, FrameChain DEF ChainInvariant
  <2>6. CASE ResolveRxAlive
    <3>0. PICK job : job = [id |-> o.id, first |-> r.first, next |-> r.next,
                            final |-> r.final, tail |-> prevTail]
      OBVIOUS
    <3>1. /\ resolve' = Append(resolve, job) /\ aNext' = aNext + 1 /\ chain' = Append(chain, r.next)
          /\ expectedStart' = r.end /\ prevTail' = NextTail(r.first, r.next, prevTail)
      BY <2>1, <2>6, <3>0, Zenon DEF Forward
    <3>2. /\ aNext \in Nat /\ aNext >= 1 /\ o.id = aNext /\ prevTail = WindowAt(k)
          /\ Len(chain) = aNext /\ chain \in Seq(Value \cup {NumBlocks})
      BY <1>5, <2>0, <2>2 DEF TypeOK, StageAType, InputType, NumChunks, AReady, ChainGrows, ChainAnchored
    <3>3. r.next \in 0 .. NumBlocks /\ k <= r.next /\ r.next \in Value \cup {NumBlocks}
      BY <2>3, ConstantTypes DEF Value, Blocks
    <3>4. /\ Len(chain') = aNext' /\ chain'[aNext + 1] = r.next
          /\ \A i \in 1 .. aNext : chain'[i] = chain[i]
      BY <3>1, <3>2, <3>3
    <3>5. ChainGrows'
      BY <1>5, <3>1, <3>2, <3>3, <3>4 DEF ChainGrows
    <3>6. ChainAnchored'
      <4>1. prevTail' = WindowAt(r.next)
        BY <2>3, <3>1, <3>2, TailStep
      <4> QED BY <2>3, <3>1, <3>4, <4>1 DEF ChainAnchored
    <3>7. /\ \A id, first, next, final :
                OnChain(id, first, next, final) => OnChain(id, first, next, final)'
          /\ \A d : TrueChunk(d) => TrueChunk(d)'
      BY <1>1, <1>5, <3>1, <3>3, ChainStable
    <3>8. OnChain(job.id, job.first, job.next, job.final)'
      <4>1. o.id \in 1 .. aNext' - 1 /\ r.first = chain'[o.id] /\ r.next = chain'[o.id + 1]
        BY <2>3, <3>1, <3>2, <3>4
      <4>2. fault' = fault
        BY <1>1 DEF inputVars
      <4>3. OnChain(o.id, r.first, r.next, r.final)'
        BY <2>3, <4>1, <4>2, Zenon DEF OnChain
      <4>4. job.id = o.id /\ job.first = r.first /\ job.next = r.next /\ job.final = r.final
        BY <3>0, Zenon
      <4> QED BY <4>3, <4>4, Zenon
    <3>9. job.tail = WindowAt(job.first)
      BY <2>3, <3>0, <3>2
    <3>10. JobsOnChain'
      <4>1. \A i \in DOMAIN resolve' : resolve'[i] = job \/ (i \in DOMAIN resolve /\ resolve'[i] = resolve[i])
        <5>1. resolve \in Seq(Job)
          BY DEF TypeOK, ChannelType
        <5>2. job \in Job
          <6>1. r.final \in BOOLEAN
            BY <2>3, Zenon
          <6>2. /\ o.id \in Nat /\ r.first \in Value \cup {NumBlocks}
                /\ r.next \in Value \cup {NumBlocks} /\ prevTail \in Seq(Value)
            BY <2>3, <3>2, <3>3, ConstantTypes DEF TypeOK, StageAType, Value, Blocks
          <6> QED BY <3>0, <6>1, <6>2, Zenon DEF Job
        <5> QED BY <3>1, <5>1, <5>2, PutElems
      <4> QED BY <1>5, <3>7, <3>8, <3>9, <4>1, Zenon DEF JobsOnChain
    <3>11. ChunksTrue'
      BY <1>2, <1>5, <2>2, <3>7, Zenon DEF ChunksTrue
    <3>12. OutputFollowsChain'
      <4>1. oNext \in 1 .. aNext /\ oNext' = oNext /\ delivered' = delivered /\ fault' = fault
        BY <1>1, <1>2, <1>5, <3>2 DEF OutputFollowsChain, TypeOK, OutputType, InputType, NumChunks, inputVars
      <4>2. oNext' <= aNext' /\ chain'[oNext'] = chain[oNext]
        BY <3>1, <3>2, <3>4, <4>1
      <4> QED BY <1>5, <4>1, <4>2, Zenon DEF OutputFollowsChain
    <3> QED BY <1>3, <2>4, <3>5, <3>6, <3>10, <3>11, <3>12 DEF ChainInvariant
  <2> QED BY <2>5, <2>6
<1>7. CASE StageAFail \/ StageAWorkersGone
  <2>1. UNCHANGED <<result, resolve, aReorder, aNext, chain>> /\ aPc' = "exited"
    BY <1>7, Zenon DEF StageAFail, StageAWorkersGone
  <2>2. ChainGrows' /\ ChainAnchored'
    BY <1>5, <2>1 DEF ChainGrows, ChainAnchored
  <2>3. \A d : TrueChunk(d) => TrueChunk(d)'
    BY <1>1, <1>5, <2>1, ChainStable
  <2>4. TrueChunk(DoneError("decode")) /\ TrueChunk(DoneError("worker channel closed"))
    BY DEF TrueChunk, DoneError
  <2>5. PICK m \in DoneMsg : TrueChunk(m) /\ (done' = Append(done, m) \/ done' = done)
    <3>1. DoneError("decode") \in DoneMsg /\ DoneError("worker channel closed") \in DoneMsg
      BY DoneErrorType DEF FaultKind
    <3> QED BY <1>7, <2>4, <3>1, Zenon DEF StageAFail, StageAWorkersGone
  <2>6. \A i \in DOMAIN done' : done'[i] = m \/ (i \in DOMAIN done /\ done'[i] = done[i])
    <3>1. done \in Seq(DoneMsg)
      BY DEF TypeOK, ChannelType
    <3>2. \A i \in DOMAIN Append(done, m) :
              Append(done, m)[i] = m \/ (i \in DOMAIN done /\ Append(done, m)[i] = done[i])
      BY <3>1, m \in DoneMsg, PutElems, SMTT(30)
    <3> QED BY <2>5, <3>2, Zenon
  <2>7. ChunksTrue'
    BY <1>2, <1>5, <2>3, <2>5, <2>6, Zenon DEF ChunksTrue
  <2> QED BY <1>1, <1>2, <1>3, <2>1, <2>2, <2>7, FrameChain DEF ChainInvariant
<1>8. CASE StageARecv
  <2>1. /\ UNCHANGED <<resolve, done, aPc, aNext, expectedStart, prevTail, chain>>
        /\ aReorder' = aReorder \cup {Head(result)} /\ result' = Tail(result) /\ result # <<>>
    BY <1>8, Zenon DEF StageARecv
  <2>2. /\ 1 \in DOMAIN result /\ Head(result) = result[1]
        /\ \A i \in DOMAIN result' : i + 1 \in DOMAIN result /\ result'[i] = result[i + 1]
    BY <2>1, TakeElems DEF TypeOK, ChannelType
  <2>3. OutcomesOwn'
    BY <1>2, <1>4, <1>5, <2>1, <2>2, Zenon DEF OutcomesOwn
  <2> QED BY <1>1, <1>2, <1>3, <2>1, <2>3, FrameChain DEF ChainInvariant
<1> QED BY <1>6, <1>7, <1>8 DEF StageA

\* The pool turns a job of the chain into the true bytes of its blocks.
LEMMA ResolvedProperty ==
    ASSUME NEW job, OnChain(job.id, job.first, job.next, job.final),
           job.tail = WindowAt(job.first), job.first \in 0 .. NumBlocks
    PROVE  TrueChunk(Resolved(job))
<1>1. CASE Unresolvable(job.first, job.next)
  BY <1>1, Zenon DEF Resolved, TrueChunk, DoneError
<1>2. CASE ~Unresolvable(job.first, job.next)
  <2>1. job.first # Corrupt
    BY ConstantTypes DEF Corrupt
  <2>2. \A k \in job.first .. job.next - 1 : fault[k] # "resolve"
    BY <1>2, <2>1, Zenon DEF Unresolvable
  <2>3. ResolvedBytes(job.first, job.next, job.tail) = Bytes(job.first, job.next)
    BY <2>1, Zenon DEF ResolvedBytes
  <2> QED BY <1>2, <2>2, <2>3, Zenon DEF Resolved, TrueChunk
<1> QED BY <1>1, <1>2

LEMMA ResolverChainStep ==
    ASSUME NEW r \in Resolvers
    PROVE  TypeOK /\ ChainInvariant /\ Resolver(r) => ChainInvariant'
<1> SUFFICES ASSUME TypeOK, ChainInvariant, Resolver(r) PROVE ChainInvariant'
  OBVIOUS
<1>1. UNCHANGED inputVars /\ UNCHANGED <<result, wVars, aVars, oVars, sinkVars, status>>
  BY Zenon DEF Resolver, ResolverRecv, ResolverSend, ResolverExit
<1>2. ChainGrows' /\ ChainAnchored' /\ OutcomesOwn' /\ OutputFollowsChain' /\ VerdictHolds'
  BY <1>1, FrameChain DEF wVars, aVars, oVars, sinkVars
<1>3. /\ \A id, first, next, final :
            OnChain(id, first, next, final) => OnChain(id, first, next, final)'
      /\ \A d : TrueChunk(d) => TrueChunk(d)'
  BY <1>1, ChainStable DEF aVars, ChainInvariant
<1>4. /\ ChainGrows /\ JobsOnChain /\ ChunksTrue /\ UNCHANGED <<oReorder, aNext, chain>>
      /\ rHold \in [Resolvers -> DoneMsg] /\ resolve \in Seq(Job) /\ done \in Seq(DoneMsg)
  BY <1>1 DEF ChainInvariant, aVars, oVars, TypeOK, ResolverType, ChannelType
<1>5. TrueChunk(NoDone)
  BY DEF TrueChunk, NoDone, DoneError
<1>6. CASE ResolverRecv(r)
  <2>1. /\ resolve # <<>> /\ rHold' = [rHold EXCEPT ![r] = Resolved(Head(resolve))]
        /\ resolve' = Tail(resolve) /\ UNCHANGED done
    BY <1>6, Zenon DEF ResolverRecv
  <2>2. PICK job : job = Head(resolve)
    OBVIOUS
  <2>3. /\ 1 \in DOMAIN resolve /\ job = resolve[1]
        /\ \A i \in DOMAIN resolve' : i + 1 \in DOMAIN resolve /\ resolve'[i] = resolve[i + 1]
    BY <1>4, <2>1, <2>2, TakeElems
  <2>4. OnChain(job.id, job.first, job.next, job.final) /\ job.tail = WindowAt(job.first)
    BY <1>4, <2>3, Zenon DEF JobsOnChain
  <2>5. job.first \in 0 .. NumBlocks
    <3>1. job.id \in 1 .. aNext - 1 /\ job.first = chain[job.id]
      BY <2>4, Zenon DEF OnChain
    <3> QED BY <1>4, <3>1 DEF ChainGrows, TypeOK, StageAType, InputType, NumChunks
  <2>6. TrueChunk(Resolved(job))
    BY <2>4, <2>5, ResolvedProperty
  <2>7. PICK m : m = Resolved(job)
    OBVIOUS
  <2>8. TrueChunk(m) /\ \A q \in Resolvers : rHold'[q] = m \/ rHold'[q] = rHold[q]
    BY <1>4, <2>1, <2>2, <2>6, <2>7
  <2>9. ChunksTrue'
    BY <1>3, <1>4, <2>1, <2>8, Zenon DEF ChunksTrue
  <2>10. JobsOnChain'
    BY <1>3, <1>4, <2>3, Zenon DEF JobsOnChain
  <2> QED BY <1>2, <2>9, <2>10 DEF ChainInvariant
<1>7. CASE ResolverSend(r)
  <2>1. /\ done' = Append(done, rHold[r]) /\ rHold' = [rHold EXCEPT ![r] = NoDone]
        /\ UNCHANGED resolve
    BY <1>7, Zenon DEF ResolverSend
  <2>2. \A q \in Resolvers : rHold'[q] = NoDone \/ rHold'[q] = rHold[q]
    BY <1>4, <2>1
  <2>3. PICK m : m = rHold[r]
    OBVIOUS
  <2>4. \A i \in DOMAIN done' : done'[i] = m \/ (i \in DOMAIN done /\ done'[i] = done[i])
    BY <1>4, <2>1, <2>3, PutElems
  <2>5. ChunksTrue'
    BY <1>3, <1>4, <1>5, <2>2, <2>3, <2>4, Zenon DEF ChunksTrue
  <2> QED BY <1>1, <1>2, <1>4, <2>1, <2>5, FrameChain DEF ChainInvariant
<1>8. CASE ResolverExit(r)
  <2>1. rHold' = [rHold EXCEPT ![r] = NoDone] /\ UNCHANGED <<resolve, done>>
    BY <1>8, Zenon DEF ResolverExit
  <2>2. \A q \in Resolvers : rHold'[q] = NoDone \/ rHold'[q] = rHold[q]
    BY <1>4, <2>1
  <2>3. ChunksTrue'
    BY <1>3, <1>4, <1>5, <2>1, <2>2, Zenon DEF ChunksTrue
  <2> QED BY <1>1, <1>2, <1>4, <2>1, <2>3, FrameChain DEF ChainInvariant
<1> QED BY <1>6, <1>7, <1>8 DEF Resolver

LEMMA OutputChainStep == TypeOK /\ ChainInvariant /\ Output => ChainInvariant'
<1> SUFFICES ASSUME TypeOK, ChainInvariant, Output PROVE ChainInvariant'
  OBVIOUS
<1>1. UNCHANGED inputVars /\ UNCHANGED <<result, resolve, wVars, aVars, rVars>>
  BY Zenon DEF Output, OutputMismatch, OutputSend, OutputRecv, DropDoneRx, ShutdownCap, JoinAndReturn
<1>2. ChainGrows' /\ ChainAnchored' /\ OutcomesOwn' /\ JobsOnChain'
  BY <1>1, FrameChain DEF wVars, aVars
<1>3. \A d : TrueChunk(d) => TrueChunk(d)'
  BY <1>1, ChainStable DEF aVars, ChainInvariant
<1>4. /\ ChainGrows /\ ChunksTrue /\ OutputFollowsChain /\ VerdictHolds
      /\ UNCHANGED <<rHold, aNext, chain>> /\ fault' = fault
  BY <1>1 DEF ChainInvariant, aVars, rVars, inputVars
<1>5. CASE OutputMismatch
  <2>1. PICK d \in oReorder : oPc' = "drop" /\ verdict' = InOrder(d) /\ oReorder' = oReorder \ {d}
    BY <1>5, Zenon DEF OutputMismatch, Break
  <2>2. oPc = "run" /\ UNCHANGED <<done, oNext, delivered, status>>
    BY <1>5, Zenon DEF OutputMismatch, sinkVars
  <2>3. verdict' # "ok"
    <3>1. InOrder(d) \in {"none", "crc", "isize"}
      BY ChunkVerdictType DEF InOrder
    <3> QED BY <2>1, <3>1
  <2>4. ChunksTrue'
    BY <1>3, <1>4, <2>1, <2>2, Zenon DEF ChunksTrue
  <2>5. VerdictHolds'
    BY <1>4, <2>1, <2>2, <2>3, <1>5 DEF VerdictHolds
  <2> QED BY <1>1, <1>2, <1>4, <2>2, <2>4, <2>5, FrameChain DEF ChainInvariant
<1>6. CASE OutputSend
  <2>1. PICK d \in oReorder :
          /\ OReady(d) /\ InOrder(d) = "none"
          /\ oReorder' = oReorder \ {d}
          /\ IF consumerAlive
             THEN /\ delivered' = delivered \o d.bytes
                  /\ oNext' = oNext + 1
                  /\ IF d.final THEN Break("ok")
                     ELSE IF oNext = NumChunks THEN Break("no final block")
                     ELSE UNCHANGED <<oPc, verdict>>
             ELSE Break("closed") /\ UNCHANGED <<delivered, oNext>>
    BY <1>6, Zenon DEF OutputSend
  <2>2. oPc = "run" /\ UNCHANGED <<done, status>>
    BY <1>6, Zenon DEF OutputSend
  <2>3. verdict = "none" /\ status = "running"
    BY <1>4, <2>2 DEF VerdictHolds
  <2>4. ChunksTrue'
    BY <1>3, <1>4, <2>1, <2>2, Zenon DEF ChunksTrue
  <2>5. CASE ~consumerAlive
    <3>1. oPc' = "drop" /\ verdict' = "closed" /\ UNCHANGED <<delivered, oNext>>
      BY <2>1, <2>5, Zenon DEF Break
    <3>2. VerdictHolds'
      BY <2>2, <2>3, <3>1 DEF VerdictHolds
    <3> QED BY <1>1, <1>2, <1>4, <2>4, <3>1, <3>2, FrameChain DEF ChainInvariant
  <2>6. CASE consumerAlive
    <3>1. /\ delivered' = delivered \o d.bytes /\ oNext' = oNext + 1
          /\ \/ oPc' = "drop" /\ verdict' = "ok" /\ d.final
             \/ oPc' = "drop" /\ verdict' = "no final block"
             \/ oPc' = "run" /\ verdict' = "none"
      BY <2>1, <2>2, <2>3, <2>6, Zenon DEF Break
    <3>2. oNext \in Nat /\ oNext >= 1 /\ aNext \in Nat /\ NumBlocks \in Nat
      BY ConstantTypes DEF TypeOK, OutputType, StageAType, InputType, NumChunks
    <3>3. d.err = "none" /\ TrueChunk(d) /\ d.id # 0 /\ d.id = oNext
      <4>1. d.err = "none" /\ TrueChunk(d) /\ d.id = oNext
        BY <1>4, <2>1, Zenon DEF ChunksTrue, OReady
      <4>2. oNext # 0
        BY <3>2
      <4> QED BY <4>1, <4>2, Zenon
    <3>4. OnChain(d.id, d.first, d.next, d.final)
      BY <3>3, Zenon DEF TrueChunk
    <3>5. /\ d.bytes = Bytes(d.first, d.next)
          /\ \A k \in d.first .. d.next - 1 : fault[k] # "resolve"
          /\ \A k \in d.first .. d.next - 1 : fault[k] # "decode"
      BY <3>3, Zenon DEF TrueChunk, OnChain
    <3>6. d.id \in 1 .. aNext - 1 /\ d.first = chain[d.id] /\ d.next = chain[d.id + 1]
      BY <3>4, Zenon DEF OnChain
    <3>7. d.final => d.next = NumBlocks
      BY <3>4, Zenon DEF OnChain
    <3>8. /\ oNext + 1 <= aNext /\ d.first = chain[oNext] /\ d.next = chain[oNext + 1]
          /\ d.first \in 0 .. NumBlocks /\ d.next \in 0 .. NumBlocks /\ d.first <= d.next
      BY <1>4, <3>2, <3>3, <3>6 DEF ChainGrows
    <3>9. delivered' = Bytes(0, d.next)
      <4>1. delivered = Bytes(0, d.first)
        BY <1>4, <3>8 DEF OutputFollowsChain
      <4>2. Bytes(0, d.first) \o Bytes(d.first, d.next) = Bytes(0, d.next)
        <5>1. 0 \in Nat /\ d.first \in Nat /\ d.next \in Nat /\ 0 <= d.first /\ d.first <= d.next
          BY <3>2, <3>8
        <5> QED BY <5>1, BytesConcat, Zenon
      <4> QED BY <3>1, <3>5, <4>1, <4>2, Zenon
    <3>10. \A k \in 0 .. d.next - 1 : fault[k] = "none"
      <4>1. \A k \in d.first .. d.next - 1 : fault[k] = "none"
        <5>1. fault \in InputFaults
          BY DEF TypeOK, InputType
        <5>2. ChunkVerdict(d.first, d.next, d.bytes, curMember) = "none"
          BY <2>1, Zenon DEF InOrder
        <5> QED BY <3>5, <3>8, <5>1, <5>2, ChunkUndamaged
      <4>2. \A k \in 0 .. d.first - 1 : fault[k] = "none"
        BY <1>4, <3>8, Zenon DEF OutputFollowsChain
      <4>3. \A k \in 0 .. d.next - 1 : k \in 0 .. d.first - 1 \/ k \in d.first .. d.next - 1
        BY <3>8
      <4> QED BY <4>1, <4>2, <4>3, Zenon
    <3>11. OutputFollowsChain'
      <4>1. oNext' <= aNext' /\ chain'[oNext'] = d.next
        BY <1>4, <3>1, <3>8
      <4> QED BY <1>4, <3>9, <3>10, <4>1, Zenon DEF OutputFollowsChain
    <3>12. VerdictHolds'
      <4>1. d.final => delivered' = TrueOutput /\ Healthy'
        BY <1>4, <3>7, <3>9, <3>10, Zenon DEF TrueOutput, Healthy, Blocks
      <4>2. oPc' # "returned" /\ (oPc' = "run" => verdict' = "none") /\ (verdict' = "ok" => d.final)
        BY <3>1
      <4> QED BY <2>2, <2>3, <4>1, <4>2, Zenon DEF VerdictHolds
    <3> QED BY <1>2, <2>4, <3>11, <3>12 DEF ChainInvariant
  <2> QED BY <2>5, <2>6
<1>7. CASE OutputRecv
  <2>1. oPc = "run" /\ UNCHANGED <<oNext, delivered, status>>
    BY <1>7, Zenon DEF OutputRecv, sinkVars
  <2>2. verdict = "none" /\ status = "running"
    BY <1>4, <2>1 DEF VerdictHolds
  <2>3. CASE done = <<>>
    <3>1. oPc' = "drop" /\ verdict' = "resolve channel closed" /\ UNCHANGED <<done, oReorder>>
      BY <1>7, <2>3, Zenon DEF OutputRecv, Break
    <3>2. VerdictHolds'
      BY <2>1, <2>2, <3>1 DEF VerdictHolds
    <3> QED BY <1>1, <1>2, <1>4, <2>1, <3>1, <3>2, FrameChain DEF ChainInvariant
  <2>4. CASE done # <<>>
    <3>1. PICK m : m = Head(done)
      OBVIOUS
    <3>2. /\ done' = Tail(done)
          /\ \/ /\ m.err = "none" /\ oReorder' = oReorder \cup {m}
                /\ UNCHANGED <<oPc, verdict>>
             \/ /\ m.err # "none" /\ oPc' = "drop" /\ verdict' = m.err
                /\ UNCHANGED oReorder
      BY <1>7, <2>4, <3>1, Zenon DEF OutputRecv, Break
    <3>3. /\ 1 \in DOMAIN done /\ m = done[1] /\ m \in DoneMsg
          /\ \A i \in DOMAIN done' : i + 1 \in DOMAIN done /\ done'[i] = done[i + 1]
      BY <2>4, <3>1, <3>2, TakeElems DEF TypeOK, ChannelType
    <3>4. ChunksTrue'
      BY <1>3, <1>4, <3>2, <3>3, Zenon DEF ChunksTrue
    <3>5. m.err # "ok"
      BY <3>3 DEF DoneMsg, FaultKind
    <3>6. VerdictHolds'
      BY <2>1, <2>2, <3>2, <3>5 DEF VerdictHolds
    <3> QED BY <1>1, <1>2, <1>4, <2>1, <3>4, <3>6, FrameChain DEF ChainInvariant
  <2> QED BY <2>3, <2>4
<1>8. CASE DropDoneRx \/ ShutdownCap
  <2>1. /\ UNCHANGED <<done, oReorder, oNext, verdict, delivered, status>>
        /\ oPc \in {"drop", "shutdown"} /\ oPc' \in {"shutdown", "join"}
    BY <1>8, Zenon DEF DropDoneRx, ShutdownCap, sinkVars
  <2>2. VerdictHolds'
    BY <1>4, <2>1 DEF VerdictHolds, Healthy
  <2> QED BY <1>1, <1>2, <1>4, <2>1, <2>2, FrameChain DEF ChainInvariant
<1>9. CASE JoinAndReturn
  <2>1. /\ UNCHANGED <<done, oReorder, oNext, verdict, delivered>>
        /\ oPc' = "returned" /\ status' = verdict
    BY <1>9, Zenon DEF JoinAndReturn, sinkVars
  <2>2. VerdictHolds'
    BY <1>4, <2>1 DEF VerdictHolds, Healthy
  <2> QED BY <1>1, <1>2, <1>4, <2>1, <2>2, FrameChain DEF ChainInvariant
<1> QED BY <1>5, <1>6, <1>7, <1>8, <1>9 DEF Output

-----------------------------------------------------------------------------
(* The theorems. *)

\* The invariant of the anchored chain holds in every reachable state.
THEOREM ChainCorrect == Spec => []ChainInvariant
<1>1. Init => ChainInvariant
  BY InitChain
<1>2. TypeOK /\ ChainInvariant /\ [Next]_vars => ChainInvariant'
  <2> SUFFICES ASSUME TypeOK, ChainInvariant, [Next]_vars PROVE ChainInvariant'
    OBVIOUS
  <2>1. CASE UNCHANGED vars
    BY <2>1, FrameChain DEF vars, ChainInvariant, wVars, aVars, rVars, oVars, sinkVars
  <2>2. CASE Returned
    BY <2>2, FrameChain DEF Returned, vars, ChainInvariant, wVars, aVars, rVars, oVars, sinkVars
  <2> QED BY <2>1, <2>2, DispatchChainStep, WorkerChainStep, StageAChainStep, ResolverChainStep,
             OutputChainStep, ConsumerChainStep DEF Next
<1> QED BY <1>1, <1>2, TypeCorrect, PTL DEF Spec

\* What the sink receives is a prefix of the true output, in order, and stops
\* before the first damaged block: for every input, every guess of the block
\* finder, every number of threads and every schedule.
THEOREM OutputCorrect == Spec => []DeliveredIsTrueOutput
<1>1. TypeOK /\ ChainInvariant => DeliveredIsTrueOutput
  <2> SUFFICES ASSUME TypeOK, ChainInvariant PROVE DeliveredIsTrueOutput
    OBVIOUS
  <2> DEFINE n == chain[oNext]
  <2>1. n \in 0 .. NumBlocks
    BY DEF ChainInvariant, ChainGrows, OutputFollowsChain, TypeOK, StageAType, OutputType, InputType, NumChunks
  <2>2. delivered = Bytes(0, n) /\ \A k \in 0 .. n - 1 : fault[k] = "none"
    BY Zenon DEF ChainInvariant, OutputFollowsChain
  <2>3. Len(delivered) = n
    <3> HIDE DEF n
    <3>1. n \in Nat /\ 0 <= n
      BY <2>1, ConstantTypes
    <3>2. Len(Bytes(0, n)) = n - 0
      BY <3>1, BytesType
    <3> QED BY <2>2, <3>1, <3>2
  <2>4. \A k \in Blocks : k < Len(delivered) => k \in 0 .. n - 1
    BY <2>1, <2>3, ConstantTypes DEF Blocks
  <2> QED BY <2>2, <2>3, <2>4, Zenon DEF DeliveredIsTrueOutput
<1> QED BY <1>1, TypeCorrect, ChainCorrect, PTL

\* parallel_decode_member returns Ok only after the whole input was delivered,
\* and only if no block, trailer or back-reference of it is damaged.
THEOREM OkCorrect == Spec => []OkMeansComplete
<1>1. ChainInvariant => OkMeansComplete
  <2> SUFFICES ASSUME ChainInvariant, status = "ok" PROVE delivered = TrueOutput /\ Healthy
    BY Zenon DEF OkMeansComplete
  <2>1. verdict = "ok"
    BY DEF ChainInvariant, VerdictHolds
  <2> QED BY <2>1, Zenon DEF ChainInvariant, VerdictHolds
<1> QED BY <1>1, ChainCorrect, PTL

-----------------------------------------------------------------------------
(* The flow of the chunks. *)

\* The next chunk a worker, and a resolver, will receive.
NextWork == dNext - Len(work)
NextJob == aNext - Len(resolve)

\* The first chunk whose slot is still taken: a chunk that meets a closed sink
\* releases its slot although it is not counted as output.
FirstHeld == oNext + (IF verdict = "closed" THEN 1 ELSE 0)

\* The chunks that left the work channel and have not reached the chain, and
\* the chunks that left the resolve channel and have not reached the sink.
DecodedIds == PoolIds(wHold, result, aReorder)
ResolvedIds == PoolIds(rHold, done, oReorder)

\* A message of the resolve pool, or of stage A, that reports an error.
ErrorInFlight ==
    \/ \E r \in Resolvers : rHold[r].err # "none"
    \/ \E i \in DOMAIN done : done[i].err # "none"

\* Between dispatch and stage A.
BeforeChain ==
    /\ \A w \in Workers : wPc[w] # "send" => wHold[w].id = 0
    /\ aNext <= NextWork
    /\ \A i \in DOMAIN work : work[i] = NextWork + i - 1
    /\ PoolDistinct(wHold, result, aReorder)
    /\ DecodedIds \subseteq aNext .. NextWork - 1
    /\ aPc = "run" => DecodedIds = aNext .. NextWork - 1

\* Between stage A and the sink.
AfterChain ==
    /\ \A r \in Resolvers : rPc[r] # "send" => rHold[r] = NoDone
    /\ FirstHeld <= NextJob
    /\ \A i \in DOMAIN resolve : resolve[i].id = NextJob + i - 1
    /\ PoolDistinct(rHold, done, oReorder)
    /\ ResolvedIds \subseteq FirstHeld .. NextJob - 1
    /\ oPc = "run" => ResolvedIds = oNext .. NextJob - 1 \/ ErrorInFlight

\* The slots: every chunk from the first held one to the last dispatched, and
\* the one dispatch is about to send, has taken one.
Slots ==
    CapEnabled => /\ inFlight <= InflightMax
                  /\ inFlight >= dNext - FirstHeld + (IF dPc = "send" THEN 1 ELSE 0)

FlowInvariant == BeforeChain /\ AfterChain /\ Slots

-----------------------------------------------------------------------------
(* How the decode ends. *)

\* A thread ends only after the one before it has, and for a reason.
ThreadsEnd ==
    /\ aPc = "run" => \A w \in Workers : wPc[w] = "exited" => work = <<>> /\ dPc = "exited"
    /\ dPc = "exited" => dNext = NumChunks + 1 \/ aPc = "exited" \/ oPc \in {"join", "returned"}
    /\ capShutdown => oPc \in {"join", "returned"}
    /\ oPc = "run" => \A r \in Resolvers : rPc[r] = "exited" => resolve = <<>> /\ aPc = "exited"
    /\ oPc = "run" /\ aPc = "exited" => chain[aNext] = NumBlocks \/ ErrorInFlight

\* The chain ends with the input and nowhere else, with the last chunk at the
\* latest.
ChainEnds ==
    /\ \A i \in 1 .. aNext - 1 : chain[i] < NumBlocks
    /\ aPc = "run" => chain[aNext] < NumBlocks
    /\ aNext = NumChunks + 1 => chain[aNext] = NumBlocks
    /\ oPc = "run" => chain[oNext] < NumBlocks

\* An error is damage of the input.
RealError(e) == e = "none" \/ \E k \in Blocks : fault[k] = e
ErrorsReal ==
    /\ \A r \in Resolvers : RealError(rHold[r].err)
    /\ oPc = "run" => \A i \in DOMAIN done : RealError(done[i].err)
    /\ verdict \in {"none", "ok", "closed"} \/ RealError(verdict)
    /\ oPc # "run" => verdict # "none"

\* The output stage holds the bytes of the member in progress.
MemberCarried == oPc = "run" => curMember = Bytes(MemberStart(chain[oNext]), chain[oNext])

EndInvariant == ThreadsEnd /\ ChainEnds /\ ErrorsReal /\ MemberCarried

-----------------------------------------------------------------------------
(* Between dispatch and stage A. *)

\* The types that the proofs below use.
LEMMA FlowTypes ==
    ASSUME TypeOK
    PROVE  /\ dNext \in Nat /\ aNext \in Nat /\ oNext \in Nat /\ NumChunks \in Nat
           /\ aNext >= 1 /\ oNext >= 1 /\ dNext >= 1
           /\ work \in Seq(Nat) /\ result \in Seq(Outcome) /\ resolve \in Seq(Job) /\ done \in Seq(DoneMsg)
           /\ wHold \in [Workers -> Outcome] /\ rHold \in [Resolvers -> DoneMsg]
           /\ aReorder \in SUBSET Outcome /\ oReorder \in SUBSET DoneMsg
           /\ Len(work) \in Nat /\ Len(resolve) \in Nat
           /\ NextWork \in Int /\ NextJob \in Int /\ FirstHeld \in Nat
<1>1. NumChunks \in Nat
  BY DEF TypeOK, InputType, NumChunks
<1>2. /\ dNext \in Nat /\ aNext \in Nat /\ oNext \in Nat
      /\ aNext >= 1 /\ oNext >= 1 /\ dNext >= 1
  BY <1>1 DEF TypeOK, DispatchType, StageAType, OutputType
<1>3. work \in Seq(Nat) /\ result \in Seq(Outcome) /\ resolve \in Seq(Job) /\ done \in Seq(DoneMsg)
  <2>1. 1 .. NumChunks \subseteq Nat
    BY <1>1
  <2> QED BY <1>1, <2>1 DEF TypeOK, ChannelType
<1>4. /\ wHold \in [Workers -> Outcome] /\ rHold \in [Resolvers -> DoneMsg]
      /\ aReorder \in SUBSET Outcome /\ oReorder \in SUBSET DoneMsg
  BY DEF TypeOK, WorkerType, ResolverType, StageAType, OutputType
<1>5. Len(work) \in Nat /\ Len(resolve) \in Nat
  BY <1>3
<1> QED BY <1>1, <1>2, <1>3, <1>4, <1>5 DEF NextWork, NextJob, FirstHeld

\* An outcome without a chunk.
LEMMA NoIds == NoOutcome \in Outcome /\ NoOutcome.id = 0 /\ NoDone \in DoneMsg /\ NoDone.id = 0
<1>1. DecodeError \in DecodeResult
  BY ConstantTypes DEF DecodeError, DecodeResult, Value, Position, NoHint, EndOfInput, Bit
<1>2. NoDone \in DoneMsg
  BY DoneErrorType DEF NoDone
<1> QED BY <1>1, <1>2 DEF NoOutcome, Outcome, NoDone, DoneError

LEMMA BeforeFrame ==
    ASSUME BeforeChain, UNCHANGED <<work, dNext, wVars, result, aReorder, aNext>>,
           aPc' = aPc \/ aPc' = "exited"
    PROVE  BeforeChain'
<1>1. UNCHANGED <<wPc, wHold, NextWork, DecodedIds>>
  BY DEF wVars, NextWork, DecodedIds
<1>2. aPc' = "run" => aPc = "run"
  OBVIOUS
<1> QED BY <1>1, <1>2 DEF BeforeChain

LEMMA BeforeDispatch ==
    ASSUME TypeOK, BeforeChain, Dispatch
    PROVE  BeforeChain'
<1>1. UNCHANGED <<wVars, result, aVars>>
  BY Zenon DEF Dispatch, AcquireSlot, AcquireShutdown, DispatchSend, DispatchSendFails
<1>2. UNCHANGED <<wPc, wHold, aReorder, aNext, aPc, DecodedIds>>
  BY <1>1 DEF wVars, aVars, DecodedIds
<1>3. CASE DispatchSend
  <2>1. work' = Append(work, dNext) /\ dNext' = dNext + 1
    BY <1>3, Zenon DEF DispatchSend
  <2>2. work \in Seq(Nat) /\ dNext \in Nat /\ Len(work) \in Nat
    BY FlowTypes
  <2>3. NextWork' = NextWork
    BY <2>1, <2>2 DEF NextWork
  <2>4. \A i \in DOMAIN work' : work'[i] = NextWork + i - 1
    <3> SUFFICES ASSUME NEW i \in DOMAIN work' PROVE work'[i] = NextWork + i - 1
      OBVIOUS
    <3>1. CASE i \in DOMAIN work
      <4>1. work'[i] = work[i]
        BY <2>1, <2>2, <3>1
      <4> QED BY <3>1, <4>1 DEF BeforeChain
    <3>2. CASE i \notin DOMAIN work
      <4>1. i = Len(work) + 1 /\ work'[i] = dNext
        BY <2>1, <2>2, <3>2
      <4> QED BY <2>2, <4>1 DEF NextWork
    <3> QED BY <3>1, <3>2
  <2> QED BY <1>1, <1>2, <2>3, <2>4 DEF BeforeChain
<1>4. CASE ~DispatchSend
  <2>1. UNCHANGED <<work, dNext>>
    BY <1>4, Zenon DEF Dispatch, AcquireSlot, AcquireShutdown, DispatchSendFails
  <2> QED BY <1>1, <1>2, <2>1, BeforeFrame
<1> QED BY <1>3, <1>4

LEMMA BeforeWorker ==
    ASSUME TypeOK, TypeOK', BeforeChain, NEW w \in Workers, Worker(w)
    PROVE  BeforeChain'
<1>1. UNCHANGED <<dVars, aVars>>
  BY Zenon DEF Worker, WorkerRecv, WorkerSend, WorkerExit
<1>2. UNCHANGED <<dNext, aReorder, aNext, aPc>>
  BY <1>1 DEF dVars, aVars
<1>3. /\ wHold \in [Workers -> Outcome] /\ result \in Seq(Outcome) /\ aReorder \in SUBSET Outcome
      /\ work \in Seq(Nat) /\ dNext \in Nat /\ Len(work) \in Nat /\ aNext \in Nat /\ NextWork \in Int
      /\ NoOutcome \in Outcome /\ NoOutcome.id = 0 /\ aNext >= 1
      /\ wPc \in [Workers -> {"recv", "send", "exited"}]
  BY FlowTypes, NoIds DEF TypeOK, WorkerType
<1>4. /\ \A v \in Workers : wPc[v] # "send" => wHold[v].id = 0
      /\ aNext <= NextWork /\ \A i \in DOMAIN work : work[i] = NextWork + i - 1
      /\ PoolDistinct(wHold, result, aReorder)
      /\ DecodedIds \subseteq aNext .. NextWork - 1
      /\ aPc = "run" => DecodedIds = aNext .. NextWork - 1
  BY DEF BeforeChain
<1>5. CASE WorkerRecv(w)
  <2>1. PICK r : wHold' = [wHold EXCEPT ![w] = [id |-> Head(work), res |-> r]]
    BY <1>5, Zenon DEF WorkerRecv
  <2>2. work' = Tail(work) /\ work # <<>> /\ wPc[w] = "recv" /\ wPc' = [wPc EXCEPT ![w] = "send"]
        /\ UNCHANGED result
    BY <1>5, Zenon DEF WorkerRecv
  <2> DEFINE m == [id |-> Head(work), res |-> r]
  <2>3. m \in Outcome
    <3>1. wHold' \in [Workers -> Outcome]
      BY DEF TypeOK, WorkerType
    <3>2. wHold'[w] = m
      BY <1>3, <2>1
    <3> QED BY <3>1, <3>2
  <2>4. Head(work) = NextWork /\ NextWork' = NextWork + 1
        /\ \A i \in DOMAIN work' : work'[i] = NextWork + i
    <3>1. /\ 1 \in DOMAIN work /\ Head(work) = work[1]
          /\ \A i \in DOMAIN work' : i + 1 \in DOMAIN work /\ work'[i] = work[i + 1]
      BY <1>3, <2>2, TakeElems
    <3>2. Head(work) = NextWork
      BY <1>3, <1>4, <3>1
    <3>3. Len(Tail(work)) = Len(work) - 1
      BY <1>3, <2>2
    <3>4. NextWork' = NextWork + 1
      BY <1>2, <1>3, <2>2, <3>3 DEF NextWork
    <3>5. \A i \in DOMAIN work' : work'[i] = NextWork + i
      <4> SUFFICES ASSUME NEW i \in DOMAIN work' PROVE work'[i] = NextWork + i
        OBVIOUS
      <4>1. i \in Nat
        BY <1>3, <2>2
      <4>2. work'[i] = NextWork + (i + 1) - 1
        BY <1>4, <3>1
      <4> QED BY <1>3, <4>1, <4>2
    <3> QED BY <3>2, <3>4, <3>5
  <2>5. m.id = NextWork /\ m.id \notin PoolIds(wHold, result, aReorder) /\ wHold[w].id = 0
    BY <1>3, <1>4, <2>2, <2>4 DEF DecodedIds
  <2> HIDE DEF m
  <2>6. /\ PoolDistinct(wHold', result, aReorder)
        /\ PoolIds(wHold', result, aReorder) = DecodedIds \cup ({NextWork} \ {0})
    <3>1. wHold' = Taken(wHold, w, m)
      BY <2>1 DEF m, Taken
    <3>2. /\ wHold \in [Workers -> Outcome] /\ result \in Seq(Outcome) /\ aReorder \in SUBSET Outcome
          /\ PoolDistinct(wHold, result, aReorder)
      BY <1>3, <1>4
    <3>3. /\ PoolDistinct(wHold', result, aReorder)
          /\ PoolIds(wHold', result, aReorder) = PoolIds(wHold, result, aReorder) \cup ({m.id} \ {0})
      BY <2>3, <2>5, <3>1, <3>2, PoolTake, SMT
    <3> QED BY <2>5, <3>3 DEF DecodedIds
  <2>7. PoolDistinct(wHold', result', aReorder') /\ DecodedIds' = DecodedIds \cup {NextWork}
    BY <1>2, <1>3, <1>4, <2>2, <2>6 DEF DecodedIds
  <2>8. \A v \in Workers : wPc'[v] # "send" => wHold'[v].id = 0
    BY <1>3, <1>4, <2>1, <2>2
  <2>9. /\ DecodedIds' \subseteq aNext .. NextWork
        /\ aPc = "run" => DecodedIds' = aNext .. NextWork
    BY <1>3, <1>4, <2>7
  <2>10. aNext' <= NextWork' /\ \A i \in DOMAIN work' : work'[i] = NextWork' + i - 1
    BY <1>2, <1>3, <1>4, <2>2, <2>4
  <2>11. NextWork = NextWork' - 1
    BY <1>3, <2>4
  <2> QED BY <1>2, <2>7, <2>8, <2>9, <2>10, <2>11 DEF BeforeChain
<1>6. CASE WorkerSend(w)
  <2>1. /\ result' = Append(result, wHold[w]) /\ wHold' = [wHold EXCEPT ![w] = NoOutcome]
        /\ wPc' = [wPc EXCEPT ![w] = "recv"] /\ UNCHANGED work
    BY <1>6, Zenon DEF WorkerSend
  <2>2. PoolDistinct(wHold', result', aReorder') /\ DecodedIds' = DecodedIds
    <3>1. /\ wHold \in [Workers -> Outcome] /\ result \in Seq(Outcome) /\ aReorder \in SUBSET Outcome
          /\ PoolDistinct(wHold, result, aReorder) /\ NoOutcome \in Outcome /\ NoOutcome.id = 0
      BY <1>3, <1>4
    <3>2. result' = Sent(result, wHold[w]) /\ wHold' = Taken(wHold, w, NoOutcome)
      BY <2>1 DEF Sent, Taken
    <3>3. /\ PoolDistinct(wHold', result', aReorder)
          /\ PoolIds(wHold', result', aReorder) = PoolIds(wHold, result, aReorder)
      BY <3>1, <3>2, PoolSend, SMT
    <3> QED BY <1>2, <3>3 DEF DecodedIds
  <2>3. NextWork' = NextWork
    BY <1>2, <2>1 DEF NextWork
  <2>4. \A v \in Workers : wPc'[v] # "send" => wHold'[v].id = 0
    BY <1>3, <1>4, <2>1
  <2> QED BY <1>2, <1>4, <2>1, <2>2, <2>3, <2>4 DEF BeforeChain
<1>7. CASE WorkerExit(w)
  <2>1. /\ wHold' = [wHold EXCEPT ![w] = NoOutcome]
        /\ wPc' = [wPc EXCEPT ![w] = "exited"] /\ UNCHANGED <<work, result>>
        /\ wPc[w] # "send" \/ aPc # "run"
    BY <1>7, Zenon DEF WorkerExit, ResultRxAlive
  <2>2. PoolDistinct(wHold', result', aReorder') /\ DecodedIds' = DecodedIds \ {wHold[w].id}
    <3>1. /\ wHold \in [Workers -> Outcome] /\ result \in Seq(Outcome) /\ aReorder \in SUBSET Outcome
          /\ PoolDistinct(wHold, result, aReorder) /\ NoOutcome \in Outcome /\ NoOutcome.id = 0
      BY <1>3, <1>4
    <3>2. wHold' = Taken(wHold, w, NoOutcome)
      BY <2>1 DEF Taken
    <3>3. /\ PoolDistinct(wHold', result, aReorder)
          /\ PoolIds(wHold', result, aReorder) = PoolIds(wHold, result, aReorder) \ {wHold[w].id}
      BY <3>1, <3>2, PoolDrop, SMT
    <3> QED BY <1>2, <2>1, <3>3 DEF DecodedIds
  <2>3. aPc = "run" => DecodedIds' = DecodedIds
    <3>1. 0 \notin DecodedIds
      BY DEF DecodedIds, PoolIds
    <3> QED BY <1>4, <2>1, <2>2, <3>1
  <2>4. NextWork' = NextWork
    BY <1>2, <2>1 DEF NextWork
  <2>5. \A v \in Workers : wPc'[v] # "send" => wHold'[v].id = 0
    BY <1>3, <1>4, <2>1
  <2>6. DecodedIds' \subseteq DecodedIds
    BY <2>2
  <2> QED BY <1>2, <1>4, <2>1, <2>2, <2>3, <2>4, <2>5, <2>6 DEF BeforeChain
<1> QED BY <1>5, <1>6, <1>7 DEF Worker

LEMMA BeforeStageAStep ==
    ASSUME TypeOK, BeforeChain, StageA
    PROVE  BeforeChain'
<1>1. UNCHANGED <<work, dVars, wVars>>
  BY Zenon DEF StageA, StageAForward, StageAFail, StageARecv, StageAWorkersGone
<1>2. UNCHANGED <<work, dNext, wPc, wHold, NextWork>>
  BY <1>1 DEF dVars, wVars, NextWork
<1>3. /\ wHold \in [Workers -> Outcome] /\ result \in Seq(Outcome) /\ aReorder \in SUBSET Outcome
      /\ PoolDistinct(wHold, result, aReorder)
  BY FlowTypes DEF BeforeChain
<1>4. aNext \in Nat /\ NextWork \in Int /\ aNext >= 1
  BY FlowTypes
<1>5. CASE StageAForward
  <2>1. PICK o \in aReorder : AReady(o) /\ \E r \in ChainResults(o) : Forward(o, r)
    BY <1>5, Zenon DEF StageAForward
  <2>2. /\ aPc = "run" /\ UNCHANGED result /\ aReorder' = Gone(aReorder, o) /\ o.id = aNext
        /\ aNext' = aNext + 1 \/ (aPc' = "exited" /\ aNext' = aNext)
    BY <1>5, <2>1 DEF StageAForward, Forward, AReady, Gone
  <2>3. /\ PoolDistinct(wHold, result, aReorder')
        /\ PoolIds(wHold, result, aReorder') = PoolIds(wHold, result, aReorder) \ {o.id}
    BY <1>3, <2>2, PoolRemove, SMT
  <2>4. PoolDistinct(wHold', result', aReorder') /\ DecodedIds' = DecodedIds \ {aNext}
    BY <1>2, <2>2, <2>3 DEF DecodedIds
  <2>5. DecodedIds = aNext .. NextWork - 1
    BY <2>2 DEF BeforeChain
  <2>6. aNext \in DecodedIds
    BY <1>4, <2>2 DEF DecodedIds, PoolIds
  <2>7. aNext <= NextWork - 1 /\ DecodedIds' = aNext + 1 .. NextWork - 1
    BY <1>4, <2>4, <2>5, <2>6
  <2>8. aNext' <= NextWork /\ DecodedIds' \subseteq aNext' .. NextWork - 1
        /\ (aPc' = "run" => DecodedIds' = aNext' .. NextWork - 1)
    BY <1>4, <2>2, <2>7
  <2> QED BY <1>2, <2>4, <2>8 DEF BeforeChain
<1>6. CASE StageARecv
  <2>1. /\ UNCHANGED <<aPc, aNext>> /\ result # <<>>
        /\ aReorder' = Kept(aReorder, Head(result)) /\ result' = Received(result)
    BY <1>6, Zenon DEF StageARecv, Kept, Received
  <2>2. /\ PoolDistinct(wHold, result', aReorder')
        /\ PoolIds(wHold, result', aReorder') = PoolIds(wHold, result, aReorder)
    BY <1>3, <2>1, PoolCollect, SMT
  <2>3. PoolDistinct(wHold', result', aReorder') /\ DecodedIds' = DecodedIds
    BY <1>2, <2>2 DEF DecodedIds
  <2> QED BY <1>2, <2>1, <2>3 DEF BeforeChain
<1>7. CASE StageAFail \/ StageAWorkersGone
  <2>1. UNCHANGED <<result, aReorder, aNext>> /\ aPc' = "exited"
    BY <1>7, Zenon DEF StageAFail, StageAWorkersGone
  <2> QED BY <1>1, <1>2, <2>1, BeforeFrame
<1> QED BY <1>5, <1>6, <1>7 DEF StageA

\* Every step keeps the chunks before stage A in place.
LEMMA BeforeStep ==
    ASSUME TypeOK, TypeOK', BeforeChain, [Next]_vars
    PROVE  BeforeChain'
<1>1. CASE Dispatch
  BY <1>1, BeforeDispatch
<1>2. ASSUME NEW w \in Workers, Worker(w) PROVE BeforeChain'
  BY <1>2, BeforeWorker
<1>3. CASE StageA
  BY <1>3, BeforeStageAStep
<1>4. ASSUME UNCHANGED <<work, dVars, wVars, result, aVars>> PROVE BeforeChain'
  <2>1. UNCHANGED <<dNext, aReorder, aNext, aPc>>
    BY <1>4 DEF dVars, aVars
  <2> QED BY <1>4, <2>1, BeforeFrame
<1>5. ASSUME NEW r \in Resolvers, Resolver(r) PROVE BeforeChain'
  <2>1. UNCHANGED <<work, dVars, wVars, result, aVars>>
    BY <1>5, Zenon DEF Resolver, ResolverRecv, ResolverSend, ResolverExit
  <2> QED BY <1>4, <2>1
<1>6. CASE Output
  <2>1. UNCHANGED <<work, dVars, wVars, result, aVars>>
    BY <1>6, Zenon DEF Output, OutputMismatch, OutputSend, OutputRecv, DropDoneRx, ShutdownCap, JoinAndReturn
  <2> QED BY <1>4, <2>1
<1>7. CASE ConsumerRecv \/ ConsumerHangsUp \/ Returned \/ UNCHANGED vars
  <2>1. UNCHANGED <<work, dVars, wVars, result, aVars>>
    BY <1>7, Zenon DEF ConsumerRecv, ConsumerHangsUp, Returned, vars
  <2> QED BY <1>4, <2>1
<1> QED BY <1>1, <1>2, <1>3, <1>5, <1>6, <1>7 DEF Next

-----------------------------------------------------------------------------
(* Between stage A and the sink. *)

LEMMA AfterFrame ==
    ASSUME AfterChain, UNCHANGED <<rVars, done, oReorder>>,
           \A i \in DOMAIN resolve' : resolve'[i].id = NextJob + i - 1,
           NextJob' = NextJob, FirstHeld' = FirstHeld, oNext' = oNext,
           oPc' = "run" => oPc = "run"
    PROVE  AfterChain'
<1>1. UNCHANGED <<rPc, rHold, ResolvedIds>>
  BY DEF rVars, ResolvedIds
<1>2. ErrorInFlight' <=> ErrorInFlight
  BY <1>1 DEF ErrorInFlight
<1> QED BY <1>1, <1>2 DEF AfterChain

LEMMA AfterStageAStep ==
    ASSUME TypeOK, AfterChain, StageA
    PROVE  AfterChain'
<1>1. UNCHANGED <<rVars, oVars>>
  BY Zenon DEF StageA, StageAForward, StageAFail, StageARecv, StageAWorkersGone
<1>2. UNCHANGED <<rPc, rHold, oPc, oReorder, oNext, FirstHeld>>
  BY <1>1 DEF rVars, oVars, FirstHeld
<1>3. /\ rHold \in [Resolvers -> DoneMsg] /\ done \in Seq(DoneMsg) /\ oReorder \in SUBSET DoneMsg
      /\ PoolDistinct(rHold, done, oReorder)
  BY FlowTypes DEF AfterChain
<1>4. aNext \in Nat /\ resolve \in Seq(Job) /\ Len(resolve) \in Nat /\ NextJob \in Int
  BY FlowTypes
<1>5. CASE StageAForward
  <2>1. PICK o \in aReorder : AReady(o) /\ \E r \in ChainResults(o) : Forward(o, r)
    BY <1>5, Zenon DEF StageAForward
  <2>2. PICK r \in ChainResults(o) : Forward(o, r)
    BY <2>1
  <2> DEFINE job == [id |-> o.id, first |-> r.first, next |-> r.next, final |-> r.final, tail |-> prevTail]
  <2>3. job.id = aNext
    BY <2>1 DEF AReady
  <2> HIDE DEF job
  <2>4. UNCHANGED done
    BY <1>5, Zenon DEF StageAForward
  <2>5. \/ resolve' = Append(resolve, job) /\ aNext' = aNext + 1
        \/ UNCHANGED <<resolve, aNext>>
    BY <2>2, Zenon DEF Forward, job
  <2>6. CASE resolve' = Append(resolve, job) /\ aNext' = aNext + 1
    <3>1. /\ DOMAIN resolve = 1 .. Len(resolve) /\ Len(Append(resolve, job)) = Len(resolve) + 1
          /\ DOMAIN Append(resolve, job) = 1 .. Len(resolve) + 1
          /\ \A i \in 1 .. Len(resolve) : Append(resolve, job)[i] = resolve[i]
          /\ Append(resolve, job)[Len(resolve) + 1] = job
      BY <1>4
    <3>2. NextJob' = NextJob
      BY <1>4, <2>6, <3>1 DEF NextJob
    <3>3. ASSUME NEW i \in DOMAIN resolve' PROVE resolve'[i].id = NextJob + i - 1
      <4>1. CASE i \in 1 .. Len(resolve)
        BY <2>6, <3>1, <4>1 DEF AfterChain
      <4>2. CASE i = Len(resolve) + 1
        BY <1>4, <2>3, <2>6, <3>1, <4>2 DEF NextJob
      <4> QED BY <1>4, <2>6, <3>1, <3>3, <4>1, <4>2
    <3> QED BY <1>1, <1>2, <2>4, <3>2, <3>3, AfterFrame
  <2>7. CASE UNCHANGED <<resolve, aNext>>
    <3>1. NextJob' = NextJob
      BY <2>7 DEF NextJob
    <3> QED BY <1>1, <1>2, <2>4, <2>7, <3>1, AfterFrame DEF AfterChain
  <2> QED BY <2>5, <2>6, <2>7
<1>6. CASE StageARecv
  <2>1. UNCHANGED <<resolve, done, aNext>>
    BY <1>6, Zenon DEF StageARecv
  <2>2. NextJob' = NextJob
    BY <2>1 DEF NextJob
  <2> QED BY <1>1, <1>2, <2>1, <2>2, AfterFrame DEF AfterChain
<1>7. CASE StageAFail \/ StageAWorkersGone
  <2>1. UNCHANGED <<resolve, aNext>>
    BY <1>7, Zenon DEF StageAFail, StageAWorkersGone
  <2>2. NextJob' = NextJob
    BY <2>1 DEF NextJob
  <2>3. PICK z \in DoneMsg :
          z.id = 0 /\ z.err # "none" /\ done' = IF DoneRxAlive THEN Sent(done, z) ELSE done
    <3>1. \E e \in {"decode", "worker channel closed"} :
            done' = IF DoneRxAlive THEN Append(done, DoneError(e)) ELSE done
      BY <1>7, Zenon DEF StageAFail, StageAWorkersGone
    <3>2. ASSUME NEW e \in {"decode", "worker channel closed"}
          PROVE  DoneError(e) \in DoneMsg /\ DoneError(e).id = 0 /\ DoneError(e).err # "none"
      <4>1. DoneError(e) \in DoneMsg
        BY DoneErrorType DEF FaultKind
      <4> QED BY <4>1 DEF DoneError
    <3> QED BY <3>1, <3>2 DEF Sent
  <2>4. CASE DoneRxAlive
    <3>1. done' = Sent(done, z) /\ z \in DoneMsg /\ z.id = 0 /\ z.err # "none"
      BY <2>3, <2>4
    <3>2. z.id = 0
      BY <3>1
    <3>3. done \in Seq(DoneMsg) /\ PoolDistinct(rHold, done, oReorder)
      BY <1>3
    <3>4. /\ PoolDistinct(rHold, done', oReorder)
          /\ PoolIds(rHold, done', oReorder) = PoolIds(rHold, done, oReorder)
      BY <3>1, <3>2, <3>3, PoolError, SMT
    <3>5. PoolDistinct(rHold', done', oReorder') /\ ResolvedIds' = ResolvedIds
      BY <1>2, <3>4 DEF ResolvedIds
    <3>6. ErrorInFlight'
      <4>1. PICK l \in DOMAIN done' : done'[l] = z
        BY <3>1, <3>3, PutDomain DEF Sent
      <4> QED BY <3>1, <4>1 DEF ErrorInFlight
    <3> QED BY <1>2, <2>1, <2>2, <3>5, <3>6 DEF AfterChain
  <2>5. CASE ~DoneRxAlive
    BY <1>1, <1>2, <2>1, <2>2, <2>3, <2>5, AfterFrame DEF AfterChain
  <2> QED BY <2>4, <2>5
<1> QED BY <1>5, <1>6, <1>7 DEF StageA

LEMMA AfterResolver ==
    ASSUME TypeOK, TypeOK', AfterChain, NEW r \in Resolvers, Resolver(r)
    PROVE  AfterChain'
<1>1. UNCHANGED <<aVars, oVars>>
  BY Zenon DEF Resolver, ResolverRecv, ResolverSend, ResolverExit
<1>2. UNCHANGED <<aNext, oPc, oReorder, oNext, FirstHeld>>
  BY <1>1 DEF aVars, oVars, FirstHeld
<1>3. /\ rHold \in [Resolvers -> DoneMsg] /\ done \in Seq(DoneMsg) /\ oReorder \in SUBSET DoneMsg
      /\ PoolDistinct(rHold, done, oReorder) /\ NoDone \in DoneMsg /\ NoDone.id = 0
  BY FlowTypes, NoIds DEF AfterChain
<1>4. /\ aNext \in Nat /\ resolve \in Seq(Job) /\ Len(resolve) \in Nat /\ NextJob \in Int
      /\ FirstHeld \in Nat /\ oNext \in Nat /\ oNext >= 1 /\ FirstHeld >= oNext
      /\ rPc \in [Resolvers -> {"recv", "send", "exited"}]
  BY FlowTypes DEF TypeOK, ResolverType, FirstHeld
<1>5. /\ \A q \in Resolvers : rPc[q] # "send" => rHold[q] = NoDone
      /\ FirstHeld <= NextJob /\ \A i \in DOMAIN resolve : resolve[i].id = NextJob + i - 1
      /\ ResolvedIds \subseteq FirstHeld .. NextJob - 1
      /\ oPc = "run" => ResolvedIds = oNext .. NextJob - 1 \/ ErrorInFlight
  BY DEF AfterChain
<1>6. NoDone.err = "none"
  BY DEF NoDone, DoneError
<1>7. CASE ResolverRecv(r)
  <2> DEFINE m == Resolved(Head(resolve))
  <2>1. /\ rHold' = Taken(rHold, r, m) /\ resolve' = Tail(resolve) /\ resolve # <<>> /\ rPc[r] = "recv"
        /\ rPc' = [rPc EXCEPT ![r] = "send"] /\ UNCHANGED done
    BY <1>7, Zenon DEF ResolverRecv, Taken
  <2>2. m \in DoneMsg
    BY <1>4, <2>1, ResolvedType, TakeType
  <2>3. \/ m.id = Head(resolve).id /\ m.err = "none"
        \/ m.id = 0 /\ m.err # "none"
    BY DEF Resolved, DoneError
  <2> HIDE DEF m
  <2>4. Head(resolve).id = NextJob /\ NextJob' = NextJob + 1
        /\ \A i \in DOMAIN resolve' : resolve'[i].id = NextJob + i
    <3>1. /\ 1 \in DOMAIN resolve /\ Head(resolve) = resolve[1]
          /\ \A i \in DOMAIN resolve' : i + 1 \in DOMAIN resolve /\ resolve'[i] = resolve[i + 1]
      BY <1>4, <2>1, TakeElems
    <3>2. Head(resolve).id = NextJob
      BY <1>4, <1>5, <3>1
    <3>3. Len(Tail(resolve)) = Len(resolve) - 1
      BY <1>4, <2>1
    <3>4. NextJob' = NextJob + 1
      BY <1>2, <1>4, <2>1, <3>3 DEF NextJob
    <3>5. ASSUME NEW i \in DOMAIN resolve' PROVE resolve'[i].id = NextJob + i
      <4>1. i \in Nat
        BY <1>4, <2>1
      <4>2. resolve'[i].id = NextJob + (i + 1) - 1
        BY <1>5, <3>1, <3>5
      <4> QED BY <1>4, <4>1, <4>2
    <3> QED BY <3>2, <3>4, <3>5
  <2>5. m.id \notin PoolIds(rHold, done, oReorder) /\ rHold[r].id = 0
    <3>1. NextJob \notin ResolvedIds /\ 0 \notin ResolvedIds
      <4>1. NextJob \notin FirstHeld .. NextJob - 1
        BY <1>4
      <4>2. 0 \notin FirstHeld .. NextJob - 1
        BY <1>4
      <4> QED BY <1>5, <4>1, <4>2
    <3>2. rHold[r] = NoDone
      BY <1>5, <2>1
    <3> QED BY <1>3, <2>3, <2>4, <3>1, <3>2 DEF ResolvedIds
  <2>6. /\ PoolDistinct(rHold', done, oReorder)
        /\ PoolIds(rHold', done, oReorder) = PoolIds(rHold, done, oReorder) \cup ({m.id} \ {0})
    BY <1>3, <2>1, <2>2, <2>5, PoolTake, SMT
  <2>7. PoolDistinct(rHold', done', oReorder') /\ ResolvedIds' = ResolvedIds \cup ({m.id} \ {0})
    BY <1>2, <2>1, <2>6 DEF ResolvedIds
  <2>8. \A q \in Resolvers : rPc'[q] # "send" => rHold'[q] = NoDone
    BY <1>3, <1>4, <1>5, <2>1 DEF Taken
  <2>9. ResolvedIds' \subseteq FirstHeld .. NextJob
    <3>1. m.id = NextJob \/ m.id = 0
      BY <2>3, <2>4
    <3>2. FirstHeld .. NextJob - 1 \subseteq FirstHeld .. NextJob /\ NextJob \in FirstHeld .. NextJob
      <4>1. FirstHeld \in Int /\ NextJob \in Int /\ FirstHeld <= NextJob
        BY <1>4, <1>5
      <4> QED BY <4>1
    <3>3. ResolvedIds \subseteq FirstHeld .. NextJob
      BY <1>5, <3>2, Zenon
    <3> QED BY <2>7, <3>1, <3>2, <3>3, Zenon
  <2>10. ASSUME oPc = "run" PROVE ResolvedIds' = oNext .. NextJob \/ ErrorInFlight'
    <3>1. CASE ErrorInFlight
      <4>1. \A q \in Resolvers : rHold[q].err # "none" => rHold'[q] = rHold[q]
        BY <1>3, <1>5, <1>6, <2>1 DEF Taken
      <4> QED BY <2>1, <3>1, <4>1 DEF ErrorInFlight
    <3>2. CASE m.err # "none"
      <4>1. rHold'[r] = m
        BY <1>3, <2>1 DEF Taken
      <4> QED BY <3>2, <4>1 DEF ErrorInFlight
    <3>3. CASE ~ErrorInFlight /\ m.err = "none"
      <4>1. ResolvedIds = oNext .. NextJob - 1 /\ m.id = NextJob /\ FirstHeld <= NextJob
        BY <1>5, <2>3, <2>4, <2>10, <3>3
      <4> QED BY <1>4, <2>7, <4>1
    <3> QED BY <3>1, <3>2, <3>3
  <2>11. FirstHeld <= NextJob' /\ NextJob = NextJob' - 1
    BY <1>4, <1>5, <2>4
  <2>12. \A i \in DOMAIN resolve' : resolve'[i].id = NextJob' + i - 1
    BY <1>4, <2>1, <2>4
  <2> QED BY <1>2, <2>7, <2>8, <2>9, <2>10, <2>11, <2>12 DEF AfterChain
<1>8. CASE ResolverSend(r)
  <2>1. /\ done' = Sent(done, rHold[r]) /\ rHold' = Taken(rHold, r, NoDone)
        /\ rPc' = [rPc EXCEPT ![r] = "recv"] /\ UNCHANGED resolve
    BY <1>8, Zenon DEF ResolverSend, Sent, Taken
  <2>2. /\ PoolDistinct(rHold', done', oReorder)
        /\ PoolIds(rHold', done', oReorder) = PoolIds(rHold, done, oReorder)
    BY <1>3, <2>1, PoolSend, SMT
  <2>3. PoolDistinct(rHold', done', oReorder') /\ ResolvedIds' = ResolvedIds
    BY <1>2, <2>2 DEF ResolvedIds
  <2>4. \A q \in Resolvers : rPc'[q] # "send" => rHold'[q] = NoDone
    BY <1>3, <1>4, <1>5, <2>1 DEF Taken
  <2>5. ErrorInFlight => ErrorInFlight'
    <3>1. \A i \in DOMAIN done : i \in DOMAIN done' /\ done'[i] = done[i]
      BY <1>3, <2>1, PutDomain DEF Sent
    <3>2. \E l \in DOMAIN done' : done'[l] = rHold[r]
      BY <1>3, <2>1, PutDomain DEF Sent
    <3>3. \A q \in Resolvers : q = r \/ rHold'[q] = rHold[q]
      BY <1>3, <2>1 DEF Taken
    <3> QED BY <3>1, <3>2, <3>3 DEF ErrorInFlight
  <2>6. NextJob' = NextJob
    BY <1>2, <2>1 DEF NextJob
  <2> QED BY <1>2, <1>5, <2>1, <2>3, <2>4, <2>5, <2>6 DEF AfterChain
<1>9. CASE ResolverExit(r)
  <2>1. /\ rHold' = Taken(rHold, r, NoDone) /\ rPc' = [rPc EXCEPT ![r] = "exited"]
        /\ UNCHANGED <<resolve, done>> /\ (rPc[r] # "send" \/ oPc # "run")
    BY <1>9 DEF ResolverExit, Taken, DoneRxAlive
  <2>2. /\ PoolDistinct(rHold', done, oReorder)
        /\ PoolIds(rHold', done, oReorder) = PoolIds(rHold, done, oReorder) \ {rHold[r].id}
    BY <1>3, <2>1, PoolDrop, SMT
  <2>3. PoolDistinct(rHold', done', oReorder') /\ ResolvedIds' = ResolvedIds \ {rHold[r].id}
    BY <1>2, <2>1, <2>2 DEF ResolvedIds
  <2>4. \A q \in Resolvers : rPc'[q] # "send" => rHold'[q] = NoDone
    BY <1>3, <1>4, <1>5, <2>1 DEF Taken
  <2>5. ResolvedIds' \subseteq FirstHeld .. NextJob - 1
    BY <1>5, <2>3
  <2>6. ASSUME oPc = "run" PROVE rHold' = rHold
    <3>1. rHold[r] = NoDone
      BY <1>5, <2>1, <2>6
    <3> QED BY <1>3, <2>1, <3>1 DEF Taken
  <2>7. oPc = "run" => ResolvedIds' = ResolvedIds /\ (ErrorInFlight' <=> ErrorInFlight)
    BY <1>2, <2>1, <2>6 DEF ResolvedIds, ErrorInFlight
  <2>8. NextJob' = NextJob
    BY <1>2, <2>1 DEF NextJob
  <2> QED BY <1>2, <1>5, <2>1, <2>3, <2>4, <2>5, <2>7, <2>8 DEF AfterChain
<1> QED BY <1>7, <1>8, <1>9 DEF Resolver

LEMMA AfterOutput ==
    ASSUME TypeOK, VerdictHolds, AfterChain, Output
    PROVE  AfterChain'
<1>1. UNCHANGED <<resolve, aVars, rVars>>
  BY Zenon DEF Output, OutputMismatch, OutputSend, OutputRecv, DropDoneRx, ShutdownCap, JoinAndReturn
<1>2. UNCHANGED <<resolve, aNext, rPc, rHold, NextJob>>
  BY <1>1 DEF aVars, rVars, NextJob
<1>3. /\ rHold \in [Resolvers -> DoneMsg] /\ done \in Seq(DoneMsg) /\ oReorder \in SUBSET DoneMsg
      /\ PoolDistinct(rHold, done, oReorder)
  BY FlowTypes DEF AfterChain
<1>4. oNext \in Nat /\ oNext >= 1 /\ NextJob \in Int
  BY FlowTypes
<1>5. ASSUME oPc = "run" PROVE FirstHeld = oNext
  BY <1>5, <1>4 DEF VerdictHolds, FirstHeld
<1>6. ASSUME NEW d \in oReorder, d.id = oNext, oReorder' = Gone(oReorder, d), UNCHANGED done, oPc = "run"
      PROVE  /\ PoolDistinct(rHold', done', oReorder') /\ ResolvedIds' = ResolvedIds \ {oNext}
             /\ oNext <= NextJob - 1 /\ (ErrorInFlight' <=> ErrorInFlight)
  <2>1. /\ PoolDistinct(rHold, done, oReorder')
        /\ PoolIds(rHold, done, oReorder') = PoolIds(rHold, done, oReorder) \ {d.id}
    BY <1>3, <1>6, PoolRemove, SMT
  <2>2. PoolDistinct(rHold', done', oReorder') /\ ResolvedIds' = ResolvedIds \ {oNext}
    BY <1>2, <1>6, <2>1 DEF ResolvedIds
  <2>3. oNext \in ResolvedIds
    BY <1>4, <1>6 DEF ResolvedIds, PoolIds
  <2>4. oNext \in FirstHeld .. NextJob - 1
    BY <2>3 DEF AfterChain
  <2> QED BY <1>2, <1>4, <1>6, <2>2, <2>4 DEF ErrorInFlight
<1>7. CASE OutputMismatch
  <2>1. PICK d \in oReorder : OReady(d) /\ Break(InOrder(d)) /\ oReorder' = oReorder \ {d}
    BY <1>7, Zenon DEF OutputMismatch
  <2>2. oPc = "run" /\ UNCHANGED <<done, oNext>> /\ d.id = oNext /\ oReorder' = Gone(oReorder, d)
        /\ oPc' = "drop" /\ verdict' = InOrder(d)
    BY <1>7, <2>1, Zenon DEF OutputMismatch, OReady, Break, Gone
  <2>3. FirstHeld' = oNext
    BY <1>4, <2>2, ChunkVerdictType DEF FirstHeld, InOrder
  <2>4. /\ PoolDistinct(rHold', done', oReorder') /\ ResolvedIds' = ResolvedIds \ {oNext}
    BY <1>6, <2>2
  <2>5. ResolvedIds' \subseteq FirstHeld' .. NextJob - 1 /\ FirstHeld' <= NextJob
    BY <1>5, <2>2, <2>3, <2>4 DEF AfterChain
  <2> QED BY <1>2, <2>2, <2>4, <2>5 DEF AfterChain
<1>8. CASE OutputSend
  <2>1. PICK d \in oReorder :
          /\ OReady(d)
          /\ oReorder' = oReorder \ {d}
          /\ IF consumerAlive
             THEN /\ oNext' = oNext + 1
                  /\ IF d.final THEN Break("ok")
                     ELSE IF oNext = NumChunks THEN Break("no final block")
                     ELSE UNCHANGED <<oPc, verdict>>
             ELSE Break("closed") /\ UNCHANGED oNext
    BY <1>8, Zenon DEF OutputSend
  <2>2. oPc = "run" /\ UNCHANGED done /\ d.id = oNext /\ oReorder' = Gone(oReorder, d) /\ verdict = "none"
    BY <1>8, <2>1, Zenon DEF OutputSend, OReady, Gone, VerdictHolds
  <2>3. \/ oNext' = oNext + 1 /\ verdict' \in {"ok", "no final block", "none"}
        \/ oNext' = oNext /\ verdict' = "closed" /\ oPc' = "drop"
    BY <2>1, <2>2 DEF Break
  <2>4. FirstHeld' = oNext + 1
    <3>1. CASE oNext' = oNext + 1 /\ verdict' \in {"ok", "no final block", "none"}
      <4>1. verdict' # "closed"
        BY <3>1
      <4>2. FirstHeld' = oNext' + 0
        BY <4>1, Zenon DEF FirstHeld
      <4>3. (oNext + 1) + 0 = oNext + 1
        BY <1>4
      <4> QED BY <3>1, <4>2, <4>3
    <3>2. CASE oNext' = oNext /\ verdict' = "closed"
      BY <1>4, <3>2 DEF FirstHeld
    <3> QED BY <2>3, <3>1, <3>2
  <2>5. /\ PoolDistinct(rHold', done', oReorder') /\ ResolvedIds' = ResolvedIds \ {oNext}
        /\ oNext <= NextJob - 1 /\ (ErrorInFlight' <=> ErrorInFlight)
    BY <1>6, <2>2
  <2>6. ResolvedIds \subseteq oNext .. NextJob - 1 /\ (ResolvedIds = oNext .. NextJob - 1 \/ ErrorInFlight)
    BY <1>5, <2>2 DEF AfterChain
  <2>7. ResolvedIds' \subseteq FirstHeld' .. NextJob - 1 /\ FirstHeld' <= NextJob
    BY <1>4, <2>4, <2>5, <2>6
  <2>8. ASSUME oPc' = "run" PROVE ResolvedIds' = oNext' .. NextJob - 1 \/ ErrorInFlight'
    <3>1. oNext' = oNext + 1
      BY <2>3, <2>8
    <3>2. CASE ErrorInFlight
      BY <2>5, <3>2
    <3>3. CASE ResolvedIds = oNext .. NextJob - 1
      <4>1. ResolvedIds' = oNext + 1 .. NextJob - 1
        BY <1>4, <2>5, <3>3
      <4> QED BY <3>1, <4>1
    <3> QED BY <2>6, <3>2, <3>3
  <2> QED BY <1>2, <2>5, <2>7, <2>8 DEF AfterChain
<1>9. CASE OutputRecv
  <2>1. oPc = "run" /\ UNCHANGED oNext /\ verdict = "none"
    BY <1>9, Zenon DEF OutputRecv, VerdictHolds
  <2>2. CASE done = <<>>
    <3>1. oPc' = "drop" /\ verdict' = "resolve channel closed" /\ UNCHANGED <<done, oReorder>>
      BY <1>9, <2>2 DEF OutputRecv, Break
    <3>2. FirstHeld' = FirstHeld
      BY <2>1, <3>1 DEF FirstHeld
    <3> QED BY <1>1, <1>2, <2>1, <3>1, <3>2, AfterFrame DEF AfterChain
  <2>3. CASE done # <<>> /\ Head(done).err = "none"
    <3>1. /\ done' = Received(done) /\ oReorder' = Kept(oReorder, Head(done)) /\ UNCHANGED <<oPc, verdict>>
          /\ done # <<>>
      BY <1>9, <2>3 DEF OutputRecv, Received, Kept
    <3>2. /\ PoolDistinct(rHold, done', oReorder')
          /\ PoolIds(rHold, done', oReorder') = PoolIds(rHold, done, oReorder)
      BY <1>3, <3>1, PoolCollect, SMT
    <3>3. PoolDistinct(rHold', done', oReorder') /\ ResolvedIds' = ResolvedIds
      BY <1>2, <3>2 DEF ResolvedIds
    <3>4. ErrorInFlight => ErrorInFlight'
      <4>1. \A i \in DOMAIN done : i = 1 \/ (i - 1 \in DOMAIN done' /\ done'[i - 1] = done[i])
        BY <1>3, <3>1, TakeDomain DEF Received
      <4>2. done[1].err = "none"
        BY <1>3, <2>3, TakeDomain
      <4> QED BY <1>2, <4>1, <4>2 DEF ErrorInFlight
    <3>5. FirstHeld' = FirstHeld
      BY <2>1, <3>1 DEF FirstHeld
    <3> QED BY <1>2, <2>1, <3>1, <3>3, <3>4, <3>5 DEF AfterChain
  <2>4. CASE done # <<>> /\ Head(done).err # "none"
    <3>1. /\ done' = Received(done) /\ UNCHANGED oReorder /\ oPc' = "drop" /\ verdict' = Head(done).err
          /\ done # <<>>
      BY <1>9, <2>4 DEF OutputRecv, Received, Break
    <3>2. /\ PoolDistinct(rHold, done', oReorder)
          /\ PoolIds(rHold, done', oReorder) = PoolIds(rHold, done, oReorder) \ {Head(done).id}
      BY <1>3, <3>1, PoolDiscard, SMT
    <3>3. PoolDistinct(rHold', done', oReorder') /\ ResolvedIds' \subseteq ResolvedIds
      BY <1>2, <3>1, <3>2 DEF ResolvedIds
    <3>4. FirstHeld' = FirstHeld
      <4>1. Head(done) \in DoneMsg
        BY <1>3, <3>1, TakeType
      <4>2. Head(done).err # "closed"
        BY <4>1 DEF DoneMsg, FaultKind
      <4> QED BY <2>1, <3>1, <4>2 DEF FirstHeld
    <3> QED BY <1>2, <2>1, <3>1, <3>3, <3>4 DEF AfterChain
  <2> QED BY <2>2, <2>3, <2>4
<1>10. CASE DropDoneRx \/ ShutdownCap \/ JoinAndReturn
  <2>1. UNCHANGED <<done, oReorder, oNext, verdict>>
    BY <1>10, Zenon DEF DropDoneRx, ShutdownCap, JoinAndReturn
  <2>2. oPc' # "run"
    BY <1>10 DEF DropDoneRx, ShutdownCap, JoinAndReturn
  <2>3. FirstHeld' = FirstHeld
    BY <2>1 DEF FirstHeld
  <2> QED BY <1>1, <1>2, <2>1, <2>2, <2>3, AfterFrame DEF AfterChain
<1> QED BY <1>7, <1>8, <1>9, <1>10 DEF Output

\* Every step keeps the chunks after stage A in place.
LEMMA AfterStep ==
    ASSUME TypeOK, TypeOK', VerdictHolds, AfterChain, [Next]_vars
    PROVE  AfterChain'
<1>1. ASSUME UNCHANGED <<resolve, done, aVars, rVars, oVars>> PROVE AfterChain'
  <2>1. UNCHANGED <<NextJob, FirstHeld, oReorder, oPc, oNext>>
    BY <1>1 DEF aVars, oVars, NextJob, FirstHeld
  <2>2. \A i \in DOMAIN resolve' : resolve'[i].id = NextJob + i - 1
    BY <1>1 DEF AfterChain
  <2> QED BY <1>1, <2>1, <2>2, AfterFrame
<1>2. CASE Dispatch
  <2>1. UNCHANGED <<resolve, done, aVars, rVars, oVars>>
    BY <1>2, Zenon DEF Dispatch, AcquireSlot, AcquireShutdown, DispatchSend, DispatchSendFails
  <2> QED BY <1>1, <2>1
<1>3. ASSUME NEW w \in Workers, Worker(w) PROVE AfterChain'
  <2>1. UNCHANGED <<resolve, done, aVars, rVars, oVars>>
    BY <1>3, Zenon DEF Worker, WorkerRecv, WorkerSend, WorkerExit
  <2> QED BY <1>1, <2>1
<1>4. CASE StageA
  BY <1>4, AfterStageAStep
<1>5. ASSUME NEW r \in Resolvers, Resolver(r) PROVE AfterChain'
  BY <1>5, AfterResolver
<1>6. CASE Output
  BY <1>6, AfterOutput
<1>7. CASE ConsumerRecv \/ ConsumerHangsUp \/ Returned \/ UNCHANGED vars
  <2>1. UNCHANGED <<resolve, done, aVars, rVars, oVars>>
    BY <1>7, Zenon DEF ConsumerRecv, ConsumerHangsUp, Returned, vars
  <2> QED BY <1>1, <2>1
<1> QED BY <1>2, <1>3, <1>4, <1>5, <1>6, <1>7 DEF Next

-----------------------------------------------------------------------------
(* The slots of the in-flight cap. *)

\* The first held chunk moves on with a send to the sink, and only then.
LEMMA FirstHeldMoves ==
    ASSUME TypeOK, VerdictHolds, Output
    PROVE  IF OutputSend THEN FirstHeld' = FirstHeld + 1 ELSE FirstHeld' = FirstHeld
<1>1. oNext \in Nat
  BY FlowTypes
<1>2. CASE OutputSend
  <2>1. oPc = "run"
    BY <1>2, Zenon DEF OutputSend
  <2>2. verdict = "none" /\ FirstHeld = oNext + 0
    BY <2>1, Zenon DEF VerdictHolds, FirstHeld
  <2>3. \/ oNext' = oNext + 1 /\ verdict' \in {"ok", "no final block", "none"}
        \/ oNext' = oNext /\ verdict' = "closed"
    BY <1>2, <2>2 DEF OutputSend, Break
  <2>4. \/ oNext' = oNext + 1 /\ FirstHeld' = oNext' + 0
        \/ oNext' = oNext /\ FirstHeld' = oNext' + 1
    BY <2>3, Zenon DEF FirstHeld
  <2>5. (oNext + 0) + 1 = (oNext + 1) + 0 /\ (oNext + 0) + 1 = oNext + 1
    BY <1>1
  <2> QED BY <1>2, <2>2, <2>4, <2>5
<1>3. CASE ~OutputSend
  <2>1. UNCHANGED oNext
    BY <1>3, Zenon DEF Output, OutputMismatch, OutputRecv, DropDoneRx, ShutdownCap, JoinAndReturn
  <2>2. UNCHANGED verdict \/ (oPc = "run" /\ verdict' # "closed")
    <3>1. CASE OutputMismatch
      <4>1. PICK d \in oReorder : verdict' = InOrder(d)
        BY <3>1, Zenon DEF OutputMismatch, Break
      <4>2. InOrder(d) # "closed"
        BY ChunkVerdictType DEF InOrder
      <4> QED BY <3>1, <4>1, <4>2 DEF OutputMismatch
    <3>2. CASE OutputRecv
      <4>1. \/ UNCHANGED verdict \/ verdict' = "resolve channel closed"
            \/ (done # <<>> /\ verdict' = Head(done).err)
        BY <3>2, Zenon DEF OutputRecv, Break
      <4>2. done # <<>> => Head(done).err # "closed"
        <5>1. done # <<>> => Head(done) \in DoneMsg
          BY FlowTypes, TakeType
        <5> QED BY <5>1 DEF DoneMsg, FaultKind
      <4>3. oPc = "run"
        BY <3>2, Zenon DEF OutputRecv
      <4> QED BY <4>1, <4>2, <4>3
    <3>3. CASE DropDoneRx \/ ShutdownCap \/ JoinAndReturn
      BY <3>3, Zenon DEF DropDoneRx, ShutdownCap, JoinAndReturn
    <3> QED BY <1>3, <3>1, <3>2, <3>3 DEF Output
  <2>3. oPc = "run" => verdict # "closed"
    BY DEF VerdictHolds
  <2> QED BY <1>3, <2>1, <2>2, <2>3 DEF FirstHeld
<1> QED BY <1>2, <1>3

\* The cap is a natural number.
LEMMA CapType ==
    ASSUME TypeOK
    PROVE  InflightMax \in Nat
<1>1. NumThreads \in Nat
  BY PipelineAssumption, FS_CardinalityType DEF NumThreads
<1>2. InflightFactor \in Nat
  <2>1. fault \in InputFaults /\ config \in Configs[fault]
    BY DEF TypeOK, InputType
  <2> QED BY <2>1, PipelineAssumption DEF InflightFactor
<1>3. InflightFloor \in Nat
  BY PipelineAssumption
<1>4. NumThreads * InflightFactor \in Nat
  BY <1>1, <1>2
<1> QED BY <1>3, <1>4 DEF InflightMax

LEMMA SlotsStep ==
    ASSUME TypeOK, VerdictHolds, Slots, [Next]_vars
    PROVE  Slots'
<1> SUFFICES ASSUME CapEnabled'
             PROVE  /\ inFlight' <= InflightMax'
                    /\ inFlight' >= dNext' - FirstHeld' + (IF dPc' = "send" THEN 1 ELSE 0)
  BY DEF Slots
<1>1. UNCHANGED config
  BY Zenon DEF Next, vars, inputVars, Dispatch, AcquireSlot, AcquireShutdown, DispatchSend, DispatchSendFails,
      Worker, WorkerRecv, WorkerSend, WorkerExit, StageA, StageAForward, StageAFail, StageARecv, StageAWorkersGone,
      Resolver, ResolverRecv, ResolverSend, ResolverExit, ConsumerRecv, ConsumerHangsUp, Returned,
      Output, OutputMismatch, OutputSend, OutputRecv, DropDoneRx, ShutdownCap, JoinAndReturn
<1>2. CapEnabled /\ InflightMax' = InflightMax
  BY <1>1 DEF CapEnabled, InflightMax, InflightFactor
<1>3. /\ inFlight <= InflightMax
      /\ inFlight >= dNext - FirstHeld + (IF dPc = "send" THEN 1 ELSE 0)
  BY <1>2 DEF Slots
<1>4. inFlight \in Nat /\ InflightMax \in Nat /\ dNext \in Nat /\ FirstHeld \in Nat
  BY CapType, FlowTypes DEF TypeOK, DispatchType
<1>5. CASE Dispatch
  <2>1. UNCHANGED oVars
    BY <1>5, Zenon DEF Dispatch, AcquireSlot, AcquireShutdown, DispatchSend, DispatchSendFails
  <2>2. UNCHANGED FirstHeld
    BY <2>1 DEF oVars, FirstHeld
  <2>3. CASE AcquireSlot
    <3>1. dPc = "acquire" /\ SlotFree /\ inFlight' = inFlight + 1 /\ dPc' = "send" /\ UNCHANGED dNext
      BY <1>2, <2>3, Zenon DEF AcquireSlot
    <3> QED BY <1>2, <1>3, <1>4, <2>2, <3>1 DEF SlotFree
  <2>4. CASE AcquireShutdown \/ DispatchSendFails
    <3>1. dPc' = "exited" /\ UNCHANGED <<inFlight, dNext>>
      BY <2>4, Zenon DEF AcquireShutdown, DispatchSendFails, capVars
    <3> QED BY <1>2, <1>3, <1>4, <2>2, <3>1
  <2>5. CASE DispatchSend
    <3>1. dPc = "send" /\ dPc' # "send" /\ dNext' = dNext + 1 /\ UNCHANGED inFlight
      BY <2>5 DEF DispatchSend, capVars
    <3> QED BY <1>2, <1>3, <1>4, <2>2, <3>1
  <2> QED BY <1>5, <2>3, <2>4, <2>5 DEF Dispatch
<1>6. CASE Output
  <2>1. UNCHANGED <<dPc, dNext>>
    BY <1>6, Zenon DEF Output, OutputMismatch, OutputSend, OutputRecv, DropDoneRx, ShutdownCap, JoinAndReturn, dVars
  <2>2. CASE OutputSend
    <3>1. inFlight' = SlotReleased
      BY <2>2, Zenon DEF OutputSend
    <3>2. FirstHeld' = FirstHeld + 1
      BY <1>6, <2>2, FirstHeldMoves
    <3>3. inFlight' = IF inFlight > 0 THEN inFlight - 1 ELSE inFlight
      BY <1>2, <3>1 DEF SlotReleased
    <3> QED BY <1>2, <1>3, <1>4, <2>1, <3>2, <3>3
  <2>3. CASE ~OutputSend
    <3>1. UNCHANGED inFlight
      BY <1>6, <2>3, Zenon DEF Output, OutputMismatch, OutputRecv, DropDoneRx, ShutdownCap, JoinAndReturn, capVars
    <3>2. FirstHeld' = FirstHeld
      BY <1>6, <2>3, FirstHeldMoves
    <3> QED BY <1>2, <1>3, <2>1, <3>1, <3>2
  <2> QED BY <2>2, <2>3
<1>7. ASSUME UNCHANGED <<capVars, dVars, oVars>>
      PROVE  /\ inFlight' <= InflightMax'
             /\ inFlight' >= dNext' - FirstHeld' + (IF dPc' = "send" THEN 1 ELSE 0)
  <2>1. UNCHANGED <<inFlight, dPc, dNext, FirstHeld>>
    BY <1>7 DEF capVars, dVars, oVars, FirstHeld
  <2> QED BY <1>2, <1>3, <2>1
<1>8. CASE (\E w \in Workers : Worker(w)) \/ (\E r \in Resolvers : Resolver(r)) \/ StageA
           \/ ConsumerRecv \/ ConsumerHangsUp \/ Returned \/ UNCHANGED vars
  <2>1. UNCHANGED <<capVars, dVars, oVars>>
    BY <1>8, Zenon DEF Worker, WorkerRecv, WorkerSend, WorkerExit, StageA, StageAForward, StageAFail,
        StageARecv, StageAWorkersGone, Resolver, ResolverRecv, ResolverSend, ResolverExit,
        ConsumerRecv, ConsumerHangsUp, Returned, vars
  <2> QED BY <1>7, <2>1
<1> QED BY <1>5, <1>6, <1>8 DEF Next

-----------------------------------------------------------------------------
(* The flow invariant and what follows from it. *)

LEMMA InitFlow == Init => FlowInvariant
<1> SUFFICES ASSUME Init PROVE FlowInvariant
  OBVIOUS
<1>1. TypeOK
  BY InitType
<1>2. /\ work = <<>> /\ result = <<>> /\ resolve = <<>> /\ done = <<>>
      /\ aReorder = {} /\ oReorder = {}
      /\ dNext = 1 /\ aNext = 1 /\ oNext = 1 /\ inFlight = 0 /\ dPc = "acquire" /\ verdict = "none"
      /\ wHold = [w \in Workers |-> NoOutcome] /\ rHold = [r \in Resolvers |-> NoDone]
  BY Zenon DEF Init
<1>3. NextWork = 1 /\ NextJob = 1 /\ FirstHeld = 1
  BY <1>2 DEF NextWork, NextJob, FirstHeld
<1>4. PoolDistinct(wHold, result, aReorder) /\ DecodedIds = {}
  BY <1>2, NoIds DEF PoolDistinct, DecodedIds, PoolIds
<1>5. PoolDistinct(rHold, done, oReorder) /\ ResolvedIds = {}
  BY <1>2, NoIds DEF PoolDistinct, ResolvedIds, PoolIds
<1>6. BeforeChain
  BY <1>2, <1>3, <1>4, NoIds DEF BeforeChain
<1>7. AfterChain
  BY <1>2, <1>3, <1>5 DEF AfterChain
<1>8. Slots
  BY <1>1, <1>2, <1>3, CapType DEF Slots
<1> QED BY <1>6, <1>7, <1>8 DEF FlowInvariant

\* The chunks are always where FlowInvariant says: before stage A, after it,
\* each once, and within the slots that were taken for them.
THEOREM FlowCorrect == Spec => []FlowInvariant
<1>1. Init => FlowInvariant
  BY InitFlow
<1>2. TypeOK /\ TypeOK' /\ ChainInvariant /\ FlowInvariant /\ [Next]_vars => FlowInvariant'
  BY BeforeStep, AfterStep, SlotsStep DEF FlowInvariant, ChainInvariant
<1> QED BY <1>1, <1>2, TypeCorrect, ChainCorrect, PTL DEF Spec

\* The chunks in the pipeline lie between the first held one and the last one
\* dispatched.
LEMMA OutstandingRange ==
    ASSUME TypeOK, BeforeChain, AfterChain
    PROVE  Outstanding \subseteq FirstHeld .. dNext - 1 /\ FirstHeld <= dNext
<1>1. /\ dNext \in Nat /\ aNext \in Nat /\ FirstHeld \in Nat /\ NextWork \in Int /\ NextJob \in Int
      /\ work \in Seq(Nat) /\ resolve \in Seq(Job) /\ Len(work) \in Nat /\ Len(resolve) \in Nat
      /\ DOMAIN wHold = Workers /\ DOMAIN rHold = Resolvers
  BY FlowTypes
<1>2. /\ aNext <= NextWork /\ FirstHeld <= NextJob /\ NextWork = dNext - Len(work) /\ NextJob = aNext - Len(resolve)
      /\ DOMAIN work = 1 .. Len(work) /\ DOMAIN resolve = 1 .. Len(resolve)
  BY <1>1 DEF BeforeChain, AfterChain, NextWork, NextJob
<1>3. \A i \in DOMAIN work : work[i] \in FirstHeld .. dNext - 1
  BY <1>1, <1>2 DEF BeforeChain
<1>4. \A i \in DOMAIN resolve : resolve[i].id \in FirstHeld .. dNext - 1
  BY <1>1, <1>2 DEF AfterChain
<1>5. DecodedIds \subseteq FirstHeld .. dNext - 1 /\ ResolvedIds \subseteq FirstHeld .. dNext - 1
  BY <1>1, <1>2 DEF BeforeChain, AfterChain
<1>6. ASSUME NEW n \in Outstanding PROVE n \in FirstHeld .. dNext - 1
  <2>1. \/ \E i \in DOMAIN work : n = work[i]
        \/ \E i \in DOMAIN resolve : n = resolve[i].id
        \/ n \in DecodedIds \/ n \in ResolvedIds
    BY <1>1, <1>6, Zenon DEF Outstanding, BeforeStageA, AfterStageA, IdsIn, DecodedIds, ResolvedIds, PoolIds
  <2> QED BY <1>3, <1>4, <1>5, <2>1
<1> QED BY <1>1, <1>2, <1>6

\* The in-flight cap works: what is held between dispatch and the sink, in
\* channels, threads and both reorder maps, never exceeds the slots taken,
\* and these never exceed the cap, for every cap and every number of threads.
THEOREM InflightCorrect == Spec => []InflightBounded
<1>1. TypeOK /\ FlowInvariant => InflightBounded
  <2> SUFFICES ASSUME TypeOK, FlowInvariant, CapEnabled
               PROVE  Cardinality(Outstanding) <= inFlight /\ inFlight <= InflightMax
    BY DEF InflightBounded
  <2>1. Outstanding \subseteq FirstHeld .. dNext - 1 /\ FirstHeld <= dNext
    BY OutstandingRange DEF FlowInvariant
  <2>2. dNext \in Nat /\ FirstHeld \in Nat /\ inFlight \in Nat
    BY FlowTypes DEF TypeOK, DispatchType
  <2>3. IsFiniteSet(FirstHeld .. dNext - 1) /\ Cardinality(FirstHeld .. dNext - 1) = dNext - FirstHeld
    <3>1. FirstHeld \in Int /\ dNext - 1 \in Int
      BY <2>2
    <3>2. IsFiniteSet(FirstHeld .. dNext - 1) /\ Cardinality(FirstHeld .. dNext - 1)
             = IF FirstHeld > dNext - 1 THEN 0 ELSE (dNext - 1) - FirstHeld + 1
      BY <3>1, FS_Interval
    <3> QED BY <2>1, <2>2, <3>2
  <2>4. Cardinality(Outstanding) <= dNext - FirstHeld
    BY <2>1, <2>3, FS_Subset
  <2>5. Cardinality(Outstanding) \in Nat
    BY <2>1, <2>3, FS_Subset, FS_CardinalityType
  <2>6. inFlight <= InflightMax /\ inFlight >= dNext - FirstHeld + (IF dPc = "send" THEN 1 ELSE 0)
    BY DEF FlowInvariant, Slots
  <2> QED BY <2>2, <2>4, <2>5, <2>6
<1> QED BY <1>1, TypeCorrect, FlowCorrect, PTL

-----------------------------------------------------------------------------
(* How the decode ends. *)

\* The parts of the state that only one thread changes.
LEMMA WhoMoves ==
    ASSUME [Next]_vars
    PROVE  /\ UNCHANGED inputVars
           /\ Dispatch \/ UNCHANGED dVars
           /\ StageA \/ UNCHANGED aVars
           /\ Output \/ UNCHANGED <<oVars, capShutdown>>
           /\ (\E w \in Workers : Worker(w)) \/ UNCHANGED wVars
           /\ (\E r \in Resolvers : Resolver(r)) \/ UNCHANGED rVars
           /\ Dispatch \/ (\E w \in Workers : WorkerRecv(w)) \/ UNCHANGED work
           /\ StageAForward \/ (\E r \in Resolvers : ResolverRecv(r)) \/ UNCHANGED resolve
           /\ StageA \/ OutputRecv \/ (\E r \in Resolvers : ResolverSend(r)) \/ UNCHANGED done
           /\ OutputSend \/ UNCHANGED delivered
           /\ JoinAndReturn \/ UNCHANGED status
<1>1. CASE Dispatch
  BY <1>1, Zenon DEF Dispatch, AcquireSlot, AcquireShutdown, DispatchSend, DispatchSendFails, capVars, sinkVars
<1>2. ASSUME NEW w \in Workers, WorkerRecv(w) \/ WorkerSend(w) \/ WorkerExit(w)
      PROVE  /\ UNCHANGED <<inputVars, dVars, aVars, oVars, rVars, capVars, resolve, done, sinkVars, status>>
             /\ WorkerRecv(w) \/ UNCHANGED work
  BY <1>2, Zenon DEF WorkerRecv, WorkerSend, WorkerExit
<1>3. CASE StageA
  BY <1>3, Zenon DEF StageA, StageAForward, StageAFail, StageARecv, StageAWorkersGone, capVars, sinkVars
<1>4. ASSUME NEW r \in Resolvers, ResolverRecv(r) \/ ResolverSend(r) \/ ResolverExit(r)
      PROVE  /\ UNCHANGED <<inputVars, dVars, aVars, oVars, wVars, capVars, work, sinkVars, status>>
             /\ ResolverRecv(r) \/ UNCHANGED resolve
             /\ ResolverSend(r) \/ UNCHANGED done
  BY <1>4, Zenon DEF ResolverRecv, ResolverSend, ResolverExit
<1>5. CASE Output
  BY <1>5, Zenon DEF Output, OutputMismatch, OutputSend, OutputRecv, DropDoneRx, ShutdownCap, JoinAndReturn,
      capVars, sinkVars
<1>6. CASE ConsumerRecv \/ ConsumerHangsUp \/ Returned \/ UNCHANGED vars
  BY <1>6, Zenon DEF ConsumerRecv, ConsumerHangsUp, Returned, vars, capVars, sinkVars
<1>7. CASE \E w \in Workers : Worker(w)
  <2>1. PICK w \in Workers : WorkerRecv(w) \/ WorkerSend(w) \/ WorkerExit(w)
    BY <1>7, Zenon DEF Worker
  <2> QED BY <1>2, <1>7, <2>1, Zenon DEF capVars, sinkVars
<1>8. CASE \E r \in Resolvers : Resolver(r)
  <2>1. PICK r \in Resolvers : ResolverRecv(r) \/ ResolverSend(r) \/ ResolverExit(r)
    BY <1>8, Zenon DEF Resolver
  <2> QED BY <1>4, <1>8, <2>1, Zenon DEF capVars, sinkVars
<1> QED BY <1>1, <1>3, <1>5, <1>6, <1>7, <1>8, Zenon DEF Next

\* An error on its way to the output stage gets there or stays on its way.
LEMMA ErrorStays ==
    ASSUME TypeOK, AfterChain, [Next]_vars, ErrorInFlight, oPc' = "run"
    PROVE  ErrorInFlight'
<1>1. rHold \in [Resolvers -> DoneMsg] /\ done \in Seq(DoneMsg) /\ NoDone \in DoneMsg
  BY FlowTypes, NoIds
<1>2. NoDone.err = "none" /\ \A q \in Resolvers : rPc[q] # "send" => rHold[q] = NoDone
  BY DEF AfterChain, NoDone, DoneError
<1>3. CASE UNCHANGED <<rVars, done>>
  <2>1. UNCHANGED <<rHold, done>>
    BY <1>3 DEF rVars
  <2> QED BY <2>1 DEF ErrorInFlight
<1>4. CASE StageA
  <2>1. UNCHANGED rHold
    BY <1>4, Zenon DEF StageA, StageAForward, StageAFail, StageARecv, StageAWorkersGone, rVars
  <2>2. UNCHANGED done \/ \E e \in {"decode", "worker channel closed"} : done' = Append(done, DoneError(e))
    BY <1>4, Zenon DEF StageA, StageAForward, StageAFail, StageARecv, StageAWorkersGone
  <2>3. \A e \in {"decode", "worker channel closed"} : DoneError(e) \in DoneMsg
    BY DoneErrorType DEF FaultKind
  <2>4. \A i \in DOMAIN done : i \in DOMAIN done' /\ done'[i] = done[i]
    <3>1. UNCHANGED done \/ \E z \in DoneMsg : done' = Append(done, z)
      BY <2>2, <2>3, Zenon
    <3>2. CASE UNCHANGED done
      BY <3>2
    <3>3. ASSUME NEW z \in DoneMsg, done' = Append(done, z)
          PROVE  \A i \in DOMAIN done : i \in DOMAIN done' /\ done'[i] = done[i]
      BY <1>1, <3>3, PutDomain
    <3> QED BY <3>1, <3>2, <3>3
  <2> QED BY <2>1, <2>4 DEF ErrorInFlight
<1>5. ASSUME NEW r \in Resolvers, Resolver(r) PROVE ErrorInFlight'
  <2>1. CASE ResolverRecv(r)
    <3>1. rPc[r] = "recv" /\ UNCHANGED done /\ rHold' = [rHold EXCEPT ![r] = Resolved(Head(resolve))]
      BY <2>1, Zenon DEF ResolverRecv
    <3>2. \A q \in Resolvers : q = r \/ rHold'[q] = rHold[q]
      BY <1>1, <3>1
    <3>3. rHold[r].err = "none"
      BY <1>2, <3>1
    <3> QED BY <3>1, <3>2, <3>3 DEF ErrorInFlight
  <2>2. CASE ResolverSend(r)
    <3>1. done' = Append(done, rHold[r]) /\ rHold' = [rHold EXCEPT ![r] = NoDone]
      BY <2>2, Zenon DEF ResolverSend
    <3>2. \A i \in DOMAIN done : i \in DOMAIN done' /\ done'[i] = done[i]
      BY <1>1, <3>1, PutDomain
    <3>3. \E l \in DOMAIN done' : done'[l] = rHold[r]
      BY <1>1, <3>1, PutDomain
    <3>4. \A q \in Resolvers : q = r \/ rHold'[q] = rHold[q]
      BY <1>1, <3>1
    <3> QED BY <3>2, <3>3, <3>4 DEF ErrorInFlight
  <2>3. CASE ResolverExit(r)
    <3>1. rHold' = [rHold EXCEPT ![r] = NoDone] /\ UNCHANGED <<done, oVars>>
          /\ (rPc[r] # "send" \/ ~DoneRxAlive)
      BY <2>3 DEF ResolverExit
    <3>2. rHold[r] = NoDone
      BY <1>2, <3>1 DEF DoneRxAlive, oVars
    <3>3. rHold' = rHold
      BY <1>1, <3>1, <3>2
    <3> QED BY <3>1, <3>3 DEF ErrorInFlight
  <2> QED BY <1>5, <2>1, <2>2, <2>3 DEF Resolver
<1>6. CASE OutputRecv
  <2>1. UNCHANGED rHold
    BY <1>6, Zenon DEF OutputRecv, rVars
  <2>2. done # <<>> /\ done' = Tail(done) /\ Head(done).err = "none"
    BY <1>6 DEF OutputRecv, Break
  <2>3. /\ Head(done) = done[1]
        /\ \A i \in DOMAIN done : i = 1 \/ (i - 1 \in DOMAIN done' /\ done'[i - 1] = done[i])
    BY <1>1, <2>2, TakeDomain
  <2> QED BY <2>1, <2>2, <2>3 DEF ErrorInFlight
<1>7. \/ UNCHANGED <<rVars, done>> \/ StageA \/ OutputRecv \/ \E r \in Resolvers : Resolver(r)
  <2>1. \A r : ResolverSend(r) => Resolver(r)
    BY DEF Resolver
  <2> QED BY <2>1, WhoMoves
<1> QED BY <1>3, <1>4, <1>5, <1>6, <1>7

\* What stage A obtains for the next chunk: a part of the chain that ends at
\* the end of the input if the chunk is the last one, and that is final
\* exactly then; or an error because a block does not decode.
LEMMA NextResult ==
    ASSUME TypeOK, ChainInvariant, ChainEnds, aPc = "run",
           NEW o \in aReorder, AReady(o), NEW r \in ChainResults(o)
    PROVE  IF r.ok
           THEN /\ r.next \in chain[aNext] .. NumBlocks
                /\ aNext = NumChunks => r.next = NumBlocks
                /\ r.final <=> r.next = NumBlocks
           ELSE \E j \in Blocks : fault[j] = "decode"
<1> DEFINE k == chain[aNext]
           hint == Hint(aNext)
<1>1. aNext \in 1 .. NumChunks /\ o.id = aNext /\ NumChunks \in Nat /\ NumBlocks \in Nat
  BY ConstantTypes DEF TypeOK, InputType, StageAType, AReady, NumChunks
<1>2. k \in 0 .. NumBlocks /\ expectedStart = Bit(k) /\ k < NumBlocks
  BY <1>1 DEF ChainInvariant, ChainGrows, ChainAnchored, ChainEnds
<1>3. hint \in Int /\ (aNext = NumChunks => hint = NoHint)
  BY <1>1, HintType, ConstantTypes DEF TypeOK, Position, NoHint, EndOfInput, Bit, Hint
<1>4. r \in DecodeOneChunk(expectedStart, hint)
  <2>1. CASE Anchored(o)
    <3>1. r = o.res /\ boundaries[o.id] = expectedStart
      BY <2>1, Zenon DEF ChainResults, Anchored
    <3>2. OwnChunk(o) /\ o.id # 0
      BY <1>1 DEF ChainInvariant, OutcomesOwn
    <3> QED BY <1>1, <3>1, <3>2, Zenon DEF OwnChunk
  <2>2. CASE ~Anchored(o)
    BY <1>1, <2>2, Zenon DEF ChainResults
  <2> QED BY <2>1, <2>2
<1>5. r = DecodeBlocks(k, hint)
  BY <1>2, <1>4, DecodeAtBlock
<1> DEFINE e == StopBlock(k, hint)
<1>6. e \in k .. NumBlocks /\ (e = NumBlocks \/ Bit(e) >= hint)
  BY <1>2, <1>3, StopBlockProperty
<1>7. aNext = NumChunks => e = NumBlocks
  BY <1>1, <1>2, <1>3, <1>6 DEF NoHint, EndOfInput, Bit
<1>8. CASE \E j \in k .. e - 1 : fault[j] = "decode"
  <2>1. ~r.ok
    BY <1>5, <1>8, Zenon DEF DecodeBlocks, DecodeError
  <2>2. PICK j \in k .. e - 1 : fault[j] = "decode"
    BY <1>8
  <2>3. j \in Blocks
    BY <1>1, <1>2, <1>6, <2>2 DEF Blocks
  <2> QED BY <2>1, <2>2, <2>3
<1>9. CASE ~\E j \in k .. e - 1 : fault[j] = "decode"
  <2>1. k # NumBlocks
    BY <1>1, <1>2
  <2>2. r = [ok |-> TRUE, first |-> k, next |-> e, end |-> Bit(e), final |-> ReachesEnd(k, e)]
    BY <1>5, <1>9, <2>1, Zenon DEF DecodeBlocks
  <2>3. r.ok /\ r.next = e /\ (r.final <=> ReachesEnd(k, e))
    BY <2>2, Zenon
  <2> HIDE DEF e, k
  <2>4. ReachesEnd(k, e) <=> e = NumBlocks
    BY <1>2 DEF ReachesEnd
  <2> QED BY <1>6, <1>7, <2>3, <2>4 DEF k
<1> QED BY <1>8, <1>9

\* What a forward of stage A does to the chain.
LEMMA ForwardChain ==
    ASSUME TypeOK, ChainInvariant, ChainEnds, StageAForward
    PROVE  \/ ~ResolveRxAlive /\ aPc' = "exited" /\ UNCHANGED <<aNext, chain>>
           \/ /\ aNext' = aNext + 1
              /\ \A i \in 1 .. aNext : chain'[i] = chain[i]
              /\ chain'[aNext + 1] \in chain[aNext] .. NumBlocks
              /\ aNext = NumChunks => chain'[aNext + 1] = NumBlocks
              /\ aPc' = IF chain'[aNext + 1] = NumBlocks THEN "exited" ELSE "run"
<1>1. PICK o \in aReorder : AReady(o) /\ \E r \in ChainResults(o) : r.ok /\ Forward(o, r)
  BY Zenon DEF StageAForward
<1>2. PICK r \in ChainResults(o) : r.ok /\ Forward(o, r)
  BY <1>1
<1>3. aPc = "run"
  BY Zenon DEF StageAForward
<1>4. /\ r.next \in chain[aNext] .. NumBlocks
      /\ aNext = NumChunks => r.next = NumBlocks
      /\ r.final <=> r.next = NumBlocks
  BY <1>1, <1>2, <1>3, NextResult
<1>5. CASE ~ResolveRxAlive
  BY <1>2, <1>5, Zenon DEF Forward
<1>6. CASE ResolveRxAlive
  <2>1. /\ aNext' = aNext + 1 /\ chain' = Append(chain, r.next)
        /\ aPc' = IF r.final \/ aNext = NumChunks THEN "exited" ELSE "run"
    BY <1>2, <1>6, Zenon DEF Forward
  <2>2. aPc' = IF r.next = NumBlocks THEN "exited" ELSE "run"
    BY <1>4, <2>1
  <2>3. chain \in Seq(Value \cup {NumBlocks}) /\ Len(chain) = aNext
    BY DEF TypeOK, StageAType, ChainInvariant, ChainGrows
  <2>4. chain'[aNext + 1] = r.next /\ \A i \in 1 .. aNext : chain'[i] = chain[i]
    BY <2>1, <2>3
  <2> QED BY <1>4, <2>1, <2>2, <2>4
<1> QED BY <1>5, <1>6

\* Numbers of chunks and of the blocks on the chain.
LEMMA ChainTypes ==
    ASSUME TypeOK, ChainInvariant
    PROVE  /\ aNext \in 1 .. NumChunks + 1 /\ oNext \in 1 .. aNext /\ dNext \in 1 .. NumChunks + 1
           /\ NumChunks \in Nat /\ NumBlocks \in Nat
           /\ \A i \in 1 .. aNext : chain[i] \in 0 .. NumBlocks
           /\ \A i \in 1 .. aNext - 1 : chain[i] <= chain[i + 1]
<1>1. NumChunks \in Nat /\ NumBlocks \in Nat
  BY ConstantTypes DEF TypeOK, InputType, NumChunks
<1>2. /\ aNext \in 1 .. NumChunks + 1 /\ oNext \in 1 .. NumChunks + 1 /\ dNext \in 1 .. NumChunks + 1
      /\ oNext <= aNext
  BY DEF TypeOK, StageAType, OutputType, DispatchType, ChainInvariant, OutputFollowsChain
<1> QED BY <1>1, <1>2 DEF ChainInvariant, ChainGrows

\* The chunk the output stage handles next.
LEMMA ReadyChunk ==
    ASSUME TypeOK, ChainInvariant, NEW d \in oReorder, OReady(d)
    PROVE  /\ oNext \in 1 .. aNext - 1
           /\ d.first = chain[oNext] /\ d.next = chain[oNext + 1] /\ d.bytes = Bytes(d.first, d.next)
           /\ d.final = (d.first < d.next /\ d.next = NumBlocks)
<1>1. d.id = oNext /\ oNext # 0
  BY ChainTypes DEF OReady
<1>2. d.err = "none" /\ TrueChunk(d)
  BY DEF ChainInvariant, ChunksTrue
<1>3. OnChain(d.id, d.first, d.next, d.final) /\ d.bytes = Bytes(d.first, d.next)
  BY <1>1, <1>2, Zenon DEF TrueChunk
<1> QED BY <1>1, <1>3, Zenon DEF OnChain

LEMMA ChainEndsStep ==
    ASSUME TypeOK, ChainInvariant, ChainEnds, [Next]_vars
    PROVE  ChainEnds'
<1>1. UNCHANGED NumChunks
  BY WhoMoves DEF inputVars, NumChunks
<1>2. /\ aNext \in 1 .. NumChunks + 1 /\ oNext \in 1 .. aNext /\ NumChunks \in Nat /\ NumBlocks \in Nat
      /\ \A i \in 1 .. aNext : chain[i] \in 0 .. NumBlocks
      /\ \A i \in 1 .. aNext - 1 : chain[i] <= chain[i + 1]
  BY ChainTypes
<1>3. /\ \A i \in 1 .. aNext - 1 : chain[i] < NumBlocks
      /\ aPc = "run" => chain[aNext] < NumBlocks
      /\ aNext = NumChunks + 1 => chain[aNext] = NumBlocks
      /\ oPc = "run" => chain[oNext] < NumBlocks
  BY DEF ChainEnds
<1>4. CASE StageA
  <2>1. UNCHANGED <<oPc, oNext>>
    BY <1>4, Zenon DEF StageA, StageAForward, StageAFail, StageARecv, StageAWorkersGone, oVars
  <2>2. CASE aPc' = "exited" /\ UNCHANGED <<aNext, chain>>
    BY <1>1, <1>3, <2>1, <2>2 DEF ChainEnds
  <2>3. CASE StageAForward /\ ~(aPc' = "exited" /\ UNCHANGED <<aNext, chain>>)
    <3>1. /\ aNext' = aNext + 1
          /\ \A i \in 1 .. aNext : chain'[i] = chain[i]
          /\ chain'[aNext + 1] \in chain[aNext] .. NumBlocks
          /\ aNext = NumChunks => chain'[aNext + 1] = NumBlocks
          /\ aPc' = IF chain'[aNext + 1] = NumBlocks THEN "exited" ELSE "run"
          /\ aPc = "run"
      BY <2>3, ForwardChain DEF StageAForward
    <3>2. \A i \in 1 .. aNext' - 1 : chain'[i] < NumBlocks
      BY <1>2, <1>3, <3>1
    <3>3. aPc' = "run" => chain'[aNext'] < NumBlocks
      BY <1>2, <3>1
    <3>4. aNext' = NumChunks' + 1 => chain'[aNext'] = NumBlocks
      BY <1>1, <1>2, <3>1
    <3>5. oPc' = "run" => chain'[oNext'] < NumBlocks
      BY <1>2, <1>3, <2>1, <3>1
    <3> QED BY <3>2, <3>3, <3>4, <3>5 DEF ChainEnds
  <2>4. CASE StageARecv
    <3>1. UNCHANGED <<aPc, aNext, chain>>
      BY <2>4, Zenon DEF StageARecv
    <3> QED BY <1>1, <1>3, <2>1, <3>1 DEF ChainEnds
  <2>5. StageAFail \/ StageAWorkersGone => aPc' = "exited" /\ UNCHANGED <<aNext, chain>>
    BY Zenon DEF StageAFail, StageAWorkersGone
  <2> QED BY <1>4, <2>2, <2>3, <2>4, <2>5 DEF StageA
<1>5. CASE ~StageA
  <2>1. UNCHANGED <<aPc, aNext, chain>>
    BY <1>5, WhoMoves DEF aVars
  <2>2. ASSUME oPc' = "run" PROVE chain[oNext'] < NumBlocks
    <3>1. CASE OutputSend
      <4>1. PICK d \in oReorder : /\ OReady(d)
                                  /\ \/ ~d.final /\ oNext' = oNext + 1
                                     \/ oPc' = "drop"
        BY <3>1, Zenon DEF OutputSend, Break
      <4>2. ~d.final /\ oNext' = oNext + 1 /\ oPc = "run"
        BY <2>2, <3>1, <4>1 DEF OutputSend
      <4>3. oNext \in 1 .. aNext - 1 /\ ~(chain[oNext] < chain[oNext + 1] /\ chain[oNext + 1] = NumBlocks)
        BY <4>1, <4>2, ReadyChunk
      <4> QED BY <1>2, <1>3, <4>2, <4>3
    <3>2. CASE Output /\ ~OutputSend
      <4>1. UNCHANGED oNext /\ oPc = "run"
        BY <2>2, <3>2 DEF Output, OutputMismatch, OutputRecv, DropDoneRx, ShutdownCap, JoinAndReturn, Break
      <4> QED BY <1>3, <4>1
    <3>3. CASE UNCHANGED oVars
      BY <1>3, <2>2, <3>3 DEF oVars
    <3> QED BY <3>1, <3>2, <3>3, WhoMoves
  <2> QED BY <1>1, <1>3, <2>1, <2>2 DEF ChainEnds
<1> QED BY <1>4, <1>5

LEMMA ThreadsEndStep ==
    ASSUME TypeOK, TypeOK', ChainInvariant, ChainEnds, AfterChain, ThreadsEnd, [Next]_vars
    PROVE  ThreadsEnd'
<1>1. UNCHANGED NumChunks /\ NumChunks \in Nat
  BY WhoMoves, ChainTypes DEF inputVars, NumChunks
<1>2. /\ wPc \in [Workers -> {"recv", "send", "exited"}] /\ rPc \in [Resolvers -> {"recv", "send", "exited"}]
      /\ dPc \in {"acquire", "send", "exited"} /\ aPc \in {"run", "exited"} /\ dNext \in Nat
      /\ oPc \in {"run", "drop", "shutdown", "join", "returned"}
      /\ dPc # "exited" => dNext <= NumChunks
  BY FlowTypes DEF TypeOK, WorkerType, ResolverType, DispatchType, StageAType, OutputType
<1>3. /\ Workers # {} /\ Resolvers # {}
  BY PipelineAssumption, FS_EmptySet
<1>4. aPc' = "run" => aPc = "run"
  <2>1. StageA => aPc = "run"
    BY Zenon DEF StageA, StageAForward, StageAFail, StageARecv, StageAWorkersGone
  <2>2. StageA \/ UNCHANGED aPc
    BY WhoMoves DEF aVars
  <2> QED BY <2>1, <2>2
<1>5. /\ oPc' = "run" => oPc = "run"
      /\ oPc \in {"join", "returned"} => oPc' \in {"join", "returned"}
  <2>1. Output => \/ oPc = "run" \/ (oPc = "drop" /\ oPc' = "shutdown")
                  \/ (oPc = "shutdown" /\ oPc' = "join") \/ (oPc = "join" /\ oPc' = "returned")
    BY Zenon DEF Output, OutputMismatch, OutputSend, OutputRecv, DropDoneRx, ShutdownCap, JoinAndReturn
  <2>2. Output \/ UNCHANGED oPc
    BY WhoMoves DEF oVars
  <2> QED BY <2>1, <2>2
<1>6. ASSUME aPc' = "run", NEW w \in Workers, wPc'[w] = "exited"
      PROVE  work' = <<>> /\ dPc' = "exited"
  <2>1. work = <<>> /\ dPc = "exited"
    <3>1. CASE wPc[w] = "exited"
      BY <1>4, <1>6, <3>1 DEF ThreadsEnd
    <3>2. CASE wPc[w] # "exited"
      <4>1. \E v \in Workers : Worker(v)
        BY <1>6, <3>2, WhoMoves DEF wVars
      <4>2. PICK v \in Workers : Worker(v)
        BY <4>1
      <4>3. CASE WorkerExit(v)
        BY <1>4, <1>6, <4>3 DEF WorkerExit, ResultRxAlive
      <4>4. CASE WorkerRecv(v) \/ WorkerSend(v)
        <5>1. \E x \in {"recv", "send"} : wPc' = [wPc EXCEPT ![v] = x]
          BY <4>4, Zenon DEF WorkerRecv, WorkerSend
        <5> QED BY <1>2, <1>6, <3>2, <5>1
      <4> QED BY <4>2, <4>3, <4>4 DEF Worker
    <3> QED BY <3>1, <3>2
  <2>2. ~Dispatch
    BY <2>1 DEF Dispatch, AcquireSlot, AcquireShutdown, DispatchSend, DispatchSendFails
  <2>3. \A v \in Workers : ~WorkerRecv(v)
    BY <2>1 DEF WorkerRecv
  <2>4. UNCHANGED work /\ UNCHANGED dPc
    BY <2>2, <2>3, WhoMoves DEF dVars
  <2> QED BY <2>1, <2>4
<1>7. ASSUME dPc' = "exited", aPc' # "exited", oPc' \notin {"join", "returned"}
      PROVE  dNext' = NumChunks' + 1
  <2>1. aPc = "run" /\ oPc \notin {"join", "returned"}
    <3>1. aPc' = "run"
      BY <1>7 DEF TypeOK, StageAType
    <3> QED BY <1>4, <1>5, <1>7, <3>1
  <2>2. CASE DispatchSend
    <3>1. dPc = "send" /\ dNext' = dNext + 1 /\ ~MoreItems
      BY <1>7, <2>2 DEF DispatchSend
    <3> QED BY <1>1, <1>2, <3>1 DEF MoreItems
  <2>3. CASE DispatchSendFails
    <3>1. dPc = "send" /\ \A w \in Workers : wPc[w] = "exited"
      BY <2>3 DEF DispatchSendFails, WorkRxAlive
    <3> QED BY <1>3, <2>1, <3>1 DEF ThreadsEnd
  <2>4. CASE AcquireShutdown
    <3>1. capShutdown
      BY <2>4, Zenon DEF AcquireShutdown
    <3> QED BY <2>1, <3>1 DEF ThreadsEnd
  <2>5. CASE AcquireSlot
    BY <1>7, <2>5 DEF AcquireSlot
  <2>6. CASE UNCHANGED dVars
    BY <1>1, <1>7, <2>1, <2>6 DEF ThreadsEnd, dVars
  <2> QED BY <2>2, <2>3, <2>4, <2>5, <2>6, WhoMoves DEF Dispatch
<1>8. capShutdown' => oPc' \in {"join", "returned"}
  <2>1. CASE ShutdownCap
    BY <2>1 DEF ShutdownCap
  <2>2. CASE ~ShutdownCap
    <3>1. UNCHANGED capShutdown
      BY <2>2, WhoMoves, Zenon DEF Output, OutputMismatch, OutputSend, OutputRecv, DropDoneRx, JoinAndReturn, capVars
    <3> QED BY <1>5, <3>1 DEF ThreadsEnd
  <2> QED BY <2>1, <2>2
<1>9. ASSUME oPc' = "run", NEW r \in Resolvers, rPc'[r] = "exited"
      PROVE  resolve' = <<>> /\ aPc' = "exited"
  <2>1. resolve = <<>> /\ aPc = "exited"
    <3>1. CASE rPc[r] = "exited"
      BY <1>5, <1>9, <3>1 DEF ThreadsEnd
    <3>2. CASE rPc[r] # "exited"
      <4>1. \E q \in Resolvers : Resolver(q)
        BY <1>9, <3>2, WhoMoves DEF rVars
      <4>2. PICK q \in Resolvers : Resolver(q)
        BY <4>1
      <4>3. CASE ResolverExit(q)
        BY <1>5, <1>9, <4>3 DEF ResolverExit, DoneRxAlive
      <4>4. CASE ResolverRecv(q) \/ ResolverSend(q)
        <5>1. \E x \in {"recv", "send"} : rPc' = [rPc EXCEPT ![q] = x]
          BY <4>4, Zenon DEF ResolverRecv, ResolverSend
        <5> QED BY <1>2, <1>9, <3>2, <5>1
      <4> QED BY <4>2, <4>3, <4>4 DEF Resolver
    <3> QED BY <3>1, <3>2
  <2>2. ~StageA
    BY <2>1 DEF StageA, StageAForward, StageAFail, StageARecv, StageAWorkersGone
  <2>3. \A q \in Resolvers : ~ResolverRecv(q)
    BY <2>1 DEF ResolverRecv
  <2>4. UNCHANGED resolve /\ UNCHANGED aPc
    BY <2>2, <2>3, WhoMoves DEF aVars, StageA
  <2> QED BY <2>1, <2>4
<1>10. ASSUME oPc' = "run", aPc' = "exited" PROVE chain'[aNext'] = NumBlocks \/ ErrorInFlight'
  <2>1. oPc = "run"
    BY <1>5, <1>10
  <2>2. CASE StageAForward
    <3>1. aPc = "run"
      BY <2>2, Zenon DEF StageAForward
    <3>2. ResolveRxAlive
      BY <1>3, <2>1, <3>1 DEF ThreadsEnd, ResolveRxAlive
    <3>3. aNext' = aNext + 1 /\ chain'[aNext + 1] = NumBlocks
      BY <1>10, <2>2, <3>2, ForwardChain
    <3> QED BY <3>3
  <2>3. CASE StageAFail \/ StageAWorkersGone
    <3>1. PICK e \in {"decode", "worker channel closed"} : done' = Append(done, DoneError(e))
      BY <2>1, <2>3 DEF StageAFail, StageAWorkersGone, DoneRxAlive
    <3>2. DoneError(e) \in DoneMsg /\ done \in Seq(DoneMsg)
      BY DoneErrorType, FlowTypes DEF FaultKind
    <3>3. PICK l \in DOMAIN done' : done'[l] = DoneError(e)
      BY <3>1, <3>2, PutDomain
    <3>4. DoneError(e).err # "none"
      BY DEF DoneError
    <3> QED BY <3>3, <3>4 DEF ErrorInFlight
  <2>4. CASE StageARecv \/ UNCHANGED aVars
    <3>1. UNCHANGED <<aPc, aNext, chain>>
      BY <2>4, Zenon DEF StageARecv, aVars
    <3>2. chain[aNext] = NumBlocks \/ ErrorInFlight
      BY <1>10, <2>1, <3>1 DEF ThreadsEnd
    <3> QED BY <1>10, <3>1, <3>2, ErrorStays
  <2> QED BY <2>2, <2>3, <2>4, WhoMoves DEF StageA
<1> QED BY <1>6, <1>7, <1>8, <1>9, <1>10 DEF ThreadsEnd

\* Stage A never finds the workers gone while the output stage runs: they end
\* after the last chunk, which is then in the reorder map.
LEMMA WorkersStay ==
    ASSUME TypeOK, BeforeChain, ThreadsEnd, oPc = "run"
    PROVE  ~StageAWorkersGone
<1> SUFFICES ASSUME StageAWorkersGone PROVE FALSE
  OBVIOUS
<1>1. /\ aPc = "run" /\ ~(\E o \in aReorder : AReady(o)) /\ result = <<>>
      /\ \A w \in Workers : wPc[w] = "exited"
  BY DEF StageAWorkersGone, ResultTxAlive
<1>2. Workers # {}
  BY PipelineAssumption, FS_EmptySet
<1>3. work = <<>> /\ dPc = "exited" /\ dNext = NumChunks + 1
  BY <1>1, <1>2 DEF ThreadsEnd
<1>4. NumChunks \in Nat /\ aNext \in 1 .. NumChunks
  BY <1>1 DEF TypeOK, InputType, StageAType, NumChunks
<1>5. NextWork = NumChunks + 1
  BY <1>3, <1>4 DEF NextWork
<1>6. aNext \in DecodedIds
  <2>1. aNext \in aNext .. NextWork - 1
    BY <1>4, <1>5
  <2> QED BY <1>1, <2>1 DEF BeforeChain
<1>7. \A w \in Workers : wHold[w].id = 0
  BY <1>1 DEF BeforeChain
<1>8. DOMAIN wHold = Workers
  BY FlowTypes
<1>9. \E o \in aReorder : o.id = aNext
  BY <1>1, <1>6, <1>7, <1>8 DEF DecodedIds, PoolIds
<1> QED BY <1>1, <1>9 DEF AReady

\* The output stage never finds the resolve pool gone, and never misses the
\* last block.
LEMMA PoolStays ==
    ASSUME TypeOK, ChainInvariant, AfterChain, ThreadsEnd, ChainEnds, OutputRecv
    PROVE  done # <<>>
<1> SUFFICES ASSUME done = <<>> PROVE FALSE
  OBVIOUS
<1>1. /\ oPc = "run" /\ ~(\E d \in oReorder : OReady(d))
      /\ aPc = "exited" /\ \A r \in Resolvers : rPc[r] = "exited"
  BY DEF OutputRecv, DoneTxAlive
<1>2. Resolvers # {}
  BY PipelineAssumption
<1>3. resolve = <<>>
  BY <1>1, <1>2 DEF ThreadsEnd
<1>4. \A r \in Resolvers : rHold[r] = NoDone
  BY <1>1 DEF AfterChain
<1>5. ~ErrorInFlight
  BY <1>4 DEF ErrorInFlight, NoDone, DoneError
<1>6. chain[aNext] = NumBlocks
  BY <1>1, <1>5 DEF ThreadsEnd
<1>7. aNext \in Nat /\ oNext \in 1 .. aNext /\ NumBlocks \in Nat /\ chain[oNext] < NumBlocks
  BY <1>1, ChainTypes DEF ChainEnds
<1>8. oNext \in ResolvedIds
  <2>1. NextJob = aNext
    BY <1>3, <1>7 DEF NextJob
  <2>2. ResolvedIds = oNext .. aNext - 1
    BY <1>1, <1>5, <2>1 DEF AfterChain
  <2>3. oNext # aNext
    BY <1>6, <1>7
  <2> QED BY <1>7, <2>2, <2>3
<1>9. DOMAIN rHold = Resolvers /\ NoDone.id = 0
  BY FlowTypes, NoIds
<1>10. \E d \in oReorder : d.id = oNext
  BY <1>4, <1>8, <1>9 DEF ResolvedIds, PoolIds
<1> QED BY <1>1, <1>10 DEF OReady

\* What the resolve pool makes of a job is a chunk or a real error.
LEMMA ResolvedReal ==
    ASSUME TypeOK, ChainInvariant, NEW i \in DOMAIN resolve
    PROVE  RealError(Resolved(resolve[i]).err)
<1> DEFINE job == resolve[i]
<1>1. job.id \in 1 .. aNext - 1 /\ job.first = chain[job.id] /\ job.next = chain[job.id + 1]
  BY DEF ChainInvariant, JobsOnChain, OnChain
<1>2. job.first \in 0 .. NumBlocks /\ job.next \in 0 .. NumBlocks /\ NumBlocks \in Nat
  BY <1>1, ChainTypes
<1> HIDE DEF job
<1>3. CASE Unresolvable(job.first, job.next)
  <2>1. PICK k \in job.first .. job.next - 1 : fault[k] = "resolve"
    BY <1>3 DEF Unresolvable
  <2>2. k \in Blocks
    BY <1>2 DEF Blocks
  <2>3. Resolved(job).err = "resolve"
    BY <1>3 DEF Resolved, DoneError
  <2> QED BY <2>1, <2>2, <2>3 DEF RealError, job
<1>4. CASE ~Unresolvable(job.first, job.next)
  <2>1. Resolved(job).err = "none"
    BY <1>4 DEF Resolved
  <2> QED BY <2>1 DEF RealError, job
<1> QED BY <1>3, <1>4

LEMMA ErrorsRealStep ==
    ASSUME TypeOK, ChainInvariant, FlowInvariant, EndInvariant, [Next]_vars
    PROVE  ErrorsReal'
<1>1. UNCHANGED fault
  BY WhoMoves DEF inputVars
<1>2. /\ BeforeChain /\ AfterChain /\ ThreadsEnd /\ ChainEnds /\ MemberCarried
      /\ \A r \in Resolvers : RealError(rHold[r].err)
      /\ oPc = "run" => \A i \in DOMAIN done : RealError(done[i].err)
      /\ verdict \in {"none", "ok", "closed"} \/ RealError(verdict)
      /\ oPc # "run" => verdict # "none"
  BY DEF FlowInvariant, EndInvariant, ErrorsReal
<1>3. rHold \in [Resolvers -> DoneMsg] /\ done \in Seq(DoneMsg) /\ resolve \in Seq(Job) /\ NoDone \in DoneMsg
  BY FlowTypes, NoIds
<1>4. RealError(NoDone.err)
  BY DEF RealError, NoDone, DoneError
<1>5. ASSUME NEW r \in Resolvers PROVE RealError(rHold'[r].err)
  <2>1. CASE UNCHANGED rVars
    BY <1>2, <2>1 DEF rVars
  <2>2. ASSUME NEW q \in Resolvers, Resolver(q) PROVE RealError(rHold'[r].err)
    <3>1. CASE ResolverRecv(q)
      <4>1. resolve # <<>> /\ rHold' = [rHold EXCEPT ![q] = Resolved(Head(resolve))]
        BY <3>1, Zenon DEF ResolverRecv
      <4>2. RealError(Resolved(Head(resolve)).err)
        <5>1. 1 \in DOMAIN resolve /\ Head(resolve) = resolve[1]
          BY <1>3, <4>1, TakeDomain
        <5> QED BY <5>1, ResolvedReal
      <4>3. rHold'[r] = rHold[r] \/ rHold'[r] = Resolved(Head(resolve))
        BY <1>3, <4>1
      <4> QED BY <1>2, <4>2, <4>3
    <3>2. CASE ResolverSend(q) \/ ResolverExit(q)
      <4>1. rHold' = [rHold EXCEPT ![q] = NoDone]
        BY <3>2, Zenon DEF ResolverSend, ResolverExit
      <4>2. rHold'[r] = rHold[r] \/ rHold'[r] = NoDone
        BY <1>3, <4>1
      <4> QED BY <1>2, <1>4, <4>2
    <3> QED BY <2>2, <3>1, <3>2 DEF Resolver
  <2> QED BY <2>1, <2>2, WhoMoves
<1>6. \A r \in Resolvers : rHold'[r].err = "none" \/ \E k \in Blocks : fault'[k] = rHold'[r].err
  BY <1>1, <1>5 DEF RealError
<1>7. oPc' = "run" => oPc = "run"
  <2>1. Output => \/ oPc = "run" \/ oPc' \in {"shutdown", "join", "returned"}
    BY Zenon DEF Output, OutputMismatch, OutputSend, OutputRecv, DropDoneRx, ShutdownCap, JoinAndReturn
  <2>2. Output \/ UNCHANGED oPc
    BY WhoMoves DEF oVars
  <2> QED BY <2>1, <2>2
<1>8. ASSUME oPc' = "run", NEW i \in DOMAIN done' PROVE RealError(done'[i].err)
  <2>1. oPc = "run"
    BY <1>7, <1>8
  <2>2. CASE UNCHANGED done
    BY <1>2, <1>8, <2>1, <2>2
  <2>3. CASE StageA
    <3>1. CASE StageAFail
      <4>1. done' = Append(done, DoneError("decode"))
        BY <2>1, <3>1 DEF StageAFail, DoneRxAlive
      <4>2. \E j \in Blocks : fault[j] = "decode"
        <5>1. aPc = "run" /\ \E o \in aReorder : AReady(o) /\ \E r \in ChainResults(o) : ~r.ok
          BY <3>1, Zenon DEF StageAFail
        <5>2. PICK o \in aReorder : AReady(o) /\ \E r \in ChainResults(o) : ~r.ok
          BY <5>1
        <5>3. PICK r \in ChainResults(o) : ~r.ok
          BY <5>2
        <5> QED BY <1>2, <5>1, <5>2, <5>3, NextResult
      <4>3. RealError(DoneError("decode").err)
        BY <4>2 DEF RealError, DoneError
      <4>4. DoneError("decode") \in DoneMsg
        BY DoneErrorType DEF FaultKind
      <4>5. done'[i] = DoneError("decode") \/ (i \in DOMAIN done /\ done'[i] = done[i])
        BY <1>3, <1>8, <4>1, <4>4, PutElems
      <4> QED BY <1>2, <2>1, <4>3, <4>5
    <3>2. CASE StageAForward \/ StageARecv
      <4>1. UNCHANGED done
        BY <3>2, Zenon DEF StageAForward, StageARecv
      <4> QED BY <2>2, <4>1
    <3> QED BY <1>2, <2>1, <2>3, <3>1, <3>2, WorkersStay DEF StageA
  <2>4. CASE OutputRecv
    <3>1. done # <<>>
      BY <1>2, <2>4, PoolStays
    <3>2. done' = Tail(done)
      BY <2>4, <3>1, Zenon DEF OutputRecv
    <3>3. i + 1 \in DOMAIN done /\ done'[i] = done[i + 1]
      BY <1>3, <1>8, <3>1, <3>2, TakeDomain
    <3> QED BY <1>2, <2>1, <3>3
  <2>5. ASSUME NEW r \in Resolvers, ResolverSend(r) PROVE RealError(done'[i].err)
    <3>1. done' = Append(done, rHold[r])
      BY <2>5, Zenon DEF ResolverSend
    <3>2. done'[i] = rHold[r] \/ (i \in DOMAIN done /\ done'[i] = done[i])
      BY <1>3, <1>8, <3>1, PutElems
    <3> QED BY <1>2, <2>1, <3>2
  <2> QED BY <2>2, <2>3, <2>4, <2>5, WhoMoves
<1>9. oPc' = "run" =>
         \A i \in DOMAIN done' : done'[i].err = "none" \/ \E k \in Blocks : fault'[k] = done'[i].err
  BY <1>1, <1>8 DEF RealError
<1>10. verdict' \in {"none", "ok", "closed"} \/ RealError(verdict')
  <2>1. CASE OutputMismatch
    <3>1. PICK d \in oReorder : OReady(d) /\ InOrder(d) # "none" /\ verdict' = InOrder(d)
      BY <2>1, Zenon DEF OutputMismatch, Break
    <3>2. oPc = "run"
      BY <2>1, Zenon DEF OutputMismatch
    <3>3. /\ oNext \in 1 .. aNext - 1 /\ d.first = chain[oNext] /\ d.next = chain[oNext + 1]
          /\ d.bytes = Bytes(d.first, d.next)
      BY <3>1, ReadyChunk
    <3>4. d.first \in 0 .. NumBlocks /\ d.next \in d.first .. NumBlocks
      BY <3>3, ChainTypes
    <3>5. curMember = Bytes(MemberStart(d.first), d.first)
      BY <1>2, <3>2, <3>3 DEF MemberCarried
    <3>6. verdict' = ChunkVerdict(d.first, d.next, Bytes(d.first, d.next), Bytes(MemberStart(d.first), d.first))
      BY <3>1, <3>3, <3>5, Zenon DEF InOrder
    <3>7. \E k \in Blocks : fault[k] = verdict'
      BY <3>1, <3>4, <3>6, ChunkVerdictReal
    <3> QED BY <3>7, Zenon DEF RealError
  <2>2. CASE OutputSend
    <3>1. PICK d \in oReorder : /\ OReady(d)
                                /\ \/ verdict' \in {"ok", "closed", verdict}
                                   \/ ~d.final /\ oNext = NumChunks
      BY <2>2 DEF OutputSend, Break
    <3>2. oPc = "run" /\ verdict = "none"
      BY <2>2, Zenon DEF OutputSend, ChainInvariant, VerdictHolds
    <3>3. ASSUME ~d.final, oNext = NumChunks PROVE FALSE
      <4>1. /\ oNext \in 1 .. aNext - 1 /\ ~(chain[oNext] < chain[oNext + 1] /\ chain[oNext + 1] = NumBlocks)
        BY <3>1, <3>3, ReadyChunk
      <4>2. aNext = NumChunks + 1
        BY <3>3, <4>1, ChainTypes
      <4>3. chain[oNext + 1] = NumBlocks /\ chain[oNext] < NumBlocks
        BY <1>2, <3>2, <3>3, <4>2 DEF ChainEnds
      <4> QED BY <4>1, <4>3
    <3> QED BY <3>1, <3>2, <3>3
  <2>3. CASE OutputRecv
    <3>1. done # <<>> /\ oPc = "run"
      BY <1>2, <2>3, PoolStays DEF OutputRecv
    <3>2. UNCHANGED verdict \/ verdict' = Head(done).err
      BY <2>3, <3>1, Zenon DEF OutputRecv, Break
    <3>3. RealError(Head(done).err)
      BY <1>2, <1>3, <3>1, TakeDomain
    <3> QED BY <1>2, <3>2, <3>3
  <2>4. CASE DropDoneRx \/ ShutdownCap \/ JoinAndReturn \/ UNCHANGED oVars
    <3>1. UNCHANGED verdict
      BY <2>4, Zenon DEF DropDoneRx, ShutdownCap, JoinAndReturn, oVars
    <3> QED BY <1>2, <3>1
  <2> QED BY <2>1, <2>2, <2>3, <2>4, WhoMoves DEF Output
<1>11. oPc' # "run" => verdict' # "none"
  <2>1. CASE OutputMismatch \/ OutputSend \/ OutputRecv
    <3>1. UNCHANGED oPc \/ verdict' # "none"
      BY <2>1 DEF OutputMismatch, OutputSend, OutputRecv, Break
    <3>2. oPc = "run"
      BY <2>1, Zenon DEF OutputMismatch, OutputSend, OutputRecv
    <3> QED BY <3>1, <3>2
  <2>2. CASE DropDoneRx \/ ShutdownCap \/ JoinAndReturn
    <3>1. UNCHANGED verdict /\ oPc # "run"
      BY <2>2 DEF DropDoneRx, ShutdownCap, JoinAndReturn
    <3> QED BY <1>2, <3>1
  <2>3. CASE UNCHANGED oVars
    BY <1>2, <2>3 DEF oVars
  <2> QED BY <2>1, <2>2, <2>3, WhoMoves DEF Output
<1>12. \/ verdict' \in {"none", "ok", "closed"}
       \/ verdict' = "none" \/ \E k \in Blocks : fault'[k] = verdict'
  BY <1>1, <1>10 DEF RealError
<1> QED BY <1>6, <1>9, <1>11, <1>12, Zenon DEF ErrorsReal, RealError

LEMMA MemberCarriedStep ==
    ASSUME TypeOK, ChainInvariant, ChainEnds, MemberCarried, [Next]_vars
    PROVE  MemberCarried'
<1> SUFFICES ASSUME oPc' = "run" PROVE curMember' = Bytes(MemberStart(chain'[oNext']), chain'[oNext'])
  BY DEF MemberCarried, MemberStart
<1>1. oNext \in 1 .. aNext
  BY ChainTypes
<1>2. CASE OutputSend
  <2>1. PICK d \in oReorder : /\ OReady(d) /\ oNext' = oNext + 1
                              /\ curMember' = CarriedBytes(d.first, d.next, d.bytes, curMember)
    BY <1>2 DEF OutputSend, Break
  <2>2. oPc = "run" /\ UNCHANGED aVars
    BY <1>2, Zenon DEF OutputSend
  <2>3. /\ oNext \in 1 .. aNext - 1 /\ d.first = chain[oNext] /\ d.next = chain[oNext + 1]
        /\ d.bytes = Bytes(d.first, d.next)
    BY <2>1, ReadyChunk
  <2>4. d.first \in 0 .. NumBlocks /\ d.next \in d.first .. NumBlocks
    BY <2>3, ChainTypes
  <2>5. curMember = Bytes(MemberStart(d.first), d.first)
    BY <2>2, <2>3 DEF MemberCarried
  <2>6. curMember' = Bytes(MemberStart(d.next), d.next)
    BY <2>1, <2>3, <2>4, <2>5, CarriedTrue
  <2> QED BY <2>1, <2>2, <2>3, <2>6 DEF aVars
<1>3. CASE ~OutputSend
  <2>1. oPc = "run" /\ UNCHANGED <<oNext, curMember>>
    <3>1. Output => oPc = "run" /\ UNCHANGED <<oNext, curMember>>
      BY <1>3 DEF Output, OutputMismatch, OutputRecv, DropDoneRx, ShutdownCap, JoinAndReturn, Break
    <3>2. Output \/ UNCHANGED oVars
      BY WhoMoves
    <3> QED BY <3>1, <3>2 DEF oVars
  <2>2. chain'[oNext] = chain[oNext]
    <3>1. CASE StageAForward
      BY <1>1, <3>1, ForwardChain
    <3>2. CASE ~StageAForward
      <4>1. UNCHANGED chain
        BY <3>2, WhoMoves, Zenon DEF StageA, StageAFail, StageARecv, StageAWorkersGone, aVars
      <4> QED BY <4>1
    <3> QED BY <3>1, <3>2
  <2> QED BY <2>1, <2>2 DEF MemberCarried
<1> QED BY <1>2, <1>3

LEMMA InitEnd == Init => EndInvariant
<1> SUFFICES ASSUME Init PROVE EndInvariant
  OBVIOUS
<1>1. /\ chain = <<0>> /\ aNext = 1 /\ oNext = 1 /\ curMember = <<>> /\ verdict = "none"
      /\ aPc = "run" /\ dPc = "acquire" /\ oPc = "run" /\ done = <<>> /\ capShutdown = FALSE
      /\ wPc = [w \in Workers |-> "recv"] /\ rPc = [r \in Resolvers |-> "recv"]
      /\ rHold = [r \in Resolvers |-> NoDone]
  BY Zenon DEF Init
<1>2. NumBlocks \in Nat /\ NumBlocks > 0 /\ NumChunks \in Nat /\ NumChunks > 0
  BY ConstantTypes, InitType DEF TypeOK, InputType, NumChunks
<1>3. ThreadsEnd
  <2>1. \A w \in Workers : wPc[w] # "exited"
    BY <1>1
  <2>2. \A r \in Resolvers : rPc[r] # "exited"
    BY <1>1
  <2> QED BY <1>1, <2>1, <2>2, Zenon DEF ThreadsEnd
<1>4. ChainEnds
  BY <1>1, <1>2 DEF ChainEnds
<1>5. ErrorsReal
  BY <1>1 DEF ErrorsReal, RealError, NoDone, DoneError
<1>6. MemberCarried
  <2>1. MemberStart(0) = 0
    BY MemberStartUnique DEF StartsMember
  <2>2. chain[oNext] = 0
    BY <1>1
  <2>3. Bytes(0, 0) = <<>>
    BY BytesType
  <2> QED BY <1>1, <2>1, <2>2, <2>3 DEF MemberCarried
<1> QED BY <1>3, <1>4, <1>5, <1>6 DEF EndInvariant

\* The threads end in order, the chain ends with the input, and every error on
\* its way to the caller is damage of the input.
THEOREM EndCorrect == Spec => []EndInvariant
<1>1. Init => EndInvariant
  BY InitEnd
<1>2. /\ TypeOK /\ TypeOK' /\ ChainInvariant /\ FlowInvariant /\ EndInvariant /\ [Next]_vars
      => EndInvariant'
  <2> SUFFICES ASSUME TypeOK, TypeOK', ChainInvariant, FlowInvariant, EndInvariant, [Next]_vars
               PROVE  EndInvariant'
    OBVIOUS
  <2>1. AfterChain /\ ChainEnds /\ ThreadsEnd /\ MemberCarried
    BY DEF FlowInvariant, EndInvariant
  <2>2. ThreadsEnd'
    BY <2>1, ThreadsEndStep
  <2>3. ChainEnds' /\ MemberCarried'
    BY <2>1, ChainEndsStep, MemberCarriedStep
  <2>4. ErrorsReal'
    BY ErrorsRealStep
  <2> QED BY <2>2, <2>3, <2>4 DEF EndInvariant
<1> QED BY <1>1, <1>2, TypeCorrect, ChainCorrect, FlowCorrect, PTL DEF Spec

-----------------------------------------------------------------------------
(* No chunk is lost. *)

\* On a healthy input no chunk is lost or handled twice: until the last one is
\* on its way, every chunk that was dispatched and not yet delivered is in the
\* pipeline, on the right side of stage A.
THEOREM NothingLost == Spec => []NoChunkLost
<1>1. TypeOK /\ FlowInvariant /\ EndInvariant => NoChunkLost
  <2> SUFFICES ASSUME TypeOK, FlowInvariant, EndInvariant, oPc = "run", Healthy
               PROVE  /\ AfterStageA \ {0} = oNext .. aNext - 1
                      /\ aPc = "run" => BeforeStageA \ {0} = aNext .. dNext - 1
    BY Zenon DEF NoChunkLost
  <2>1. /\ dNext \in Nat /\ aNext \in Nat /\ oNext \in Nat /\ aNext >= 1 /\ oNext >= 1
        /\ NextWork \in Int /\ NextJob \in Int
        /\ work \in Seq(Nat) /\ resolve \in Seq(Job) /\ Len(work) \in Nat /\ Len(resolve) \in Nat
        /\ DOMAIN wHold = Workers /\ DOMAIN rHold = Resolvers
    BY FlowTypes
  <2>2. ~ErrorInFlight
    <3>1. \A e : RealError(e) => e = "none"
      BY DEF RealError, Healthy
    <3>2. ErrorsReal
      BY DEF EndInvariant
    <3> QED BY <3>1, <3>2 DEF ErrorsReal, ErrorInFlight
  <2>3. ResolvedIds = oNext .. NextJob - 1 /\ oNext <= NextJob /\ aNext <= NextWork
        /\ (aPc = "run" => DecodedIds = aNext .. NextWork - 1)
    <3>1. FirstHeld >= oNext
      BY <2>1 DEF FirstHeld
    <3>2. FirstHeld \in Nat
      BY FlowTypes
    <3> QED BY <2>1, <2>2, <3>1, <3>2 DEF FlowInvariant, BeforeChain, AfterChain
  <2>4. IdsIn(resolve) = NextJob .. aNext - 1
    <3>1. /\ DOMAIN resolve = 1 .. Len(resolve) /\ NextJob = aNext - Len(resolve)
          /\ \A i \in DOMAIN resolve : resolve[i].id = NextJob + i - 1
      BY <2>1 DEF FlowInvariant, AfterChain, NextJob
    <3>2. ASSUME NEW n \in NextJob .. aNext - 1 PROVE n \in IdsIn(resolve)
      <4> DEFINE i == n - NextJob + 1
      <4>1. i \in DOMAIN resolve /\ NextJob + i - 1 = n
        BY <2>1, <3>1
      <4> HIDE DEF i
      <4> QED BY <3>1, <4>1 DEF IdsIn
    <3>3. ASSUME NEW i \in DOMAIN resolve PROVE resolve[i].id \in NextJob .. aNext - 1
      BY <2>1, <3>1
    <3> QED BY <3>2, <3>3 DEF IdsIn
  <2>5. {work[i] : i \in DOMAIN work} = NextWork .. dNext - 1
    <3>1. /\ DOMAIN work = 1 .. Len(work) /\ NextWork = dNext - Len(work)
          /\ \A i \in DOMAIN work : work[i] = NextWork + i - 1
      BY <2>1 DEF FlowInvariant, BeforeChain, NextWork
    <3>2. ASSUME NEW n \in NextWork .. dNext - 1 PROVE \E i \in DOMAIN work : work[i] = n
      <4> DEFINE i == n - NextWork + 1
      <4>1. i \in DOMAIN work /\ NextWork + i - 1 = n
        BY <2>1, <3>1
      <4> HIDE DEF i
      <4> QED BY <3>1, <4>1
    <3>3. ASSUME NEW i \in DOMAIN work PROVE work[i] \in NextWork .. dNext - 1
      BY <2>1, <3>1
    <3> QED BY <3>2, <3>3
  <2>6. AfterStageA \ {0} = (IdsIn(resolve) \ {0}) \cup ResolvedIds
    BY <2>1, Zenon DEF AfterStageA, IdsIn, ResolvedIds, PoolIds
  <2>7. BeforeStageA \ {0} = ({work[i] : i \in DOMAIN work} \ {0}) \cup DecodedIds
    BY <2>1, Zenon DEF BeforeStageA, IdsIn, DecodedIds, PoolIds
  <2>8. NextJob <= aNext /\ NextWork <= dNext
    BY <2>1 DEF NextJob, NextWork
  <2>9. AfterStageA \ {0} = oNext .. aNext - 1
    BY <2>1, <2>3, <2>4, <2>6, <2>8
  <2>10. aPc = "run" => BeforeStageA \ {0} = aNext .. dNext - 1
    BY <2>1, <2>3, <2>5, <2>7, <2>8
  <2> QED BY <2>9, <2>10
<1> QED BY <1>1, TypeCorrect, FlowCorrect, EndCorrect, PTL

-----------------------------------------------------------------------------
(* The promise. *)

\* A chunk that is sent extends the output along the chain.
LEMMA DeliverStep ==
    ASSUME TypeOK, TypeOK', ChainInvariant, ChainInvariant', OutputSend
    PROVE  Promise!Deliver \/ UNCHANGED <<fault, delivered, status>>
<1>1. oPc = "run" /\ UNCHANGED <<inputVars, aVars, status>>
  BY Zenon DEF OutputSend
<1>2. UNCHANGED <<fault, status, chain, aNext>> /\ status = "running"
  BY <1>1 DEF inputVars, aVars, ChainInvariant, VerdictHolds
<1>3. oNext' = oNext \/ oNext' = oNext + 1
  BY Zenon DEF OutputSend
<1> DEFINE n == chain[oNext]
           m == chain[oNext']
<1>4. /\ oNext \in 1 .. aNext /\ oNext' \in 1 .. aNext /\ aNext \in Nat /\ NumBlocks \in Nat
      /\ n \in 0 .. NumBlocks /\ m \in n .. NumBlocks
  <2>1. /\ oNext \in 1 .. aNext /\ aNext \in Nat /\ NumBlocks \in Nat
        /\ \A i \in 1 .. aNext : chain[i] \in 0 .. NumBlocks
        /\ \A i \in 1 .. aNext - 1 : chain[i] <= chain[i + 1]
    BY ChainTypes
  <2>2. oNext' <= aNext
    BY <1>2 DEF ChainInvariant, OutputFollowsChain
  <2>3. oNext' \in 1 .. aNext
    BY <1>3, <2>1, <2>2
  <2>4. chain[oNext] <= chain[oNext']
    BY <1>3, <2>1, <2>3
  <2> QED BY <2>1, <2>3, <2>4
<1>5. delivered = Bytes(0, n)
  BY DEF ChainInvariant, OutputFollowsChain
<1>6. delivered' = Bytes(0, m) /\ \A k \in 0 .. m - 1 : fault[k] = "none"
  BY <1>2 DEF ChainInvariant, OutputFollowsChain
<1> HIDE DEF n, m
<1>7. Len(delivered) = n
  BY <1>4, <1>5, BytesType
<1>8. m \in Len(delivered) .. NumBlocks
  BY <1>4, <1>7
<1>9. Bytes(0, m) = Promise!Bytes(0, m)
  BY DEF Bytes, Promise!Bytes
<1> QED BY <1>2, <1>6, <1>8, <1>9, Zenon DEF Promise!Deliver

\* What is returned is what the promise allows.
LEMMA ReturnStep ==
    ASSUME TypeOK, ChainInvariant, EndInvariant, JoinAndReturn
    PROVE  Promise!Succeed \/ Promise!Fail \/ Promise!HangUp
<1>1. oPc = "join" /\ status' = verdict /\ UNCHANGED <<fault, delivered>>
  BY Zenon DEF JoinAndReturn, inputVars, sinkVars
<1>2. status = "running" /\ (verdict = "ok" => delivered = TrueOutput /\ Healthy)
  BY <1>1 DEF ChainInvariant, VerdictHolds
<1>3. verdict \in {"ok", "closed"} \/ (verdict # "none" /\ \E k \in Blocks : fault[k] = verdict)
  BY <1>1, Zenon DEF EndInvariant, ErrorsReal, RealError
<1>4. /\ TrueOutput = Promise!TrueOutput /\ Blocks = Promise!Blocks /\ (Healthy <=> Promise!Healthy)
  BY DEF TrueOutput, Promise!TrueOutput, Bytes, Promise!Bytes, Blocks, Promise!Blocks, Healthy, Promise!Healthy
<1>5. CASE verdict = "ok"
  BY <1>1, <1>2, <1>4, <1>5, Zenon DEF Promise!Succeed
<1>6. CASE verdict = "closed"
  BY <1>1, <1>2, <1>6, Zenon DEF Promise!HangUp
<1>7. CASE verdict # "none" /\ \E k \in Blocks : fault[k] = verdict
  BY <1>1, <1>2, <1>4, <1>7, Zenon DEF Promise!Fail
<1> QED BY <1>3, <1>5, <1>6, <1>7

\* parallel_decode_member keeps the promise of OrderedDecode: the bytes come in
\* order and stop before the first damage, Ok means all of them, an error names
\* damage of the input, and no internal error of the pipeline (a closed
\* channel, a missing last block) ever reaches the caller.
THEOREM PromiseKept == Spec => KeepsPromise
<1>1. Init => Promise!Init
  BY Zenon DEF Init, Promise!Init
<1>2. /\ TypeOK /\ TypeOK' /\ ChainInvariant /\ ChainInvariant' /\ EndInvariant /\ [Next]_vars
      => [Promise!Next]_(Promise!promiseVars)
  <2> SUFFICES ASSUME TypeOK, TypeOK', ChainInvariant, ChainInvariant', EndInvariant, [Next]_vars
               PROVE  Promise!Next \/ UNCHANGED <<fault, delivered, status>>
    BY Zenon DEF Promise!promiseVars
  <2>1. CASE OutputSend
    BY <2>1, DeliverStep, Zenon DEF Promise!Next
  <2>2. CASE JoinAndReturn
    BY <2>2, ReturnStep, Zenon DEF Promise!Next
  <2>3. CASE ~OutputSend /\ ~JoinAndReturn
    BY <2>3, WhoMoves DEF inputVars
  <2> QED BY <2>1, <2>2, <2>3
<1> QED BY <1>1, <1>2, TypeCorrect, ChainCorrect, EndCorrect, PTL DEF Spec, KeepsPromise, Promise!Spec

-----------------------------------------------------------------------------
(* Speculation. *)

\* The scan found the start of the body and then rising positions inside it.
BoundariesSorted ==
    /\ boundaries[1] = 0
    /\ \A i \in 1 .. NumChunks - 1 : boundaries[i] < boundaries[i + 1] /\ boundaries[i + 1] < EndOfInput

\* Nothing is wrong with the input or with the boundaries.
CleanBoundaries == Healthy /\ \A i \in 1 .. NumChunks : boundaries[i] \notin FalseStarts

\* Then every chunk ends where the scan said that the next one starts, and
\* stage A never has to decode one again.
CleanChain ==
    CleanBoundaries => specFailures = 0 /\ (aPc = "run" => expectedStart = boundaries[aNext])

\* The scan returns rising positions from 0: all the positions found are among
\* the boundaries, so 0 is.
LEMMA ScanSorted ==
    ASSUME NEW c \in SUBSET (1 .. EndOfInput - 1), NEW b \in ScanBoundaries(c)
    PROVE  /\ b[1] = 0
           /\ \A i \in 1 .. Len(b) - 1 : b[i] < b[i + 1] /\ b[i + 1] < EndOfInput
<1> DEFINE found == ScanFound(c)
           n == Cardinality(found)
<1>1. NumBlocks \in Nat /\ NumBlocks > 0 /\ EndOfInput \in Nat /\ EndOfInput > 0
  BY ConstantTypes DEF EndOfInput, Bit
<1>2. found \subseteq 0 .. EndOfInput - 1 /\ 0 \in found
  <2>1. ASSUME NEW t, FoundFrom(c, t) # {} PROVE Min(FoundFrom(c, t)) \in 1 .. EndOfInput - 1
    <3>1. FoundFrom(c, t) \subseteq c
      BY Zenon DEF FoundFrom
    <3>2. FoundFrom(c, t) \subseteq Nat
      <4>1. \A x \in c : x \in Nat
        BY <1>1
      <4> QED BY <3>1, <4>1, Zenon
    <3>3. Min(FoundFrom(c, t)) \in FoundFrom(c, t)
      BY <2>1, <3>2, MinProperty
    <3> QED BY <3>1, <3>3
  <2>2. ASSUME NEW x \in found PROVE x \in 0 .. EndOfInput - 1
    <3>1. CASE x = 0
      BY <1>1, <3>1
    <3>2. CASE x # 0
      <4>1. PICK t \in Targets : FoundFrom(c, t) # {} /\ x = Min(FoundFrom(c, t))
        BY <3>2 DEF ScanFound
      <4> QED BY <1>1, <2>1, <4>1
    <3> QED BY <3>1, <3>2
  <2>3. 0 \in found
    BY DEF ScanFound
  <2> QED BY <2>2, <2>3, Zenon
<1>3. b \in [1 .. n -> found] /\ \A i, j \in DOMAIN b : i < j => b[i] < b[j]
  BY Zenon DEF ScanBoundaries
<1> HIDE DEF found
<1>4. IsFiniteSet(found) /\ n \in Nat /\ n > 0
  <2>1. IsFiniteSet(0 .. EndOfInput - 1)
    BY <1>1, FS_Interval
  <2>2. IsFiniteSet(found) /\ found # {}
    BY <1>2, <2>1, FS_Subset
  <2> QED BY <2>2, FS_CardinalityType, FS_EmptySet
<1> HIDE DEF n
<1>5. DOMAIN b = 1 .. n /\ \A i \in 1 .. n : b[i] \in found
  BY <1>3
<1>6. \E i \in 1 .. n : b[i] = 0
  <2> SUFFICES ASSUME \A i \in 1 .. n : b[i] # 0 PROVE FALSE
    BY Zenon
  <2> DEFINE rest == found \ {0}
  <2>1. IsFiniteSet(rest) /\ Cardinality(rest) = n - 1
    BY <1>2, <1>4, FS_RemoveElement DEF n
  <2>2. IsFiniteSet(1 .. n) /\ Cardinality(1 .. n) = n
    BY <1>4, FS_Interval
  <2>3. b \in [1 .. n -> rest]
    BY <1>3, <1>5
  <2>4. Cardinality(rest) < Cardinality(1 .. n)
    BY <1>4, <2>1, <2>2
  <2> HIDE DEF rest
  <2>5. \E x, y \in 1 .. n : x # y /\ b[x] = b[y]
    <3> DEFINE ids == 1 .. n
    <3>1. IsFiniteSet(ids) /\ IsFiniteSet(rest) /\ Cardinality(rest) < Cardinality(ids) /\ b \in [ids -> rest]
      BY <2>1, <2>2, <2>3, <2>4
    <3> HIDE DEF ids
    <3>2. \E x, y \in ids : x # y /\ b[x] = b[y]
      BY <3>1, FS_PigeonHole, Zenon
    <3> QED BY <3>2 DEF ids
  <2>6. PICK x \in 1 .. n, y \in 1 .. n : x # y /\ b[x] = b[y]
    BY <2>5
  <2>7. b[x] < b[y] \/ b[y] < b[x]
    BY <1>3, <1>4, <1>5, <2>6
  <2>8. b[x] \in Nat
    <3>1. b[x] \in found
      BY <1>5, <2>6
    <3>2. 0 .. EndOfInput - 1 \subseteq Nat
      BY <1>1
    <3> QED BY <1>2, <3>1, <3>2, Zenon
  <2> QED BY <2>6, <2>7, <2>8
<1>7. \A i \in 1 .. n : b[i] \in 0 .. EndOfInput - 1
  BY <1>2, <1>5
<1>8. b[1] = 0
  <2>1. PICK i \in 1 .. n : b[i] = 0
    BY <1>6
  <2>2. 1 \in 1 .. n /\ (1 < i => b[1] < b[i])
    BY <1>3, <1>4, <1>5
  <2> QED BY <1>1, <1>4, <1>7, <2>1, <2>2
<1>9. Len(b) = n
  BY <1>4, <1>5, ScanType
<1>10. ASSUME NEW i \in 1 .. n - 1 PROVE b[i] < b[i + 1] /\ b[i + 1] < EndOfInput
  <2>1. i \in 1 .. n /\ i + 1 \in 1 .. n /\ i < i + 1
    BY <1>4
  <2>2. b[i] < b[i + 1]
    BY <1>3, <1>5, <2>1
  <2> QED BY <1>1, <1>7, <2>1, <2>2
<1> QED BY <1>8, <1>9, <1>10

\* With a clean input and clean boundaries the next chunk of the chain is taken
\* as it was decoded, and ends where the next one starts.
LEMMA CleanResult ==
    ASSUME TypeOK, ChainInvariant, ChainEnds, BoundariesSorted, CleanBoundaries, CleanChain, aPc = "run",
           NEW o \in aReorder, AReady(o), NEW r \in ChainResults(o)
    PROVE  /\ Anchored(o) /\ r.ok
           /\ aNext < NumChunks => r.end = boundaries[aNext + 1]
<1> DEFINE k == chain[aNext]
           hint == Hint(aNext)
<1>1. aNext \in 1 .. NumChunks /\ o.id = aNext /\ NumChunks \in Nat /\ NumBlocks \in Nat
  BY ConstantTypes DEF TypeOK, InputType, StageAType, AReady, NumChunks
<1>2. k \in Blocks /\ k \in 0 .. NumBlocks /\ k # NumBlocks /\ expectedStart = Bit(k) /\ boundaries[aNext] = expectedStart
  BY <1>1 DEF ChainInvariant, ChainGrows, ChainAnchored, ChainEnds, CleanChain, Blocks
<1>3. hint \in Int
  BY <1>1, HintType, ConstantTypes DEF TypeOK, Position, NoHint, EndOfInput, Bit
<1>4. o.res = DecodeBlocks(k, hint)
  <2>1. OwnChunk(o) /\ o.id # 0
    BY <1>1 DEF ChainInvariant, OutcomesOwn
  <2>2. o.res \in DecodeOneChunk(Bit(k), hint)
    BY <1>1, <1>2, <2>1, Zenon DEF OwnChunk
  <2> QED BY <1>2, <2>2, DecodeAtBlock
<1> DEFINE e == StopBlock(k, hint)
<1>5. e \in k .. NumBlocks
  BY <1>2, <1>3, StopBlockProperty
<1>6. ~\E j \in k .. e - 1 : fault[j] = "decode"
  <2>1. \A j \in k .. e - 1 : j \in Blocks
    BY <1>1, <1>2, <1>5 DEF Blocks
  <2> QED BY <2>1 DEF CleanBoundaries, Healthy
<1>7. o.res = [ok |-> TRUE, first |-> k, next |-> e, end |-> Bit(e), final |-> ReachesEnd(k, e)]
  BY <1>2, <1>4, <1>6, Zenon DEF DecodeBlocks
<1>8. o.res.ok /\ o.res.end = Bit(e)
  <2> HIDE DEF e, k
  <2> QED BY <1>7
<1>9. Anchored(o)
  BY <1>1, <1>2, <1>8, Zenon DEF Anchored
<1>10. r = o.res
  BY <1>9, Zenon DEF ChainResults
<1>11. ASSUME aNext < NumChunks PROVE Bit(e) = boundaries[aNext + 1]
  <2> DEFINE p == boundaries[aNext + 1]
  <2>1. aNext + 1 \in 1 .. NumChunks /\ aNext \in 1 .. NumChunks - 1 /\ hint = p
    BY <1>1, <1>11 DEF Hint
  <2>2. p \in Position /\ p < EndOfInput /\ Bit(k) < p
    BY <1>2, <2>1, HintType DEF BoundariesSorted, TypeOK
  <2>3. p \notin FalseStarts
    BY <2>1 DEF CleanBoundaries
  <2> HIDE DEF p
  <2>4. p \in 0 .. EndOfInput - 1
    BY <1>1, <2>2 DEF Position, EndOfInput, Bit, NoHint
  <2>5. PICK j \in Blocks : p = Bit(j)
    BY <2>3, <2>4, TrueStart
  <2>6. k <= j
    BY <1>1, <1>2, <2>2, <2>5 DEF Bit, Blocks
  <2>7. e = j
    BY <1>2, <2>1, <2>5, <2>6, StopAtBlock
  <2> QED BY <2>5, <2>7 DEF p
<1> QED BY <1>8, <1>9, <1>10, <1>11

LEMMA CleanChainStep ==
    ASSUME TypeOK, TypeOK', ChainInvariant, ChainEnds, BoundariesSorted, CleanChain, [Next]_vars
    PROVE  BoundariesSorted' /\ CleanChain'
<1>1. UNCHANGED <<fault, boundaries, NumChunks>> /\ NumChunks \in Nat /\ aNext \in Nat
  BY WhoMoves, ChainTypes DEF inputVars, NumChunks
<1>2. BoundariesSorted'
  BY <1>1 DEF BoundariesSorted
<1>3. (CleanBoundaries' <=> CleanBoundaries)
  BY <1>1 DEF CleanBoundaries, Healthy
<1>4. ASSUME CleanBoundaries PROVE specFailures' = 0 /\ (aPc' = "run" => expectedStart' = boundaries'[aNext'])
  <2>0. specFailures = 0 /\ (aPc = "run" => expectedStart = boundaries[aNext])
    BY <1>4 DEF CleanChain
  <2>1. CASE StageAForward
    <3>1. PICK o \in aReorder : AReady(o) /\ \E r \in ChainResults(o) : r.ok /\ Forward(o, r)
      BY <2>1, Zenon DEF StageAForward
    <3>2. PICK r \in ChainResults(o) : r.ok /\ Forward(o, r)
      BY <3>1
    <3>3. aPc = "run"
      BY <2>1, Zenon DEF StageAForward
    <3>4. Anchored(o) /\ (aNext < NumChunks => r.end = boundaries[aNext + 1])
      BY <1>4, <3>1, <3>2, <3>3, CleanResult
    <3>5. specFailures' = specFailures /\ expectedStart' = r.end
      BY <3>2, <3>4, Zenon DEF Forward
    <3>6. aPc' = "run" => aNext' = aNext + 1 /\ aNext # NumChunks
      BY <3>2 DEF Forward
    <3>7. aNext <= NumChunks
      BY <3>3 DEF TypeOK, StageAType
    <3> QED BY <1>1, <2>0, <3>4, <3>5, <3>6, <3>7
  <2>2. CASE StageAFail
    <3>1. PICK o \in aReorder : AReady(o) /\ \E r \in ChainResults(o) : ~r.ok
      BY <2>2, Zenon DEF StageAFail
    <3>2. aPc = "run"
      BY <2>2, Zenon DEF StageAFail
    <3> QED BY <1>4, <3>1, <3>2, CleanResult
  <2>3. CASE StageARecv \/ StageAWorkersGone
    <3>1. UNCHANGED <<specFailures, expectedStart, aNext>> /\ (aPc' = aPc \/ aPc' = "exited")
      BY <2>3, Zenon DEF StageARecv, StageAWorkersGone
    <3> QED BY <1>1, <2>0, <3>1
  <2>4. CASE UNCHANGED aVars
    BY <1>1, <2>0, <2>4 DEF aVars
  <2> QED BY <2>1, <2>2, <2>3, <2>4, WhoMoves DEF StageA
<1> QED BY <1>2, <1>3, <1>4 DEF CleanChain

\* A chunk is decoded again only because a boundary was false or the input is
\* damaged: right guesses are never thrown away.
THEOREM RedecodeCorrect == Spec => []RedecodeHasCause
<1>1. Init => BoundariesSorted /\ CleanChain
  <2> SUFFICES ASSUME Init PROVE BoundariesSorted /\ CleanChain
    OBVIOUS
  <2>1. PICK c \in SUBSET (1 .. EndOfInput - 1) : boundaries \in ScanBoundaries(c)
    <3>1. fault \in InputFaults /\ config \in Configs[fault]
      BY Zenon DEF Init
    <3>2. config.finds \subseteq SUBSET (1 .. EndOfInput - 1)
      BY <3>1, PipelineAssumption
    <3>3. \E c \in config.finds : boundaries \in ScanBoundaries(c)
      BY Zenon DEF Init
    <3> QED BY <3>2, <3>3, Zenon
  <2>2. BoundariesSorted
    BY <2>1, ScanSorted DEF BoundariesSorted, NumChunks
  <2>3. specFailures = 0 /\ expectedStart = 0 /\ aNext = 1
    BY Zenon DEF Init
  <2> QED BY <2>2, <2>3 DEF BoundariesSorted, CleanChain
<1>2. /\ TypeOK /\ TypeOK' /\ ChainInvariant /\ EndInvariant
      /\ BoundariesSorted /\ CleanChain /\ [Next]_vars
      => BoundariesSorted' /\ CleanChain'
  BY CleanChainStep DEF EndInvariant
<1>3. CleanChain => RedecodeHasCause
  BY DEF CleanChain, CleanBoundaries, RedecodeHasCause
<1> QED BY <1>1, <1>2, <1>3, TypeCorrect, ChainCorrect, EndCorrect, PTL DEF Spec
=============================================================================
