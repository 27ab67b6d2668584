------------------------------ MODULE Pipeline ------------------------------
(***************************************************************************)
(* parallel_decode_member: the memory-mapped parallel decoder.             *)
(*                                                                         *)
(*   dispatch --work--> workers --result--> stage A --resolve--> resolve   *)
(*   pool --done--> output (the calling thread) --sink--> consumer         *)
(*                                                                         *)
(* Workers decode the chunks between guessed block boundaries in any       *)
(* order.  Stage A puts the results back in order, accepts one only if it  *)
(* starts where its predecessor really ended, decodes it again from there  *)
(* otherwise, and hands it with the window before it to the resolve pool.  *)
(* The output stage puts the resolved chunks in order again, checks the    *)
(* trailers and sends the bytes to the sink.                               *)
(*                                                                         *)
(* Every channel is a bounded crossbeam channel: a send blocks while the   *)
(* channel is full and fails once every receiver is dropped; a receive     *)
(* blocks while it is empty and fails once it is empty and every sender    *)
(* is dropped.  A thread owns its channel ends until it returns.  A step   *)
(* of a thread goes from one blocking operation to the next.               *)
(***************************************************************************)
EXTENDS ChunkDecode

CONSTANTS
    Workers,          \* the decode pool (num_threads of them)
    Resolvers,        \* the resolve pool
    ChannelBound,     \* bound of the four channels (2 * num_threads in the code)
    Configs,          \* Configs[f]: the configurations considered for damage f
    InflightFloor,    \* INFLIGHT_FLOOR (16 in the code)
    SinkCapacity      \* bound of the caller's sink channel

ASSUME PipelineAssumption ==
    /\ IsFiniteSet(Workers) /\ Cardinality(Workers) >= 2
    /\ IsFiniteSet(Resolvers) /\ Resolvers # {}
    /\ ChannelBound \in Nat \ {0}
    /\ \A f \in InputFaults :
          Configs[f] \subseteq [chunkBits : Nat \ {0}, inflightFactor : Nat,
                               finds : SUBSET SUBSET (1 .. EndOfInput - 1)]
    /\ InflightFloor \in Nat \ {0}
    /\ SinkCapacity \in Nat \ {0}

VARIABLES
    config,           \* chunk_size_bytes, RAPIDGZIP_INFLIGHT, what the finder may find
    boundaries,       \* start bits of the chunks, as the scan found them
    inFlight,         \* InflightState.in_flight
    capShutdown,      \* InflightState.shutdown
    work, result, resolve, done,     \* the channels
    dPc, dNext,       \* dispatch thread, next chunk to send
    wPc, wHold,       \* workers, and the outcome each is about to send
    aPc, aReorder, aNext, expectedStart, prevTail, specFailures,   \* stage A
    chain,            \* history: the block at which each chunk of the chain starts
    rPc, rHold,       \* resolvers, and the message each is about to send
    oPc, oReorder, oNext, curMember, verdict,     \* output stage
    delivered,        \* bytes handed to the sink, in order
    sinkLen,          \* chunks waiting in the sink channel
    consumerAlive,    \* the consumer has not dropped the sink's receiver
    status            \* "running", or what parallel_decode_member returned

inputVars  == <<fault, config, boundaries>>
capVars    == <<inFlight, capShutdown>>
dVars      == <<dPc, dNext>>
wVars      == <<wPc, wHold>>
aVars      == <<aPc, aReorder, aNext, expectedStart, prevTail, specFailures, chain>>
rVars      == <<rPc, rHold>>
oVars      == <<oPc, oReorder, oNext, curMember, verdict>>
sinkVars   == <<delivered, sinkLen, consumerAlive>>
vars == <<inputVars, capVars, work, result, resolve, done, dVars, wVars, aVars,
          rVars, oVars, sinkVars, status>>

-----------------------------------------------------------------------------
(* Chunks.  Chunk i (from 1) is the work item that starts at boundaries[i]. *)

NumChunks == Len(boundaries)
Hint(i) == IF i < NumChunks THEN boundaries[i + 1] ELSE NoHint

\* Distance between the targets of the boundary scan, and in-flight chunks per
\* worker (0 disables the cap).
ChunkBits == config.chunkBits
InflightFactor == config.inflightFactor

\* The scan: the first candidate at or after every target, without repeats.
\* Candidates are what the block finder believes in; it may miss true blocks
\* and accept false ones.
Targets == {t \in 1 .. EndOfInput - 1 : \E n \in 1 .. t : t = n * ChunkBits}
FoundFrom(candidates, t) == {c \in candidates : c >= t}
ScanFound(candidates) ==
    {0} \cup {Min(FoundFrom(candidates, t)) :
                 t \in {u \in Targets : FoundFrom(candidates, u) # {}}}
ScanBoundaries(candidates) ==
    LET found == ScanFound(candidates) IN
    {b \in [1 .. Cardinality(found) -> found] :
        \A i, j \in DOMAIN b : i < j => b[i] < b[j]}

NumThreads == Cardinality(Workers)
CapEnabled == InflightFactor > 0
InflightMax == IF NumThreads * InflightFactor > InflightFloor
               THEN NumThreads * InflightFactor ELSE InflightFloor

-----------------------------------------------------------------------------
(* Messages. *)

Outcome == [id : Nat, res : DecodeResult]
NoOutcome == [id |-> 0, res |-> DecodeError]

Job == [id : Nat, first : Value \cup {NumBlocks}, next : Value \cup {NumBlocks},
        final : BOOLEAN, tail : Seq(Value)]

DoneMsg == [err : FaultKind \cup {"none", "worker channel closed"}, id : Nat,
            first : Value \cup {NumBlocks}, next : Value \cup {NumBlocks},
            final : BOOLEAN, bytes : Seq(Value)]
DoneError(kind) == [err |-> kind, id |-> 0, first |-> 0, next |-> 0,
                    final |-> FALSE, bytes |-> <<>>]
NoDone == DoneError("none")

\* What the output stage may leave its loop with.
Verdict == FaultKind \cup {"ok", "closed", "no final block",
                           "worker channel closed", "resolve channel closed"}

\* Faulty variants: the calling thread keeps a clone of work_rx; the output
\* stage leaves its loop but keeps done_rx.
WorkRxKept         == TRUE
DoneRxNeverDropped == oPc # "returned"

\* Channel ends that are still held.
WorkRxAlive    == \E w \in Workers : wPc[w] # "exited"
ResultTxAlive  == \E w \in Workers : wPc[w] # "exited"
ResultRxAlive  == aPc # "exited"
ResolveRxAlive == \E r \in Resolvers : rPc[r] # "exited"
DoneTxAlive    == aPc # "exited" \/ \E r \in Resolvers : rPc[r] # "exited"
DoneRxAlive    == oPc \in {"run", "drop"}

HasRoom(ch) == Len(ch) < ChannelBound

-----------------------------------------------------------------------------
Init ==
    /\ fault \in InputFaults /\ config \in Configs[fault]
    /\ boundaries \in UNION {ScanBoundaries(c) : c \in config.finds}
    /\ inFlight = 0 /\ capShutdown = FALSE
    /\ work = <<>> /\ result = <<>> /\ resolve = <<>> /\ done = <<>>
    /\ dPc = "acquire" /\ dNext = 1
    /\ wPc = [w \in Workers |-> "recv"]
    /\ wHold = [w \in Workers |-> NoOutcome]
    /\ aPc = "run" /\ aReorder = {} /\ aNext = 1
    /\ expectedStart = 0 /\ prevTail = <<>> /\ specFailures = 0
    /\ chain = <<0>>
    /\ rPc = [r \in Resolvers |-> "recv"]
    /\ rHold = [r \in Resolvers |-> NoDone]
    /\ oPc = "run" /\ oReorder = {} /\ oNext = 1
    /\ curMember = <<>> /\ verdict = "none"
    /\ delivered = <<>> /\ sinkLen = 0 /\ consumerAlive = TRUE
    /\ status = "running"

-----------------------------------------------------------------------------
(* Dispatch thread. *)

\* Faulty variants: one slot too many; one item too many.
SlotFreeOffByOne == inFlight <= InflightMax
MoreItemsOffByOne == dNext <= NumChunks

SlotFree == inFlight < InflightMax
MoreItems == dNext < NumChunks

\* InflightCap::acquire, as one atomic step (InflightCap.tla has the lock and
\* the condition variable); without a cap there is nothing to acquire.
AcquireSlot ==
    /\ dPc = "acquire" /\ ~(CapEnabled /\ capShutdown)
    /\ IF CapEnabled
       THEN SlotFree /\ inFlight' = inFlight + 1
       ELSE UNCHANGED inFlight
    /\ dPc' = "send"
    /\ UNCHANGED <<inputVars, capShutdown, work, result, resolve, done, dNext,
                   wVars, aVars, rVars, oVars, sinkVars, status>>

\* The cap was shut down while dispatch waited or was about to.
AcquireShutdown ==
    /\ dPc = "acquire" /\ CapEnabled /\ capShutdown
    /\ dPc' = "exited"
    /\ UNCHANGED <<inputVars, capVars, work, result, resolve, done, dNext,
                   wVars, aVars, rVars, oVars, sinkVars, status>>

DispatchSend ==
    /\ dPc = "send" /\ WorkRxAlive /\ HasRoom(work)
    /\ work' = Append(work, dNext)
    /\ dNext' = dNext + 1
    /\ dPc' = IF MoreItems THEN "acquire" ELSE "exited"
    /\ UNCHANGED <<inputVars, capVars, result, resolve, done,
                   wVars, aVars, rVars, oVars, sinkVars, status>>

DispatchSendFails ==
    /\ dPc = "send" /\ ~WorkRxAlive
    /\ dPc' = "exited"
    /\ UNCHANGED <<inputVars, capVars, work, result, resolve, done, dNext,
                   wVars, aVars, rVars, oVars, sinkVars, status>>

Dispatch == AcquireSlot \/ AcquireShutdown \/ DispatchSend \/ DispatchSendFails

-----------------------------------------------------------------------------
(* Decode pool. *)

WorkerRecv(w) ==
    /\ wPc[w] = "recv" /\ work # <<>>
    /\ LET i == Head(work) IN
       \E r \in DecodeOneChunk(boundaries[i], Hint(i)) :
          wHold' = [wHold EXCEPT ![w] = [id |-> i, res |-> r]]
    /\ work' = Tail(work)
    /\ wPc' = [wPc EXCEPT ![w] = "send"]
    /\ UNCHANGED <<inputVars, capVars, result, resolve, done,
                   dVars, aVars, rVars, oVars, sinkVars, status>>

WorkerSend(w) ==
    /\ wPc[w] = "send" /\ ResultRxAlive /\ HasRoom(result)
    /\ result' = Append(result, wHold[w])
    /\ wHold' = [wHold EXCEPT ![w] = NoOutcome]
    /\ wPc' = [wPc EXCEPT ![w] = "recv"]
    /\ UNCHANGED <<inputVars, capVars, work, resolve, done,
                   dVars, aVars, rVars, oVars, sinkVars, status>>

\* The work channel is drained and dispatch is gone, or stage A is gone.
WorkerExit(w) ==
    /\ \/ wPc[w] = "recv" /\ work = <<>> /\ dPc = "exited"
       \/ wPc[w] = "send" /\ ~ResultRxAlive
    /\ wPc' = [wPc EXCEPT ![w] = "exited"]
    /\ wHold' = [wHold EXCEPT ![w] = NoOutcome]
    /\ UNCHANGED <<inputVars, capVars, work, result, resolve, done,
                   dVars, aVars, rVars, oVars, sinkVars, status>>

Worker(w) == WorkerRecv(w) \/ WorkerSend(w) \/ WorkerExit(w)

-----------------------------------------------------------------------------
(* Stage A: the anchored chain. *)

\* Faulty variants: chunks taken as they come; no check of the start.
AReadyAnyOrder(o) == o \in aReorder
AnchoredAnywhere(o) == o.res.ok

AReady(o) == o \in aReorder /\ o.id = aNext

\* Accept the speculative result only if it decoded and started where the
\* chain expects; otherwise decode again from there.
Anchored(o) == o.res.ok /\ boundaries[o.id] = expectedStart
ChainResults(o) ==
    IF Anchored(o) THEN {o.res} ELSE DecodeOneChunk(expectedStart, Hint(o.id))

\* Result r of chunk o goes to the resolve pool with the tail before it; the
\* thread returns after the last block of the last member or the last chunk,
\* or when the pool is gone.
Forward(o, r) ==
    /\ specFailures' = IF Anchored(o) THEN specFailures ELSE specFailures + 1
    /\ aReorder' = aReorder \ {o}
    /\ expectedStart' = r.end
    /\ prevTail' = NextTail(r.first, r.next, prevTail)
    /\ IF ResolveRxAlive
       THEN /\ resolve' = Append(resolve, [id |-> o.id, first |-> r.first,
                  next |-> r.next, final |-> r.final, tail |-> prevTail])
            /\ aNext' = aNext + 1
            /\ chain' = Append(chain, r.next)
            /\ aPc' = IF r.final \/ aNext = NumChunks THEN "exited" ELSE "run"
       ELSE aPc' = "exited" /\ UNCHANGED <<resolve, aNext, chain>>

\* The next chunk of the chain, accepted or decoded again, moves on.
StageAForward ==
    /\ aPc = "run"
    /\ ResolveRxAlive => HasRoom(resolve)
    /\ \E o \in aReorder :
          AReady(o) /\ \E r \in ChainResults(o) : r.ok /\ Forward(o, r)
    /\ UNCHANGED <<inputVars, capVars, work, result, done,
                   dVars, wVars, rVars, oVars, sinkVars, status>>

\* Decoding again from the true offset failed: the error is genuine and goes
\* straight to the output stage.
StageAFail ==
    /\ aPc = "run"
    /\ DoneRxAlive => HasRoom(done)
    /\ \E o \in aReorder : AReady(o) /\ \E r \in ChainResults(o) : ~r.ok
    /\ specFailures' = specFailures + 1
    /\ done' = IF DoneRxAlive THEN Append(done, DoneError("decode")) ELSE done
    /\ aPc' = "exited"
    /\ UNCHANGED <<inputVars, capVars, work, result, resolve, aReorder, aNext,
                   expectedStart, prevTail, chain, dVars, wVars, rVars, oVars, sinkVars, status>>

StageARecv ==
    /\ aPc = "run" /\ ~\E o \in aReorder : AReady(o)
    /\ result # <<>>
    /\ aReorder' = aReorder \cup {Head(result)}
    /\ result' = Tail(result)
    /\ UNCHANGED <<inputVars, capVars, work, resolve, done, aPc, aNext, expectedStart,
                   prevTail, specFailures, chain, dVars, wVars, rVars, oVars, sinkVars, status>>

\* All workers are gone before the chain is complete.
StageAWorkersGone ==
    /\ aPc = "run" /\ ~\E o \in aReorder : AReady(o)
    /\ result = <<>> /\ ~ResultTxAlive
    /\ DoneRxAlive => HasRoom(done)
    /\ done' = IF DoneRxAlive THEN Append(done, DoneError("worker channel closed")) ELSE done
    /\ aPc' = "exited"
    /\ UNCHANGED <<inputVars, capVars, work, result, resolve, aReorder, aNext, expectedStart,
                   prevTail, specFailures, chain, dVars, wVars, rVars, oVars, sinkVars, status>>

StageA == StageAForward \/ StageAFail \/ StageARecv \/ StageAWorkersGone

-----------------------------------------------------------------------------
(* Resolve pool. *)

Resolved(job) ==
    IF Unresolvable(job.first, job.next)
    THEN DoneError("resolve")
    ELSE [err |-> "none", id |-> job.id, first |-> job.first, next |-> job.next,
          final |-> job.final, bytes |-> ResolvedBytes(job.first, job.next, job.tail)]

ResolverRecv(r) ==
    /\ rPc[r] = "recv" /\ resolve # <<>>
    /\ rHold' = [rHold EXCEPT ![r] = Resolved(Head(resolve))]
    /\ resolve' = Tail(resolve)
    /\ rPc' = [rPc EXCEPT ![r] = "send"]
    /\ UNCHANGED <<inputVars, capVars, work, result, done,
                   dVars, wVars, aVars, oVars, sinkVars, status>>

ResolverSend(r) ==
    /\ rPc[r] = "send" /\ DoneRxAlive /\ HasRoom(done)
    /\ done' = Append(done, rHold[r])
    /\ rHold' = [rHold EXCEPT ![r] = NoDone]
    /\ rPc' = [rPc EXCEPT ![r] = "recv"]
    /\ UNCHANGED <<inputVars, capVars, work, result, resolve,
                   dVars, wVars, aVars, oVars, sinkVars, status>>

ResolverExit(r) ==
    /\ \/ rPc[r] = "recv" /\ resolve = <<>> /\ aPc = "exited"
       \/ rPc[r] = "send" /\ ~DoneRxAlive
    /\ rPc' = [rPc EXCEPT ![r] = "exited"]
    /\ rHold' = [rHold EXCEPT ![r] = NoDone]
    /\ UNCHANGED <<inputVars, capVars, work, result, resolve, done,
                   dVars, wVars, aVars, oVars, sinkVars, status>>

Resolver(r) == ResolverRecv(r) \/ ResolverSend(r) \/ ResolverExit(r)

-----------------------------------------------------------------------------
(* Output stage: the thread that called parallel_decode_member. *)

OReady(d) == d \in oReorder /\ d.id = oNext
InOrder(d) == ChunkVerdict(d.first, d.next, d.bytes, curMember)

\* Leave the output loop with a verdict and start the teardown.
Break(v) == oPc' = "drop" /\ verdict' = v

\* A trailer that ends in this chunk is wrong: the chunk is not sent and its
\* slot is not released.
OutputMismatch ==
    /\ oPc = "run"
    /\ \E d \in oReorder :
          /\ OReady(d) /\ InOrder(d) # "none"
          /\ Break(InOrder(d))
          /\ oReorder' = oReorder \ {d}
    /\ UNCHANGED <<inputVars, capVars, work, result, resolve, done, oNext, curMember,
                   dVars, wVars, aVars, rVars, sinkVars, status>>

\* InflightCap::release.  Faulty variant: the slot is never given back.
SlotLeaked == inFlight
SlotReleased == IF CapEnabled /\ inFlight > 0 THEN inFlight - 1 ELSE inFlight

\* The chunk's trailers are right: send it, and release its slot whether or
\* not the sink took it.
OutputSend ==
    /\ oPc = "run"
    /\ consumerAlive => sinkLen < SinkCapacity
    /\ \E d \in oReorder :
          /\ OReady(d) /\ InOrder(d) = "none"
          /\ curMember' = CarriedBytes(d.first, d.next, d.bytes, curMember)
          /\ oReorder' = oReorder \ {d}
          /\ IF consumerAlive
             THEN /\ delivered' = delivered \o d.bytes
                  /\ sinkLen' = sinkLen + 1
                  /\ oNext' = oNext + 1
                  /\ IF d.final THEN Break("ok")
                     ELSE IF oNext = NumChunks THEN Break("no final block")
                     ELSE UNCHANGED <<oPc, verdict>>
             ELSE /\ Break("closed")
                  /\ UNCHANGED <<delivered, sinkLen, oNext>>
    /\ inFlight' = SlotReleased
    /\ UNCHANGED <<inputVars, capShutdown, work, result, resolve, done,
                   dVars, wVars, aVars, rVars, consumerAlive, status>>

\* Receive the next message of the pool, or find that the pool is gone.
OutputRecv ==
    /\ oPc = "run" /\ ~\E d \in oReorder : OReady(d)
    /\ DoneTxAlive => done # <<>>
    /\ IF done = <<>>
       THEN Break("resolve channel closed") /\ UNCHANGED <<done, oReorder>>
       ELSE /\ done' = Tail(done)
            /\ IF Head(done).err = "none"
               THEN oReorder' = oReorder \cup {Head(done)} /\ UNCHANGED <<oPc, verdict>>
               ELSE Break(Head(done).err) /\ UNCHANGED oReorder
    /\ UNCHANGED <<inputVars, capVars, work, result, resolve, oNext, curMember,
                   dVars, wVars, aVars, rVars, sinkVars, status>>

\* drop(done_rx): unblocks the pool if the loop was left early.
DropDoneRx ==
    /\ oPc = "drop" /\ oPc' = "shutdown"
    /\ UNCHANGED <<inputVars, capVars, work, result, resolve, done, oReorder, oNext, curMember,
                   verdict, dVars, wVars, aVars, rVars, sinkVars, status>>

\* cap.shutdown(): wakes a dispatcher parked in acquire.
ShutdownCap ==
    /\ oPc = "shutdown" /\ oPc' = "join"
    /\ capShutdown' = CapEnabled
    /\ UNCHANGED <<inputVars, inFlight, work, result, resolve, done, oReorder, oNext, curMember,
                   verdict, dVars, wVars, aVars, rVars, sinkVars, status>>

AllExited ==
    /\ dPc = "exited" /\ aPc = "exited"
    /\ \A w \in Workers : wPc[w] = "exited"
    /\ \A r \in Resolvers : rPc[r] = "exited"

\* The joins wait for every thread; then the verdict is returned.
JoinAndReturn ==
    /\ oPc = "join" /\ AllExited
    /\ oPc' = "returned"
    /\ status' = verdict
    /\ UNCHANGED <<inputVars, capVars, work, result, resolve, done, oReorder, oNext, curMember,
                   verdict, dVars, wVars, aVars, rVars, sinkVars>>

Output == OutputMismatch \/ OutputSend \/ OutputRecv
          \/ DropDoneRx \/ ShutdownCap \/ JoinAndReturn

-----------------------------------------------------------------------------
(* The consumer of the sink (the caller's code). *)

ConsumerRecv ==
    /\ consumerAlive /\ sinkLen > 0
    /\ sinkLen' = sinkLen - 1
    /\ UNCHANGED <<inputVars, capVars, work, result, resolve, done, dVars, wVars, aVars,
                   rVars, oVars, delivered, consumerAlive, status>>

ConsumerHangsUp ==
    /\ consumerAlive /\ status = "running"
    /\ consumerAlive' = FALSE
    /\ UNCHANGED <<inputVars, capVars, work, result, resolve, done, dVars, wVars, aVars,
                   rVars, oVars, delivered, sinkLen, status>>

\* Nothing is left to do once the decode has returned.
Returned == oPc = "returned" /\ UNCHANGED vars

Next ==
    \/ Dispatch
    \/ \E w \in Workers : Worker(w)
    \/ StageA
    \/ \E r \in Resolvers : Resolver(r)
    \/ Output
    \/ ConsumerRecv
    \/ ConsumerHangsUp
    \/ Returned

Spec == Init /\ [][Next]_vars

\* Every thread runs until it blocks, and the consumer keeps receiving until
\* it hangs up; it need never hang up.
Fairness ==
    /\ WF_vars(Dispatch)
    /\ \A w \in Workers : WF_vars(Worker(w))
    /\ WF_vars(StageA)
    /\ \A r \in Resolvers : WF_vars(Resolver(r))
    /\ WF_vars(Output)
    /\ WF_vars(ConsumerRecv)

FairSpec == Spec /\ Fairness

-----------------------------------------------------------------------------
(* Properties. *)

\* Ids of the chunks between dispatch and stage A, and between stage A and
\* the sink.
IdsIn(ch) == {ch[i].id : i \in DOMAIN ch}
BeforeStageA ==
    {work[i] : i \in DOMAIN work} \cup {wHold[w].id : w \in Workers}
    \cup IdsIn(result) \cup {o.id : o \in aReorder}
AfterStageA ==
    IdsIn(resolve) \cup {rHold[r].id : r \in Resolvers}
    \cup IdsIn(done) \cup {d.id : d \in oReorder}
Outstanding == (BeforeStageA \cup AfterStageA) \ {0}

InputType ==
    /\ fault \in InputFaults /\ config \in Configs[fault]
    /\ boundaries \in Seq(Position) /\ NumChunks > 0
ChannelType ==
    /\ work \in Seq(1 .. NumChunks) /\ result \in Seq(Outcome)
    /\ resolve \in Seq(Job) /\ done \in Seq(DoneMsg)
DispatchType ==
    /\ inFlight \in Nat /\ capShutdown \in BOOLEAN
    /\ dPc \in {"acquire", "send", "exited"} /\ dNext \in 1 .. NumChunks + 1
    /\ dPc # "exited" => dNext <= NumChunks
WorkerType ==
    /\ wPc \in [Workers -> {"recv", "send", "exited"}]
    /\ wHold \in [Workers -> Outcome]
StageAType ==
    /\ aPc \in {"run", "exited"} /\ aReorder \in SUBSET Outcome
    /\ aNext \in 1 .. NumChunks + 1 /\ (aPc = "run" => aNext <= NumChunks)
    /\ expectedStart \in Position /\ prevTail \in Seq(Value)
    /\ specFailures \in Nat /\ chain \in Seq(Value \cup {NumBlocks})
ResolverType ==
    /\ rPc \in [Resolvers -> {"recv", "send", "exited"}]
    /\ rHold \in [Resolvers -> DoneMsg]
OutputType ==
    /\ oPc \in {"run", "drop", "shutdown", "join", "returned"}
    /\ oReorder \in SUBSET DoneMsg
    /\ oNext \in 1 .. NumChunks + 1 /\ (oPc = "run" => oNext <= NumChunks)
    /\ curMember \in Seq(Value) /\ verdict \in Verdict \cup {"none"}
    /\ status \in Verdict \cup {"running", "none"}
SinkType ==
    /\ delivered \in Seq(Value) /\ sinkLen \in 0 .. SinkCapacity
    /\ consumerAlive \in BOOLEAN

\* Every variable has the values the code can give it, and a thread that
\* still runs has a chunk left to handle.
TypeOK == /\ InputType /\ ChannelType /\ DispatchType /\ WorkerType /\ StageAType
          /\ ResolverType /\ OutputType /\ SinkType

\* The output is the true output, in order and without gaps or repeats, and
\* stops before the first damaged block, whatever boundaries the scan guessed
\* and in whatever order the chunks were decoded and resolved.
DeliveredIsTrueOutput ==
    /\ delivered = Bytes(0, Len(delivered))
    /\ \A k \in Blocks : k < Len(delivered) => fault[k] = "none"

\* Ok is returned only when the whole input was delivered and nothing in it
\* is damaged.
OkMeansComplete == status = "ok" => delivered = TrueOutput /\ Healthy

\* The in-flight cap: the chunks held anywhere between dispatch and the sink
\* (channels, threads and both reorder maps) never exceed the cap.
InflightBounded ==
    CapEnabled => /\ Cardinality(Outstanding) <= inFlight
                  /\ inFlight <= InflightMax

\* No chunk is lost or handled twice on a healthy input: until the last one
\* is on its way, every chunk that was dispatched and not yet delivered is in
\* the pipeline, on the right side of stage A.
NoChunkLost ==
    (oPc = "run" /\ Healthy) =>
        /\ AfterStageA \ {0} = oNext .. aNext - 1
        /\ aPc = "run" => BeforeStageA \ {0} = aNext .. dNext - 1

\* Chunks are decoded again only because a boundary was false or the input
\* is damaged.
RedecodeHasCause ==
    specFailures > 0 =>
        \/ ~Healthy
        \/ \E i \in 1 .. NumChunks : boundaries[i] \in FalseStarts

-----------------------------------------------------------------------------
(* Why the output is right: the invariant of the anchored chain. *)

\* Chunk id, as stage A cut it, covers the blocks first .. next-1 of the chain.
OnChain(id, first, next, final) ==
    /\ id \in 1 .. aNext - 1
    /\ first = chain[id] /\ next = chain[id + 1]
    /\ \A k \in first .. next - 1 : fault[k] # "decode"
    /\ final = (first < next /\ next = NumBlocks)

\* A message of the resolve pool that carries a chunk carries its true bytes.
TrueChunk(d) ==
    (d.err = "none" /\ d.id # 0) =>
        /\ OnChain(d.id, d.first, d.next, d.final)
        /\ d.bytes = Bytes(d.first, d.next)
        /\ \A k \in d.first .. d.next - 1 : fault[k] # "resolve"

\* An outcome is one a worker could have obtained for its own chunk.
OwnChunk(o) == o.id # 0 =>
    o.id \in 1 .. NumChunks /\ o.res \in DecodeOneChunk(boundaries[o.id], Hint(o.id))

ChainGrows ==
    /\ Len(chain) = aNext /\ chain[1] = 0
    /\ \A i \in 1 .. aNext : chain[i] \in 0 .. NumBlocks
    /\ \A i \in 1 .. aNext - 1 : chain[i] <= chain[i + 1]
ChainAnchored ==
    aPc = "run" => /\ expectedStart = Bit(chain[aNext])
                   /\ prevTail = WindowAt(chain[aNext])
OutcomesOwn ==
    /\ \A w \in Workers : OwnChunk(wHold[w])
    /\ \A i \in DOMAIN result : OwnChunk(result[i])
    /\ \A o \in aReorder : OwnChunk(o)
JobsOnChain ==
    \A i \in DOMAIN resolve :
        /\ OnChain(resolve[i].id, resolve[i].first, resolve[i].next, resolve[i].final)
        /\ resolve[i].tail = WindowAt(resolve[i].first)
ChunksTrue ==
    /\ \A r \in Resolvers : TrueChunk(rHold[r])
    /\ \A i \in DOMAIN done : TrueChunk(done[i])
    /\ \A d \in oReorder : d.err = "none" /\ TrueChunk(d)
OutputFollowsChain ==
    /\ oNext <= aNext
    /\ delivered = Bytes(0, chain[oNext])
    /\ \A k \in 0 .. chain[oNext] - 1 : fault[k] = "none"
VerdictHolds ==
    /\ oPc = "run" => verdict = "none"
    /\ verdict = "ok" => delivered = TrueOutput /\ Healthy
    /\ status = IF oPc = "returned" THEN verdict ELSE "running"

\* Every chunk past stage A starts at the true end of its predecessor, the
\* window kept there is the true one, whatever the workers guessed, and what
\* the output stage delivered is a prefix of that chain.
ChainInvariant ==
    /\ ChainGrows /\ ChainAnchored /\ OutcomesOwn /\ JobsOnChain /\ ChunksTrue
    /\ OutputFollowsChain /\ VerdictHolds

\* The decode always comes to an end, with every thread joined, whatever the
\* input, the boundaries and the consumer do.
Terminates == <>(status # "running")

\* A healthy input whose consumer stays is decoded to the end.
HealthySucceeds == (Healthy /\ []consumerAlive) => <>(status = "ok")

\* The pipeline keeps the promise of OrderedDecode.
Promise == INSTANCE OrderedDecode
KeepsPromise == Promise!Spec
=============================================================================
