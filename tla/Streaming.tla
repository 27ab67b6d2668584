------------------------------ MODULE Streaming -----------------------------
(***************************************************************************)
(* read_gz_streaming_parallel: the parallel decoder for pipes.             *)
(*                                                                         *)
(*   dispatcher --work--> workers --result--> stage A --resolve--> resolve *)
(*   pool --done--> output (the calling thread) --sink--> consumer         *)
(*                                                                         *)
(* The stages are those of Pipeline with three differences.  The           *)
(* dispatcher reads the pipe forward and cuts a slice at the next block    *)
(* boundary it believes in.  A worker sees only its slice, and stage A     *)
(* forwards a failed slice at once; nobody compares the start of a slice   *)
(* with the end of the one before it.  And the in-flight cap is a channel  *)
(* of tokens that the output stage refills.                                *)
(***************************************************************************)
EXTENDS ChunkDecode

CONSTANTS
    Workers, Resolvers,
    ChunkBits,        \* least distance from the start of a slice to its end
    Believable,       \* positions the block finder may take for a block start
    WorkBound,        \* bound of the work channel (num_threads in the code)
    ChannelBound,     \* bound of the other channels (2 * num_threads)
    InflightCap,      \* number of tokens (max(2 * num_threads, 16))
    SinkCapacity,
    ReadsMayFail      \* whether the pipe may return an I/O error

ASSUME StreamingAssumption ==
    /\ IsFiniteSet(Workers) /\ Cardinality(Workers) >= 2
    /\ IsFiniteSet(Resolvers) /\ Resolvers # {}
    /\ ChunkBits \in Nat \ {0} /\ Believable \subseteq 1 .. EndOfInput - 1
    /\ WorkBound \in Nat \ {0} /\ ChannelBound \in Nat \ {0}
    /\ InflightCap \in Nat \ {0} /\ SinkCapacity \in Nat \ {0}
    /\ ReadsMayFail \in BOOLEAN

VARIABLES
    candidates,       \* positions the block finder believes in on this input
    tokens,           \* tokens in the token channel
    abort,            \* the flag the dispatcher looks at between slices
    work, result, resolve, done,
    dPc, item, dRes,  \* dispatcher, the slice it cuts, what it returned
    wPc, wHold,       \* workers
    aPc, aReorder, aNext, prevTail,               \* stage A
    rPc, rHold,       \* resolvers
    oPc, oReorder, oNext, curMember, outErr,      \* output stage
    delivered, sinkLen, consumerAlive,
    status            \* "running", or what read_gz_streaming_parallel returned

inputVars == <<fault, candidates>>
dVars     == <<dPc, item, dRes>>
wVars     == <<wPc, wHold>>
aVars     == <<aPc, aReorder, aNext, prevTail>>
rVars     == <<rPc, rHold>>
oVars     == <<oPc, oReorder, oNext, curMember, outErr>>
sinkVars  == <<delivered, sinkLen, consumerAlive>>
vars == <<inputVars, tokens, abort, work, result, resolve, done, dVars, wVars,
          aVars, rVars, oVars, sinkVars, status>>

NoOutcome == [id |-> 0, res |-> DecodeError]
DoneError(kind) == [err |-> kind, id |-> 0, first |-> 0, next |-> 0,
                    final |-> FALSE, bytes |-> <<>>]
NoDone == DoneError("none")

Init ==
    /\ fault \in InputFaults
    /\ candidates \in SUBSET Believable
    /\ tokens = InflightCap /\ abort = FALSE
    /\ work = <<>> /\ result = <<>> /\ resolve = <<>> /\ done = <<>>
    /\ dPc = "read" /\ item = [id |-> 1, start |-> 0, hint |-> NoHint] /\ dRes = "none"
    /\ wPc = [w \in Workers |-> "recv"] /\ wHold = [w \in Workers |-> NoOutcome]
    /\ aPc = "run" /\ aReorder = {} /\ aNext = 1 /\ prevTail = <<>>
    /\ rPc = [r \in Resolvers |-> "recv"] /\ rHold = [r \in Resolvers |-> NoDone]
    /\ oPc = "run" /\ oReorder = {} /\ oNext = 1 /\ curMember = <<>> /\ outErr = "none"
    /\ delivered = <<>> /\ sinkLen = 0 /\ consumerAlive = TRUE
    /\ status = "running"

\* Faulty variant: the output stage tears down without dropping token_tx.
TokenTxKept == TRUE

\* Channel ends that are still held.
WorkRxAlive    == \E w \in Workers : wPc[w] # "exited"
ResultRxAlive  == aPc # "exited"
ResolveRxAlive == \E r \in Resolvers : rPc[r] # "exited"
DoneTxAlive    == aPc # "exited" \/ \E r \in Resolvers : rPc[r] # "exited"
DoneRxAlive    == oPc # "join" /\ oPc # "returned"
TokenTxAlive   == oPc \in {"run", "abort", "dropTokens"}

-----------------------------------------------------------------------------
(* Dispatcher. *)

DispatcherExits(res) == dPc' = "exited" /\ dRes' = res

\* The end of the slice: the first believed boundary far enough on.
NextBoundary(start) ==
    LET found == {c \in candidates : c >= start + ChunkBits} IN
    IF found = {} THEN NoHint ELSE Min(found)

\* The top of the loop: stop if told to, or read until the end of the next
\* slice is resident.
DispatchRead ==
    /\ dPc = "read"
    /\ IF abort
       THEN DispatcherExits("ok") /\ UNCHANGED item
       ELSE /\ item' = [item EXCEPT !.hint = NextBoundary(item.start)]
            /\ dPc' = "token" /\ UNCHANGED dRes
    /\ UNCHANGED <<inputVars, tokens, abort, work, result, resolve, done, wVars, aVars, rVars,
                   oVars, sinkVars, status>>

\* The pipe returns an I/O error, or what it starts with is no gzip header.
DispatchReadFails ==
    /\ dPc = "read" /\ ~abort /\ ReadsMayFail
    /\ DispatcherExits("io") /\ UNCHANGED item
    /\ UNCHANGED <<inputVars, tokens, abort, work, result, resolve, done, wVars, aVars, rVars,
                   oVars, sinkVars, status>>

\* Faulty variant: the slice is cut without taking a token.
DispatchTokenFree ==
    /\ dPc = "token" /\ dPc' = "send"
    /\ UNCHANGED <<inputVars, tokens, abort, work, result, resolve, done, item, dRes, wVars,
                   aVars, rVars, oVars, sinkVars, status>>

\* Take a token; one that was left in the channel is received even after the
\* output stage dropped its end.
DispatchToken ==
    /\ dPc = "token" /\ tokens > 0
    /\ tokens' = tokens - 1
    /\ dPc' = "send"
    /\ UNCHANGED <<inputVars, abort, work, result, resolve, done, item, dRes, wVars, aVars,
                   rVars, oVars, sinkVars, status>>

DispatchTokensGone ==
    /\ dPc = "token" /\ tokens = 0 /\ ~TokenTxAlive
    /\ DispatcherExits("ok") /\ UNCHANGED item
    /\ UNCHANGED <<inputVars, tokens, abort, work, result, resolve, done, wVars, aVars, rVars,
                   oVars, sinkVars, status>>

\* Send the slice; the one that runs to the end of the pipe is the last.
DispatchSend ==
    /\ dPc = "send" /\ WorkRxAlive /\ Len(work) < WorkBound
    /\ work' = Append(work, item)
    /\ IF item.hint = NoHint
       THEN DispatcherExits("ok") /\ UNCHANGED item
       ELSE /\ item' = [id |-> item.id + 1, start |-> item.hint, hint |-> NoHint]
            /\ dPc' = "read" /\ UNCHANGED dRes
    /\ UNCHANGED <<inputVars, tokens, abort, result, resolve, done, wVars, aVars, rVars,
                   oVars, sinkVars, status>>

DispatchSendFails ==
    /\ dPc = "send" /\ ~WorkRxAlive
    /\ DispatcherExits("workers gone") /\ UNCHANGED item
    /\ UNCHANGED <<inputVars, tokens, abort, work, result, resolve, done, wVars, aVars, rVars,
                   oVars, sinkVars, status>>

Dispatch == DispatchRead \/ DispatchReadFails \/ DispatchToken \/ DispatchTokensGone
            \/ DispatchSend \/ DispatchSendFails

-----------------------------------------------------------------------------
(* Decode pool. *)

\* decode_item: decode_one_chunk on the slice alone.  Only the last slice can
\* show the end of the input, and a slice cut inside a block ends a few bytes
\* past the cut, so that its last block need not fit.
DecodeItem(start, hint) ==
    {[r EXCEPT !.final = r.final /\ hint = NoHint] : r \in DecodeOneChunk(start, hint)}
    \cup (IF hint \in FalseStarts THEN {DecodeError} ELSE {})

WorkerRecv(w) ==
    /\ wPc[w] = "recv" /\ work # <<>>
    /\ \E r \in DecodeItem(Head(work).start, Head(work).hint) :
          wHold' = [wHold EXCEPT ![w] = [id |-> Head(work).id, res |-> r]]
    /\ work' = Tail(work)
    /\ wPc' = [wPc EXCEPT ![w] = "send"]
    /\ UNCHANGED <<inputVars, tokens, abort, result, resolve, done, dVars, aVars, rVars,
                   oVars, sinkVars, status>>

WorkerSend(w) ==
    /\ wPc[w] = "send" /\ ResultRxAlive /\ Len(result) < ChannelBound
    /\ result' = Append(result, wHold[w])
    /\ wHold' = [wHold EXCEPT ![w] = NoOutcome]
    /\ wPc' = [wPc EXCEPT ![w] = "recv"]
    /\ UNCHANGED <<inputVars, tokens, abort, work, resolve, done, dVars, aVars, rVars,
                   oVars, sinkVars, status>>

WorkerExit(w) ==
    /\ \/ wPc[w] = "recv" /\ work = <<>> /\ dPc = "exited"
       \/ wPc[w] = "send" /\ ~ResultRxAlive
    /\ wPc' = [wPc EXCEPT ![w] = "exited"]
    /\ wHold' = [wHold EXCEPT ![w] = NoOutcome]
    /\ UNCHANGED <<inputVars, tokens, abort, work, result, resolve, done, dVars, aVars, rVars,
                   oVars, sinkVars, status>>

Worker(w) == WorkerRecv(w) \/ WorkerSend(w) \/ WorkerExit(w)

-----------------------------------------------------------------------------
(* Stage A: order and windows, without a check of the starts. *)

AReady(o) == o \in aReorder /\ o.id = aNext

StageAForward ==
    /\ aPc = "run"
    /\ ResolveRxAlive => Len(resolve) < ChannelBound
    /\ \E o \in aReorder :
          /\ AReady(o)
          /\ aReorder' = aReorder \ {o}
          /\ prevTail' = NextTail(o.res.first, o.res.next, prevTail)
          /\ IF ResolveRxAlive
             THEN resolve' = Append(resolve, [id |-> o.id, first |-> o.res.first,
                      next |-> o.res.next, final |-> o.res.final, tail |-> prevTail])
             ELSE UNCHANGED resolve
          /\ IF ResolveRxAlive /\ ~o.res.final
             THEN aNext' = aNext + 1 /\ UNCHANGED aPc
             ELSE aPc' = "exited" /\ UNCHANGED aNext
    /\ UNCHANGED <<inputVars, tokens, abort, work, result, done, dVars, wVars, rVars,
                   oVars, sinkVars, status>>

StageARecv ==
    /\ aPc = "run" /\ ~\E o \in aReorder : AReady(o)
    /\ result # <<>>
    /\ result' = Tail(result)
    /\ IF Head(result).res.ok
       THEN aReorder' = aReorder \cup {Head(result)} /\ UNCHANGED aPc
       ELSE aPc' = "fail" /\ UNCHANGED aReorder
    /\ UNCHANGED <<inputVars, tokens, abort, work, resolve, done, aNext, prevTail, dVars, wVars,
                   rVars, oVars, sinkVars, status>>

\* A slice that did not decode goes straight to the output stage, whatever
\* its place in the order.
StageAFail ==
    /\ aPc = "fail" /\ aPc' = "exited"
    /\ DoneRxAlive => Len(done) < ChannelBound
    /\ done' = IF DoneRxAlive THEN Append(done, DoneError("decode")) ELSE done
    /\ UNCHANGED <<inputVars, tokens, abort, work, result, resolve, aReorder, aNext, prevTail,
                   dVars, wVars, rVars, oVars, sinkVars, status>>

\* The workers are gone and nothing more is in order.
StageAEnd ==
    /\ aPc = "run" /\ ~\E o \in aReorder : AReady(o)
    /\ result = <<>> /\ ~WorkRxAlive
    /\ aPc' = "exited"
    /\ UNCHANGED <<inputVars, tokens, abort, work, result, resolve, done, aReorder, aNext,
                   prevTail, dVars, wVars, rVars, oVars, sinkVars, status>>

StageA == StageAForward \/ StageARecv \/ StageAFail \/ StageAEnd

-----------------------------------------------------------------------------
(* Resolve pool. *)

Resolved(job) ==
    IF Unresolvable(job.first, job.next)
    THEN DoneError("resolve")
    ELSE [err |-> "none", id |-> job.id, first |-> job.first, next |-> job.next,
          final |-> job.final, bytes |-> ResolvedBytes(job.first, job.next, job.tail)]

ResolverRecv(r) ==
    /\ rPc[r] = "recv" /\ resolve # <<>>
    /\ rHold' = [rHold EXCEPT ![r] = Resolved(Head(resolve))]
    /\ resolve' = Tail(resolve)
    /\ rPc' = [rPc EXCEPT ![r] = "send"]
    /\ UNCHANGED <<inputVars, tokens, abort, work, result, done, dVars, wVars, aVars,
                   oVars, sinkVars, status>>

ResolverSend(r) ==
    /\ rPc[r] = "send" /\ DoneRxAlive /\ Len(done) < ChannelBound
    /\ done' = Append(done, rHold[r])
    /\ rHold' = [rHold EXCEPT ![r] = NoDone]
    /\ rPc' = [rPc EXCEPT ![r] = "recv"]
    /\ UNCHANGED <<inputVars, tokens, abort, work, result, resolve, dVars, wVars, aVars,
                   oVars, sinkVars, status>>

ResolverExit(r) ==
    /\ \/ rPc[r] = "recv" /\ resolve = <<>> /\ aPc = "exited"
       \/ rPc[r] = "send" /\ ~DoneRxAlive
    /\ rPc' = [rPc EXCEPT ![r] = "exited"]
    /\ rHold' = [rHold EXCEPT ![r] = NoDone]
    /\ UNCHANGED <<inputVars, tokens, abort, work, result, resolve, done, dVars, wVars, aVars,
                   oVars, sinkVars, status>>

Resolver(r) == ResolverRecv(r) \/ ResolverSend(r) \/ ResolverExit(r)

-----------------------------------------------------------------------------
(* Output stage: the thread that called read_gz_streaming_parallel. *)

OReady(d) == d \in oReorder /\ d.id = oNext

\* The verdicts the trailers inside the chunk may give; garbage may show a
\* trailer anywhere, and shows one if it looks like the end of the input.
TrailerVerdicts(d) ==
    IF d.first = Corrupt
    THEN IF d.final THEN {"crc"} ELSE {"none", "crc"}
    ELSE {ChunkVerdict(d.first, d.next, d.bytes, curMember)}

OutputMismatch ==
    /\ oPc = "run"
    /\ \E d \in oReorder :
          /\ OReady(d)
          /\ \E v \in TrailerVerdicts(d) \ {"none"} : outErr' = v
          /\ oReorder' = oReorder \ {d}
    /\ oPc' = "abort"
    /\ UNCHANGED <<inputVars, tokens, abort, work, result, resolve, done, oNext, curMember,
                   dVars, wVars, aVars, rVars, sinkVars, status>>

\* token_tx.send: lost once the dispatcher is gone.
TokenReturned == IF dPc = "exited" THEN tokens ELSE tokens + 1

\* Send the chunk and return its token whether or not the sink took it; the
\* token channel must have room for it.
OutputSend ==
    /\ oPc = "run"
    /\ consumerAlive => sinkLen < SinkCapacity
    /\ dPc # "exited" => tokens < InflightCap
    /\ \E d \in oReorder :
          /\ OReady(d) /\ "none" \in TrailerVerdicts(d)
          /\ curMember' = CarriedBytes(d.first, d.next, d.bytes, curMember)
          /\ oReorder' = oReorder \ {d}
          /\ IF consumerAlive
             THEN /\ delivered' = delivered \o d.bytes
                  /\ sinkLen' = sinkLen + 1
                  /\ oNext' = oNext + 1
                  /\ oPc' = IF d.final THEN "abort" ELSE "run"
                  /\ UNCHANGED outErr
             ELSE /\ oPc' = "abort" /\ outErr' = "closed"
                  /\ UNCHANGED <<delivered, sinkLen, oNext>>
    /\ tokens' = TokenReturned
    /\ UNCHANGED <<inputVars, abort, work, result, resolve, done, dVars, wVars, aVars, rVars,
                   consumerAlive, status>>

\* Receive, or find the pool gone: then the loop ends without an error.
OutputRecv ==
    /\ oPc = "run" /\ ~\E d \in oReorder : OReady(d)
    /\ DoneTxAlive => done # <<>>
    /\ IF done = <<>>
       THEN oPc' = "abort" /\ UNCHANGED <<done, oReorder, outErr>>
       ELSE /\ done' = Tail(done)
            /\ IF Head(done).err = "none"
               THEN oReorder' = oReorder \cup {Head(done)} /\ UNCHANGED <<oPc, outErr>>
               ELSE oPc' = "abort" /\ outErr' = Head(done).err /\ UNCHANGED oReorder
    /\ UNCHANGED <<inputVars, tokens, abort, work, result, resolve, oNext, curMember,
                   dVars, wVars, aVars, rVars, sinkVars, status>>

\* The teardown, in the order of the code: abort, token_tx, done_rx.
SetAbort ==
    /\ oPc = "abort" /\ oPc' = "dropTokens"
    /\ abort' = TRUE
    /\ UNCHANGED <<inputVars, tokens, work, result, resolve, done, oReorder, oNext, curMember,
                   outErr, dVars, wVars, aVars, rVars, sinkVars, status>>

DropTokenTx ==
    /\ oPc = "dropTokens" /\ oPc' = "dropDone"
    /\ UNCHANGED <<inputVars, tokens, abort, work, result, resolve, done, oReorder, oNext,
                   curMember, outErr, dVars, wVars, aVars, rVars, sinkVars, status>>

DropDoneRx ==
    /\ oPc = "dropDone" /\ oPc' = "join"
    /\ UNCHANGED <<inputVars, tokens, abort, work, result, resolve, done, oReorder, oNext,
                   curMember, outErr, dVars, wVars, aVars, rVars, sinkVars, status>>

AllExited ==
    /\ dPc = "exited" /\ aPc = "exited"
    /\ \A w \in Workers : wPc[w] = "exited"
    /\ \A r \in Resolvers : rPc[r] = "exited"

\* Faulty variant: what the dispatcher returned is ignored.
ReturnOutputOnly == IF outErr = "none" THEN "ok" ELSE outErr

\* The output stage's error, else the dispatcher's, else Ok; a closed sink is
\* not an error of the output stage.
ReturnStatus ==
    IF outErr \in FaultKind THEN outErr
    ELSE IF dRes # "ok" THEN dRes
    ELSE IF outErr = "closed" THEN "closed" ELSE "ok"

JoinAndReturn ==
    /\ oPc = "join" /\ AllExited
    /\ oPc' = "returned"
    /\ status' = ReturnStatus
    /\ UNCHANGED <<inputVars, tokens, abort, work, result, resolve, done, oReorder, oNext,
                   curMember, outErr, dVars, wVars, aVars, rVars, sinkVars>>

Output == OutputMismatch \/ OutputSend \/ OutputRecv
          \/ SetAbort \/ DropTokenTx \/ DropDoneRx \/ JoinAndReturn

-----------------------------------------------------------------------------
(* The consumer of the sink. *)

ConsumerRecv ==
    /\ consumerAlive /\ sinkLen > 0
    /\ sinkLen' = sinkLen - 1
    /\ UNCHANGED <<inputVars, tokens, abort, work, result, resolve, done, dVars, wVars, aVars,
                   rVars, oVars, delivered, consumerAlive, status>>

ConsumerHangsUp ==
    /\ consumerAlive /\ status = "running"
    /\ consumerAlive' = FALSE
    /\ UNCHANGED <<inputVars, tokens, abort, work, result, resolve, done, dVars, wVars, aVars,
                   rVars, oVars, delivered, sinkLen, status>>

\* Nothing is left to do once the decode has returned.
Returned == oPc = "returned" /\ UNCHANGED vars

Next ==
    \/ Dispatch
    \/ \E w \in Workers : Worker(w)
    \/ StageA
    \/ \E r \in Resolvers : Resolver(r)
    \/ Output
    \/ ConsumerRecv
    \/ ConsumerHangsUp
    \/ Returned

Spec == Init /\ [][Next]_vars

\* Every thread runs until it blocks; the pipe always has more to read or
\* ends; the consumer keeps receiving until it hangs up.
FairSpec ==
    /\ Spec
    /\ WF_vars(Dispatch) /\ \A w \in Workers : WF_vars(Worker(w))
    /\ WF_vars(StageA) /\ \A r \in Resolvers : WF_vars(Resolver(r))
    /\ WF_vars(Output) /\ WF_vars(ConsumerRecv)

-----------------------------------------------------------------------------
(* Properties. *)

IdsIn(ch) == {ch[i].id : i \in DOMAIN ch}
Outstanding ==
    (IdsIn(work) \cup {wHold[w].id : w \in Workers} \cup IdsIn(result)
     \cup {o.id : o \in aReorder} \cup IdsIn(resolve) \cup {rHold[r].id : r \in Resolvers}
     \cup IdsIn(done) \cup {d.id : d \in oReorder}) \ {0}

\* The token channel is a cap: every slice between the dispatcher and the sink
\* holds a token of its own, so that at most InflightCap are in memory and the
\* output stage always finds room to return one.
TokensConserved ==
    Cardinality(Outstanding) + tokens + (IF dPc = "send" THEN 1 ELSE 0) <= InflightCap

\* The decode of a pipe keeps the promise of OrderedDecode; a read error is
\* passed on, and "workers gone" is how a hang-up may be reported.
Promise == INSTANCE OrderedDecode WITH
    status <- IF status = "workers gone" THEN "closed" ELSE status
StreamKeepsPromise == Promise!Spec

\* The decode always comes to an end, with every thread joined.
StreamTerminates == <>(status # "running")

\* "The pipeline does not rely on this never happening": a boundary that is no
\* block start is no reason to fail; a healthy input is never called damaged.
HealthyNeverFails == Healthy => status \notin FaultKind
=============================================================================
