-------------------------------- MODULE Bgzf --------------------------------
(***************************************************************************)
(* parallel_decode_bgzf: the fast path for files that start with BGZF      *)
(* members.                                                                *)
(*                                                                         *)
(*   dispatch --work--> workers --result--> serializer (the caller) --> sink*)
(*                                                                         *)
(* Every BGZF member says how long it is, so the dispatch thread walks the *)
(* file from member to member and cuts it into batches of whole members;   *)
(* each worker decodes and checks the members of a batch on their own; the *)
(* serializer puts the batches in order.  A block of GzStream is here one  *)
(* BGZF member, or a block of the plain gzip stream that may follow the    *)
(* last BGZF member (the remainder).  The remainder is decoded by          *)
(* parallel_decode_member, which appears here by what it promises          *)
(* (OrderedDecode, shown for it in Pipeline).                              *)
(*                                                                         *)
(* The channels and the in-flight cap are those of Pipeline, but here the  *)
(* calling thread keeps a receiver of both channels until it returns.      *)
(***************************************************************************)
EXTENDS GzStream

CONSTANTS
    Workers,          \* the decode pool (num_threads of them)
    ChannelBound,     \* bound of both channels (2 * num_threads in the code)
    CapEnabled,       \* FALSE if RAPIDGZIP_INFLIGHT=0 disables the cap
    InflightMax,      \* max(num_threads * factor, INFLIGHT_FLOOR)
    SinkCapacity      \* bound of the caller's sink channel

ASSUME BgzfAssumption ==
    /\ IsFiniteSet(Workers) /\ Workers # {}
    /\ ChannelBound \in Nat \ {0} /\ SinkCapacity \in Nat \ {0}
    /\ CapEnabled \in BOOLEAN /\ InflightMax \in Nat \ {0}

VARIABLES
    prefix,           \* number of complete BGZF members at the start of the file
    after,            \* what follows them: "end", "overrun" or "remainder"
    inFlight, capShutdown,
    work, result,     \* the channels
    dPc, pos, cur,    \* dispatch: members walked, and the batch being sent
    wPc, wHold,       \* workers, and the message each is about to send
    sPc, pending, next, lastErr,     \* serializer
    delivered,        \* bytes handed to the sink, in order
    sinkLen, consumerAlive,
    status            \* "running", or what parallel_decode_bgzf returned

fileVars == <<fault, prefix, after>>
capVars  == <<inFlight, capShutdown>>
dVars    == <<dPc, pos, cur>>
wVars    == <<wPc, wHold>>
sVars    == <<sPc, pending, next, lastErr>>
sinkVars == <<delivered, sinkLen, consumerAlive>>
vars == <<fileVars, capVars, work, result, dVars, wVars, sVars, sinkVars, status>>

\* A batch is its first member and the one after its last; batches are
\* ordered by their first member, which stands for the batch id.
NoBatch == [first |-> 0, next |-> 0]
NoMsg == [err |-> "none", first |-> 0, next |-> 0]

\* What the file may look like: BGZF members to the end; a last member that
\* claims to be longer than the file; or a plain gzip stream after them.
FileShape ==
    {[prefix |-> NumBlocks, after |-> "end"]}
    \cup (IF fault[NumBlocks - 1] = "decode"
          THEN {[prefix |-> NumBlocks - 1, after |-> "overrun"]} ELSE {})
    \cup {[prefix |-> p, after |-> "remainder"] : p \in 1 .. NumBlocks - 1}
BgzfMembers(p) == 0 .. p - 1 \subseteq MemberEnds

Init ==
    /\ fault \in InputFaults
    /\ \E s \in FileShape : prefix = s.prefix /\ after = s.after /\ BgzfMembers(s.prefix)
    /\ inFlight = 0 /\ capShutdown = FALSE
    /\ work = <<>> /\ result = <<>>
    /\ dPc = "walk" /\ pos = 0 /\ cur = NoBatch
    /\ wPc = [w \in Workers |-> "recv"]
    /\ wHold = [w \in Workers |-> NoMsg]
    /\ sPc = "recv" /\ pending = {} /\ next = 0 /\ lastErr = "none"
    /\ delivered = <<>> /\ sinkLen = 0 /\ consumerAlive = TRUE
    /\ status = "running"

HasRoom(ch) == Len(ch) < ChannelBound

-----------------------------------------------------------------------------
(* Dispatch thread: the walk and flush!. *)

\* Walk on until the batch is large enough (the target size is abstracted to
\* any number of members) or the BGZF members end.
Walk ==
    /\ dPc = "walk"
    /\ IF pos = prefix
       THEN dPc' = "exited" /\ UNCHANGED <<pos, cur>>
       ELSE \E e \in pos + 1 .. prefix :
               cur' = [first |-> pos, next |-> e] /\ pos' = e /\ dPc' = "acquire"
    /\ UNCHANGED <<fileVars, capVars, work, result, wVars, sVars, sinkVars, status>>

\* Faulty variant: batches are sent without a slot.
AcquireNothing ==
    /\ dPc = "acquire" /\ dPc' = "send"
    /\ UNCHANGED <<fileVars, capVars, work, result, pos, cur, wVars, sVars, sinkVars, status>>

AcquireSlot ==
    /\ dPc = "acquire" /\ ~capShutdown
    /\ IF CapEnabled
       THEN inFlight < InflightMax /\ inFlight' = inFlight + 1
       ELSE UNCHANGED inFlight
    /\ dPc' = "send"
    /\ UNCHANGED <<fileVars, capShutdown, work, result, pos, cur, wVars, sVars, sinkVars, status>>

AcquireShutdown ==
    /\ dPc = "acquire" /\ capShutdown
    /\ dPc' = "exited"
    /\ UNCHANGED <<fileVars, capVars, work, result, pos, cur, wVars, sVars, sinkVars, status>>

\* The calling thread keeps a receiver, so the send cannot fail.
DispatchSend ==
    /\ dPc = "send" /\ HasRoom(work)
    /\ work' = Append(work, cur)
    /\ cur' = NoBatch
    /\ dPc' = "walk"
    /\ UNCHANGED <<fileVars, capVars, result, pos, wVars, sVars, sinkVars, status>>

Dispatch == Walk \/ AcquireSlot \/ AcquireShutdown \/ DispatchSend

-----------------------------------------------------------------------------
(* Decode pool. *)

\* The members of the batch in turn, each checked against its own trailer;
\* the first that fails ends the batch.
DecodeBatch(b) ==
    LET bad == {k \in b.first .. b.next - 1 : fault[k] # "none"} IN
    [err   |-> IF bad = {} THEN "none"
               ELSE fault[CHOOSE k \in bad : \A j \in bad : k <= j],
     first |-> b.first, next |-> b.next]

WorkerRecv(w) ==
    /\ wPc[w] = "recv" /\ work # <<>>
    /\ wHold' = [wHold EXCEPT ![w] = DecodeBatch(Head(work))]
    /\ work' = Tail(work)
    /\ wPc' = [wPc EXCEPT ![w] = "send"]
    /\ UNCHANGED <<fileVars, capVars, result, dVars, sVars, sinkVars, status>>

\* The calling thread keeps the receiver, so the send cannot fail.
WorkerSend(w) ==
    /\ wPc[w] = "send" /\ HasRoom(result)
    /\ result' = Append(result, wHold[w])
    /\ wHold' = [wHold EXCEPT ![w] = NoMsg]
    /\ wPc' = [wPc EXCEPT ![w] = "recv"]
    /\ UNCHANGED <<fileVars, capVars, work, dVars, sVars, sinkVars, status>>

WorkerExit(w) ==
    /\ wPc[w] = "recv" /\ work = <<>> /\ dPc = "exited"
    /\ wPc' = [wPc EXCEPT ![w] = "exited"]
    /\ UNCHANGED <<fileVars, capVars, work, result, dVars, wHold, sVars, sinkVars, status>>

Worker(w) == WorkerRecv(w) \/ WorkerSend(w) \/ WorkerExit(w)

-----------------------------------------------------------------------------
(* Serializer: the calling thread. *)

\* Faulty variant: batches are taken as they come.
ReadyAnyOrder(m) == m \in pending

Ready(m) == m \in pending /\ m.first = next

\* The next message, if no pending batch can be sent.
SerializerRecv ==
    /\ sPc = "recv" /\ ~\E m \in pending : Ready(m)
    /\ result # <<>>
    /\ result' = Tail(result)
    /\ IF Head(result).err = "none"
       THEN pending' = pending \cup {Head(result)} /\ UNCHANGED <<sPc, lastErr>>
       ELSE lastErr' = Head(result).err /\ sPc' = "shutdown" /\ UNCHANGED pending
    /\ UNCHANGED <<fileVars, capVars, work, dVars, wVars, next, sinkVars, status>>

\* Every worker has returned and every message was handled.
SerializerEnd ==
    /\ sPc = "recv" /\ ~\E m \in pending : Ready(m)
    /\ result = <<>> /\ \A w \in Workers : wPc[w] = "exited"
    /\ sPc' = "shutdown"
    /\ UNCHANGED <<fileVars, capVars, work, result, dVars, wVars, pending, next, lastErr,
                   sinkVars, status>>

\* Send the batch that is next and release its slot; a closed sink is an error.
SerializerSend ==
    /\ sPc = "recv"
    /\ consumerAlive => sinkLen < SinkCapacity
    /\ \E m \in pending :
          /\ Ready(m)
          /\ pending' = pending \ {m}
          /\ IF consumerAlive
             THEN /\ delivered' = delivered \o Bytes(m.first, m.next)
                  /\ sinkLen' = sinkLen + 1
                  /\ next' = m.next
                  /\ UNCHANGED <<sPc, lastErr>>
             ELSE /\ lastErr' = "closed" /\ sPc' = "shutdown"
                  /\ UNCHANGED <<delivered, sinkLen, next>>
    /\ inFlight' = IF CapEnabled /\ inFlight > 0 THEN inFlight - 1 ELSE inFlight
    /\ UNCHANGED <<fileVars, capShutdown, work, result, dVars, wVars, consumerAlive, status>>

\* Faulty variant: a dispatcher parked in acquire is not woken.
ShutdownNothing ==
    /\ sPc = "shutdown" /\ sPc' = "join"
    /\ UNCHANGED <<fileVars, capVars, work, result, dVars, wVars, pending, next, lastErr,
                   sinkVars, status>>

\* Wakes a dispatcher parked in acquire; neither channel is touched.
ShutdownCap ==
    /\ sPc = "shutdown" /\ sPc' = "join"
    /\ capShutdown' = CapEnabled
    /\ UNCHANGED <<fileVars, inFlight, work, result, dVars, wVars, pending, next, lastErr,
                   sinkVars, status>>

\* The walk met a member longer than the file before dispatch returned.
WalkErr == after = "overrun" /\ pos = prefix

\* The joins wait for dispatch and the workers; then an error is returned
\* (the serializer's before the walk's), or Ok, or the remainder is decoded.
JoinAndReturn ==
    /\ sPc = "join"
    /\ dPc = "exited" /\ \A w \in Workers : wPc[w] = "exited"
    /\ LET err == IF lastErr # "none" THEN lastErr ELSE IF WalkErr THEN "decode" ELSE "none" IN
       IF err = "none" /\ after = "remainder"
       THEN sPc' = "remainder" /\ UNCHANGED status
       ELSE sPc' = "returned" /\ status' = IF err = "none" THEN "ok" ELSE err
    /\ UNCHANGED <<fileVars, capVars, work, result, dVars, wVars, pending, next, lastErr, sinkVars>>

Serializer == SerializerRecv \/ SerializerEnd \/ SerializerSend \/ ShutdownCap \/ JoinAndReturn

-----------------------------------------------------------------------------
(* The remainder, decoded by parallel_decode_member: what it promises. *)

\* It delivers more of the true output, before any damage.
RemainderDeliver ==
    /\ sPc = "remainder" /\ consumerAlive /\ sinkLen < SinkCapacity
    /\ \E n \in Len(delivered) + 1 .. NumBlocks :
          /\ \A k \in 0 .. n - 1 : fault[k] = "none"
          /\ delivered' = Bytes(0, n)
    /\ sinkLen' = sinkLen + 1
    /\ UNCHANGED <<fileVars, capVars, work, result, dVars, wVars, sVars, consumerAlive, status>>

\* It returns: after everything was delivered, after damage, or because the
\* consumer hung up (which is not an error of that path).
RemainderReturn ==
    /\ sPc = "remainder" /\ sPc' = "returned"
    /\ \/ delivered = TrueOutput /\ Healthy /\ status' = "ok"
       \/ \E k \in prefix .. NumBlocks - 1 : fault[k] # "none" /\ status' = fault[k]
       \/ ~consumerAlive /\ status' = "closed"
    /\ UNCHANGED <<fileVars, capVars, work, result, dVars, wVars, pending, next, lastErr, sinkVars>>

-----------------------------------------------------------------------------
(* The consumer of the sink. *)

ConsumerRecv ==
    /\ consumerAlive /\ sinkLen > 0
    /\ sinkLen' = sinkLen - 1
    /\ UNCHANGED <<fileVars, capVars, work, result, dVars, wVars, sVars, delivered,
                   consumerAlive, status>>

ConsumerHangsUp ==
    /\ consumerAlive /\ status = "running"
    /\ consumerAlive' = FALSE
    /\ UNCHANGED <<fileVars, capVars, work, result, dVars, wVars, sVars, delivered,
                   sinkLen, status>>

\* Nothing is left to do once the decode has returned.
Returned == sPc = "returned" /\ UNCHANGED vars

Next ==
    \/ Dispatch
    \/ \E w \in Workers : Worker(w)
    \/ Serializer
    \/ RemainderDeliver
    \/ RemainderReturn
    \/ ConsumerRecv
    \/ ConsumerHangsUp
    \/ Returned

Spec == Init /\ [][Next]_vars

\* Every thread runs until it blocks, the remainder's decode ends (Terminates
\* of Pipeline), and the consumer keeps receiving until it hangs up.
FairSpec ==
    /\ Spec
    /\ WF_vars(Dispatch) /\ \A w \in Workers : WF_vars(Worker(w))
    /\ WF_vars(Serializer) /\ WF_vars(RemainderDeliver \/ RemainderReturn)
    /\ WF_vars(ConsumerRecv)

-----------------------------------------------------------------------------
(* Properties. *)

\* Members that are in the pipeline between dispatch and the sink.
Held ==
    {b.first : b \in {work[i] : i \in DOMAIN work} \cup {wHold[w] : w \in {v \in Workers : wPc[v] = "send"}}
                     \cup {result[i] : i \in DOMAIN result} \cup pending}

\* The in-flight cap: the batches held anywhere between dispatch and the sink
\* never exceed the cap.
BgzfInflightBounded ==
    CapEnabled => Cardinality(Held) <= inFlight /\ inFlight <= InflightMax

\* parallel_decode_bgzf keeps the promise of OrderedDecode: in order, nothing
\* damaged, Ok only when complete, errors only for damage that is there.
Promise == INSTANCE OrderedDecode
BgzfKeepsPromise == Promise!Spec

\* "Blocks until EOF or first error": the decode always returns.
BgzfTerminates == <>(status # "running")
=============================================================================
