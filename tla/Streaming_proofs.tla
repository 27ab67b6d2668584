-------------------------- MODULE Streaming_proofs --------------------------
(***************************************************************************)
(* Proofs about Streaming, for every input, every set of believed          *)
(* boundaries, every number of workers and resolvers and every bound: the  *)
(* tokens bound what is in memory; and, if the block finder believes in    *)
(* true block starts only, read_gz_streaming_parallel keeps the promise of *)
(* OrderedDecode.  Without that condition it does not: the run of          *)
(* Streaming_false_start shows a healthy input that is called damaged.     *)
(*                                                                         *)
(* IdsOnce says that a slice is in one place only.  CutBy says what every  *)
(* message is about: slice n is the blocks c[n] .. CutEnd(c, n) - 1, where *)
(* c is the row of boundaries the dispatcher cut at.                       *)
(***************************************************************************)
EXTENDS Streaming, ChunkDecode_proofs, FiniteSetTheorems

-----------------------------------------------------------------------------
(* Types. *)

Item == [id : Nat \ {0}, start : Position, hint : Position]
Outcome == [id : Nat, res : DecodeResult]
Job == [id : Nat, first : Value \cup {NumBlocks}, next : Value \cup {NumBlocks},
        final : BOOLEAN, tail : Seq(Value)]
DoneMsg == [err : FaultKind \cup {"none"}, id : Nat,
            first : Value \cup {NumBlocks}, next : Value \cup {NumBlocks},
            final : BOOLEAN, bytes : Seq(Value)]

InputType == fault \in InputFaults /\ candidates \in SUBSET Believable
ChannelType ==
    /\ work \in Seq(Item) /\ result \in Seq(Outcome)
    /\ resolve \in Seq(Job) /\ done \in Seq(DoneMsg)
DispatchType ==
    /\ tokens \in Nat /\ dPc \in {"read", "token", "send", "exited"} /\ item \in Item
    /\ dRes \in {"none", "ok", "io", "workers gone"}
WorkerType ==
    /\ wPc \in [Workers -> {"recv", "send", "exited"}]
    /\ wHold \in [Workers -> Outcome]
StageAType ==
    /\ aPc \in {"run", "fail", "exited"} /\ aReorder \in SUBSET Outcome
    /\ aNext \in Nat \ {0} /\ prevTail \in Seq(Value)
ResolverType ==
    /\ rPc \in [Resolvers -> {"recv", "send", "exited"}]
    /\ rHold \in [Resolvers -> DoneMsg]
OutputType ==
    /\ oPc \in {"run", "abort", "dropTokens", "dropDone", "join", "returned"}
    /\ oReorder \in SUBSET DoneMsg /\ oNext \in Nat \ {0}
    /\ curMember \in Seq(Value) /\ outErr \in FaultKind \cup {"none", "closed"}
    /\ delivered \in Seq(Value)

\* Every variable has the values the code can give it.
TypeInvariant == /\ InputType /\ ChannelType /\ DispatchType /\ WorkerType /\ StageAType
                 /\ ResolverType /\ OutputType

-----------------------------------------------------------------------------
(* Where the slices are. *)

\* The slices in the work channel, between it and stage A, in the resolve
\* channel, and between it and the sink.
WorkIds == IdsIn(work)
DecodedIds == PoolIds(wHold, result, aReorder)
JobIds == IdsIn(resolve)
ResolvedIds == PoolIds(rHold, done, oReorder)
AllIds == WorkIds \cup DecodedIds \cup JobIds \cup ResolvedIds

\* The slices in a channel are different ones.
ChannelDistinct(ch) ==
    /\ \A i \in DOMAIN ch : ch[i].id # 0
    /\ \A i, j \in DOMAIN ch : ch[i].id = ch[j].id => i = j

\* A thread that has nothing to send holds nothing.
HoldsEmpty ==
    /\ \A w \in Workers : wPc[w] # "send" => wHold[w] = NoOutcome
    /\ \A r \in Resolvers : rPc[r] # "send" => rHold[r] = NoDone

\* A slice is in one place only, and the dispatcher counts on.
PlacesDistinct ==
    /\ ChannelDistinct(work) /\ ChannelDistinct(resolve)
    /\ PoolDistinct(wHold, result, aReorder) /\ PoolDistinct(rHold, done, oReorder)
PlacesApart ==
    /\ WorkIds \cap DecodedIds = {} /\ JobIds \cap ResolvedIds = {}
    /\ (WorkIds \cup DecodedIds) \cap (JobIds \cup ResolvedIds) = {}
IdsBelow == \A n \in AllIds : n <= item.id /\ (dPc # "exited" => n # item.id)

IdsOnce == HoldsEmpty /\ PlacesDistinct /\ PlacesApart /\ IdsBelow

-----------------------------------------------------------------------------
(* What the slices are, if the block finder believes in block starts only. *)

TrueBoundaries == Believable \cap FalseStarts = {}

\* The block after slice n, and its hint.
CutEnd(c, n) == IF n < item.id THEN c[n + 1] ELSE NumBlocks
CutHint(c, n) == IF n < item.id THEN Bit(c[n + 1]) ELSE NoHint

IsFault(e) == \E k \in Blocks : fault[k] = e
Free(lo, hi, kinds) == \A k \in lo .. hi - 1 : fault[k] \notin kinds
Clean(n) == \A k \in 0 .. n - 1 : fault[k] = "none"

\* The blocks first .. next-1 are those of slice n.
IsSlice(c, n, first, next, final) ==
    n \in 1 .. item.id /\ first = c[n] /\ next = CutEnd(c, n) /\ (final <=> n = item.id)

ItemCut(c, x) == x.start = Bit(c[x.id]) /\ x.hint = CutHint(c, x.id)
OutcomeCut(c, o) ==
    IF o.res.ok THEN /\ IsSlice(c, o.id, o.res.first, o.res.next, o.res.final)
                     /\ Free(o.res.first, o.res.next, {"decode"})
    ELSE IsFault("decode")
JobCut(c, j) ==
    /\ IsSlice(c, j.id, j.first, j.next, j.final) /\ Free(j.first, j.next, {"decode"})
    /\ j.tail = WindowAt(j.first)
DoneCut(c, d) ==
    IF d.err = "none" THEN /\ IsSlice(c, d.id, d.first, d.next, d.final)
                           /\ Free(d.first, d.next, {"decode", "resolve"})
                           /\ d.bytes = Bytes(d.first, d.next)
    ELSE IsFault(d.err)

CutPoints(c) ==
    /\ c[1] = 0 /\ item.start = Bit(c[item.id])
    /\ \A n \in 1 .. item.id : c[n] < NumBlocks
    /\ \A n \in 1 .. item.id - 1 : c[n] < c[n + 1]
ItemsCut(c) == \A i \in DOMAIN work : ItemCut(c, work[i])
OutcomesCut(c) ==
    /\ \A w \in Workers : wPc[w] = "send" => OutcomeCut(c, wHold[w])
    /\ \A i \in DOMAIN result : OutcomeCut(c, result[i])
    /\ \A o \in aReorder : o.res.ok /\ OutcomeCut(c, o)
JobsCut(c) ==
    /\ \A i \in DOMAIN resolve : JobCut(c, resolve[i])
    /\ aPc # "exited" => aNext \in 1 .. item.id /\ prevTail = WindowAt(c[aNext])
    /\ aPc = "fail" => IsFault("decode")
DonesCut(c) ==
    /\ \A r \in Resolvers : rPc[r] = "send" => DoneCut(c, rHold[r])
    /\ \A i \in DOMAIN done : DoneCut(c, done[i])
    /\ \A d \in oReorder : d.err = "none" /\ DoneCut(c, d)
OutputCut(c) ==
    oPc = "run" => /\ oNext \in 1 .. item.id /\ outErr = "none"
                   /\ delivered = Bytes(0, c[oNext]) /\ Clean(c[oNext])
                   /\ curMember = Bytes(MemberStart(c[oNext]), c[oNext])

CutBy(c) == CutPoints(c) /\ ItemsCut(c) /\ OutcomesCut(c) /\ JobsCut(c) /\ DonesCut(c) /\ OutputCut(c)

\* The slices are cut at a row of true block starts.
SlicesCut == \E c \in [1 .. item.id -> 0 .. NumBlocks] : CutBy(c)

-----------------------------------------------------------------------------
(* How the decode ends. *)

\* The slice that will be dispatched next.
NextId == IF dRes = "ok" THEN item.id + 1 ELSE item.id

ErrorInFlight ==
    \/ aPc = "fail"
    \/ \E r \in Resolvers : rHold[r].err # "none"
    \/ \E i \in DOMAIN done : done[i].err # "none"

DispatchEnds ==
    /\ dPc = "exited" <=> dRes # "none"
    /\ dPc \in {"token", "send"} /\ item.hint # NoHint =>
           item.hint \in candidates /\ item.hint >= item.start + ChunkBits
    /\ oPc \in {"run", "abort"} => abort = FALSE
ThreadsEnd ==
    /\ aPc # "exited" => \A w \in Workers : wPc[w] = "exited" => work = <<>> /\ dPc = "exited"
    /\ oPc = "run" => \A r \in Resolvers : rPc[r] = "exited" => resolve = <<>> /\ aPc = "exited"

\* The two ways in which nothing is lost: stage A is still at work, or it has
\* forwarded the last slice or met the end of what was dispatched.
InOrder ==
    /\ aPc = "run" /\ oNext <= aNext /\ JobIds \cup ResolvedIds = oNext .. aNext - 1
    /\ WorkIds \cup DecodedIds = aNext .. NextId - 1
Forwarded == aPc = "exited" /\ (JobIds \cup ResolvedIds = oNext .. item.id \/ dRes \notin {"none", "ok"})

\* No slice is lost before an error is known.
NoSliceLost == oPc = "run" => ErrorInFlight \/ InOrder \/ Forwarded

OutputTrue ==
    /\ \E n \in 0 .. NumBlocks : delivered = Bytes(0, n) /\ Clean(n)
    /\ (oPc # "run" /\ outErr = "none") =>
           (delivered = TrueOutput /\ Healthy) \/ dRes \notin {"none", "ok"}
    /\ outErr \in {"none", "closed"} \/ IsFault(outErr)
    /\ oPc # "returned" => status = "running"

EndInvariant == DispatchEnds /\ ThreadsEnd /\ NoSliceLost /\ OutputTrue

-----------------------------------------------------------------------------
(* Type correctness. *)

LEMMA Empties ==
    /\ NoOutcome \in Outcome /\ NoOutcome.id = 0 /\ NoDone \in DoneMsg /\ NoDone.id = 0
    /\ \A kind \in FaultKind : DoneError(kind) \in DoneMsg /\ DoneError(kind).id = 0
<1>1. NumBlocks \in Nat /\ NumBlocks > 0 /\ 0 \in Value \cup {NumBlocks}
  BY ConstantTypes, ZeroIsBlock
<1>2. DecodeError \in DecodeResult
  BY <1>1 DEF DecodeError, DecodeResult, Value, Position, NoHint, EndOfInput, Bit
<1>3. \A kind \in FaultKind \cup {"none"} : DoneError(kind) \in DoneMsg /\ DoneError(kind).id = 0
  <2>1. <<>> \in Seq(Value)
    BY EmptySeq
  <2> QED BY <1>1, <2>1 DEF DoneError, DoneMsg
<1> QED BY <1>2, <1>3 DEF NoOutcome, Outcome, NoDone

LEMMA InitTypes == Init => TypeInvariant
<1> SUFFICES ASSUME Init PROVE TypeInvariant
  OBVIOUS
<1>1. /\ fault \in InputFaults /\ candidates \in SUBSET Believable /\ tokens = InflightCap
      /\ work = <<>> /\ result = <<>> /\ resolve = <<>> /\ done = <<>>
      /\ dPc = "read" /\ item = [id |-> 1, start |-> 0, hint |-> NoHint] /\ dRes = "none"
      /\ wPc = [w \in Workers |-> "recv"] /\ wHold = [w \in Workers |-> NoOutcome]
      /\ aPc = "run" /\ aReorder = {} /\ aNext = 1 /\ prevTail = <<>>
      /\ rPc = [r \in Resolvers |-> "recv"] /\ rHold = [r \in Resolvers |-> NoDone]
      /\ oPc = "run" /\ oReorder = {} /\ oNext = 1 /\ curMember = <<>> /\ outErr = "none"
      /\ delivered = <<>>
  BY Zenon DEF Init
<1>2. 0 \in Position /\ NoHint \in Position
  BY ConstantTypes DEF Position, NoHint, EndOfInput, Bit
<1>3. InputType /\ ChannelType
  BY <1>1 DEF InputType, ChannelType
<1>4. DispatchType
  BY <1>1, <1>2, StreamingAssumption DEF DispatchType, Item
<1>5. WorkerType /\ ResolverType
  BY <1>1, Empties DEF WorkerType, ResolverType
<1>6. StageAType /\ OutputType
  BY <1>1 DEF StageAType, OutputType
<1> QED BY <1>3, <1>4, <1>5, <1>6 DEF TypeInvariant

\* A part of the state that a step leaves alone keeps its type.
LEMMA FrameTypes ==
    ASSUME TypeInvariant, UNCHANGED inputVars
    PROVE  /\ InputType'
           /\ UNCHANGED <<work, result, resolve, done>> => ChannelType'
           /\ UNCHANGED <<tokens, dVars>> => DispatchType'
           /\ UNCHANGED wVars => WorkerType'
           /\ UNCHANGED aVars => StageAType'
           /\ UNCHANGED rVars => ResolverType'
           /\ UNCHANGED <<oVars, delivered>> => OutputType'
<1>1. InputType'
  BY DEF TypeInvariant, InputType, inputVars
<1>2. UNCHANGED <<work, result, resolve, done>> => ChannelType'
  BY DEF TypeInvariant, ChannelType
<1>3. UNCHANGED <<tokens, dVars>> => DispatchType'
  BY DEF TypeInvariant, DispatchType, dVars
<1>4. UNCHANGED wVars => WorkerType'
  BY DEF TypeInvariant, WorkerType, wVars
<1>5. UNCHANGED aVars => StageAType'
  BY DEF TypeInvariant, StageAType, aVars
<1>6. UNCHANGED rVars => ResolverType'
  BY DEF TypeInvariant, ResolverType, rVars
<1>7. UNCHANGED <<oVars, delivered>> => OutputType'
  BY DEF TypeInvariant, OutputType, oVars
<1> QED BY <1>1, <1>2, <1>3, <1>4, <1>5, <1>6, <1>7

\* The dispatcher cuts at a believed boundary that is far enough on.
LEMMA NextBoundaryType ==
    ASSUME TypeInvariant
    PROVE  LET b == NextBoundary(item.start) IN
           b \in Position /\ (b # NoHint => b \in candidates /\ b >= item.start + ChunkBits)
<1> DEFINE found == {c \in candidates : c >= item.start + ChunkBits}
           b == NextBoundary(item.start)
<1>1. NumBlocks \in Nat /\ candidates \subseteq 1 .. EndOfInput - 1 /\ EndOfInput \in Nat
  BY ConstantTypes, StreamingAssumption DEF TypeInvariant, InputType, EndOfInput, Bit
<1>2. NoHint \in Position /\ 1 .. EndOfInput - 1 \subseteq Position
  BY <1>1 DEF Position, NoHint
<1>3. CASE found = {}
  BY <1>2, <1>3 DEF NextBoundary
<1>4. CASE found # {}
  <2>1. b = Min(found)
    BY <1>4 DEF NextBoundary
  <2>2. found \subseteq Nat
    <3>1. \A x \in candidates : x \in Nat
      BY <1>1
    <3> QED BY <3>1
  <2> HIDE DEF found
  <2>3. Min(found) \in found
    BY <1>4, <2>2, MinProperty
  <2>4. b \in candidates /\ b >= item.start + ChunkBits
    BY <2>1, <2>3 DEF found
  <2> QED BY <1>1, <1>2, <2>4
<1> QED BY <1>3, <1>4

LEMMA DispatchTypes == TypeInvariant /\ Dispatch => TypeInvariant'
<1> SUFFICES ASSUME TypeInvariant, Dispatch PROVE TypeInvariant'
  OBVIOUS
<1>1. UNCHANGED inputVars /\ UNCHANGED <<result, resolve, done, wVars, aVars, rVars, oVars, sinkVars>>
  BY Zenon DEF Dispatch, DispatchRead, DispatchReadFails, DispatchToken, DispatchTokensGone,
      DispatchSend, DispatchSendFails
<1>2. InputType' /\ WorkerType' /\ StageAType' /\ ResolverType' /\ OutputType'
  BY <1>1, FrameTypes DEF sinkVars
<1>3. /\ tokens \in Nat /\ item \in Item /\ dRes \in {"none", "ok", "io", "workers gone"}
      /\ work \in Seq(Item)
      /\ item.id \in Nat \ {0} /\ item.start \in Position /\ item.hint \in Position /\ NoHint \in Position
      /\ dPc \in {"read", "token", "send", "exited"}
  <2>1. NoHint \in Position
    BY ConstantTypes DEF Position, NoHint, EndOfInput, Bit
  <2>2. /\ tokens \in Nat /\ item \in Item /\ dRes \in {"none", "ok", "io", "workers gone"}
        /\ work \in Seq(Item) /\ dPc \in {"read", "token", "send", "exited"}
    BY Zenon DEF TypeInvariant, DispatchType, ChannelType
  <2> QED BY <2>1, <2>2 DEF Item
<1>4. CASE DispatchRead
  <2>1. /\ UNCHANGED <<tokens, work>>
        /\ \/ dPc' = "exited" /\ dRes' = "ok" /\ UNCHANGED item
           \/ item' = [item EXCEPT !.hint = NextBoundary(item.start)] /\ dPc' = "token" /\ UNCHANGED dRes
    BY <1>4, Zenon DEF DispatchRead, DispatcherExits
  <2>2. NextBoundary(item.start) \in Position
    BY NextBoundaryType
  <2>3. item' \in Item
    BY <1>3, <2>1, <2>2 DEF Item
  <2>4. DispatchType'
    BY <1>3, <2>1, <2>3 DEF DispatchType
  <2> QED BY <1>1, <1>2, <2>1, <2>4, FrameTypes DEF TypeInvariant
<1>5. CASE DispatchReadFails \/ DispatchTokensGone \/ DispatchSendFails
  <2>1. UNCHANGED <<tokens, work, item>> /\ dPc' = "exited" /\ dRes' \in {"io", "ok", "workers gone"}
    BY <1>5 DEF DispatchReadFails, DispatchTokensGone, DispatchSendFails, DispatcherExits
  <2>2. DispatchType'
    BY <1>3, <2>1 DEF DispatchType
  <2> QED BY <1>1, <1>2, <2>1, <2>2, FrameTypes DEF TypeInvariant
<1>6. CASE DispatchToken
  <2>1. UNCHANGED <<work, item, dRes>> /\ dPc' = "send" /\ tokens > 0 /\ tokens' = tokens - 1
    BY <1>6, Zenon DEF DispatchToken
  <2>2. tokens' \in Nat
    <3>1. tokens \in Nat
      BY <1>3
    <3> QED BY <2>1, <3>1
  <2>3. DispatchType'
    BY <1>3, <2>1, <2>2 DEF DispatchType
  <2> QED BY <1>1, <1>2, <2>1, <2>3, FrameTypes DEF TypeInvariant
<1>7. CASE DispatchSend
  <2>1. /\ UNCHANGED tokens /\ work' = Append(work, item)
        /\ \/ dPc' = "exited" /\ dRes' = "ok" /\ UNCHANGED item
           \/ /\ item' = [id |-> item.id + 1, start |-> item.hint, hint |-> NoHint]
              /\ dPc' = "read" /\ UNCHANGED dRes
    BY <1>7, Zenon DEF DispatchSend, DispatcherExits
  <2>2. item' \in Item
    <3>1. item.id + 1 \in Nat \ {0}
      <4>1. item.id \in Nat
        BY <1>3
      <4> QED BY <4>1
    <3>2. item.hint \in Position /\ NoHint \in Position /\ item \in Item
      BY <1>3
    <3>3. \A n \in Nat \ {0}, h \in Position : [id |-> n, start |-> h, hint |-> NoHint] \in Item
      BY <3>2 DEF Item
    <3> QED BY <2>1, <3>1, <3>2, <3>3, Zenon
  <2>3. DispatchType'
    BY <1>3, <2>1, <2>2 DEF DispatchType
  <2>4. work' \in Seq(Item)
    BY <1>3, <2>1, PutType
  <2>5. ChannelType'
    BY <1>1, <2>4 DEF TypeInvariant, ChannelType
  <2> QED BY <1>2, <2>3, <2>5 DEF TypeInvariant
<1> QED BY <1>4, <1>5, <1>6, <1>7 DEF Dispatch

\* What decode_item returns on a slice.
LEMMA DecodeItemType ==
    ASSUME NEW start \in Position, NEW hint \in Position, NEW r \in DecodeItem(start, hint)
    PROVE  r \in DecodeResult
<1>1. DecodeError \in DecodeResult
  BY ConstantTypes DEF DecodeError, DecodeResult, Value, Position, NoHint, EndOfInput, Bit
<1>2. ASSUME NEW q \in DecodeOneChunk(start, hint), r = [q EXCEPT !.final = q.final /\ hint = NoHint]
      PROVE  r \in DecodeResult
  <2>1. q \in DecodeResult
    BY DecodeType
  <2> DEFINE f == q.final /\ hint = NoHint
  <2>2. f \in BOOLEAN
    OBVIOUS
  <2> HIDE DEF f
  <2>3. r = [q EXCEPT !.final = f]
    BY <1>2, Zenon DEF f
  <2> QED BY <2>1, <2>2, <2>3 DEF DecodeResult
<1>3. r = DecodeError \/ \E q \in DecodeOneChunk(start, hint) : r = [q EXCEPT !.final = q.final /\ hint = NoHint]
  BY Zenon DEF DecodeItem
<1> QED BY <1>1, <1>2, <1>3

LEMMA WorkerTypes == ASSUME NEW w \in Workers PROVE TypeInvariant /\ Worker(w) => TypeInvariant'
<1> SUFFICES ASSUME TypeInvariant, Worker(w) PROVE TypeInvariant'
  OBVIOUS
<1>1. UNCHANGED inputVars /\ UNCHANGED <<resolve, done, tokens, dVars, aVars, rVars, oVars, sinkVars>>
  BY Zenon DEF Worker, WorkerRecv, WorkerSend, WorkerExit
<1>2. InputType' /\ DispatchType' /\ StageAType' /\ ResolverType' /\ OutputType'
  BY <1>1, FrameTypes DEF sinkVars
<1>3. NoOutcome \in Outcome
  BY Empties
<1>4. CASE WorkerRecv(w)
  <2>1. PICK r \in DecodeItem(Head(work).start, Head(work).hint) :
          wHold' = [wHold EXCEPT ![w] = [id |-> Head(work).id, res |-> r]]
    BY <1>4, Zenon DEF WorkerRecv
  <2>2. work # <<>> /\ work' = Tail(work) /\ UNCHANGED result /\ wPc' = [wPc EXCEPT ![w] = "send"]
    BY <1>4, Zenon DEF WorkerRecv
  <2>3. Head(work) \in Item /\ Tail(work) \in Seq(Item)
    BY <2>2, TakeType DEF TypeInvariant, ChannelType
  <2>4. r \in DecodeResult /\ Head(work).id \in Nat
    BY <2>1, <2>3, DecodeItemType DEF Item
  <2>5. [id |-> Head(work).id, res |-> r] \in Outcome
    BY <2>4 DEF Outcome
  <2>6. WorkerType'
    BY <2>1, <2>2, <2>5 DEF TypeInvariant, WorkerType
  <2>7. ChannelType'
    BY <1>1, <2>2, <2>3 DEF TypeInvariant, ChannelType
  <2> QED BY <1>2, <2>6, <2>7 DEF TypeInvariant
<1>5. CASE WorkerSend(w)
  <2>1. wHold[w] \in Outcome
    BY DEF TypeInvariant, WorkerType
  <2>2. result' \in Seq(Outcome) /\ UNCHANGED work
    BY <1>5, <2>1, PutType DEF WorkerSend, TypeInvariant, ChannelType
  <2>3. ChannelType'
    BY <1>1, <2>2 DEF TypeInvariant, ChannelType
  <2>4. WorkerType'
    BY <1>3, <1>5 DEF WorkerSend, TypeInvariant, WorkerType
  <2> QED BY <1>2, <2>3, <2>4 DEF TypeInvariant
<1>6. CASE WorkerExit(w)
  <2>1. WorkerType'
    BY <1>3, <1>6 DEF WorkerExit, TypeInvariant, WorkerType
  <2>2. UNCHANGED <<work, result>>
    BY <1>6, Zenon DEF WorkerExit
  <2> QED BY <1>1, <1>2, <2>1, <2>2, FrameTypes DEF TypeInvariant
<1> QED BY <1>4, <1>5, <1>6 DEF Worker

\* The job stage A makes of an outcome.
JobOf(o, tail) == [id |-> o.id, first |-> o.res.first, next |-> o.res.next, final |-> o.res.final, tail |-> tail]

\* What a step of stage A does.
LEMMA ForwardStep ==
    ASSUME StageAForward
    PROVE  /\ aPc = "run"
           /\ UNCHANGED <<inputVars, tokens, abort, work, result, done, dVars, wVars, rVars, oVars, sinkVars, status>>
           /\ \E o \in aReorder :
                 /\ o.id = aNext /\ aReorder' = aReorder \ {o}
                 /\ prevTail' = NextTail(o.res.first, o.res.next, prevTail)
                 /\ \/ /\ ResolveRxAlive /\ resolve' = Append(resolve, JobOf(o, prevTail))
                       /\ ~o.res.final /\ aNext' = aNext + 1 /\ aPc' = "run"
                    \/ /\ ResolveRxAlive /\ resolve' = Append(resolve, JobOf(o, prevTail))
                       /\ o.res.final /\ UNCHANGED aNext /\ aPc' = "exited"
                    \/ ~ResolveRxAlive /\ UNCHANGED <<resolve, aNext>> /\ aPc' = "exited"
BY ZenonT(30) DEF StageAForward, AReady, JobOf

LEMMA StageATypes == TypeInvariant /\ StageA => TypeInvariant'
<1> SUFFICES ASSUME TypeInvariant, StageA PROVE TypeInvariant'
  OBVIOUS
<1>1. UNCHANGED inputVars /\ UNCHANGED <<work, tokens, dVars, wVars, rVars, oVars, sinkVars>>
  BY Zenon DEF StageA, StageAForward, StageARecv, StageAFail, StageAEnd
<1>2. InputType' /\ DispatchType' /\ WorkerType' /\ ResolverType' /\ OutputType'
  BY <1>1, FrameTypes DEF sinkVars
<1>3. /\ aReorder \in SUBSET Outcome /\ aNext \in Nat \ {0} /\ prevTail \in Seq(Value)
      /\ resolve \in Seq(Job) /\ result \in Seq(Outcome) /\ done \in Seq(DoneMsg) /\ aPc \in {"run", "fail", "exited"}
  BY Zenon DEF TypeInvariant, StageAType, ChannelType
<1>4. CASE StageAForward
  <2>1. PICK o \in aReorder :
          /\ o.id = aNext /\ aReorder' = aReorder \ {o}
          /\ prevTail' = NextTail(o.res.first, o.res.next, prevTail)
          /\ UNCHANGED resolve \/ resolve' = Append(resolve, JobOf(o, prevTail))
          /\ aNext' = aNext + 1 \/ aNext' = aNext
          /\ aPc' = "run" \/ aPc' = "exited"
    BY <1>4, ForwardStep, Zenon
  <2>2. o \in Outcome
    BY <1>3
  <2>3. /\ o.id \in Nat /\ o.res.first \in Value \cup {NumBlocks} /\ o.res.next \in Value \cup {NumBlocks}
        /\ o.res.final \in BOOLEAN
    BY <2>2, Zenon DEF Outcome, DecodeResult
  <2>4. prevTail' \in Seq(Value)
    BY <1>3, <2>1, <2>3, NextTailType
  <2>5. JobOf(o, prevTail) \in Job
    BY <1>3, <2>3, Zenon DEF JobOf, Job
  <2>6. resolve' \in Seq(Job) /\ UNCHANGED <<result, done>>
    <3>1. UNCHANGED <<result, done>>
      BY <1>4, ForwardStep, Zenon
    <3> QED BY <1>3, <2>1, <2>5, <3>1, PutType
  <2>7. aNext' \in Nat \ {0}
    <3>1. aNext \in Nat /\ aNext # 0
      BY <1>3
    <3> QED BY <2>1, <3>1
  <2>8. StageAType'
    BY <1>3, <2>1, <2>4, <2>7 DEF StageAType
  <2>9. ChannelType'
    BY <1>1, <1>3, <2>6 DEF TypeInvariant, ChannelType
  <2> QED BY <1>2, <2>8, <2>9 DEF TypeInvariant
<1>5. CASE StageARecv
  <2>1. /\ result # <<>> /\ result' = Tail(result) /\ UNCHANGED <<resolve, done, aNext, prevTail>>
        /\ aReorder' = aReorder \/ aReorder' = aReorder \cup {Head(result)}
        /\ aPc' = aPc \/ aPc' = "fail"
    BY <1>5, Zenon DEF StageARecv
  <2>2. Head(result) \in Outcome /\ Tail(result) \in Seq(Outcome)
    BY <1>3, <2>1, TakeType
  <2>3. StageAType'
    BY <1>3, <2>1, <2>2 DEF StageAType
  <2>4. ChannelType'
    BY <1>1, <1>3, <2>1, <2>2 DEF TypeInvariant, ChannelType
  <2> QED BY <1>2, <2>3, <2>4 DEF TypeInvariant
<1>6. CASE StageAFail \/ StageAEnd
  <2>1. /\ UNCHANGED <<result, resolve, aReorder, aNext, prevTail>> /\ aPc' = "exited"
        /\ done' = done \/ done' = Append(done, DoneError("decode"))
    BY <1>6, Zenon DEF StageAFail, StageAEnd
  <2>2. DoneError("decode") \in DoneMsg
    BY Empties DEF FaultKind
  <2>3. done' \in Seq(DoneMsg)
    BY <1>3, <2>1, <2>2, PutType, Zenon
  <2>4. StageAType'
    BY <1>3, <2>1 DEF StageAType
  <2>5. ChannelType'
    BY <1>1, <1>3, <2>1, <2>3 DEF TypeInvariant, ChannelType
  <2> QED BY <1>2, <2>4, <2>5 DEF TypeInvariant
<1> QED BY <1>4, <1>5, <1>6 DEF StageA

LEMMA ResolvedTypes ==
    ASSUME NEW job \in Job
    PROVE  Resolved(job) \in DoneMsg
<1>1. /\ job.id \in Nat /\ job.first \in Value \cup {NumBlocks} /\ job.next \in Value \cup {NumBlocks}
      /\ job.final \in BOOLEAN
  BY Zenon DEF Job
<1>2. ResolvedBytes(job.first, job.next, job.tail) \in Seq(Value)
  BY <1>1, ResolvedBytesType
<1>3. DoneError("resolve") \in DoneMsg
  BY Empties DEF FaultKind
<1> QED BY <1>1, <1>2, <1>3 DEF Resolved, DoneMsg

LEMMA ResolverTypes == ASSUME NEW r \in Resolvers PROVE TypeInvariant /\ Resolver(r) => TypeInvariant'
<1> SUFFICES ASSUME TypeInvariant, Resolver(r) PROVE TypeInvariant'
  OBVIOUS
<1>1. UNCHANGED inputVars /\ UNCHANGED <<work, result, tokens, dVars, wVars, aVars, oVars, sinkVars>>
  BY Zenon DEF Resolver, ResolverRecv, ResolverSend, ResolverExit
<1>2. InputType' /\ DispatchType' /\ WorkerType' /\ StageAType' /\ OutputType'
  BY <1>1, FrameTypes DEF sinkVars
<1>3. NoDone \in DoneMsg
  BY Empties
<1>4. CASE ResolverRecv(r)
  <2>1. /\ resolve # <<>> /\ resolve' = Tail(resolve) /\ UNCHANGED done
        /\ rHold' = [rHold EXCEPT ![r] = Resolved(Head(resolve))] /\ rPc' = [rPc EXCEPT ![r] = "send"]
    BY <1>4, Zenon DEF ResolverRecv
  <2>2. Head(resolve) \in Job /\ Tail(resolve) \in Seq(Job)
    BY <2>1, TakeType DEF TypeInvariant, ChannelType
  <2>3. Resolved(Head(resolve)) \in DoneMsg
    BY <2>2, ResolvedTypes
  <2>4. ResolverType'
    BY <2>1, <2>3 DEF TypeInvariant, ResolverType
  <2>5. ChannelType'
    BY <1>1, <2>1, <2>2 DEF TypeInvariant, ChannelType
  <2> QED BY <1>2, <2>4, <2>5 DEF TypeInvariant
<1>5. CASE ResolverSend(r)
  <2>1. rHold[r] \in DoneMsg
    BY DEF TypeInvariant, ResolverType
  <2>2. done' \in Seq(DoneMsg) /\ UNCHANGED resolve
    BY <1>5, <2>1, PutType DEF ResolverSend, TypeInvariant, ChannelType
  <2>3. ChannelType'
    BY <1>1, <2>2 DEF TypeInvariant, ChannelType
  <2>4. ResolverType'
    BY <1>3, <1>5 DEF ResolverSend, TypeInvariant, ResolverType
  <2> QED BY <1>2, <2>3, <2>4 DEF TypeInvariant
<1>6. CASE ResolverExit(r)
  <2>1. ResolverType'
    BY <1>3, <1>6 DEF ResolverExit, TypeInvariant, ResolverType
  <2>2. UNCHANGED <<resolve, done>>
    BY <1>6, Zenon DEF ResolverExit
  <2> QED BY <1>1, <1>2, <2>1, <2>2, FrameTypes DEF TypeInvariant
<1> QED BY <1>4, <1>5, <1>6 DEF Resolver

\* What a step of the output stage does.
LEMMA MismatchStep ==
    ASSUME OutputMismatch
    PROVE  /\ oPc = "run" /\ oPc' = "abort"
           /\ UNCHANGED <<inputVars, tokens, abort, work, result, resolve, done, oNext, curMember, dVars, wVars, aVars,
                          rVars, sinkVars, status>>
           /\ \E d \in oReorder : /\ d.id = oNext /\ oReorder' = oReorder \ {d}
                                  /\ outErr' \in TrailerVerdicts(d) /\ outErr' # "none"
BY ZenonT(30) DEF OutputMismatch, OReady

LEMMA SendStep ==
    ASSUME OutputSend
    PROVE  /\ oPc = "run" /\ (dPc # "exited" => tokens < InflightCap) /\ tokens' = TokenReturned
           /\ UNCHANGED <<inputVars, abort, work, result, resolve, done, dVars, wVars, aVars, rVars, status>>
           /\ \E d \in oReorder :
                 /\ d.id = oNext /\ "none" \in TrailerVerdicts(d) /\ oReorder' = oReorder \ {d}
                 /\ curMember' = CarriedBytes(d.first, d.next, d.bytes, curMember)
                 /\ \/ /\ delivered' = delivered \o d.bytes /\ oNext' = oNext + 1 /\ UNCHANGED outErr
                       /\ \/ d.final /\ oPc' = "abort"
                          \/ ~d.final /\ oPc' = "run"
                    \/ UNCHANGED <<delivered, oNext>> /\ outErr' = "closed" /\ oPc' = "abort"
BY ZenonT(30) DEF OutputSend, OReady

LEMMA RecvStep ==
    ASSUME OutputRecv
    PROVE  /\ oPc = "run" /\ (\A d \in oReorder : d.id # oNext)
           /\ UNCHANGED <<inputVars, tokens, abort, work, result, resolve, oNext, curMember, dVars, wVars, aVars, rVars,
                          sinkVars, status>>
           /\ \/ done = <<>> /\ ~DoneTxAlive /\ UNCHANGED <<done, oReorder, outErr>> /\ oPc' = "abort"
              \/ /\ done # <<>> /\ done' = Tail(done) /\ Head(done).err = "none"
                 /\ oReorder' = oReorder \cup {Head(done)} /\ UNCHANGED outErr /\ oPc' = "run"
              \/ /\ done # <<>> /\ done' = Tail(done) /\ Head(done).err # "none"
                 /\ outErr' = Head(done).err /\ UNCHANGED oReorder /\ oPc' = "abort"
BY ZenonT(30) DEF OutputRecv, OReady

\* What the teardown does.
Teardown == SetAbort \/ DropTokenTx \/ DropDoneRx \/ JoinAndReturn

LEMMA TeardownStep ==
    ASSUME Teardown
    PROVE  /\ UNCHANGED <<inputVars, tokens, work, result, resolve, done, oReorder, oNext, curMember, outErr, dVars, wVars,
                          aVars, rVars, sinkVars>>
           /\ oPc # "run" /\ oPc' \in {"dropTokens", "dropDone", "join", "returned"} /\ oPc # "returned"
BY DEF Teardown, SetAbort, DropTokenTx, DropDoneRx, JoinAndReturn

LEMMA OutputCases == Output <=> OutputMismatch \/ OutputSend \/ OutputRecv \/ Teardown
BY Zenon DEF Output, Teardown

LEMMA OutputTypes == TypeInvariant /\ Output => TypeInvariant'
<1> SUFFICES ASSUME TypeInvariant, Output PROVE TypeInvariant'
  OBVIOUS
<1>1. UNCHANGED inputVars /\ UNCHANGED <<work, result, resolve, dVars, wVars, aVars, rVars>>
  BY OutputCases, MismatchStep, SendStep, RecvStep, TeardownStep, Zenon
<1>2. InputType' /\ WorkerType' /\ StageAType' /\ ResolverType'
  BY <1>1, FrameTypes
<1>3. /\ oReorder \in SUBSET DoneMsg /\ oNext \in Nat \ {0} /\ curMember \in Seq(Value) /\ delivered \in Seq(Value)
      /\ outErr \in FaultKind \cup {"none", "closed"} /\ tokens \in Nat /\ done \in Seq(DoneMsg)
      /\ oPc \in {"run", "abort", "dropTokens", "dropDone", "join", "returned"}
  BY Zenon DEF TypeInvariant, OutputType, DispatchType, ChannelType
<1>4. CASE OutputMismatch
  <2>1. PICK d \in oReorder : oReorder' = oReorder \ {d} /\ outErr' \in TrailerVerdicts(d) /\ outErr' # "none"
    BY <1>4, MismatchStep, Zenon
  <2>2. oPc' = "abort" /\ UNCHANGED <<tokens, done, oNext, curMember, sinkVars>>
    BY <1>4, MismatchStep, Zenon
  <2>3. TrailerVerdicts(d) \subseteq {"none", "crc", "isize"}
    BY ChunkVerdictType DEF TrailerVerdicts
  <2>4. outErr' \in FaultKind
    BY <2>1, <2>3 DEF FaultKind
  <2>5. OutputType'
    BY <1>3, <2>1, <2>2, <2>4 DEF OutputType, sinkVars
  <2> QED BY <1>1, <1>2, <2>2, <2>5, FrameTypes DEF TypeInvariant
<1>5. CASE OutputSend
  <2>1. PICK d \in oReorder :
          /\ oReorder' = oReorder \ {d} /\ curMember' = CarriedBytes(d.first, d.next, d.bytes, curMember)
          /\ delivered' = delivered \o d.bytes \/ delivered' = delivered
          /\ oNext' = oNext + 1 \/ oNext' = oNext
          /\ outErr' = outErr \/ outErr' = "closed"
          /\ oPc' = "abort" \/ oPc' = "run"
    BY <1>5, SendStep, Zenon
  <2>2. tokens' = TokenReturned /\ UNCHANGED done
    BY <1>5, SendStep, Zenon
  <2>3. d.first \in Value \cup {NumBlocks} /\ d.next \in Value \cup {NumBlocks} /\ d.bytes \in Seq(Value)
    BY <1>3, Zenon DEF DoneMsg
  <2>4. curMember' \in Seq(Value)
    BY <1>3, <2>1, <2>3, CarriedBytesType
  <2>5. delivered' \in Seq(Value)
    <3>1. \A s, t \in Seq(Value) : s \o t \in Seq(Value)
      BY ConcatProperties
    <3> QED BY <1>3, <2>1, <2>3, <3>1, Zenon
  <2>6. oNext' \in Nat \ {0}
    <3>1. oNext \in Nat /\ oNext # 0
      BY <1>3
    <3> QED BY <2>1, <3>1
  <2>7. tokens' \in Nat
    <3>1. tokens \in Nat
      BY <1>3
    <3> QED BY <2>2, <3>1 DEF TokenReturned
  <2>8. DispatchType'
    BY <1>1, <2>7 DEF TypeInvariant, DispatchType, dVars
  <2>9. OutputType'
    BY <1>3, <2>1, <2>4, <2>5, <2>6 DEF OutputType
  <2> QED BY <1>1, <1>2, <2>2, <2>8, <2>9, FrameTypes DEF TypeInvariant
<1>6. CASE OutputRecv
  <2>1. /\ done' = done \/ (done # <<>> /\ done' = Tail(done))
        /\ oReorder' = oReorder \/ (done # <<>> /\ oReorder' = oReorder \cup {Head(done)})
        /\ outErr' = outErr \/ (done # <<>> /\ Head(done).err # "none" /\ outErr' = Head(done).err)
        /\ oPc' = "abort" \/ oPc' = "run"
    BY <1>6, RecvStep, Zenon
  <2>2. UNCHANGED <<tokens, oNext, curMember, sinkVars>>
    BY <1>6, RecvStep, Zenon
  <2>3. done # <<>> => Head(done) \in DoneMsg /\ Tail(done) \in Seq(DoneMsg)
    BY <1>3, TakeType
  <2>4. \A d \in DoneMsg : d.err \in FaultKind \cup {"none"}
    BY Zenon DEF DoneMsg
  <2>5. outErr' \in FaultKind \cup {"none", "closed"}
    BY <1>3, <2>1, <2>3, <2>4
  <2>6. OutputType'
    BY <1>3, <2>1, <2>2, <2>3, <2>5 DEF OutputType, sinkVars
  <2>7. ChannelType'
    BY <1>1, <1>3, <2>1, <2>3 DEF TypeInvariant, ChannelType
  <2>8. DispatchType'
    BY <1>1, <2>2, FrameTypes
  <2> QED BY <1>2, <2>6, <2>7, <2>8 DEF TypeInvariant
<1>7. CASE Teardown
  <2>1. UNCHANGED <<tokens, done, oReorder, oNext, curMember, outErr, sinkVars>>
    BY <1>7, TeardownStep, Zenon
  <2>2. oPc' \in {"dropTokens", "dropDone", "join", "returned"}
    BY <1>7, TeardownStep
  <2>3. OutputType'
    BY <1>3, <2>1, <2>2 DEF OutputType, sinkVars
  <2> QED BY <1>1, <1>2, <2>1, <2>3, FrameTypes DEF TypeInvariant
<1> QED BY <1>4, <1>5, <1>6, <1>7, OutputCases

\* The consumer of the sink touches nothing else.
LEMMA ConsumerStep ==
    ASSUME ConsumerRecv \/ ConsumerHangsUp \/ UNCHANGED vars
    PROVE  UNCHANGED <<inputVars, tokens, abort, work, result, resolve, done, dVars, wVars, aVars, rVars, oVars, delivered,
                       status>>
BY Zenon DEF ConsumerRecv, ConsumerHangsUp, vars, sinkVars

LEMMA NextCases ==
    ASSUME [Next]_vars
    PROVE  \/ Dispatch \/ (\E w \in Workers : Worker(w)) \/ StageA \/ (\E r \in Resolvers : Resolver(r)) \/ Output
           \/ ConsumerRecv \/ ConsumerHangsUp \/ UNCHANGED vars
BY Zenon DEF Next, Returned

\* Every variable of the pipe decode keeps to the values its type in the code
\* allows, for every input and every choice of the boundaries.
THEOREM StreamTypeCorrect == Spec => []TypeInvariant
<1>1. TypeInvariant /\ [Next]_vars => TypeInvariant'
  <2> SUFFICES ASSUME TypeInvariant, [Next]_vars PROVE TypeInvariant'
    OBVIOUS
  <2>1. CASE ConsumerRecv \/ ConsumerHangsUp \/ UNCHANGED vars
    BY <2>1, ConsumerStep, FrameTypes DEF TypeInvariant
  <2> QED BY <2>1, NextCases, DispatchTypes, WorkerTypes, StageATypes, ResolverTypes, OutputTypes, Zenon
<1> QED BY <1>1, InitTypes, PTL DEF Spec

-----------------------------------------------------------------------------
(* A slice is in one place only. *)

\* Receiving from a channel of slices, and sending to one.
LEMMA ChannelTake ==
    ASSUME NEW S, NEW ch \in Seq(S), ch # <<>>, ChannelDistinct(ch)
    PROVE  /\ ChannelDistinct(Tail(ch)) /\ Head(ch).id # 0 /\ Head(ch).id \in IdsIn(ch)
           /\ IdsIn(Tail(ch)) = IdsIn(ch) \ {Head(ch).id}
<1> DEFINE c == Tail(ch)
<1>1. /\ 1 \in DOMAIN ch /\ Head(ch) = ch[1]
      /\ \A i \in DOMAIN c : i + 1 \in DOMAIN ch /\ c[i] = ch[i + 1]
      /\ \A i \in DOMAIN ch : i = 1 \/ (i - 1 \in DOMAIN c /\ c[i - 1] = ch[i])
      /\ \A i \in DOMAIN c : i + 1 # 1
      /\ \A i, j \in DOMAIN c : i + 1 = j + 1 => i = j
  BY TakeDomain
<1> HIDE DEF c
<1>2. ChannelDistinct(c)
  BY <1>1 DEF ChannelDistinct
<1>3. \A n : n \in IdsIn(c) <=> n \in IdsIn(ch) /\ n # ch[1].id
  BY <1>1 DEF IdsIn, ChannelDistinct
<1>4. IdsIn(c) = IdsIn(ch) \ {ch[1].id}
  BY <1>3
<1>5. ch[1].id # 0 /\ ch[1].id \in IdsIn(ch)
  BY <1>1 DEF IdsIn, ChannelDistinct
<1> QED BY <1>1, <1>2, <1>4, <1>5, Zenon DEF c

LEMMA ChannelPut ==
    ASSUME NEW S, NEW ch \in Seq(S), ChannelDistinct(ch), NEW m \in S, m.id # 0, m.id \notin IdsIn(ch)
    PROVE  ChannelDistinct(Append(ch, m)) /\ IdsIn(Append(ch, m)) = IdsIn(ch) \cup {m.id}
<1> DEFINE c == Append(ch, m)
<1>1. \A i \in DOMAIN ch : i \in DOMAIN c /\ c[i] = ch[i]
  BY PutDomain
<1>2. PICK l \in DOMAIN c : c[l] = m /\ l \notin DOMAIN ch /\ \A i \in DOMAIN c : i = l \/ i \in DOMAIN ch
  BY PutDomain
<1> HIDE DEF c
<1>3. \A i \in DOMAIN ch : ch[i].id # m.id
  BY DEF IdsIn
<1>4. ChannelDistinct(c)
  BY <1>1, <1>2, <1>3 DEF ChannelDistinct
<1>5. \A n : n \in IdsIn(c) <=> n \in IdsIn(ch) \/ n = m.id
  BY <1>1, <1>2 DEF IdsIn
<1>6. IdsIn(c) = IdsIn(ch) \cup {m.id}
  BY <1>5
<1> QED BY <1>4, <1>6 DEF c

\* The types the lemmas about pools need.
LEMMA PoolTypes ==
    ASSUME TypeInvariant
    PROVE  /\ work \in Seq(Item) /\ wHold \in [Workers -> Outcome] /\ result \in Seq(Outcome)
           /\ aReorder \in SUBSET Outcome /\ resolve \in Seq(Job) /\ rHold \in [Resolvers -> DoneMsg]
           /\ done \in Seq(DoneMsg) /\ oReorder \in SUBSET DoneMsg
           /\ item \in Item /\ item.id \in Nat /\ item.id # 0
           /\ aNext \in Nat /\ aNext # 0 /\ oNext \in Nat /\ oNext # 0
<1>1. item \in Item
  BY Zenon DEF TypeInvariant, DispatchType
<1>2. item.id \in Nat /\ item.id # 0
  BY <1>1 DEF Item
<1> QED BY <1>1, <1>2 DEF TypeInvariant, ChannelType, WorkerType, StageAType, ResolverType, OutputType, DispatchType

\* The ids of the slices are numbers.
LEMMA IdTypes ==
    ASSUME TypeInvariant
    PROVE  \A n \in AllIds : n \in Nat
<1>1. /\ \A x \in Item : x.id \in Nat
      /\ \A x \in Outcome : x.id \in Nat
      /\ \A x \in Job : x.id \in Nat
      /\ \A x \in DoneMsg : x.id \in Nat
  <2>1. \A x \in Item : x.id \in Nat
    BY DEF Item
  <2> QED BY <2>1, Zenon DEF Outcome, Job, DoneMsg
<1>2. \A S : \A ch \in Seq(S) : \A i \in DOMAIN ch : ch[i] \in S
  OBVIOUS
<1>3. /\ \A i \in DOMAIN work : work[i] \in Item
      /\ \A i \in DOMAIN result : result[i] \in Outcome
      /\ \A i \in DOMAIN resolve : resolve[i] \in Job
      /\ \A i \in DOMAIN done : done[i] \in DoneMsg
  BY <1>2, PoolTypes, Zenon
<1>4. /\ \A w \in DOMAIN wHold : wHold[w] \in Outcome
      /\ \A r \in DOMAIN rHold : rHold[r] \in DoneMsg
  BY PoolTypes
<1>5. aReorder \subseteq Outcome /\ oReorder \subseteq DoneMsg
  BY PoolTypes
<1>6. /\ \A n \in WorkIds : n \in Nat
      /\ \A n \in JobIds : n \in Nat
  BY <1>1, <1>3, Zenon DEF WorkIds, JobIds, IdsIn
<1>7. /\ \A n \in DecodedIds : n \in Nat
      /\ \A n \in ResolvedIds : n \in Nat
  BY <1>1, <1>3, <1>4, <1>5, ZenonT(30) DEF DecodedIds, ResolvedIds, PoolIds
<1> QED BY <1>6, <1>7, Zenon DEF AllIds

\* A step after the dispatcher makes no new slice.
LEMMA BelowStays ==
    ASSUME IdsBelow, AllIds' \subseteq AllIds, UNCHANGED dVars
    PROVE  IdsBelow'
BY DEF IdsBelow, dVars

\* A part of the way that a step leaves alone keeps its slices.
LEMMA PlacesFrame ==
    ASSUME PlacesDistinct
    PROVE  /\ UNCHANGED work => WorkIds' = WorkIds /\ ChannelDistinct(work)'
           /\ UNCHANGED <<wVars, result, aReorder>> =>
                 DecodedIds' = DecodedIds /\ PoolDistinct(wHold, result, aReorder)'
           /\ UNCHANGED resolve => JobIds' = JobIds /\ ChannelDistinct(resolve)'
           /\ UNCHANGED <<rVars, done, oReorder>> =>
                 ResolvedIds' = ResolvedIds /\ PoolDistinct(rHold, done, oReorder)'
<1>1. UNCHANGED work => WorkIds' = WorkIds /\ ChannelDistinct(work)'
  BY DEF PlacesDistinct, WorkIds, ChannelDistinct, IdsIn
<1>2. UNCHANGED <<wVars, result, aReorder>> => DecodedIds' = DecodedIds /\ PoolDistinct(wHold, result, aReorder)'
  BY DEF PlacesDistinct, DecodedIds, wVars, PoolDistinct, PoolIds
<1>3. UNCHANGED resolve => JobIds' = JobIds /\ ChannelDistinct(resolve)'
  BY DEF PlacesDistinct, JobIds, ChannelDistinct, IdsIn
<1>4. UNCHANGED <<rVars, done, oReorder>> => ResolvedIds' = ResolvedIds /\ PoolDistinct(rHold, done, oReorder)'
  BY DEF PlacesDistinct, ResolvedIds, rVars, PoolDistinct, PoolIds
<1> QED BY <1>1, <1>2, <1>3, <1>4, Zenon

LEMMA DispatchIds ==
    ASSUME TypeInvariant, IdsOnce, Dispatch
    PROVE  /\ IdsOnce' /\ DecodedIds' = DecodedIds /\ JobIds' = JobIds /\ ResolvedIds' = ResolvedIds
           /\ \/ DispatchSend /\ WorkIds' = WorkIds \cup {item.id} /\ item.id \notin AllIds
              \/ ~DispatchSend /\ WorkIds' = WorkIds
<1>1. UNCHANGED <<result, resolve, done, wVars, aVars, rVars, oVars>>
  BY Zenon DEF Dispatch, DispatchRead, DispatchReadFails, DispatchToken, DispatchTokensGone, DispatchSend, DispatchSendFails
<1>2. dPc # "exited"
  BY DEF Dispatch, DispatchRead, DispatchReadFails, DispatchToken, DispatchTokensGone, DispatchSend, DispatchSendFails
<1>3. /\ DecodedIds' = DecodedIds /\ JobIds' = JobIds /\ ResolvedIds' = ResolvedIds
      /\ PoolDistinct(wHold, result, aReorder)' /\ ChannelDistinct(resolve)' /\ PoolDistinct(rHold, done, oReorder)'
  BY <1>1, PlacesFrame DEF IdsOnce, aVars, oVars
<1>4. HoldsEmpty'
  BY <1>1 DEF IdsOnce, HoldsEmpty, wVars, rVars, NoOutcome, NoDone
<1>5. CASE DispatchSend
  <2>1. work' = Append(work, item) /\ ((dPc' = "exited" /\ UNCHANGED item) \/ item'.id = item.id + 1)
    BY <1>5 DEF DispatchSend, DispatcherExits
  <2>2. item.id \notin AllIds
    BY <1>2 DEF IdsOnce, IdsBelow
  <2>3. ChannelDistinct(work)' /\ WorkIds' = WorkIds \cup {item.id}
    BY <2>1, <2>2, PoolTypes, ChannelPut DEF IdsOnce, PlacesDistinct, WorkIds, AllIds
  <2>4. PlacesApart'
    BY <1>3, <2>2, <2>3 DEF IdsOnce, PlacesApart, AllIds
  <2>5. \A n \in AllIds' : n \in AllIds \/ n = item.id
    BY <1>3, <2>3 DEF AllIds
  <2>6. \A n \in AllIds : n <= item.id
    BY DEF IdsOnce, IdsBelow
  <2>7. \A n \in AllIds : n \in Int
    BY IdTypes
  <2>8. IdsBelow'
    <3> SUFFICES ASSUME NEW n \in AllIds' PROVE (n <= item.id /\ (dPc # "exited" => n # item.id))'
      BY DEF IdsBelow
    <3>1. n \in Int /\ n <= item.id /\ item.id \in Int
      <4>1. item.id \in Int
        BY PoolTypes
      <4> HIDE DEF AllIds
      <4> QED BY <2>5, <2>6, <2>7, <4>1
    <3>2. CASE dPc' = "exited" /\ item' = item
      BY <3>1, <3>2
    <3>3. CASE item'.id = item.id + 1
      BY <3>1, <3>3
    <3> QED BY <2>1, <3>2, <3>3
  <2> QED BY <1>3, <1>4, <1>5, <2>2, <2>3, <2>4, <2>8 DEF IdsOnce, PlacesDistinct
<1>6. CASE ~DispatchSend
  <2>1. UNCHANGED work /\ item'.id = item.id
    <3>1. DispatchRead => UNCHANGED work /\ (UNCHANGED item \/ item' = [item EXCEPT !.hint = NextBoundary(item.start)])
      BY Zenon DEF DispatchRead
    <3>2. UNCHANGED work /\ (UNCHANGED item \/ item' = [item EXCEPT !.hint = NextBoundary(item.start)])
      BY <1>6, <3>1 DEF Dispatch, DispatchReadFails, DispatchToken, DispatchTokensGone, DispatchSendFails
    <3> QED BY <3>2, PoolTypes DEF Item
  <2>2. WorkIds' = WorkIds /\ ChannelDistinct(work)'
    BY <2>1, PlacesFrame DEF IdsOnce
  <2>3. PlacesApart' /\ AllIds' = AllIds
    BY <1>3, <2>2 DEF IdsOnce, PlacesApart, AllIds
  <2>4. IdsBelow'
    BY <1>2, <2>1, <2>3 DEF IdsOnce, IdsBelow
  <2> QED BY <1>3, <1>4, <1>6, <2>2, <2>3, <2>4 DEF IdsOnce, PlacesDistinct
<1> QED BY <1>5, <1>6

\* What a step of a worker does to the slices: it moves one, or drops one
\* once stage A is gone.
LEMMA WorkerIds ==
    ASSUME TypeInvariant, IdsOnce, NEW w \in Workers, Worker(w)
    PROVE  /\ IdsOnce' /\ JobIds' = JobIds /\ ResolvedIds' = ResolvedIds
           /\ \/ /\ WorkerRecv(w) /\ WorkIds' = WorkIds \ {Head(work).id}
                 /\ DecodedIds' = DecodedIds \cup {Head(work).id} /\ Head(work).id \in WorkIds
              \/ /\ ~WorkerRecv(w) /\ WorkIds' = WorkIds
                 /\ DecodedIds' = DecodedIds \/ (aPc = "exited" /\ DecodedIds' \subseteq DecodedIds)
<1>1. UNCHANGED <<resolve, done, dVars, aVars, rVars, oVars>>
  BY Zenon DEF Worker, WorkerRecv, WorkerSend, WorkerExit
<1>2. JobIds' = JobIds /\ ResolvedIds' = ResolvedIds /\ ChannelDistinct(resolve)' /\ PoolDistinct(rHold, done, oReorder)'
  BY <1>1, PlacesFrame DEF IdsOnce, oVars
<1>3. /\ wHold \in [Workers -> Outcome] /\ wPc \in [Workers -> {"recv", "send", "exited"}]
      /\ NoOutcome \in Outcome /\ NoOutcome.id = 0 /\ PoolDistinct(wHold, result, aReorder)
      /\ result \in Seq(Outcome) /\ aReorder \in SUBSET Outcome /\ aReorder' = aReorder
  BY <1>1, PoolTypes, Empties DEF TypeInvariant, WorkerType, IdsOnce, PlacesDistinct, aVars
<1>4. CASE WorkerRecv(w)
  <2>1. PICK r \in DecodeItem(Head(work).start, Head(work).hint) :
          wHold' = [wHold EXCEPT ![w] = [id |-> Head(work).id, res |-> r]]
    BY <1>4, Zenon DEF WorkerRecv
  <2>2. wPc[w] = "recv" /\ work # <<>> /\ work' = Tail(work) /\ UNCHANGED result /\ wPc' = [wPc EXCEPT ![w] = "send"]
    BY <1>4, Zenon DEF WorkerRecv
  <2>3. Head(work) \in Item
    BY <2>2, PoolTypes, TakeType
  <2>4. r \in DecodeResult /\ Head(work).id \in Nat
    BY <2>1, <2>3, DecodeItemType DEF Item
  <2> DEFINE m == [id |-> Head(work).id, res |-> r]
  <2>5. m \in Outcome /\ m.id = Head(work).id
    BY <2>4 DEF Outcome
  <2>6. wHold' = Taken(wHold, w, m)
    BY <2>1 DEF Taken
  <2> HIDE DEF m
  <2>7. /\ ChannelDistinct(work)' /\ Head(work).id # 0 /\ Head(work).id \in WorkIds
        /\ WorkIds' = WorkIds \ {Head(work).id}
    BY <2>2, PoolTypes, ChannelTake DEF IdsOnce, PlacesDistinct, WorkIds
  <2>8. m.id \notin PoolIds(wHold, result, aReorder) /\ wHold[w].id = 0
    BY <1>3, <2>2, <2>5, <2>7 DEF IdsOnce, PlacesApart, HoldsEmpty, DecodedIds
  <2>9. /\ PoolDistinct(wHold', result, aReorder)
        /\ PoolIds(wHold', result, aReorder) = PoolIds(wHold, result, aReorder) \cup ({m.id} \ {0})
    BY <1>3, <2>5, <2>6, <2>8, PoolTake
  <2>10. PoolDistinct(wHold, result, aReorder)' /\ DecodedIds' = DecodedIds \cup {Head(work).id}
    BY <1>3, <2>2, <2>5, <2>7, <2>9 DEF DecodedIds
  <2>11. HoldsEmpty'
    <3>1. \A v \in Workers : wPc'[v] # "send" => wHold'[v] = NoOutcome
      BY <1>3, <2>1, <2>2 DEF IdsOnce, HoldsEmpty
    <3> QED BY <1>1, <3>1 DEF IdsOnce, HoldsEmpty, rVars, NoOutcome, NoDone
  <2>12. PlacesApart' /\ AllIds' = AllIds
    BY <1>2, <2>7, <2>10 DEF IdsOnce, PlacesApart, AllIds
  <2> QED BY <1>1, <1>2, <1>4, <2>7, <2>10, <2>11, <2>12, BelowStays DEF IdsOnce, PlacesDistinct
<1>5. CASE ~WorkerRecv(w)
  <2>1. /\ UNCHANGED work /\ wHold' = [wHold EXCEPT ![w] = NoOutcome]
        /\ \/ result' = Append(result, wHold[w]) /\ wPc' = [wPc EXCEPT ![w] = "recv"]
           \/ result' = result /\ wPc' = [wPc EXCEPT ![w] = "exited"] /\ (wPc[w] = "recv" \/ aPc = "exited")
    BY <1>5, Zenon DEF Worker, WorkerSend, WorkerExit, ResultRxAlive
  <2>2. WorkIds' = WorkIds /\ ChannelDistinct(work)'
    BY <2>1, PlacesFrame DEF IdsOnce
  <2>3. HoldsEmpty'
    <3>1. \A v \in Workers : wPc'[v] # "send" => wHold'[v] = NoOutcome
      BY <1>3, <2>1 DEF IdsOnce, HoldsEmpty
    <3> QED BY <1>1, <3>1 DEF IdsOnce, HoldsEmpty, rVars, NoOutcome, NoDone
  <2>4. wHold' = Taken(wHold, w, NoOutcome)
    BY <2>1 DEF Taken
  <2>5. /\ PoolDistinct(wHold, result, aReorder)'
        /\ DecodedIds' = DecodedIds \/ (aPc = "exited" /\ DecodedIds' \subseteq DecodedIds)
    <3>1. CASE result' = Append(result, wHold[w])
      <4>1. result' = Sent(result, wHold[w])
        BY <3>1 DEF Sent
      <4>2. /\ PoolDistinct(wHold', result', aReorder)
            /\ PoolIds(wHold', result', aReorder) = PoolIds(wHold, result, aReorder)
        BY <1>3, <2>4, <4>1, PoolSend
      <4> QED BY <1>3, <4>2 DEF DecodedIds
    <3>2. CASE result' = result /\ (wPc[w] = "recv" \/ aPc = "exited")
      <4>1. /\ PoolDistinct(wHold', result, aReorder)
            /\ PoolIds(wHold', result, aReorder) = PoolIds(wHold, result, aReorder) \ {wHold[w].id}
        BY <1>3, <2>4, PoolDrop
      <4>2. wPc[w] = "recv" => wHold[w].id = 0
        BY <1>3 DEF IdsOnce, HoldsEmpty
      <4>3. 0 \notin PoolIds(wHold, result, aReorder)
        BY DEF PoolIds
      <4>4. wPc[w] = "recv" => PoolIds(wHold', result, aReorder) = PoolIds(wHold, result, aReorder)
        BY <4>1, <4>2, <4>3, Zenon
      <4> QED BY <1>3, <3>2, <4>1, <4>4 DEF DecodedIds
    <3> QED BY <2>1, <3>1, <3>2
  <2>6. PlacesApart' /\ AllIds' \subseteq AllIds
    BY <1>2, <2>2, <2>5 DEF IdsOnce, PlacesApart, AllIds
  <2> QED BY <1>1, <1>2, <1>5, <2>2, <2>3, <2>5, <2>6, BelowStays DEF IdsOnce, PlacesDistinct
<1> QED BY <1>4, <1>5

\* What a step of stage A does to the slices.
LEMMA StageAIds ==
    ASSUME TypeInvariant, IdsOnce, StageA
    PROVE  /\ IdsOnce' /\ WorkIds' = WorkIds /\ ResolvedIds' = ResolvedIds
           /\ \/ /\ StageAForward /\ aNext \in DecodedIds /\ DecodedIds' = DecodedIds \ {aNext}
                 /\ JobIds' = JobIds \/ JobIds' = JobIds \cup {aNext}
                 /\ ResolveRxAlive => JobIds' = JobIds \cup {aNext}
              \/ /\ ~StageAForward /\ JobIds' = JobIds
                 /\ DecodedIds' = DecodedIds \/ (aPc' = "fail" /\ DecodedIds' \subseteq DecodedIds)
<1>1. UNCHANGED <<work, dVars, wVars, rVars, oVars>>
  BY Zenon DEF StageA, StageAForward, StageARecv, StageAFail, StageAEnd
<1>2. WorkIds' = WorkIds /\ ChannelDistinct(work)'
  BY <1>1, PlacesFrame DEF IdsOnce
<1>3. HoldsEmpty'
  BY <1>1 DEF IdsOnce, HoldsEmpty, wVars, rVars, NoOutcome, NoDone
<1>4. /\ wHold \in [Workers -> Outcome] /\ wHold' = wHold /\ PoolDistinct(wHold, result, aReorder)
      /\ result \in Seq(Outcome) /\ aReorder \in SUBSET Outcome /\ aNext # 0
  BY <1>1, PoolTypes DEF IdsOnce, PlacesDistinct, wVars
<1>5. CASE StageAForward
  <2>1. PICK o \in aReorder :
          /\ o.id = aNext /\ aReorder' = aReorder \ {o}
          /\ \/ ResolveRxAlive /\ resolve' = Append(resolve, JobOf(o, prevTail))
             \/ ~ResolveRxAlive /\ UNCHANGED resolve
    BY <1>5, ForwardStep, Zenon
  <2>2. UNCHANGED <<result, done>>
    BY <1>5, ForwardStep, Zenon
  <2>3. ResolvedIds' = ResolvedIds /\ PoolDistinct(rHold, done, oReorder)'
    BY <1>1, <2>2, PlacesFrame DEF IdsOnce, oVars
  <2>4. aReorder' = Gone(aReorder, o)
    BY <2>1 DEF Gone
  <2>5. /\ PoolDistinct(wHold, result, aReorder')
        /\ PoolIds(wHold, result, aReorder') = PoolIds(wHold, result, aReorder) \ {o.id}
    BY <1>4, <2>4, PoolRemove
  <2>6. aNext \in DecodedIds /\ DecodedIds' = DecodedIds \ {aNext} /\ PoolDistinct(wHold, result, aReorder)'
    <3>1. o.id \in PoolIds(wHold, result, aReorder)
      BY <1>4, <2>1, Zenon DEF PoolIds
    <3> QED BY <1>4, <2>1, <2>2, <2>5, <3>1 DEF DecodedIds
  <2>7. aNext \notin JobIds /\ aNext \notin ResolvedIds
    BY <2>6 DEF IdsOnce, PlacesApart
  <2>8. /\ ChannelDistinct(resolve)' /\ (ResolveRxAlive => JobIds' = JobIds \cup {aNext})
        /\ ~ResolveRxAlive => JobIds' = JobIds
    <3>1. CASE ResolveRxAlive /\ resolve' = Append(resolve, JobOf(o, prevTail))
      <4>1. o \in Outcome /\ prevTail \in Seq(Value)
        BY <1>4, Zenon DEF TypeInvariant, StageAType
      <4>2. JobOf(o, prevTail) \in Job
        BY <4>1, Zenon DEF JobOf, Job, Outcome, DecodeResult
      <4>3. JobOf(o, prevTail).id = aNext
        BY <2>1 DEF JobOf
      <4> HIDE DEF JobOf
      <4> QED BY <1>4, <2>7, <3>1, <4>2, <4>3, PoolTypes, ChannelPut DEF IdsOnce, PlacesDistinct, JobIds
    <3>2. CASE ~ResolveRxAlive /\ UNCHANGED resolve
      BY <3>2, PlacesFrame DEF IdsOnce
    <3> QED BY <2>1, <3>1, <3>2
  <2>9. PlacesApart' /\ AllIds' \subseteq AllIds
    <3>1. JobIds' = JobIds \/ JobIds' = JobIds \cup {aNext}
      BY <2>8, Zenon
    <3> QED BY <1>2, <2>3, <2>6, <2>7, <3>1 DEF IdsOnce, PlacesApart, AllIds
  <2> QED BY <1>1, <1>2, <1>3, <1>5, <2>3, <2>6, <2>8, <2>9, BelowStays DEF IdsOnce, PlacesDistinct
<1>6. CASE ~StageAForward
  <2>1. UNCHANGED <<resolve, aNext>>
    BY <1>6, Zenon DEF StageA, StageARecv, StageAFail, StageAEnd
  <2>2. JobIds' = JobIds /\ ChannelDistinct(resolve)'
    BY <2>1, PlacesFrame DEF IdsOnce
  <2>3. CASE StageARecv
    <3>1. /\ result # <<>> /\ result' = Tail(result) /\ UNCHANGED done
          /\ aReorder' = aReorder \cup {Head(result)} \/ (aReorder' = aReorder /\ aPc' = "fail")
      BY <2>3, Zenon DEF StageARecv
    <3>0. result # <<>>
      BY <3>1
    <3>2. result' = Received(result) /\ (aReorder' = Kept(aReorder, Head(result)) \/ (aReorder' = aReorder /\ aPc' = "fail"))
      BY <3>1 DEF Received, Kept
    <3>3. CASE aReorder' = Kept(aReorder, Head(result))
      <4>1. /\ PoolDistinct(wHold, result', aReorder')
            /\ PoolIds(wHold, result', aReorder') = PoolIds(wHold, result, aReorder)
        <5>1. /\ PoolDistinct(wHold, Received(result), Kept(aReorder, Head(result)))
              /\ PoolIds(wHold, Received(result), Kept(aReorder, Head(result))) = PoolIds(wHold, result, aReorder)
          BY <1>4, <3>0, PoolCollect, SMT
        <5> QED BY <3>2, <3>3, <5>1, Zenon
      <4> QED BY <1>1, <1>2, <1>3, <1>4, <1>6, <2>2, <3>1, <4>1, PlacesFrame, BelowStays
              DEF IdsOnce, PlacesDistinct, PlacesApart, AllIds, DecodedIds, oVars
    <3>4. CASE aReorder' = aReorder /\ aPc' = "fail"
      <4>1. /\ PoolDistinct(wHold, result', aReorder)
            /\ PoolIds(wHold, result', aReorder) = PoolIds(wHold, result, aReorder) \ {Head(result).id}
        <5>1. /\ PoolDistinct(wHold, Received(result), aReorder)
              /\ PoolIds(wHold, Received(result), aReorder) = PoolIds(wHold, result, aReorder) \ {Head(result).id}
          BY <1>4, <3>0, PoolDiscard, SMT
        <5> QED BY <3>2, <5>1, Zenon
      <4>2. PoolDistinct(wHold, result, aReorder)' /\ DecodedIds' \subseteq DecodedIds
        BY <1>4, <3>4, <4>1 DEF DecodedIds
      <4>3. ResolvedIds' = ResolvedIds /\ PoolDistinct(rHold, done, oReorder)'
        BY <1>1, <3>1, PlacesFrame DEF IdsOnce, oVars
      <4>4. PlacesApart' /\ AllIds' \subseteq AllIds
        BY <1>2, <2>2, <4>2, <4>3 DEF IdsOnce, PlacesApart, AllIds
      <4> QED BY <1>1, <1>2, <1>3, <1>6, <2>2, <3>4, <4>2, <4>3, <4>4, BelowStays DEF IdsOnce, PlacesDistinct
    <3> QED BY <3>2, <3>3, <3>4
  <2>4. CASE StageAFail \/ StageAEnd
    <3>1. UNCHANGED <<result, aReorder>> /\ (done' = done \/ done' = Append(done, DoneError("decode")))
      BY <2>4, Zenon DEF StageAFail, StageAEnd
    <3>2. DecodedIds' = DecodedIds /\ PoolDistinct(wHold, result, aReorder)'
      BY <1>1, <3>1, PlacesFrame DEF IdsOnce
    <3>3. ResolvedIds' = ResolvedIds /\ PoolDistinct(rHold, done, oReorder)'
      <4>1. CASE done' = done
        BY <1>1, <4>1, PlacesFrame DEF IdsOnce, oVars
      <4>2. CASE done' = Append(done, DoneError("decode"))
        <5> DEFINE z == DoneError("decode")
        <5>1. z \in DoneMsg /\ z.id = 0
          BY Empties DEF FaultKind
        <5>2. done' = Sent(done, z)
          BY <4>2 DEF Sent
        <5> HIDE DEF z
        <5>3. done \in Seq(DoneMsg) /\ PoolDistinct(rHold, done, oReorder)
          BY PoolTypes DEF IdsOnce, PlacesDistinct
        <5>4. /\ PoolDistinct(rHold, done', oReorder)
              /\ PoolIds(rHold, done', oReorder) = PoolIds(rHold, done, oReorder)
          BY <5>1, <5>2, <5>3, PoolError
        <5> QED BY <1>1, <5>4 DEF ResolvedIds, rVars, oVars
      <4> QED BY <3>1, <4>1, <4>2
    <3>4. PlacesApart' /\ AllIds' \subseteq AllIds
      BY <1>2, <2>2, <3>2, <3>3 DEF IdsOnce, PlacesApart, AllIds
    <3> QED BY <1>1, <1>2, <1>3, <1>6, <2>2, <3>2, <3>3, <3>4, BelowStays DEF IdsOnce, PlacesDistinct
  <2> QED BY <1>6, <2>3, <2>4 DEF StageA
<1> QED BY <1>5, <1>6

\* What a step of a resolver does to the slices: it moves one, or drops one
\* that did not resolve, or whose output stage is gone.
LEMMA ResolverIds ==
    ASSUME TypeInvariant, IdsOnce, NEW r \in Resolvers, Resolver(r)
    PROVE  /\ IdsOnce' /\ WorkIds' = WorkIds /\ DecodedIds' = DecodedIds
           /\ \/ /\ ResolverRecv(r) /\ JobIds' = JobIds \ {Head(resolve).id} /\ Head(resolve).id \in JobIds
                 /\ ResolvedIds' = ResolvedIds \/ ResolvedIds' = ResolvedIds \cup {Head(resolve).id}
                 /\ Resolved(Head(resolve)).err = "none" => ResolvedIds' = ResolvedIds \cup {Head(resolve).id}
              \/ /\ ~ResolverRecv(r) /\ JobIds' = JobIds
                 /\ ResolvedIds' = ResolvedIds \/ (oPc # "run" /\ ResolvedIds' \subseteq ResolvedIds)
<1>1. UNCHANGED <<work, result, dVars, wVars, aVars, oVars>>
  BY Zenon DEF Resolver, ResolverRecv, ResolverSend, ResolverExit
<1>2. /\ WorkIds' = WorkIds /\ DecodedIds' = DecodedIds /\ ChannelDistinct(work)'
      /\ PoolDistinct(wHold, result, aReorder)'
  BY <1>1, PlacesFrame DEF IdsOnce, aVars
<1>3. /\ rHold \in [Resolvers -> DoneMsg] /\ rPc \in [Resolvers -> {"recv", "send", "exited"}]
      /\ NoDone \in DoneMsg /\ NoDone.id = 0 /\ PoolDistinct(rHold, done, oReorder)
      /\ done \in Seq(DoneMsg) /\ oReorder \in SUBSET DoneMsg /\ oReorder' = oReorder
  BY <1>1, PoolTypes, Empties DEF TypeInvariant, ResolverType, IdsOnce, PlacesDistinct, oVars
<1>4. CASE ResolverRecv(r)
  <2> DEFINE m == Resolved(Head(resolve))
  <2>1. /\ rPc[r] = "recv" /\ resolve # <<>> /\ resolve' = Tail(resolve) /\ UNCHANGED done
        /\ rHold' = [rHold EXCEPT ![r] = m] /\ rPc' = [rPc EXCEPT ![r] = "send"]
    BY <1>4, Zenon DEF ResolverRecv
  <2>2. Head(resolve) \in Job
    BY <2>1, PoolTypes, TakeType
  <2>3. m \in DoneMsg
    BY <2>2, ResolvedTypes
  <2>4. m.id = 0 \/ m.id = Head(resolve).id
    BY DEF Resolved, DoneError
  <2>5. m.err = "none" => m.id = Head(resolve).id
    BY DEF Resolved, DoneError
  <2> HIDE DEF m
  <2>6. rHold' = Taken(rHold, r, m)
    BY <2>1 DEF Taken
  <2>7. /\ ChannelDistinct(resolve)' /\ Head(resolve).id # 0 /\ Head(resolve).id \in JobIds
        /\ JobIds' = JobIds \ {Head(resolve).id}
    BY <2>1, PoolTypes, ChannelTake DEF IdsOnce, PlacesDistinct, JobIds
  <2>8. m.id \notin PoolIds(rHold, done, oReorder) /\ rHold[r].id = 0
    <3>1. 0 \notin PoolIds(rHold, done, oReorder) /\ Head(resolve).id \notin PoolIds(rHold, done, oReorder)
      <4>1. 0 \notin PoolIds(rHold, done, oReorder)
        BY DEF PoolIds
      <4> QED BY <2>7, <4>1 DEF IdsOnce, PlacesApart, ResolvedIds
    <3>2. rHold[r].id = 0
      BY <1>3, <2>1 DEF IdsOnce, HoldsEmpty
    <3> QED BY <2>4, <3>1, <3>2
  <2>9. /\ PoolDistinct(rHold', done, oReorder)
        /\ PoolIds(rHold', done, oReorder) = PoolIds(rHold, done, oReorder) \cup ({m.id} \ {0})
    BY <1>3, <2>3, <2>6, <2>8, PoolTake
  <2>10. PoolDistinct(rHold, done, oReorder)' /\ ResolvedIds' = ResolvedIds \cup ({m.id} \ {0})
    BY <1>3, <2>1, <2>9 DEF ResolvedIds
  <2>11. HoldsEmpty'
    <3>1. \A v \in Resolvers : rPc'[v] # "send" => rHold'[v] = NoDone
      BY <1>3, <2>1 DEF IdsOnce, HoldsEmpty
    <3> QED BY <1>1, <3>1 DEF IdsOnce, HoldsEmpty, wVars, NoOutcome, NoDone
  <2>12. /\ ResolvedIds' = ResolvedIds \/ ResolvedIds' = ResolvedIds \cup {Head(resolve).id}
         /\ m.err = "none" => ResolvedIds' = ResolvedIds \cup {Head(resolve).id}
    BY <2>4, <2>5, <2>7, <2>10
  <2>13. PlacesApart' /\ AllIds' \subseteq AllIds
    BY <1>2, <2>7, <2>12 DEF IdsOnce, PlacesApart, AllIds
  <2> QED BY <1>1, <1>2, <1>4, <2>7, <2>10, <2>11, <2>12, <2>13, BelowStays DEF IdsOnce, PlacesDistinct, m
<1>5. CASE ~ResolverRecv(r)
  <2>1. /\ UNCHANGED resolve /\ rHold' = [rHold EXCEPT ![r] = NoDone]
        /\ \/ done' = Append(done, rHold[r]) /\ rPc' = [rPc EXCEPT ![r] = "recv"]
           \/ done' = done /\ rPc' = [rPc EXCEPT ![r] = "exited"] /\ (rPc[r] = "recv" \/ ~DoneRxAlive)
    BY <1>5, Zenon DEF Resolver, ResolverSend, ResolverExit
  <2>2. JobIds' = JobIds /\ ChannelDistinct(resolve)'
    BY <2>1, PlacesFrame DEF IdsOnce
  <2>3. HoldsEmpty'
    <3>1. \A v \in Resolvers : rPc'[v] # "send" => rHold'[v] = NoDone
      BY <1>3, <2>1 DEF IdsOnce, HoldsEmpty
    <3> QED BY <1>1, <3>1 DEF IdsOnce, HoldsEmpty, wVars, NoOutcome, NoDone
  <2>4. rHold' = Taken(rHold, r, NoDone)
    BY <2>1 DEF Taken
  <2>5. /\ PoolDistinct(rHold, done, oReorder)'
        /\ ResolvedIds' = ResolvedIds \/ (oPc # "run" /\ ResolvedIds' \subseteq ResolvedIds)
    <3>1. CASE done' = Append(done, rHold[r])
      <4>1. done' = Sent(done, rHold[r])
        BY <3>1 DEF Sent
      <4>2. /\ PoolDistinct(rHold', done', oReorder)
            /\ PoolIds(rHold', done', oReorder) = PoolIds(rHold, done, oReorder)
        BY <1>3, <2>4, <4>1, PoolSend
      <4> QED BY <1>3, <4>2 DEF ResolvedIds
    <3>2. CASE done' = done /\ (rPc[r] = "recv" \/ ~DoneRxAlive)
      <4>1. /\ PoolDistinct(rHold', done, oReorder)
            /\ PoolIds(rHold', done, oReorder) = PoolIds(rHold, done, oReorder) \ {rHold[r].id}
        BY <1>3, <2>4, PoolDrop
      <4>2. rPc[r] = "recv" => rHold[r].id = 0
        BY <1>3 DEF IdsOnce, HoldsEmpty
      <4>3. 0 \notin PoolIds(rHold, done, oReorder)
        BY DEF PoolIds
      <4>4. rPc[r] = "recv" => PoolIds(rHold', done, oReorder) = PoolIds(rHold, done, oReorder)
        BY <4>1, <4>2, <4>3, Zenon
      <4>5. ~DoneRxAlive => oPc # "run"
        BY DEF DoneRxAlive
      <4> QED BY <1>3, <3>2, <4>1, <4>4, <4>5 DEF ResolvedIds
    <3> QED BY <2>1, <3>1, <3>2
  <2>6. PlacesApart' /\ AllIds' \subseteq AllIds
    BY <1>2, <2>2, <2>5 DEF IdsOnce, PlacesApart, AllIds
  <2> QED BY <1>1, <1>2, <1>5, <2>2, <2>3, <2>5, <2>6, BelowStays DEF IdsOnce, PlacesDistinct
<1> QED BY <1>4, <1>5

\* What a step of the output stage does to the slices.
LEMMA OutputIds ==
    ASSUME TypeInvariant, IdsOnce, Output
    PROVE  /\ IdsOnce' /\ WorkIds' = WorkIds /\ DecodedIds' = DecodedIds /\ JobIds' = JobIds
           /\ \/ /\ OutputSend /\ oNext \in ResolvedIds /\ ResolvedIds' = ResolvedIds \ {oNext}
              \/ ~OutputSend /\ (ResolvedIds' = ResolvedIds \/ (oPc' # "run" /\ ResolvedIds' \subseteq ResolvedIds))
<1>1. UNCHANGED <<work, result, resolve, dVars, wVars, aVars, rVars>>
  BY OutputCases, MismatchStep, SendStep, RecvStep, TeardownStep, Zenon
<1>2. /\ WorkIds' = WorkIds /\ DecodedIds' = DecodedIds /\ JobIds' = JobIds
      /\ ChannelDistinct(work)' /\ ChannelDistinct(resolve)' /\ PoolDistinct(wHold, result, aReorder)'
  BY <1>1, PlacesFrame DEF IdsOnce, aVars
<1>3. HoldsEmpty'
  BY <1>1 DEF IdsOnce, HoldsEmpty, wVars, rVars, NoOutcome, NoDone
<1>4. /\ rHold \in [Resolvers -> DoneMsg] /\ PoolDistinct(rHold, done, oReorder)
      /\ done \in Seq(DoneMsg) /\ oReorder \in SUBSET DoneMsg
  BY PoolTypes DEF IdsOnce, PlacesDistinct
<1>5. rHold' = rHold /\ oNext # 0
  BY <1>1, PoolTypes DEF rVars
<1>6. SUFFICES /\ PoolDistinct(rHold, done, oReorder)'
               /\ \/ OutputSend /\ oNext \in ResolvedIds /\ ResolvedIds' = ResolvedIds \ {oNext}
                  \/ /\ ~OutputSend
                     /\ ResolvedIds' = ResolvedIds \/ (oPc' # "run" /\ ResolvedIds' \subseteq ResolvedIds)
  <2>1. ResolvedIds' \subseteq ResolvedIds
    BY <1>6
  <2>2. PlacesApart' /\ AllIds' \subseteq AllIds
    BY <1>2, <2>1 DEF IdsOnce, PlacesApart, AllIds
  <2> QED BY <1>1, <1>2, <1>3, <1>6, <2>2, BelowStays DEF IdsOnce, PlacesDistinct
<1>7. ASSUME NEW d \in oReorder, d.id = oNext, oReorder' = oReorder \ {d}, UNCHANGED done
      PROVE  PoolDistinct(rHold, done, oReorder)' /\ oNext \in ResolvedIds /\ ResolvedIds' = ResolvedIds \ {oNext}
  <2>1. oReorder' = Gone(oReorder, d)
    BY <1>7 DEF Gone
  <2>2. /\ PoolDistinct(rHold, done, oReorder')
        /\ PoolIds(rHold, done, oReorder') = PoolIds(rHold, done, oReorder) \ {d.id}
    BY <1>4, <2>1, PoolRemove
  <2>3. d.id \in PoolIds(rHold, done, oReorder)
    BY <1>5, <1>7, Zenon DEF PoolIds
  <2> QED BY <1>5, <1>7, <2>2, <2>3 DEF ResolvedIds
<1>8. CASE OutputSend
  <2>1. UNCHANGED done /\ \E d \in oReorder : d.id = oNext /\ oReorder' = oReorder \ {d}
    BY <1>8, SendStep, Zenon
  <2> QED BY <1>7, <1>8, <2>1
<1>9. CASE OutputMismatch /\ ~OutputSend
  <2>1. UNCHANGED done /\ oPc' # "run" /\ \E d \in oReorder : d.id = oNext /\ oReorder' = oReorder \ {d}
    <3>1. OutputMismatch
      BY <1>9
    <3>2. UNCHANGED done /\ oPc' = "abort" /\ \E d \in oReorder : d.id = oNext /\ oReorder' = oReorder \ {d}
      BY <3>1, MismatchStep, Zenon
    <3> QED BY <3>2
  <2> QED BY <1>7, <1>9, <2>1
<1>10. CASE OutputRecv /\ ~OutputSend
  <2>0. \/ UNCHANGED <<done, oReorder>>
        \/ done # <<>> /\ done' = Tail(done) /\ oReorder' = oReorder \cup {Head(done)}
        \/ done # <<>> /\ done' = Tail(done) /\ oReorder' = oReorder /\ oPc' = "abort"
    BY <1>10, RecvStep, Zenon
  <2>1. CASE UNCHANGED <<done, oReorder>>
    BY <1>1, <1>10, <2>1, PlacesFrame DEF IdsOnce
  <2>2. CASE done # <<>> /\ done' = Tail(done) /\ oReorder' = oReorder \cup {Head(done)}
    <3>1. done # <<>>
      BY <2>2
    <3>2. /\ PoolDistinct(rHold, Received(done), Kept(oReorder, Head(done)))
          /\ PoolIds(rHold, Received(done), Kept(oReorder, Head(done))) = PoolIds(rHold, done, oReorder)
      BY <1>4, <3>1, PoolCollect, SMT
    <3>3. done' = Received(done) /\ oReorder' = Kept(oReorder, Head(done))
      BY <2>2, Zenon DEF Received, Kept
    <3> QED BY <1>5, <1>10, <3>2, <3>3, Zenon DEF ResolvedIds
  <2>3. CASE done # <<>> /\ done' = Tail(done) /\ oReorder' = oReorder /\ oPc' = "abort"
    <3>1. done # <<>>
      BY <2>3
    <3>2. /\ PoolDistinct(rHold, Received(done), oReorder)
          /\ PoolIds(rHold, Received(done), oReorder) = PoolIds(rHold, done, oReorder) \ {Head(done).id}
      BY <1>4, <3>1, PoolDiscard, SMT
    <3>3. done' = Received(done) /\ oReorder' = oReorder
      BY <2>3, Zenon DEF Received
    <3>4. PoolDistinct(rHold, done, oReorder)' /\ ResolvedIds' \subseteq ResolvedIds
      BY <1>5, <3>2, <3>3, Zenon DEF ResolvedIds
    <3> QED BY <1>10, <2>3, <3>4
  <2> QED BY <2>0, <2>1, <2>2, <2>3
<1>11. CASE Teardown /\ ~OutputSend
  <2>1. UNCHANGED <<done, oReorder>>
    BY <1>11, TeardownStep, Zenon
  <2> QED BY <1>1, <1>11, <2>1, PlacesFrame DEF IdsOnce
<1> QED BY <1>8, <1>9, <1>10, <1>11, OutputCases, Zenon

LEMMA ConsumerIds ==
    ASSUME IdsOnce, UNCHANGED <<work, result, resolve, done, dVars, wVars, aVars, rVars, oVars>>
    PROVE  IdsOnce' /\ WorkIds' = WorkIds /\ DecodedIds' = DecodedIds /\ JobIds' = JobIds /\ ResolvedIds' = ResolvedIds
<1>1. /\ WorkIds' = WorkIds /\ DecodedIds' = DecodedIds /\ JobIds' = JobIds /\ ResolvedIds' = ResolvedIds
      /\ PlacesDistinct'
  BY PlacesFrame DEF IdsOnce, aVars, oVars, PlacesDistinct
<1>2. HoldsEmpty'
  BY DEF IdsOnce, HoldsEmpty, wVars, rVars, NoOutcome, NoDone
<1>3. PlacesApart' /\ AllIds' \subseteq AllIds
  BY <1>1 DEF IdsOnce, PlacesApart, AllIds
<1> QED BY <1>1, <1>2, <1>3, BelowStays DEF IdsOnce

\* A slice that the dispatcher cut is in one place at a time: it is never
\* decoded, resolved or written twice, whichever threads take it.
THEOREM SlicesOnce == Spec => [](TypeInvariant /\ IdsOnce)
<1>1. Init => IdsOnce
  <2> SUFFICES ASSUME Init PROVE IdsOnce
    OBVIOUS
  <2>1. /\ work = <<>> /\ result = <<>> /\ resolve = <<>> /\ done = <<>> /\ aReorder = {} /\ oReorder = {}
        /\ wHold = [w \in Workers |-> NoOutcome] /\ rHold = [r \in Resolvers |-> NoDone]
    BY Zenon DEF Init
  <2>2. WorkIds = {} /\ JobIds = {}
    BY <2>1 DEF WorkIds, JobIds, IdsIn
  <2>3. DecodedIds = {} /\ ResolvedIds = {}
    BY <2>1, Empties DEF DecodedIds, ResolvedIds, PoolIds
  <2>4. PlacesDistinct
    BY <2>1, Empties DEF PlacesDistinct, PoolDistinct, ChannelDistinct
  <2>5. HoldsEmpty
    BY <2>1 DEF HoldsEmpty
  <2> QED BY <2>2, <2>3, <2>4, <2>5 DEF IdsOnce, PlacesApart, IdsBelow, AllIds
<1>2. TypeInvariant /\ IdsOnce /\ [Next]_vars => IdsOnce'
  <2> SUFFICES ASSUME TypeInvariant, IdsOnce, [Next]_vars PROVE IdsOnce'
    OBVIOUS
  <2>1. CASE ConsumerRecv \/ ConsumerHangsUp \/ UNCHANGED vars
    BY <2>1, ConsumerStep, ConsumerIds, Zenon
  <2> QED BY <2>1, NextCases, DispatchIds, WorkerIds, StageAIds, ResolverIds, OutputIds, Zenon
<1> QED BY <1>1, <1>2, StreamTypeCorrect, PTL DEF Spec

-----------------------------------------------------------------------------
(* The tokens. *)

LEMMA OutstandingIsAll ==
    ASSUME TypeInvariant, IdsOnce
    PROVE  Outstanding = AllIds
<1>1. DOMAIN wHold = Workers /\ DOMAIN rHold = Resolvers
  BY PoolTypes
<1>2. 0 \notin WorkIds /\ 0 \notin JobIds
  BY DEF IdsOnce, PlacesDistinct, ChannelDistinct, WorkIds, JobIds, IdsIn
<1> DEFINE A == {wHold[w].id : w \in Workers} \cup IdsIn(result) \cup {o.id : o \in aReorder}
           B == {rHold[r].id : r \in Resolvers} \cup IdsIn(done) \cup {d.id : d \in oReorder}
<1>3. DecodedIds = A \ {0} /\ ResolvedIds = B \ {0}
  BY <1>1 DEF DecodedIds, ResolvedIds, PoolIds, IdsIn
<1>4. Outstanding = (WorkIds \cup A \cup JobIds \cup B) \ {0}
  <2>1. \A n : n \in Outstanding <=> (n \in WorkIds \/ n \in A \/ n \in JobIds \/ n \in B) /\ n # 0
    BY ZenonT(30) DEF Outstanding, WorkIds, JobIds
  <2> HIDE DEF A, B
  <2> QED BY <2>1, Zenon
<1> HIDE DEF A, B
<1> QED BY <1>2, <1>3, <1>4 DEF AllIds

LEMMA AllFinite ==
    ASSUME TypeInvariant, IdsOnce
    PROVE  IsFiniteSet(AllIds) /\ Cardinality(AllIds) \in Nat
<1>1. AllIds \subseteq 0 .. item.id
  <2>1. item.id \in Nat
    BY PoolTypes
  <2>2. \A n \in AllIds : n \in Nat /\ n <= item.id
    BY IdTypes DEF IdsOnce, IdsBelow
  <2> HIDE DEF AllIds
  <2> QED BY <2>1, <2>2
<1>2. IsFiniteSet(0 .. item.id)
  <2>1. item.id \in Int /\ 0 \in Int
    BY PoolTypes
  <2> QED BY <2>1, FS_Interval, Zenon
<1> QED BY <1>1, <1>2, FS_Subset, FS_CardinalityType

\* What a step does to the slices on their way and to the tokens.
LEMMA TokenMoves ==
    ASSUME TypeInvariant, IdsOnce, [Next]_vars
    PROVE  \/ AllIds' = AllIds \cup {item.id} /\ dPc = "send" /\ dPc' # "send" /\ tokens' = tokens
           \/ AllIds' = AllIds /\ dPc = "token" /\ dPc' = "send" /\ tokens > 0 /\ tokens' = tokens - 1
           \/ oNext \in AllIds /\ AllIds' \subseteq AllIds \ {oNext} /\ dPc' = dPc /\ tokens' \in {tokens, tokens + 1}
           \/ AllIds' \subseteq AllIds /\ (dPc' = "send" => dPc = "send") /\ tokens' = tokens
<1>1. CASE Dispatch
  <2>1. CASE DispatchSend
    <3>1. AllIds' = AllIds \cup {item.id}
      BY <1>1, <2>1, DispatchIds DEF AllIds
    <3>2. dPc = "send" /\ dPc' # "send" /\ tokens' = tokens
      BY <2>1 DEF DispatchSend, DispatcherExits
    <3> QED BY <3>1, <3>2
  <2>2. CASE ~DispatchSend
    <3>1. AllIds' = AllIds
      BY <1>1, <2>2, DispatchIds DEF AllIds
    <3>2. \/ dPc = "token" /\ dPc' = "send" /\ tokens > 0 /\ tokens' = tokens - 1
          \/ dPc' # "send" /\ tokens' = tokens
      BY <1>1, <2>2 DEF Dispatch, DispatchRead, DispatchReadFails, DispatchToken, DispatchTokensGone, DispatchSendFails,
          DispatcherExits
    <3> QED BY <3>1, <3>2
  <2> QED BY <2>1, <2>2
<1>2. ASSUME NEW w \in Workers, Worker(w) PROVE AllIds' \subseteq AllIds /\ dPc' = dPc /\ tokens' = tokens
  <2>1. AllIds' \subseteq AllIds
    BY <1>2, WorkerIds DEF AllIds
  <2>2. UNCHANGED <<tokens, dVars>>
    BY <1>2, Zenon DEF Worker, WorkerRecv, WorkerSend, WorkerExit
  <2> QED BY <2>1, <2>2 DEF dVars
<1>3. CASE StageA
  <2>1. AllIds' \subseteq AllIds
    BY <1>3, StageAIds DEF AllIds
  <2>2. UNCHANGED <<tokens, dVars>>
    BY <1>3, Zenon DEF StageA, StageAForward, StageARecv, StageAFail, StageAEnd
  <2> QED BY <2>1, <2>2 DEF dVars
<1>4. ASSUME NEW r \in Resolvers, Resolver(r) PROVE AllIds' \subseteq AllIds /\ dPc' = dPc /\ tokens' = tokens
  <2>1. AllIds' \subseteq AllIds
    BY <1>4, ResolverIds DEF AllIds
  <2>2. UNCHANGED <<tokens, dVars>>
    BY <1>4, Zenon DEF Resolver, ResolverRecv, ResolverSend, ResolverExit
  <2> QED BY <2>1, <2>2 DEF dVars
<1>5. CASE Output
  <2>1. CASE OutputSend
    <3>1. oNext \in AllIds /\ AllIds' \subseteq AllIds \ {oNext}
      <4>1. oNext \in ResolvedIds /\ ResolvedIds' = ResolvedIds \ {oNext}
            /\ WorkIds' = WorkIds /\ DecodedIds' = DecodedIds /\ JobIds' = JobIds
        BY <1>5, <2>1, OutputIds
      <4>2. oNext \notin WorkIds /\ oNext \notin DecodedIds /\ oNext \notin JobIds
        BY <4>1 DEF IdsOnce, PlacesApart
      <4> QED BY <4>1, <4>2 DEF AllIds
    <3>2. tokens' = TokenReturned /\ UNCHANGED dVars
      BY <2>1, SendStep, Zenon
    <3> QED BY <3>1, <3>2 DEF TokenReturned, dVars
  <2>2. CASE ~OutputSend
    <3>1. AllIds' \subseteq AllIds
      BY <1>5, <2>2, OutputIds DEF AllIds
    <3>2. UNCHANGED <<tokens, dVars>>
      BY <1>5, <2>2, OutputCases, MismatchStep, RecvStep, TeardownStep, Zenon
    <3> QED BY <3>1, <3>2 DEF dVars
  <2> QED BY <2>1, <2>2
<1>6. CASE ConsumerRecv \/ ConsumerHangsUp \/ UNCHANGED vars
  <2>1. UNCHANGED <<tokens, dVars>>
    BY <1>6, ConsumerStep, Zenon
  <2>2. AllIds' \subseteq AllIds
    BY <1>6, ConsumerStep, ConsumerIds DEF AllIds
  <2> QED BY <2>1, <2>2 DEF dVars
<1> QED BY <1>1, <1>2, <1>3, <1>4, <1>5, <1>6, NextCases

\* The same as TokensConserved, about AllIds.
AllHoldTokens == Cardinality(AllIds) + tokens + (IF dPc = "send" THEN 1 ELSE 0) <= InflightCap

LEMMA TokenStep ==
    ASSUME TypeInvariant, IdsOnce, AllHoldTokens, [Next]_vars
    PROVE  AllHoldTokens'
<1> DEFINE A == AllIds
           B == AllIds'
           n == Cardinality(A)
           held == IF dPc = "send" THEN 1 ELSE 0
           held1 == IF dPc' = "send" THEN 1 ELSE 0
<1>1. IsFiniteSet(A) /\ n \in Nat /\ tokens \in Nat /\ InflightCap \in Nat /\ n + tokens + held <= InflightCap
  BY AllFinite, StreamingAssumption DEF AllHoldTokens, TypeInvariant, DispatchType
<1>2. \A S : IsFiniteSet(S) /\ B \subseteq S => Cardinality(B) \in Nat /\ Cardinality(B) <= Cardinality(S)
  BY FS_Subset, FS_CardinalityType
<1>3. \/ B = A \cup {item.id} /\ dPc = "send" /\ dPc' # "send" /\ tokens' = tokens
      \/ B = A /\ dPc = "token" /\ dPc' = "send" /\ tokens > 0 /\ tokens' = tokens - 1
      \/ oNext \in A /\ B \subseteq A \ {oNext} /\ dPc' = dPc /\ tokens' \in {tokens, tokens + 1}
      \/ B \subseteq A /\ (dPc' = "send" => dPc = "send") /\ tokens' = tokens
  BY TokenMoves
<1>4. SUFFICES Cardinality(B) + tokens' + held1 <= InflightCap
  BY DEF AllHoldTokens
<1> HIDE DEF A, B
<1>5. CASE B = A \cup {item.id} /\ dPc = "send" /\ dPc' # "send" /\ tokens' = tokens
  <2>1. IsFiniteSet(A \cup {item.id})
        /\ Cardinality(A \cup {item.id}) = IF item.id \in A THEN Cardinality(A) ELSE Cardinality(A) + 1
    BY <1>1, FS_AddElement
  <2>2. Cardinality(B) \in Nat /\ Cardinality(B) <= n + 1
    BY <1>1, <1>5, <2>1
  <2> HIDE DEF n
  <2> QED BY <1>1, <1>5, <2>2
<1>6. CASE B = A /\ dPc = "token" /\ dPc' = "send" /\ tokens > 0 /\ tokens' = tokens - 1
  <2>1. Cardinality(B) = n
    BY <1>6
  <2> HIDE DEF n
  <2> QED BY <1>1, <1>6, <2>1
<1>7. CASE oNext \in A /\ B \subseteq A \ {oNext} /\ dPc' = dPc /\ tokens' \in {tokens, tokens + 1}
  <2>1. IsFiniteSet(A \ {oNext}) /\ Cardinality(A \ {oNext}) = Cardinality(A) - 1
    BY <1>1, <1>7, FS_RemoveElement
  <2>2. Cardinality(B) \in Nat /\ Cardinality(B) <= n - 1
    BY <1>2, <1>7, <2>1
  <2> HIDE DEF n
  <2> QED BY <1>1, <1>7, <2>2
<1>8. CASE B \subseteq A /\ (dPc' = "send" => dPc = "send") /\ tokens' = tokens
  <2>1. Cardinality(B) \in Nat /\ Cardinality(B) <= n
    BY <1>1, <1>2, <1>8
  <2> HIDE DEF n
  <2> QED BY <1>1, <1>8, <2>1
<1> QED BY <1>3, <1>5, <1>6, <1>7, <1>8

\* The token channel bounds what is in memory, for every number of workers and
\* every bound: each slice between the dispatcher and the sink holds a token
\* of its own, so that at most InflightCap are there, and the output stage
\* always finds room in the channel for the token it returns.
THEOREM TokensCorrect == Spec => []TokensConserved
<1>1. Init => AllHoldTokens
  <2> SUFFICES ASSUME Init PROVE AllHoldTokens
    OBVIOUS
  <2>1. /\ work = <<>> /\ result = <<>> /\ resolve = <<>> /\ done = <<>> /\ aReorder = {} /\ oReorder = {}
        /\ wHold = [w \in Workers |-> NoOutcome] /\ rHold = [r \in Resolvers |-> NoDone]
        /\ tokens = InflightCap /\ dPc = "read"
    BY Zenon DEF Init
  <2>2. WorkIds = {} /\ JobIds = {}
    BY <2>1 DEF WorkIds, JobIds, IdsIn
  <2>3. DecodedIds = {} /\ ResolvedIds = {}
    BY <2>1, Empties DEF DecodedIds, ResolvedIds, PoolIds
  <2>4. AllIds = {} /\ InflightCap \in Nat
    BY <2>2, <2>3, StreamingAssumption DEF AllIds
  <2>5. Cardinality({}) = 0
    BY FS_EmptySet
  <2> QED BY <2>1, <2>4, <2>5 DEF AllHoldTokens
<1>2. TypeInvariant /\ IdsOnce /\ AllHoldTokens /\ [Next]_vars => AllHoldTokens'
  BY TokenStep
<1>3. TypeInvariant /\ IdsOnce /\ AllHoldTokens => TokensConserved
  BY OutstandingIsAll DEF AllHoldTokens, TokensConserved
<1> QED BY <1>1, <1>2, <1>3, SlicesOnce, PTL DEF Spec

-----------------------------------------------------------------------------
(* Who stops when. *)

LEMMA InitFacts ==
    ASSUME Init
    PROVE  /\ abort = FALSE /\ dPc = "read" /\ dRes = "none" /\ oPc = "run" /\ aPc = "run"
           /\ (\A w \in Workers : wPc[w] = "recv") /\ (\A r \in Resolvers : rPc[r] = "recv" /\ rHold[r] = NoDone)
           /\ work = <<>> /\ result = <<>> /\ resolve = <<>> /\ done = <<>> /\ aReorder = {} /\ oReorder = {}
           /\ item = [id |-> 1, start |-> 0, hint |-> NoHint] /\ aNext = 1 /\ oNext = 1 /\ prevTail = <<>>
           /\ curMember = <<>> /\ delivered = <<>> /\ outErr = "none" /\ status = "running"
<1>1. /\ abort = FALSE /\ dPc = "read" /\ dRes = "none" /\ oPc = "run" /\ aPc = "run"
      /\ wPc = [w \in Workers |-> "recv"] /\ rPc = [r \in Resolvers |-> "recv"] /\ rHold = [r \in Resolvers |-> NoDone]
      /\ work = <<>> /\ result = <<>> /\ resolve = <<>> /\ done = <<>> /\ aReorder = {} /\ oReorder = {}
      /\ item = [id |-> 1, start |-> 0, hint |-> NoHint] /\ aNext = 1 /\ oNext = 1 /\ prevTail = <<>>
      /\ curMember = <<>> /\ delivered = <<>> /\ outErr = "none" /\ status = "running"
  BY Zenon DEF Init
<1>2. (\A w \in Workers : wPc[w] = "recv") /\ (\A r \in Resolvers : rPc[r] = "recv" /\ rHold[r] = NoDone)
  BY <1>1
<1> QED BY <1>1, <1>2

\* Which parts of the state a step of each thread leaves alone.
LEMMA Frames ==
    /\ Dispatch => UNCHANGED <<inputVars, abort, result, resolve, done, wVars, aVars, rVars, oVars, sinkVars, status>>
    /\ \A w \in Workers : Worker(w) =>
          UNCHANGED <<inputVars, tokens, abort, resolve, done, dVars, aVars, rVars, oVars, sinkVars, status>>
    /\ StageA => UNCHANGED <<inputVars, tokens, abort, work, dVars, wVars, rVars, oVars, sinkVars, status>>
    /\ \A r \in Resolvers : Resolver(r) =>
          UNCHANGED <<inputVars, tokens, abort, work, result, dVars, wVars, aVars, oVars, sinkVars, status>>
    /\ Output => UNCHANGED <<inputVars, work, result, resolve, dVars, wVars, aVars, rVars>>
<1>1. Dispatch => UNCHANGED <<inputVars, abort, result, resolve, done, wVars, aVars, rVars, oVars, sinkVars, status>>
  BY Zenon DEF Dispatch, DispatchRead, DispatchReadFails, DispatchToken, DispatchTokensGone, DispatchSend, DispatchSendFails
<1>2. ASSUME NEW w \in Workers, Worker(w)
      PROVE  UNCHANGED <<inputVars, tokens, abort, resolve, done, dVars, aVars, rVars, oVars, sinkVars, status>>
  BY <1>2, Zenon DEF Worker, WorkerRecv, WorkerSend, WorkerExit
<1>3. StageA => UNCHANGED <<inputVars, tokens, abort, work, dVars, wVars, rVars, oVars, sinkVars, status>>
  BY Zenon DEF StageA, StageAForward, StageARecv, StageAFail, StageAEnd
<1>4. ASSUME NEW r \in Resolvers, Resolver(r)
      PROVE  UNCHANGED <<inputVars, tokens, abort, work, result, dVars, wVars, aVars, oVars, sinkVars, status>>
  BY <1>4, Zenon DEF Resolver, ResolverRecv, ResolverSend, ResolverExit
<1>5. Output => UNCHANGED <<inputVars, work, result, resolve, dVars, wVars, aVars, rVars>>
  BY OutputCases, MismatchStep, SendStep, RecvStep, TeardownStep, Zenon
<1> QED BY <1>1, <1>2, <1>3, <1>4, <1>5, Zenon

LEMMA InputFixed == [Next]_vars => UNCHANGED inputVars
BY NextCases, Frames, ConsumerStep, Zenon

LEMMA DispatchEndsStep ==
    ASSUME TypeInvariant, DispatchEnds, [Next]_vars
    PROVE  DispatchEnds'
<1>1. UNCHANGED candidates
  BY InputFixed DEF inputVars
<1>2. /\ dPc \in {"read", "token", "send", "exited"} /\ dRes \in {"none", "ok", "io", "workers gone"}
      /\ item.id \in Nat /\ item \in Item
  BY PoolTypes, Zenon DEF TypeInvariant, DispatchType
<1>3. CASE Dispatch
  <2>1. UNCHANGED <<abort, oVars>>
    BY <1>3, Frames, Zenon
  <2>2. oPc \in {"run", "abort"} => abort = FALSE
    BY DEF DispatchEnds
  <2>3. oPc' \in {"run", "abort"} => abort' = FALSE
    BY <2>1, <2>2 DEF oVars
  <2>4. CASE DispatchRead
    <3>1. \/ dPc' = "exited" /\ dRes' = "ok"
          \/ /\ item' = [item EXCEPT !.hint = NextBoundary(item.start)] /\ dPc' = "token" /\ UNCHANGED dRes
      BY <2>4, Zenon DEF DispatchRead, DispatcherExits
    <3>2. dRes = "none"
      BY <2>4 DEF DispatchRead, DispatchEnds
    <3>3. item' = [item EXCEPT !.hint = NextBoundary(item.start)] =>
             item'.hint = NextBoundary(item.start) /\ item'.start = item.start
      BY <1>2 DEF Item
    <3>4. NextBoundary(item.start) # NoHint =>
            NextBoundary(item.start) \in candidates /\ NextBoundary(item.start) >= item.start + ChunkBits
      BY NextBoundaryType
    <3> DEFINE nb == NextBoundary(item.start)
    <3> HIDE DEF nb
    <3>5. dPc' = "exited" /\ dRes' = "ok" => DispatchEnds'
      BY <2>3 DEF DispatchEnds
    <3>6. item'.hint = nb /\ item'.start = item.start /\ dPc' = "token" /\ dRes' = "none" => DispatchEnds'
      BY <1>1, <2>3, <3>4 DEF DispatchEnds, nb
    <3> QED BY <3>1, <3>2, <3>3, <3>5, <3>6 DEF nb
  <2>5. CASE DispatchReadFails \/ DispatchTokensGone \/ DispatchSendFails
    <3>1. dPc' = "exited" /\ dRes' # "none"
      BY <2>5 DEF DispatchReadFails, DispatchTokensGone, DispatchSendFails, DispatcherExits
    <3> QED BY <2>3, <3>1 DEF DispatchEnds
  <2>6. CASE DispatchToken
    <3>1. dPc = "token" /\ dPc' = "send" /\ UNCHANGED <<item, dRes>>
      BY <2>6, Zenon DEF DispatchToken
    <3> QED BY <1>1, <2>3, <3>1 DEF DispatchEnds
  <2>7. CASE DispatchSend
    <3>1. \/ dPc' = "exited" /\ dRes' = "ok"
          \/ dPc' = "read" /\ UNCHANGED dRes
      BY <2>7, Zenon DEF DispatchSend, DispatcherExits
    <3>2. dRes = "none"
      BY <2>7 DEF DispatchSend, DispatchEnds
    <3> QED BY <2>3, <3>1, <3>2 DEF DispatchEnds
  <2> QED BY <1>3, <2>4, <2>5, <2>6, <2>7 DEF Dispatch
<1>4. CASE Output
  <2>1. UNCHANGED dVars
    BY <1>4, Frames, Zenon
  <2>2. oPc' \in {"run", "abort"} => oPc = "run" /\ UNCHANGED abort
    <3>1. Teardown => ~(oPc' \in {"run", "abort"})
      BY TeardownStep
    <3>2. OutputMismatch \/ OutputSend \/ OutputRecv => oPc = "run" /\ UNCHANGED abort
      BY MismatchStep, SendStep, RecvStep, Zenon
    <3> QED BY <1>4, <3>1, <3>2, OutputCases, Zenon
  <2> QED BY <1>1, <2>1, <2>2 DEF DispatchEnds, dVars
<1>5. CASE UNCHANGED <<dVars, abort, oVars>>
  BY <1>1, <1>5 DEF DispatchEnds, dVars, oVars
<1> QED BY <1>3, <1>4, <1>5, NextCases, Frames, ConsumerStep, Zenon

LEMMA ThreadsEndStep ==
    ASSUME TypeInvariant, ThreadsEnd, [Next]_vars
    PROVE  ThreadsEnd'
<1> DEFINE WorkersEnd == \A w \in Workers : wPc[w] = "exited" => work = <<>> /\ dPc = "exited"
           PoolEnds == \A r \in Resolvers : rPc[r] = "exited" => resolve = <<>> /\ aPc = "exited"
<1>1. (aPc # "exited" => WorkersEnd) /\ (oPc = "run" => PoolEnds)
  BY DEF ThreadsEnd
<1>2. SUFFICES (aPc' # "exited" => WorkersEnd') /\ (oPc' = "run" => PoolEnds')
  BY DEF ThreadsEnd
<1>3. wPc \in [Workers -> {"recv", "send", "exited"}] /\ rPc \in [Resolvers -> {"recv", "send", "exited"}]
      /\ work \in Seq(Item) /\ resolve \in Seq(Job)
  BY DEF TypeInvariant, WorkerType, ResolverType, ChannelType
<1>4. CASE Dispatch
  <2>1. UNCHANGED <<resolve, wPc, aPc, rPc, oPc>>
    BY <1>4, Frames DEF wVars, aVars, rVars, oVars
  <2>2. dPc # "exited"
    BY <1>4 DEF Dispatch, DispatchRead, DispatchReadFails, DispatchToken, DispatchTokensGone, DispatchSend, DispatchSendFails
  <2> QED BY <1>1, <2>1, <2>2
<1>5. ASSUME NEW w \in Workers, Worker(w) PROVE (aPc' # "exited" => WorkersEnd') /\ (oPc' = "run" => PoolEnds')
  <2>1. UNCHANGED <<resolve, dPc, aPc, rPc, oPc>>
    BY <1>5, Frames DEF dVars, aVars, rVars, oVars
  <2>2. oPc' = "run" => PoolEnds'
    BY <1>1, <2>1
  <2>3. CASE WorkerRecv(w)
    <3>1. wPc' = [wPc EXCEPT ![w] = "send"] /\ work # <<>>
      BY <2>3, Zenon DEF WorkerRecv
    <3>2. aPc # "exited" => \A v \in Workers : wPc[v] # "exited"
      BY <1>1, <3>1
    <3>3. \A v \in Workers : wPc'[v] = "exited" => wPc[v] = "exited"
      BY <1>3, <3>1
    <3> QED BY <2>1, <2>2, <3>2, <3>3
  <2>4. CASE WorkerSend(w)
    <3>1. wPc' = [wPc EXCEPT ![w] = "recv"] /\ UNCHANGED work
      BY <2>4, Zenon DEF WorkerSend
    <3>2. \A v \in Workers : wPc'[v] = "exited" => wPc[v] = "exited"
      BY <1>3, <3>1
    <3> QED BY <1>1, <2>1, <2>2, <3>1, <3>2
  <2>5. CASE WorkerExit(w)
    <3>1. wPc' = [wPc EXCEPT ![w] = "exited"] /\ UNCHANGED work /\ ((work = <<>> /\ dPc = "exited") \/ aPc = "exited")
      BY <2>5 DEF WorkerExit, ResultRxAlive
    <3>2. \A v \in Workers : wPc'[v] = "exited" => wPc[v] = "exited" \/ v = w
      BY <1>3, <3>1
    <3> QED BY <1>1, <2>1, <2>2, <3>1, <3>2
  <2> QED BY <1>5, <2>3, <2>4, <2>5 DEF Worker
<1>6. CASE StageA
  <2>1. UNCHANGED <<work, dPc, wPc, rPc, oPc>>
    BY <1>6, Frames DEF dVars, wVars, rVars, oVars
  <2>2. aPc # "exited"
    BY <1>6 DEF StageA, StageAForward, StageARecv, StageAFail, StageAEnd
  <2> QED BY <1>1, <2>1, <2>2
<1>7. ASSUME NEW r \in Resolvers, Resolver(r) PROVE (aPc' # "exited" => WorkersEnd') /\ (oPc' = "run" => PoolEnds')
  <2>1. UNCHANGED <<work, dPc, wPc, aPc, oPc>>
    BY <1>7, Frames DEF dVars, wVars, aVars, oVars
  <2>2. aPc' # "exited" => WorkersEnd'
    BY <1>1, <2>1
  <2>3. CASE ResolverRecv(r)
    <3>1. rPc' = [rPc EXCEPT ![r] = "send"] /\ resolve # <<>>
      BY <2>3, Zenon DEF ResolverRecv
    <3>2. oPc = "run" => \A v \in Resolvers : rPc[v] # "exited"
      BY <1>1, <3>1
    <3>3. \A v \in Resolvers : rPc'[v] = "exited" => rPc[v] = "exited"
      BY <1>3, <3>1
    <3> QED BY <2>1, <2>2, <3>2, <3>3
  <2>4. CASE ResolverSend(r)
    <3>1. rPc' = [rPc EXCEPT ![r] = "recv"] /\ UNCHANGED resolve
      BY <2>4, Zenon DEF ResolverSend
    <3>2. \A v \in Resolvers : rPc'[v] = "exited" => rPc[v] = "exited"
      BY <1>3, <3>1
    <3> QED BY <1>1, <2>1, <2>2, <3>1, <3>2
  <2>5. CASE ResolverExit(r)
    <3>1. rPc' = [rPc EXCEPT ![r] = "exited"] /\ UNCHANGED resolve /\ ((resolve = <<>> /\ aPc = "exited") \/ oPc # "run")
      BY <2>5 DEF ResolverExit, DoneRxAlive
    <3>2. \A v \in Resolvers : rPc'[v] = "exited" => rPc[v] = "exited" \/ v = r
      BY <1>3, <3>1
    <3> QED BY <1>1, <2>1, <2>2, <3>1, <3>2
  <2> QED BY <1>7, <2>3, <2>4, <2>5 DEF Resolver
<1>8. CASE Output
  <2>1. UNCHANGED <<work, resolve, dPc, wPc, aPc, rPc>>
    BY <1>8, Frames DEF dVars, wVars, aVars, rVars
  <2>2. oPc' = "run" => oPc = "run"
    <3>1. Teardown => oPc' # "run"
      BY TeardownStep
    <3> QED BY <1>8, <3>1, OutputCases, MismatchStep, SendStep, RecvStep, Zenon
  <2> QED BY <1>1, <2>1, <2>2
<1>9. CASE ConsumerRecv \/ ConsumerHangsUp \/ UNCHANGED vars
  <2>1. UNCHANGED <<work, resolve, dVars, wVars, aVars, rVars, oVars>>
    BY <1>9, ConsumerStep, Zenon
  <2>2. UNCHANGED <<work, resolve, dPc, wPc, aPc, rPc, oPc>>
    BY <2>1 DEF dVars, wVars, aVars, rVars, oVars
  <2> QED BY <1>1, <2>2
<1> QED BY <1>4, <1>5, <1>6, <1>7, <1>8, <1>9, NextCases, Zenon

\* The dispatcher stops with a result and cuts at believed boundaries; a pool
\* of threads ends only once its channel is empty and its sender is gone, as
\* long as the stage behind it listens.
THEOREM StopsCorrect == Spec => [](DispatchEnds /\ ThreadsEnd)
<1>1. Init => DispatchEnds /\ ThreadsEnd
  BY InitFacts DEF DispatchEnds, ThreadsEnd
<1>2. TypeInvariant /\ DispatchEnds /\ ThreadsEnd /\ [Next]_vars => DispatchEnds' /\ ThreadsEnd'
  BY DispatchEndsStep, ThreadsEndStep
<1> QED BY <1>1, <1>2, StreamTypeCorrect, PTL DEF Spec

-----------------------------------------------------------------------------
(* The slices are cut at a row of block starts. *)

Row == [1 .. item.id -> 0 .. NumBlocks]

\* What a message is about does not change unless the dispatcher cuts again.
LEMMA CutStable ==
    ASSUME NEW c, fault' = fault, item'.id = item.id
    PROVE  /\ \A e : IsFault(e) => IsFault(e)'
           /\ \A x : ItemCut(c, x) => ItemCut(c, x)'
           /\ \A o : OutcomeCut(c, o) => OutcomeCut(c, o)'
           /\ \A j : JobCut(c, j) => JobCut(c, j)'
           /\ \A d : DoneCut(c, d) => DoneCut(c, d)'
<1>1. \A e : IsFault(e) => IsFault(e)'
  BY DEF IsFault
<1>2. /\ \A n : CutHint(c, n)' = CutHint(c, n)
      /\ \A n, first, next, final : IsSlice(c, n, first, next, final) => IsSlice(c, n, first, next, final)'
  BY DEF CutHint, IsSlice, CutEnd
<1>3. \A lo, hi, kinds : Free(lo, hi, kinds) => Free(lo, hi, kinds)'
  BY DEF Free
<1>4. \A x : ItemCut(c, x) => ItemCut(c, x)'
  BY <1>2, Zenon DEF ItemCut
<1>5. \A o : OutcomeCut(c, o) => OutcomeCut(c, o)'
  BY <1>1, <1>2, <1>3, Zenon DEF OutcomeCut
<1>6. \A j : JobCut(c, j) => JobCut(c, j)'
  BY <1>2, <1>3, Zenon DEF JobCut
<1>7. \A d : DoneCut(c, d) => DoneCut(c, d)'
  BY <1>1, <1>2, <1>3, Zenon DEF DoneCut
<1> QED BY <1>1, <1>4, <1>5, <1>6, <1>7

LEMMA CutFrame ==
    ASSUME NEW c, CutBy(c), fault' = fault, item'.id = item.id, item'.start = item.start
    PROVE  /\ CutPoints(c)'
           /\ UNCHANGED work => ItemsCut(c)'
           /\ UNCHANGED <<wVars, result, aReorder>> => OutcomesCut(c)'
           /\ UNCHANGED <<resolve, aPc, aNext, prevTail>> => JobsCut(c)'
           /\ UNCHANGED <<rVars, done, oReorder>> => DonesCut(c)'
           /\ UNCHANGED <<oVars, delivered>> => OutputCut(c)'
<1>1. CutPoints(c)'
  BY DEF CutBy, CutPoints
<1>2. UNCHANGED work => ItemsCut(c)'
  BY CutStable, Zenon DEF CutBy, ItemsCut
<1>3. UNCHANGED <<wVars, result, aReorder>> => OutcomesCut(c)'
  BY CutStable, Zenon DEF CutBy, OutcomesCut, wVars
<1>4. UNCHANGED <<resolve, aPc, aNext, prevTail>> => JobsCut(c)'
  <2>1. UNCHANGED resolve => \A i \in DOMAIN resolve' : JobCut(c, resolve[i])'
    BY CutStable, Zenon DEF CutBy, JobsCut
  <2>2. \A e : IsFault(e) => IsFault(e)'
    BY CutStable, Zenon
  <2> QED BY <2>1, <2>2, Zenon DEF CutBy, JobsCut
<1>5. UNCHANGED <<rVars, done, oReorder>> => DonesCut(c)'
  BY CutStable, Zenon DEF CutBy, DonesCut, rVars
<1>6. UNCHANGED <<oVars, delivered>> => OutputCut(c)'
  BY DEF CutBy, OutputCut, oVars, Clean
<1> QED BY <1>1, <1>2, <1>3, <1>4, <1>5, <1>6

\* The cut points, in the form the provers use.
LEMMA CutPointTypes ==
    ASSUME TypeInvariant, NEW c \in Row, CutPoints(c)
    PROVE  /\ \A n \in 1 .. item.id : c[n] \in Nat /\ c[n] \in Blocks /\ c[n] \in 0 .. NumBlocks
           /\ \A n \in 1 .. item.id : CutEnd(c, n) \in Nat /\ c[n] < CutEnd(c, n) /\ CutEnd(c, n) \in c[n] .. NumBlocks
                                      /\ CutEnd(c, n) \in 0 .. NumBlocks
           /\ \A n \in 1 .. item.id : n # item.id => n + 1 \in 1 .. item.id /\ CutEnd(c, n) = c[n + 1]
           /\ CutEnd(c, item.id) = NumBlocks
<1>1. NumBlocks \in Nat /\ item.id \in Nat
  BY ConstantTypes, PoolTypes
<1>2. \A n \in 1 .. item.id : c[n] \in 0 .. NumBlocks /\ c[n] < NumBlocks
  BY DEF Row, CutPoints
<1>3. \A n \in 1 .. item.id : c[n] \in Nat /\ c[n] \in Blocks /\ c[n] \in 0 .. NumBlocks
  BY <1>1, <1>2 DEF Blocks
<1>4. \A n \in 1 .. item.id : n # item.id => n + 1 \in 1 .. item.id /\ CutEnd(c, n) = c[n + 1] /\ c[n] < c[n + 1]
  BY <1>1 DEF CutEnd, CutPoints
<1>5. CutEnd(c, item.id) = NumBlocks
  BY <1>1 DEF CutEnd
<1>6. ASSUME NEW n \in 1 .. item.id
      PROVE  CutEnd(c, n) \in Nat /\ c[n] < CutEnd(c, n) /\ CutEnd(c, n) \in c[n] .. NumBlocks /\ CutEnd(c, n) \in 0 .. NumBlocks
  <2> DEFINE e == CutEnd(c, n)
             k == c[n]
  <2>1. k \in 0 .. NumBlocks /\ e \in 0 .. NumBlocks /\ k < e
    <3>1. CASE n = item.id
      BY <1>1, <1>2, <1>5, <3>1
    <3>2. CASE n # item.id
      BY <1>2, <1>4, <3>2
    <3> QED BY <3>1, <3>2
  <2> HIDE DEF e, k
  <2>2. e \in Nat /\ k < e /\ e \in k .. NumBlocks /\ e \in 0 .. NumBlocks
    BY <1>1, <2>1
  <2> QED BY <2>2 DEF e, k
<1> QED BY <1>3, <1>4, <1>5, <1>6

\* A worker decodes the blocks of the slice, or fails on a damaged one.
LEMMA DecodeCut ==
    ASSUME TypeInvariant, NEW c \in Row, CutPoints(c), NEW x \in Item, ItemCut(c, x), x.id \in 1 .. item.id,
           NEW r \in DecodeItem(x.start, x.hint)
    PROVE  OutcomeCut(c, [id |-> x.id, res |-> r])
<1> DEFINE n == x.id
           k == c[n]
           e == CutEnd(c, n)
           hint == CutHint(c, n)
           o == [id |-> n, res |-> r]
<1>1. NumBlocks \in Nat /\ item.id \in Nat /\ n \in 1 .. item.id
  BY ConstantTypes, PoolTypes
<1>2. k \in Nat /\ k \in Blocks /\ k \in 0 .. NumBlocks /\ e \in k .. NumBlocks /\ k < e /\ e \in Nat
  BY <1>1, CutPointTypes
<1>3. x.start = Bit(k) /\ x.hint = hint
  BY DEF ItemCut
<1>4. /\ StopBlock(k, hint) = e /\ hint \notin FalseStarts /\ hint \in Int
      /\ (hint = NoHint <=> n = item.id)
  <2>1. CASE n = item.id
    <3>1. hint = NoHint /\ e = NumBlocks
      BY <1>1, <2>1 DEF CutHint, CutEnd
    <3>2. NoHint \notin FalseStarts /\ NoHint \in Int
      BY <1>1 DEF NoHint, FalseStarts, EndOfInput, Bit, Inside, Blocks
    <3> QED BY <1>2, <2>1, <3>1, <3>2, StopAtEnd
  <2>2. CASE n # item.id
    <3>1. n + 1 \in 1 .. item.id /\ e = c[n + 1] /\ hint = Bit(e)
      BY <1>1, <2>2, CutPointTypes DEF CutHint
    <3>2. e \in Blocks
      BY <3>1, CutPointTypes
    <3> HIDE DEF k, e, n
    <3>3. StopBlock(k, Bit(e)) = e
      BY <1>2, <3>2, StopAtBlock
    <3>4. Bit(e) \notin FalseStarts /\ Bit(e) \in Int /\ Bit(e) # NoHint
      BY <1>1, <1>2, <3>2 DEF NoHint, FalseStarts, EndOfInput, Bit, Inside, Blocks
    <3> QED BY <2>2, <3>1, <3>3, <3>4
  <2> QED BY <2>1, <2>2
<1> HIDE DEF k, e, hint, n
<1>5. r = [DecodeBlocks(k, hint) EXCEPT !.final = DecodeBlocks(k, hint).final /\ hint = NoHint]
  <2>1. DecodeOneChunk(Bit(k), hint) = {DecodeBlocks(k, hint)}
    BY <1>2, DecodeAtBlock
  <2>2. r \in DecodeItem(Bit(k), hint)
    BY <1>3
  <2> QED BY <1>4, <2>1, <2>2, Zenon DEF DecodeItem
<1> DEFINE bad == \E j \in k .. e - 1 : fault[j] = "decode"
<1>6. CASE bad
  <2>1. DecodeBlocks(k, hint) = DecodeError
    BY <1>4, <1>6, Zenon DEF DecodeBlocks
  <2>2. ~r.ok
    BY <1>5, <2>1 DEF DecodeError
  <2>3. \A j \in k .. e - 1 : j \in Blocks
    BY <1>1, <1>2 DEF Blocks
  <2>4. IsFault("decode")
    BY <1>6, <2>3 DEF IsFault
  <2>5. ~o.res.ok
    BY <2>2
  <2> QED BY <2>4, <2>5, Zenon DEF OutcomeCut, n
<1>7. CASE ~bad
  <2>1. k # NumBlocks
    BY <1>1, <1>2 DEF Blocks
  <2> DEFINE f == ReachesEnd(k, e)
  <2>2. DecodeBlocks(k, hint) = [ok |-> TRUE, first |-> k, next |-> e, end |-> Bit(e), final |-> f]
    BY <1>4, <1>7, <2>1, Zenon DEF DecodeBlocks
  <2>3. f <=> e = NumBlocks
    BY <1>2 DEF ReachesEnd
  <2> HIDE DEF f
  <2> DEFINE g == DecodeBlocks(k, hint).final /\ hint = NoHint
  <2>4. g <=> f /\ hint = NoHint
    BY <2>2
  <2>5. r = [DecodeBlocks(k, hint) EXCEPT !.final = g]
    BY <1>5, Zenon
  <2> HIDE DEF g
  <2>6. r.ok /\ r.first = k /\ r.next = e /\ r.final = g
    BY <2>2, <2>5
  <2>7. g <=> n = item.id
    <3>1. n = item.id => e = NumBlocks
      BY CutPointTypes DEF e
    <3> QED BY <1>4, <2>3, <2>4, <3>1, Zenon
  <2>8. o.id = n /\ o.res = r
    OBVIOUS
  <2> HIDE DEF o
  <2>9. IsSlice(c, n, r.first, r.next, r.final)
    BY <1>1, <2>6, <2>7 DEF IsSlice, k, e
  <2>10. Free(r.first, r.next, {"decode"})
    BY <1>7, <2>6 DEF Free
  <2>11. OutcomeCut(c, o)
    BY <2>6, <2>8, <2>9, <2>10, Zenon DEF OutcomeCut
  <2> QED BY <2>11 DEF o, n
<1> QED BY <1>6, <1>7

LEMMA CutWorker ==
    ASSUME TypeInvariant, IdsOnce, NEW c \in Row, CutBy(c), NEW w \in Workers, Worker(w)
    PROVE  CutBy(c)'
<1>1. UNCHANGED <<inputVars, resolve, done, dVars, aVars, rVars, oVars, sinkVars>>
  BY Frames, Zenon
<1>2. fault' = fault /\ item' = item /\ UNCHANGED <<aReorder, aPc, aNext, prevTail, oReorder, delivered>>
  BY <1>1 DEF inputVars, dVars, aVars, oVars, sinkVars
<1>3. CutPoints(c)' /\ JobsCut(c)' /\ DonesCut(c)' /\ OutputCut(c)'
  BY <1>1, <1>2, CutFrame
<1>4. \A o : OutcomeCut(c, o) => OutcomeCut(c, o)'
  BY <1>2, CutStable
<1>5. /\ \A v \in Workers : wPc[v] = "send" => OutcomeCut(c, wHold[v])
      /\ \A i \in DOMAIN result : OutcomeCut(c, result[i])
      /\ \A o \in aReorder : o.res.ok /\ OutcomeCut(c, o)
  BY Zenon DEF CutBy, OutcomesCut
<1>6. wHold \in [Workers -> Outcome] /\ wPc \in [Workers -> {"recv", "send", "exited"}] /\ result \in Seq(Outcome)
      /\ work \in Seq(Item)
  BY PoolTypes DEF TypeInvariant, WorkerType
<1>7. CASE WorkerRecv(w)
  <2> DEFINE x == Head(work)
  <2>1. PICK r \in DecodeItem(x.start, x.hint) : wHold' = [wHold EXCEPT ![w] = [id |-> x.id, res |-> r]]
    BY <1>7, Zenon DEF WorkerRecv
  <2>2. work # <<>> /\ work' = Tail(work) /\ UNCHANGED result /\ wPc' = [wPc EXCEPT ![w] = "send"]
    BY <1>7, Zenon DEF WorkerRecv
  <2>3. x \in Item /\ 1 \in DOMAIN work /\ x = work[1]
    BY <1>6, <2>2, TakeType, TakeElems
  <2>4. x.id \in 1 .. item.id
    <3>1. x.id \in AllIds /\ x.id # 0
      BY <2>2, PoolTypes, ChannelTake DEF IdsOnce, PlacesDistinct, WorkIds, AllIds
    <3>2. x.id \in Nat /\ x.id <= item.id /\ item.id \in Nat
      BY <3>1, IdTypes, PoolTypes DEF IdsOnce, IdsBelow
    <3> HIDE DEF x
    <3> QED BY <3>1, <3>2
  <2>5. ItemCut(c, x) /\ CutPoints(c)
    BY <2>3 DEF CutBy, ItemsCut
  <2> DEFINE o == [id |-> x.id, res |-> r]
  <2>6. OutcomeCut(c, o)
    BY <2>3, <2>4, <2>5, DecodeCut
  <2> HIDE DEF o, x
  <2>7. \A v \in Workers : (wPc'[v] = "send" => wPc[v] = "send" \/ v = w) /\ (wHold'[v] = IF v = w THEN o ELSE wHold[v])
    BY <1>6, <2>1, <2>2 DEF o
  <2>8. \A v \in Workers : wPc'[v] = "send" => OutcomeCut(c, wHold'[v])
    BY <1>5, <2>6, <2>7, Zenon
  <2>9. OutcomesCut(c)'
    BY <1>2, <1>4, <1>5, <2>2, <2>8, Zenon DEF OutcomesCut
  <2>10. \A i \in DOMAIN work' : ItemCut(c, work'[i])
    <3>1. \A i \in DOMAIN work' : i + 1 \in DOMAIN work /\ work'[i] = work[i + 1]
      BY <1>6, <2>2, TakeElems
    <3> QED BY <3>1, Zenon DEF CutBy, ItemsCut
  <2>11. ItemsCut(c)'
    <3>1. \A y : ItemCut(c, y) => ItemCut(c, y)'
      BY <1>2, CutStable
    <3> QED BY <2>10, <3>1, Zenon DEF ItemsCut
  <2> QED BY <1>3, <2>9, <2>11 DEF CutBy
<1>8. CASE ~WorkerRecv(w)
  <2>1. /\ UNCHANGED work /\ wHold' = [wHold EXCEPT ![w] = NoOutcome]
        /\ \/ result' = Append(result, wHold[w]) /\ wPc' = [wPc EXCEPT ![w] = "recv"] /\ wPc[w] = "send"
           \/ result' = result /\ wPc' = [wPc EXCEPT ![w] = "exited"]
    BY <1>8, Zenon DEF Worker, WorkerSend, WorkerExit
  <2>2. \A v \in Workers : wPc'[v] = "send" => wPc[v] = "send" /\ wHold'[v] = wHold[v]
    BY <1>6, <2>1
  <2>3. \A v \in Workers : wPc'[v] = "send" => OutcomeCut(c, wHold'[v])
    BY <1>5, <2>2, Zenon
  <2>4. \A i \in DOMAIN result' : OutcomeCut(c, result'[i])
    <3>1. CASE result' = Append(result, wHold[w]) /\ wPc[w] = "send"
      <4>1. \A i \in DOMAIN result' : result'[i] = wHold[w] \/ (i \in DOMAIN result /\ result'[i] = result[i])
        BY <1>6, <3>1, PutElems
      <4> QED BY <1>5, <3>1, <4>1, Zenon
    <3>2. CASE result' = result
      BY <1>5, <3>2, Zenon
    <3> QED BY <2>1, <3>1, <3>2
  <2>5. OutcomesCut(c)'
    BY <1>2, <1>4, <1>5, <2>3, <2>4, Zenon DEF OutcomesCut
  <2>6. ItemsCut(c)'
    BY <1>2, <2>1, CutFrame
  <2> QED BY <1>3, <2>5, <2>6 DEF CutBy
<1> QED BY <1>7, <1>8

LEMMA CutStageA ==
    ASSUME TypeInvariant, NEW c \in Row, CutBy(c), StageA
    PROVE  CutBy(c)'
<1>1. UNCHANGED <<inputVars, work, dVars, wVars, rVars, oVars, sinkVars>>
  BY Frames, Zenon
<1>2. fault' = fault /\ item' = item /\ UNCHANGED <<wPc, wHold, rPc, rHold, oReorder, delivered>>
  BY <1>1 DEF inputVars, dVars, wVars, rVars, oVars, sinkVars
<1>3. CutPoints(c)' /\ ItemsCut(c)' /\ OutputCut(c)'
  BY <1>1, <1>2, CutFrame
<1>4. /\ \A o : OutcomeCut(c, o) => OutcomeCut(c, o)'
      /\ \A j : JobCut(c, j) => JobCut(c, j)'
      /\ \A d : DoneCut(c, d) => DoneCut(c, d)'
      /\ \A e : IsFault(e) => IsFault(e)'
  BY <1>2, CutStable
<1>5. /\ \A v \in Workers : wPc[v] = "send" => OutcomeCut(c, wHold[v])
      /\ \A i \in DOMAIN result : OutcomeCut(c, result[i])
      /\ \A o \in aReorder : o.res.ok /\ OutcomeCut(c, o)
      /\ \A i \in DOMAIN resolve : JobCut(c, resolve[i])
      /\ aPc # "exited" => aNext \in 1 .. item.id /\ prevTail = WindowAt(c[aNext])
      /\ aPc = "fail" => IsFault("decode")
      /\ DonesCut(c) /\ CutPoints(c)
  BY Zenon DEF CutBy, OutcomesCut, JobsCut
<1>6. /\ result \in Seq(Outcome) /\ resolve \in Seq(Job) /\ done \in Seq(DoneMsg) /\ aReorder \in SUBSET Outcome
      /\ item.id \in Nat /\ NumBlocks \in Nat
  BY PoolTypes, ConstantTypes
<1>7. CASE StageAForward
  <2>1. PICK o \in aReorder :
          /\ o.id = aNext /\ aReorder' = aReorder \ {o}
          /\ prevTail' = NextTail(o.res.first, o.res.next, prevTail)
          /\ UNCHANGED resolve \/ resolve' = Append(resolve, JobOf(o, prevTail))
          /\ aPc' = "exited" \/ (aPc' = "run" /\ aNext' = aNext + 1 /\ ~o.res.final)
    BY <1>7, ForwardStep, Zenon
  <2>2. aPc = "run" /\ UNCHANGED <<result, done>>
    BY <1>7, ForwardStep, Zenon
  <2> DEFINE k == c[aNext]
             e == CutEnd(c, aNext)
  <2>3. aNext \in 1 .. item.id /\ prevTail = WindowAt(k)
    BY <1>5, <2>2
  <2>4. o.res.ok /\ OutcomeCut(c, o)
    BY <1>5
  <2>5. /\ IsSlice(c, o.id, o.res.first, o.res.next, o.res.final) /\ Free(o.res.first, o.res.next, {"decode"})
    BY <2>4, Zenon DEF OutcomeCut
  <2>6. o.res.first = k /\ o.res.next = e /\ (o.res.final <=> aNext = item.id)
    BY <2>1, <2>5 DEF IsSlice
  <2>7. k \in 0 .. NumBlocks /\ e \in k .. NumBlocks
    BY <1>5, <2>3, CutPointTypes
  <2>8. prevTail' = WindowAt(e)
    <3> HIDE DEF k, e
    <3>1. NextTail(k, e, WindowAt(k)) = WindowAt(e)
      BY <2>7, TailStep
    <3> QED BY <2>1, <2>3, <2>6, <3>1, Zenon
  <2>9. aPc' = "run" => aNext' \in 1 .. item.id /\ c[aNext'] = e
    <3>1. aPc' = "run" => aNext' = aNext + 1 /\ aNext # item.id
      BY <2>1, <2>6
    <3> QED BY <1>5, <2>3, <3>1, CutPointTypes
  <2>10. JobCut(c, JobOf(o, prevTail))
    <3> DEFINE j == JobOf(o, prevTail)
    <3>1. j.id = o.id /\ j.first = o.res.first /\ j.next = o.res.next /\ j.final = o.res.final /\ j.tail = prevTail
      BY DEF JobOf
    <3> HIDE DEF j
    <3>2. JobCut(c, j)
      BY <2>3, <2>5, <2>6, <3>1, Zenon DEF JobCut
    <3> QED BY <3>2 DEF j
  <2>11. \A i \in DOMAIN resolve' : JobCut(c, resolve'[i])
    <3>1. CASE resolve' = Append(resolve, JobOf(o, prevTail))
      <4>1. JobOf(o, prevTail) \in Job
        <5>1. o \in Outcome /\ prevTail \in Seq(Value)
          BY <1>6, Zenon DEF TypeInvariant, StageAType
        <5> QED BY <5>1, Zenon DEF JobOf, Job, Outcome, DecodeResult
      <4>2. \A i \in DOMAIN resolve' : resolve'[i] = JobOf(o, prevTail) \/ (i \in DOMAIN resolve /\ resolve'[i] = resolve[i])
        <5> HIDE DEF JobOf
        <5> QED BY <1>6, <3>1, <4>1, PutElems
      <4> QED BY <1>5, <2>10, <4>2, Zenon
    <3>2. CASE UNCHANGED resolve
      BY <1>5, <3>2, Zenon
    <3> QED BY <2>1, <3>1, <3>2
  <2>12. JobsCut(c)'
    <3>1. \A i \in DOMAIN resolve' : JobCut(c, resolve[i])'
      BY <1>4, <2>11, Zenon
    <3>2. aPc' # "exited" => aNext' \in 1 .. item'.id /\ prevTail' = WindowAt(c[aNext'])
      BY <1>2, <2>1, <2>8, <2>9, Zenon
    <3>3. aPc' # "fail"
      BY <2>1
    <3> QED BY <3>1, <3>2, <3>3, Zenon DEF JobsCut
  <2>13. OutcomesCut(c)'
    <3>1. \A x \in aReorder' : x \in aReorder
      BY <2>1
    <3> QED BY <1>2, <1>4, <1>5, <2>2, <3>1, Zenon DEF OutcomesCut
  <2>14. DonesCut(c)'
    BY <1>1, <1>2, <2>2, CutFrame DEF oVars
  <2> QED BY <1>3, <2>12, <2>13, <2>14 DEF CutBy
<1>8. CASE StageARecv
  <2>1. /\ aPc = "run" /\ result # <<>> /\ result' = Tail(result) /\ UNCHANGED <<resolve, done, aNext, prevTail>>
        /\ \/ Head(result).res.ok /\ aReorder' = aReorder \cup {Head(result)} /\ aPc' = aPc
           \/ ~Head(result).res.ok /\ aPc' = "fail" /\ aReorder' = aReorder
    BY <1>8, Zenon DEF StageARecv
  <2>2. /\ 1 \in DOMAIN result /\ Head(result) = result[1]
        /\ \A i \in DOMAIN result' : i + 1 \in DOMAIN result /\ result'[i] = result[i + 1]
    BY <1>6, <2>1, TakeElems
  <2>3. OutcomeCut(c, Head(result))
    BY <1>5, <2>2, Zenon
  <2>4. \A i \in DOMAIN result' : OutcomeCut(c, result'[i])
    BY <1>5, <2>2, Zenon
  <2>5. \A x \in aReorder' : x.res.ok /\ OutcomeCut(c, x)
    BY <1>5, <2>1, <2>3, Zenon
  <2>6. OutcomesCut(c)'
    BY <1>2, <1>4, <1>5, <2>4, <2>5, Zenon DEF OutcomesCut
  <2>7. aPc' = "fail" => IsFault("decode")
    <3>1. ~Head(result).res.ok => IsFault("decode")
      BY <2>3, Zenon DEF OutcomeCut
    <3>2. aPc' = "fail" => ~Head(result).res.ok
      BY <2>1
    <3> QED BY <3>1, <3>2
  <2>8. JobsCut(c)'
    <3>1. \A i \in DOMAIN resolve' : JobCut(c, resolve[i])'
      BY <1>4, <1>5, <2>1, Zenon
    <3>2. aPc' # "exited" => aNext' \in 1 .. item'.id /\ prevTail' = WindowAt(c[aNext'])
      <4>1. aNext \in 1 .. item.id /\ prevTail = WindowAt(c[aNext])
        BY <1>5, <2>1
      <4> QED BY <1>2, <2>1, <4>1, Zenon
    <3>3. aPc' = "fail" => IsFault("decode")'
      BY <1>4, <2>7, Zenon
    <3> QED BY <3>1, <3>2, <3>3, Zenon DEF JobsCut
  <2>9. DonesCut(c)'
    BY <1>1, <1>2, <2>1, CutFrame DEF oVars
  <2> QED BY <1>3, <2>6, <2>8, <2>9 DEF CutBy
<1>9. CASE StageAFail \/ StageAEnd
  <2>1. /\ UNCHANGED <<result, resolve, aReorder, aNext, prevTail>> /\ aPc' = "exited"
        /\ done' = done \/ (done' = Append(done, DoneError("decode")) /\ aPc = "fail")
    BY <1>9, Zenon DEF StageAFail, StageAEnd
  <2>2. OutcomesCut(c)'
    BY <1>1, <1>2, <2>1, CutFrame
  <2>3. JobsCut(c)'
    <3>1. \A i \in DOMAIN resolve' : JobCut(c, resolve[i])'
      BY <1>4, <1>5, <2>1, Zenon
    <3>2. aPc' = "exited" /\ aPc' # "fail"
      BY <2>1
    <3> QED BY <3>1, <3>2, Zenon DEF JobsCut
  <2>4. \A i \in DOMAIN done' : DoneCut(c, done'[i])
    <3>1. \A i \in DOMAIN done : DoneCut(c, done[i])
      BY <1>5, Zenon DEF DonesCut
    <3>2. CASE done' = Append(done, DoneError("decode")) /\ aPc = "fail"
      <4> DEFINE z == DoneError("decode")
      <4>1. z \in DoneMsg
        BY Empties DEF FaultKind
      <4>2. z.err = "decode"
        BY DEF DoneError
      <4> HIDE DEF z
      <4>3. DoneCut(c, z)
        BY <1>5, <3>2, <4>2 DEF DoneCut
      <4>4. \A i \in DOMAIN done' : done'[i] = z \/ (i \in DOMAIN done /\ done'[i] = done[i])
        <5>1. done' = Append(done, z)
          BY <3>2 DEF z
        <5> QED BY <1>6, <4>1, <5>1, PutElems
      <4> QED BY <3>1, <4>3, <4>4, Zenon
    <3> QED BY <2>1, <3>1, <3>2
  <2>5. DonesCut(c)'
    BY <1>2, <1>4, <1>5, <2>4, Zenon DEF DonesCut
  <2> QED BY <1>3, <2>2, <2>3, <2>5 DEF CutBy
<1> QED BY <1>7, <1>8, <1>9 DEF StageA

\* A resolver patches the slice with the right window, or fails on a damaged
\* block of it.
LEMMA ResolvedCut ==
    ASSUME TypeInvariant, NEW c \in Row, CutPoints(c), NEW j \in Job, JobCut(c, j)
    PROVE  DoneCut(c, Resolved(j))
<1>1. /\ IsSlice(c, j.id, j.first, j.next, j.final) /\ Free(j.first, j.next, {"decode"}) /\ j.tail = WindowAt(j.first)
  BY DEF JobCut
<1>2. j.id \in 1 .. item.id /\ j.first = c[j.id] /\ j.next = CutEnd(c, j.id)
  BY <1>1 DEF IsSlice
<1>3. j.first \in 0 .. NumBlocks /\ j.next \in 0 .. NumBlocks /\ NumBlocks \in Nat /\ j.first # Corrupt
  <2>1. c[j.id] \in 0 .. NumBlocks /\ CutEnd(c, j.id) \in 0 .. NumBlocks /\ NumBlocks \in Nat
    BY <1>2, CutPointTypes, ConstantTypes
  <2>2. \A k \in 0 .. NumBlocks : k # Corrupt
    BY DEF Corrupt
  <2> QED BY <1>2, <2>1, <2>2
<1>4. CASE Unresolvable(j.first, j.next)
  <2>1. IsFault("resolve")
    <3>1. PICK k \in j.first .. j.next - 1 : fault[k] = "resolve"
      BY <1>4 DEF Unresolvable
    <3>2. k \in Blocks
      BY <1>3 DEF Blocks
    <3> QED BY <3>1, <3>2 DEF IsFault
  <2>2. Resolved(j).err = "resolve"
    BY <1>4 DEF Resolved, DoneError
  <2> HIDE DEF Resolved
  <2> QED BY <2>1, <2>2 DEF DoneCut
<1>5. CASE ~Unresolvable(j.first, j.next)
  <2> DEFINE b == ResolvedBytes(j.first, j.next, j.tail)
             d == Resolved(j)
  <2>1. b = Bytes(j.first, j.next)
    BY <1>1, <1>3, Zenon DEF ResolvedBytes
  <2>2. d = [err |-> "none", id |-> j.id, first |-> j.first, next |-> j.next, final |-> j.final, bytes |-> b]
    BY <1>5, Zenon DEF Resolved
  <2> HIDE DEF b, d
  <2>3. d.err = "none" /\ d.id = j.id /\ d.first = j.first /\ d.next = j.next /\ d.final = j.final /\ d.bytes = b
    BY <2>2
  <2>4. Free(j.first, j.next, {"decode", "resolve"})
    BY <1>1, <1>3, <1>5 DEF Free, Unresolvable
  <2>5. DoneCut(c, d)
    BY <1>1, <2>1, <2>3, <2>4, Zenon DEF DoneCut
  <2> QED BY <2>5 DEF d
<1> QED BY <1>4, <1>5

LEMMA CutResolver ==
    ASSUME TypeInvariant, NEW c \in Row, CutBy(c), NEW r \in Resolvers, Resolver(r)
    PROVE  CutBy(c)'
<1>1. UNCHANGED <<inputVars, work, result, dVars, wVars, aVars, oVars, sinkVars>>
  BY Frames, Zenon
<1>2. fault' = fault /\ item' = item /\ UNCHANGED <<aReorder, aPc, aNext, prevTail, oReorder, delivered>>
  BY <1>1 DEF inputVars, dVars, aVars, oVars, sinkVars
<1>3. CutPoints(c)' /\ ItemsCut(c)' /\ OutcomesCut(c)' /\ OutputCut(c)'
  BY <1>1, <1>2, CutFrame
<1>4. /\ \A j : JobCut(c, j) => JobCut(c, j)'
      /\ \A d : DoneCut(c, d) => DoneCut(c, d)'
      /\ \A e : IsFault(e) => IsFault(e)'
  BY <1>2, CutStable
<1>5. /\ \A v \in Resolvers : rPc[v] = "send" => DoneCut(c, rHold[v])
      /\ \A i \in DOMAIN done : DoneCut(c, done[i])
      /\ \A d \in oReorder : d.err = "none" /\ DoneCut(c, d)
      /\ \A i \in DOMAIN resolve : JobCut(c, resolve[i])
      /\ aPc # "exited" => aNext \in 1 .. item.id /\ prevTail = WindowAt(c[aNext])
      /\ aPc = "fail" => IsFault("decode")
      /\ CutPoints(c)
  BY Zenon DEF CutBy, DonesCut, JobsCut
<1>6. rHold \in [Resolvers -> DoneMsg] /\ rPc \in [Resolvers -> {"recv", "send", "exited"}] /\ done \in Seq(DoneMsg)
      /\ resolve \in Seq(Job)
  BY PoolTypes DEF TypeInvariant, ResolverType
<1>7. CASE ResolverRecv(r)
  <2> DEFINE d == Resolved(Head(resolve))
  <2>1. /\ resolve # <<>> /\ resolve' = Tail(resolve) /\ UNCHANGED done
        /\ rHold' = [rHold EXCEPT ![r] = d] /\ rPc' = [rPc EXCEPT ![r] = "send"]
    BY <1>7, Zenon DEF ResolverRecv
  <2>2. /\ Head(resolve) \in Job /\ 1 \in DOMAIN resolve /\ Head(resolve) = resolve[1]
        /\ \A i \in DOMAIN resolve' : i + 1 \in DOMAIN resolve /\ resolve'[i] = resolve[i + 1]
    BY <1>6, <2>1, TakeType, TakeElems
  <2>3. JobCut(c, Head(resolve))
    BY <1>5, <2>2, Zenon
  <2>4. DoneCut(c, d)
    BY <1>5, <2>2, <2>3, ResolvedCut
  <2> HIDE DEF d
  <2>5. \A v \in Resolvers : (rPc'[v] = "send" => rPc[v] = "send" \/ v = r)
                             /\ (rHold'[v] = IF v = r THEN d ELSE rHold[v])
    BY <1>6, <2>1
  <2>6. \A v \in Resolvers : rPc'[v] = "send" => DoneCut(c, rHold'[v])
    BY <1>5, <2>4, <2>5, Zenon
  <2>7. DonesCut(c)'
    BY <1>2, <1>4, <1>5, <2>1, <2>6, Zenon DEF DonesCut
  <2>8. \A i \in DOMAIN resolve' : JobCut(c, resolve'[i])
    BY <1>5, <2>2, Zenon
  <2>9. JobsCut(c)'
    <3>1. \A i \in DOMAIN resolve' : JobCut(c, resolve[i])'
      BY <1>4, <2>8, Zenon
    <3> QED BY <1>2, <1>4, <1>5, <3>1, Zenon DEF JobsCut
  <2> QED BY <1>3, <2>7, <2>9 DEF CutBy
<1>8. CASE ~ResolverRecv(r)
  <2>1. /\ UNCHANGED resolve /\ rHold' = [rHold EXCEPT ![r] = NoDone]
        /\ \/ done' = Append(done, rHold[r]) /\ rPc' = [rPc EXCEPT ![r] = "recv"] /\ rPc[r] = "send"
           \/ done' = done /\ rPc' = [rPc EXCEPT ![r] = "exited"]
    BY <1>8, Zenon DEF Resolver, ResolverSend, ResolverExit
  <2>2. \A v \in Resolvers : rPc'[v] = "send" => rPc[v] = "send" /\ rHold'[v] = rHold[v]
    BY <1>6, <2>1
  <2>3. \A v \in Resolvers : rPc'[v] = "send" => DoneCut(c, rHold'[v])
    BY <1>5, <2>2, Zenon
  <2>4. \A i \in DOMAIN done' : DoneCut(c, done'[i])
    <3>1. CASE done' = Append(done, rHold[r]) /\ rPc[r] = "send"
      <4>1. \A i \in DOMAIN done' : done'[i] = rHold[r] \/ (i \in DOMAIN done /\ done'[i] = done[i])
        BY <1>6, <3>1, PutElems
      <4> QED BY <1>5, <3>1, <4>1, Zenon
    <3>2. CASE done' = done
      BY <1>5, <3>2, Zenon
    <3> QED BY <2>1, <3>1, <3>2
  <2>5. DonesCut(c)'
    BY <1>2, <1>4, <1>5, <2>3, <2>4, Zenon DEF DonesCut
  <2>6. JobsCut(c)'
    BY <1>2, <2>1, CutFrame
  <2> QED BY <1>3, <2>5, <2>6 DEF CutBy
<1> QED BY <1>7, <1>8

\* The slice that is next in order extends the output, or its trailers show
\* damage of the input.
LEMMA SendTrue ==
    ASSUME TypeInvariant, NEW c \in Row, CutBy(c), oPc = "run", NEW d \in oReorder, d.id = oNext
    PROVE  /\ oNext \in 1 .. item.id /\ d.next \in 0 .. NumBlocks /\ d.next >= c[oNext]
           /\ (d.final <=> oNext = item.id) /\ d.next = CutEnd(c, oNext)
           /\ "none" \in TrailerVerdicts(d) =>
                 /\ Clean(d.next) /\ delivered \o d.bytes = Bytes(0, d.next)
                 /\ CarriedBytes(d.first, d.next, d.bytes, curMember) = Bytes(MemberStart(d.next), d.next)
           /\ \A v \in TrailerVerdicts(d) : v = "none" \/ IsFault(v)
<1> DEFINE f == d.first
           n == d.next
<1>1. CutPoints(c) /\ DoneCut(c, d) /\ d.err = "none"
  BY Zenon DEF CutBy, DonesCut
<1>2. IsSlice(c, d.id, f, n, d.final) /\ Free(f, n, {"decode", "resolve"}) /\ d.bytes = Bytes(f, n)
  BY <1>1, Zenon DEF DoneCut
<1>3. oNext \in 1 .. item.id /\ f = c[oNext] /\ n = CutEnd(c, oNext) /\ (d.final <=> oNext = item.id)
  BY <1>2 DEF IsSlice
<1>4. delivered = Bytes(0, f) /\ Clean(f) /\ curMember = Bytes(MemberStart(f), f)
  BY <1>3, Zenon DEF CutBy, OutputCut
<1>5. f \in 0 .. NumBlocks /\ n \in f .. NumBlocks /\ n \in 0 .. NumBlocks /\ f \in Nat /\ n \in Nat /\ f <= n /\ NumBlocks \in Nat
  <2>1. c[oNext] \in 0 .. NumBlocks /\ c[oNext] \in Nat /\ CutEnd(c, oNext) \in c[oNext] .. NumBlocks
        /\ CutEnd(c, oNext) \in 0 .. NumBlocks /\ CutEnd(c, oNext) \in Nat /\ c[oNext] < CutEnd(c, oNext)
    BY <1>1, <1>3, CutPointTypes
  <2> QED BY <1>3, <2>1, ConstantTypes
<1>6. TrailerVerdicts(d) = {ChunkVerdict(f, n, Bytes(f, n), Bytes(MemberStart(f), f))}
  <2>1. f # Corrupt
    BY <1>5 DEF Corrupt
  <2> QED BY <1>2, <1>4, <2>1, Zenon DEF TrailerVerdicts
<1> HIDE DEF f, n
<1>7. ASSUME "none" \in TrailerVerdicts(d)
      PROVE  Clean(n) /\ delivered \o d.bytes = Bytes(0, n) /\ CarriedBytes(f, n, d.bytes, curMember) = Bytes(MemberStart(n), n)
  <2>1. ChunkVerdict(f, n, Bytes(f, n), Bytes(MemberStart(f), f)) = "none"
    BY <1>6, <1>7, Zenon
  <2>2. \A k \in f .. n - 1 : fault[k] # "decode" /\ fault[k] # "resolve"
    BY <1>2 DEF Free
  <2>3. \A k \in f .. n - 1 : fault[k] = "none"
    <3>1. fault \in InputFaults
      BY DEF TypeInvariant, InputType
    <3> QED BY <1>5, <2>1, <2>2, <3>1, ChunkUndamaged
  <2>4. Clean(n)
    <3>1. \A k \in 0 .. n - 1 : k \in 0 .. f - 1 \/ k \in f .. n - 1
      BY <1>5
    <3> QED BY <1>4, <2>3, <3>1, Zenon DEF Clean
  <2>5. delivered \o d.bytes = Bytes(0, n)
    <3>1. 0 \in Nat /\ 0 <= f
      BY <1>5
    <3>2. Bytes(0, f) \o Bytes(f, n) = Bytes(0, n)
      BY <1>5, <3>1, BytesConcat, Zenon
    <3> QED BY <1>2, <1>4, <3>2, Zenon
  <2>6. CarriedBytes(f, n, Bytes(f, n), Bytes(MemberStart(f), f)) = Bytes(MemberStart(n), n)
    BY <1>5, CarriedTrue, Zenon
  <2> QED BY <1>2, <1>4, <2>4, <2>5, <2>6, Zenon
<1>8. ASSUME NEW v \in TrailerVerdicts(d), v # "none" PROVE IsFault(v)
  <2>1. v = ChunkVerdict(f, n, Bytes(f, n), Bytes(MemberStart(f), f))
    BY <1>6, Zenon
  <2>2. \E k \in Blocks : fault[k] = v
    BY <1>5, <1>8, <2>1, ChunkVerdictReal, Zenon
  <2> QED BY <2>2 DEF IsFault
<1> QED BY <1>3, <1>5, <1>7, <1>8 DEF f, n

LEMMA CutOutput ==
    ASSUME TypeInvariant, NEW c \in Row, CutBy(c), Output
    PROVE  CutBy(c)'
<1>1. UNCHANGED <<inputVars, work, result, resolve, dVars, wVars, aVars, rVars>>
  BY Frames, Zenon
<1>2. fault' = fault /\ item' = item /\ UNCHANGED <<aReorder, aPc, aNext, prevTail, rPc, rHold>>
  BY <1>1 DEF inputVars, dVars, aVars, rVars
<1>3. CutPoints(c)' /\ ItemsCut(c)' /\ OutcomesCut(c)' /\ JobsCut(c)'
  BY <1>1, <1>2, CutFrame
<1>4. \A d : DoneCut(c, d) => DoneCut(c, d)'
  BY <1>2, CutStable
<1>5. /\ \A v \in Resolvers : rPc[v] = "send" => DoneCut(c, rHold[v])
      /\ \A i \in DOMAIN done : DoneCut(c, done[i])
      /\ \A d \in oReorder : d.err = "none" /\ DoneCut(c, d)
      /\ CutPoints(c) /\ OutputCut(c)
  BY Zenon DEF CutBy, DonesCut
<1>6. done \in Seq(DoneMsg) /\ item.id \in Nat
  BY PoolTypes
<1>7. CASE OutputMismatch
  <2>1. oPc' = "abort" /\ UNCHANGED done /\ \E d \in oReorder : oReorder' = oReorder \ {d}
    BY <1>7, MismatchStep, Zenon
  <2>2. \A x \in oReorder' : x \in oReorder
    BY <2>1
  <2>3. DonesCut(c)'
    BY <1>2, <1>4, <1>5, <2>1, <2>2, Zenon DEF DonesCut
  <2>4. OutputCut(c)'
    BY <2>1 DEF OutputCut
  <2> QED BY <1>3, <2>3, <2>4 DEF CutBy
<1>8. CASE OutputSend
  <2>1. PICK d \in oReorder :
          /\ d.id = oNext /\ "none" \in TrailerVerdicts(d) /\ oReorder' = oReorder \ {d}
          /\ curMember' = CarriedBytes(d.first, d.next, d.bytes, curMember)
          /\ \/ oPc' = "abort"
             \/ /\ oPc' = "run" /\ ~d.final /\ delivered' = delivered \o d.bytes /\ oNext' = oNext + 1 /\ UNCHANGED outErr
    BY <1>8, SendStep, Zenon
  <2>2. oPc = "run" /\ UNCHANGED done
    BY <1>8, SendStep, Zenon
  <2>3. DonesCut(c)'
    <3>1. \A x \in oReorder' : x \in oReorder
      BY <2>1
    <3> QED BY <1>2, <1>4, <1>5, <2>2, <3>1, Zenon DEF DonesCut
  <2>4. OutputCut(c)'
    <3>1. CASE oPc' = "abort"
      BY <3>1 DEF OutputCut
    <3>2. CASE oPc' = "run" /\ ~d.final /\ delivered' = delivered \o d.bytes /\ oNext' = oNext + 1 /\ UNCHANGED outErr
      <4>1. /\ oNext \in 1 .. item.id /\ oNext # item.id /\ d.next = CutEnd(c, oNext) /\ Clean(d.next)
            /\ delivered' = Bytes(0, d.next) /\ curMember' = Bytes(MemberStart(d.next), d.next)
        BY <2>1, <2>2, <3>2, SendTrue
      <4>2. oNext' \in 1 .. item.id /\ c[oNext'] = d.next
        BY <1>5, <3>2, <4>1, CutPointTypes
      <4>3. outErr' = "none"
        BY <1>5, <2>2, <3>2 DEF OutputCut
      <4>4. Clean(c[oNext])'
        <5>1. \A k \in 0 .. d.next - 1 : fault'[k] = "none"
          BY <1>2, <4>1 DEF Clean
        <5> QED BY <4>2, <5>1, Zenon DEF Clean
      <4> QED BY <1>2, <4>1, <4>2, <4>3, <4>4, Zenon DEF OutputCut
    <3> QED BY <2>1, <3>1, <3>2
  <2> QED BY <1>3, <2>3, <2>4 DEF CutBy
<1>9. CASE OutputRecv
  <2>1. \/ UNCHANGED <<done, oReorder>> /\ oPc' = "abort"
        \/ done # <<>> /\ done' = Tail(done) /\ Head(done).err = "none" /\ oReorder' = oReorder \cup {Head(done)} /\ UNCHANGED outErr /\ oPc' = "run"
        \/ done # <<>> /\ done' = Tail(done) /\ oReorder' = oReorder /\ oPc' = "abort"
    BY <1>9, RecvStep, Zenon
  <2>2. oPc = "run" /\ UNCHANGED <<oNext, curMember, sinkVars>>
    BY <1>9, RecvStep, Zenon
  <2>3. done # <<>> => /\ 1 \in DOMAIN done /\ Head(done) = done[1]
                       /\ \A i \in DOMAIN Tail(done) : i + 1 \in DOMAIN done /\ Tail(done)[i] = done[i + 1]
    BY <1>6, TakeElems
  <2>4. \A i \in DOMAIN done' : DoneCut(c, done'[i])
    BY <1>5, <2>1, <2>3, Zenon
  <2>5. \A x \in oReorder' : x.err = "none" /\ DoneCut(c, x)
    <3>1. done # <<>> => DoneCut(c, Head(done))
      BY <1>5, <2>3, Zenon
    <3>2. \A x \in oReorder' : x \in oReorder \/ (done # <<>> /\ x = Head(done) /\ Head(done).err = "none")
      BY <2>1, Zenon
    <3> QED BY <1>5, <3>1, <3>2, Zenon
  <2>6. DonesCut(c)'
    BY <1>2, <1>4, <1>5, <2>4, <2>5, Zenon DEF DonesCut
  <2>7. OutputCut(c)'
    <3>1. CASE oPc' = "abort"
      BY <3>1 DEF OutputCut
    <3>2. CASE UNCHANGED outErr /\ oPc' = "run"
      BY <1>2, <1>5, <2>2, <3>2 DEF OutputCut, sinkVars, Clean
    <3> QED BY <2>1, <3>1, <3>2
  <2> QED BY <1>3, <2>6, <2>7 DEF CutBy
<1>10. CASE Teardown
  <2>1. UNCHANGED <<done, oReorder>>
    BY <1>10, TeardownStep, Zenon
  <2>2. oPc' # "run"
    BY <1>10, TeardownStep
  <2> QED BY <1>1, <1>2, <1>3, <2>1, <2>2, CutFrame DEF CutBy, OutputCut
<1> QED BY <1>7, <1>8, <1>9, <1>10, OutputCases

\* The row of cuts grows by one: what the slices before the new one are about
\* stays the same.
LEMMA CutExtends ==
    ASSUME NEW N \in Nat, N # 0, NEW c, NEW d, NEW j, \A n \in 1 .. N : d[n] = c[n], d[N + 1] = j,
           item.id = N, item'.id = N + 1, fault' = fault
    PROVE  /\ \A e : IsFault(e) => IsFault(e)'
           /\ \A x : x.id \in 1 .. N /\ x.id # N /\ ItemCut(c, x) => ItemCut(d, x)'
           /\ \A x : x.id = N /\ x.start = Bit(c[N]) /\ x.hint = Bit(j) => ItemCut(d, x)'
           /\ \A o : o.id # N /\ OutcomeCut(c, o) => OutcomeCut(d, o)'
           /\ \A x : x.id # N /\ JobCut(c, x) => JobCut(d, x)'
           /\ \A x : x.id # N /\ DoneCut(c, x) => DoneCut(d, x)'
<1>1. \A e : IsFault(e) => IsFault(e)'
  BY DEF IsFault
<1>2. \A lo, hi, kinds : Free(lo, hi, kinds) => Free(lo, hi, kinds)'
  BY DEF Free
<1>3. ASSUME NEW n \in 1 .. N, n # N
      PROVE  d[n] = c[n] /\ CutEnd(d, n)' = CutEnd(c, n) /\ CutHint(d, n)' = CutHint(c, n) /\ n \in 1 .. N + 1 /\ n # N + 1
  <2>1. n + 1 \in 1 .. N /\ n < N /\ n < N + 1 /\ n \in 1 .. N + 1 /\ n # N + 1
    BY <1>3
  <2>2. d[n] = c[n] /\ d[n + 1] = c[n + 1]
    BY <2>1, Zenon
  <2> QED BY <2>1, <2>2 DEF CutEnd, CutHint
<1>4. ASSUME NEW n, NEW first, NEW next, NEW final, IsSlice(c, n, first, next, final), n # N
      PROVE  IsSlice(d, n, first, next, final)'
  <2>1. n \in 1 .. N /\ first = c[n] /\ next = CutEnd(c, n) /\ ~final
    BY <1>4 DEF IsSlice
  <2>2. d[n] = c[n] /\ CutEnd(d, n)' = CutEnd(c, n) /\ n \in 1 .. N + 1 /\ n # N + 1
    BY <1>3, <1>4, <2>1
  <2> QED BY <2>1, <2>2, Zenon DEF IsSlice
<1>5. \A x : x.id \in 1 .. N /\ x.id # N /\ ItemCut(c, x) => ItemCut(d, x)'
  BY <1>3, Zenon DEF ItemCut
<1>6. \A x : x.id = N /\ x.start = Bit(c[N]) /\ x.hint = Bit(j) => ItemCut(d, x)'
  <2>1. N \in 1 .. N /\ N < N + 1
    OBVIOUS
  <2>2. d[N] = c[N]
    BY <2>1, Zenon
  <2>3. CutHint(d, N)' = Bit(j)
    BY <2>1 DEF CutHint
  <2> QED BY <2>2, <2>3, Zenon DEF ItemCut
<1>7. \A o : o.id # N /\ OutcomeCut(c, o) => OutcomeCut(d, o)'
  BY <1>1, <1>2, <1>4, Zenon DEF OutcomeCut
<1>8. \A x : x.id # N /\ JobCut(c, x) => JobCut(d, x)'
  BY <1>2, <1>4, Zenon DEF JobCut
<1>9. \A x : x.id # N /\ DoneCut(c, x) => DoneCut(d, x)'
  BY <1>1, <1>2, <1>4, Zenon DEF DoneCut
<1> QED BY <1>1, <1>5, <1>6, <1>7, <1>8, <1>9

\* No message is about the slice the dispatcher is still to send.
LEMMA SliceIsNew ==
    ASSUME TypeInvariant, IdsOnce, dPc # "exited"
    PROVE  /\ \A i \in DOMAIN work : work[i].id \in 1 .. item.id /\ work[i].id # item.id
           /\ \A w \in Workers : wHold[w].id # item.id
           /\ \A i \in DOMAIN result : result[i].id # item.id
           /\ \A o \in aReorder : o.id # item.id
           /\ \A i \in DOMAIN resolve : resolve[i].id # item.id
           /\ \A r \in Resolvers : rHold[r].id # item.id
           /\ \A i \in DOMAIN done : done[i].id # item.id
           /\ \A d \in oReorder : d.id # item.id
<1>1. item.id # 0 /\ item.id \in Nat /\ DOMAIN wHold = Workers /\ DOMAIN rHold = Resolvers
  BY PoolTypes
<1>2. \A n \in AllIds : n \in Nat /\ n <= item.id /\ n # item.id
  BY IdTypes DEF IdsOnce, IdsBelow
<1>3. /\ \A w \in Workers : wHold[w].id = 0 \/ wHold[w].id \in AllIds
      /\ \A i \in DOMAIN result : result[i].id = 0 \/ result[i].id \in AllIds
      /\ \A o \in aReorder : o.id = 0 \/ o.id \in AllIds
  BY <1>1, Zenon DEF AllIds, DecodedIds, PoolIds
<1>4. /\ \A r \in Resolvers : rHold[r].id = 0 \/ rHold[r].id \in AllIds
      /\ \A i \in DOMAIN done : done[i].id = 0 \/ done[i].id \in AllIds
      /\ \A d \in oReorder : d.id = 0 \/ d.id \in AllIds
  BY <1>1, Zenon DEF AllIds, ResolvedIds, PoolIds
<1>5. /\ \A i \in DOMAIN work : work[i].id \in AllIds
      /\ \A i \in DOMAIN resolve : resolve[i].id \in AllIds
  BY Zenon DEF AllIds, WorkIds, JobIds, IdsIn
<1>6. \A i \in DOMAIN work : work[i].id # 0
  BY DEF IdsOnce, PlacesDistinct, ChannelDistinct
<1> HIDE DEF AllIds
<1>7. \A i \in DOMAIN work : work[i].id \in 1 .. item.id /\ work[i].id # item.id
  <2> SUFFICES ASSUME NEW i \in DOMAIN work PROVE work[i].id \in 1 .. item.id /\ work[i].id # item.id
    OBVIOUS
  <2> DEFINE n == work[i].id
  <2>1. n \in Nat /\ n <= item.id /\ n # item.id /\ n # 0
    BY <1>2, <1>5, <1>6
  <2> HIDE DEF n
  <2>2. n \in 1 .. item.id
    BY <1>1, <2>1
  <2> QED BY <2>1, <2>2 DEF n
<1> QED BY <1>1, <1>2, <1>3, <1>4, <1>5, <1>7, Zenon

LEMMA CutDispatch ==
    ASSUME TypeInvariant, IdsOnce, DispatchEnds, TrueBoundaries, NEW c \in Row, CutBy(c), Dispatch
    PROVE  SlicesCut'
<1>1. UNCHANGED <<inputVars, result, resolve, done, wVars, aVars, rVars, oVars, sinkVars>>
  BY Frames, Zenon
<1>2. fault' = fault /\ UNCHANGED <<wPc, wHold, aReorder, aPc, aNext, prevTail, rPc, rHold, oReorder, delivered>>
  BY <1>1 DEF inputVars, wVars, aVars, rVars, oVars, sinkVars
<1>3. item \in Item /\ item.id \in Nat /\ item.id # 0 /\ work \in Seq(Item) /\ NumBlocks \in Nat
  BY PoolTypes, ConstantTypes
<1>4. ASSUME item'.id = item.id, item'.start = item.start, ItemsCut(c)'
      PROVE  SlicesCut'
  <2>1. CutBy(c)'
    BY <1>1, <1>2, <1>4, CutFrame DEF CutBy
  <2>2. c \in [1 .. item'.id -> 0 .. NumBlocks]
    BY <1>4 DEF Row
  <2> QED BY <2>1, <2>2 DEF SlicesCut
<1>5. CASE ~DispatchSend
  <2>1. UNCHANGED work /\ (UNCHANGED item \/ item' = [item EXCEPT !.hint = NextBoundary(item.start)])
    <3>1. DispatchRead => UNCHANGED work /\ (UNCHANGED item \/ item' = [item EXCEPT !.hint = NextBoundary(item.start)])
      BY Zenon DEF DispatchRead
    <3> QED BY <1>5, <3>1 DEF Dispatch, DispatchReadFails, DispatchToken, DispatchTokensGone, DispatchSendFails
  <2>2. item'.id = item.id /\ item'.start = item.start
    BY <1>3, <2>1 DEF Item
  <2>3. ItemsCut(c)'
    BY <1>2, <2>1, <2>2, CutFrame
  <2> QED BY <1>4, <2>2, <2>3
<1>6. CASE DispatchSend
  <2>1. /\ dPc = "send" /\ work' = Append(work, item)
        /\ \/ item.hint = NoHint /\ UNCHANGED item
           \/ item.hint # NoHint /\ item' = [id |-> item.id + 1, start |-> item.hint, hint |-> NoHint]
    BY <1>6, Zenon DEF DispatchSend
  <2>2. PICK x : x = item
    OBVIOUS
  <2>3. \A i \in DOMAIN work' : work'[i] = x \/ (i \in DOMAIN work /\ work'[i] = work[i])
    BY <1>3, <2>1, <2>2, PutElems
  <2>4. item.start = Bit(c[item.id])
    BY DEF CutBy, CutPoints
  <2>5. CASE item.hint = NoHint /\ UNCHANGED item
    <3>1. ItemCut(c, x)
      BY <1>3, <2>2, <2>4, <2>5 DEF ItemCut, CutHint
    <3>2. \A i \in DOMAIN work' : ItemCut(c, work'[i])
      BY <2>3, <3>1, Zenon DEF CutBy, ItemsCut
    <3>3. \A y : ItemCut(c, y) => ItemCut(c, y)'
      BY <1>2, <2>5, CutStable
    <3>4. ItemsCut(c)'
      BY <3>2, <3>3, Zenon DEF ItemsCut
    <3> QED BY <1>4, <2>5, <3>4
  <2>6. CASE item.hint # NoHint /\ item' = [id |-> item.id + 1, start |-> item.hint, hint |-> NoHint]
    <3>1. PICK N \in Nat : N = item.id /\ N # 0
      BY <1>3
    <3>2. item'.id = N + 1 /\ item'.start = item.hint
      BY <2>6, <3>1
    <3>3. item.hint \in candidates /\ item.hint >= item.start + ChunkBits
      BY <2>1, <2>6 DEF DispatchEnds
    <3>4. PICK j \in Blocks : item.hint = Bit(j)
      <4>1. item.hint \in Believable
        BY <3>3 DEF TypeInvariant, InputType
      <4>2. item.hint \in 1 .. EndOfInput - 1 /\ item.hint \notin FalseStarts
        BY <4>1, StreamingAssumption DEF TrueBoundaries
      <4>3. item.hint \in 0 .. EndOfInput - 1
        BY <1>3, <4>2 DEF EndOfInput, Bit
      <4> QED BY <4>2, <4>3, TrueStart
    <3>5. /\ c[N] < j /\ c[1] = 0
          /\ \A n \in 1 .. N : c[n] \in 0 .. NumBlocks /\ c[n] < NumBlocks
          /\ \A n \in 1 .. N - 1 : c[n] < c[n + 1]
      <4>1. /\ c[1] = 0 /\ \A n \in 1 .. N : c[n] \in 0 .. NumBlocks /\ c[n] < NumBlocks
            /\ \A n \in 1 .. N - 1 : c[n] < c[n + 1]
        BY <3>1 DEF CutBy, CutPoints, Row
      <4> DEFINE k == c[N]
      <4>2. k \in Int /\ j \in Int
        BY <3>1, <4>1 DEF Blocks
      <4>3. Bit(j) >= Bit(k) + ChunkBits /\ ChunkBits \in Nat /\ ChunkBits # 0
        BY <2>4, <3>1, <3>3, <3>4, StreamingAssumption
      <4> HIDE DEF k
      <4>4. k < j
        BY <4>2, <4>3 DEF Bit
      <4> QED BY <4>1, <4>4 DEF k
    <3>6. PICK d \in [1 .. N + 1 -> 0 .. NumBlocks] : d[N + 1] = j /\ \A n \in 1 .. N : d[n] = c[n]
      <4> DEFINE e == [n \in 1 .. N + 1 |-> IF n = N + 1 THEN j ELSE c[n]]
      <4>1. j \in 0 .. NumBlocks
        BY <1>3 DEF Blocks
      <4>2. \A n \in 1 .. N + 1 : n = N + 1 \/ n \in 1 .. N
        BY <3>1
      <4>3. e \in [1 .. N + 1 -> 0 .. NumBlocks]
        BY <3>5, <4>1, <4>2
      <4>4. N + 1 \in 1 .. N + 1 /\ \A n \in 1 .. N : n \in 1 .. N + 1 /\ n # N + 1
        BY <3>1
      <4>5. e[N + 1] = j /\ \A n \in 1 .. N : e[n] = c[n]
        BY <4>4
      <4> QED BY <4>3, <4>5
    <3>7. /\ \A e : IsFault(e) => IsFault(e)'
          /\ \A y : y.id \in 1 .. N /\ y.id # N /\ ItemCut(c, y) => ItemCut(d, y)'
          /\ \A y : y.id = N /\ y.start = Bit(c[N]) /\ y.hint = Bit(j) => ItemCut(d, y)'
          /\ \A o : o.id # N /\ OutcomeCut(c, o) => OutcomeCut(d, o)'
          /\ \A y : y.id # N /\ JobCut(c, y) => JobCut(d, y)'
          /\ \A y : y.id # N /\ DoneCut(c, y) => DoneCut(d, y)'
      BY <1>2, <3>1, <3>2, <3>6, CutExtends
    <3>8. dPc # "exited"
      BY <2>1
    <3>9. /\ \A i \in DOMAIN work : work[i].id \in 1 .. N /\ work[i].id # N
          /\ \A w \in Workers : wHold[w].id # N
          /\ \A i \in DOMAIN result : result[i].id # N
          /\ \A o \in aReorder : o.id # N
          /\ \A i \in DOMAIN resolve : resolve[i].id # N
          /\ \A r \in Resolvers : rHold[r].id # N
          /\ \A i \in DOMAIN done : done[i].id # N
          /\ \A y \in oReorder : y.id # N
      BY <3>1, <3>8, SliceIsNew, Zenon
    <3>10. CutPoints(d)'
      <4>1. d[1] = 0 /\ item'.start = Bit(d[N + 1])
        BY <3>1, <3>2, <3>4, <3>5, <3>6
      <4>2. \A n \in 1 .. N + 1 : d[n] < NumBlocks
        <5>1. \A n \in 1 .. N + 1 : n = N + 1 \/ n \in 1 .. N
          BY <3>1
        <5>2. j < NumBlocks
          BY <1>3 DEF Blocks
        <5> QED BY <3>5, <3>6, <5>1, <5>2
      <4>3. \A n \in 1 .. N : d[n] < d[n + 1]
        <5>1. \A n \in 1 .. N : n = N \/ (n \in 1 .. N - 1 /\ n + 1 \in 1 .. N)
          BY <3>1
        <5> QED BY <3>5, <3>6, <5>1
      <4>4. (N + 1) - 1 = N
        BY <3>1
      <4> QED BY <3>2, <4>1, <4>2, <4>3, <4>4 DEF CutPoints
    <3>11. ItemsCut(d)'
      <4>1. ItemCut(d, x)'
        BY <2>2, <2>4, <3>1, <3>4, <3>7, Zenon
      <4>2. \A y : (\E i \in DOMAIN work : y = work[i]) => ItemCut(d, y)'
        <5>1. \A i \in DOMAIN work : ItemCut(c, work[i])
          BY Zenon DEF CutBy, ItemsCut
        <5> QED BY <3>7, <3>9, <5>1, Zenon
      <4> QED BY <2>3, <4>1, <4>2, Zenon DEF ItemsCut
    <3>12. OutcomesCut(d)'
      <4>1. /\ \A w \in Workers : wPc[w] = "send" => OutcomeCut(c, wHold[w])
            /\ \A i \in DOMAIN result : OutcomeCut(c, result[i])
            /\ \A o \in aReorder : o.res.ok /\ OutcomeCut(c, o)
        BY Zenon DEF CutBy, OutcomesCut
      <4> QED BY <1>1, <1>2, <3>7, <3>9, <4>1, Zenon DEF OutcomesCut
    <3>13. JobsCut(d)'
      <4>1. /\ \A i \in DOMAIN resolve : JobCut(c, resolve[i])
            /\ aPc # "exited" => aNext \in 1 .. N /\ prevTail = WindowAt(c[aNext])
            /\ aPc = "fail" => IsFault("decode")
        BY <3>1, Zenon DEF CutBy, JobsCut
      <4>2. \A i \in DOMAIN resolve' : JobCut(d, resolve[i])'
        BY <1>1, <3>7, <3>9, <4>1, Zenon
      <4>3. aPc' # "exited" => aNext' \in 1 .. item'.id /\ prevTail' = WindowAt(d[aNext'])
        <5>1. \A n \in 1 .. N : n \in 1 .. N + 1
          BY <3>1
        <5> QED BY <1>2, <3>2, <3>6, <4>1, <5>1, Zenon
      <4>4. aPc' = "fail" => IsFault("decode")'
        BY <1>2, <3>7, <4>1, Zenon
      <4> QED BY <4>2, <4>3, <4>4, Zenon DEF JobsCut
    <3>14. DonesCut(d)'
      <4>1. /\ \A r \in Resolvers : rPc[r] = "send" => DoneCut(c, rHold[r])
            /\ \A i \in DOMAIN done : DoneCut(c, done[i])
            /\ \A y \in oReorder : y.err = "none" /\ DoneCut(c, y)
        BY Zenon DEF CutBy, DonesCut
      <4> QED BY <1>1, <1>2, <3>7, <3>9, <4>1, Zenon DEF DonesCut
    <3>15. OutputCut(d)'
      <4>1. oPc = "run" => /\ oNext \in 1 .. N /\ outErr = "none" /\ delivered = Bytes(0, c[oNext]) /\ Clean(c[oNext])
                           /\ curMember = Bytes(MemberStart(c[oNext]), c[oNext])
        BY <3>1, Zenon DEF CutBy, OutputCut
      <4>2. \A n \in 1 .. N : n \in 1 .. N + 1 /\ d[n] = c[n]
        BY <3>1, <3>6
      <4>3. UNCHANGED <<oPc, oNext, outErr, curMember, delivered>>
        BY <1>1, <1>2 DEF oVars
      <4> QED BY <1>2, <3>2, <4>1, <4>2, <4>3, Zenon DEF OutputCut, Clean
    <3>16. CutBy(d)'
      BY <3>10, <3>11, <3>12, <3>13, <3>14, <3>15 DEF CutBy
    <3>17. d \in [1 .. item'.id -> 0 .. NumBlocks]
      BY <3>2, <3>6
    <3> QED BY <3>16, <3>17, Zenon DEF SlicesCut
  <2> QED BY <2>1, <2>5, <2>6
<1> QED BY <1>5, <1>6

\* With true boundaries, every slice, wherever it is, is a run of whole blocks,
\* each where the one before it ends, and carries the right bytes.
LEMMA SlicesCutStep ==
    ASSUME TypeInvariant, IdsOnce, DispatchEnds, TrueBoundaries, SlicesCut, [Next]_vars
    PROVE  SlicesCut'
<1>1. PICK c \in Row : CutBy(c)
  BY Zenon DEF SlicesCut, Row
<1>2. CASE Dispatch
  BY <1>1, <1>2, CutDispatch
<1>3. CASE ~Dispatch
  <2>1. UNCHANGED <<inputVars, dVars>>
    BY <1>3, NextCases, Frames, ConsumerStep, Zenon
  <2>2. fault' = fault /\ item' = item
    BY <2>1 DEF inputVars, dVars
  <2>3. CutBy(c)'
    <3>1. CASE ConsumerRecv \/ ConsumerHangsUp \/ UNCHANGED vars
      <4>1. UNCHANGED <<work, result, resolve, done, wVars, aVars, rVars, oVars, delivered>>
        BY <3>1, ConsumerStep, Zenon
      <4>2. UNCHANGED <<aReorder, aPc, aNext, prevTail, oReorder>>
        BY <4>1 DEF aVars, oVars
      <4> QED BY <1>1, <2>2, <4>1, <4>2, CutFrame DEF CutBy
    <3> QED BY <1>1, <1>3, <3>1, NextCases, CutWorker, CutStageA, CutResolver, CutOutput, Zenon
  <2>4. c \in [1 .. item'.id -> 0 .. NumBlocks]
    BY <1>1, <2>2 DEF Row
  <2> QED BY <2>3, <2>4, Zenon DEF SlicesCut
<1> QED BY <1>2, <1>3

LEMMA InitCut == Init => SlicesCut
<1> SUFFICES ASSUME Init PROVE SlicesCut
  OBVIOUS
<1>1. NumBlocks \in Nat /\ NumBlocks > 0 /\ Window \in Nat
  BY ConstantTypes
<1>2. item.id = 1 /\ item.start = 0
  BY InitFacts
<1>3. PICK c \in [1 .. 1 -> 0 .. NumBlocks] : c[1] = 0
  <2> DEFINE z == [n \in 1 .. 1 |-> 0]
  <2>1. z \in [1 .. 1 -> 0 .. NumBlocks] /\ z[1] = 0
    BY <1>1
  <2> QED BY <2>1
<1>4. CutPoints(c)
  BY <1>1, <1>2, <1>3 DEF CutPoints, Bit
<1>5. Bytes(0, 0) = <<>> /\ WindowAt(0) = <<>>
  BY <1>1, BytesType DEF WindowAt
<1>6. ItemsCut(c) /\ OutcomesCut(c)
  BY InitFacts DEF ItemsCut, OutcomesCut
<1>7. JobsCut(c)
  <2>1. resolve = <<>> /\ aPc = "run" /\ aNext = 1 /\ prevTail = <<>>
    BY InitFacts
  <2> QED BY <1>2, <1>3, <1>5, <2>1 DEF JobsCut
<1>8. DonesCut(c)
  BY InitFacts DEF DonesCut
<1>9. OutputCut(c)
  <2>1. oNext = 1 /\ outErr = "none" /\ delivered = <<>> /\ curMember = <<>>
    BY InitFacts
  <2>2. MemberStart(0) = 0
    <3>1. 0 \in Nat
      OBVIOUS
    <3>2. StartsMember(MemberStart(0), 0)
      BY <3>1, MemberStartProperty
    <3> QED BY <3>2 DEF StartsMember
  <2>3. Clean(0)
    BY DEF Clean
  <2> QED BY <1>2, <1>3, <1>5, <2>1, <2>2, <2>3 DEF OutputCut
<1> QED BY <1>2, <1>3, <1>4, <1>6, <1>7, <1>8, <1>9 DEF SlicesCut, CutBy

-----------------------------------------------------------------------------
(* No slice is lost. *)

\* The parts of SlicesCut that do not name the row.
LEMMA CutBounds ==
    ASSUME TypeInvariant, SlicesCut
    PROVE  /\ aPc # "exited" => aNext \in 1 .. item.id
           /\ oPc = "run" => oNext \in 1 .. item.id /\ outErr = "none"
           /\ aPc = "fail" => IsFault("decode")
           /\ \A o \in aReorder : o.res.final <=> o.id = item.id
           /\ \A i \in DOMAIN done : done[i].err # "none" => IsFault(done[i].err)
<1>1. PICK c \in Row : CutBy(c)
  BY Zenon DEF SlicesCut, Row
<1>2. (aPc # "exited" => aNext \in 1 .. item.id) /\ (aPc = "fail" => IsFault("decode"))
  BY <1>1, Zenon DEF CutBy, JobsCut
<1>3. oPc = "run" => oNext \in 1 .. item.id /\ outErr = "none"
  BY <1>1, Zenon DEF CutBy, OutputCut
<1>4. \A o \in aReorder : o.res.final <=> o.id = item.id
  <2>1. \A o \in aReorder : o.res.ok /\ OutcomeCut(c, o)
    BY <1>1, Zenon DEF CutBy, OutcomesCut
  <2> QED BY <2>1, Zenon DEF OutcomeCut, IsSlice
<1>5. \A i \in DOMAIN done : done[i].err # "none" => IsFault(done[i].err)
  <2>1. \A i \in DOMAIN done : DoneCut(c, done[i])
    BY <1>1, Zenon DEF CutBy, DonesCut
  <2> QED BY <2>1, Zenon DEF DoneCut
<1> QED BY <1>2, <1>3, <1>4, <1>5

\* The output stage runs from the start.
LEMMA RunBefore ==
    ASSUME [Next]_vars, oPc' = "run"
    PROVE  oPc = "run"
<1>1. CASE Output
  <2>1. Teardown => oPc' # "run"
    BY TeardownStep
  <2> QED BY <1>1, <2>1, OutputCases, MismatchStep, SendStep, RecvStep, Zenon
<1>2. CASE UNCHANGED oVars
  BY <1>2 DEF oVars
<1> QED BY <1>1, <1>2, NextCases, Frames, ConsumerStep, Zenon

\* An error on its way to the output stage is not lost.
LEMMA ErrorStays ==
    ASSUME TypeInvariant, IdsOnce, ErrorInFlight, [Next]_vars, oPc' = "run"
    PROVE  ErrorInFlight'
<1>1. oPc = "run" /\ DoneRxAlive
  BY RunBefore DEF DoneRxAlive
<1>2. /\ rHold \in [Resolvers -> DoneMsg] /\ done \in Seq(DoneMsg) /\ NoDone.err = "none"
      /\ DoneError("decode") \in DoneMsg /\ DoneError("decode").err = "decode"
  BY PoolTypes, Empties DEF NoDone, DoneError, FaultKind
<1>3. CASE UNCHANGED <<aVars, rVars, done>>
  BY <1>3 DEF ErrorInFlight, aVars, rVars
<1>4. CASE StageA
  <2>1. rHold' = rHold
    BY <1>4, Frames DEF rVars
  <2>2. CASE aPc = "fail"
    <3>1. StageAFail
      BY <1>4, <2>2, Zenon DEF StageA, StageAForward, StageARecv, StageAEnd
    <3>2. done' = Append(done, DoneError("decode"))
      BY <1>1, <3>1, Zenon DEF StageAFail
    <3>3. \E i \in DOMAIN done' : done'[i] = DoneError("decode")
      <4>1. \E i \in DOMAIN Append(done, DoneError("decode")) :
               Append(done, DoneError("decode"))[i] = DoneError("decode")
        BY <1>2, PutDomain
      <4> QED BY <3>2, <4>1, Zenon
    <3> QED BY <1>2, <3>3 DEF ErrorInFlight
  <2>3. CASE aPc # "fail"
    <3>1. UNCHANGED done
      BY <1>4, <2>3, ForwardStep, Zenon DEF StageA, StageARecv, StageAFail, StageAEnd
    <3> QED BY <2>1, <2>3, <3>1 DEF ErrorInFlight
  <2> QED BY <2>2, <2>3
<1>5. ASSUME NEW r \in Resolvers, Resolver(r) PROVE ErrorInFlight'
  <2>1. aPc' = aPc
    BY <1>5, Frames DEF aVars
  <2>2. CASE rPc[r] # "send"
    <3>1. rHold[r] = NoDone
      BY <2>2 DEF IdsOnce, HoldsEmpty
    <3>2. done' = done /\ \E m : rHold' = [rHold EXCEPT ![r] = m]
      BY <1>5, <2>2, Zenon DEF Resolver, ResolverRecv, ResolverSend, ResolverExit
    <3>3. \A q \in Resolvers : q # r => rHold'[q] = rHold[q]
      BY <1>2, <3>2
    <3>4. \A q \in Resolvers : rHold[q].err # "none" => rHold'[q] = rHold[q]
      BY <1>2, <3>1, <3>3
    <3> QED BY <2>1, <3>2, <3>4 DEF ErrorInFlight
  <2>3. CASE rPc[r] = "send"
    <3>1. done' = Append(done, rHold[r]) /\ rHold' = [rHold EXCEPT ![r] = NoDone]
      BY <1>1, <1>5, <2>3 DEF Resolver, ResolverRecv, ResolverSend, ResolverExit
    <3>2. \A q \in Resolvers : q = r \/ rHold'[q] = rHold[q]
      BY <1>2, <3>1
    <3>3. rHold[r] \in DoneMsg
      BY <1>2
    <3>4. /\ \A i \in DOMAIN done : i \in DOMAIN done' /\ done'[i] = done[i]
          /\ \E i \in DOMAIN done' : done'[i] = rHold[r]
      <4>1. /\ \A i \in DOMAIN done : i \in DOMAIN Append(done, rHold[r]) /\ Append(done, rHold[r])[i] = done[i]
            /\ \E i \in DOMAIN Append(done, rHold[r]) : Append(done, rHold[r])[i] = rHold[r]
        BY <1>2, <3>3, PutDomain
      <4> QED BY <3>1, <4>1, Zenon
    <3> QED BY <2>1, <3>2, <3>4, Zenon DEF ErrorInFlight
  <2> QED BY <2>2, <2>3
<1>6. CASE Output
  <2>1. aPc' = aPc /\ rHold' = rHold
    BY <1>6, Frames DEF aVars, rVars
  <2>2. done' = done \/ (done # <<>> /\ done' = Tail(done) /\ Head(done).err = "none")
    BY <1>1, <1>6, OutputCases, MismatchStep, SendStep, RecvStep, TeardownStep, Zenon
  <2>3. CASE done' = done
    BY <2>1, <2>3 DEF ErrorInFlight
  <2>4. CASE done # <<>> /\ done' = Tail(done) /\ Head(done).err = "none"
    <3>1. \A i \in DOMAIN done : i = 1 \/ (i - 1 \in DOMAIN done' /\ done'[i - 1] = done[i])
      BY <1>2, <2>4, TakeDomain, Zenon
    <3>2. done[1].err = "none"
      BY <1>2, <2>4, TakeDomain, Zenon
    <3>3. \A i \in DOMAIN done : done[i].err # "none" => \E j \in DOMAIN done' : done'[j].err # "none"
      BY <3>1, <3>2, Zenon
    <3> QED BY <2>1, <3>3, Zenon DEF ErrorInFlight
  <2> QED BY <2>2, <2>3, <2>4
<1> QED BY <1>3, <1>4, <1>5, <1>6, NextCases, Frames, ConsumerStep, Zenon

\* While the output stage runs, the slices behind stage A only get fewer at the
\* front, unless one turns into an error.
LEMMA BehindStageA ==
    ASSUME TypeInvariant, IdsOnce, [Next]_vars, ~StageA, oPc = "run", oPc' = "run",
           NEW hi \in Nat, JobIds \cup ResolvedIds = oNext .. hi
    PROVE  \/ ErrorInFlight'
           \/ /\ JobIds' \cup ResolvedIds' = oNext' .. hi
              /\ oNext' = oNext \/ (oNext' = oNext + 1 /\ oNext <= hi)
<1>1. oNext \in Nat
  BY PoolTypes
<1>2. CASE JobIds' = JobIds /\ ResolvedIds' = ResolvedIds /\ oNext' = oNext
  BY <1>2
<1>3. CASE Dispatch \/ \E w \in Workers : Worker(w)
  <2>1. UNCHANGED oVars
    BY <1>3, Frames, Zenon
  <2>2. oNext' = oNext
    BY <2>1 DEF oVars
  <2>3. JobIds' = JobIds /\ ResolvedIds' = ResolvedIds
    BY <1>3, DispatchIds, WorkerIds, Zenon
  <2> QED BY <1>2, <2>2, <2>3
<1>4. ASSUME NEW r \in Resolvers, Resolver(r), ~ErrorInFlight'
      PROVE  JobIds' \cup ResolvedIds' = oNext .. hi /\ oNext' = oNext
  <2>1. oNext' = oNext
    BY <1>4, Frames DEF oVars
  <2>2. CASE ResolverRecv(r)
    <3>1. rHold' = [rHold EXCEPT ![r] = Resolved(Head(resolve))]
      BY <2>2, Zenon DEF ResolverRecv
    <3>2. rHold'[r] = Resolved(Head(resolve))
      BY <3>1, PoolTypes
    <3>3. Resolved(Head(resolve)).err = "none"
      BY <1>4, <3>2 DEF ErrorInFlight
    <3>4. /\ JobIds' = JobIds \ {Head(resolve).id} /\ Head(resolve).id \in JobIds
          /\ ResolvedIds' = ResolvedIds \cup {Head(resolve).id}
      BY <1>4, <2>2, <3>3, ResolverIds, Zenon
    <3>5. JobIds' \cup ResolvedIds' = JobIds \cup ResolvedIds
      BY <3>4
    <3> QED BY <2>1, <3>5
  <2>3. CASE ~ResolverRecv(r)
    <3>1. JobIds' = JobIds /\ ResolvedIds' = ResolvedIds
      BY <1>4, <2>3, ResolverIds, Zenon
    <3> QED BY <2>1, <3>1
  <2> QED BY <2>2, <2>3
<1>5. CASE Output
  <2>1. CASE OutputSend
    <3>1. oNext' = oNext + 1
      BY <2>1, SendStep
    <3>2. oNext \in ResolvedIds /\ ResolvedIds' = ResolvedIds \ {oNext} /\ JobIds' = JobIds
      BY <1>5, <2>1, OutputIds, Zenon
    <3>3. oNext \notin JobIds
      BY <3>2 DEF IdsOnce, PlacesApart
    <3>4. JobIds' \cup ResolvedIds' = (JobIds \cup ResolvedIds) \ {oNext} /\ oNext \in JobIds \cup ResolvedIds
      BY <3>2, <3>3
    <3>5. JobIds' \cup ResolvedIds' = (oNext .. hi) \ {oNext} /\ oNext \in oNext .. hi
      BY <3>4, Zenon
    <3>6. (oNext .. hi) \ {oNext} = oNext + 1 .. hi /\ (oNext \in oNext .. hi => oNext <= hi)
      BY <1>1
    <3> QED BY <3>1, <3>5, <3>6, Zenon
  <2>2. CASE ~OutputSend
    <3>1. JobIds' = JobIds /\ ResolvedIds' = ResolvedIds
      BY <1>5, <2>2, OutputIds, Zenon
    <3>2. oNext' = oNext
      BY <1>5, <2>2, OutputCases, MismatchStep, RecvStep, TeardownStep, Zenon
    <3> QED BY <1>2, <3>1, <3>2
  <2> QED BY <2>1, <2>2
<1>6. CASE ConsumerRecv \/ ConsumerHangsUp \/ UNCHANGED vars
  <2>1. UNCHANGED <<work, result, resolve, done, dVars, wVars, aVars, rVars, oVars>>
    BY <1>6, ConsumerStep, Zenon
  <2>2. oNext' = oNext
    BY <2>1 DEF oVars
  <2>3. JobIds' = JobIds /\ ResolvedIds' = ResolvedIds
    BY <2>1, ConsumerIds, Zenon
  <2> QED BY <1>2, <2>2, <2>3
<1> QED BY <1>3, <1>4, <1>5, <1>6, NextCases, Zenon

\* A step of the dispatcher counts the slices it sends.
LEMMA DispatchCounts ==
    ASSUME TypeInvariant, IdsOnce, DispatchEnds, Dispatch, oPc = "run", NEW lo \in Nat, lo <= item.id,
           WorkIds \cup DecodedIds = lo .. NextId - 1
    PROVE  WorkIds' \cup DecodedIds' = lo .. NextId' - 1
<1>1. item.id \in Nat /\ item \in Item
  BY PoolTypes
<1>2. dPc # "exited"
  BY DEF Dispatch, DispatchRead, DispatchReadFails, DispatchToken, DispatchTokensGone, DispatchSend, DispatchSendFails
<1>3. dRes = "none" /\ abort = FALSE /\ TokenTxAlive
  BY <1>2 DEF DispatchEnds, TokenTxAlive
<1>4. NextId = item.id /\ DecodedIds' = DecodedIds
  BY <1>3, DispatchIds DEF NextId
<1>5. CASE DispatchSend
  <2>1. WorkIds' = WorkIds \cup {item.id}
    BY <1>5, DispatchIds, Zenon
  <2>2. \/ dRes' = "ok" /\ item' = item
        \/ dRes' = dRes /\ item'.id = item.id + 1
    BY <1>5 DEF DispatchSend, DispatcherExits
  <2>3. NextId' = item.id + 1
    BY <1>3, <2>2 DEF NextId
  <2>4. WorkIds' \cup DecodedIds' = (lo .. item.id - 1) \cup {item.id}
    BY <1>4, <2>1
  <2>5. (lo .. item.id - 1) \cup {item.id} = lo .. (item.id + 1) - 1
    BY <1>1
  <2> QED BY <2>3, <2>4, <2>5
<1>6. CASE ~DispatchSend
  <2>1. WorkIds' = WorkIds
    BY <1>6, DispatchIds, Zenon
  <2>2. item'.id = item.id /\ dRes' # "ok"
    <3>1. CASE DispatchRead
      <4>1. item' = [item EXCEPT !.hint = NextBoundary(item.start)] /\ UNCHANGED dRes
        BY <1>3, <3>1 DEF DispatchRead
      <4> QED BY <1>1, <1>3, <4>1 DEF Item
    <3>2. CASE ~DispatchRead
      <4>1. UNCHANGED item /\ (UNCHANGED dRes \/ dRes' \in {"io", "workers gone"})
        BY <1>3, <1>6, <3>2 DEF Dispatch, DispatchReadFails, DispatchToken, DispatchTokensGone, DispatchSendFails,
                                DispatcherExits
      <4> QED BY <1>3, <4>1
    <3> QED BY <3>1, <3>2
  <2>3. NextId' = item.id
    BY <2>2 DEF NextId
  <2> QED BY <1>4, <2>1, <2>3
<1> QED BY <1>5, <1>6

\* Stage A ends in order only if the dispatcher did not.
LEMMA EndOfStageA ==
    ASSUME TypeInvariant, IdsOnce, DispatchEnds, ThreadsEnd, StageAEnd, aNext <= item.id,
           WorkIds \cup DecodedIds = aNext .. NextId - 1
    PROVE  dRes \notin {"none", "ok"}
<1>1. aNext \in Nat /\ aNext # 0 /\ item.id \in Nat
  BY PoolTypes
<1>2. /\ aPc = "run" /\ (\A o \in aReorder : o.id # aNext) /\ result = <<>>
      /\ (\A w \in Workers : wPc[w] = "exited")
  BY Zenon DEF StageAEnd, AReady, WorkRxAlive
<1>3. Workers # {}
  BY StreamingAssumption, FS_EmptySet
<1>4. work = <<>> /\ dPc = "exited"
  BY <1>2, <1>3 DEF ThreadsEnd
<1>5. \A w \in DOMAIN wHold : wHold[w].id = 0
  <2>1. DOMAIN wHold = Workers
    BY PoolTypes
  <2>2. \A w \in Workers : wHold[w] = NoOutcome
    BY <1>2 DEF IdsOnce, HoldsEmpty
  <2> QED BY <2>1, <2>2, Empties
<1>6. aNext \notin WorkIds \cup DecodedIds
  <2>1. WorkIds = {}
    BY <1>4 DEF WorkIds, IdsIn
  <2>2. DOMAIN result = {}
    BY <1>2
  <2>3. aNext \notin DecodedIds
    BY <1>1, <1>2, <1>5, <2>2, Zenon DEF DecodedIds, PoolIds
  <2> QED BY <2>1, <2>3
<1>7. dRes # "none"
  BY <1>4 DEF DispatchEnds
<1>8. dRes # "ok"
  <2> SUFFICES ASSUME dRes = "ok" PROVE FALSE
    OBVIOUS
  <2>1. NextId = item.id + 1
    BY DEF NextId
  <2>2. aNext \in aNext .. (item.id + 1) - 1
    BY <1>1
  <2> QED BY <1>6, <2>1, <2>2
<1> QED BY <1>7, <1>8

LEMMA InOrderStep ==
    ASSUME TypeInvariant, IdsOnce, DispatchEnds, ThreadsEnd, SlicesCut, [Next]_vars, oPc = "run", oPc' = "run", InOrder
    PROVE  ErrorInFlight' \/ InOrder' \/ Forwarded'
<1>1. /\ aNext \in Nat /\ aNext # 0 /\ oNext \in Nat /\ item.id \in Nat /\ aNext \in 1 .. item.id
      /\ aNext <= item.id /\ aNext - 1 \in Nat
  <2>1. aNext \in 1 .. item.id
    BY CutBounds DEF InOrder
  <2> QED BY <2>1, PoolTypes
<1>2. /\ aPc = "run" /\ oNext <= aNext /\ JobIds \cup ResolvedIds = oNext .. aNext - 1
      /\ WorkIds \cup DecodedIds = aNext .. NextId - 1
  BY DEF InOrder
<1>3. CASE StageA
  <2>1. UNCHANGED <<dVars, oVars>>
    BY <1>3, Frames, Zenon
  <2>2. UNCHANGED <<item, dRes, oNext>>
    BY <2>1 DEF dVars, oVars
  <2>3. NextId' = NextId
    BY <2>2 DEF NextId
  <2>4. WorkIds' = WorkIds /\ ResolvedIds' = ResolvedIds
    BY <1>3, StageAIds, Zenon
  <2>5. CASE StageAForward
    <3>1. ResolveRxAlive
      <4>1. \E r \in Resolvers : TRUE
        BY StreamingAssumption
      <4> QED BY <1>2, <4>1 DEF ThreadsEnd, ResolveRxAlive
    <3>2. aNext \in DecodedIds /\ DecodedIds' = DecodedIds \ {aNext} /\ JobIds' = JobIds \cup {aNext}
      BY <1>3, <2>5, <3>1, StageAIds, Zenon
    <3>3. \/ aNext' = aNext + 1 /\ aPc' = "run"
          \/ aNext = item.id /\ aPc' = "exited"
      BY <2>5, <3>1, ForwardStep, CutBounds, Zenon
    <3>4. JobIds' \cup ResolvedIds' = oNext .. aNext
      <4>1. JobIds' \cup ResolvedIds' = (oNext .. aNext - 1) \cup {aNext}
        BY <1>2, <2>4, <3>2
      <4>2. (oNext .. aNext - 1) \cup {aNext} = oNext .. aNext
        BY <1>1, <1>2
      <4> QED BY <4>1, <4>2
    <3>5. WorkIds' \cup DecodedIds' = (aNext .. NextId - 1) \ {aNext}
      <4>1. aNext \notin WorkIds
        BY <3>2 DEF IdsOnce, PlacesApart
      <4> QED BY <1>2, <2>4, <3>2, <4>1
    <3>6. CASE aNext' = aNext + 1 /\ aPc' = "run"
      <4>1. NextId \in Nat
        BY <1>1 DEF NextId
      <4>2. (aNext .. NextId - 1) \ {aNext} = aNext + 1 .. NextId - 1
        BY <1>1, <4>1
      <4>3. oNext .. aNext = oNext .. (aNext + 1) - 1 /\ oNext <= aNext + 1
        BY <1>1, <1>2
      <4>4. InOrder'
        BY <2>2, <2>3, <3>4, <3>5, <3>6, <4>2, <4>3 DEF InOrder
      <4> QED BY <4>4
    <3>7. CASE aNext = item.id /\ aPc' = "exited"
      BY <2>2, <3>4, <3>7 DEF Forwarded
    <3> QED BY <3>3, <3>6, <3>7
  <2>6. CASE StageARecv
    <3>1. aPc' = "fail" \/ aPc' = "run"
      BY <1>2, <2>6, Zenon DEF StageARecv
    <3>2. CASE aPc' = "fail"
      BY <3>2 DEF ErrorInFlight
    <3>3. CASE aPc' = "run"
      <4>1. ~StageAForward
        <5>1. StageAForward => \E o \in aReorder : o.id = aNext
          BY ForwardStep, Zenon
        <5> QED BY <2>6, <5>1, Zenon DEF StageARecv, AReady
      <4>2. DecodedIds' = DecodedIds /\ JobIds' = JobIds
        BY <1>3, <3>3, <4>1, StageAIds, Zenon
      <4>3. aNext' = aNext
        BY <2>6, Zenon DEF StageARecv
      <4>4. InOrder'
        BY <1>2, <2>2, <2>3, <2>4, <3>3, <4>2, <4>3 DEF InOrder
      <4> QED BY <4>4
    <3> QED BY <3>1, <3>2, <3>3
  <2>7. CASE StageAEnd
    <3>1. dRes \notin {"none", "ok"} /\ aPc' = "exited"
      <4>1. aPc' = "exited"
        BY <2>7, Zenon DEF StageAEnd
      <4> QED BY <1>1, <1>2, <2>7, <4>1, EndOfStageA
    <3> QED BY <2>2, <3>1 DEF Forwarded
  <2>8. ~StageAFail
    BY <1>2 DEF StageAFail
  <2> QED BY <1>3, <2>5, <2>6, <2>7, <2>8 DEF StageA
<1>4. CASE ~StageA
  <2>1. UNCHANGED aVars
    BY <1>4, NextCases, Frames, ConsumerStep, Zenon
  <2>2. aPc' = aPc /\ aNext' = aNext
    BY <2>1 DEF aVars
  <2>3. WorkIds' \cup DecodedIds' = aNext .. NextId' - 1
    <3>1. CASE Dispatch
      BY <1>1, <1>2, <3>1, DispatchCounts
    <3>2. CASE ~Dispatch
      <4>1. UNCHANGED dVars
        BY <3>2, NextCases, Frames, ConsumerStep, Zenon
      <4>2. NextId' = NextId
        BY <4>1 DEF NextId, dVars
      <4>3. WorkIds' \cup DecodedIds' = WorkIds \cup DecodedIds
        <5>1. ASSUME NEW w \in Workers, Worker(w) PROVE WorkIds' \cup DecodedIds' = WorkIds \cup DecodedIds
          <6>1. CASE WorkerRecv(w)
            <7>1. /\ WorkIds' = WorkIds \ {Head(work).id}
                  /\ DecodedIds' = DecodedIds \cup {Head(work).id} /\ Head(work).id \in WorkIds
              BY <5>1, <6>1, WorkerIds, Zenon
            <7> QED BY <7>1
          <6>2. CASE ~WorkerRecv(w)
            <7>1. WorkIds' = WorkIds /\ (DecodedIds' = DecodedIds \/ aPc = "exited")
              BY <5>1, <6>2, WorkerIds, Zenon
            <7> QED BY <1>2, <7>1
          <6> QED BY <6>1, <6>2
        <5>2. CASE (\E r \in Resolvers : Resolver(r)) \/ Output
          BY <5>2, ResolverIds, OutputIds, Zenon
        <5>3. CASE ConsumerRecv \/ ConsumerHangsUp \/ UNCHANGED vars
          BY <5>3, ConsumerStep, ConsumerIds, Zenon
        <5> QED BY <1>4, <3>2, <5>1, <5>2, <5>3, NextCases, Zenon
      <4> QED BY <1>2, <4>2, <4>3
    <3> QED BY <3>1, <3>2
  <2>4. \/ ErrorInFlight'
        \/ /\ JobIds' \cup ResolvedIds' = oNext' .. aNext - 1
           /\ oNext' = oNext \/ (oNext' = oNext + 1 /\ oNext <= aNext - 1)
    BY <1>1, <1>2, <1>4, BehindStageA
  <2>5. CASE ErrorInFlight'
    BY <2>5
  <2>6. CASE JobIds' \cup ResolvedIds' = oNext' .. aNext - 1 /\ (oNext' = oNext \/ (oNext' = oNext + 1 /\ oNext <= aNext - 1))
    <3>1. oNext' <= aNext
      BY <1>1, <1>2, <2>6
    <3>2. InOrder'
      BY <1>2, <2>2, <2>3, <2>6, <3>1 DEF InOrder
    <3> QED BY <3>2
  <2> QED BY <2>4, <2>5, <2>6
<1> QED BY <1>3, <1>4

LEMMA ForwardedStep ==
    ASSUME TypeInvariant, IdsOnce, DispatchEnds, SlicesCut, [Next]_vars, oPc = "run", oPc' = "run", Forwarded
    PROVE  ErrorInFlight' \/ Forwarded'
<1>1. item.id \in Nat /\ oNext \in Nat /\ oNext \in 1 .. item.id
  BY PoolTypes, CutBounds
<1>2. aPc = "exited" /\ (JobIds \cup ResolvedIds = oNext .. item.id \/ dRes \notin {"none", "ok"})
  BY DEF Forwarded
<1>3. dPc = "exited"
  <2>1. CASE JobIds \cup ResolvedIds = oNext .. item.id
    <3>1. item.id \in oNext .. item.id
      BY <1>1
    <3>2. item.id \in AllIds
      BY <2>1, <3>1 DEF AllIds
    <3> QED BY <3>2 DEF IdsOnce, IdsBelow
  <2>2. CASE dRes \notin {"none", "ok"}
    BY <2>2 DEF DispatchEnds
  <2> QED BY <1>2, <2>1, <2>2
<1>4. ~Dispatch
  BY <1>3 DEF Dispatch, DispatchRead, DispatchReadFails, DispatchToken, DispatchTokensGone, DispatchSend, DispatchSendFails
<1>5. ~StageA
  BY <1>2 DEF StageA, StageAForward, StageARecv, StageAFail, StageAEnd
<1>6. UNCHANGED <<dVars, aVars>>
  BY <1>4, <1>5, NextCases, Frames, ConsumerStep, Zenon
<1>7. item' = item /\ dRes' = dRes /\ aPc' = aPc
  BY <1>6 DEF dVars, aVars
<1>8. CASE JobIds \cup ResolvedIds = oNext .. item.id
  <2>1. ErrorInFlight' \/ JobIds' \cup ResolvedIds' = oNext' .. item.id
    BY <1>1, <1>5, <1>8, BehindStageA, Zenon
  <2> QED BY <1>2, <1>7, <2>1 DEF Forwarded
<1>9. CASE dRes \notin {"none", "ok"}
  BY <1>2, <1>7, <1>9 DEF Forwarded
<1> QED BY <1>2, <1>8, <1>9

LEMMA NoSliceLostStep ==
    ASSUME TypeInvariant, IdsOnce, DispatchEnds, ThreadsEnd, SlicesCut, NoSliceLost, [Next]_vars
    PROVE  NoSliceLost'
<1> SUFFICES ASSUME oPc' = "run" PROVE ErrorInFlight' \/ InOrder' \/ Forwarded'
  BY Zenon DEF NoSliceLost
<1>1. oPc = "run"
  BY RunBefore
<1>2. ErrorInFlight \/ InOrder \/ Forwarded
  BY <1>1, Zenon DEF NoSliceLost
<1> QED BY <1>1, <1>2, ErrorStays, InOrderStep, ForwardedStep, Zenon

-----------------------------------------------------------------------------
(* What is delivered and what is returned. *)

\* What the dispatcher failed with stands.
LEMMA DispatchErrorStays ==
    ASSUME DispatchEnds, [Next]_vars, dRes \notin {"none", "ok"}
    PROVE  dRes' = dRes
<1>1. dPc = "exited"
  BY DEF DispatchEnds
<1>2. ~Dispatch
  BY <1>1 DEF Dispatch, DispatchRead, DispatchReadFails, DispatchToken, DispatchTokensGone, DispatchSend, DispatchSendFails
<1>3. UNCHANGED dVars
  BY <1>2, NextCases, Frames, ConsumerStep, Zenon
<1> QED BY <1>3 DEF dVars

\* The output stage that finds its senders gone was left by a dispatcher that
\* failed.
LEMMA OutputStarves ==
    ASSUME TypeInvariant, IdsOnce, ThreadsEnd, SlicesCut, NoSliceLost, oPc = "run", done = <<>>, ~DoneTxAlive,
           \A d \in oReorder : d.id # oNext
    PROVE  dRes \notin {"none", "ok"}
<1>1. aPc = "exited" /\ \A r \in Resolvers : rPc[r] = "exited"
  BY Zenon DEF DoneTxAlive
<1>2. \A r \in Resolvers : rHold[r] = NoDone
  BY <1>1 DEF IdsOnce, HoldsEmpty
<1>3. ~ErrorInFlight
  <2>1. NoDone.err = "none"
    BY DEF NoDone, DoneError
  <2> QED BY <1>1, <1>2, <2>1 DEF ErrorInFlight
<1>4. resolve = <<>>
  BY <1>1, StreamingAssumption DEF ThreadsEnd
<1>5. JobIds = {}
  BY <1>4 DEF JobIds, IdsIn
<1>6. oNext \in Nat /\ oNext # 0 /\ item.id \in Nat /\ oNext \in 1 .. item.id
  BY PoolTypes, CutBounds
<1>7. oNext \notin ResolvedIds
  <2>1. DOMAIN rHold = Resolvers
    BY PoolTypes
  <2>2. \A r \in DOMAIN rHold : rHold[r].id = 0
    BY <1>2, <2>1, Empties
  <2>3. DOMAIN done = {}
    OBVIOUS
  <2> QED BY <1>6, <2>2, <2>3, Zenon DEF ResolvedIds, PoolIds
<1>8. oNext \in oNext .. item.id
  BY <1>6
<1>9. Forwarded
  BY <1>1, <1>3 DEF NoSliceLost, InOrder
<1> QED BY <1>5, <1>7, <1>8, <1>9 DEF Forwarded

\* The chunk the output stage sends goes on where the last one ended.
LEMMA SendsOn ==
    ASSUME TypeInvariant, SlicesCut, OutputSend
    PROVE  \/ UNCHANGED delivered /\ outErr' = "closed" /\ oPc' = "abort"
           \/ \E m \in 0 .. NumBlocks, n \in 0 .. NumBlocks :
                 /\ delivered = Bytes(0, m) /\ m <= n /\ delivered' = Bytes(0, n) /\ Clean(n) /\ UNCHANGED outErr
                 /\ oPc' = "run" \/ n = NumBlocks
<1>1. PICK c \in Row : CutBy(c)
  BY Zenon DEF SlicesCut, Row
<1>2. oPc = "run"
  BY SendStep
<1>3. PICK d \in oReorder :
        /\ d.id = oNext /\ "none" \in TrailerVerdicts(d)
        /\ \/ /\ delivered' = delivered \o d.bytes /\ UNCHANGED outErr
              /\ d.final \/ oPc' = "run"
           \/ UNCHANGED delivered /\ outErr' = "closed" /\ oPc' = "abort"
  BY SendStep, Zenon
<1>4. /\ oNext \in 1 .. item.id /\ d.next \in 0 .. NumBlocks /\ d.next >= c[oNext]
      /\ (d.final <=> oNext = item.id) /\ d.next = CutEnd(c, oNext)
      /\ Clean(d.next) /\ delivered \o d.bytes = Bytes(0, d.next)
  BY <1>1, <1>2, <1>3, SendTrue
<1>5. delivered = Bytes(0, c[oNext]) /\ CutPoints(c)
  BY <1>1, <1>2, Zenon DEF CutBy, OutputCut
<1>6. c[oNext] \in 0 .. NumBlocks /\ (d.final => d.next = NumBlocks)
  BY <1>1, <1>4, <1>5, CutPointTypes
<1>7. c[oNext] <= d.next
  <2>1. NumBlocks \in Nat
    BY ConstantTypes
  <2> QED BY <1>4, <1>6, <2>1
<1> QED BY <1>3, <1>4, <1>5, <1>6, <1>7, Zenon

LEMMA OutputTrueStep ==
    ASSUME TypeInvariant, IdsOnce, DispatchEnds, ThreadsEnd, SlicesCut, NoSliceLost, OutputTrue, [Next]_vars
    PROVE  OutputTrue'
<1> DEFINE Whole == delivered = TrueOutput /\ Healthy
           Prefix == \E n \in 0 .. NumBlocks : delivered = Bytes(0, n) /\ Clean(n)
           Real == outErr \in {"none", "closed"} \/ IsFault(outErr)
<1>1. fault' = fault
  BY InputFixed DEF inputVars
<1>2. dRes \notin {"none", "ok"} => dRes' = dRes
  BY DispatchErrorStays
<1>3. /\ Prefix /\ Real /\ (oPc # "returned" => status = "running")
      /\ (oPc # "run" /\ outErr = "none") => Whole \/ dRes \notin {"none", "ok"}
  BY Zenon DEF OutputTrue
<1>4. SUFFICES /\ Prefix' /\ Real' /\ (oPc' # "returned" => status' = "running")
               /\ (oPc' # "run" /\ outErr' = "none") => Whole' \/ dRes' \notin {"none", "ok"}
  BY Zenon DEF OutputTrue
<1>5. /\ UNCHANGED delivered => (Prefix => Prefix') /\ (Whole => Whole')
      /\ UNCHANGED outErr => (Real => Real')
  BY <1>1, Zenon DEF Clean, Healthy, IsFault
<1>6. CASE UNCHANGED <<delivered, oPc, outErr, status>>
  BY <1>2, <1>3, <1>5, <1>6, Zenon
<1>7. CASE OutputMismatch
  <2>1. oPc = "run" /\ oPc' = "abort" /\ UNCHANGED <<delivered, status>>
    BY <1>7, MismatchStep DEF sinkVars
  <2>2. outErr' # "none" /\ IsFault(outErr')
    <3>1. PICK c \in Row : CutBy(c)
      BY Zenon DEF SlicesCut, Row
    <3>2. PICK d \in oReorder : d.id = oNext /\ outErr' \in TrailerVerdicts(d) /\ outErr' # "none"
      BY <1>7, MismatchStep, Zenon
    <3> QED BY <2>1, <3>1, <3>2, SendTrue
  <2>3. Real'
    BY <1>1, <2>2 DEF IsFault
  <2> QED BY <1>3, <1>5, <2>1, <2>2, <2>3
<1>8. CASE OutputSend
  <2>1. oPc = "run" /\ UNCHANGED status /\ (oPc' = "run" \/ oPc' = "abort")
    BY <1>8, SendStep, Zenon
  <2>2. status' = "running"
    BY <1>3, <2>1
  <2>3. CASE UNCHANGED delivered /\ outErr' = "closed" /\ oPc' = "abort"
    BY <1>3, <1>5, <2>2, <2>3
  <2>4. CASE ~(UNCHANGED delivered /\ outErr' = "closed" /\ oPc' = "abort")
    <3>1. PICK n \in 0 .. NumBlocks :
            delivered' = Bytes(0, n) /\ Clean(n) /\ UNCHANGED outErr /\ (oPc' = "run" \/ n = NumBlocks)
      BY <1>8, <2>4, SendsOn, Zenon
    <3>2. Prefix'
      BY <1>1, <3>1, Zenon DEF Clean
    <3>3. n = NumBlocks => Whole'
      BY <1>1, <3>1 DEF TrueOutput, Healthy, Blocks, Clean
    <3> QED BY <1>3, <1>5, <2>2, <3>1, <3>2, <3>3, Zenon
  <2> QED BY <2>3, <2>4
<1>9. CASE OutputRecv
  <2>1. oPc = "run" /\ UNCHANGED <<delivered, status>> /\ oPc' # "returned"
    BY <1>9, RecvStep DEF sinkVars
  <2>2. status' = "running" /\ Prefix'
    BY <1>3, <1>5, <2>1
  <2>3. CASE oPc' = "run" /\ UNCHANGED outErr
    BY <1>3, <1>5, <2>2, <2>3
  <2>4. CASE done = <<>> /\ ~DoneTxAlive /\ UNCHANGED outErr
    <3>1. dRes \notin {"none", "ok"}
      BY <1>9, <2>1, <2>4, RecvStep, OutputStarves
    <3> QED BY <1>2, <1>3, <1>5, <2>2, <2>4, <3>1
  <2>5. CASE done # <<>> /\ Head(done).err # "none" /\ outErr' = Head(done).err
    <3>1. 1 \in DOMAIN done /\ Head(done) = done[1]
      BY <2>5, PoolTypes, TakeElems, Zenon
    <3>2. IsFault(outErr')
      BY <2>5, <3>1, CutBounds, Zenon
    <3>3. Real'
      BY <1>1, <3>2 DEF IsFault
    <3> QED BY <2>2, <2>5, <3>3
  <2> QED BY <1>9, <2>3, <2>4, <2>5, RecvStep, Zenon
<1>10. CASE Teardown
  <2>1. UNCHANGED <<delivered, outErr>> /\ oPc # "run" /\ oPc # "returned"
    BY <1>10, TeardownStep DEF sinkVars
  <2>2. oPc' # "returned" => UNCHANGED status
    BY <1>10 DEF Teardown, SetAbort, DropTokenTx, DropDoneRx, JoinAndReturn
  <2> QED BY <1>2, <1>3, <1>5, <2>1, <2>2, Zenon
<1>11. ~Output => UNCHANGED <<delivered, oPc, outErr, status>>
  <2>1. ~Output => UNCHANGED <<oVars, delivered, status>>
    BY NextCases, Frames, ConsumerStep, Zenon DEF sinkVars
  <2> QED BY <2>1 DEF oVars
<1> QED BY <1>6, <1>7, <1>8, <1>9, <1>10, <1>11, OutputCases, Zenon

\* If the block finder believes in block starts only, every slice is a run of
\* blocks, none is lost before an error is known, what the sink has is the start
\* of the output before the first damage, and the decode ends without an error
\* only with the whole of it.
THEOREM StreamOutputCorrect ==
    ASSUME TrueBoundaries
    PROVE  Spec => [](SlicesCut /\ EndInvariant)
<1>1. Init => SlicesCut /\ NoSliceLost /\ OutputTrue
  <2> SUFFICES ASSUME Init PROVE NoSliceLost /\ OutputTrue
    BY InitCut
  <2>1. /\ aPc = "run" /\ aNext = 1 /\ oNext = 1 /\ item.id = 1 /\ dRes = "none" /\ oPc = "run"
        /\ outErr = "none" /\ status = "running" /\ delivered = <<>>
    BY InitFacts
  <2>2. WorkIds = {} /\ JobIds = {}
    BY InitFacts DEF WorkIds, JobIds, IdsIn
  <2>3. DecodedIds = {} /\ ResolvedIds = {}
    <3>1. /\ result = <<>> /\ done = <<>> /\ aReorder = {} /\ oReorder = {}
          /\ wHold = [w \in Workers |-> NoOutcome] /\ rHold = [r \in Resolvers |-> NoDone]
      BY Zenon DEF Init
    <3> QED BY <3>1, Empties DEF DecodedIds, ResolvedIds, PoolIds
  <2>4. NoSliceLost
    BY <2>1, <2>2, <2>3 DEF NoSliceLost, InOrder, NextId
  <2>5. 0 \in 0 .. NumBlocks /\ Bytes(0, 0) = <<>> /\ Clean(0)
    BY ConstantTypes, BytesType DEF Clean
  <2>6. OutputTrue
    BY <2>1, <2>5 DEF OutputTrue
  <2> QED BY <2>4, <2>6
<1>2. /\ TypeInvariant /\ IdsOnce /\ DispatchEnds /\ ThreadsEnd /\ SlicesCut /\ NoSliceLost /\ OutputTrue /\ [Next]_vars
      => SlicesCut' /\ NoSliceLost' /\ OutputTrue'
  BY SlicesCutStep, NoSliceLostStep, OutputTrueStep
<1>3. DispatchEnds /\ ThreadsEnd /\ NoSliceLost /\ OutputTrue <=> EndInvariant
  BY DEF EndInvariant
<1> QED BY <1>1, <1>2, <1>3, SlicesOnce, StopsCorrect, PTL DEF Spec

\* The status as the promise reads it.
Reported == IF status = "workers gone" THEN "closed" ELSE status

\* A chunk that is sent is what the promise allows to be delivered next.
LEMMA DeliverStep ==
    ASSUME TypeInvariant, SlicesCut, OutputTrue, OutputSend
    PROVE  Promise!Deliver \/ UNCHANGED <<fault, delivered, status>>
<1>1. oPc = "run" /\ UNCHANGED <<fault, status>>
  BY SendStep DEF inputVars
<1>2. status = "running"
  BY <1>1 DEF OutputTrue
<1>3. CASE UNCHANGED delivered
  BY <1>1, <1>3
<1>4. CASE delivered' # delivered
  <2>1. PICK m \in 0 .. NumBlocks, n \in 0 .. NumBlocks :
          delivered = Bytes(0, m) /\ m <= n /\ delivered' = Bytes(0, n) /\ Clean(n)
    BY <1>4, SendsOn, Zenon
  <2>2. NumBlocks \in Nat
    BY ConstantTypes
  <2>3. Len(delivered) = m
    BY <2>1, <2>2, BytesType
  <2>4. n \in Len(delivered) .. NumBlocks
    BY <2>1, <2>2, <2>3
  <2>5. Bytes(0, n) = Promise!Bytes(0, n)
    BY DEF Bytes, Promise!Bytes
  <2>6. UNCHANGED Reported /\ Reported = "running"
    BY <1>1, <1>2 DEF Reported
  <2>7. \A k \in 0 .. n - 1 : fault[k] = "none"
    BY <2>1 DEF Clean
  <2> QED BY <1>1, <2>1, <2>4, <2>5, <2>6, <2>7, Zenon DEF Promise!Deliver, Reported
<1> QED BY <1>3, <1>4

\* What is returned is what the promise allows.
LEMMA ReturnStep ==
    ASSUME TypeInvariant, EndInvariant, JoinAndReturn
    PROVE  Promise!Succeed \/ Promise!Fail \/ Promise!HangUp \/ Promise!SourceFails
<1>1. oPc = "join" /\ dPc = "exited" /\ status' = ReturnStatus /\ UNCHANGED <<fault, delivered>>
  BY Zenon DEF JoinAndReturn, AllExited, inputVars, sinkVars
<1>2. Reported = "running" /\ dRes \in {"ok", "io", "workers gone"} /\ outErr \in FaultKind \cup {"none", "closed"}
  BY <1>1 DEF EndInvariant, OutputTrue, DispatchEnds, TypeInvariant, DispatchType, OutputType, Reported
<1>3. /\ outErr = "none" => (delivered = TrueOutput /\ Healthy) \/ dRes # "ok"
      /\ outErr \in {"none", "closed"} \/ IsFault(outErr)
  BY <1>1 DEF EndInvariant, OutputTrue
<1>4. TrueOutput = Promise!TrueOutput /\ Blocks = Promise!Blocks /\ (Healthy <=> Promise!Healthy)
  BY DEF TrueOutput, Promise!TrueOutput, Bytes, Promise!Bytes, Blocks, Promise!Blocks, Healthy, Promise!Healthy
<1>5. CASE outErr \in FaultKind
  <2>1. Reported' = outErr /\ outErr # "none" /\ outErr # "closed"
    BY <1>1, <1>5 DEF ReturnStatus, Reported, FaultKind
  <2>2. \E k \in Promise!Blocks : fault[k] # "none" /\ Reported' = fault[k]
    BY <1>3, <1>4, <2>1 DEF IsFault
  <2> QED BY <1>1, <1>2, <2>2, Zenon DEF Promise!Fail, Reported
<1>6. CASE outErr \notin FaultKind /\ dRes = "io"
  <2>1. Reported' = "io"
    BY <1>1, <1>6 DEF ReturnStatus, Reported
  <2> QED BY <1>1, <1>2, <2>1, Zenon DEF Promise!SourceFails, Reported
<1>7. CASE outErr \notin FaultKind /\ (dRes = "workers gone" \/ (dRes = "ok" /\ outErr = "closed"))
  <2>1. Reported' = "closed"
    BY <1>1, <1>7 DEF ReturnStatus, Reported
  <2> QED BY <1>1, <1>2, <2>1, Zenon DEF Promise!HangUp, Reported
<1>8. CASE outErr \notin FaultKind /\ dRes = "ok" /\ outErr = "none"
  <2>1. Reported' = "ok"
    BY <1>1, <1>8 DEF ReturnStatus, Reported
  <2> QED BY <1>1, <1>2, <1>3, <1>4, <1>8, <2>1, Zenon DEF Promise!Succeed, Reported
<1> QED BY <1>2, <1>5, <1>6, <1>7, <1>8

\* If the block finder believes in block starts only, the parallel decode of a
\* pipe keeps the promise of OrderedDecode for every input, damage, number of
\* threads and size of the channels: the bytes come in order and stop before
\* the first damage, Ok means all of them, and an error is damage of the input,
\* a failed read or a consumer that hung up.
THEOREM StreamPromiseKept ==
    ASSUME TrueBoundaries
    PROVE  Spec => StreamKeepsPromise
<1>1. Init => Promise!Init
  <2> SUFFICES ASSUME Init PROVE Promise!Init
    OBVIOUS
  <2>1. fault \in InputFaults /\ delivered = <<>> /\ status = "running"
    BY Zenon DEF Init
  <2> QED BY <2>1 DEF Promise!Init
<1>2. TypeInvariant /\ SlicesCut /\ EndInvariant /\ [Next]_vars => [Promise!Next]_(Promise!promiseVars)
  <2> SUFFICES ASSUME TypeInvariant, SlicesCut, EndInvariant, [Next]_vars
               PROVE  Promise!Next \/ UNCHANGED <<fault, delivered, Reported>>
    BY Zenon DEF Promise!promiseVars, Reported
  <2>1. CASE OutputSend
    <3>1. UNCHANGED <<fault, delivered, status>> => UNCHANGED <<fault, delivered, Reported>>
      BY DEF Reported
    <3> QED BY <2>1, <3>1, DeliverStep, Zenon DEF Promise!Next, EndInvariant
  <2>2. CASE JoinAndReturn
    BY <2>2, ReturnStep, Zenon DEF Promise!Next
  <2>3. CASE ~OutputSend /\ ~JoinAndReturn
    <3>1. UNCHANGED <<inputVars, delivered, status>>
      <4>1. ~Output => UNCHANGED <<inputVars, delivered, status>>
        BY NextCases, Frames, ConsumerStep, Zenon DEF sinkVars
      <4>2. Output => UNCHANGED <<inputVars, delivered, status>>
        BY <2>3, Zenon DEF Output, OutputMismatch, OutputRecv, SetAbort, DropTokenTx, DropDoneRx, sinkVars
      <4> QED BY <4>1, <4>2
    <3> QED BY <3>1 DEF inputVars, Reported
  <2> QED BY <2>1, <2>2, <2>3
<1> QED BY <1>1, <1>2, StreamTypeCorrect, StreamOutputCorrect, PTL DEF Spec, StreamKeepsPromise, Promise!Spec
=============================================================================
