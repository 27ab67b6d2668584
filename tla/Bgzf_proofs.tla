----------------------------- MODULE Bgzf_proofs ----------------------------
(***************************************************************************)
(* Proofs about Bgzf, for every file, every cut into batches, every number *)
(* of workers and every bound: the in-flight cap bounds the batches held   *)
(* in memory, and parallel_decode_bgzf keeps the promise of OrderedDecode. *)
(*                                                                         *)
(* BatchFlow says where the members of the file are while the serializer   *)
(* runs: those before next are delivered, those from next to Flushed are   *)
(* each in exactly one batch, first the ones that a worker took from the   *)
(* work channel and then, in order, the ones still in it.                  *)
(***************************************************************************)
EXTENDS Bgzf, ChunkDecode_proofs, FiniteSetTheorems

-----------------------------------------------------------------------------
(* The inductive invariant. *)

\* A batch, and the message about it.
Batch == [first : 0 .. NumBlocks, next : 0 .. NumBlocks]
Msg == [err : FaultKind \cup {"none"}, first : 0 .. NumBlocks, next : 0 .. NumBlocks]

FileType ==
    /\ fault \in InputFaults /\ prefix \in 0 .. NumBlocks
    /\ after \in {"end", "overrun", "remainder"}
    /\ after = "end" => prefix = NumBlocks
    /\ after = "overrun" => fault[NumBlocks - 1] = "decode"
DispatchType ==
    /\ inFlight \in Nat /\ capShutdown \in BOOLEAN
    /\ dPc \in {"walk", "acquire", "send", "exited"} /\ pos \in 0 .. prefix /\ cur \in Batch
WorkerType ==
    /\ work \in Seq(Batch) /\ result \in Seq(Msg)
    /\ wPc \in [Workers -> {"recv", "send", "exited"}] /\ wHold \in [Workers -> Msg]
SerializerType ==
    /\ sPc \in {"recv", "shutdown", "join", "remainder", "returned"}
    /\ pending \in SUBSET Msg /\ next \in 0 .. NumBlocks
    /\ lastErr \in FaultKind \cup {"none", "closed"}

\* Every variable has the values the code can give it.
TypeInvariant == FileType /\ DispatchType /\ WorkerType /\ SerializerType

\* The walk has flushed the members before Flushed; the workers have received
\* those before NextWork.
Flushed == IF dPc \in {"acquire", "send"} THEN cur.first ELSE pos
NextWork == IF work = <<>> THEN Flushed ELSE work[1].first

\* Member k is in batch b; two batches share no member; a batch of some of the
\* members lo .. hi-1.
Has(b, k) == b.first <= k /\ k < b.next
Apart(a, b) == a.next <= b.first \/ b.next <= a.first
Between(b, lo, hi) == lo <= b.first /\ b.first < b.next /\ b.next <= hi

\* The same for what the workers hold, their channel and the batches that wait
\* for their turn.
PoolHas(hold, ch, R, k) ==
    \/ \E w \in DOMAIN hold : Has(hold[w], k)
    \/ \E i \in DOMAIN ch : Has(ch[i], k)
    \/ \E x \in R : Has(x, k)
PoolApart(hold, ch, R) ==
    /\ \A v, w \in DOMAIN hold : v = w \/ Apart(hold[v], hold[w])
    /\ \A i, j \in DOMAIN ch : i = j \/ Apart(ch[i], ch[j])
    /\ \A x, y \in R : x = y \/ Apart(x, y)
    /\ \A w \in DOMAIN hold, i \in DOMAIN ch : Apart(hold[w], ch[i])
    /\ \A w \in DOMAIN hold, x \in R : Apart(hold[w], x)
    /\ \A i \in DOMAIN ch, x \in R : Apart(ch[i], x)
PoolBetween(hold, ch, R, lo, hi) ==
    /\ \A w \in DOMAIN hold : hold[w] = NoMsg \/ Between(hold[w], lo, hi)
    /\ \A i \in DOMAIN ch : Between(ch[i], lo, hi)
    /\ \A x \in R : Between(x, lo, hi)

DispatchFlow ==
    /\ dPc \in {"acquire", "send"} => cur.first < cur.next /\ cur.next = pos
    /\ dPc = "exited" => pos = prefix
    /\ capShutdown = FALSE
WorkersFlow ==
    /\ \A w \in Workers : wHold[w] = NoMsg <=> wPc[w] # "send"
    /\ \A w \in Workers : wPc[w] = "exited" => work = <<>> /\ dPc = "exited"
WorkFlow ==
    /\ NextWork <= Flushed
    /\ \A i \in DOMAIN work : Between(work[i], NextWork, Flushed)
    /\ \A i, j \in DOMAIN work : i < j => work[i].next <= work[j].first
PoolFlow ==
    /\ next <= NextWork
    /\ PoolApart(wHold, result, pending)
    /\ PoolBetween(wHold, result, pending, next, NextWork)
Covered ==
    \A k \in next .. Flushed - 1 :
        PoolHas(wHold, result, pending, k) \/ \E i \in DOMAIN work : Has(work[i], k)

BatchFlow == sPc = "recv" => DispatchFlow /\ WorkersFlow /\ WorkFlow /\ PoolFlow /\ Covered

\* Every batch held, and the one dispatch is about to send, has taken a slot.
Slotted == Held \cup (IF dPc = "send" THEN {cur.first} ELSE {})
Slots == CapEnabled => Cardinality(Slotted) <= inFlight /\ inFlight <= InflightMax

\* A message tells the truth about the members of its batch.
TrueMsg(m) == IF m.err = "none" THEN \A k \in m.first .. m.next - 1 : fault[k] = "none"
              ELSE \E k \in Blocks : fault[k] = m.err
MessagesTrue ==
    /\ \A w \in Workers : TrueMsg(wHold[w])
    /\ \A i \in DOMAIN result : TrueMsg(result[i])
    /\ \A m \in pending : m.err = "none" /\ TrueMsg(m)
OutputTrue ==
    /\ \E n \in 0 .. NumBlocks : delivered = Bytes(0, n) /\ \A k \in 0 .. n - 1 : fault[k] = "none"
    /\ sPc \in {"recv", "shutdown", "join"} => delivered = Bytes(0, next)
VerdictTrue ==
    /\ sPc = "recv" => lastErr = "none"
    /\ (sPc \in {"shutdown", "join"} /\ lastErr = "none") => next = prefix /\ pos = prefix
    /\ lastErr \in {"none", "closed"} \/ \E k \in Blocks : fault[k] = lastErr
    /\ sPc # "returned" => status = "running"

EndInvariant == MessagesTrue /\ OutputTrue /\ VerdictTrue

-----------------------------------------------------------------------------
(* The pool of batches. *)

\* The bounds of the messages of a pool are numbers.
Bounded(M) == NoMsg \in M /\ \A m \in M : m.first \in Nat /\ m.next \in Nat

\* A worker takes a batch that follows all the others.
LEMMA BatchTake ==
    ASSUME NEW W, NEW M, NEW hold \in [W -> M], NEW ch \in Seq(M), NEW R \in SUBSET M, Bounded(M),
           NEW lo \in Int, NEW hi \in Int, NEW w \in W, NEW m \in M,
           PoolApart(hold, ch, R), PoolBetween(hold, ch, R, lo, m.first), Between(m, lo, hi), hold[w] = NoMsg
    PROVE  /\ PoolApart(Taken(hold, w, m), ch, R)
           /\ PoolBetween(Taken(hold, w, m), ch, R, lo, hi)
           /\ \A k \in Int : PoolHas(hold, ch, R, k) \/ Has(m, k) => PoolHas(Taken(hold, w, m), ch, R, k)
<1> DEFINE h == Taken(hold, w, m)
<1>1. DOMAIN h = W /\ DOMAIN hold = W /\ h[w] = m /\ \A v \in W : v = w \/ h[v] = hold[v]
  BY DEF Taken
<1> HIDE DEF h
<1>2. m.first \in Nat /\ m.next \in Nat /\ lo <= m.first /\ m.first < m.next /\ m.next <= hi /\ NoMsg.next = 0 /\ NoMsg.first = 0
  BY DEF Bounded, Between, NoMsg
<1>3. \A v \in W : hold[v].next <= m.first /\ hold[v].first \in Nat /\ hold[v].next \in Nat
  BY <1>1, <1>2 DEF PoolBetween, Between, Bounded
<1>4. \A i \in DOMAIN ch : ch[i].next <= m.first /\ ch[i].first \in Nat /\ ch[i].next \in Nat
  BY <1>1, <1>2 DEF PoolBetween, Between, Bounded
<1>5. \A x \in R : x.next <= m.first /\ x.first \in Nat /\ x.next \in Nat
  BY <1>1, <1>2 DEF PoolBetween, Between, Bounded
<1>6. PoolApart(h, ch, R)
  BY <1>1, <1>2, <1>3, <1>4, <1>5 DEF PoolApart, Apart
<1>7. PoolBetween(h, ch, R, lo, hi)
  <2>1. \A v \in W : h[v] = NoMsg \/ Between(h[v], lo, hi)
    BY <1>1, <1>2, <1>3 DEF PoolBetween, Between
  <2>2. \A i \in DOMAIN ch : Between(ch[i], lo, hi)
    BY <1>2, <1>4 DEF PoolBetween, Between
  <2>3. \A x \in R : Between(x, lo, hi)
    BY <1>2, <1>5 DEF PoolBetween, Between
  <2> QED BY <1>1, <2>1, <2>2, <2>3 DEF PoolBetween
<1>8. ASSUME NEW k \in Int, PoolHas(hold, ch, R, k) \/ Has(m, k) PROVE PoolHas(h, ch, R, k)
  <2>1. ~Has(NoMsg, k)
    BY <1>2 DEF Has
  <2> QED BY <1>1, <1>8, <2>1 DEF PoolHas
<1> QED BY <1>6, <1>7, <1>8 DEF h

\* A worker sends its message.
LEMMA BatchSend ==
    ASSUME NEW W, NEW M, NEW hold \in [W -> M], NEW ch \in Seq(M), NEW R \in SUBSET M, Bounded(M),
           NEW lo \in Int, NEW hi \in Int, NEW w \in W, hold[w] # NoMsg,
           PoolApart(hold, ch, R), PoolBetween(hold, ch, R, lo, hi)
    PROVE  /\ PoolApart(Taken(hold, w, NoMsg), Sent(ch, hold[w]), R)
           /\ PoolBetween(Taken(hold, w, NoMsg), Sent(ch, hold[w]), R, lo, hi)
           /\ \A k \in Int : PoolHas(hold, ch, R, k) => PoolHas(Taken(hold, w, NoMsg), Sent(ch, hold[w]), R, k)
<1> DEFINE h == Taken(hold, w, NoMsg)
           c == Sent(ch, hold[w])
<1>1. DOMAIN h = W /\ DOMAIN hold = W /\ h[w] = NoMsg /\ \A v \in W : v = w \/ h[v] = hold[v]
  BY DEF Taken
<1>2. hold[w] \in M
  OBVIOUS
<1>3. \A i \in DOMAIN ch : i \in DOMAIN c /\ c[i] = ch[i]
  BY <1>2, PutDomain DEF Sent
<1>4. PICK l \in DOMAIN c : /\ c[l] = hold[w] /\ l \notin DOMAIN ch
                            /\ \A i \in DOMAIN c : i = l \/ i \in DOMAIN ch
  BY <1>2, PutDomain DEF Sent
<1> HIDE DEF h, c
<1>5. NoMsg.first = 0 /\ NoMsg.next = 0
  BY DEF NoMsg
<1>6. /\ \A v \in W : hold[v].first \in Nat /\ hold[v].next \in Nat
      /\ \A i \in DOMAIN ch : ch[i].first \in Nat /\ ch[i].next \in Nat
      /\ \A x \in R : x.first \in Nat /\ x.next \in Nat
  BY DEF Bounded
<1>7. /\ \A v \in W : Apart(NoMsg, hold[v]) /\ Apart(hold[v], NoMsg)
      /\ \A i \in DOMAIN ch : Apart(NoMsg, ch[i])
      /\ \A x \in R : Apart(NoMsg, x)
  BY <1>5, <1>6 DEF Apart
<1>8. PoolApart(h, c, R)
  <2>1. \A a, b : Apart(a, b) => Apart(b, a)
    BY DEF Apart
  <2> QED BY <1>1, <1>3, <1>4, <1>7, <2>1 DEF PoolApart
<1>9. PoolBetween(h, c, R, lo, hi)
  BY <1>1, <1>3, <1>4 DEF PoolBetween
<1>10. ASSUME NEW k \in Int, PoolHas(hold, ch, R, k) PROVE PoolHas(h, c, R, k)
  BY <1>1, <1>3, <1>4, <1>10 DEF PoolHas
<1> QED BY <1>8, <1>9, <1>10 DEF h, c

\* The serializer receives a message.
LEMMA BatchCollect ==
    ASSUME NEW W, NEW M, NEW hold \in [W -> M], NEW ch \in Seq(M), NEW R \in SUBSET M, ch # <<>>,
           NEW lo \in Int, NEW hi \in Int,
           PoolApart(hold, ch, R), PoolBetween(hold, ch, R, lo, hi)
    PROVE  /\ PoolApart(hold, Received(ch), Kept(R, Head(ch)))
           /\ PoolBetween(hold, Received(ch), Kept(R, Head(ch)), lo, hi)
           /\ \A k \in Int : PoolHas(hold, ch, R, k) => PoolHas(hold, Received(ch), Kept(R, Head(ch)), k)
<1> DEFINE c == Received(ch)
           Q == Kept(R, Head(ch))
<1>1. /\ 1 \in DOMAIN ch /\ Head(ch) = ch[1]
      /\ \A i \in DOMAIN c : i + 1 \in DOMAIN ch /\ c[i] = ch[i + 1]
      /\ \A i \in DOMAIN ch : i = 1 \/ (i - 1 \in DOMAIN c /\ c[i - 1] = ch[i])
      /\ \A i \in DOMAIN c : i + 1 # 1
      /\ \A i, j \in DOMAIN c : i + 1 = j + 1 => i = j
  BY TakeDomain DEF Received
<1>2. \A x \in Q : x \in R \/ x = ch[1]
  BY <1>1 DEF Kept
<1>3. R \subseteq Q /\ ch[1] \in Q
  BY <1>1 DEF Kept
<1> HIDE DEF c, Q
<1>4. \A a, b : Apart(a, b) => Apart(b, a)
  BY DEF Apart
<1>5. PoolApart(hold, c, Q)
  BY <1>1, <1>2, <1>3, <1>4 DEF PoolApart
<1>6. PoolBetween(hold, c, Q, lo, hi)
  BY <1>1, <1>2, <1>3 DEF PoolBetween
<1>7. ASSUME NEW k \in Int, PoolHas(hold, ch, R, k) PROVE PoolHas(hold, c, Q, k)
  BY <1>1, <1>2, <1>3, <1>7 DEF PoolHas
<1> QED BY <1>5, <1>6, <1>7 DEF c, Q

\* The first batch of all leaves the pool.
LEMMA BatchRemove ==
    ASSUME NEW W, NEW M, NEW hold \in [W -> M], NEW ch \in Seq(M), NEW R \in SUBSET M, Bounded(M),
           NEW lo \in Int, NEW hi \in Int, NEW m \in R, m.first = lo,
           PoolApart(hold, ch, R), PoolBetween(hold, ch, R, lo, hi)
    PROVE  /\ m.next \in Nat /\ lo < m.next /\ m.next <= hi
           /\ PoolApart(hold, ch, Gone(R, m))
           /\ PoolBetween(hold, ch, Gone(R, m), m.next, hi)
           /\ \A k \in Int : PoolHas(hold, ch, R, k) /\ m.next <= k => PoolHas(hold, ch, Gone(R, m), k)
<1> DEFINE Q == Gone(R, m)
<1>1. Q \subseteq R /\ \A x \in R : x = m \/ x \in Q
  BY DEF Gone
<1>2. m \notin Q
  BY DEF Gone
<1> HIDE DEF Q
<1>3. /\ \A v \in W : hold[v].first \in Nat /\ hold[v].next \in Nat
      /\ \A i \in DOMAIN ch : ch[i].first \in Nat /\ ch[i].next \in Nat
      /\ \A x \in R : x.first \in Nat /\ x.next \in Nat
  BY DEF Bounded
<1>4. m.first \in Nat /\ m.next \in Nat /\ lo < m.next /\ m.next <= hi
  BY <1>3 DEF PoolBetween, Between
<1>5. PoolApart(hold, ch, Q)
  BY <1>1 DEF PoolApart
<1>6. PoolBetween(hold, ch, Q, m.next, hi)
  <2>1. \A b : b.first \in Nat /\ b.next \in Nat /\ Between(b, lo, hi) /\ Apart(b, m) => Between(b, m.next, hi)
    BY <1>4 DEF Between, Apart
  <2>2. DOMAIN hold = W
    OBVIOUS
  <2>3. \A v \in W : hold[v] = NoMsg \/ Between(hold[v], m.next, hi)
    BY <1>3, <2>1, <2>2 DEF PoolApart, PoolBetween
  <2>4. \A i \in DOMAIN ch : Between(ch[i], m.next, hi)
    BY <1>3, <2>1 DEF PoolApart, PoolBetween
  <2>5. \A x \in Q : Between(x, m.next, hi)
    BY <1>1, <1>2, <1>3, <2>1 DEF PoolApart, PoolBetween
  <2> QED BY <2>2, <2>3, <2>4, <2>5 DEF PoolBetween
<1>7. ASSUME NEW k \in Int, PoolHas(hold, ch, R, k), m.next <= k PROVE PoolHas(hold, ch, Q, k)
  <2>1. ~Has(m, k)
    BY <1>4, <1>7 DEF Has
  <2> QED BY <1>1, <1>7, <2>1 DEF PoolHas
<1> QED BY <1>4, <1>5, <1>6, <1>7 DEF Q

-----------------------------------------------------------------------------
(* Types. *)

LEMMA MsgTypes ==
    /\ NumBlocks \in Nat /\ NumBlocks > 0
    /\ \A b \in Batch : b.first \in 0 .. NumBlocks /\ b.next \in 0 .. NumBlocks /\ b.first \in Nat /\ b.next \in Nat
    /\ NoBatch \in Batch /\ NoMsg \in Msg /\ Bounded(Msg)
<1>1. NumBlocks \in Nat /\ NumBlocks > 0
  BY ConstantTypes
<1>2. NoBatch \in Batch /\ NoMsg \in Msg
  BY <1>1 DEF NoBatch, Batch, NoMsg, Msg
<1>3. \A n \in 0 .. NumBlocks : n \in Nat
  BY <1>1
<1> QED BY <1>1, <1>2, <1>3 DEF Batch, Msg, Bounded

\* What a worker makes of a batch is a message that tells the truth about it.
LEMMA DecodeBatchTrue ==
    ASSUME fault \in InputFaults, NEW b \in Batch
    PROVE  LET m == DecodeBatch(b) IN
           m \in Msg /\ m.first = b.first /\ m.next = b.next /\ TrueMsg(m)
<1> DEFINE bad == {k \in b.first .. b.next - 1 : fault[k] # "none"}
           k0 == CHOOSE k \in bad : \A j \in bad : k <= j
           m == DecodeBatch(b)
<1>1. /\ m.err = (IF bad = {} THEN "none" ELSE fault[k0]) /\ m.first = b.first /\ m.next = b.next
      /\ m = [err |-> m.err, first |-> b.first, next |-> b.next]
  BY DEF DecodeBatch
<1>2. fault \in [Blocks -> FaultKind \cup {"none"}]
  BY StreamAssumption DEF PossibleFault
<1>3. b.first \in 0 .. NumBlocks /\ b.next \in 0 .. NumBlocks /\ NumBlocks \in Nat
  BY MsgTypes
<1>4. bad \subseteq Blocks /\ bad \subseteq Nat
  BY <1>3 DEF Blocks
<1>5. bad # {} => k0 \in bad
  <2> SUFFICES ASSUME bad # {} PROVE k0 \in bad
    OBVIOUS
  <2> HIDE DEF bad
  <2>1. \E k \in bad : \A j \in bad : k <= j
    BY <1>4, MinProperty
  <2> QED BY <2>1
<1> HIDE DEF k0, m
<1>6. CASE bad = {}
  <2>1. m.err = "none"
    BY <1>1, <1>6
  <2>2. m \in Msg
    BY <1>1, <1>3, <2>1 DEF Msg
  <2>3. \A k \in m.first .. m.next - 1 : fault[k] = "none"
    BY <1>1, <1>6
  <2> QED BY <1>1, <2>1, <2>2, <2>3 DEF TrueMsg, m
<1>7. CASE bad # {}
  <2>1. m.err = fault[k0] /\ k0 \in Blocks /\ fault[k0] # "none"
    BY <1>1, <1>4, <1>5, <1>7
  <2>2. m.err \in FaultKind \cup {"none"}
    BY <1>2, <2>1
  <2>3. m \in Msg
    BY <1>1, <1>3, <2>2 DEF Msg
  <2> QED BY <1>1, <2>1, <2>3 DEF TrueMsg, m
<1> QED BY <1>6, <1>7

LEMMA InitType == Init => TypeInvariant
<1> SUFFICES ASSUME Init PROVE TypeInvariant
  OBVIOUS
<1>1. NumBlocks \in Nat /\ NumBlocks > 0 /\ NoBatch \in Batch /\ NoMsg \in Msg
  BY MsgTypes
<1>2. PICK s \in FileShape : prefix = s.prefix /\ after = s.after
  BY Zenon DEF Init
<1>3. FileType
  <2>1. fault \in InputFaults
    BY Zenon DEF Init
  <2>2. CASE s = [prefix |-> NumBlocks, after |-> "end"]
    BY <1>1, <1>2, <2>1, <2>2 DEF FileType
  <2>3. CASE s = [prefix |-> NumBlocks - 1, after |-> "overrun"] /\ fault[NumBlocks - 1] = "decode"
    BY <1>1, <1>2, <2>1, <2>3 DEF FileType
  <2>4. ASSUME NEW p \in 1 .. NumBlocks - 1, s = [prefix |-> p, after |-> "remainder"] PROVE FileType
    BY <1>1, <1>2, <2>1, <2>4 DEF FileType
  <2> QED BY <2>2, <2>3, <2>4 DEF FileShape
<1>4. prefix \in Nat
  BY <1>1, <1>3 DEF FileType
<1>5. DispatchType
  <2>1. capShutdown \in BOOLEAN
    BY Zenon DEF Init
  <2>2. inFlight = 0 /\ dPc = "walk" /\ pos = 0 /\ cur = NoBatch
    BY Zenon DEF Init
  <2> QED BY <1>1, <1>4, <2>1, <2>2 DEF DispatchType
<1>6. WorkerType
  BY <1>1 DEF Init, WorkerType
<1>7. SerializerType
  BY <1>1 DEF Init, SerializerType
<1> QED BY <1>3, <1>5, <1>6, <1>7 DEF TypeInvariant

LEMMA TypeStep == TypeInvariant /\ [Next]_vars => TypeInvariant'
<1> SUFFICES ASSUME TypeInvariant, [Next]_vars PROVE TypeInvariant'
  OBVIOUS
<1>1. FileType /\ DispatchType /\ WorkerType /\ SerializerType
  BY DEF TypeInvariant
<1>2. /\ UNCHANGED fileVars => FileType'
      /\ UNCHANGED <<fileVars, capVars, dVars>> => DispatchType'
      /\ UNCHANGED <<work, result, wVars>> => WorkerType'
      /\ UNCHANGED sVars => SerializerType'
  <2>1. UNCHANGED fileVars => FileType'
    BY <1>1 DEF FileType, fileVars
  <2>2. UNCHANGED <<fileVars, capVars, dVars>> => DispatchType'
    BY <1>1, Zenon DEF DispatchType, fileVars, capVars, dVars
  <2>3. UNCHANGED <<work, result, wVars>> => WorkerType'
    BY <1>1 DEF WorkerType, wVars
  <2>4. UNCHANGED sVars => SerializerType'
    BY <1>1 DEF SerializerType, sVars
  <2> QED BY <2>1, <2>2, <2>3, <2>4
<1>3. prefix \in 0 .. NumBlocks /\ NumBlocks \in Nat /\ pos \in 0 .. prefix /\ pos \in Nat /\ prefix \in Nat
  BY <1>1, MsgTypes DEF FileType, DispatchType
<1>4. work \in Seq(Batch) /\ result \in Seq(Msg) /\ cur \in Batch /\ wHold \in [Workers -> Msg] /\ fault \in InputFaults
  BY <1>1 DEF WorkerType, DispatchType, FileType
<1>5. CASE Dispatch
  <2>1. UNCHANGED <<fileVars, result, wVars, sVars>>
    BY <1>5, Zenon DEF Dispatch, Walk, AcquireSlot, AcquireShutdown, DispatchSend
  <2>2. FileType' /\ SerializerType'
    BY <1>2, <2>1
  <2>3. WorkerType'
    <3>1. work' = work \/ work' = Append(work, cur)
      BY <1>5, Zenon DEF Dispatch, Walk, AcquireSlot, AcquireShutdown, DispatchSend
    <3>2. work' \in Seq(Batch)
      BY <1>4, <3>1
    <3> QED BY <1>1, <2>1, <3>2 DEF WorkerType, wVars
  <2>4. DispatchType'
    <3>1. capShutdown' \in BOOLEAN
      <4>1. UNCHANGED capShutdown
        BY <1>5, Zenon DEF Dispatch, Walk, AcquireSlot, AcquireShutdown, DispatchSend, capVars
      <4> QED BY <1>1, <4>1, Zenon DEF DispatchType
    <3>2. inFlight' \in Nat
      BY <1>1, <1>5 DEF Dispatch, Walk, AcquireSlot, AcquireShutdown, DispatchSend, capVars, DispatchType
    <3>3. dPc' \in {"walk", "acquire", "send", "exited"}
      BY <1>5 DEF Dispatch, Walk, AcquireSlot, AcquireShutdown, DispatchSend
    <3>4. pos' \in 0 .. prefix /\ cur' \in Batch
      <4>1. ASSUME Walk, pos # prefix PROVE pos' \in 0 .. prefix /\ cur' \in Batch
        <5>1. PICK e \in pos + 1 .. prefix : cur' = [first |-> pos, next |-> e] /\ pos' = e
          BY <4>1, Zenon DEF Walk
        <5> QED BY <1>3, <5>1 DEF Batch
      <4>2. ASSUME (Walk /\ pos = prefix) \/ AcquireSlot \/ AcquireShutdown PROVE UNCHANGED <<pos, cur>>
        BY <4>2, Zenon DEF Walk, AcquireSlot, AcquireShutdown
      <4>3. ASSUME DispatchSend PROVE pos' = pos /\ cur' = NoBatch
        BY <4>3, Zenon DEF DispatchSend
      <4> QED BY <1>3, <1>4, <1>5, <4>1, <4>2, <4>3, MsgTypes DEF Dispatch
    <3>5. prefix' = prefix
      BY <2>1 DEF fileVars
    <3>6. pos' \in 0 .. prefix'
      BY <3>4, <3>5
    <3> QED BY <3>1, <3>2, <3>3, <3>4, <3>6, Zenon DEF DispatchType
  <2> QED BY <2>2, <2>3, <2>4 DEF TypeInvariant
<1>6. ASSUME NEW w \in Workers, Worker(w) PROVE TypeInvariant'
  <2>1. UNCHANGED <<fileVars, capVars, dVars, sVars>>
    BY <1>6, Zenon DEF Worker, WorkerRecv, WorkerSend, WorkerExit
  <2>2. FileType' /\ DispatchType' /\ SerializerType'
    BY <1>2, <2>1
  <2>3. wPc' \in [Workers -> {"recv", "send", "exited"}]
    BY <1>1, <1>6 DEF Worker, WorkerRecv, WorkerSend, WorkerExit, WorkerType
  <2>4. work' \in Seq(Batch) /\ result' \in Seq(Msg) /\ wHold' \in [Workers -> Msg]
    <3>1. CASE WorkerRecv(w)
      <4>1. /\ work # <<>> /\ work' = Tail(work) /\ result' = result
            /\ wHold' = [wHold EXCEPT ![w] = DecodeBatch(Head(work))]
        BY <3>1, Zenon DEF WorkerRecv
      <4>2. Head(work) \in Batch /\ Tail(work) \in Seq(Batch)
        BY <1>4, <4>1
      <4>3. DecodeBatch(Head(work)) \in Msg
        BY <1>4, <4>2, DecodeBatchTrue
      <4> QED BY <1>4, <4>1, <4>2, <4>3
    <3>2. CASE WorkerSend(w)
      <4>1. /\ work' = work /\ result' = Append(result, wHold[w]) /\ wHold' = [wHold EXCEPT ![w] = NoMsg]
        BY <3>2, Zenon DEF WorkerSend
      <4> QED BY <1>4, <4>1, MsgTypes
    <3>3. CASE WorkerExit(w)
      BY <1>4, <3>3 DEF WorkerExit
    <3> QED BY <1>6, <3>1, <3>2, <3>3 DEF Worker
  <2> QED BY <2>2, <2>3, <2>4 DEF TypeInvariant, WorkerType
<1>7. CASE Serializer
  <2>1. UNCHANGED <<fileVars, dVars, work, wVars>>
    BY <1>7, Zenon DEF Serializer, SerializerRecv, SerializerEnd, SerializerSend, ShutdownCap, JoinAndReturn
  <2>2. FileType'
    BY <1>2, <2>1
  <2>3. DispatchType'
    <3>1. inFlight' \in Nat
      BY <1>1, <1>7 DEF Serializer, SerializerRecv, SerializerEnd, SerializerSend, ShutdownCap, JoinAndReturn,
          capVars, DispatchType
    <3>2. capShutdown' \in BOOLEAN
      <4>1. capShutdown' = capShutdown \/ capShutdown' = CapEnabled
        BY <1>7, Zenon DEF Serializer, SerializerRecv, SerializerEnd, SerializerSend, ShutdownCap, JoinAndReturn, capVars
      <4> QED BY <1>1, <4>1, BgzfAssumption, Zenon DEF DispatchType
    <3> QED BY <1>1, <2>1, <3>1, <3>2, Zenon DEF DispatchType, dVars, fileVars
  <2>4. WorkerType'
    <3>1. result' = result \/ (result # <<>> /\ result' = Tail(result))
      BY <1>7, Zenon DEF Serializer, SerializerRecv, SerializerEnd, SerializerSend, ShutdownCap, JoinAndReturn
    <3>2. result' \in Seq(Msg)
      BY <1>4, <3>1, TakeType
    <3> QED BY <1>1, <2>1, <3>2 DEF WorkerType, wVars
  <2>5. SerializerType'
    <3>1. CASE SerializerRecv
      <4>1. Head(result) \in Msg
        BY <1>4, <3>1 DEF SerializerRecv
      <4>2. Head(result).err \in FaultKind \cup {"none"}
        BY <4>1 DEF Msg
      <4> QED BY <1>1, <3>1, <4>1, <4>2 DEF SerializerRecv, SerializerType
    <3>2. CASE SerializerSend
      <4>1. PICK m \in pending : /\ pending' = pending \ {m}
                                 /\ next' \in {next, m.next} /\ sPc' \in {sPc, "shutdown"}
                                 /\ lastErr' \in {lastErr, "closed"}
        BY <3>2 DEF SerializerSend
      <4>2. m.next \in 0 .. NumBlocks
        BY <1>1 DEF SerializerType, Msg
      <4> QED BY <1>1, <4>1, <4>2 DEF SerializerType
    <3>3. CASE SerializerEnd \/ ShutdownCap \/ JoinAndReturn
      <4>1. UNCHANGED <<pending, next, lastErr>>
        BY <3>3, Zenon DEF SerializerEnd, ShutdownCap, JoinAndReturn
      <4>2. sPc' \in {"shutdown", "join", "remainder", "returned"}
        BY <3>3 DEF SerializerEnd, ShutdownCap, JoinAndReturn
      <4> QED BY <1>1, <4>1, <4>2 DEF SerializerType
    <3> QED BY <1>7, <3>1, <3>2, <3>3 DEF Serializer
  <2> QED BY <2>2, <2>3, <2>4, <2>5 DEF TypeInvariant
<1>8. CASE RemainderReturn
  <2>1. UNCHANGED <<fileVars, capVars, dVars, work, result, wVars, pending, next, lastErr>> /\ sPc' = "returned"
    BY <1>8, Zenon DEF RemainderReturn
  <2> QED BY <1>1, <1>2, <2>1 DEF TypeInvariant, SerializerType
<1>9. CASE RemainderDeliver \/ ConsumerRecv \/ ConsumerHangsUp \/ Returned \/ UNCHANGED vars
  <2>1. UNCHANGED <<fileVars, capVars, dVars, work, result, wVars, sVars>>
    BY <1>9, Zenon DEF RemainderDeliver, ConsumerRecv, ConsumerHangsUp, Returned, vars
  <2> QED BY <1>2, <2>1 DEF TypeInvariant
<1> QED BY <1>5, <1>6, <1>7, <1>8, <1>9 DEF Next

-----------------------------------------------------------------------------
(* Where the members are. *)

\* The numbers that the proofs below use.
LEMMA FlowTypes ==
    ASSUME TypeInvariant
    PROVE  /\ prefix \in Nat /\ pos \in Nat /\ next \in Nat /\ cur \in Batch /\ cur.first \in Nat /\ cur.next \in Nat
           /\ work \in Seq(Batch) /\ result \in Seq(Msg) /\ wHold \in [Workers -> Msg] /\ pending \in SUBSET Msg
           /\ \A i \in DOMAIN work : work[i] \in Batch /\ work[i].first \in Nat /\ work[i].next \in Nat
           /\ Flushed \in Nat /\ NextWork \in Nat
<1>1. /\ prefix \in 0 .. NumBlocks /\ pos \in 0 .. prefix /\ next \in 0 .. NumBlocks /\ cur \in Batch
      /\ work \in Seq(Batch) /\ result \in Seq(Msg) /\ wHold \in [Workers -> Msg] /\ pending \in SUBSET Msg
  BY DEF TypeInvariant, FileType, DispatchType, WorkerType, SerializerType
<1>2. prefix \in Nat /\ pos \in Nat /\ next \in Nat /\ cur.first \in Nat /\ cur.next \in Nat
  BY <1>1, MsgTypes
<1>3. \A i \in DOMAIN work : work[i] \in Batch
  BY <1>1
<1>4. \A i \in DOMAIN work : work[i].first \in Nat /\ work[i].next \in Nat
  BY <1>3, MsgTypes
<1>5. Flushed \in Nat
  BY <1>2 DEF Flushed
<1>6. NextWork \in Nat
  <2>1. work # <<>> => 1 \in DOMAIN work
    BY <1>1, TakeDomain
  <2> QED BY <1>4, <1>5, <2>1 DEF NextWork
<1> QED BY <1>1, <1>2, <1>3, <1>4, <1>5, <1>6

\* A step that moves no batch.
LEMMA FlowFrame ==
    ASSUME WorkFlow, PoolFlow, Covered, UNCHANGED <<work, wHold, result, pending, next>>, Flushed' = Flushed
    PROVE  WorkFlow' /\ PoolFlow' /\ Covered'
<1>1. NextWork' = NextWork
  BY DEF NextWork
<1>2. WorkFlow'
  BY <1>1 DEF WorkFlow
<1>3. PoolFlow'
  BY <1>1 DEF PoolFlow
<1>4. Covered'
  BY DEF Covered
<1> QED BY <1>2, <1>3, <1>4

LEMMA FlowDispatch ==
    ASSUME TypeInvariant, DispatchFlow, WorkersFlow, WorkFlow, PoolFlow, Covered, Dispatch
    PROVE  DispatchFlow' /\ WorkersFlow' /\ WorkFlow' /\ PoolFlow' /\ Covered'
<1>1. /\ prefix \in Nat /\ pos \in Nat /\ next \in Nat /\ cur \in Batch /\ cur.first \in Nat /\ cur.next \in Nat
      /\ work \in Seq(Batch) /\ \A i \in DOMAIN work : work[i].first \in Nat /\ work[i].next \in Nat
      /\ Flushed \in Nat /\ NextWork \in Nat
  BY FlowTypes
<1>2. UNCHANGED <<fileVars, capShutdown, result, wPc, wHold, pending, next>> /\ dPc # "exited"
  BY Zenon DEF Dispatch, Walk, AcquireSlot, AcquireShutdown, DispatchSend, capVars, wVars, sVars
<1>3. UNCHANGED prefix
  BY <1>2 DEF fileVars
<1>4. WorkersFlow'
  BY <1>2 DEF WorkersFlow
<1>5. CASE Walk
  <2>1. dPc = "walk" /\ UNCHANGED work
    BY <1>5, Zenon DEF Walk
  <2>2. CASE pos = prefix
    <3>1. dPc' = "exited" /\ UNCHANGED <<pos, cur>>
      BY <1>5, <2>2, Zenon DEF Walk
    <3>2. Flushed' = Flushed
      BY <2>1, <3>1 DEF Flushed
    <3>3. DispatchFlow'
      BY <1>2, <1>3, <2>2, <3>1 DEF DispatchFlow
    <3> QED BY <1>2, <1>4, <2>1, <3>2, <3>3, FlowFrame
  <2>3. CASE pos # prefix
    <3>1. PICK e \in pos + 1 .. prefix : cur' = [first |-> pos, next |-> e] /\ pos' = e /\ dPc' = "acquire"
      BY <1>5, <2>3, Zenon DEF Walk
    <3>2. Flushed' = Flushed
      BY <2>1, <3>1 DEF Flushed
    <3>3. cur'.first = pos /\ cur'.next = pos' /\ pos < pos'
      BY <1>1, <3>1
    <3>4. DispatchFlow'
      BY <1>2, <3>1, <3>3 DEF DispatchFlow
    <3> QED BY <1>2, <1>4, <2>1, <3>2, <3>4, FlowFrame
  <2> QED BY <2>2, <2>3
<1>6. CASE AcquireSlot
  <2>1. dPc = "acquire" /\ dPc' = "send" /\ UNCHANGED <<work, pos, cur>>
    BY <1>6, Zenon DEF AcquireSlot
  <2>2. Flushed' = Flushed
    BY <2>1 DEF Flushed
  <2>3. DispatchFlow'
    BY <1>2, <2>1 DEF DispatchFlow
  <2> QED BY <1>2, <1>4, <2>1, <2>2, <2>3, FlowFrame
<1>7. CASE AcquireShutdown
  BY <1>7, Zenon DEF AcquireShutdown, DispatchFlow
<1>8. CASE DispatchSend
  <2>1. dPc = "send" /\ dPc' = "walk" /\ work' = Append(work, cur) /\ UNCHANGED pos
    BY <1>8, Zenon DEF DispatchSend
  <2>2. cur.first < cur.next /\ cur.next = pos /\ Flushed = cur.first
    BY <2>1 DEF DispatchFlow, Flushed
  <2>3. Flushed' = cur.next
    BY <2>1, <2>2 DEF Flushed
  <2>4. DispatchFlow'
    BY <1>2, <2>1 DEF DispatchFlow
  <2>5. /\ \A i \in DOMAIN work : i \in DOMAIN work' /\ work'[i] = work[i]
        /\ \A i \in DOMAIN work' : i \in DOMAIN work \/ (work'[i] = cur /\ \A j \in DOMAIN work : j < i)
        /\ \E i \in DOMAIN work' : work'[i] = cur
        /\ \A i, j \in DOMAIN work' : i < j => i \in DOMAIN work
    BY <1>1, <2>1
  <2>6. NextWork' = NextWork
    <3>1. CASE work = <<>>
      <4>1. work' # <<>> /\ work'[1] = cur
        BY <2>1, <3>1
      <4> QED BY <2>2, <3>1, <4>1 DEF NextWork
    <3>2. CASE work # <<>>
      <4>1. work' # <<>> /\ work'[1] = work[1]
        BY <1>1, <2>1, <3>2
      <4> QED BY <3>2, <4>1 DEF NextWork
    <3> QED BY <3>1, <3>2
  <2>7. PoolFlow'
    BY <1>2, <2>6 DEF PoolFlow
  <2>8. /\ NextWork <= Flushed
        /\ \A i \in DOMAIN work : NextWork <= work[i].first /\ work[i].first < work[i].next /\ work[i].next <= cur.first
    BY <2>2 DEF WorkFlow, Between
  <2>9. WorkFlow'
    <3>1. NextWork' <= Flushed'
      BY <1>1, <2>2, <2>3, <2>6, <2>8
    <3>2. \A i \in DOMAIN work' : Between(work'[i], NextWork, cur.next)
      BY <1>1, <2>2, <2>5, <2>8 DEF Between
    <3>3. \A i, j \in DOMAIN work' : i < j => work'[i].next <= work'[j].first
      BY <2>5, <2>8 DEF WorkFlow
    <3> QED BY <2>3, <2>6, <3>1, <3>2, <3>3 DEF WorkFlow
  <2>10. Covered'
    <3>1. ASSUME NEW k \in next .. cur.next - 1
          PROVE  PoolHas(wHold, result, pending, k) \/ \E i \in DOMAIN work' : Has(work'[i], k)
      <4>1. CASE k < cur.first
        <5>1. k \in next .. Flushed - 1
          BY <1>1, <2>2, <4>1
        <5> QED BY <2>5, <5>1 DEF Covered
      <4>2. CASE ~(k < cur.first)
        <5>1. Has(cur, k)
          BY <1>1, <4>2 DEF Has
        <5> QED BY <2>5, <5>1
      <4> QED BY <4>1, <4>2
    <3> QED BY <1>2, <2>3, <3>1 DEF Covered
  <2> QED BY <1>4, <2>4, <2>7, <2>9, <2>10
<1> QED BY <1>5, <1>6, <1>7, <1>8 DEF Dispatch

LEMMA FlowWorker ==
    ASSUME TypeInvariant, DispatchFlow, WorkersFlow, WorkFlow, PoolFlow, Covered, NEW w \in Workers, Worker(w)
    PROVE  DispatchFlow' /\ WorkersFlow' /\ WorkFlow' /\ PoolFlow' /\ Covered'
<1>1. /\ next \in Nat /\ work \in Seq(Batch) /\ \A i \in DOMAIN work : work[i].first \in Nat /\ work[i].next \in Nat
      /\ Flushed \in Nat /\ NextWork \in Nat
      /\ wHold \in [Workers -> Msg] /\ result \in Seq(Msg) /\ pending \in SUBSET Msg
      /\ wPc \in [Workers -> {"recv", "send", "exited"}]
  BY FlowTypes DEF TypeInvariant, WorkerType
<1>2. UNCHANGED <<fileVars, capVars, dVars, pending, next>>
  BY Zenon DEF Worker, WorkerRecv, WorkerSend, WorkerExit, sVars
<1>3. UNCHANGED <<prefix, capShutdown, dPc, pos, cur>>
  BY <1>2 DEF fileVars, capVars, dVars
<1>4. Flushed' = Flushed /\ DispatchFlow'
  BY <1>3 DEF Flushed, DispatchFlow
<1>5. CASE WorkerRecv(w)
  <2> DEFINE b == Head(work)
             m == DecodeBatch(b)
  <2>1. /\ wPc[w] = "recv" /\ work # <<>> /\ work' = Tail(work) /\ UNCHANGED result
        /\ wHold' = [wHold EXCEPT ![w] = m] /\ wPc' = [wPc EXCEPT ![w] = "send"]
    BY <1>5, Zenon DEF WorkerRecv
  <2>2. b \in Batch
    BY <1>1, <2>1, TakeType
  <2>3. m \in Msg /\ m.first = b.first /\ m.next = b.next
    BY <2>2, DecodeBatchTrue DEF TypeInvariant, FileType
  <2>4. /\ 1 \in DOMAIN work /\ b = work[1]
        /\ \A i \in DOMAIN work' : i + 1 \in DOMAIN work /\ work'[i] = work[i + 1]
        /\ \A i \in DOMAIN work : i = 1 \/ (i - 1 \in DOMAIN work' /\ work'[i - 1] = work[i])
    BY <1>1, <2>1, TakeDomain
  <2> HIDE DEF m, b
  <2>5. NextWork = b.first /\ b.first \in Nat /\ b.next \in Nat
    BY <1>1, <2>1, <2>4 DEF NextWork
  <2>6. /\ b.first < b.next /\ b.next <= Flushed
        /\ \A i \in DOMAIN work' : Between(work'[i], b.next, Flushed)
    <3>1. b.first < b.next /\ b.next <= Flushed
      BY <2>4 DEF WorkFlow, Between
    <3>2. ASSUME NEW i \in DOMAIN work' PROVE Between(work'[i], b.next, Flushed)
      <4>1. i + 1 \in DOMAIN work /\ work'[i] = work[i + 1] /\ 1 < i + 1
        BY <1>1, <2>1, <2>4
      <4>2. work[1].next <= work[i + 1].first
        BY <2>4, <4>1 DEF WorkFlow
      <4> QED BY <2>4, <4>1, <4>2 DEF WorkFlow, Between
    <3> QED BY <3>1, <3>2
  <2>7. NextWork' \in Nat /\ b.next <= NextWork' /\ NextWork' <= Flushed /\ (work' = <<>> \/ NextWork' = work'[1].first)
    <3>1. CASE work' = <<>>
      BY <1>1, <1>4, <2>6, <3>1 DEF NextWork
    <3>2. CASE work' # <<>>
      <4>1. 1 \in DOMAIN work' /\ NextWork' = work'[1].first
        <5>1. work' \in Seq(Batch)
          BY <1>1, <2>1, TakeType
        <5> QED BY <3>2, <5>1, TakeDomain DEF NextWork
      <4>2. NextWork' \in Nat
        BY <1>1, <2>4, <4>1
      <4>3. work'[1].next \in Nat
        BY <1>1, <2>4, <4>1
      <4> QED BY <1>1, <2>6, <4>1, <4>2, <4>3 DEF Between
    <3> QED BY <3>1, <3>2
  <2>8. WorkFlow'
    <3>1. \A i, j \in DOMAIN work' : i < j => work'[i].next <= work'[j].first
      <4> SUFFICES ASSUME NEW i \in DOMAIN work', NEW j \in DOMAIN work', i < j
                   PROVE  work'[i].next <= work'[j].first
        OBVIOUS
      <4>1. i + 1 < j + 1
        BY <1>1, <2>1
      <4> QED BY <2>4, <4>1 DEF WorkFlow
    <3>2. ASSUME NEW i \in DOMAIN work' PROVE NextWork' <= work'[i].first
      <4>1. CASE i = 1
        BY <2>7, <3>2, <4>1, <1>1, <2>4
      <4>2. CASE i # 1
        <5>1. 1 \in DOMAIN work' /\ 1 < i
          BY <1>1, <2>1, <3>2, <4>2
        <5>2. work'[1].next <= work'[i].first /\ work'[1].first < work'[1].next
          BY <2>6, <3>1, <5>1 DEF Between
        <5>3. work'[1].first \in Nat /\ work'[1].next \in Nat /\ work'[i].first \in Nat
          BY <1>1, <2>4, <5>1
        <5>4. NextWork' = work'[1].first
          BY <2>7, <5>1
        <5> QED BY <5>2, <5>3, <5>4
      <4> QED BY <4>1, <4>2
    <3>3. \A i \in DOMAIN work' : Between(work'[i], NextWork', Flushed)
      BY <2>6, <3>2 DEF Between
    <3> QED BY <1>4, <2>7, <3>1, <3>3 DEF WorkFlow
  <2>9. /\ PoolApart(Taken(wHold, w, m), result, pending)
        /\ PoolBetween(Taken(wHold, w, m), result, pending, next, NextWork')
        /\ \A k \in Int : PoolHas(wHold, result, pending, k) \/ Has(m, k) => PoolHas(Taken(wHold, w, m), result, pending, k)
    <3>1. PoolApart(wHold, result, pending) /\ PoolBetween(wHold, result, pending, next, m.first)
      BY <2>3, <2>5 DEF PoolFlow
    <3>2. Between(m, next, NextWork')
      BY <1>1, <2>3, <2>5, <2>6, <2>7 DEF PoolFlow, Between
    <3>3. wHold[w] = NoMsg
      BY <2>1 DEF WorkersFlow
    <3>4. Bounded(Msg) /\ next \in Int /\ NextWork' \in Int
      BY <1>1, <2>7, MsgTypes
    <3> QED BY <1>1, <2>3, <3>1, <3>2, <3>3, <3>4, BatchTake, SMT
  <2>10. wHold' = Taken(wHold, w, m)
    BY <2>1 DEF Taken
  <2>11. PoolFlow'
    <3>1. next <= NextWork'
      BY <1>1, <2>5, <2>6, <2>7 DEF PoolFlow
    <3> QED BY <1>2, <2>1, <2>9, <2>10, <3>1 DEF PoolFlow
  <2>12. Covered'
    <3>1. ASSUME NEW k \in next .. Flushed - 1
          PROVE  PoolHas(wHold', result, pending, k) \/ \E i \in DOMAIN work' : Has(work'[i], k)
      <4>1. k \in Int
        BY <1>1
      <4>2. PoolHas(wHold, result, pending, k) \/ \E i \in DOMAIN work : Has(work[i], k)
        BY DEF Covered
      <4>3. Has(b, k) => Has(m, k)
        BY <2>3 DEF Has
      <4> QED BY <2>4, <2>9, <2>10, <4>1, <4>2, <4>3
    <3> QED BY <1>2, <1>4, <2>1, <3>1 DEF Covered
  <2>13. WorkersFlow'
    <3>1. m # NoMsg
      BY <2>3, <2>5, <2>6 DEF NoMsg
    <3>2. \A v \in Workers : v = w \/ (wHold'[v] = wHold[v] /\ wPc'[v] = wPc[v])
      BY <1>1, <2>1
    <3>3. wHold'[w] = m /\ wPc'[w] = "send"
      BY <1>1, <2>1
    <3>4. \A v \in Workers : wPc[v] # "exited"
      BY <2>1 DEF WorkersFlow
    <3> QED BY <3>1, <3>2, <3>3, <3>4 DEF WorkersFlow
  <2> QED BY <1>4, <2>8, <2>11, <2>12, <2>13
<1>6. CASE WorkerSend(w)
  <2>1. /\ wPc[w] = "send" /\ UNCHANGED work /\ result' = Append(result, wHold[w])
        /\ wHold' = [wHold EXCEPT ![w] = NoMsg] /\ wPc' = [wPc EXCEPT ![w] = "recv"]
    BY <1>6, Zenon DEF WorkerSend
  <2>2. NextWork' = NextWork
    BY <1>4, <2>1 DEF NextWork
  <2>3. WorkFlow'
    BY <1>4, <2>1, <2>2 DEF WorkFlow
  <2>4. /\ PoolApart(Taken(wHold, w, NoMsg), Sent(result, wHold[w]), pending)
        /\ PoolBetween(Taken(wHold, w, NoMsg), Sent(result, wHold[w]), pending, next, NextWork)
        /\ \A k \in Int : PoolHas(wHold, result, pending, k)
                            => PoolHas(Taken(wHold, w, NoMsg), Sent(result, wHold[w]), pending, k)
    <3>1. PoolApart(wHold, result, pending) /\ PoolBetween(wHold, result, pending, next, NextWork)
      BY DEF PoolFlow
    <3>2. wHold[w] # NoMsg
      BY <2>1 DEF WorkersFlow
    <3>3. Bounded(Msg) /\ next \in Int /\ NextWork \in Int
      BY <1>1, MsgTypes
    <3> QED BY <1>1, <3>1, <3>2, <3>3, BatchSend, SMT
  <2>5. wHold' = Taken(wHold, w, NoMsg) /\ result' = Sent(result, wHold[w])
    BY <2>1 DEF Taken, Sent
  <2>6. PoolFlow'
    BY <1>2, <2>2, <2>4, <2>5 DEF PoolFlow
  <2>7. Covered'
    <3>1. ASSUME NEW k \in next .. Flushed - 1
          PROVE  PoolHas(wHold', result', pending, k) \/ \E i \in DOMAIN work : Has(work[i], k)
      <4>1. k \in Int
        BY <1>1
      <4> QED BY <2>4, <2>5, <4>1 DEF Covered
    <3> QED BY <1>2, <1>4, <2>1, <3>1 DEF Covered
  <2>8. WorkersFlow'
    <3>1. \A v \in Workers : v = w \/ (wHold'[v] = wHold[v] /\ wPc'[v] = wPc[v])
      BY <1>1, <2>1
    <3>2. wHold'[w] = NoMsg /\ wPc'[w] = "recv"
      BY <1>1, <2>1
    <3> QED BY <1>3, <2>1, <3>1, <3>2 DEF WorkersFlow
  <2> QED BY <1>4, <2>3, <2>6, <2>7, <2>8
<1>7. CASE WorkerExit(w)
  <2>1. /\ wPc[w] = "recv" /\ work = <<>> /\ dPc = "exited" /\ wPc' = [wPc EXCEPT ![w] = "exited"]
        /\ UNCHANGED <<work, result, wHold>>
    BY <1>7, Zenon DEF WorkerExit
  <2>2. WorkersFlow'
    <3>1. \A v \in Workers : v = w \/ wPc'[v] = wPc[v]
      BY <1>1, <2>1
    <3>2. wPc'[w] = "exited"
      BY <1>1, <2>1
    <3> QED BY <1>3, <2>1, <3>1, <3>2 DEF WorkersFlow
  <2> QED BY <1>2, <1>4, <2>1, <2>2, FlowFrame
<1> QED BY <1>5, <1>6, <1>7 DEF Worker

LEMMA FlowSerializer ==
    ASSUME TypeInvariant, DispatchFlow, WorkersFlow, WorkFlow, PoolFlow, Covered, Serializer, sPc' = "recv"
    PROVE  DispatchFlow' /\ WorkersFlow' /\ WorkFlow' /\ PoolFlow' /\ Covered'
<1>1. /\ next \in Nat /\ Flushed \in Nat /\ NextWork \in Nat
      /\ wHold \in [Workers -> Msg] /\ result \in Seq(Msg) /\ pending \in SUBSET Msg
  BY FlowTypes
<1>2. SerializerRecv \/ SerializerSend
  BY DEF Serializer, SerializerEnd, ShutdownCap, JoinAndReturn
<1>3. UNCHANGED <<prefix, capShutdown, dPc, pos, cur, work, wPc, wHold>>
  BY <1>2, Zenon DEF SerializerRecv, SerializerSend, fileVars, capVars, dVars, wVars
<1>4. Flushed' = Flushed /\ NextWork' = NextWork /\ DispatchFlow' /\ WorkersFlow'
  <2>1. Flushed' = Flushed
    BY <1>3 DEF Flushed
  <2> QED BY <1>3, <2>1 DEF NextWork, DispatchFlow, WorkersFlow
<1>5. WorkFlow'
  BY <1>3, <1>4 DEF WorkFlow
<1>6. PoolApart(wHold, result, pending) /\ PoolBetween(wHold, result, pending, next, NextWork) /\ next <= NextWork
  BY DEF PoolFlow
<1>7. CASE SerializerRecv
  <2>1. result # <<>> /\ result' = Tail(result) /\ UNCHANGED next /\ pending' = pending \cup {Head(result)}
    BY <1>7 DEF SerializerRecv
  <2>2. result' = Received(result) /\ pending' = Kept(pending, Head(result))
    BY <2>1 DEF Received, Kept
  <2>3. /\ PoolApart(wHold, Received(result), Kept(pending, Head(result)))
        /\ PoolBetween(wHold, Received(result), Kept(pending, Head(result)), next, NextWork)
        /\ \A k \in Int : PoolHas(wHold, result, pending, k)
                            => PoolHas(wHold, Received(result), Kept(pending, Head(result)), k)
    <3>1. next \in Int /\ NextWork \in Int
      BY <1>1
    <3> QED BY <1>1, <1>6, <2>1, <3>1, BatchCollect, SMT
  <2>4. PoolFlow'
    BY <1>3, <1>4, <1>6, <2>1, <2>2, <2>3 DEF PoolFlow
  <2>5. Covered'
    <3>1. ASSUME NEW k \in next .. Flushed - 1
          PROVE  PoolHas(wHold, result', pending', k) \/ \E i \in DOMAIN work : Has(work[i], k)
      <4>1. k \in Int
        BY <1>1
      <4> QED BY <2>2, <2>3, <4>1 DEF Covered
    <3> QED BY <1>3, <1>4, <2>1, <3>1 DEF Covered
  <2> QED BY <1>4, <1>5, <2>4, <2>5
<1>8. CASE SerializerSend
  <2>1. PICK m \in pending : Ready(m) /\ pending' = pending \ {m} /\ next' = m.next
    BY <1>8 DEF SerializerSend
  <2>2. m.first = next /\ UNCHANGED result
    BY <1>8, <2>1, Zenon DEF SerializerSend, Ready
  <2>3. pending' = Gone(pending, m)
    BY <2>1 DEF Gone
  <2>4. /\ m.next \in Nat /\ next < m.next /\ m.next <= NextWork
        /\ PoolApart(wHold, result, Gone(pending, m))
        /\ PoolBetween(wHold, result, Gone(pending, m), m.next, NextWork)
        /\ \A k \in Int : PoolHas(wHold, result, pending, k) /\ m.next <= k
                            => PoolHas(wHold, result, Gone(pending, m), k)
    <3>1. next \in Int /\ NextWork \in Int /\ Bounded(Msg)
      BY <1>1, MsgTypes
    <3>2. m \in pending /\ m.first = next
      BY <2>2
    <3> QED BY <1>1, <1>6, <3>1, <3>2, BatchRemove, ZenonT(30)
  <2>5. PoolFlow'
    BY <1>3, <1>4, <2>1, <2>2, <2>3, <2>4 DEF PoolFlow
  <2>6. Covered'
    <3>1. ASSUME NEW k \in m.next .. Flushed - 1
          PROVE  PoolHas(wHold, result, pending', k) \/ \E i \in DOMAIN work : Has(work[i], k)
      <4>1. k \in Int /\ k \in next .. Flushed - 1 /\ m.next <= k
        BY <1>1, <2>4
      <4> QED BY <2>3, <2>4, <4>1 DEF Covered
    <3> QED BY <1>3, <1>4, <2>1, <2>2, <3>1 DEF Covered
  <2> QED BY <1>4, <1>5, <2>5, <2>6
<1> QED BY <1>2, <1>7, <1>8

LEMMA FlowStep == TypeInvariant /\ BatchFlow /\ [Next]_vars => BatchFlow'
<1> SUFFICES ASSUME TypeInvariant, BatchFlow, [Next]_vars, sPc' = "recv"
             PROVE  DispatchFlow' /\ WorkersFlow' /\ WorkFlow' /\ PoolFlow' /\ Covered'
  BY DEF BatchFlow
<1>1. CASE Dispatch
  <2>1. sPc = "recv"
    BY <1>1, Zenon DEF Dispatch, Walk, AcquireSlot, AcquireShutdown, DispatchSend, sVars
  <2> QED BY <1>1, <2>1, FlowDispatch DEF BatchFlow
<1>2. ASSUME NEW w \in Workers, Worker(w) PROVE DispatchFlow' /\ WorkersFlow' /\ WorkFlow' /\ PoolFlow' /\ Covered'
  <2>1. sPc = "recv"
    BY <1>2, Zenon DEF Worker, WorkerRecv, WorkerSend, WorkerExit, sVars
  <2> QED BY <1>2, <2>1, FlowWorker DEF BatchFlow
<1>3. CASE Serializer
  <2>1. sPc = "recv"
    BY <1>3 DEF Serializer, SerializerRecv, SerializerEnd, SerializerSend, ShutdownCap, JoinAndReturn
  <2> QED BY <1>3, <2>1, FlowSerializer DEF BatchFlow
<1>4. CASE RemainderReturn
  BY <1>4 DEF RemainderReturn
<1>5. CASE RemainderDeliver \/ ConsumerRecv \/ ConsumerHangsUp \/ Returned \/ UNCHANGED vars
  <2>1. UNCHANGED <<fileVars, capVars, dVars, work, result, wVars, sVars>>
    BY <1>5, Zenon DEF RemainderDeliver, ConsumerRecv, ConsumerHangsUp, Returned, vars
  <2>2. UNCHANGED <<prefix, capShutdown, dPc, pos, cur, work, result, wPc, wHold, pending, next, sPc>>
    BY <2>1 DEF fileVars, capVars, dVars, wVars, sVars
  <2>3. DispatchFlow /\ WorkersFlow /\ WorkFlow /\ PoolFlow /\ Covered
    BY <2>2 DEF BatchFlow
  <2>4. Flushed' = Flushed
    BY <2>2 DEF Flushed
  <2>5. DispatchFlow' /\ WorkersFlow'
    BY <2>2, <2>3 DEF DispatchFlow, WorkersFlow
  <2> QED BY <2>2, <2>3, <2>4, <2>5, FlowFrame
<1> QED BY <1>1, <1>2, <1>3, <1>4, <1>5 DEF Next

LEMMA InitFlow == Init => BatchFlow
<1> SUFFICES ASSUME Init PROVE BatchFlow
  OBVIOUS
<1>1. /\ work = <<>> /\ result = <<>> /\ pending = {} /\ next = 0 /\ pos = 0 /\ dPc = "walk"
      /\ capShutdown = FALSE /\ wPc = [w \in Workers |-> "recv"] /\ wHold = [w \in Workers |-> NoMsg]
  BY Zenon DEF Init
<1>2. Flushed = 0 /\ NextWork = 0
  BY <1>1 DEF Flushed, NextWork
<1>3. DispatchFlow /\ WorkersFlow /\ WorkFlow
  BY <1>1, <1>2 DEF DispatchFlow, WorkersFlow, WorkFlow
<1>4. PoolFlow
  <2>1. Apart(NoMsg, NoMsg)
    BY DEF Apart, NoMsg
  <2> QED BY <1>1, <1>2, <2>1 DEF PoolFlow, PoolApart, PoolBetween
<1>5. Covered
  BY <1>1, <1>2 DEF Covered
<1> QED BY <1>3, <1>4, <1>5 DEF BatchFlow

\* While the serializer runs, every member between the ones delivered and the
\* ones not yet flushed is in exactly one batch, and the batches are where
\* BatchFlow says.
THEOREM BatchesCorrect == Spec => [](TypeInvariant /\ BatchFlow)
<1>1. Init => TypeInvariant /\ BatchFlow
  BY InitType, InitFlow
<1>2. TypeInvariant /\ BatchFlow /\ [Next]_vars => TypeInvariant' /\ BatchFlow'
  BY TypeStep, FlowStep
<1> QED BY <1>1, <1>2, PTL DEF Spec

-----------------------------------------------------------------------------
(* The in-flight cap. *)

\* The batches that have a slot.
LEMMA SlottedElems ==
    \A n : n \in Slotted <=>
        \/ \E i \in DOMAIN work : n = work[i].first
        \/ \E w \in Workers : wPc[w] = "send" /\ n = wHold[w].first
        \/ \E i \in DOMAIN result : n = result[i].first
        \/ \E m \in pending : n = m.first
        \/ dPc = "send" /\ n = cur.first
BY Zenon DEF Slotted, Held

LEMMA SlottedFinite ==
    ASSUME TypeInvariant
    PROVE  IsFiniteSet(Slotted) /\ Cardinality(Slotted) \in Nat
<1>1. Slotted \subseteq 0 .. NumBlocks
  <2>1. \A i \in DOMAIN work : work[i].first \in 0 .. NumBlocks
    BY FlowTypes, MsgTypes
  <2>2. \A m \in Msg : m.first \in 0 .. NumBlocks
    BY DEF Msg
  <2>3. \A w \in Workers : wHold[w].first \in 0 .. NumBlocks
    BY <2>2, FlowTypes
  <2>4. \A i \in DOMAIN result : result[i].first \in 0 .. NumBlocks
    BY <2>2, FlowTypes
  <2>5. \A m \in pending : m.first \in 0 .. NumBlocks
    BY <2>2, FlowTypes
  <2>6. cur.first \in 0 .. NumBlocks
    BY FlowTypes, MsgTypes
  <2> QED BY <2>1, <2>3, <2>4, <2>5, <2>6, SlottedElems, Zenon
<1>2. IsFiniteSet(0 .. NumBlocks)
  BY MsgTypes, FS_Interval
<1> QED BY <1>1, <1>2, FS_Subset, FS_CardinalityType

\* The primed form of SlottedElems.
LEMMA SlottedNext ==
    \A n : n \in Slotted' <=>
        \/ \E i \in DOMAIN work' : n = work'[i].first
        \/ \E w \in Workers : wPc'[w] = "send" /\ n = wHold'[w].first
        \/ \E i \in DOMAIN result' : n = result'[i].first
        \/ \E m \in pending' : n = m.first
        \/ dPc' = "send" /\ n = cur'.first
BY Zenon DEF Slotted, Held

\* Only the acquire of a slot adds a batch, and it adds one.
LEMMA SlottedStep ==
    ASSUME TypeInvariant, [Next]_vars, ~SerializerSend
    PROVE  \/ ~AcquireSlot /\ Slotted' \subseteq Slotted /\ UNCHANGED inFlight
           \/ AcquireSlot /\ Slotted' \subseteq Slotted \cup {cur.first}
<1>1. /\ work \in Seq(Batch) /\ result \in Seq(Msg) /\ wHold \in [Workers -> Msg] /\ cur \in Batch
      /\ wPc \in [Workers -> {"recv", "send", "exited"}] /\ fault \in InputFaults
  BY FlowTypes DEF TypeInvariant, WorkerType, FileType
<1>2. CASE AcquireSlot
  <2>1. UNCHANGED <<work, result, wPc, wHold, pending, cur>>
    BY <1>2, Zenon DEF AcquireSlot, wVars, sVars
  <2> QED BY <1>2, <2>1, SlottedElems, SlottedNext
<1>3. CASE Walk \/ AcquireShutdown
  <2>1. UNCHANGED <<work, result, wPc, wHold, pending, inFlight>> /\ dPc' # "send" /\ ~AcquireSlot
    BY <1>3 DEF Walk, AcquireShutdown, AcquireSlot, wVars, sVars, capVars
  <2> QED BY <2>1, SlottedElems, SlottedNext
<1>4. CASE DispatchSend
  <2>1. UNCHANGED <<result, wPc, wHold, pending, inFlight>> /\ dPc' # "send" /\ dPc = "send" /\ ~AcquireSlot
    BY <1>4 DEF DispatchSend, AcquireSlot, wVars, sVars, capVars
  <2>2. work' = Append(work, cur)
    BY <1>4, Zenon DEF DispatchSend
  <2>3. \A i \in DOMAIN work' : work'[i] = cur \/ (i \in DOMAIN work /\ work'[i] = work[i])
    BY <1>1, <2>2, PutElems
  <2> QED BY <2>1, <2>3, SlottedElems, SlottedNext
<1>5. ASSUME NEW w \in Workers, Worker(w) PROVE ~AcquireSlot /\ Slotted' \subseteq Slotted /\ UNCHANGED inFlight
  <2>1. UNCHANGED <<pending, inFlight, dPc, cur>>
    BY <1>5, Zenon DEF Worker, WorkerRecv, WorkerSend, WorkerExit, sVars, dVars, capVars
  <2>2. ~AcquireSlot
    BY <2>1 DEF AcquireSlot
  <2>3. CASE WorkerRecv(w)
    <3>1. /\ work # <<>> /\ work' = Tail(work) /\ UNCHANGED result
          /\ wHold' = [wHold EXCEPT ![w] = DecodeBatch(Head(work))] /\ wPc' = [wPc EXCEPT ![w] = "send"]
      BY <2>3, Zenon DEF WorkerRecv
    <3>2. 1 \in DOMAIN work /\ Head(work) = work[1] /\ \A i \in DOMAIN work' : i + 1 \in DOMAIN work /\ work'[i] = work[i + 1]
      BY <1>1, <3>1, TakeDomain
    <3>3. DecodeBatch(Head(work)).first = work[1].first
      BY <1>1, <3>1, <3>2, TakeType, DecodeBatchTrue
    <3>4. \A v \in Workers : (v = w /\ wHold'[v] = DecodeBatch(Head(work))) \/ (wHold'[v] = wHold[v] /\ wPc'[v] = wPc[v])
      BY <1>1, <3>1
    <3> QED BY <2>1, <2>2, <3>1, <3>2, <3>3, <3>4, SlottedElems, SlottedNext
  <2>4. CASE WorkerSend(w)
    <3>1. /\ wPc[w] = "send" /\ UNCHANGED work /\ result' = Append(result, wHold[w])
          /\ wHold' = [wHold EXCEPT ![w] = NoMsg] /\ wPc' = [wPc EXCEPT ![w] = "recv"]
      BY <2>4, Zenon DEF WorkerSend
    <3>2. \A v \in Workers : (v = w /\ wPc'[v] # "send") \/ (wHold'[v] = wHold[v] /\ wPc'[v] = wPc[v])
      BY <1>1, <3>1
    <3>3. wHold[w] \in Msg
      BY <1>1
    <3>4. \A i \in DOMAIN result' : result'[i] = wHold[w] \/ (i \in DOMAIN result /\ result'[i] = result[i])
      BY <1>1, <3>1, <3>3, PutElems
    <3> QED BY <2>1, <2>2, <3>1, <3>2, <3>4, SlottedElems, SlottedNext
  <2>5. CASE WorkerExit(w)
    <3>1. UNCHANGED <<work, result, wHold>> /\ wPc' = [wPc EXCEPT ![w] = "exited"]
      BY <2>5, Zenon DEF WorkerExit
    <3>2. \A v \in Workers : wPc'[v] # "send" \/ wPc'[v] = wPc[v]
      BY <1>1, <3>1
    <3> QED BY <2>1, <2>2, <3>1, <3>2, SlottedElems, SlottedNext
  <2> QED BY <1>5, <2>3, <2>4, <2>5 DEF Worker
<1>6. CASE SerializerRecv
  <2>1. UNCHANGED <<work, wPc, wHold, inFlight, dPc, cur>> /\ result # <<>> /\ result' = Tail(result)
        /\ (pending' = pending \/ pending' = pending \cup {Head(result)})
    BY <1>6, Zenon DEF SerializerRecv, wVars, dVars, capVars
  <2>2. ~AcquireSlot
    BY <2>1 DEF AcquireSlot
  <2>3. 1 \in DOMAIN result /\ Head(result) = result[1] /\ \A i \in DOMAIN result' : i + 1 \in DOMAIN result /\ result'[i] = result[i + 1]
    BY <1>1, <2>1, TakeDomain
  <2>4. \A m \in pending' : m \in pending \/ m = result[1]
    BY <2>1, <2>3
  <2> QED BY <2>1, <2>2, <2>3, <2>4, SlottedElems, SlottedNext
<1>7. CASE \/ SerializerEnd \/ ShutdownCap \/ JoinAndReturn \/ RemainderDeliver \/ RemainderReturn
           \/ ConsumerRecv \/ ConsumerHangsUp \/ Returned \/ UNCHANGED vars
  <2>1. UNCHANGED <<work, result, wPc, wHold, pending, inFlight, dPc, cur>>
    BY <1>7, Zenon DEF SerializerEnd, ShutdownCap, JoinAndReturn, RemainderDeliver, RemainderReturn,
        ConsumerRecv, ConsumerHangsUp, Returned, vars, wVars, sVars, dVars, capVars
  <2>2. ~AcquireSlot
    BY <2>1 DEF AcquireSlot
  <2> QED BY <2>1, <2>2, SlottedElems, SlottedNext
<1> QED BY <1>2, <1>3, <1>4, <1>5, <1>6, <1>7 DEF Next, Dispatch, Serializer

\* A batch that leaves for the sink is nowhere else.
LEMMA SlottedSend ==
    ASSUME TypeInvariant, BatchFlow, SerializerSend
    PROVE  \E n \in Slotted : Slotted' \subseteq Slotted \ {n}
<1>1. /\ next \in Nat /\ Flushed \in Nat /\ NextWork \in Nat
      /\ wHold \in [Workers -> Msg] /\ result \in Seq(Msg) /\ pending \in SUBSET Msg
      /\ \A i \in DOMAIN work : work[i].first \in Nat
  BY FlowTypes
<1>2. sPc = "recv" /\ UNCHANGED <<work, result, wPc, wHold, dPc, cur>>
  BY Zenon DEF SerializerSend, wVars, dVars
<1>3. WorkersFlow /\ WorkFlow /\ PoolFlow
  BY <1>2 DEF BatchFlow
<1>4. PICK m \in pending : Ready(m) /\ pending' = pending \ {m}
  BY Zenon DEF SerializerSend
<1>5. m.first = next /\ pending' = Gone(pending, m)
  BY <1>4 DEF Ready, Gone
<1>6. /\ m.next \in Nat /\ next < m.next /\ m.next <= NextWork
      /\ PoolBetween(wHold, result, Gone(pending, m), m.next, NextWork)
  <2>1. next \in Int /\ NextWork \in Int /\ Bounded(Msg)
    BY <1>1, MsgTypes
  <2>2. m \in pending /\ m.first = next
    BY <1>5
  <2>3. PoolApart(wHold, result, pending) /\ PoolBetween(wHold, result, pending, next, NextWork)
    BY <1>3 DEF PoolFlow
  <2> QED BY <1>1, <2>1, <2>2, <2>3, BatchRemove, ZenonT(30)
<1>7. m.first \in Slotted
  BY SlottedElems, Zenon
<1>8. \A i \in DOMAIN work : work[i].first # m.first
  <2>1. \A i \in DOMAIN work : NextWork <= work[i].first
    BY <1>3 DEF WorkFlow, Between
  <2> QED BY <1>1, <1>5, <1>6, <2>1
<1>9. ASSUME NEW x, x \in Msg, Between(x, m.next, NextWork) PROVE x.first # m.first
  <2>1. x.first \in Nat /\ m.next <= x.first
    BY <1>9, MsgTypes DEF Between, Bounded
  <2> QED BY <1>1, <1>5, <1>6, <2>1
<1>10. \A w \in Workers : wPc[w] = "send" => wHold[w].first # m.first
  <2>1. \A w \in Workers : wPc[w] = "send" => Between(wHold[w], m.next, NextWork) /\ wHold[w] \in Msg
    BY <1>1, <1>3, <1>6 DEF PoolBetween, WorkersFlow
  <2> QED BY <1>9, <2>1
<1>11. \A i \in DOMAIN result : result[i].first # m.first
  <2>1. \A i \in DOMAIN result : Between(result[i], m.next, NextWork) /\ result[i] \in Msg
    BY <1>1, <1>6 DEF PoolBetween
  <2> QED BY <1>9, <2>1
<1>12. \A x \in pending' : x \in pending /\ x.first # m.first
  <2>1. \A x \in pending' : Between(x, m.next, NextWork) /\ x \in Msg /\ x \in pending
    BY <1>1, <1>4, <1>5, <1>6 DEF PoolBetween
  <2> QED BY <1>9, <2>1
<1>13. dPc = "send" => cur.first # m.first
  <2>1. dPc = "send" => cur.first = Flushed
    BY DEF Flushed
  <2>2. NextWork <= Flushed
    BY <1>3 DEF WorkFlow
  <2> QED BY <1>1, <1>5, <1>6, <2>1, <2>2
<1>14. \A n \in Slotted' : n \in Slotted /\ n # m.first
  BY <1>2, <1>8, <1>10, <1>11, <1>12, <1>13, SlottedElems, SlottedNext
<1> QED BY <1>7, <1>14

LEMMA SlotsStep ==
    ASSUME TypeInvariant, BatchFlow, Slots, [Next]_vars
    PROVE  Slots'
<1> SUFFICES ASSUME CapEnabled PROVE Cardinality(Slotted') <= inFlight' /\ inFlight' <= InflightMax
  BY DEF Slots, Slotted, Held
<1>1. /\ IsFiniteSet(Slotted) /\ Cardinality(Slotted) \in Nat /\ Cardinality(Slotted) <= inFlight
      /\ inFlight <= InflightMax /\ inFlight \in Nat /\ InflightMax \in Nat
  BY SlottedFinite, BgzfAssumption DEF Slots, TypeInvariant, DispatchType
<1>2. \A S : IsFiniteSet(S) /\ Slotted' \subseteq S => Cardinality(Slotted') \in Nat /\ Cardinality(Slotted') <= Cardinality(S)
  BY FS_Subset, FS_CardinalityType
<1> HIDE DEF Slotted
<1>3. CASE SerializerSend
  <2>1. PICK n \in Slotted : Slotted' \subseteq Slotted \ {n}
    BY <1>3, SlottedSend
  <2>2. IsFiniteSet(Slotted \ {n}) /\ Cardinality(Slotted \ {n}) = Cardinality(Slotted) - 1
    BY <1>1, <2>1, FS_RemoveElement
  <2>3. Cardinality(Slotted') \in Nat /\ Cardinality(Slotted') <= Cardinality(Slotted) - 1
    BY <1>2, <2>1, <2>2
  <2>4. inFlight' = IF inFlight > 0 THEN inFlight - 1 ELSE inFlight
    BY <1>3 DEF SerializerSend
  <2> QED BY <1>1, <2>3, <2>4
<1>4. CASE ~SerializerSend /\ ~AcquireSlot
  <2>1. Slotted' \subseteq Slotted /\ inFlight' = inFlight
    BY <1>4, SlottedStep
  <2>2. Cardinality(Slotted') \in Nat /\ Cardinality(Slotted') <= Cardinality(Slotted)
    BY <1>1, <1>2, <2>1
  <2> QED BY <1>1, <2>1, <2>2
<1>5. CASE ~SerializerSend /\ AcquireSlot
  <2>1. Slotted' \subseteq Slotted \cup {cur.first}
    BY <1>5, SlottedStep
  <2>2. IsFiniteSet(Slotted \cup {cur.first}) /\ Cardinality(Slotted \cup {cur.first}) <= Cardinality(Slotted) + 1
    <3>1. /\ IsFiniteSet(Slotted \cup {cur.first})
          /\ Cardinality(Slotted \cup {cur.first}) = IF cur.first \in Slotted THEN Cardinality(Slotted) ELSE Cardinality(Slotted) + 1
      BY <1>1, FS_AddElement
    <3> QED BY <1>1, <3>1
  <2>3. Cardinality(Slotted') \in Nat /\ Cardinality(Slotted') <= Cardinality(Slotted \cup {cur.first})
    BY <1>2, <2>1, <2>2
  <2>4. Cardinality(Slotted \cup {cur.first}) \in Nat
    BY <2>2, FS_CardinalityType
  <2>5. inFlight < InflightMax /\ inFlight' = inFlight + 1
    BY <1>5, Zenon DEF AcquireSlot
  <2> QED BY <1>1, <2>2, <2>3, <2>4, <2>5
<1> QED BY <1>3, <1>4, <1>5

\* The in-flight cap works on the BGZF path: the batches held in the channels,
\* by the workers and by the serializer never exceed the slots taken, and
\* these never exceed the cap, for every cap and every number of workers.
THEOREM BgzfInflightCorrect == Spec => []BgzfInflightBounded
<1>1. Init => Slots
  <2> SUFFICES ASSUME Init, CapEnabled PROVE Cardinality(Slotted) <= inFlight /\ inFlight <= InflightMax
    BY DEF Slots
  <2>1. /\ work = <<>> /\ result = <<>> /\ pending = {} /\ dPc = "walk" /\ inFlight = 0
        /\ wPc = [w \in Workers |-> "recv"]
    BY Zenon DEF Init
  <2>2. Slotted = {}
    BY <2>1, SlottedElems
  <2> QED BY <2>1, <2>2, FS_EmptySet, BgzfAssumption
<1>2. TypeInvariant /\ BatchFlow /\ Slots /\ [Next]_vars => Slots'
  BY SlotsStep
<1>3. TypeInvariant /\ Slots => BgzfInflightBounded
  <2> SUFFICES ASSUME TypeInvariant, Slots, CapEnabled PROVE Cardinality(Held) <= inFlight /\ inFlight <= InflightMax
    BY DEF BgzfInflightBounded
  <2>1. Held \subseteq Slotted
    BY DEF Slotted
  <2>2. IsFiniteSet(Slotted) /\ Cardinality(Slotted) \in Nat /\ Cardinality(Slotted) <= inFlight /\ inFlight <= InflightMax
    BY SlottedFinite DEF Slots
  <2>3. IsFiniteSet(Held) /\ Cardinality(Held) <= Cardinality(Slotted)
    BY <2>1, <2>2, FS_Subset
  <2>4. Cardinality(Held) \in Nat /\ inFlight \in Nat
    BY <2>3, FS_CardinalityType DEF TypeInvariant, DispatchType
  <2> QED BY <2>2, <2>3, <2>4
<1> QED BY <1>1, <1>2, <1>3, BatchesCorrect, PTL DEF Spec

-----------------------------------------------------------------------------
(* The output and what is returned. *)

\* Nothing changes the file.
LEMMA FileFixed == [Next]_vars => UNCHANGED <<fault, prefix, after>>
BY Zenon DEF Next, Dispatch, Walk, AcquireSlot, AcquireShutdown, DispatchSend, Worker, WorkerRecv,
    WorkerSend, WorkerExit, Serializer, SerializerRecv, SerializerEnd, SerializerSend, ShutdownCap,
    JoinAndReturn, RemainderDeliver, RemainderReturn, ConsumerRecv, ConsumerHangsUp, Returned, vars, fileVars

\* The serializer ends without an error only after every BGZF member is out:
\* a batch that is missing would be waiting, and the next one would be ready.
LEMMA EndComplete ==
    ASSUME TypeInvariant, BatchFlow, SerializerEnd
    PROVE  next = prefix /\ pos = prefix
<1>1. /\ prefix \in Nat /\ pos \in Nat /\ next \in Nat
      /\ wHold \in [Workers -> Msg] /\ result \in Seq(Msg) /\ pending \in SUBSET Msg
  BY FlowTypes
<1>2. /\ sPc = "recv" /\ result = <<>> /\ \A w \in Workers : wPc[w] = "exited"
      /\ ~\E m \in pending : Ready(m)
  BY Zenon DEF SerializerEnd
<1>3. DispatchFlow /\ WorkersFlow /\ PoolFlow /\ Covered
  BY <1>2 DEF BatchFlow
<1>4. work = <<>> /\ dPc = "exited"
  BY <1>2, <1>3, BgzfAssumption DEF WorkersFlow
<1>5. pos = prefix /\ Flushed = prefix /\ NextWork = prefix
  BY <1>3, <1>4 DEF DispatchFlow, Flushed, NextWork
<1>6. ASSUME next < prefix PROVE FALSE
  <2>1. PoolHas(wHold, result, pending, next)
    <3>1. next \in next .. Flushed - 1
      BY <1>1, <1>5, <1>6
    <3>2. ~\E i \in DOMAIN work : Has(work[i], next)
      BY <1>4
    <3> QED BY <1>3, <3>1, <3>2 DEF Covered
  <2>2. \A w \in DOMAIN wHold : ~Has(wHold[w], next)
    <3>1. \A w \in DOMAIN wHold : wHold[w] = NoMsg
      BY <1>1, <1>2, <1>3 DEF WorkersFlow
    <3>2. ~Has(NoMsg, next)
      BY <1>1 DEF Has, NoMsg
    <3> QED BY <3>1, <3>2
  <2>3. \A i \in DOMAIN result : FALSE
    BY <1>2
  <2>4. PICK x \in pending : Has(x, next)
    BY <2>1, <2>2, <2>3 DEF PoolHas
  <2>5. x.first \in Nat /\ next <= x.first /\ x.first <= next
    BY <1>1, <1>3, <2>4, MsgTypes DEF PoolFlow, PoolBetween, Between, Has, Bounded
  <2>6. x.first = next
    BY <1>1, <2>5
  <2> QED BY <1>2, <2>4, <2>6 DEF Ready
<1>7. next <= prefix
  BY <1>3, <1>5 DEF PoolFlow
<1> QED BY <1>1, <1>5, <1>6, <1>7

\* A batch that is sent extends the healthy output; a closed sink ends the run.
LEMMA SendOutput ==
    ASSUME TypeInvariant, BatchFlow, EndInvariant, SerializerSend
    PROVE  /\ sPc = "recv" /\ UNCHANGED status /\ pending' \subseteq pending
           /\ \/ UNCHANGED <<delivered, next>> /\ sPc' = "shutdown" /\ lastErr' = "closed"
              \/ /\ UNCHANGED <<sPc, lastErr>> /\ next' \in next .. NumBlocks /\ Len(delivered) = next
                 /\ delivered' = Bytes(0, next') /\ \A k \in 0 .. next' - 1 : fault[k] = "none"
<1>1. sPc = "recv" /\ UNCHANGED status
  BY Zenon DEF SerializerSend
<1>2. PICK m \in pending :
          /\ Ready(m) /\ pending' = pending \ {m}
          /\ \/ /\ delivered' = delivered \o Bytes(m.first, m.next) /\ next' = m.next
                /\ UNCHANGED <<sPc, lastErr>>
             \/ lastErr' = "closed" /\ sPc' = "shutdown" /\ UNCHANGED <<delivered, next>>
  BY Zenon DEF SerializerSend
<1>3. /\ next \in Nat /\ NumBlocks \in Nat /\ next \in 0 .. NumBlocks
      /\ m \in Msg /\ m.next \in 0 .. NumBlocks /\ m.first = next
  <2>1. pending \in SUBSET Msg /\ next \in 0 .. NumBlocks
    BY DEF TypeInvariant, SerializerType
  <2> QED BY <1>2, <2>1, MsgTypes, FlowTypes DEF Msg, Ready
<1>4. next < m.next
  <2>1. PoolBetween(wHold, result, pending, next, NextWork)
    BY <1>1 DEF BatchFlow, PoolFlow
  <2> QED BY <1>3, <2>1 DEF PoolBetween, Between
<1>5. delivered = Bytes(0, next)
  BY <1>1 DEF EndInvariant, OutputTrue
<1>6. Len(Bytes(0, next)) = next
  BY <1>3, BytesType
<1>7. \A k \in 0 .. m.next - 1 : fault[k] = "none"
  <2>1. PICK n \in 0 .. NumBlocks : delivered = Bytes(0, n) /\ \A k \in 0 .. n - 1 : fault[k] = "none"
    BY DEF EndInvariant, OutputTrue
  <2>2. n = next
    <3>1. Len(Bytes(0, n)) = n
      BY <1>3, BytesType
    <3> QED BY <1>5, <1>6, <2>1, <3>1
  <2>3. \A k \in m.first .. m.next - 1 : fault[k] = "none"
    BY <1>2 DEF EndInvariant, MessagesTrue, TrueMsg
  <2> QED BY <1>3, <1>4, <2>1, <2>2, <2>3
<1>8. Bytes(0, next) \o Bytes(next, m.next) = Bytes(0, m.next)
  <2>1. 0 <= next /\ next <= m.next /\ m.next \in Nat /\ 0 \in Nat
    BY <1>3, <1>4
  <2> QED BY <1>3, <2>1, BytesConcat, Zenon
<1>9. m.next \in next .. NumBlocks
  BY <1>3, <1>4
<1> QED BY <1>1, <1>2, <1>3, <1>5, <1>6, <1>7, <1>8, <1>9

LEMMA InitEnd == Init => EndInvariant
<1> SUFFICES ASSUME Init PROVE EndInvariant
  OBVIOUS
<1>1. /\ result = <<>> /\ pending = {} /\ next = 0 /\ sPc = "recv" /\ lastErr = "none" /\ delivered = <<>>
      /\ status = "running" /\ wHold = [w \in Workers |-> NoMsg]
  BY Zenon DEF Init
<1>2. Bytes(0, 0) = <<>>
  BY DEF Bytes
<1>3. TrueMsg(NoMsg)
  BY DEF TrueMsg, NoMsg
<1>4. MessagesTrue
  BY <1>1, <1>3 DEF MessagesTrue
<1>5. OutputTrue
  <2>1. 0 \in 0 .. NumBlocks /\ \A k \in 0 .. 0 - 1 : fault[k] = "none"
    BY MsgTypes
  <2> QED BY <1>1, <1>2, <2>1 DEF OutputTrue
<1> QED BY <1>1, <1>4, <1>5 DEF EndInvariant, VerdictTrue

\* Only the workers and the serializer touch a message.
LEMMA MessagesStep ==
    ASSUME TypeInvariant, BatchFlow, EndInvariant, [Next]_vars
    PROVE  MessagesTrue'
<1>1. /\ fault' = fault /\ fault \in InputFaults /\ work \in Seq(Batch) /\ result \in Seq(Msg)
      /\ wHold \in [Workers -> Msg]
  BY FileFixed, FlowTypes DEF TypeInvariant, FileType
<1> SUFFICES /\ \A w \in Workers : TrueMsg(wHold'[w])
             /\ \A i \in DOMAIN result' : TrueMsg(result'[i])
             /\ \A m \in pending' : m.err = "none" /\ TrueMsg(m)
  BY <1>1 DEF MessagesTrue, TrueMsg
<1>3. /\ \A w \in Workers : TrueMsg(wHold[w])
      /\ \A i \in DOMAIN result : TrueMsg(result[i])
      /\ \A m \in pending : m.err = "none" /\ TrueMsg(m)
  BY Zenon DEF EndInvariant, MessagesTrue
<1>4. TrueMsg(NoMsg)
  BY DEF TrueMsg, NoMsg
<1>5. ASSUME NEW w \in Workers, WorkerRecv(w)
      PROVE  UNCHANGED <<result, pending>> /\ \A v \in Workers : TrueMsg(wHold'[v])
  <2>1. /\ UNCHANGED <<result, pending>> /\ work # <<>>
        /\ wHold' = [wHold EXCEPT ![w] = DecodeBatch(Head(work))]
    BY <1>5, Zenon DEF WorkerRecv, sVars
  <2>2. Head(work) \in Batch
    BY <1>1, <2>1, TakeType
  <2>3. TrueMsg(DecodeBatch(Head(work)))
    BY <1>1, <2>2, DecodeBatchTrue
  <2> HIDE DEF TrueMsg
  <2> QED BY <1>1, <1>3, <2>1, <2>3
<1>6. ASSUME NEW w \in Workers, WorkerSend(w)
      PROVE  /\ UNCHANGED pending /\ \A v \in Workers : TrueMsg(wHold'[v])
             /\ \A i \in DOMAIN result' : TrueMsg(result'[i])
  <2>1. UNCHANGED pending /\ wHold' = [wHold EXCEPT ![w] = NoMsg] /\ result' = Append(result, wHold[w])
    BY <1>6, Zenon DEF WorkerSend, sVars
  <2>2. wHold[w] \in Msg
    BY <1>1
  <2>3. \A i \in DOMAIN result' : result'[i] = wHold[w] \/ (i \in DOMAIN result /\ result'[i] = result[i])
    BY <1>1, <2>1, <2>2, PutElems
  <2> QED BY <1>1, <1>3, <1>4, <2>1, <2>3
<1>7. ASSUME SerializerRecv
      PROVE  /\ UNCHANGED wHold /\ \A i \in DOMAIN result' : TrueMsg(result'[i])
             /\ \A m \in pending' : m.err = "none" /\ TrueMsg(m)
  <2>1. /\ UNCHANGED wHold /\ result # <<>> /\ result' = Tail(result)
        /\ (pending' = pending \/ (Head(result).err = "none" /\ pending' = pending \cup {Head(result)}))
    BY <1>7, Zenon DEF SerializerRecv, wVars
  <2>2. 1 \in DOMAIN result /\ Head(result) = result[1] /\ \A i \in DOMAIN result' : i + 1 \in DOMAIN result /\ result'[i] = result[i + 1]
    BY <1>1, <2>1, TakeDomain
  <2> QED BY <1>3, <2>1, <2>2
<1>8. ASSUME SerializerSend PROVE UNCHANGED <<result, wHold>> /\ pending' \subseteq pending
  <2>1. UNCHANGED <<result, wHold>>
    BY <1>8, Zenon DEF SerializerSend, wVars
  <2>2. pending' \subseteq pending
    BY <1>8, SendOutput
  <2> QED BY <2>1, <2>2
<1>9. CASE \/ Dispatch \/ (\E w \in Workers : WorkerExit(w))
           \/ SerializerEnd \/ ShutdownCap \/ JoinAndReturn \/ RemainderDeliver \/ RemainderReturn
           \/ ConsumerRecv \/ ConsumerHangsUp \/ Returned \/ UNCHANGED vars
  <2>1. UNCHANGED <<result, wHold, pending>>
    BY <1>9, Zenon DEF Dispatch, Walk, AcquireSlot, AcquireShutdown, DispatchSend, WorkerExit,
        SerializerEnd, ShutdownCap, JoinAndReturn, RemainderDeliver, RemainderReturn,
        ConsumerRecv, ConsumerHangsUp, Returned, vars, wVars, sVars
  <2> QED BY <1>3, <2>1
<1> QED BY <1>3, <1>5, <1>6, <1>7, <1>8, <1>9 DEF Next, Worker, Serializer

\* The output grows by the serializer's sends and by the remainder, and stays true.
LEMMA OutputStep ==
    ASSUME TypeInvariant, BatchFlow, EndInvariant, [Next]_vars
    PROVE  OutputTrue'
<1>1. /\ fault' = fault /\ NumBlocks \in Nat /\ next \in 0 .. NumBlocks
      /\ sPc \in {"recv", "shutdown", "join", "remainder", "returned"}
  BY FileFixed, MsgTypes DEF TypeInvariant, SerializerType
<1>2. /\ \E n \in 0 .. NumBlocks : delivered = Bytes(0, n) /\ \A k \in 0 .. n - 1 : fault[k] = "none"
      /\ sPc \in {"recv", "shutdown", "join"} => delivered = Bytes(0, next)
  BY DEF EndInvariant, OutputTrue
<1> SUFFICES /\ \E n \in 0 .. NumBlocks : delivered' = Bytes(0, n) /\ \A k \in 0 .. n - 1 : fault[k] = "none"
             /\ sPc' \in {"recv", "shutdown", "join"} => delivered' = Bytes(0, next')
  BY <1>1 DEF OutputTrue, Bytes
<1>4. CASE SerializerSend
  <2>1. CASE UNCHANGED <<delivered, next>> /\ sPc = "recv"
    BY <1>2, <2>1
  <2>2. CASE /\ next' \in next .. NumBlocks /\ delivered' = Bytes(0, next')
             /\ \A k \in 0 .. next' - 1 : fault[k] = "none"
    <3>1. next' \in 0 .. NumBlocks
      BY <1>1, <2>2
    <3> QED BY <2>2, <3>1
  <2> QED BY <1>4, <2>1, <2>2, SendOutput
<1>5. CASE RemainderDeliver
  <2>1. sPc = "remainder" /\ UNCHANGED sPc
    BY <1>5, Zenon DEF RemainderDeliver, sVars
  <2>2. PICK n \in Len(delivered) + 1 .. NumBlocks :
            delivered' = Bytes(0, n) /\ \A k \in 0 .. n - 1 : fault[k] = "none"
    BY <1>5, Zenon DEF RemainderDeliver
  <2>3. n \in 0 .. NumBlocks
    <3>1. PICK l \in 0 .. NumBlocks : delivered = Bytes(0, l)
      BY <1>2
    <3>2. Len(delivered) = l
      BY <1>1, <3>1, BytesType
    <3> QED BY <1>1, <2>2, <3>2
  <2> QED BY <2>1, <2>2, <2>3
<1>6. CASE ~SerializerSend /\ ~RemainderDeliver
  <2>1. UNCHANGED <<delivered, next>>
    BY <1>6, Zenon DEF Next, Dispatch, Walk, AcquireSlot, AcquireShutdown, DispatchSend, Worker, WorkerRecv,
        WorkerSend, WorkerExit, Serializer, SerializerRecv, SerializerEnd, ShutdownCap, JoinAndReturn,
        RemainderReturn, ConsumerRecv, ConsumerHangsUp, Returned, vars, sVars, sinkVars
  <2>2. sPc' \in {"recv", "shutdown", "join"} => sPc \in {"recv", "shutdown", "join"}
    <3>1. CASE JoinAndReturn \/ RemainderReturn
      BY <3>1 DEF JoinAndReturn, RemainderReturn
    <3>2. CASE SerializerRecv \/ SerializerEnd \/ ShutdownCap
      BY <3>2 DEF SerializerRecv, SerializerEnd, ShutdownCap
    <3>3. CASE UNCHANGED sPc
      BY <3>3
    <3>4. JoinAndReturn \/ RemainderReturn \/ SerializerRecv \/ SerializerEnd \/ ShutdownCap \/ UNCHANGED sPc
      BY <1>6, Zenon DEF Next, Dispatch, Walk, AcquireSlot, AcquireShutdown, DispatchSend, Worker, WorkerRecv,
          WorkerSend, WorkerExit, Serializer, ConsumerRecv, ConsumerHangsUp, Returned, vars, sVars
    <3> QED BY <3>1, <3>2, <3>3, <3>4
  <2> QED BY <1>2, <2>1, <2>2
<1> QED BY <1>4, <1>5, <1>6

LEMMA VerdictStep ==
    ASSUME TypeInvariant, BatchFlow, EndInvariant, [Next]_vars
    PROVE  VerdictTrue'
<1>1. /\ UNCHANGED <<fault, prefix, after>> /\ pos \in 0 .. prefix /\ prefix \in Nat
      /\ sPc \in {"recv", "shutdown", "join", "remainder", "returned"} /\ result \in Seq(Msg)
  BY FileFixed, FlowTypes DEF TypeInvariant, SerializerType, DispatchType
<1>2. /\ sPc = "recv" => lastErr = "none"
      /\ (sPc \in {"shutdown", "join"} /\ lastErr = "none") => next = prefix /\ pos = prefix
      /\ lastErr \in {"none", "closed"} \/ \E k \in Blocks : fault[k] = lastErr
      /\ sPc # "returned" => status = "running"
  BY Zenon DEF EndInvariant, VerdictTrue
<1> SUFFICES /\ sPc' = "recv" => lastErr' = "none"
             /\ (sPc' \in {"shutdown", "join"} /\ lastErr' = "none") => next' = prefix /\ pos' = prefix
             /\ lastErr' \in {"none", "closed"} \/ \E k \in Blocks : fault[k] = lastErr'
             /\ sPc' # "returned" => status' = "running"
  BY <1>1 DEF VerdictTrue
<1>3. CASE Dispatch
  <2>1. UNCHANGED <<sPc, lastErr, next, status>>
    BY <1>3, Zenon DEF Dispatch, Walk, AcquireSlot, AcquireShutdown, DispatchSend, sVars
  <2>2. pos = prefix => pos' = prefix
    BY <1>3, <1>1 DEF Dispatch, Walk, AcquireSlot, AcquireShutdown, DispatchSend
  <2> QED BY <1>2, <2>1, <2>2
<1>4. CASE SerializerRecv
  <2>1. /\ sPc = "recv" /\ result # <<>> /\ UNCHANGED status
        /\ \/ UNCHANGED <<sPc, lastErr>>
           \/ lastErr' = Head(result).err /\ sPc' = "shutdown" /\ Head(result).err # "none"
    BY <1>4, Zenon DEF SerializerRecv
  <2>2. Head(result).err # "none" => \E k \in Blocks : fault[k] = Head(result).err
    <3>1. 1 \in DOMAIN result /\ Head(result) = result[1]
      BY <1>1, <2>1, TakeDomain
    <3> QED BY <3>1 DEF EndInvariant, MessagesTrue, TrueMsg
  <2>3. CASE UNCHANGED <<sPc, lastErr>>
    BY <1>2, <2>1, <2>3
  <2>4. CASE lastErr' = Head(result).err /\ sPc' = "shutdown" /\ Head(result).err # "none"
    BY <1>2, <2>1, <2>2, <2>4
  <2> QED BY <2>1, <2>3, <2>4
<1>5. CASE SerializerEnd
  <2>1. sPc = "recv" /\ sPc' = "shutdown" /\ UNCHANGED <<next, lastErr, status, pos>>
    BY <1>5, Zenon DEF SerializerEnd, dVars
  <2>2. next = prefix /\ pos = prefix
    BY <1>5, EndComplete
  <2> QED BY <1>2, <2>1, <2>2
<1>6. CASE SerializerSend
  <2>1. /\ sPc = "recv" /\ UNCHANGED status
        /\ ((sPc' = "shutdown" /\ lastErr' = "closed") \/ UNCHANGED <<sPc, lastErr>>)
    BY <1>6, SendOutput, Zenon
  <2> QED BY <1>2, <2>1
<1>7. CASE ShutdownCap
  <2>1. sPc = "shutdown" /\ sPc' = "join" /\ UNCHANGED <<next, lastErr, status, pos>>
    BY <1>7, Zenon DEF ShutdownCap, dVars
  <2> QED BY <1>2, <2>1
<1>8. CASE JoinAndReturn
  <2>1. sPc = "join" /\ UNCHANGED lastErr /\ (sPc' = "returned" \/ (sPc' = "remainder" /\ UNCHANGED status))
    BY <1>8, Zenon DEF JoinAndReturn
  <2> QED BY <1>2, <2>1
<1>9. CASE RemainderReturn
  <2>1. sPc' = "returned" /\ UNCHANGED lastErr
    BY <1>9, Zenon DEF RemainderReturn
  <2> QED BY <1>2, <2>1
<1>10. CASE \/ \E w \in Workers : Worker(w)
            \/ RemainderDeliver \/ ConsumerRecv \/ ConsumerHangsUp \/ Returned \/ UNCHANGED vars
  <2>1. UNCHANGED <<sPc, lastErr, next, status, pos>>
    BY <1>10, Zenon DEF Worker, WorkerRecv, WorkerSend, WorkerExit, RemainderDeliver, ConsumerRecv,
        ConsumerHangsUp, Returned, vars, sVars, dVars
  <2> QED BY <1>2, <2>1
<1> QED BY <1>3, <1>4, <1>5, <1>6, <1>7, <1>8, <1>9, <1>10 DEF Next, Serializer

\* What the serializer sends is the decoded file up to the member it is at;
\* every message in the pipeline is true of its batch; and the run ends without
\* an error only after the last BGZF member was sent.
THEOREM BgzfOutputCorrect == Spec => []EndInvariant
<1>1. TypeInvariant /\ BatchFlow /\ EndInvariant /\ [Next]_vars => EndInvariant'
  BY MessagesStep, OutputStep, VerdictStep DEF EndInvariant
<1> QED BY <1>1, InitEnd, BatchesCorrect, PTL DEF Spec

-----------------------------------------------------------------------------
(* The promise. *)

LEMMA BgzfDeliver ==
    ASSUME TypeInvariant, BatchFlow, EndInvariant, SerializerSend \/ RemainderDeliver
    PROVE  Promise!Deliver \/ UNCHANGED <<fault, delivered, status>>
<1>1. \A n : Bytes(0, n) = Promise!Bytes(0, n)
  BY DEF Bytes, Promise!Bytes
<1>2. CASE SerializerSend
  <2>1. UNCHANGED <<fault, status>> /\ status = "running"
    BY <1>2, Zenon DEF SerializerSend, fileVars, EndInvariant, VerdictTrue
  <2>2. CASE UNCHANGED delivered
    BY <2>1, <2>2
  <2>3. CASE /\ next' \in next .. NumBlocks /\ Len(delivered) = next /\ delivered' = Bytes(0, next')
             /\ \A k \in 0 .. next' - 1 : fault[k] = "none"
    <3>1. next' \in Len(delivered) .. NumBlocks
      BY <2>3
    <3> QED BY <1>1, <2>1, <2>3, <3>1, Zenon DEF Promise!Deliver
  <2> QED BY <1>2, <2>2, <2>3, SendOutput
<1>3. CASE RemainderDeliver
  <2>1. UNCHANGED <<fault, status>> /\ status = "running"
    <3>1. sPc = "remainder" /\ UNCHANGED <<fault, status>>
      BY <1>3, Zenon DEF RemainderDeliver, fileVars
    <3>2. sPc # "returned" => status = "running"
      BY Zenon DEF EndInvariant, VerdictTrue
    <3> QED BY <3>1, <3>2
  <2>2. PICK n \in Len(delivered) + 1 .. NumBlocks :
            (\A k \in 0 .. n - 1 : fault[k] = "none") /\ delivered' = Bytes(0, n)
    BY <1>3, Zenon DEF RemainderDeliver
  <2>3. n \in Len(delivered) .. NumBlocks
    <3>1. PICK l \in 0 .. NumBlocks : delivered = Bytes(0, l)
      BY DEF EndInvariant, OutputTrue
    <3>2. Len(delivered) = l /\ NumBlocks \in Nat
      BY <3>1, BytesType, MsgTypes
    <3> QED BY <2>2, <3>2
  <2> QED BY <1>1, <2>1, <2>2, <2>3, Zenon DEF Promise!Deliver
<1> QED BY <1>2, <1>3

LEMMA BgzfReturn ==
    ASSUME TypeInvariant, EndInvariant, JoinAndReturn \/ RemainderReturn
    PROVE  Promise!Succeed \/ Promise!Fail \/ Promise!HangUp \/ UNCHANGED <<fault, delivered, status>>
<1>1. UNCHANGED <<fault, delivered>>
  BY Zenon DEF JoinAndReturn, RemainderReturn, fileVars, sinkVars
<1>2. status = "running"
  <2>1. sPc # "returned"
    BY DEF JoinAndReturn, RemainderReturn
  <2> QED BY <2>1 DEF EndInvariant, VerdictTrue
<1>3. /\ TrueOutput = Promise!TrueOutput /\ Blocks = Promise!Blocks /\ (Healthy <=> Promise!Healthy)
  BY DEF TrueOutput, Promise!TrueOutput, Bytes, Promise!Bytes, Blocks, Promise!Blocks, Healthy, Promise!Healthy
<1>4. ASSUME delivered = TrueOutput, Healthy, status' = "ok" PROVE Promise!Succeed
  BY <1>1, <1>2, <1>3, <1>4, Zenon DEF Promise!Succeed
<1>5. ASSUME NEW k \in Blocks, fault[k] # "none", status' = fault[k] PROVE Promise!Fail
  BY <1>1, <1>2, <1>3, <1>5, Zenon DEF Promise!Fail
<1>6. ASSUME status' = "closed" PROVE Promise!HangUp
  BY <1>1, <1>2, <1>6, Zenon DEF Promise!HangUp
<1>7. /\ NumBlocks \in Nat /\ NumBlocks > 0 /\ prefix \in 0 .. NumBlocks /\ next \in 0 .. NumBlocks
      /\ after \in {"end", "overrun", "remainder"} /\ (after = "end" => prefix = NumBlocks)
      /\ (after = "overrun" => fault[NumBlocks - 1] = "decode")
  BY MsgTypes DEF TypeInvariant, FileType, SerializerType
<1>8. CASE JoinAndReturn
  <2> DEFINE err == IF lastErr # "none" THEN lastErr ELSE IF WalkErr THEN "decode" ELSE "none"
  <2>1. /\ sPc = "join"
        /\ (UNCHANGED status \/ (status' = (IF err = "none" THEN "ok" ELSE err) /\ ~(err = "none" /\ after = "remainder")))
    BY <1>8, Zenon DEF JoinAndReturn
  <2>2. /\ (lastErr = "none" => next = prefix /\ pos = prefix)
        /\ (lastErr \in {"none", "closed"} \/ \E k \in Blocks : fault[k] = lastErr)
    BY <2>1 DEF EndInvariant, VerdictTrue
  <2>3. CASE lastErr # "none" /\ status' = lastErr
    BY <1>5, <1>6, <2>2, <2>3
  <2>4. CASE lastErr = "none" /\ WalkErr /\ status' = "decode"
    <3>1. NumBlocks - 1 \in Blocks
      BY <1>7 DEF Blocks
    <3>2. fault[NumBlocks - 1] = "decode"
      BY <1>7, <2>4 DEF WalkErr
    <3> QED BY <1>5, <2>4, <3>1, <3>2
  <2>5. CASE lastErr = "none" /\ ~WalkErr /\ status' = "ok" /\ after # "remainder"
    <3>1. next = NumBlocks
      BY <1>7, <2>2, <2>5 DEF WalkErr
    <3>2. delivered = Bytes(0, NumBlocks)
      BY <2>1, <3>1 DEF EndInvariant, OutputTrue
    <3>3. PICK n \in 0 .. NumBlocks : delivered = Bytes(0, n) /\ \A k \in 0 .. n - 1 : fault[k] = "none"
      BY DEF EndInvariant, OutputTrue
    <3>4. n = NumBlocks
      <4>1. Len(Bytes(0, n)) = n /\ Len(Bytes(0, NumBlocks)) = NumBlocks
        BY <1>7, BytesType
      <4> QED BY <3>2, <3>3, <4>1
    <3> QED BY <1>4, <2>5, <3>2, <3>3, <3>4 DEF TrueOutput, Healthy, Blocks
  <2>6. CASE UNCHANGED status
    BY <1>1, <2>6
  <2>7. \/ lastErr # "none" /\ status' = lastErr
        \/ lastErr = "none" /\ WalkErr /\ status' = "decode"
        \/ lastErr = "none" /\ ~WalkErr /\ status' = "ok" /\ after # "remainder"
        \/ UNCHANGED status
    BY <2>1
  <2> QED BY <2>3, <2>4, <2>5, <2>6, <2>7
<1>9. CASE RemainderReturn
  <2>1. \/ delivered = TrueOutput /\ Healthy /\ status' = "ok"
        \/ \E k \in prefix .. NumBlocks - 1 : fault[k] # "none" /\ status' = fault[k]
        \/ status' = "closed"
    BY <1>9, Zenon DEF RemainderReturn
  <2>2. prefix .. NumBlocks - 1 \subseteq Blocks
    BY <1>7 DEF Blocks
  <2> QED BY <1>4, <1>5, <1>6, <2>1, <2>2
<1> QED BY <1>8, <1>9

\* parallel_decode_bgzf keeps the promise of OrderedDecode: the batches reach
\* the sink in order whatever the workers' order, nothing damaged is delivered,
\* Ok means that all of the file was, and an error names damage of the file.
THEOREM BgzfPromiseKept == Spec => BgzfKeepsPromise
<1>1. Init => Promise!Init
  BY Zenon DEF Init, Promise!Init
<1>2. TypeInvariant /\ BatchFlow /\ EndInvariant /\ [Next]_vars => [Promise!Next]_(Promise!promiseVars)
  <2> SUFFICES ASSUME TypeInvariant, BatchFlow, EndInvariant, [Next]_vars
               PROVE  Promise!Next \/ UNCHANGED <<fault, delivered, status>>
    BY Zenon DEF Promise!promiseVars
  <2>1. CASE SerializerSend \/ RemainderDeliver
    BY <2>1, BgzfDeliver, Zenon DEF Promise!Next
  <2>2. CASE JoinAndReturn \/ RemainderReturn
    BY <2>2, BgzfReturn, Zenon DEF Promise!Next
  <2>3. CASE ~(SerializerSend \/ RemainderDeliver) /\ ~(JoinAndReturn \/ RemainderReturn)
    BY <2>3, Zenon DEF Next, Dispatch, Walk, AcquireSlot, AcquireShutdown, DispatchSend, Worker, WorkerRecv,
        WorkerSend, WorkerExit, Serializer, SerializerRecv, SerializerEnd, ShutdownCap,
        ConsumerRecv, ConsumerHangsUp, Returned, vars, fileVars, sinkVars
  <2> QED BY <2>1, <2>2, <2>3
<1> QED BY <1>1, <1>2, BatchesCorrect, BgzfOutputCorrect, PTL DEF Spec, BgzfKeepsPromise, Promise!Spec
=============================================================================
