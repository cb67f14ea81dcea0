-------------------------- MODULE AmxBuffer_proofs --------------------------
(***************************************************************************)
(* Proofs about AmxBuffer: type correctness and agreement of the replicas  *)
(* of a read-only NUMA mirror buffer, for every value of the constants.    *)
(***************************************************************************)
EXTENDS AmxBuffer, TLAPS, SequenceTheorems



\* An injective function from 1..n to Nodes, for n > 0, is a non-empty
\* sequence of Nodes of length n.
LEMMA InjSeqShape ==
  ASSUME NEW n \in Nat \ {0}, NEW ns \in [1..n -> Nodes]
  PROVE  /\ ns \in Seq(Nodes)
         /\ Len(ns) = n
<1>1. ns \in Seq(Nodes)
  BY SeqDef
<1>2. DOMAIN ns = 1..Len(ns) /\ Len(ns) \in Nat
  BY <1>1, LenProperties
<1> QED
  BY <1>1, <1>2

\* Every active_nodes list the mirror allocator can hand out is a non-empty
\* sequence of distinct nodes.
LEMMA ActiveSeqShape ==
  ASSUME NEW ns \in ActiveNodeSeqs
  PROVE  /\ ns \in Seq(Nodes)
         /\ Len(ns) >= 1
         /\ \A j, k \in 1..Len(ns) : j # k => ns[j] # ns[k]
<1>2. PICK n \in 1..Cardinality(Nodes) :
        /\ ns \in [1..n -> Nodes]
        /\ \A i, j \in 1..n : i # j => ns[i] # ns[j]
  BY DEF ActiveNodeSeqs
<1>3. n \in Nat \ {0}
  BY <1>2
<1>4. ns \in Seq(Nodes) /\ Len(ns) = n
  BY <1>2, <1>3, InjSeqShape
<1> QED
  BY <1>2, <1>3, <1>4

\* The initial state satisfies the inductive invariant.
LEMMA InitIInv == Init => IInv
<1> SUFFICES ASSUME Init PROVE IInv
  OBVIOUS
<1>1. TypeOK
  <2>1. <<>> \in Seq(Nodes)
    BY EmptySeq
  <2>2. buf \in [Buffers -> BufRec]
    BY <2>1 DEF Init, BufRec
  <2>3. Empty \in Content
    BY DEF Empty, Content, Vals
  <2>4. mem \in [Tensors -> [Locs -> Content]] /\ last \in [Tensors -> Content]
    BY <2>3 DEF Init
  <2>5. ran \in [Ops -> {NULL} \cup RunRec] /\ extra \in [Tensors -> {NULL, "amx"}]
    BY DEF Init
  <2> QED
    BY <2>2, <2>4, <2>5, Zenon DEF Init, TypeOK
<1>2. MirrorShape /\ UnallocatedEmpty /\ PendingInv
  BY DEF Init, MirrorShape, UnallocatedEmpty, PendingInv
<1>3. ReplicasAgree
  BY ConstAssumption DEF Init, ReplicasAgree, IsReplicated
<1> QED
  BY <1>1, <1>2, <1>3 DEF IInv

-----------------------------------------------------------------------------
(* The conjuncts of IInv as operators of the state they read.  A step that  *)
(* leaves an argument unchanged then preserves the conjunct by congruence,  *)
(* without unfolding it.                                                    *)

ReplicatedRec(r) == r.kind = "mirror" /\ Len(r.nodes) > 1 /\ r.readOnly

ReplicatedIn(bf, x) == ReplicatedRec(bf[x])

MirrorShapeIn(bf) ==
  \A x \in Buffers :
    /\ bf[x].iface.set = "amx"
    /\ bf[x].kind = "mirror" =>
         /\ Len(bf[x].nodes) >= 1
         /\ \A j, k \in 1..Len(bf[x].nodes) : j # k => bf[x].nodes[j] # bf[x].nodes[k]

UnallocatedEmptyIn(bf, pl, m) ==
  \A t \in Tensors :
    bf[TBuf[t]].kind = "none" => ~pl[t] /\ m[t] = [l \in Locs |-> Empty]

\* The loop facts for loop state p over buffer record r and the tensor's
\* locations mt.
LoopOK(p, r, mt) ==
  /\ ReplicatedRec(r)
  /\ \A k \in 1..(p.i - 1) : mt[r.nodes[k]] = p.c
  /\ \A j, k \in p.i..Len(r.nodes) : mt[r.nodes[j]] = mt[r.nodes[k]]

PendingInvIn(p, bf, m) == p # NULL => LoopOK(p, bf[TBuf[p.t]], m[p.t])

\* All active replicas of buffer record r agree in the tensor's locations mt.
AgreeOK(r, mt) ==
  \A a, c \in {r.nodes[k] : k \in 1..Len(r.nodes)} : mt[a] = mt[c]

ReplicasAgreeIn(bf, m, p) ==
  \A t \in Tensors :
    (ReplicatedIn(bf, TBuf[t]) /\ (p = NULL \/ p.t # t)) => AgreeOK(bf[TBuf[t]], m[t])

\* The conjuncts of IInv, in the current and in the next state, are these
\* operators applied to that state.
LEMMA StateViews ==
  /\ MirrorShape = MirrorShapeIn(buf)
  /\ UnallocatedEmpty = UnallocatedEmptyIn(buf, placed, mem)
  /\ PendingInv = PendingInvIn(pending, buf, mem)
  /\ ReplicasAgree = ReplicasAgreeIn(buf, mem, pending)
  /\ MirrorShape' = MirrorShapeIn(buf')
  /\ UnallocatedEmpty' = UnallocatedEmptyIn(buf', placed', mem')
  /\ PendingInv' = PendingInvIn(pending', buf', mem')
  /\ ReplicasAgree' = ReplicasAgreeIn(buf', mem', pending')
BY DEF MirrorShape, MirrorShapeIn, UnallocatedEmpty, UnallocatedEmptyIn,
       PendingInv, PendingInvIn, LoopOK, LoopNodes, IsReplicated, ReplicatedIn,
       ReplicatedRec, ReplicasAgree, ReplicasAgreeIn, AgreeOK, ReplicaNodes

-----------------------------------------------------------------------------
(* The inductive step, one lemma per action.                               *)

\* A step that leaves the buffers, the memory and the replication loop alone,
\* and places no tensor of an unallocated buffer, preserves the invariant
\* once it preserves the types.
LEMMA FrameStep ==
  ASSUME IInv, TypeOK',
         UNCHANGED <<buf, mem, pending>>,
         \A t \in Tensors : buf[TBuf[t]].kind = "none" => ~placed'[t]
  PROVE  IInv'
<1>0. buf' = buf /\ mem' = mem /\ pending' = pending
  OBVIOUS
<1>1. UnallocatedEmptyIn(buf, placed', mem)
  <2>1. UnallocatedEmptyIn(buf, placed, mem)
    BY StateViews DEF IInv
  <2> QED
    BY <2>1 DEF UnallocatedEmptyIn
<1> QED
  BY <1>0, <1>1, StateViews DEF IInv

\* tensor->data of a tensor in an allocated buffer is a location of the model.
LEMMA BaseLocType ==
  ASSUME IInv, NEW b \in Buffers
  PROVE  BaseLoc(b) \in Locs
<1>1. buf[b] \in BufRec
  BY DEF IInv, TypeOK
<1>2. buf[b].kind = "mirror" => Len(buf[b].nodes) >= 1
  BY DEF IInv, MirrorShape
<1> QED
  BY <1>1, <1>2, ElementOfSeq DEF BaseLoc, Locs, BufRec

\* The locations a kernel may read are locations of the model.
LEMMA ReadLocsType ==
  ASSUME IInv, NEW t \in Tensors
  PROVE  ReadLocs(t) \subseteq Locs
<1> DEFINE b == TBuf[t]
<1>1. b \in Buffers /\ buf[b] \in BufRec
  BY ConstAssumption DEF IInv, TypeOK
<1>2. buf[b].nodes \in Seq(Nodes)
  BY <1>1 DEF BufRec
<1>3. CASE IsReplicated(b)
  <2>1. \A k \in 1..Len(buf[b].nodes) : buf[b].nodes[k] \in Nodes
    BY <1>2, ElementOfSeq
  <2> QED
    BY <1>3, <2>1 DEF ReadLocs, ReplicaNodes, Locs
<1>4. CASE ~IsReplicated(b)
  <2>1. buf[b].kind = "mirror" => Len(buf[b].nodes) >= 1
    BY <1>1 DEF IInv, MirrorShape
  <2>2. BaseLoc(b) \in Locs
    BY <1>2, <2>1, ElementOfSeq DEF BaseLoc, Locs
  <2> QED
    BY <1>4, <2>2 DEF ReadLocs
<1> QED
  BY <1>3, <1>4

LEMMA InitTensorStep ==
  ASSUME IInv, NEW t \in Tensors, InitTensor(t)
  PROVE  IInv'
<1>1. TypeOK'
  BY DEF IInv, TypeOK, InitTensor
<1>2. \A u \in Tensors : buf[TBuf[u]].kind = "none" => ~placed'[u]
  BY DEF IInv, TypeOK, UnallocatedEmpty, InitTensor
<1> QED
  BY <1>1, <1>2, FrameStep DEF InitTensor

LEMMA ComputeForwardStep ==
  ASSUME IInv, NEW o \in Ops, ComputeForward(o)
  PROVE  IInv'
<1> DEFINE t == OpSpec[o].src0
<1>1. t \in Tensors
  BY ConstAssumption DEF OpRec
<1>2. PICK l \in ReadLocs(t) :
        ran' = [ran EXCEPT ![o] = [by |-> IF AmxHandles(o) THEN "amx" ELSE "default",
                                   saw |-> mem[t][l]]]
  BY Zenon DEF ComputeForward
<1>3. l \in Locs
  BY <1>1, ReadLocsType
<1>4. mem[t][l] \in Content
  BY <1>1, <1>3 DEF IInv, TypeOK
<1>5. ran' \in [Ops -> {NULL} \cup RunRec]
  <2>1. [by |-> IF AmxHandles(o) THEN "amx" ELSE "default", saw |-> mem[t][l]] \in RunRec
    BY <1>4 DEF RunRec
  <2>2. ran \in [Ops -> {NULL} \cup RunRec]
    BY Zenon DEF IInv, TypeOK
  <2> QED
    BY <1>2, <2>1, <2>2
<1>6. TypeOK'
  BY <1>5 DEF IInv, TypeOK, ComputeForward
<1> QED
  BY <1>6, FrameStep DEF ComputeForward, IInv, UnallocatedEmpty

LEMMA PhaseStep ==
  ASSUME IInv, StartCompute \/ Teardown
  PROVE  IInv'
<1>1. TypeOK'
  BY DEF IInv, TypeOK, StartCompute, Teardown
<1> QED
  BY <1>1, FrameStep DEF StartCompute, Teardown, IInv, UnallocatedEmpty

\* A write of plain-buffer tensors (memset_tensor, clear) with no
\* replication loop running preserves the invariant once it preserves the
\* types: no such tensor is replicated or unallocated.
LEMMA PlainWriteStep ==
  ASSUME IInv, TypeOK', pending = NULL,
         UNCHANGED <<buf, pending>>,
         NEW W \in SUBSET Tensors,
         \A t \in W : buf[TBuf[t]].kind = "plain",
         \A t \in Tensors \ W : mem'[t] = mem[t],
         \A t \in Tensors : buf[TBuf[t]].kind = "none" => ~placed'[t]
  PROVE  IInv'
<1>0. buf' = buf /\ pending' = pending
  OBVIOUS
<1>1. UnallocatedEmptyIn(buf, placed', mem')
  <2>1. UnallocatedEmptyIn(buf, placed, mem)
    BY StateViews DEF IInv
  <2> QED
    BY <2>1 DEF UnallocatedEmptyIn
<1>2. PendingInvIn(pending', buf, mem')
  BY <1>0 DEF PendingInvIn
<1>3. ReplicasAgreeIn(buf, mem', pending')
  <2>1. ReplicasAgreeIn(buf, mem, pending)
    BY StateViews DEF IInv
  <2> SUFFICES ASSUME NEW u \in Tensors,
                      ReplicatedIn(buf, TBuf[u])
               PROVE  AgreeOK(buf[TBuf[u]], mem'[u])
    BY <1>0 DEF ReplicasAgreeIn
  <2>2. u \notin W
    BY DEF ReplicatedIn, ReplicatedRec
  <2> QED
    BY <2>1, <2>2, <1>0 DEF ReplicasAgreeIn
<1> QED
  BY <1>0, <1>1, <1>2, <1>3, StateViews DEF IInv

LEMMA MemsetTensorStep ==
  ASSUME IInv, NEW t \in Tensors, MemsetTensor(t)
  PROVE  IInv'
<1>1. Filled \in Content /\ Host \in Locs
  BY DEF Filled, Content, Vals, Locs, Host
<1>2. TypeOK'
  BY <1>1 DEF IInv, TypeOK, MemsetTensor
<1>3. \A u \in Tensors \ {t} : mem'[u] = mem[u]
  BY DEF MemsetTensor
<1>4. \A u \in Tensors : buf[TBuf[u]].kind = "none" => ~placed'[u]
  BY DEF IInv, UnallocatedEmpty, MemsetTensor
<1>5. \A u \in {t} : buf[TBuf[u]].kind = "plain"
  BY DEF MemsetTensor
<1>6. pending = NULL /\ UNCHANGED <<buf, pending>>
  BY DEF MemsetTensor
<1>7. {t} \in SUBSET Tensors
  OBVIOUS
<1> QED
  BY <1>2, <1>3, <1>4, <1>5, <1>6, <1>7, PlainWriteStep, Zenon

LEMMA ClearBufferStep ==
  ASSUME IInv, NEW b \in Buffers, ClearBuffer(b)
  PROVE  IInv'
<1> DEFINE W == {t \in Tensors : TBuf[t] = b}
<1>1. Filled \in Content /\ Host \in Locs
  BY DEF Filled, Content, Vals, Locs, Host
<1>2. TypeOK'
  BY <1>1 DEF IInv, TypeOK, ClearBuffer
<1>3. \A u \in Tensors \ W : mem'[u] = mem[u]
  BY DEF ClearBuffer
<1>4. \A u \in W : buf[TBuf[u]].kind = "plain"
  BY DEF ClearBuffer
<1>5. \A u \in Tensors : buf[TBuf[u]].kind = "none" => ~placed'[u]
  BY DEF IInv, UnallocatedEmpty, ClearBuffer
<1>6. pending = NULL /\ UNCHANGED <<buf, pending>>
  BY DEF ClearBuffer
<1> QED
  BY <1>2, <1>3, <1>4, <1>5, <1>6, PlainWriteStep, Zenon

\* Replacing the buffer table by one with the same active_nodes lists and
\* the same replicated buffers changes neither the loop nor the replica facts.
LEMMA SameReplication ==
  ASSUME NEW bf1, NEW bf2, NEW p \in {NULL} \cup PendingRec, NEW m,
         TBuf \in [Tensors -> Buffers],
         \A x \in Buffers : /\ bf2[x].nodes = bf1[x].nodes
                           /\ ReplicatedRec(bf2[x]) = ReplicatedRec(bf1[x])
  PROVE  /\ PendingInvIn(p, bf2, m) = PendingInvIn(p, bf1, m)
         /\ ReplicasAgreeIn(bf2, m, p) = ReplicasAgreeIn(bf1, m, p)
<1>1. \A x \in Buffers : \A q, mt : LoopOK(q, bf2[x], mt) = LoopOK(q, bf1[x], mt)
  <2> SUFFICES ASSUME NEW x \in Buffers, NEW q, NEW mt
               PROVE  LoopOK(q, bf2[x], mt) = LoopOK(q, bf1[x], mt)
    OBVIOUS
  <2>1. bf2[x].nodes = bf1[x].nodes /\ ReplicatedRec(bf2[x]) = ReplicatedRec(bf1[x])
    OBVIOUS
  <2> QED
    BY <2>1 DEF LoopOK
<1>2. \A x \in Buffers : \A mt : AgreeOK(bf2[x], mt) = AgreeOK(bf1[x], mt)
  <2> SUFFICES ASSUME NEW x \in Buffers, NEW mt
               PROVE  AgreeOK(bf2[x], mt) = AgreeOK(bf1[x], mt)
    OBVIOUS
  <2>1. bf2[x].nodes = bf1[x].nodes
    OBVIOUS
  <2> QED
    BY <2>1 DEF AgreeOK
<1>3. PendingInvIn(p, bf2, m) = PendingInvIn(p, bf1, m)
  <2>1. CASE p = NULL
    BY <2>1 DEF PendingInvIn
  <2>2. CASE p # NULL
    <3>1. TBuf[p.t] \in Buffers
      BY <2>2 DEF PendingRec
    <3> QED
      BY <1>1, <2>2, <3>1 DEF PendingInvIn
  <2> QED
    BY <2>1, <2>2
<1>4. ReplicasAgreeIn(bf2, m, p) = ReplicasAgreeIn(bf1, m, p)
  BY <1>2, Zenon DEF ReplicasAgreeIn, ReplicatedIn
<1> QED
  BY <1>3, <1>4

LEMMA FreeBufferStep ==
  ASSUME IInv, NEW b \in Buffers, FreeBuffer(b)
  PROVE  IInv'
<1>1. buf[b].kind = "plain" /\ buf' = [buf EXCEPT ![b].kind = "freed"]
  BY DEF FreeBuffer
<1>2. TypeOK'
  <2>1. buf[b] \in BufRec
    BY DEF IInv, TypeOK
  <2>2. [buf[b] EXCEPT !.kind = "freed"] \in BufRec
    BY <2>1 DEF BufRec
  <2>3. buf' \in [Buffers -> BufRec]
    BY <1>1, <2>2 DEF IInv, TypeOK
  <2>4. \A x \in Buffers : buf'[x].nodes = buf[x].nodes
    BY <1>1 DEF IInv, TypeOK
  <2> QED
    BY <2>3, <2>4 DEF IInv, TypeOK, FreeBuffer
<1>3. \A x \in Buffers : /\ buf'[x].nodes = buf[x].nodes
                         /\ buf'[x].iface = buf[x].iface
                         /\ ReplicatedRec(buf'[x]) = ReplicatedRec(buf[x])
                         /\ (buf'[x].kind = "none") = (buf[x].kind = "none")
                         /\ (buf'[x].kind = "mirror") = (buf[x].kind = "mirror")
  BY <1>1 DEF IInv, TypeOK, ReplicatedRec
<1>4. MirrorShapeIn(buf')
  <2>1. MirrorShapeIn(buf)
    BY StateViews DEF IInv
  <2> QED
    BY <1>3, <2>1 DEF MirrorShapeIn
<1>5. UnallocatedEmptyIn(buf', placed', mem')
  <2>1. UnallocatedEmptyIn(buf, placed, mem)
    BY StateViews DEF IInv
  <2> QED
    BY <1>3, <2>1, ConstAssumption DEF UnallocatedEmptyIn, FreeBuffer
<1>6. PendingInvIn(pending', buf', mem') /\ ReplicasAgreeIn(buf', mem', pending')
  <2>1. PendingInvIn(pending, buf, mem) /\ ReplicasAgreeIn(buf, mem, pending)
    BY StateViews DEF IInv
  <2>2. pending \in {NULL} \cup PendingRec /\ TBuf \in [Tensors -> Buffers]
    BY ConstAssumption DEF IInv, TypeOK
  <2>3. UNCHANGED <<mem, pending>>
    BY DEF FreeBuffer
  <2>4. \A x \in Buffers : /\ buf'[x].nodes = buf[x].nodes
                           /\ ReplicatedRec(buf'[x]) = ReplicatedRec(buf[x])
    BY <1>3
  <2>5. /\ PendingInvIn(pending, buf', mem) = PendingInvIn(pending, buf, mem)
        /\ ReplicasAgreeIn(buf', mem, pending) = ReplicasAgreeIn(buf, mem, pending)
    BY <2>2, <2>4, SameReplication
  <2> QED
    BY <2>1, <2>3, <2>5
<1> QED
  BY <1>2, <1>4, <1>5, <1>6, StateViews DEF IInv

\* What alloc_buffer may install for a buffer, under either strategy.
AllocRec ==
  {r \in BufRec : /\ r.kind \in {"plain", "mirror"}
                  /\ r.iface.set = "amx"
                  /\ r.kind = "mirror" =>
                       /\ Len(r.nodes) >= 1
                       /\ \A j, k \in 1..Len(r.nodes) : j # k => r.nodes[j] # r.nodes[k]}

LEMMA AllocInstalls ==
  ASSUME NEW b \in Buffers, AllocBuffer(b)
  PROVE  \E r \in AllocRec : buf' = [buf EXCEPT ![b] = r]
<1>1. CASE numaMirror
  <2>1. PICK ns \in ActiveNodeSeqs, ro \in BOOLEAN :
          buf' = [buf EXCEPT ![b] = [kind |-> "mirror", nodes |-> ns,
                                      readOnly |-> ro, iface |-> MirrorIface,
                                      buftAmx |-> TRUE]]
    BY <1>1 DEF AllocBuffer
  <2>2. ns \in Seq(Nodes) /\ Len(ns) >= 1
        /\ \A j, k \in 1..Len(ns) : j # k => ns[j] # ns[k]
    BY ActiveSeqShape
  <2> QED
    BY <2>1, <2>2, Zenon DEF AllocRec, BufRec, MirrorIface
<1>2. CASE ~numaMirror
  <2>1. <<>> \in Seq(Nodes)
    BY EmptySeq
  <2> QED
    BY <1>2, <2>1, Zenon DEF AllocBuffer, AllocRec, BufRec
<1> QED
  BY <1>1, <1>2

LEMMA AllocBufferStep ==
  ASSUME IInv, NEW b \in Buffers, AllocBuffer(b)
  PROVE  IInv'
<1>1. PICK r \in AllocRec : buf' = [buf EXCEPT ![b] = r]
  BY AllocInstalls
<1>2. buf[b].kind = "none" /\ placed' = placed /\ mem' = mem /\ pending' = pending
  BY DEF AllocBuffer
<1>3. \A x \in Buffers \ {b} : buf'[x] = buf[x]
  BY <1>1 DEF IInv, TypeOK
<1>4. buf' \in [Buffers -> BufRec]
  BY <1>1 DEF IInv, TypeOK, AllocRec
<1>5. TBuf \in [Tensors -> Buffers]
  BY ConstAssumption
<1>6. pending # NULL => TBuf[pending.t] # b /\ pending.t \in Tensors
  BY <1>2 DEF IInv, PendingInv, IsReplicated, TypeOK, PendingRec
<1>7. TypeOK'
  BY <1>2, <1>3, <1>4, <1>5, <1>6 DEF IInv, TypeOK, AllocBuffer
<1>8. MirrorShapeIn(buf')
  <2>1. MirrorShapeIn(buf)
    BY StateViews DEF IInv
  <2> QED
    BY <1>1, <1>3, <2>1 DEF MirrorShapeIn, AllocRec
<1>9. UnallocatedEmptyIn(buf', placed', mem')
  <2>1. UnallocatedEmptyIn(buf, placed, mem)
    BY StateViews DEF IInv
  <2> QED
    BY <1>1, <1>2, <1>3, <1>5, <2>1 DEF UnallocatedEmptyIn, AllocRec
<1>10. PendingInvIn(pending', buf', mem')
  <2>1. PendingInvIn(pending, buf, mem)
    BY StateViews DEF IInv
  <2>2. CASE pending = NULL
    BY <1>2, <2>2 DEF PendingInvIn
  <2>3. CASE pending # NULL
    <3>1. buf'[TBuf[pending.t]] = buf[TBuf[pending.t]]
      BY <1>3, <1>5, <1>6, <2>3
    <3> QED
      BY <1>2, <2>1, <3>1 DEF PendingInvIn, ReplicatedIn
  <2> QED
    BY <2>2, <2>3
<1>11. ReplicasAgreeIn(buf', mem', pending')
  <2>1. ReplicasAgreeIn(buf, mem, pending)
    BY StateViews DEF IInv
  <2> SUFFICES ASSUME NEW t \in Tensors,
                      ReplicatedIn(buf', TBuf[t]),
                      pending = NULL \/ pending.t # t
               PROVE  AgreeOK(buf'[TBuf[t]], mem[t])
    BY <1>2 DEF ReplicasAgreeIn
  <2>2. CASE TBuf[t] # b
    <3>1. buf'[TBuf[t]] = buf[TBuf[t]]
      BY <1>3, <1>5, <2>2
    <3> QED
      BY <2>1, <3>1 DEF ReplicasAgreeIn, ReplicatedIn
  <2>3. CASE TBuf[t] = b
    <3>1. mem[t] = [l \in Locs |-> Empty]
      <4>1. UnallocatedEmptyIn(buf, placed, mem)
        BY StateViews DEF IInv
      <4> QED
        BY <1>2, <2>3, <4>1 DEF UnallocatedEmptyIn
    <3>2. buf'[b].nodes \in Seq(Nodes)
      BY <1>4 DEF BufRec
    <3>3. \A k \in 1..Len(buf'[b].nodes) : buf'[b].nodes[k] \in Locs
      BY <3>2, ElementOfSeq DEF Locs
    <3> QED
      BY <2>3, <3>1, <3>3 DEF AgreeOK
  <2> QED
    BY <2>2, <2>3
<1> QED
  BY <1>7, <1>8, <1>9, <1>10, <1>11, StateViews DEF IInv

LEMMA SetTensorStep ==
  ASSUME IInv, NEW t \in Tensors, NEW p \in Payloads, SetTensor(t, p)
  PROVE  IInv'
<1> DEFINE b == TBuf[t]
           c == IF buf[b].iface.set = "amx" THEN Stored(t, p)
                ELSE [val |-> p, packed |-> FALSE]
<1>1. b \in Buffers /\ buf[b] \in BufRec
  BY ConstAssumption DEF IInv, TypeOK
<1>2. c \in Content
  BY DEF Stored, Content, Vals, qtype_has_amx_kernels
<1>3. /\ pending = NULL /\ placed[t] /\ last' = [last EXCEPT ![t] = c]
      /\ UNCHANGED <<numaMirror, buf, placed, extra, phase, ran>>
  BY DEF SetTensor
<1>0. /\ buf[b].iface.set = "amx" /\ TakesMirrorPath(b) /\ buf[b].kind = "mirror"
         => pending' = [t |-> t, c |-> c, i |-> 1] /\ UNCHANGED <<mem, stray>>
      /\ buf[b].iface.set = "amx" /\ TakesMirrorPath(b) /\ buf[b].kind # "mirror"
         => UNCHANGED <<mem, pending>> /\ stray' = TRUE
      /\ ~(buf[b].iface.set = "amx" /\ TakesMirrorPath(b))
         => mem' = [mem EXCEPT ![t][BaseLoc(b)] = c] /\ UNCHANGED <<pending, stray>>
  BY DEF SetTensor
<1> HIDE DEF c, SetTensor
<1>4. buf[b].kind # "none"
  <2>1. UnallocatedEmptyIn(buf, placed, mem)
    BY StateViews DEF IInv
  <2> QED
    BY <1>3, <2>1 DEF UnallocatedEmptyIn
<1>5. MirrorShapeIn(buf') /\ UnallocatedEmptyIn(buf, placed, mem)
      /\ ReplicasAgreeIn(buf, mem, NULL)
  <2>1. MirrorShapeIn(buf)
    BY StateViews DEF IInv
  <2>2. UnallocatedEmptyIn(buf, placed, mem)
    BY StateViews, Zenon DEF IInv
  <2>3. ReplicasAgreeIn(buf, mem, pending)
    BY StateViews, Zenon DEF IInv
  <2> QED
    BY <1>3, <2>1, <2>2, <2>3
<1>6. last' \in [Tensors -> Content]
  BY <1>2, <1>3 DEF IInv, TypeOK
<1>7. CASE buf[b].iface.set = "amx" /\ TakesMirrorPath(b) /\ buf[b].kind = "mirror"
  <2>1. pending' = [t |-> t, c |-> c, i |-> 1] /\ UNCHANGED <<mem, stray>>
    BY <1>0, <1>7
  <2>2. ReplicatedRec(buf[b])
    BY <1>7 DEF TakesMirrorPath, IsReplicated, ReplicatedRec
  <2>3. TypeOK'
    <3>1. pending' \in PendingRec
      BY <1>2, <2>1 DEF PendingRec
    <3>2. 1 \in 1..Len(buf[b].nodes)
      <4>1. Len(buf[b].nodes) \in Nat
        BY <1>1, LenProperties DEF BufRec
      <4> QED
        BY <2>2, <4>1 DEF ReplicatedRec
    <3> QED
      BY <1>3, <1>6, <2>1, <3>1, <3>2 DEF IInv, TypeOK
  <2>4. PendingInvIn(pending', buf', mem')
    <3>1. AgreeOK(buf[b], mem[t])
      BY <1>5, <2>2 DEF ReplicasAgreeIn, ReplicatedIn
    <3>2. \A j, k \in 1..Len(buf[b].nodes) :
            mem[t][buf[b].nodes[j]] = mem[t][buf[b].nodes[k]]
      <4> SUFFICES ASSUME NEW j \in 1..Len(buf[b].nodes), NEW k \in 1..Len(buf[b].nodes)
                   PROVE  mem[t][buf[b].nodes[j]] = mem[t][buf[b].nodes[k]]
        OBVIOUS
      <4> QED
        BY <3>1, Zenon DEF AgreeOK
    <3>3. pending'.t = t /\ pending'.c = c /\ pending'.i = 1
      BY <2>1
    <3>4. LoopOK(pending', buf[b], mem[t])
      <4>1. \A k \in 1..(pending'.i - 1) : mem[t][buf[b].nodes[k]] = pending'.c
        BY <3>3
      <4>2. \A j, k \in pending'.i..Len(buf[b].nodes) :
              mem[t][buf[b].nodes[j]] = mem[t][buf[b].nodes[k]]
        <5> SUFFICES ASSUME NEW j \in pending'.i..Len(buf[b].nodes),
                            NEW k \in pending'.i..Len(buf[b].nodes)
                     PROVE  mem[t][buf[b].nodes[j]] = mem[t][buf[b].nodes[k]]
          OBVIOUS
        <5>1. j \in 1..Len(buf[b].nodes) /\ k \in 1..Len(buf[b].nodes)
          BY <3>3
        <5> QED
          BY <3>2, <5>1
      <4> QED
        BY <2>2, <4>1, <4>2 DEF LoopOK
    <3> QED
      BY <1>3, <2>1, <3>3, <3>4 DEF PendingInvIn
  <2>5. ReplicasAgreeIn(buf', mem', pending')
    BY <1>3, <1>5, <2>1 DEF ReplicasAgreeIn
  <2> QED
    BY <1>3, <1>5, <2>1, <2>3, <2>4, <2>5, StateViews, Zenon DEF IInv
<1>8. CASE buf[b].iface.set = "amx" /\ TakesMirrorPath(b) /\ buf[b].kind # "mirror"
  <2>1. UNCHANGED <<mem, pending>> /\ stray' = TRUE
    BY <1>0, <1>8
  <2>2. TypeOK'
    BY <1>3, <1>6, <2>1, Zenon DEF IInv, TypeOK
  <2>3. \A u \in Tensors : buf[TBuf[u]].kind = "none" => ~placed'[u]
    BY <1>3, <1>5, Zenon DEF UnallocatedEmptyIn
  <2> QED
    BY <1>3, <2>1, <2>2, <2>3, FrameStep
<1>9. CASE ~(buf[b].iface.set = "amx" /\ TakesMirrorPath(b))
  <2>1. mem' = [mem EXCEPT ![t][BaseLoc(b)] = c] /\ UNCHANGED <<pending, stray>>
    BY <1>0, <1>9
  <2>2. ~ReplicatedRec(buf[b])
    <3>1. buf[b].iface.set = "amx"
      BY <1>1, <1>5, <1>3 DEF MirrorShapeIn
    <3> QED
      BY <1>9, <3>1 DEF TakesMirrorPath, IsReplicated, ReplicatedRec
  <2>3. BaseLoc(b) \in Locs
    BY <1>1, BaseLocType
  <2>4. \A u \in Tensors \ {t} : mem'[u] = mem[u]
    BY <2>1, Zenon DEF IInv, TypeOK
  <2>5. TypeOK'
    <3>1. mem' \in [Tensors -> [Locs -> Content]]
      BY <1>2, <2>1, <2>3, Zenon DEF IInv, TypeOK
    <3> QED
      BY <1>3, <1>6, <2>1, <3>1, Zenon DEF IInv, TypeOK
  <2>6. UnallocatedEmptyIn(buf', placed', mem')
    BY <1>3, <1>4, <1>5, <2>4, Zenon DEF UnallocatedEmptyIn
  <2>7. PendingInvIn(pending', buf', mem')
    BY <1>3, <2>1 DEF PendingInvIn
  <2>8. ReplicasAgreeIn(buf', mem', pending')
    BY <1>3, <1>5, <2>1, <2>2, <2>4 DEF ReplicasAgreeIn, ReplicatedIn
  <2> QED
    BY <1>3, <1>5, <2>5, <2>6, <2>7, <2>8, StateViews, Zenon DEF IInv
<1> QED
  BY <1>7, <1>8, <1>9

LEMMA ReplicaWriteStep ==
  ASSUME IInv, ReplicaWrite
  PROVE  IInv'
<1> DEFINE lt  == pending.t
           lb == TBuf[lt]
           lns == buf[lb].nodes
           li  == pending.i
           lc  == pending.c
           m1 == [mem EXCEPT ![lt][lns[li]] = lc]
<1>1. /\ pending # NULL
      /\ mem' = m1
      /\ pending' = (IF li < Len(lns) THEN [pending EXCEPT !.i = li + 1] ELSE NULL)
      /\ UNCHANGED <<numaMirror, buf, placed, extra, phase, stray, last, ran>>
  <2>1. pending # NULL
    BY DEF ReplicaWrite
  <2>2. mem' = [mem EXCEPT ![pending.t][buf[TBuf[pending.t]].nodes[pending.i]] = pending.c]
    BY DEF ReplicaWrite
  <2>3. mem' = m1
    BY <2>2
  <2>4. pending' = (IF li < Len(lns) THEN [pending EXCEPT !.i = li + 1] ELSE NULL)
    BY DEF ReplicaWrite
  <2>5. UNCHANGED <<numaMirror, buf, placed, extra, phase, stray, last, ran>>
    BY DEF ReplicaWrite
  <2> QED
    BY <2>1, <2>3, <2>4, <2>5
<1> HIDE DEF m1, ReplicaWrite
<1>2. pending \in PendingRec /\ li \in 1..Len(lns)
  BY <1>1 DEF IInv, TypeOK
<1>3. lt \in Tensors /\ lb \in Buffers /\ lc \in Content /\ buf[lb] \in BufRec
  BY <1>2, ConstAssumption DEF PendingRec, IInv, TypeOK
<1>4. lns \in Seq(Nodes) /\ lns[li] \in Locs
  BY <1>2, <1>3, ElementOfSeq DEF BufRec, Locs
<1>4a. Len(lns) \in Nat /\ li \in Nat
  BY <1>2, <1>4, LenProperties
<1>5. LoopOK(pending, buf[lb], mem[lt])
  BY <1>1, StateViews, Zenon DEF IInv, PendingInvIn
<1>6. /\ ReplicatedRec(buf[lb])
      /\ \A k \in 1..(li - 1) : mem[lt][lns[k]] = lc
      /\ \A x, y \in li..Len(lns) : mem[lt][lns[x]] = mem[lt][lns[y]]
  BY <1>5, Zenon DEF LoopOK
<1>7. \A j, k \in 1..Len(lns) : j # k => lns[j] # lns[k]
  <2>1. MirrorShapeIn(buf)
    BY StateViews DEF IInv
  <2> QED
    BY <1>3, <1>6, <2>1, Zenon DEF MirrorShapeIn, ReplicatedRec
<1>7a. mem \in [Tensors -> [Locs -> Content]]
  BY DEF IInv, TypeOK
<1>8. \A u \in Tensors \ {lt} : m1[u] = mem[u]
  BY <1>7a DEF m1
<1>9. \A k \in 1..Len(lns) : m1[lt][lns[k]] = IF lns[k] = lns[li] THEN lc ELSE mem[lt][lns[k]]
  <2>1. \A k \in 1..Len(lns) : lns[k] \in Locs
    BY <1>4, ElementOfSeq DEF Locs
  <2> QED
    BY <1>3, <1>4, <1>7a, <2>1, Zenon DEF m1
<1>10. TypeOK'
  <2>1. m1 \in [Tensors -> [Locs -> Content]]
    BY <1>3, <1>4, <1>7a DEF m1
  <2>2. pending' \in {NULL} \cup PendingRec
        /\ (pending' # NULL => pending'.i \in 1..Len(buf[TBuf[pending'.t]].nodes))
    BY <1>1, <1>2 DEF PendingRec
  <2> QED
    BY <1>1, <2>1, <2>2, Zenon DEF IInv, TypeOK
<1>11. UnallocatedEmptyIn(buf', placed', mem')
  <2>1. UnallocatedEmptyIn(buf, placed, mem)
    BY StateViews DEF IInv
  <2>2. buf[lb].kind # "none"
    BY <1>6 DEF ReplicatedRec
  <2> QED
    BY <1>1, <1>8, <2>1, <2>2 DEF UnallocatedEmptyIn
<1>12. \A u \in Tensors \ {lt} : ReplicatedIn(buf, TBuf[u]) => AgreeOK(buf[TBuf[u]], m1[u])
  <2>1. ReplicasAgreeIn(buf, mem, pending)
    BY StateViews DEF IInv
  <2> QED
    BY <1>8, <2>1 DEF ReplicasAgreeIn
<1>13. CASE li < Len(lns)
  <2>0. pending = [t |-> lt, c |-> lc, i |-> li]
    BY <1>2 DEF PendingRec
  <2>1. pending' = [t |-> lt, c |-> lc, i |-> li + 1]
    BY <1>1, <1>13, <2>0
  <2>2. \A k \in 1..li : m1[lt][lns[k]] = lc
    <3> SUFFICES ASSUME NEW k \in 1..li PROVE m1[lt][lns[k]] = lc
      OBVIOUS
    <3>1. k \in 1..Len(lns)
      BY <1>2, <1>4a
    <3>2. CASE k = li
      BY <1>9, <3>1, <3>2, Zenon
    <3>3. CASE k # li
      <4>1. k \in 1..(li - 1)
        BY <1>4a, <3>3
      <4> QED
        BY <1>6, <1>9, <3>1, <4>1, Zenon
    <3> QED
      BY <3>2, <3>3, Zenon
  <2>3. \A j, k \in (li + 1)..Len(lns) : m1[lt][lns[j]] = m1[lt][lns[k]]
    <3> SUFFICES ASSUME NEW j \in (li + 1)..Len(lns), NEW k \in (li + 1)..Len(lns)
                 PROVE  m1[lt][lns[j]] = m1[lt][lns[k]]
      BY Zenon
    <3>1. j \in 1..Len(lns) /\ k \in 1..Len(lns) /\ j # li /\ k # li
          /\ j \in li..Len(lns) /\ k \in li..Len(lns)
      BY <1>2, <1>4a
    <3>2. lns[j] # lns[li] /\ lns[k] # lns[li]
      BY <1>2, <1>7, <3>1
    <3>3. m1[lt][lns[j]] = mem[lt][lns[j]] /\ m1[lt][lns[k]] = mem[lt][lns[k]]
      BY <1>9, <3>1, <3>2, Zenon
    <3>4. mem[lt][lns[j]] = mem[lt][lns[k]]
      BY <1>6, <3>1, Zenon
    <3> QED
      BY <3>3, <3>4, Zenon
  <2>4. PendingInvIn(pending', buf', mem')
    <3>1. pending'.t = lt /\ pending'.c = lc /\ pending'.i - 1 = li
          /\ pending'.i = li + 1
      BY <1>4a, <2>1
    <3>2. LoopOK(pending', buf[lb], m1[lt])
      BY <1>6, <2>2, <2>3, <3>1, Zenon DEF LoopOK
    <3> QED
      BY <1>1, <3>1, <3>2, Zenon DEF PendingInvIn
  <2>5. ReplicasAgreeIn(buf', mem', pending')
    <3> SUFFICES ASSUME NEW u \in Tensors,
                        ReplicatedIn(buf, TBuf[u]),
                        pending' = NULL \/ pending'.t # u
                 PROVE  AgreeOK(buf[TBuf[u]], m1[u])
      BY <1>1, Zenon DEF ReplicasAgreeIn
    <3>1. pending' \in PendingRec
      BY <1>3, <1>4a, <2>1 DEF PendingRec
    <3>2. u # lt
      BY <2>1, <3>1, ConstAssumption
    <3> QED
      BY <1>12, <3>2
  <2> QED
    BY <1>1, <1>10, <1>11, <2>4, <2>5, StateViews, Zenon DEF IInv
<1>14. CASE ~(li < Len(lns))
  <2>1. pending' = NULL
    BY <1>1, <1>14
  <2>2. \A k \in 1..Len(lns) : m1[lt][lns[k]] = lc
    <3> SUFFICES ASSUME NEW k \in 1..Len(lns) PROVE m1[lt][lns[k]] = lc
      OBVIOUS
    <3>1. CASE k = li
      BY <1>9, <3>1, Zenon
    <3>2. CASE k # li
      <4>1. k \in 1..(li - 1)
        BY <1>2, <1>4a, <1>14, <3>2
      <4> QED
        BY <1>6, <1>9, <4>1, Zenon
    <3> QED
      BY <3>1, <3>2, Zenon
  <2>3. AgreeOK(buf[lb], m1[lt])
    BY <2>2 DEF AgreeOK
  <2>4. PendingInvIn(pending', buf', mem')
    BY <2>1 DEF PendingInvIn
  <2>5. ReplicasAgreeIn(buf', mem', pending')
    <3> SUFFICES ASSUME NEW u \in Tensors, ReplicatedIn(buf, TBuf[u])
                 PROVE  AgreeOK(buf[TBuf[u]], m1[u])
      BY <1>1 DEF ReplicasAgreeIn
    <3>1. CASE u = lt
      BY <2>3, <3>1
    <3>2. CASE u # lt
      BY <1>12, <3>2
    <3> QED
      BY <3>1, <3>2
  <2> QED
    BY <1>1, <1>10, <1>11, <2>4, <2>5, StateViews, Zenon DEF IInv
<1> QED
  BY <1>13, <1>14

-----------------------------------------------------------------------------
(* The invariance theorems.                                                 *)

\* Every step of the loader, the replication loop, the workers and teardown
\* preserves the inductive invariant.
LEMMA NextIInv == IInv /\ [Next]_vars => IInv'
<1> SUFFICES ASSUME IInv, [Next]_vars PROVE IInv'
  OBVIOUS
<1>1. ASSUME NEW b \in Buffers, AllocBuffer(b) PROVE IInv'
  BY <1>1, AllocBufferStep
<1>2. ASSUME NEW b \in Buffers, ClearBuffer(b) PROVE IInv'
  BY <1>2, ClearBufferStep
<1>3. ASSUME NEW b \in Buffers, FreeBuffer(b) PROVE IInv'
  BY <1>3, FreeBufferStep
<1>4. ASSUME NEW t \in Tensors, InitTensor(t) PROVE IInv'
  BY <1>4, InitTensorStep
<1>5. ASSUME NEW t \in Tensors, MemsetTensor(t) PROVE IInv'
  BY <1>5, MemsetTensorStep
<1>6. ASSUME NEW t \in Tensors, NEW p \in Payloads, SetTensor(t, p) PROVE IInv'
  BY <1>6, SetTensorStep
<1>7. CASE ReplicaWrite
  BY <1>7, ReplicaWriteStep
<1>8. CASE StartCompute \/ Teardown
  BY <1>8, PhaseStep
<1>9. ASSUME NEW o \in Ops, ComputeForward(o) PROVE IInv'
  BY <1>9, ComputeForwardStep
<1>10. CASE UNCHANGED vars
  <2>1. TypeOK'
    BY <1>10 DEF IInv, TypeOK, vars
  <2>2. \A t \in Tensors : buf[TBuf[t]].kind = "none" => ~placed'[t]
    BY <1>10 DEF IInv, UnallocatedEmpty, vars
  <2> QED
    BY <1>10, <2>1, <2>2, FrameStep DEF vars
<1> QED
  BY <1>1, <1>2, <1>3, <1>4, <1>5, <1>6, <1>7, <1>8, <1>9, <1>10 DEF Next

\* The inductive invariant holds in every reachable state of the AMX buffer
\* model: allocation, set_tensor with its NUMA replication loop, memset,
\* clear, compute and free.
THEOREM IInvInvariant == Spec => []IInv
<1>1. Init => IInv
  BY InitIInv
<1>2. IInv /\ [Next]_vars => IInv'
  BY NextIInv
<1> QED
  BY <1>1, <1>2, PTL DEF Spec

\* Type correctness of the buffer, tensor and replication-loop state of
\* ggml-amx.cpp's buffer interface, for every number of buffers, tensors,
\* NUMA nodes and payloads.
THEOREM TypeCorrect == Spec => []TypeOK
<1>1. IInv => TypeOK
  BY DEF IInv
<1> QED
  BY <1>1, IInvInvariant, PTL

\* Replica agreement: outside set_tensor's replication loop for a tensor,
\* every active NUMA replica of a read-only mirror buffer holds the same
\* weight content, whatever the active node list the mirror allocator picked.
THEOREM ReplicasAgreeInvariant == Spec => []ReplicasAgree
<1>1. IInv => ReplicasAgree
  BY DEF IInv
<1> QED
  BY <1>1, IInvInvariant, PTL

====
