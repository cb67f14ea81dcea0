------------------------ MODULE AmxBufferRead_proofs ------------------------
(***************************************************************************)
(* Proofs about what the kernels read in AmxBuffer: for every value of the *)
(* constants, a kernel sees the loader's last write to its weight unless a *)
(* write went through a forged mirror header, and it sees a payload in the *)
(* layout of the tensor's type, the AMX kernel running exactly for the     *)
(* MUL_MATs.  The argument rests on IInv, proved in AmxBuffer_proofs.      *)
(***************************************************************************)
EXTENDS AmxBuffer_proofs

\* The locations a kernel may read a tensor of buffer record r at.
ReadLocsIn(r) ==
  IF ReplicatedRec(r) THEN {r.nodes[k] : k \in 1..Len(r.nodes)}
  ELSE {IF r.kind = "mirror" THEN r.nodes[1] ELSE Host}

\* ReadLocs reads nothing of the state but the tensor's buffer record.
LEMMA ReadLocsView ==
  ASSUME NEW t \in Tensors
  PROVE  /\ ReadLocs(t) = ReadLocsIn(buf[TBuf[t]])
         /\ ReadLocs(t)' = ReadLocsIn(buf'[TBuf[t]])
BY DEF ReadLocs, ReadLocsIn, ReplicatedRec, IsReplicated, ReplicaNodes, BaseLoc

\* The locations of a well-formed buffer record are locations of the model.
LEMMA ReadLocsInType ==
  ASSUME NEW r \in BufRec, r.kind = "mirror" => Len(r.nodes) >= 1
  PROVE  ReadLocsIn(r) \subseteq Locs
<1>1. r.nodes \in Seq(Nodes)
  BY DEF BufRec
<1>2. \A k \in 1..Len(r.nodes) : r.nodes[k] \in Nodes
  BY <1>1, ElementOfSeq
<1> QED
  BY <1>2 DEF ReadLocsIn, ReplicatedRec, Locs

\* In a state satisfying IInv, the locations of a tensor's buffer record.
LEMMA ReadLocsOf ==
  ASSUME NEW bf, NEW t \in Tensors, bf \in [Buffers -> BufRec], MirrorShapeIn(bf)
  PROVE  ReadLocsIn(bf[TBuf[t]]) \subseteq Locs
<1>1. TBuf[t] \in Buffers
  BY ConstAssumption
<1> QED
  BY <1>1, ReadLocsInType DEF MirrorShapeIn

\* A stored payload is in its type's layout.
LEMMA StoredLayout ==
  ASSUME NEW t \in Tensors, NEW p \in Payloads
  PROVE  LayoutOK(t, Stored(t, p))
BY DEF LayoutOK, Stored

\* Bytes a memset or clear leaves are no payload.
LEMMA FilledLayout ==
  ASSUME NEW t
  PROVE  LayoutOK(t, Filled) /\ LayoutOK(t, Empty)
BY ConstAssumption DEF LayoutOK, Filled, Empty

-----------------------------------------------------------------------------
(* The initial state.                                                       *)

LEMMA InitLoadInv == Init => LoadInv
<1> SUFFICES ASSUME Init PROVE LoadInv
  OBVIOUS
<1>1. NoRunDuringLoad /\ LoadedBeforeCompute /\ UnallocatedUnwritten
  BY DEF Init, NoRunDuringLoad, LoadedBeforeCompute, UnallocatedUnwritten
<1>2. TraitsAttached
  BY DEF Init, TraitsAttached
<1>3. LayoutInv
  BY FilledLayout DEF Init, LayoutInv
<1>4. LastWriteVisible
  <2>1. \A t \in Tensors : \A l \in ReadLocs(t) : l \in Locs
    BY ReadLocsType, InitIInv
  <2> QED
    BY <2>1 DEF Init, LastWriteVisible, KernelReadsLastWrite
<1> QED
  BY <1>1, <1>2, <1>3, <1>4 DEF LoadInv

-----------------------------------------------------------------------------
(* The inductive step, one lemma per action.  Each assumes IInv in both    *)
(* states, which AmxBuffer_proofs establishes.                            *)

(* Frames: a step that leaves the state a conjunct reads alone keeps it.   *)

LEMMA LayoutFrame ==
  ASSUME LayoutInv, mem' = mem, pending' = pending, ran' = ran
  PROVE  LayoutInv'
BY DEF LayoutInv, LayoutOK

LEMMA LastWriteFrame ==
  ASSUME LastWriteVisible,
         buf' = buf, mem' = mem, pending' = pending, stray' = stray,
         last' = last, ran' = ran
  PROVE  LastWriteVisible'
<1>1. \A t \in Tensors : ReadLocs(t)' = ReadLocs(t)
  BY ReadLocsView
<1> QED
  BY <1>1 DEF LastWriteVisible, KernelReadsLastWrite

LEMMA InitTensorLoad ==
  ASSUME IInv, LoadInv, NEW t \in Tensors, InitTensor(t)
  PROVE  LoadInv'
<1>1. /\ phase = "load" /\ ~placed[t]
      /\ UNCHANGED <<buf, mem, pending, phase, stray, last, ran>>
      /\ placed' = [placed EXCEPT ![t] = TRUE]
  BY DEF InitTensor
<1>2. extra' = [extra EXCEPT ![t] = "amx"]
  BY ConstAssumption DEF InitTensor, LoadInv, TraitsAttached
<1>3. TraitsAttached'
  <2>1. placed \in [Tensors -> BOOLEAN] /\ extra \in [Tensors -> {NULL, "amx"}]
    BY DEF IInv, TypeOK
  <2> QED
    BY <1>1, <1>2, <2>1 DEF LoadInv, TraitsAttached
<1>4. NoRunDuringLoad' /\ LoadedBeforeCompute' /\ UnallocatedUnwritten'
  BY <1>1 DEF LoadInv, NoRunDuringLoad, LoadedBeforeCompute, UnallocatedUnwritten
<1> QED
  BY <1>1, <1>3, <1>4, LayoutFrame, LastWriteFrame DEF LoadInv

\* StartCompute and Teardown: the loader returned with every tensor placed
\* and no replication loop running.
LEMMA PhaseLoad ==
  ASSUME LoadInv, StartCompute \/ Teardown
  PROVE  LoadInv'
<1>1. UNCHANGED <<buf, placed, extra, mem, pending, stray, last, ran>>
  BY DEF StartCompute, Teardown
<1>2. phase' # "load" /\ pending = NULL /\ \A t \in Tensors : placed[t]
  BY DEF StartCompute, Teardown, LoadInv, LoadedBeforeCompute
<1>3. NoRunDuringLoad' /\ LoadedBeforeCompute'
  BY <1>1, <1>2 DEF NoRunDuringLoad, LoadedBeforeCompute
<1>4. UnallocatedUnwritten' /\ TraitsAttached'
  BY <1>1 DEF LoadInv, UnallocatedUnwritten, TraitsAttached
<1> QED
  BY <1>1, <1>3, <1>4, LayoutFrame, LastWriteFrame DEF LoadInv

\* FreeBuffer: a freed plain buffer's tensors are still read at tensor->data.
LEMMA FreeBufferLoad ==
  ASSUME IInv, LoadInv, NEW b \in Buffers, FreeBuffer(b)
  PROVE  LoadInv'
<1>1. /\ buf[b].kind = "plain"
      /\ buf' = [buf EXCEPT ![b].kind = "freed"]
      /\ UNCHANGED <<placed, extra, mem, pending, phase, stray, last, ran>>
  BY DEF FreeBuffer
<1>2. buf \in [Buffers -> BufRec]
  BY DEF IInv, TypeOK
<1>3. \A x \in Buffers : ReadLocsIn(buf'[x]) = ReadLocsIn(buf[x])
  <2>1. ReadLocsIn(buf'[b]) = {Host} /\ ReadLocsIn(buf[b]) = {Host}
    <3>1. buf'[b].kind = "freed"
      BY <1>1, <1>2
    <3> QED
      BY <1>1, <3>1 DEF ReadLocsIn, ReplicatedRec
  <2>2. \A x \in Buffers \ {b} : buf'[x] = buf[x]
    BY <1>1, <1>2
  <2> QED
    BY <2>1, <2>2
<1>4. \A t \in Tensors : ReadLocs(t)' = ReadLocs(t)
  BY <1>3, ReadLocsView, ConstAssumption
<1>5. \A x \in Buffers : buf'[x].kind = "none" <=> buf[x].kind = "none"
  BY <1>1, <1>2
<1>6. \A x \in Buffers : buf'[x].iface = buf[x].iface
  BY <1>1, <1>2
<1>7. UnallocatedUnwritten' /\ TraitsAttached'
  BY <1>1, <1>5, <1>6, ConstAssumption DEF LoadInv, UnallocatedUnwritten, TraitsAttached
<1>8. NoRunDuringLoad' /\ LoadedBeforeCompute'
  BY <1>1 DEF LoadInv, NoRunDuringLoad, LoadedBeforeCompute
<1>9. LastWriteVisible'
  BY <1>1, <1>4 DEF LoadInv, LastWriteVisible, KernelReadsLastWrite
<1> QED
  BY <1>1, <1>7, <1>8, <1>9, LayoutFrame DEF LoadInv

\* AllocBuffer: the new buffer's tensors were never written, so whatever
\* locations the new record gives them hold what the loader last wrote.
LEMMA AllocBufferLoad ==
  ASSUME IInv, LoadInv, IInv', NEW b \in Buffers, AllocBuffer(b)
  PROVE  LoadInv'
<1>1. /\ buf[b].kind = "none"
      /\ UNCHANGED <<placed, extra, mem, pending, phase, stray, last, ran>>
  BY DEF AllocBuffer
<1>2. /\ buf'[b].kind # "none"
      /\ buf'[b].iface.init = "amx"
      /\ \A x \in Buffers \ {b} : buf'[x] = buf[x]
  <2>1. buf \in [Buffers -> BufRec]
    BY DEF IInv, TypeOK
  <2> QED
    BY <2>1 DEF AllocBuffer, MirrorIface
<1>3. \A t \in Tensors : TBuf[t] = b =>
        /\ mem[t] = [l \in Locs |-> Empty]
        /\ last[t] = Empty
  BY <1>1 DEF IInv, UnallocatedEmpty, LoadInv, UnallocatedUnwritten
<1>4. NoRunDuringLoad' /\ LoadedBeforeCompute' /\ LayoutInv'
  BY <1>1 DEF LoadInv, NoRunDuringLoad, LoadedBeforeCompute, LayoutInv, LayoutOK
<1>5. UnallocatedUnwritten'
  BY <1>1, <1>2, ConstAssumption DEF LoadInv, UnallocatedUnwritten
<1>6. TraitsAttached'
  BY <1>1, <1>2 DEF LoadInv, TraitsAttached
<1>7. LastWriteVisible'
  <2> SUFFICES ASSUME ~stray'
               PROVE  /\ pending' # NULL => pending'.c = last'[pending'.t]
                      /\ \A t \in Tensors :
                           (pending' = NULL \/ pending'.t # t) =>
                             \A l \in ReadLocs(t)' : mem'[t][l] = last'[t]
                      /\ KernelReadsLastWrite'
    BY DEF LastWriteVisible
  <2>1. pending' # NULL => pending'.c = last'[pending'.t]
    BY <1>1 DEF LoadInv, LastWriteVisible
  <2>2. KernelReadsLastWrite'
    BY <1>1 DEF LoadInv, LastWriteVisible, KernelReadsLastWrite
  <2>3. ASSUME NEW t \in Tensors, pending' = NULL \/ pending'.t # t,
               NEW l \in ReadLocs(t)'
        PROVE  mem'[t][l] = last'[t]
    <3>1. CASE TBuf[t] = b
      <4>1. l \in Locs
        <5>1. buf' \in [Buffers -> BufRec] /\ MirrorShapeIn(buf')
          BY StateViews DEF IInv, TypeOK
        <5> QED
          BY <5>1, ReadLocsOf, ReadLocsView
      <4> QED
        BY <1>1, <1>3, <3>1, <4>1
    <3>2. CASE TBuf[t] # b
      <4>1. TBuf[t] \in Buffers \ {b}
        BY <3>2, ConstAssumption
      <4>2. l \in ReadLocs(t)
        BY <1>2, <4>1, ReadLocsView
      <4> QED
        BY <1>1, <4>2, <2>3 DEF LoadInv, LastWriteVisible
    <3> QED
      BY <3>1, <3>2
  <2> QED
    BY <2>1, <2>2, <2>3
<1> QED
  BY <1>4, <1>5, <1>6, <1>7 DEF LoadInv

\* ComputeForward: the worker reads the weight at a location that holds the
\* loader's last write, in its type's layout, and the AMX traits take the
\* op exactly when it is a MUL_MAT.
LEMMA ComputeForwardLoad ==
  ASSUME IInv, LoadInv, NEW o \in Ops, ComputeForward(o)
  PROVE  LoadInv'
<1> DEFINE t == OpSpec[o].src0
<1>1. t \in Tensors
  BY ConstAssumption DEF OpRec
<1>2. PICK l \in ReadLocs(t) :
        ran' = [ran EXCEPT ![o] = [by |-> IF AmxHandles(o) THEN "amx" ELSE "default",
                                   saw |-> mem[t][l]]]
  BY Zenon DEF ComputeForward
<1>3. /\ phase = "compute"
      /\ UNCHANGED <<numaMirror, buf, placed, extra, mem, pending, phase, stray, last>>
  BY DEF ComputeForward
<1>4. pending = NULL /\ extra[t] = "amx"
  BY <1>1, <1>3 DEF LoadInv, LoadedBeforeCompute, TraitsAttached
<1>5. AmxHandles(o) <=> OpSpec[o].kind = "MUL_MAT"
  BY <1>1, <1>4, ConstAssumption DEF AmxHandles, TraitsTensor
<1>6. l \in Locs
  BY <1>1, ReadLocsType
<1>7. ran \in [Ops -> {NULL} \cup RunRec]
  BY DEF IInv, TypeOK
<1>8. LayoutInv'
  <2>1. LayoutOK(t, mem[t][l])
    BY <1>1, <1>6 DEF LoadInv, LayoutInv
  <2> QED
    BY <1>2, <1>3, <1>5, <1>7, <2>1 DEF LoadInv, LayoutInv
<1>9. LastWriteVisible'
  <2> SUFFICES ASSUME ~stray' PROVE LastWriteVisible'
    BY DEF LastWriteVisible
  <2>1. mem[t][l] = last[t]
    BY <1>1, <1>3, <1>4 DEF LoadInv, LastWriteVisible
  <2>2. KernelReadsLastWrite'
    BY <1>2, <1>3, <1>7, <2>1 DEF LoadInv, LastWriteVisible, KernelReadsLastWrite
  <2>3. \A u \in Tensors : ReadLocs(u)' = ReadLocs(u)
    BY <1>3, ReadLocsView
  <2> QED
    BY <1>3, <2>2, <2>3 DEF LoadInv, LastWriteVisible
<1>10. NoRunDuringLoad' /\ LoadedBeforeCompute' /\ UnallocatedUnwritten' /\ TraitsAttached'
  BY <1>3 DEF LoadInv, NoRunDuringLoad, LoadedBeforeCompute, UnallocatedUnwritten,
              TraitsAttached
<1> QED
  BY <1>8, <1>9, <1>10 DEF LoadInv

\* A write of plain-buffer tensors W (memset_tensor, clear) that stores the
\* fill pattern at tensor->data and records it as their last write.
LEMMA FillLoad ==
  ASSUME IInv, LoadInv, NEW W \in SUBSET Tensors,
         phase = "load", pending = NULL,
         \A t \in W : buf[TBuf[t]].kind = "plain",
         mem' = [t \in Tensors |-> IF t \in W THEN [mem[t] EXCEPT ![Host] = Filled]
                                             ELSE mem[t]],
         last' = [t \in Tensors |-> IF t \in W THEN Filled ELSE last[t]],
         UNCHANGED <<buf, placed, extra, pending, phase, stray, ran>>
  PROVE  LoadInv'
<1>1. mem \in [Tensors -> [Locs -> Content]] /\ Host \in Locs
  BY DEF IInv, TypeOK, Locs
<1>2. NoRunDuringLoad' /\ LoadedBeforeCompute' /\ TraitsAttached'
  BY DEF LoadInv, NoRunDuringLoad, LoadedBeforeCompute, TraitsAttached
<1>3. UnallocatedUnwritten'
  BY ConstAssumption DEF LoadInv, UnallocatedUnwritten
<1>4. LayoutInv'
  <2>1. \A t \in Tensors, l \in Locs : LayoutOK(t, mem'[t][l])
    BY <1>1, FilledLayout DEF LoadInv, LayoutInv
  <2> QED
    BY <2>1 DEF LoadInv, LayoutInv
<1>5. LastWriteVisible'
  <2> SUFFICES ASSUME ~stray' PROVE LastWriteVisible'
    BY DEF LastWriteVisible
  <2>1. \A t \in W : ReadLocs(t) = {Host}
    BY ConstAssumption DEF ReadLocs, IsReplicated, BaseLoc
  <2>2. \A t \in Tensors : ReadLocs(t)' = ReadLocs(t)
    BY ReadLocsView
  <2>3. \A t \in Tensors : \A l \in ReadLocs(t) : l \in Locs
    BY ReadLocsType
  <2>4. \A t \in Tensors : \A l \in ReadLocs(t)' : mem'[t][l] = last'[t]
    BY <1>1, <2>1, <2>2, <2>3 DEF LoadInv, LastWriteVisible
  <2> QED
    BY <2>4 DEF LoadInv, LastWriteVisible, KernelReadsLastWrite, NoRunDuringLoad
<1> QED
  BY <1>2, <1>3, <1>4, <1>5 DEF LoadInv

LEMMA MemsetTensorLoad ==
  ASSUME IInv, LoadInv, NEW t \in Tensors, MemsetTensor(t)
  PROVE  LoadInv'
<1>1. mem \in [Tensors -> [Locs -> Content]] /\ last \in [Tensors -> Content]
  BY DEF IInv, TypeOK
<1>2. /\ mem' = [u \in Tensors |-> IF u \in {t} THEN [mem[u] EXCEPT ![Host] = Filled]
                                               ELSE mem[u]]
      /\ last' = [u \in Tensors |-> IF u \in {t} THEN Filled ELSE last[u]]
  BY <1>1 DEF MemsetTensor
<1> QED
  BY <1>2, FillLoad DEF MemsetTensor

LEMMA ClearBufferLoad ==
  ASSUME IInv, LoadInv, NEW b \in Buffers, ClearBuffer(b)
  PROVE  LoadInv'
<1> DEFINE W == {u \in Tensors : TBuf[u] = b}
<1>1. /\ mem' = [u \in Tensors |-> IF u \in W THEN [mem[u] EXCEPT ![Host] = Filled]
                                              ELSE mem[u]]
      /\ last' = [u \in Tensors |-> IF u \in W THEN Filled ELSE last[u]]
  BY DEF ClearBuffer
<1>2. \A u \in W : buf[TBuf[u]].kind = "plain"
  BY DEF ClearBuffer
<1> QED
  BY <1>1, <1>2, FillLoad DEF ClearBuffer

\* SetTensor: the payload is stored in its type's layout, and it is the last
\* write to the tensor: at tensor->data, carried by the replication loop
\* it starts, or (through a forged header) nowhere the kernels read.
LEMMA SetTensorLoad ==
  ASSUME IInv, LoadInv, NEW t \in Tensors, NEW p \in Payloads, SetTensor(t, p)
  PROVE  LoadInv'
<1> DEFINE b == TBuf[t]
           c == Stored(t, p)
<1>1. b \in Buffers /\ buf[b].iface.set = "amx"
  BY ConstAssumption DEF IInv, MirrorShape
<1>2. /\ phase = "load" /\ pending = NULL /\ placed[t]
      /\ last' = [last EXCEPT ![t] = c]
      /\ UNCHANGED <<numaMirror, buf, placed, extra, phase, ran>>
  BY <1>1 DEF SetTensor
<1>3. buf[b].kind # "none"
  BY <1>2 DEF IInv, UnallocatedEmpty
<1>4. last \in [Tensors -> Content] /\ mem \in [Tensors -> [Locs -> Content]]
  BY DEF IInv, TypeOK
<1>5. NoRunDuringLoad' /\ LoadedBeforeCompute' /\ TraitsAttached'
  BY <1>2 DEF LoadInv, NoRunDuringLoad, LoadedBeforeCompute, TraitsAttached
<1>6. UnallocatedUnwritten'
  BY <1>2, <1>3, <1>4 DEF LoadInv, UnallocatedUnwritten
<1>7. LayoutOK(t, c)
  BY StoredLayout
<1>8. \A u \in Tensors : ReadLocs(u)' = ReadLocs(u)
  BY <1>2, ReadLocsView
<1>9. \A o \in Ops : ran'[o] = NULL
  BY <1>2 DEF LoadInv, NoRunDuringLoad
<1>10. CASE TakesMirrorPath(b) /\ buf[b].kind = "mirror"
  <2>1. pending' = [t |-> t, c |-> c, i |-> 1] /\ mem' = mem /\ stray' = stray
    BY <1>1, <1>10 DEF SetTensor
  <2>2. LayoutInv'
    BY <1>2, <1>7, <2>1 DEF LoadInv, LayoutInv
  <2>3. LastWriteVisible'
    <3> SUFFICES ASSUME ~stray' PROVE LastWriteVisible'
      BY DEF LastWriteVisible
    <3>1. pending'.c = last'[pending'.t]
      BY <1>2, <1>4, <2>1
    <3>2. \A u \in Tensors \ {t} : \A l \in ReadLocs(u)' : mem'[u][l] = last'[u]
      BY <1>2, <1>8, <2>1 DEF LoadInv, LastWriteVisible
    <3>3. \A u \in Tensors : (pending' = NULL \/ pending'.t # u) => u \in Tensors \ {t}
      <4>0. c \in Content
        BY DEF Content, Vals, Stored, qtype_has_amx_kernels
      <4>1. pending' \in PendingRec
        BY <2>1, <4>0 DEF PendingRec
      <4>2. pending' # NULL
        BY <4>1, ConstAssumption
      <4> QED
        BY <2>1, <4>2
    <3>4. KernelReadsLastWrite'
      BY <1>9 DEF KernelReadsLastWrite
    <3> QED
      BY <3>1, <3>2, <3>3, <3>4 DEF LastWriteVisible
  <2> QED
    BY <1>5, <1>6, <2>2, <2>3 DEF LoadInv
<1>11. CASE TakesMirrorPath(b) /\ buf[b].kind # "mirror"
  <2>1. stray' = TRUE /\ mem' = mem /\ pending' = pending
    BY <1>1, <1>11 DEF SetTensor
  <2>2. LayoutInv'
    BY <1>2, <2>1, LayoutFrame DEF LoadInv
  <2>3. LastWriteVisible'
    BY <2>1 DEF LastWriteVisible
  <2> QED
    BY <1>5, <1>6, <2>2, <2>3 DEF LoadInv
<1>12. CASE ~TakesMirrorPath(b)
  <2>1. /\ mem' = [mem EXCEPT ![t][BaseLoc(b)] = c]
        /\ pending' = pending /\ stray' = stray
    BY <1>1, <1>12 DEF SetTensor
  <2>2. BaseLoc(b) \in Locs
    BY <1>1, BaseLocType
  <2>3. ReadLocs(t) = {BaseLoc(b)}
    BY <1>12 DEF TakesMirrorPath, ReadLocs
  <2>4. LayoutInv'
    <3>1. \A u \in Tensors, l \in Locs : LayoutOK(u, mem'[u][l])
      BY <1>4, <1>7, <2>1, <2>2 DEF LoadInv, LayoutInv
    <3> QED
      BY <1>2, <2>1, <3>1 DEF LoadInv, LayoutInv
  <2>5. LastWriteVisible'
    <3> SUFFICES ASSUME ~stray' PROVE LastWriteVisible'
      BY DEF LastWriteVisible
    <3>1. mem'[t][BaseLoc(b)] = last'[t]
      BY <1>2, <1>4, <2>1, <2>2
    <3>2. \A u \in Tensors \ {t} : \A l \in ReadLocs(u)' : mem'[u][l] = last'[u]
      BY <1>2, <1>4, <1>8, <2>1 DEF LoadInv, LastWriteVisible
    <3> QED
      BY <1>2, <1>8, <1>9, <2>1, <2>3, <3>1, <3>2 DEF LastWriteVisible, KernelReadsLastWrite
  <2> QED
    BY <1>5, <1>6, <2>4, <2>5 DEF LoadInv
<1> QED
  BY <1>10, <1>11, <1>12

\* ReplicaWrite: iteration i copies the loop's content, which is the last
\* write to the tensor, to active_nodes[i]; after the last iteration every
\* active replica holds it.
LEMMA ReplicaWriteLoad ==
  ASSUME IInv, LoadInv, ReplicaWrite
  PROVE  LoadInv'
<1> DEFINE t == pending.t
           ns == buf[TBuf[t]].nodes
           i == pending.i
           c == pending.c
<1>1. /\ pending # NULL /\ pending \in PendingRec
      /\ t \in Tensors /\ i \in 1..Len(ns)
  <2>1. pending # NULL
    BY DEF ReplicaWrite
  <2>2. pending \in PendingRec
    BY <2>1 DEF IInv, TypeOK
  <2>3. i \in 1..Len(ns)
    BY <2>1 DEF IInv, TypeOK
  <2> QED
    BY <2>1, <2>2, <2>3 DEF PendingRec
<1>2. /\ ns \in Seq(Nodes)
      /\ \A k \in 1..Len(ns) : ns[k] \in Locs
  <2>1. TBuf[t] \in Buffers /\ buf[TBuf[t]] \in BufRec
    BY <1>1, ConstAssumption DEF IInv, TypeOK
  <2>2. ns \in Seq(Nodes)
    BY <2>1 DEF BufRec
  <2> QED
    BY <2>2, ElementOfSeq DEF Locs
<1>3. /\ mem' = [mem EXCEPT ![t][ns[i]] = c]
      /\ pending' = IF i < Len(ns) THEN [pending EXCEPT !.i = i + 1] ELSE NULL
      /\ UNCHANGED <<numaMirror, buf, placed, extra, phase, stray, last, ran>>
  BY DEF ReplicaWrite
<1>4. phase = "load"
  BY <1>1 DEF LoadInv, LoadedBeforeCompute
<1>5. mem \in [Tensors -> [Locs -> Content]] /\ LayoutOK(t, c)
  BY <1>1 DEF IInv, TypeOK, LoadInv, LayoutInv
<1>6. NoRunDuringLoad' /\ LoadedBeforeCompute' /\ UnallocatedUnwritten' /\ TraitsAttached'
  BY <1>3, <1>4 DEF LoadInv, NoRunDuringLoad, LoadedBeforeCompute, UnallocatedUnwritten,
                    TraitsAttached
<1>7. \A u \in Tensors \ {t} : mem'[u] = mem[u]
  BY <1>3, <1>5
<1>8. \A l \in Locs : mem'[t][l] = IF l = ns[i] THEN c ELSE mem[t][l]
  BY <1>1, <1>2, <1>3, <1>5
<1>9. pending' # NULL => pending' = [t |-> t, c |-> c, i |-> i + 1]
  BY <1>1, <1>3 DEF PendingRec
<1>10. LayoutInv'
  <2>1. \A u \in Tensors, l \in Locs : LayoutOK(u, mem'[u][l])
    BY <1>5, <1>7, <1>8 DEF LoadInv, LayoutInv
  <2> QED
    BY <1>3, <1>5, <1>9, <2>1 DEF LoadInv, LayoutInv
<1>11. LastWriteVisible'
  <2> SUFFICES ASSUME ~stray' PROVE LastWriteVisible'
    BY DEF LastWriteVisible
  <2>1. c = last[t]
    BY <1>1, <1>3 DEF LoadInv, LastWriteVisible
  <2>2. \A u \in Tensors : ReadLocs(u)' = ReadLocs(u)
    BY <1>3, ReadLocsView
  <2>3. \A u \in Tensors \ {t} : \A l \in ReadLocs(u)' : mem'[u][l] = last'[u]
    BY <1>1, <1>3, <1>7, <2>2 DEF LoadInv, LastWriteVisible
  <2>4. KernelReadsLastWrite'
    BY <1>3, <1>4 DEF LoadInv, NoRunDuringLoad, KernelReadsLastWrite
  <2>5. CASE i < Len(ns)
    <3>1. pending' # NULL /\ pending'.t = t /\ pending'.c = last'[pending'.t]
      <4>1. [pending EXCEPT !.i = i + 1] # NULL
        <5>1. [pending EXCEPT !.i = i + 1] \in PendingRec
          BY <1>1 DEF PendingRec
        <5> QED
          BY <5>1, ConstAssumption
      <4> QED
        BY <1>3, <2>1, <2>5, <4>1
    <3> QED
      BY <2>3, <2>4, <3>1 DEF LastWriteVisible
  <2>6. CASE ~(i < Len(ns))
    <3>1. pending' = NULL
      BY <1>3, <2>6
    <3>2. i = Len(ns)
      BY <1>1, <2>6
    <3>3. IsReplicated(TBuf[t]) /\ \A k \in 1..(i - 1) : mem[t][ns[k]] = c
      BY <1>1 DEF IInv, PendingInv, LoopNodes
    <3>4. \A j, k \in 1..Len(ns) : j # k => ns[j] # ns[k]
      BY <1>1, <3>3, ConstAssumption DEF IInv, MirrorShape, IsReplicated
    <3>5. \A k \in 1..Len(ns) : mem'[t][ns[k]] = c
      <4> SUFFICES ASSUME NEW k \in 1..Len(ns) PROVE mem'[t][ns[k]] = c
        OBVIOUS
      <4>1. CASE k = i
        BY <1>2, <1>8, <4>1
      <4>2. CASE k # i
        <5>1. ns[k] # ns[i] /\ k \in 1..(i - 1)
          BY <1>1, <3>2, <3>4, <4>2
        <5> QED
          BY <1>2, <1>8, <3>3, <5>1
      <4> QED
        BY <4>1, <4>2
    <3>6. ReadLocs(t) = {ns[k] : k \in 1..Len(ns)}
      BY <3>3 DEF ReadLocs, ReplicaNodes
    <3>7. \A u \in Tensors : \A l \in ReadLocs(u)' : mem'[u][l] = last'[u]
      <4> SUFFICES ASSUME NEW u \in Tensors, NEW l \in ReadLocs(u)'
                   PROVE  mem'[u][l] = last'[u]
        OBVIOUS
      <4>1. CASE u = t
        <5>1. l \in ReadLocs(t) /\ last'[u] = last[t]
          BY <1>3, <2>2, <4>1
        <5>2. PICK k \in 1..Len(ns) : l = ns[k]
          BY <3>6, <5>1
        <5>3. mem'[t][l] = c
          BY <3>5, <5>2
        <5> QED
          BY <2>1, <4>1, <5>1, <5>3
      <4>2. CASE u # t
        BY <2>3, <4>2
      <4> QED
        BY <4>1, <4>2
    <3> QED
      BY <2>4, <3>1, <3>7 DEF LastWriteVisible
  <2> QED
    BY <2>5, <2>6
<1> QED
  BY <1>6, <1>10, <1>11 DEF LoadInv

LEMMA NextLoadInv == IInv /\ LoadInv /\ [Next]_vars => LoadInv'
<1> SUFFICES ASSUME IInv, LoadInv, [Next]_vars PROVE LoadInv'
  OBVIOUS
<1>1. IInv'
  BY NextIInv
<1>2. CASE UNCHANGED vars
  <2>1. NoRunDuringLoad' /\ LoadedBeforeCompute' /\ UnallocatedUnwritten' /\ TraitsAttached'
    BY <1>2 DEF vars, LoadInv, NoRunDuringLoad, LoadedBeforeCompute, UnallocatedUnwritten,
                TraitsAttached
  <2> QED
    BY <1>2, <2>1, LayoutFrame, LastWriteFrame DEF vars, LoadInv
<1> QED
  BY <1>1, <1>2, AllocBufferLoad, ClearBufferLoad, FreeBufferLoad, InitTensorLoad,
     MemsetTensorLoad, SetTensorLoad, ReplicaWriteLoad, PhaseLoad, ComputeForwardLoad
     DEF Next

-----------------------------------------------------------------------------
(* Theorems.                                                                *)

\* IInv and the load-before-compute invariant hold in every reachable state,
\* for every number of buffers, tensors, nodes, payloads and ops.
THEOREM LoadInvInvariant == Spec => [](IInv /\ LoadInv)
<1>1. Init => IInv /\ LoadInv
  BY InitIInv, InitLoadInv
<1>2. IInv /\ LoadInv /\ [Next]_vars => (IInv /\ LoadInv)'
  BY NextIInv, NextLoadInv
<1> QED
  BY <1>1, <1>2, PTL DEF Spec

\* The only way a kernel can read anything but the loader's last write to
\* its weight (set_tensor, memset_tensor or clear), on any replica of a
\* NUMA mirror, is a set_tensor that took the mirror path on a plain buffer
\* whose weight bytes forged a mirror header.
THEOREM KernelReadsLastWriteUnlessStray ==
  Spec => [](NoStrayWrite => KernelReadsLastWrite)
<1>1. LoadInv => (NoStrayWrite => KernelReadsLastWrite)
  BY DEF LoadInv, LastWriteVisible, NoStrayWrite
<1> QED
  BY <1>1, LoadInvInvariant, PTL

\* With no weight bytes and no uninitialised memory that read as a mirror
\* header, set_tensor never writes astray.
LEMMA NoStrayStep ==
  ASSUME Forged = {}, UninitForged = FALSE, ~stray, [Next]_vars
  PROVE  ~stray'
<1>1. \A b \in Buffers : ~HeaderForged(b)
  BY DEF HeaderForged
<1>2. ASSUME NEW t \in Tensors, NEW p \in Payloads, SetTensor(t, p)
      PROVE  ~stray'
  <2>1. TakesMirrorPath(TBuf[t]) => buf[TBuf[t]].kind = "mirror"
    BY <1>1, ConstAssumption DEF TakesMirrorPath, IsReplicated
  <2> QED
    BY <2>1, <1>2 DEF SetTensor
<1> QED
  BY <1>2 DEF Next, vars, AllocBuffer, ClearBuffer, FreeBuffer, InitTensor, MemsetTensor,
              ReplicaWrite, StartCompute, ComputeForward, Teardown

\* When no payload and no fresh allocation can be mistaken for a mirror
\* header (the configuration of the amx_buffer run), every kernel reads
\* exactly the weight the loader last wrote, whichever replica it reads.
THEOREM KernelReadsLastWriteInvariant ==
  ASSUME Forged = {}, UninitForged = FALSE
  PROVE  Spec => []KernelReadsLastWrite
<1>1. Init => ~stray
  BY DEF Init
<1>2. ~stray /\ [Next]_vars => ~stray'
  BY NoStrayStep
<1>3. Spec => []NoStrayWrite
  BY <1>1, <1>2, PTL DEF Spec, NoStrayWrite
<1> QED
  BY <1>3, KernelReadsLastWriteUnlessStray, PTL

\* The model loader's weight placement: a weight of a type with AMX kernels
\* sits in an AMX buffer only when the ops that read it are MUL_MATs
\* (extra_buffer_type::supports_op accepts nothing else).
AmxWeightsOnlyMatMul ==
  \A o \in Ops : qtype_has_amx_kernels(TType[OpSpec[o].src0]) => OpSpec[o].kind = "MUL_MAT"

\* Dispatch and packing agree for every set of buffers, tensors and ops the
\* loader places that way: the AMX kernel reads packed data exactly for the
\* AMX types, and the default kernel never reads a packed weight.
THEOREM KernelLayoutAgreesInvariant ==
  ASSUME AmxWeightsOnlyMatMul
  PROVE  Spec => []KernelLayoutAgrees
<1>1. LoadInv => KernelLayoutAgrees
  <2> SUFFICES ASSUME LoadInv, NEW o \in Ops, ran[o] # NULL, ran[o].saw.val \in Payloads
               PROVE  IF ran[o].by = "amx"
                        THEN ran[o].saw.packed = qtype_has_amx_kernels(TType[OpSpec[o].src0])
                        ELSE ~ran[o].saw.packed
    BY DEF KernelLayoutAgrees
  <2>1. /\ ran[o].saw.packed = qtype_has_amx_kernels(TType[OpSpec[o].src0])
        /\ ran[o].by = "amx" <=> OpSpec[o].kind = "MUL_MAT"
    BY DEF LoadInv, LayoutInv, LayoutOK
  <2>2. ran[o].by # "amx" => ~qtype_has_amx_kernels(TType[OpSpec[o].src0])
    BY <2>1 DEF AmxWeightsOnlyMatMul
  <2> QED
    BY <2>1, <2>2
<1> QED
  BY <1>1, LoadInvInvariant, PTL

=============================================================================
