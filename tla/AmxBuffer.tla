----------------------------- MODULE AmxBuffer -----------------------------
(***************************************************************************)
(* The AMX buffer type of ggml-cpu/amx/amx.cpp and the extra-traits         *)
(* dispatcher of ggml-cpu-traits.cpp.                                       *)
(*                                                                         *)
(* A weight buffer is allocated either plainly (ggml_aligned_malloc, the   *)
(* AMX buffer interface) or, under the NUMA "mirror" strategy, by the CPU  *)
(* buffer type with init_tensor/set_tensor overridden.  set_tensor packs   *)
(* tensors of AMX-capable types (convert_weight) and copies the others; on *)
(* a read-only mirror buffer with more than one replica it does so once    *)
(* per active node, one loop iteration per step.  After loading, compute  *)
(* ops are dispatched to the AMX traits object found in src[0]->extra.    *)
(*                                                                         *)
(* Memory is abstracted to what the properties tell apart: the content of *)
(* a tensor at each location is the payload last stored there and whether *)
(* it was stored in the packed (VNNI) layout.                             *)
(***************************************************************************)
EXTENDS Naturals, Sequences, FiniteSets

CONSTANTS
  Buffers,       \* weight buffers allocated through the AMX buffer type
  Tensors,       \* weight tensors placed in those buffers
  Nodes,         \* NUMA nodes a mirror buffer may replicate to
  Payloads,      \* weight data passed to set_tensor
  Ops,           \* compute-graph nodes that read a weight tensor
  TBuf,          \* TBuf[t]: the buffer the allocator placed t in
  TType,         \* TType[t]: the ggml type of t
  StartTensor,   \* StartTensor[b]: the tensor at offset 0 of b
  OpSpec,        \* OpSpec[o]: the shape of op o (see OpRec)
  Forged,        \* payloads whose leading bytes read as a mirror header
  UninitForged,  \* whether fresh aligned_malloc memory may read as one
  NULL

\* ggml types the model distinguishes.
AmxQTypes == {"Q4_0", "Q4_1", "Q8_0", "Q4_K", "Q5_K", "Q6_K", "IQ4_XS"}
Types == AmxQTypes \cup {"F16", "F32", "Q2_K"}

\* The host location of a plain buffer; a mirror buffer has one per node.
Host == "host"
Locs == Nodes \cup {Host}

OpRec == [kind: {"MUL_MAT", "OTHER"}, src0: Tensors, contig0: BOOLEAN,
          contig1: BOOLEAN, ne0: Nat, src1Type: Types, src1Host: BOOLEAN]

\* What a location holds: a payload (or "none" before any write, "fill"
\* after a memset/clear) and whether it is in the packed layout.
Vals == Payloads \cup {"none", "fill"}
Content == [val: Vals, packed: BOOLEAN]
Empty == [val |-> "none", packed |-> FALSE]
Filled == [val |-> "fill", packed |-> FALSE]

\* An allocated buffer: its kind, the mirror's active_nodes (in order) and
\* read_only flag, which init_tensor/set_tensor its iface holds, and
\* whether buffer->buft is the AMX buffer type.
BufRec == [kind: {"none", "plain", "mirror", "freed"}, nodes: Seq(Nodes),
           readOnly: BOOLEAN, iface: [init: {"amx", "cpu"}, set: {"amx", "cpu"}],
           buftAmx: BOOLEAN]

\* The replication loop in progress: tensor, content, next loop index.
PendingRec == [t: Tensors, c: Content, i: Nat \ {0}]

ASSUME ConstAssumption ==
  /\ IsFiniteSet(Nodes) /\ Nodes # {}
  /\ Host \notin Nodes
  /\ TBuf \in [Tensors -> Buffers]
  /\ TType \in [Tensors -> Types]
  /\ StartTensor \in [Buffers -> Tensors]
  /\ \A b \in Buffers : TBuf[StartTensor[b]] = b
  /\ OpSpec \in [Ops -> OpRec]
  /\ Forged \subseteq Payloads
  /\ UninitForged \in BOOLEAN
  /\ NULL \notin Tensors \cup Payloads \cup {"none", "fill", "amx"}
  /\ Payloads \cap {"none", "fill"} = {}
  /\ NULL \notin PendingRec

VARIABLES
  numaMirror,  \* ggml_get_numa_strategy() == GGML_NUMA_STRATEGY_MIRROR
  buf,         \* [Buffers -> BufRec]
  placed,      \* tensor->data assigned in its buffer (ggml_backend_tensor_alloc)
  extra,       \* tensor->extra: NULL or the AMX traits singleton
  mem,         \* [Tensors -> [Locs -> Content]]
  pending,     \* NULL or the set_tensor replication loop in progress
  phase,       \* "load", "compute" or "teardown"
  stray,       \* a write went through pointers read from weight bytes
  last,        \* history: content the last write intended for each tensor
  ran          \* history: for each op, which kernel ran and what it read

vars == <<numaMirror, buf, placed, extra, mem, pending, phase, stray, last, ran>>

RunRec == [by: {"amx", "default"}, saw: Content]

\* The injective sequences of nodes ggml's mirror allocator can activate.
ActiveNodeSeqs ==
  UNION {{s \in [1..n -> Nodes] : \A i, j \in 1..n : i # j => s[i] # s[j]} :
           n \in 1..Cardinality(Nodes)}

-----------------------------------------------------------------------------
(* Helpers translated from the code.                                       *)

\* qtype_has_amx_kernels (common.h)
qtype_has_amx_kernels(ty) == ty \in AmxQTypes

\* What set_tensor stores for t: packed by convert_weight or a raw memcpy.
Stored(t, p) == [val |-> p, packed |-> qtype_has_amx_kernels(TType[t])]

\* The location tensor->data points at: the host memory of a plain buffer,
\* the base replica (replicas[active_nodes[0]]) of a mirror buffer.
BaseLoc(b) == IF buf[b].kind = "mirror" THEN buf[b].nodes[1] ELSE Host

ReplicaNodes(b) == {buf[b].nodes[k] : k \in 1..Len(buf[b].nodes)}

\* A mirror buffer that set_tensor replicates: magic matches, n_replicas > 1
\* and read_only.
IsReplicated(b) ==
  /\ buf[b].kind = "mirror"
  /\ Len(buf[b].nodes) > 1
  /\ buf[b].readOnly

\* For a plain buffer, buffer->context is the weight memory itself: the
\* magic/n_replicas/read_only test reads the first bytes of the tensor at
\* offset 0 (uninitialised until written).
HeaderForged(b) ==
  LET c == mem[StartTensor[b]][Host]
  IN  IF c.val = "none" THEN UninitForged ELSE c.val \in Forged

\* The mirror test of ggml_backend_amx_buffer_set_tensor.
TakesMirrorPath(b) ==
  \/ IsReplicated(b)
  \/ buf[b].kind = "plain" /\ HeaderForged(b)

\* Mutant: the mirror buffer keeps the CPU init_tensor (no AMX traits).
MirrorIface_NoInit == [init |-> "cpu", set |-> "amx"]

\* The interface installed on a buffer allocated under the mirror strategy.
MirrorIface == [init |-> "amx", set |-> "amx"]

\* ggml_cpu_extra_compute_forward: the tensor whose extra is consulted
\* (src[0] first; outputs live in compute buffers whose extra is NULL).
TraitsTensor(o) ==
  IF extra[OpSpec[o].src0] # NULL THEN OpSpec[o].src0 ELSE NULL

\* tensor_traits::compute_forward: handles MUL_MAT only.
AmxHandles(o) == TraitsTensor(o) # NULL /\ OpSpec[o].kind = "MUL_MAT"

\* extra_buffer_type::supports_op
supports_op(o) ==
  LET s == OpSpec[o] IN
  /\ s.kind = "MUL_MAT"
  /\ s.contig0 /\ s.contig1
  /\ buf[TBuf[s.src0]].kind # "none" /\ buf[TBuf[s.src0]].buftAmx
  /\ s.ne0 % 32 = 0
  /\ qtype_has_amx_kernels(TType[s.src0]) \/ TType[s.src0] = "F16"
  /\ s.src1Host
  /\ s.src1Type = "F32"

\* Where a kernel reads t: any active replica of a replicated buffer (the
\* reader's local node, chosen by the mirror subsystem), else tensor->data.
ReadLocs(t) ==
  IF IsReplicated(TBuf[t]) THEN ReplicaNodes(TBuf[t]) ELSE {BaseLoc(TBuf[t])}

-----------------------------------------------------------------------------
(* Initial state: no buffer allocated, the NUMA strategy fixed by           *)
(* ggml_numa_init before any allocation.                                    *)

Init ==
  /\ numaMirror \in BOOLEAN
  /\ buf = [b \in Buffers |-> [kind |-> "none", nodes |-> <<>>, readOnly |-> FALSE,
                               iface |-> [init |-> "amx", set |-> "amx"],
                               buftAmx |-> FALSE]]
  /\ placed = [t \in Tensors |-> FALSE]
  /\ extra = [t \in Tensors |-> NULL]
  /\ mem = [t \in Tensors |-> [l \in Locs |-> Empty]]
  /\ pending = NULL
  /\ phase = "load"
  /\ stray = FALSE
  /\ last = [t \in Tensors |-> Empty]
  /\ ran = [o \in Ops |-> NULL]

\* ggml_backend_amx_buffer_type_alloc_buffer.  Under the mirror strategy the
\* CPU buffer type allocates the mirror (its active nodes and read_only flag
\* are its choice), then buft, init_tensor and set_tensor are overridden.
\* Otherwise ggml_aligned_malloc and the AMX interface.  A failed allocation
\* returns NULL and changes nothing.
AllocBuffer(b) ==
  /\ phase = "load"
  /\ buf[b].kind = "none"
  /\ \/ /\ numaMirror
        /\ \E ns \in ActiveNodeSeqs, ro \in BOOLEAN :
             buf' = [buf EXCEPT ![b] = [kind |-> "mirror", nodes |-> ns,
                                         readOnly |-> ro, iface |-> MirrorIface,
                                         buftAmx |-> TRUE]]
     \/ /\ ~numaMirror
        /\ buf' = [buf EXCEPT ![b] = [kind |-> "plain", nodes |-> <<>>,
                                       readOnly |-> FALSE,
                                       iface |-> [init |-> "amx", set |-> "amx"],
                                       buftAmx |-> TRUE]]
  /\ UNCHANGED <<numaMirror, placed, extra, mem, pending, phase, stray, last, ran>>

\* The allocator places t in its buffer and calls init_tensor through the
\* buffer's iface: the AMX one attaches the traits singleton to
\* tensor->extra, the CPU one leaves extra alone.
InitTensor(t) ==
  LET b == TBuf[t] IN
  /\ phase = "load"
  /\ buf[b].kind \in {"plain", "mirror"}
  /\ ~placed[t]
  /\ placed' = [placed EXCEPT ![t] = TRUE]
  /\ extra' = IF buf[b].iface.init = "amx" THEN [extra EXCEPT ![t] = "amx"] ELSE extra
  /\ UNCHANGED <<numaMirror, buf, mem, pending, phase, stray, last, ran>>

\* ggml_backend_amx_buffer_set_tensor(t, p) for a whole tensor, called by
\* the single-threaded loader.  Three outcomes:
\*  - the mirror test passes on a real mirror: the replication loop starts;
\*  - it passes on a plain buffer whose weight bytes forge a header: the
\*    writes go through replica pointers read from weight memory;
\*  - otherwise pack-or-copy at tensor->data.
\* A CPU set_tensor (iface not overridden) copies raw bytes.
SetTensor(t, p) ==
  LET b == TBuf[t]
      c == IF buf[b].iface.set = "amx" THEN Stored(t, p) ELSE [val |-> p, packed |-> FALSE]
  IN
  /\ phase = "load"
  /\ pending = NULL
  /\ placed[t]
  /\ last' = [last EXCEPT ![t] = c]
  /\ IF buf[b].iface.set = "amx" /\ TakesMirrorPath(b)
       THEN IF buf[b].kind = "mirror"
              THEN /\ pending' = [t |-> t, c |-> c, i |-> 1]
                   /\ UNCHANGED <<mem, stray>>
              ELSE /\ stray' = TRUE
                   /\ UNCHANGED <<mem, pending>>
       ELSE /\ mem' = [mem EXCEPT ![t][BaseLoc(b)] = c]
            /\ UNCHANGED <<pending, stray>>
  /\ UNCHANGED <<numaMirror, buf, placed, extra, phase, ran>>

\* Mutant: the loop never exits (i runs past n_replicas).
ReplicaWrite_NoExit ==
  /\ pending # NULL
  /\ LET t == pending.t
         ns == buf[TBuf[t]].nodes
     IN
     /\ mem' = [mem EXCEPT ![t][ns[pending.i]] = pending.c]
     /\ pending' = [pending EXCEPT !.i = pending.i + 1]
  /\ UNCHANGED <<numaMirror, buf, placed, extra, phase, stray, last, ran>>

\* Mutant: the loop stops one replica early (i < n_replicas - 1).
ReplicaWrite_OffByOne ==
  /\ pending # NULL
  /\ LET t == pending.t
         ns == buf[TBuf[t]].nodes
     IN
     /\ mem' = [mem EXCEPT ![t][ns[pending.i]] = pending.c]
     /\ pending' = IF pending.i + 1 < Len(ns)
                     THEN [pending EXCEPT !.i = pending.i + 1]
                     ELSE NULL
  /\ UNCHANGED <<numaMirror, buf, placed, extra, phase, stray, last, ran>>

\* One iteration of the replication loop: redirect tensor->data to the
\* replica of active_nodes[i], pack-or-copy there, restore tensor->data.
ReplicaWrite ==
  /\ pending # NULL
  /\ LET t == pending.t
         ns == buf[TBuf[t]].nodes
     IN
     /\ mem' = [mem EXCEPT ![t][ns[pending.i]] = pending.c]
     /\ pending' = IF pending.i < Len(ns)
                     THEN [pending EXCEPT !.i = pending.i + 1]
                     ELSE NULL
  /\ UNCHANGED <<numaMirror, buf, placed, extra, phase, stray, last, ran>>

\* ggml_backend_amx_buffer_memset_tensor: memset at tensor->data (plain
\* buffers; a mirror buffer keeps the CPU memset_tensor).
MemsetTensor(t) ==
  /\ phase = "load"
  /\ pending = NULL
  /\ placed[t]
  /\ buf[TBuf[t]].kind = "plain"
  /\ mem' = [mem EXCEPT ![t][Host] = Filled]
  /\ last' = [last EXCEPT ![t] = Filled]
  /\ UNCHANGED <<numaMirror, buf, placed, extra, pending, phase, stray, ran>>

\* ggml_backend_amx_buffer_clear: memset of the whole context (plain).
ClearBuffer(b) ==
  /\ phase = "load"
  /\ pending = NULL
  /\ buf[b].kind = "plain"
  /\ mem' = [t \in Tensors |-> IF TBuf[t] = b THEN [mem[t] EXCEPT ![Host] = Filled]
                                            ELSE mem[t]]
  /\ last' = [t \in Tensors |-> IF TBuf[t] = b THEN Filled ELSE last[t]]
  /\ UNCHANGED <<numaMirror, buf, placed, extra, pending, phase, stray, ran>>

\* Mutant: compute may start while a replication loop is still running.
StartCompute_Early ==
  /\ phase = "load"
  /\ \A t \in Tensors : placed[t]
  /\ phase' = "compute"
  /\ UNCHANGED <<numaMirror, buf, placed, extra, mem, pending, stray, last, ran>>

\* The loader returns: every weight tensor was placed and replication is
\* complete before any worker reads.
StartCompute ==
  /\ phase = "load"
  /\ pending = NULL
  /\ \A t \in Tensors : placed[t]
  /\ phase' = "compute"
  /\ UNCHANGED <<numaMirror, buf, placed, extra, mem, pending, stray, last, ran>>

\* A worker runs op o: ggml_cpu_extra_compute_forward hands it to the
\* traits found in src[0]->extra, which runs ggml_backend_amx_mul_mat for a
\* MUL_MAT; otherwise the default kernel runs.  Either reads src[0] at one
\* of its read locations.
ComputeForward(o) ==
  LET t == OpSpec[o].src0 IN
  /\ phase = "compute"
  /\ \E l \in ReadLocs(t) :
       ran' = [ran EXCEPT ![o] = [by |-> IF AmxHandles(o) THEN "amx" ELSE "default",
                                  saw |-> mem[t][l]]]
  /\ UNCHANGED <<numaMirror, buf, placed, extra, mem, pending, phase, stray, last>>

\* The model is unloaded: compute stops, buffers are freed.
Teardown ==
  /\ phase = "compute"
  /\ phase' = "teardown"
  /\ UNCHANGED <<numaMirror, buf, placed, extra, mem, pending, stray, last, ran>>

\* ggml_backend_amx_buffer_free_buffer: free(buffer->context) (plain; a
\* mirror buffer keeps the CPU free_buffer).
FreeBuffer(b) ==
  /\ phase = "teardown"
  /\ buf[b].kind = "plain"
  /\ buf' = [buf EXCEPT ![b].kind = "freed"]
  /\ UNCHANGED <<numaMirror, placed, extra, mem, pending, phase, stray, last, ran>>

Next ==
  \/ \E b \in Buffers : AllocBuffer(b) \/ ClearBuffer(b) \/ FreeBuffer(b)
  \/ \E t \in Tensors : InitTensor(t) \/ MemsetTensor(t)
  \/ \E t \in Tensors, p \in Payloads : SetTensor(t, p)
  \/ ReplicaWrite
  \/ StartCompute
  \/ \E o \in Ops : ComputeForward(o)
  \/ Teardown

Spec == Init /\ [][Next]_vars

-----------------------------------------------------------------------------
(* Properties.                                                              *)

TypeOK ==
  /\ numaMirror \in BOOLEAN
  /\ buf \in [Buffers -> BufRec]
  /\ placed \in [Tensors -> BOOLEAN]
  /\ extra \in [Tensors -> {NULL, "amx"}]
  /\ mem \in [Tensors -> [Locs -> Content]]
  /\ pending \in {NULL} \cup PendingRec
  /\ pending # NULL => pending.i \in 1..Len(buf[TBuf[pending.t]].nodes)
  /\ phase \in {"load", "compute", "teardown"}
  /\ stray \in BOOLEAN
  /\ last \in [Tensors -> Content]
  /\ ran \in [Ops -> {NULL} \cup RunRec]

\* Mirror replication (set_tensor's per-node loop): outside a write to it in
\* progress, every active replica of a tensor in a read-only mirror buffer
\* holds the same bytes, so a worker reads the same weight on every node.
ReplicasAgree ==
  \A t \in Tensors :
    (IsReplicated(TBuf[t]) /\ (pending = NULL \/ pending.t # t)) =>
      \A m, n \in ReplicaNodes(TBuf[t]) : mem[t][m] = mem[t][n]

\* Load before compute: whatever replica or location a kernel reads, it sees
\* the weight the loader last wrote to that tensor (set_tensor, memset or
\* clear), never an older or partially replicated one.
KernelReadsLastWrite ==
  \A o \in Ops : ran[o] # NULL => ran[o].saw = last[OpSpec[o].src0]

\* Dispatch and packing agree: a kernel that read a weight payload read it
\* in the layout it decodes.  The AMX kernel decodes AMX-capable types in
\* the packed layout and others raw; the default kernel decodes raw bytes,
\* so it must never be handed a packed weight (a silent wrong answer).
KernelLayoutAgrees ==
  \A o \in Ops :
    (ran[o] # NULL /\ ran[o].saw.val \in Payloads) =>
      IF ran[o].by = "amx"
        THEN ran[o].saw.packed = qtype_has_amx_kernels(TType[OpSpec[o].src0])
        ELSE ~ran[o].saw.packed

\* The spec: a buffer is a mirror only if it really is one; set_tensor on a
\* plain buffer never writes through pointers it read from weight memory.
NoStrayWrite == ~stray

\* The spec: the AMX kernel runs only for ops supports_op accepts; anything
\* else falls back to the default kernel.
AmxOnlyForSupportedOps ==
  \A o \in Ops : (ran[o] # NULL /\ ran[o].by = "amx") => supports_op(o)

-----------------------------------------------------------------------------
(* The inductive strengthening of ReplicasAgree used by the proofs in      *)
(* AmxBuffer_proofs.                                                        *)

\* Every allocated mirror has a non-empty injective active_nodes list and
\* every buffer's set_tensor is the AMX one.
MirrorShape ==
  \A b \in Buffers :
    /\ buf[b].iface.set = "amx"
    /\ buf[b].kind = "mirror" =>
         /\ Len(buf[b].nodes) >= 1
         /\ \A j, k \in 1..Len(buf[b].nodes) :
              j # k => buf[b].nodes[j] # buf[b].nodes[k]

\* A tensor of a buffer not yet allocated is unplaced and untouched.
UnallocatedEmpty ==
  \A t \in Tensors :
    buf[TBuf[t]].kind = "none" =>
      /\ ~placed[t]
      /\ mem[t] = [l \in Locs |-> Empty]

\* The active_nodes list the replication loop in progress walks.
LoopNodes == buf[TBuf[pending.t]].nodes

\* During the replication loop of set_tensor, the replicas already visited
\* hold the new content and the ones still to visit agree among themselves.
PendingInv ==
  pending # NULL =>
    /\ IsReplicated(TBuf[pending.t])
    /\ \A k \in 1..(pending.i - 1) : mem[pending.t][LoopNodes[k]] = pending.c
    /\ \A j, k \in pending.i..Len(LoopNodes) :
         mem[pending.t][LoopNodes[j]] = mem[pending.t][LoopNodes[k]]

\* The inductive invariant: the replicas of a read-only mirror agree, with
\* what makes that inductive.
IInv ==
  /\ TypeOK
  /\ MirrorShape
  /\ UnallocatedEmpty
  /\ PendingInv
  /\ ReplicasAgree

-----------------------------------------------------------------------------
(* The inductive strengthening of KernelReadsLastWrite and                 *)
(* KernelLayoutAgrees used by the proofs in AmxBufferRead_proofs.  It     *)
(* rests on IInv.                                                          *)

\* What the weight bytes at a location mean: a payload set_tensor stored is
\* packed exactly when the tensor's type has AMX kernels.
LayoutOK(t, c) == c.val \in Payloads => c.packed = qtype_has_amx_kernels(TType[t])

\* No kernel runs while the loader is still loading.
NoRunDuringLoad == phase = "load" => \A o \in Ops : ran[o] = NULL

\* Compute starts only after the replication loop is over and every weight
\* tensor was placed.
LoadedBeforeCompute == phase # "load" => pending = NULL /\ \A t \in Tensors : placed[t]

\* A tensor of a buffer not yet allocated was never written.
UnallocatedUnwritten == \A t \in Tensors : buf[TBuf[t]].kind = "none" => last[t] = Empty

\* Every buffer's init_tensor is the AMX one, so every placed tensor carries
\* the AMX traits in tensor->extra.
TraitsAttached ==
  /\ \A b \in Buffers : buf[b].iface.init = "amx"
  /\ \A t \in Tensors : placed[t] => extra[t] = "amx"

\* Every payload stored, in memory or in the replication loop, is in its
\* type's layout; every kernel that ran saw such a payload, and the AMX
\* kernel ran exactly for the MUL_MATs.
LayoutInv ==
  /\ \A t \in Tensors, l \in Locs : LayoutOK(t, mem[t][l])
  /\ pending # NULL => LayoutOK(pending.t, pending.c)
  /\ \A o \in Ops :
       ran[o] # NULL =>
         /\ LayoutOK(OpSpec[o].src0, ran[o].saw)
         /\ ran[o].by = "amx" <=> OpSpec[o].kind = "MUL_MAT"

\* Unless a write went astray, every location a kernel may read holds the
\* loader's last write to the tensor, except the tensor whose replication
\* loop is running, which carries that write.
LastWriteVisible ==
  ~stray =>
    /\ pending # NULL => pending.c = last[pending.t]
    /\ \A t \in Tensors :
         (pending = NULL \/ pending.t # t) =>
           \A l \in ReadLocs(t) : mem[t][l] = last[t]
    /\ KernelReadsLastWrite

\* Load before compute, with what makes it inductive.
LoadInv ==
  /\ NoRunDuringLoad
  /\ LoadedBeforeCompute
  /\ UnallocatedUnwritten
  /\ TraitsAttached
  /\ LayoutInv
  /\ LastWriteVisible

=============================================================================
