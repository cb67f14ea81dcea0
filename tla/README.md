# Verification of the AMX backend

TLA+ models of the Intel AMX backend of this repository (`src/ggml/src/ggml-cpu/amx/`,
`src/ggml/src/ggml-cpu-traits.cpp`, `src/ggml/src/ggml-amx*.c`), TLC runs that check
them on small instances, and TLAPS proofs of their main invariants for every
instance.

## The system

The backend has five parts (spec §2). They interact as follows.

* **Buffer type and traits dispatch** (`amx/amx.cpp`, `ggml-cpu-traits.cpp`).
  `ggml_backend_amx_buffer_type_alloc_buffer` allocates weight buffers.
  `init_tensor` attaches the stateless traits singleton to `tensor->extra`.
  `set_tensor` packs tensors of AMX-capable types (`qtype_has_amx_kernels`) and
  copies the others. At compute time, `ggml_cpu_extra_compute_forward` looks at
  `src[0]->extra` (then `op->extra`). It hands the op to the traits'
  `compute_forward`, which runs `ggml_backend_amx_mul_mat` for every MUL_MAT.
* **NUMA mirror replication** (`amx/amx.cpp`). Under the NUMA "mirror" strategy,
  `alloc_buffer` takes the buffer from the CPU buffer type. It then overrides
  `buft`, `init_tensor` and `set_tensor`. `set_tensor` casts `buffer->context` to
  a mirror header. If the magic matches, `n_replicas > 1` and `read_only` is set,
  it packs or copies the tensor once per active node, redirecting
  `tensor->data` to each replica in turn.
* **Tile configuration manager** (`ggml-amx-impl.c`, `ggml-amx-kernel.c`). This
  is the per-thread tile configuration (`ggml_amx_tile_config_init`,
  `config_tiles_simple`, `_tile_release`).
* **Weight packer** (`ggml-amx-impl.c`). `ggml_amx_pack_weights` and
  `pack_B_q4_0/q4_1/q8_0` repack quantised blocks into the VNNI tile layout.
  `ggml_amx_get_packed_size` gives the size of that layout.
* **Runtime gate and kernel stubs** (`ggml-amx.c`, `ggml-amx-kernels.c`). The
  global `g_amx_enabled` flag, the one-time `arch_prctl` entitlement, and the
  GEMV/GEMM entry points, most of which are stubs.

The buffer type is used during model loading by one thread. Compute runs later
on the engine's worker threads (spec §5).

## Modules

| module | models | source |
|---|---|---|
| `AmxBuffer` | buffer type, init/set/memset/clear/free, the mirror test and replication loop, traits dispatch | `amx/amx.cpp`, `ggml-cpu-traits.cpp`, `amx/common.h` |
| `MC_AmxBuffer` | a small instance of `AmxBuffer` for TLC | — |
| `AmxBuffer_proofs` | TLAPS proofs of the invariants of `AmxBuffer` | — |
| `AmxBufferRead_proofs` | TLAPS proofs that kernels read the last write in the layout they decode | — |
| `WeightPacker` | one call of `ggml_amx_pack_weights`: entry checks, the tile loop, the stores of `pack_B_q4_0/q4_1/q8_0` and `s8s8_compensation`, `ggml_amx_get_packed_size`, `ggml_amx_can_handle` | `ggml-amx-impl.c` |
| `PackWeightsContract` | what one call of `ggml_amx_pack_weights` promises: a single atomic step that returns a result and leaves the whole packed image or nothing | `ggml-amx-impl.c` |
| `WeightPacker_proofs` | TLAPS proofs that the tile loop refines `PackWeightsContract`, that its result is honest, that the call is well typed and that every row is packed | — |
| `WeightPackerLayout_proofs` | TLAPS proof that the stores of a successful call tile the packed buffer exactly | — |
| `AmxKernels` | `g_amx_enabled`, the permission requests (`ggml_amx_int8_init`, `ggml_amx_bf16_init`, `ggml_amx_init`), per-thread `ggml_amx_tile_config_init`, `config_tiles_simple`, `_tile_release`, `ggml_amx_test_tiles`, `ggml_amx_gemv_q4_0_q8_0_simple`, `ggml_vec_dot_q4_0_q8_0_amx`, `ggml_mul_mat_q4_0_q8_0_amx`, the stubs | `ggml-amx.c`, `ggml-amx-impl.c`, `ggml-amx-kernel.c`, `ggml-amx-kernels.c`, `amx/amx.cpp` |
| `MC_AmxKernels` | two interchangeable threads for TLC | — |
| `AmxKernels_proofs` | TLAPS proofs of the invariants of `AmxKernels` | — |

`PROJECT.json` maps every definition to the source lines it translates.

### AmxBuffer: state and actions

Memory is abstracted to what the properties tell apart. The content of a
tensor at a location is the payload last stored there, plus whether it was
stored in the packed layout.

* `numaMirror`: `ggml_get_numa_strategy() == GGML_NUMA_STRATEGY_MIRROR`, fixed
  before allocation.
* `buf[b]`: the buffer's kind (`none`/`plain`/`mirror`/`freed`). For a mirror,
  its `active_nodes` and `read_only`. Which `init_tensor`/`set_tensor` its
  interface holds, and whether `buffer->buft` is the AMX type.
* `placed[t]`, `extra[t]`: `tensor->data` assigned, and `tensor->extra`.
* `mem[t][l]`: the content of `t` at location `l`. A location is the host
  memory of a plain buffer or one NUMA node's replica.
* `pending`: the replication loop in progress (tensor, content, next index).
* `phase`: loading, compute, teardown.
* `stray`: a write went through replica pointers read from weight bytes.
* `last`, `ran`: history variables. `last` is what the last write meant to
  store; `ran` is which kernel ran each op and what it read.

The actions and the code they model:

* `AllocBuffer`: `alloc_buffer` (mirror or aligned_malloc).
* `InitTensor`: `init_tensor` through the buffer's iface.
* `SetTensor`: the mirror test and its three outcomes. The loop starts,
  or it is a stray write on a plain buffer whose bytes forge a header, or the
  tensor is packed or copied in place.
* `ReplicaWrite`: one iteration of the loop.
* `MemsetTensor`, `ClearBuffer`, `FreeBuffer`: the AMX iface functions.
* `StartCompute`: the loader returns.
* `ComputeForward`: the dispatcher, then the AMX or the default kernel reading
  one of the weight's locations.
* `Teardown`: the model is unloaded.

Under the mirror strategy the active node list and `read_only` flag are
chosen by the CPU mirror allocator, which is not in `src/`. The model lets
them be any injective non-empty node sequence and either flag. Which replica a
reader uses is also outside `src/` (spec §4.4): `ReadLocs` lets a kernel read
any active replica.

### WeightPacker: state and actions

One call of `ggml_amx_pack_weights(type, weights, packed_buffer, K, N)`. The
arguments are chosen from the constants `Types`, `Ks`, `Ns`. `enabled` is
`g_amx_enabled`.

Bytes are abstracted to what the properties tell apart:

* A store is the byte range `[lo, hi)` of `packed_buffer` it fills, plus the
  set of source items it holds.
* A source item is one part of one weight block. The block is named by its
  index in `weights` (row-major, `KB` blocks per row). The part is a 4-byte
  column group 0..7 of the quants, the scale `d`, the min `m`, or the s8s8
  compensation of the row.
* `NibbleStores` and `ByteStores` follow the transposes. After
  `transpose_8x8_32bit`, `tmp + n*64` holds column group `n` of rows 0..7
  (and, at `+32`, of rows 8..15). `packNibbles` merges groups `n` and
  `n+1`.
* `CompStore` computes the compensation of the rows whose eight groups lie in
  the 512 bytes `s8s8_compensation` reads.

The actions:

* `PackEntry`: the `g_amx_enabled` test and the alignment test.
* `PackTile`: one iteration, through `pack_B` at `TileAt(nb)` from
  `TileBase(nb)`. An unsupported type returns false from the `switch`.
* `PackDone`: return true.

`writes` and `reads` record every store and every block read.

**The contract and the refinement.** `PackWeightsContract` has the call's
arguments and three variables:

* `done`: the call has returned;
* `result`: its return value;
* `image`: the stores the caller can see.

Its one action `Call` returns `Accepts(type, K, N, enabled)`. It leaves
`Image(type, K, N)` when that is true and `{}` when it is false.
`WeightPacker` instantiates it as `Contract` with this mapping:

* `done` is `pc = "done"`;
* `image` is `writes` once the call has returned, and `{}` before;
* `Accepts` is `PackAccepts`: the entry checks pass, and either `NB = 0` or
  the `switch` knows the type;
* `Image` is `PackImage`: the union of `pack_B` over the tiles `0..NB-1`.

`PackEntry` into the loop and each successful `PackTile` are stutters of the
contract. A return, from the entry checks, from the `switch`'s default or
from `PackDone`, is its `Call`. `PackContract == Contract!Spec`.

### AmxKernels: state and actions

Shared state:

* `g_amx_enabled`;
* `g_amx_int8_initialized` and `g_amx_bf16_initialized`;
* `entitled`: the process holds the tile-data permission
  (`arch_prctl(ARCH_REQ_XCOMP_PERM)` grants it process-wide);
* `bufType`: the buffer type has been handed out;
* `platformAmx`: whether the request succeeds on this machine, chosen in
  `Init`.

Per-thread state:

* `pc` and `fn`: the thread's position in the function it is running;
* `is_first_time` and `tc`: the `_Thread_local` statics of
  `ggml_amx_tile_config_init`;
* `hw`: the loaded tile configuration, a `tile_config_t` over the slots
  TMM0..TMM7;
* `c0`: `C[0]` of the last `test_tiles`;
* `out`: what the last kernel did to its output (written, unwritten,
  declined).

`fault` records a SIGILL (an AMX instruction without the permission) or a
#UD (tile operations on an unconfigured or ill-shaped configuration). Either
ends the process.

`test_tiles` and `gemv_simple` are split at the points where they read shared
state or change tile state:

* `EnabledCheck`;
* `ggml_amx_tile_config_init`;
* `config_tiles_simple`;
* `TestTilesOps` (`_tile_zero`, `_tile_loadd`, `_tile_dpbssd`,
  `_tile_stored`) or `GemvLoop` (the scalar loop);
* `TileRelease`.

`AmxUnentitled` is the first AMX instruction of a call issued without the
permission. The permission is never revoked, so checking the first
instruction of each call covers the rest.

`ggml_amx_int8_init` is split into its flag check and `Int8Request`. Two
threads can both pass the check. The one-step kernels are:

* `ggml_vec_dot_q4_0_q8_0_amx`;
* `ggml_mul_mat_q4_0_q8_0_amx`, which returns false;
* `quantize_amx_int8`: the quantize stubs, which return 0 bytes;
* `KernelStub` and `Bf16KernelStub`: the void INT8 and BF16 GEMV/GEMM stubs.

## Runs

| run | cfg | expect | checks |
|---|---|---|---|
| `amx_buffer` | `AmxBuffer.cfg` | pass | `TypeOK`, `ReplicasAgree`, `KernelReadsLastWrite`, `KernelLayoutAgrees` |
| `amx_buffer_forged` | `AmxBufferForged.cfg` | violation | `NoStrayWrite` |
| `amx_buffer_dispatch` | `AmxBufferDispatch.cfg` | violation | `AmxOnlyForSupportedOps` |
| `weight_packer` | `WeightPacker.cfg` | pass | `TypeOK`, `LayoutExact`, `PackResultHonest`, `EveryRowPacked` |
| `weight_packer_contract` | `WeightPackerContract.cfg` | pass | `PackContract`, `Termination` |
| `weight_packer_kblocks` | `WeightPackerKBlocks.cfg` | violation | `PackCoversAllBlocks` |
| `weight_packer_empty_k` | `WeightPackerEmptyK.cfg` | violation | `ReadsInBounds` |
| `weight_packer_unsupported` | `WeightPackerUnsupported.cfg` | violation | `PackRejectsUnsupported` |
| `amx_kernels` | `AmxKernels.cfg` | pass | `TypeOK`, `TileOpsConfigured` |
| `amx_kernels_init` | `AmxKernelsInit.cfg` | violation | `TileConfigInitEnsures` |
| `amx_kernels_entitled` | `AmxKernelsEntitled.cfg` | violation | `TileOpsEntitled` |
| `amx_kernels_silent` | `AmxKernelsSilent.cfg` | violation | `NoSilentWrongAnswer` |

* `ReplicasAgree`: outside a write in progress to it, every active replica of
  a tensor in a read-only mirror holds the same content.
* `KernelReadsLastWrite`: whatever replica a kernel reads, it sees the
  content the loader last wrote to that tensor. It never sees an older or
  half-replicated one.
* `KernelLayoutAgrees`: the AMX kernel reads packed data for AMX types and raw
  data otherwise. The default kernel never reads packed data. A breach would
  be a silent wrong answer.
* `amx_buffer_forged`: shows the mirror test reading a header out of a plain
  buffer's weight bytes (finding 1).
* `amx_buffer_dispatch`: shows the dispatcher running the AMX kernel on a
  MUL_MAT that `supports_op` rejects (finding 2).

Each property of the passing run is broken by a mutant of the code. The
mutants are:

* a loop that never exits;
* a loop that stops one replica early;
* compute that starts before replication ends (breaks `KernelReadsLastWrite`);
* a mirror buffer that keeps the CPU `init_tensor`.

WeightPacker:

* `LayoutExact`: after a successful call, the stores tile
  `[0, get_packed_size(type, NB))` exactly. None overlaps another, none runs
  past the end, and no byte is left unwritten.
* `PackResultHonest`: true only for an enabled, aligned request, and false
  leaves the buffer untouched. When the request is enabled, aligned and
  non-empty, the result agrees with `ggml_amx_can_handle`.
* `EveryRowPacked`: after a successful call, every one of the `N` rows has
  its column groups, its scale (and min, and compensation) in the buffer.
* `PackContract` (run `weight_packer_contract`): the loop implements the
  all-or-nothing contract. A caller sees either the whole image with `true`,
  or an untouched buffer with `false`. This holds even though the type check
  sits inside the loop. It holds because the check fails in the first
  iteration, before any store.
* `Termination`: every call returns under weak fairness.
* `weight_packer_kblocks` (finding 3): with `K = 64` only K block 0 of each
  row is packed. `pack_B_*` reads `B[n * KB]` and nothing loops over K
  blocks.
* `weight_packer_empty_k` (finding 4): `K = 0` passes the alignment check,
  and the packer then reads 16 blocks from an empty weights array.
* `weight_packer_unsupported` (finding 5): with `N = 0` the loop, and with it
  the type check, never runs, so `Q4_K` is reported packed.

AmxKernels:

* `TileOpsConfigured`: `test_tiles`'s tile operations never meet an
  unconfigured or ill-shaped configuration, and always compute `C[0] = 64`.
  This holds on every call of every thread, whatever ran before.
* `amx_kernels_init` (finding 6): on a thread's second call,
  `tile_config_init` returns with the tiles still in the state
  `_tile_release` left. `TileOpsConfigured` holds only because
  `config_tiles_simple` always follows.
* `amx_kernels_entitled` (finding 7): `set_enabled(true)` on a machine where
  the permission request fails, then `test_tiles` or `gemv_simple`, raises
  SIGILL. The kernels check only the flag.
* `amx_kernels_silent` (finding 8): `vec_dot` with AMX disabled, and the
  void stubs, return without writing their output.

More mutants: the packer loop running while `nb <= NB`; the Q8_0 size without
the compensation array; the entry check without `N % TILE_N`; the weight
pointer stepping by `TILE_N` blocks instead of `TILE_N` rows; a C tile of
`TILE_K * 4` bytes; a caller that skips `config_tiles_simple`; a tile loop
that does not advance `nb` (breaks `Termination`).

**Bounds.** The instance has two buffers, three tensors, two nodes, two
payloads and four ops.
* The tensors are of a packed type (Q4_0), F16, and a second packed type
  (Q8_0) in another buffer.
* The ops are one supported MUL_MAT, one whose `ne0` is not a multiple of 32,
  a MUL_MAT on the F16 weight, and an op of another kind on the F16 weight.
  The last one runs the default kernel, the branch of `KernelLayoutAgrees`
  that checks the default kernel never decodes packed data.
* Both NUMA strategies are initial states.

Two nodes are enough for a mirror with `n_replicas > 1`, for both node orders,
and for a loop stopped between replicas. Two payloads are enough to tell an
old write from a new one. The run reaches 74,336 distinct states.

The WeightPacker runs use every type, with `Ks = {0, 31, 32, 64}` and
`Ns = {0, 15, 16, 32}`. Those values cover:

* an empty extent and a misaligned one;
* one and two K blocks, so `KB > 1` exercises the row stride;
* one and two N tiles, so tiles are laid side by side and can overlap.

More tiles or blocks repeat the same arithmetic. The pass run reaches 319
distinct states. The contract run uses `Ns = {0, 15, 16, 48}`, up to three
tiles, so a tile sits between two others.

AmxKernels has two threads. That is enough for:

* one thread's permission request to serve the other;
* both threads to pass `int8_init`'s check;
* a thread's first and later calls of `tile_config_init`.

The per-thread state is finite, so no bound is needed. All runs use
symmetry, because the threads are interchangeable and every property checked
is a state invariant. The pass run reaches 107,337 distinct states.

**Fairness.** The one liveness run assumes only weak fairness, and only of
steps that the code runs without waiting:

* `WeightPacker.FairSpec` has `WF_vars(Next)`. A call of
  `ggml_amx_pack_weights` runs on its caller's thread, with no lock and no
  wait. Weak fairness says only that this thread is not stopped forever.

Deadlock is not checked:

* The loader may stop at any point.
* A packer call ends.
* A SIGILL or #UD ends the process.

## Proofs

The `IInvInvariant` and `LoadInvInvariant` theorems below prove the
inductive strengthenings. They are lemmas for the theorems about the checked
properties, not properties of the code in their own right, so no run checks
them.

`AmxBuffer_proofs` proves, for every value of the constants that satisfies
`ConstAssumption`:

* `IInvInvariant`: `Spec => []IInv`;
* `TypeCorrect`: `Spec => []TypeOK`;
* `ReplicasAgreeInvariant`: `Spec => []ReplicasAgree`.

`ReplicasAgree` is not inductive by itself. A step of the replication loop
writes one replica, so mid-loop the replicas disagree. The strengthening
`IInv` adds three facts:

* `MirrorShape`: a mirror's active node list is non-empty and injective, and
  every set_tensor is the AMX one;
* `UnallocatedEmpty`: tensors of unallocated buffers are unplaced and empty;
* `PendingInv`: during the loop, the replicas already visited hold the new
  content and the ones still to visit agree among themselves.

When the loop's last step writes the last replica, `PendingInv` gives
agreement of all replicas. Injectivity is needed so that writing `nodes[i]`
leaves `nodes[j]`, `j # i`, unchanged.

The proof has one lemma per action. Each lemma goes through state-parameterised
forms of the conjuncts (`ReplicasAgreeIn(buf, mem, pending)` and so on), so
the SMT solver never unfolds the whole invariant.

`AmxBufferRead_proofs` proves what the kernels read, for every value of
the constants that satisfies `ConstAssumption` (which now also says that
`NULL` is none of the tensors, payloads and interface tags):

* `LoadInvInvariant`: `Spec => [](IInv /\ LoadInv)`;
* `KernelReadsLastWriteUnlessStray`: `Spec => [](NoStrayWrite =>
  KernelReadsLastWrite)`;
* `KernelReadsLastWriteInvariant`: `Spec => []KernelReadsLastWrite`, under
  the hypotheses `Forged = {}` and `UninitForged = FALSE` (no payload and no
  fresh allocation reads as a mirror header). These are the constants of the
  `amx_buffer` run. With a forged header the property is false: that is
  finding 1, shown by `amx_buffer_forged`.
* `KernelLayoutAgreesInvariant`: `Spec => []KernelLayoutAgrees`, under the
  hypothesis `AmxWeightsOnlyMatMul`: a weight of a type with AMX kernels is
  read only by MUL_MATs. This is the loader's placement rule.
  `extra_buffer_type::supports_op` accepts only MUL_MATs, so the loader puts
  a weight in an AMX buffer only for them. Without it, an op of another kind
  on a packed weight would run the default kernel on packed bytes. The
  dispatcher itself does not prevent this (compare finding 2).

Neither property is inductive. A kernel reads whatever its locations hold,
so the proof must know what every location holds at every step. `LoadInv`
strengthens `IInv` with six facts:

* `NoRunDuringLoad`: no op has run while the loader is loading;
* `LoadedBeforeCompute`: after the loader returns, no replication loop is
  pending and every tensor is placed;
* `UnallocatedUnwritten`: a tensor of an unallocated buffer has no last
  write;
* `TraitsAttached`: every buffer's `init_tensor` is the AMX one, and every
  placed tensor has the AMX traits in `extra`;
* `LayoutInv`: every payload at every location, in the pending loop and in
  what every op saw, is packed exactly when the tensor's type has AMX
  kernels, and the AMX kernel ran exactly for the MUL_MATs;
* `LastWriteVisible`: without a stray write, the pending loop carries the
  last write, every read location of every other tensor holds it, and every
  op saw it.

`LastWriteVisible` is the heart of the argument. A `ReplicaWrite` writes the
last write to one more replica. The loop's own tensor is excluded until it
finishes, and `LoadedBeforeCompute` keeps any op from running before then.
A stray write can put a payload at another tensor's location, which is why
the property is stated under `~stray`. `NoStrayStep` shows that `stray` stays
false when no header can be forged.

The proof has one lemma per action, as in `AmxBuffer_proofs`, and cites
`NextIInv` for the `IInv` part. `ReadLocsIn(r)` is the read-location set of
a buffer record. It lets a step relate `ReadLocs(t)'` to `buf'`.

`AmxKernels_proofs` proves, for every non-empty set of threads:

* `IInvInvariant`: `Spec => []IInv`;
* `TypeCorrect`: `Spec => []TypeOK`. Every configuration loaded is legal for
  palette 1.
* `TileOpsConfiguredInvariant`: `Spec => []TileOpsConfigured`.

`TileOpsConfigured` is not inductive. A thread at the tile operations could
hold any configuration. `IInv` adds that a thread at `test_tiles`'s tile
operations has `SimpleLayout` loaded. `config_tiles_simple` establishes this
as the thread moves there. No other step changes the thread's `hw` or `pc`
until the operations run. The lemma `SimpleFits` computes that
`SimpleLayout` passes the `_tile_dpbssd` shape check with `C[0] = 64`.

`WeightPacker_proofs` proves, for every `Types`, `Ks` and `Ns` with `K` and
`N` natural:

* `IInvInvariant`: `Spec => []IInv`;
* `PackResultHonestInvariant`: `Spec => []PackResultHonest`;
* `Refinement`: `Spec => PackContract`. The tile loop implements the atomic
  contract.
* `TypeCorrect`: `Spec => []TypeOK`;
* `EveryRowPackedInvariant`: `Spec => []EveryRowPacked`.

`IInv` records:

* in the loop, that the entry checks passed, that `writes` is
  `PartialImage(type, K, nb)` (the stores of iterations `0..nb-1`), and that
  a type the `switch` rejects means `nb = 0`;
* once the call has returned, that `result = PackAccepts(...)` and that
  `writes` is the whole image or empty.

`PartialImageStep` says that iteration `n` adds its tile to the first `n`.
`PartialImageWhole` says that `NB` iterations give `PackImage`. The proof
never expands `pack_B`: it is about which iterations ran, not the bytes they
store. The refinement follows the pattern of TLAPS's two-phase example:

* `Init => Contract!Init`;
* `IInv /\ IInv' /\ [Next]_vars => [Contract!Next]_Contract!vars`, with
  one case per return path;
* a `PTL` step.

The last two theorems do look into `pack_B`, one tile at a time:

* `PackBType`: every store of `pack_B_*` is a `Store`. With
  `PartialImageType`, this gives `writes \subseteq Store` at every point of
  the call. `TypeOK` also needs `reads \subseteq Nat`, which is carried
  beside `IInv` as the inductive invariant.
* `TileRows`: for each type, every part of each of the `TILE_N` rows of a
  tile is held by one of its stores. `NibbleRows` finds the `packNibbles`
  store of a column group. `ByteRows` finds the `transpose_8x8_32bit`
  store, within the first 512 bytes. `CompRows` concludes from this that
  `s8s8_compensation` covers every row.
* `IInvEveryRowPacked`: after a successful call, row `r` is row
  `r % TILE_N` of tile `r \div TILE_N`. That tile is among the `NB` that
  `PackImage` holds, and `B[n * KB]` of the tile is block `r * KB`.

`WeightPackerLayout_proofs` proves `LayoutExactInvariant`:
`Spec => []LayoutExact`, for every `Types`, `Ks` and `Ns`. It follows from
`IInv`, with no further strengthening, in two layers:

* One tile. `TileLayout` lists the stores of each type's `pack_B_*`:
  * Q4_0: four 64-byte `packNibbles` stores, then `d` at 256;
  * Q4_1: the same, then `m` at 288;
  * Q8_0: sixteen 32-byte transposes, `d` at 512 and the compensation at
    544.

  It shows that each store lies in `[at, at + get_packed_size(type, 1))` and
  that two distinct stores share no byte. `TileCover` shows that every byte
  of the tile is in some store.
* The call. Tile `i` lies in `[i * size1, (i + 1) * size1)`, so stores of
  different tiles are apart. Byte `b` lies in tile `b \div size1`, and
  `get_packed_size(type, NB) = NB * size1`.

**Only model-checked.** Every safety property of a passing run now has a
theorem. Two of the theorems (`KernelReadsLastWriteInvariant` and
`KernelLayoutAgreesInvariant`) carry hypotheses on the constants. The
`amx_buffer` instance satisfies them. These stay with TLC:

* The liveness property `Termination`. TLAPS does not check liveness under
  fairness or `ENABLED`.

## Not modelled

* The mirror allocator, the graph allocator and the threadpool. They are
  outside `src/` and enter the model only as nondeterministic choices.
* The AMX kernels' arithmetic (`ggml_backend_amx_mul_mat`,
  `ggml_backend_amx_convert_weight`). They are not in `src/`; the model keeps
  only which layout they write and read.
* Functions that change no state: `get_name`, `get_base`, `get_alignment`,
  `get_alloc_size`, `is_host`, `work_size`.
* FP16 conversion and logging.
* The numeric values the packer and the kernels compute. The packer keeps
  which block part lands in which byte range. The kernels keep whether the
  output is written. `test_tiles` keeps its `C[0]`.
* `configure_tiles_int8`, `configure_tiles_bf16` and `configure_amx_int8`:
  static functions that nothing calls.
* The test programs under `src/`:
  * `test_amx_simple.c` and `test_amx_kernel.c` call
    `ggml_amx_gemv_q4_0_8x8_q8_0` from `ggml-amx-repack.h`, which is not in
    the repository.
  * `test_amx_unit.cpp` is a self-contained float reference GEMV with its
    own FP16 conversion.

  They hold no state the backend shares and compute only numbers.
* The reload test of `ggml_amx_tile_config_init` (the `memcmp ... &&
  memcmp` at `ggml-amx-impl.c:62`). `NeedsReload` models it, but it is dead
  code. It runs only on a thread's first call, when the static `tc` is still
  zero and `palette_id == 0` already decides it. Every later call returns at
  line 53. No property can tell `&&` from `||`.

## Plan

* Compose `AmxBuffer` with `AmxKernels`, so that the buffer type exists only
  after the permission request succeeds.
