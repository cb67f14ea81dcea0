------------------------- MODULE AmxKernels_proofs -------------------------
(***************************************************************************)
(* Proofs about AmxKernels: every tile configuration a thread loads is     *)
(* legal, and ggml_amx_test_tiles's tile operations always run on the      *)
(* layout of config_tiles_simple, for any number of threads.               *)
(***************************************************************************)
EXTENDS AmxKernels, TLAPS

\* The three configurations the code puts in a thread's tile registers are
\* tile_config_t values palette 1 accepts.
LEMMA LayoutsLegal ==
  NoTiles \in TileConfig /\ InitLayout \in TileConfig /\ SimpleLayout \in TileConfig
BY DEF NoTiles, InitLayout, SimpleLayout, TileConfig, Slots, TILE_M, TILE_K

\* test_tiles's tile operations fit the simple layout and yield C[0] = 64.
LEMMA SimpleFits ==
  TileOpsFault(SimpleLayout) = "none" /\ DpbssdC0(SimpleLayout) = 64
<1>1. DpbssdShapeOK(SimpleLayout)
  BY DEF DpbssdShapeOK, SimpleLayout, Slots
<1>2. SimpleLayout.palette_id # 0
  BY DEF SimpleLayout
<1> QED
  BY <1>1, <1>2 DEF TileOpsFault, DpbssdC0, SimpleLayout, Slots

\* The initial state satisfies the inductive invariant.
LEMMA InitIInv == Init => IInv
BY LayoutsLegal DEF Init, IInv, TypeOK, TileOpsConfigured

-----------------------------------------------------------------------------
(* One lemma per group of actions: each preserves IInv.                    *)

\* The gate: set_enabled, the two permission requests and the buffer type
\* change shared flags only; int8_init may send the thread to test_tiles's
\* enabled check, before any tile operation.
LEMMA GateStep ==
  ASSUME IInv, NEW t \in Threads,
         \/ ggml_amx_set_enabled(t) \/ ggml_amx_int8_init(t) \/ Int8Request(t)
         \/ ggml_amx_bf16_init(t) \/ ggml_backend_amx_buffer_type(t)
  PROVE  IInv'
<1> USE DEF IInv, TypeOK, TileOpsConfigured, globals, locals
<1>1. CASE ggml_amx_set_enabled(t)
  BY <1>1 DEF ggml_amx_set_enabled
<1>2. CASE ggml_amx_int8_init(t)
  BY <1>2 DEF ggml_amx_int8_init, Goto
<1>3. CASE Int8Request(t)
  <2>1. CASE platformAmx
    <3>1. /\ pc' = [pc EXCEPT ![t] = "check"]
          /\ fn' = [fn EXCEPT ![t] = "test_tiles"]
          /\ entitled' = TRUE /\ g_amx_int8_initialized' = TRUE
          /\ UNCHANGED <<platformAmx, g_amx_enabled, g_amx_bf16_initialized,
                         bufType, fault, is_first_time, tc, hw, c0, out>>
      BY <1>3, <2>1 DEF Int8Request, Goto
    <3> QED
      BY <3>1
  <2>2. CASE ~platformAmx
    <3>1. /\ pc' = [pc EXCEPT ![t] = "idle"]
          /\ UNCHANGED <<platformAmx, g_amx_enabled, g_amx_bf16_initialized,
                         bufType, fault, is_first_time, tc, hw, c0, out,
                         entitled, g_amx_int8_initialized, fn>>
      BY <1>3, <2>2 DEF Int8Request, Goto
    <3> QED
      BY <3>1
  <2> QED
    BY <2>1, <2>2
<1>4. CASE ggml_amx_bf16_init(t)
  BY <1>4 DEF ggml_amx_bf16_init
<1>5. CASE ggml_backend_amx_buffer_type(t)
  BY <1>5 DEF ggml_backend_amx_buffer_type
<1> QED
  BY <1>1, <1>2, <1>3, <1>4, <1>5

\* The calls of test_tiles and gemv_simple, the enabled check and the
\* kernels that run in one step.
LEMMA CallStep ==
  ASSUME IInv, NEW t \in Threads,
         \/ ggml_amx_test_tiles(t) \/ ggml_amx_gemv_q4_0_q8_0_simple(t)
         \/ EnabledCheck(t) \/ GemvLoop(t)
         \/ ggml_vec_dot_q4_0_q8_0_amx(t) \/ ggml_mul_mat_q4_0_q8_0_amx(t)
         \/ quantize_amx_int8(t) \/ KernelStub(t) \/ Bf16KernelStub(t)
  PROVE  IInv'
<1> USE DEF IInv, TypeOK, TileOpsConfigured, globals, locals, Goto
<1>1. CASE ggml_amx_test_tiles(t)
  BY <1>1 DEF ggml_amx_test_tiles
<1>2. CASE ggml_amx_gemv_q4_0_q8_0_simple(t)
  BY <1>2 DEF ggml_amx_gemv_q4_0_q8_0_simple
<1>3. CASE EnabledCheck(t)
  BY <1>3 DEF EnabledCheck
<1>4. CASE GemvLoop(t)
  BY <1>4 DEF GemvLoop
<1>5. CASE ggml_vec_dot_q4_0_q8_0_amx(t)
  BY <1>5 DEF ggml_vec_dot_q4_0_q8_0_amx
<1>6. CASE ggml_mul_mat_q4_0_q8_0_amx(t)
  BY <1>6 DEF ggml_mul_mat_q4_0_q8_0_amx
<1>7. CASE quantize_amx_int8(t)
  BY <1>7 DEF quantize_amx_int8
<1>8. CASE KernelStub(t)
  BY <1>8 DEF KernelStub
<1>9. CASE Bf16KernelStub(t)
  BY <1>9 DEF Bf16KernelStub
<1> QED
  BY <1>1, <1>2, <1>3, <1>4, <1>5, <1>6, <1>7, <1>8, <1>9

\* An AMX instruction without the entitlement ends the process: only fault
\* changes, to "unentitled".
LEMMA SigillStep ==
  ASSUME IInv, NEW t \in Threads, AmxUnentitled(t)
  PROVE  IInv'
BY DEF AmxUnentitled, Sigill, IInv, TypeOK, TileOpsConfigured, locals

\* tile_config_init may load the default layout, but leaves the thread at
\* "cfg", where no tile operation runs.
LEMMA TileConfigInitStep ==
  ASSUME IInv, NEW t \in Threads, ggml_amx_tile_config_init(t)
  PROVE  IInv'
<1>1. /\ pc' = [pc EXCEPT ![t] = "cfg"]
      /\ UNCHANGED <<globals, fn, c0, out>>
  BY DEF ggml_amx_tile_config_init, Goto
<1>2. CASE ~is_first_time[t]
  <2>1. UNCHANGED <<is_first_time, tc, hw>>
    BY <1>2 DEF ggml_amx_tile_config_init
  <2> QED
    BY <1>1, <2>1 DEF IInv, TypeOK, TileOpsConfigured, globals
<1>3. CASE is_first_time[t]
  <2>1. /\ \E l \in {InitLayout, tc[t]} : tc' = [tc EXCEPT ![t] = l]
        /\ \E l \in {InitLayout, hw[t]} : hw' = [hw EXCEPT ![t] = l]
        /\ is_first_time' = [is_first_time EXCEPT ![t] = FALSE]
    BY <1>3 DEF ggml_amx_tile_config_init
  <2>2. InitLayout \in TileConfig /\ tc[t] \in TileConfig /\ hw[t] \in TileConfig
    BY LayoutsLegal DEF IInv, TypeOK
  <2> QED
    BY <1>1, <2>1, <2>2 DEF IInv, TypeOK, TileOpsConfigured, globals
<1> QED
  BY <1>2, <1>3

\* config_tiles_simple loads the simple layout as the thread moves to the
\* tile operations.
LEMMA ConfigTilesSimpleStep ==
  ASSUME IInv, NEW t \in Threads, config_tiles_simple(t)
  PROVE  IInv'
BY LayoutsLegal DEF config_tiles_simple, Goto, IInv, TypeOK,
                    TileOpsConfigured, globals

\* The tile operations run on the simple layout, so they do not fault and
\* C[0] is 64.
LEMMA TestTilesOpsStep ==
  ASSUME IInv, NEW t \in Threads, TestTilesOps(t)
  PROVE  IInv'
<1>1. hw[t] = SimpleLayout
  BY DEF TestTilesOps, IInv
<1>2. fault' = "none" /\ c0' = [c0 EXCEPT ![t] = 64]
  BY <1>1, SimpleFits DEF TestTilesOps
<1> QED
  BY <1>2 DEF TestTilesOps, Goto, IInv, TypeOK, TileOpsConfigured

\* _tile_release clears the tiles as the thread returns to idle.
LEMMA TileReleaseStep ==
  ASSUME IInv, NEW t \in Threads, TileRelease(t)
  PROVE  IInv'
BY LayoutsLegal DEF TileRelease, Goto, IInv, TypeOK, TileOpsConfigured, globals

\* Every step of every thread, or a stutter, preserves the invariant.
LEMMA NextIInv == IInv /\ [Next]_vars => IInv'
<1> SUFFICES ASSUME IInv, [Next]_vars PROVE IInv'
  OBVIOUS
<1>1. CASE UNCHANGED vars
  BY <1>1 DEF vars, globals, locals, IInv, TypeOK, TileOpsConfigured
<1>2. CASE Next
  BY <1>2, GateStep, CallStep, SigillStep, TileConfigInitStep,
     ConfigTilesSimpleStep, TestTilesOpsStep, TileReleaseStep DEF Next
<1> QED
  BY <1>1, <1>2

-----------------------------------------------------------------------------

\* The inductive invariant holds in every reachable state, for every set of
\* threads calling the AMX entry points in any order.
THEOREM IInvInvariant == Spec => []IInv
<1>1. Init => IInv
  BY InitIInv
<1>2. IInv /\ [Next]_vars => IInv'
  BY NextIInv
<1> QED
  BY <1>1, <1>2, PTL DEF Spec

\* Every tile configuration a thread loads through tile_config_init or
\* config_tiles_simple is legal for palette 1, and every variable of the
\* gate and the per-thread tile state has its type.
THEOREM TypeCorrect == Spec => []TypeOK
<1>1. IInv => TypeOK
  BY DEF IInv
<1> QED
  BY <1>1, IInvInvariant, PTL

\* ggml_amx_test_tiles's _tile_loadd/_tile_dpbssd never run on an
\* unconfigured or ill-shaped configuration and always compute C[0] = 64,
\* though tile_config_init skips its reload on every call after a thread's
\* first: config_tiles_simple always runs between it and them.
THEOREM TileOpsConfiguredInvariant == Spec => []TileOpsConfigured
<1>1. IInv => TileOpsConfigured
  BY DEF IInv
<1> QED
  BY <1>1, IInvInvariant, PTL

=============================================================================
