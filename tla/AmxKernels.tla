------------------------------ MODULE AmxKernels ------------------------------
(***************************************************************************)
(* The runtime gate, the per-thread tile configuration and the kernel      *)
(* entry points of the AMX backend: g_amx_enabled and the entitlement      *)
(* requests (ggml-amx.c, ggml_amx_init in amx/amx.cpp), the thread-local   *)
(* ggml_amx_tile_config_init (ggml-amx-impl.c), config_tiles_simple,       *)
(* ggml_amx_test_tiles and ggml_amx_gemv_q4_0_q8_0_simple                  *)
(* (ggml-amx-kernel.c), ggml_vec_dot_q4_0_q8_0_amx and                     *)
(* ggml_mul_mat_q4_0_q8_0_amx (ggml-amx-kernels.c) and the GEMV, GEMM and  *)
(* quantize stubs.                                                         *)
(*                                                                         *)
(* Any thread may call any entry point at any time.  The tile registers    *)
(* and their configuration are per thread; the flags and the entitlement   *)
(* (arch_prctl ARCH_REQ_XCOMP_PERM grants it to the whole process) are     *)
(* shared.  An AMX instruction issued without the entitlement raises       *)
(* SIGILL and ends the process.                                            *)
(***************************************************************************)
EXTENDS Naturals

CONSTANTS
  Threads,   \* the worker threads
  NoResult   \* C[0] of a test_tiles call that has not stored one

ASSUME ThreadsAssumption == Threads # {} /\ NoResult \notin Nat

\* TILE_M and TILE_K of ggml-amx-kernel.c; TMM0 .. TMM7.
TILE_M == 16
TILE_K == 64
Slots == 0..7

VARIABLES
  platformAmx,              \* arch_prctl(ARCH_REQ_XCOMP_PERM) succeeds here
  g_amx_enabled,
  entitled,                 \* the process holds the tile-data permission
  g_amx_int8_initialized,
  g_amx_bf16_initialized,
  bufType,                  \* ggml_backend_amx_buffer_type has returned the type
  pc, fn,                   \* per thread: program point and running function
  is_first_time, tc,        \* the _Thread_local statics of tile_config_init
  hw,                       \* per thread: the tile configuration loaded
  c0,                       \* per thread: C[0] of the last test_tiles
  out,                      \* per thread: what the last kernel did to dst
  fault                     \* why the process died, or "none"

globals == <<platformAmx, g_amx_enabled, entitled, g_amx_int8_initialized,
             g_amx_bf16_initialized, bufType, fault>>
locals == <<pc, fn, is_first_time, tc, hw, c0, out>>
vars == <<globals, locals>>

-----------------------------------------------------------------------------
(* Tile configurations: tile_config_t restricted to the 8 slots.           *)

TileConfig == [palette_id: {0, 1}, rows: [Slots -> 0..TILE_M],
               colsb: [Slots -> 0..TILE_K]]

\* The INIT state after _tile_release; _tile_storeconfig then stores zeros.
NoTiles == [palette_id |-> 0, rows |-> [i \in Slots |-> 0],
            colsb |-> [i \in Slots |-> 0]]

\* The eight TC_CONFIG_TILE lines of ggml_amx_tile_config_init.
InitLayout == [palette_id |-> 1,
               rows |-> [i \in Slots |-> IF i \in {0, 1} THEN 8 ELSE 16],
               colsb |-> [i \in Slots |-> IF i \in {2, 3} THEN 32 ELSE 64]]

\* config_tiles_simple: TMM0, TMM2 and TMM4 of 16 rows x 64 bytes.
SimpleLayout == [palette_id |-> 1,
                 rows |-> [i \in Slots |-> IF i \in {0, 2, 4} THEN 16 ELSE 0],
                 colsb |-> [i \in Slots |-> IF i \in {0, 2, 4} THEN 64 ELSE 0]]

\* The reload test of tile_config_init: the static tc was never loaded, or
\* both the colsb and the rows of the first 8 slots differ.
NeedsReload(cur, saved) ==
  \/ saved.palette_id = 0
  \/ cur.colsb # saved.colsb /\ cur.rows # saved.rows

\* _tile_dpbssd(TMM4, TMM2, TMM0): C (TMM4) and A (TMM2) have the same
\* rows, C and B (TMM0) the same bytes per row, and A's 4-byte groups
\* match B's rows.
DpbssdShapeOK(cfg) ==
  /\ cfg.rows[4] = cfg.rows[2] /\ cfg.rows[4] > 0
  /\ cfg.colsb[4] = cfg.colsb[0] /\ cfg.colsb[4] > 0
  /\ cfg.colsb[2] = 4 * cfg.rows[0]

\* The outcome of the tile-data instructions of test_tiles on cfg.
TileOpsFault(cfg) ==
  CASE cfg.palette_id = 0 -> "unconfigured"
    [] ~DpbssdShapeOK(cfg) -> "shape"
    [] OTHER -> "none"

\* C[0] after A = B = all ones: the sum over the colsb[TMM2] bytes of a row.
DpbssdC0(cfg) == cfg.colsb[2]

-----------------------------------------------------------------------------
(* Initial state: fresh threads, AMX disabled (the opt-in default).        *)

Init ==
  /\ platformAmx \in BOOLEAN
  /\ g_amx_enabled = FALSE
  /\ entitled = FALSE
  /\ g_amx_int8_initialized = FALSE
  /\ g_amx_bf16_initialized = FALSE
  /\ bufType = FALSE
  /\ pc = [t \in Threads |-> "idle"]
  /\ fn = [t \in Threads |-> "none"]
  /\ is_first_time = [t \in Threads |-> TRUE]
  /\ tc = [t \in Threads |-> NoTiles]
  /\ hw = [t \in Threads |-> NoTiles]
  /\ c0 = [t \in Threads |-> NoResult]
  /\ out = [t \in Threads |-> "none"]
  /\ fault = "none"

Running == fault = "none"

\* An AMX instruction of thread t without the entitlement: SIGILL.
Sigill == /\ ~entitled
          /\ fault' = "unentitled"
          /\ UNCHANGED <<platformAmx, g_amx_enabled, entitled,
                         g_amx_int8_initialized, g_amx_bf16_initialized,
                         bufType, locals>>

\* Thread t moves to program point p.
Goto(t, p) == pc' = [pc EXCEPT ![t] = p]

-----------------------------------------------------------------------------
(* The runtime gate.                                                       *)

\* ggml_amx_set_enabled(enabled).
ggml_amx_set_enabled(t) ==
  /\ Running /\ pc[t] = "idle"
  /\ \E b \in BOOLEAN : g_amx_enabled' = b
  /\ UNCHANGED <<platformAmx, entitled, g_amx_int8_initialized,
                 g_amx_bf16_initialized, bufType, fault, locals>>

\* ggml_amx_int8_init: the check of g_amx_int8_initialized (when it is set
\* the call returns true and changes nothing).
ggml_amx_int8_init(t) ==
  /\ Running /\ pc[t] = "idle"
  /\ ~g_amx_int8_initialized
  /\ Goto(t, "i8_request")
  /\ UNCHANGED <<globals, fn, is_first_time, tc, hw, c0, out>>

\* The rest of ggml_amx_int8_init: the permission request; on success the
\* flag is set and ggml_amx_test_tiles runs, on failure false is returned.
Int8Request(t) ==
  /\ Running /\ pc[t] = "i8_request"
  /\ \/ /\ platformAmx
        /\ entitled' = TRUE
        /\ g_amx_int8_initialized' = TRUE
        /\ fn' = [fn EXCEPT ![t] = "test_tiles"]
        /\ Goto(t, "check")
     \/ /\ ~platformAmx
        /\ Goto(t, "idle")
        /\ UNCHANGED <<entitled, g_amx_int8_initialized, fn>>
  /\ UNCHANGED <<platformAmx, g_amx_enabled, g_amx_bf16_initialized, bufType,
                 fault, is_first_time, tc, hw, c0, out>>

\* ggml_amx_bf16_init: the same request, without a test; an initialised
\* flag or a refused request changes nothing.
ggml_amx_bf16_init(t) ==
  /\ Running /\ pc[t] = "idle"
  /\ ~g_amx_bf16_initialized /\ platformAmx
  /\ entitled' = TRUE
  /\ g_amx_bf16_initialized' = TRUE
  /\ UNCHANGED <<platformAmx, g_amx_enabled, g_amx_int8_initialized, bufType,
                 fault, locals>>

\* ggml_backend_amx_buffer_type: ggml_amx_init requests the permission; the
\* type is returned only if it is granted (a refusal returns nullptr and
\* changes nothing).
ggml_backend_amx_buffer_type(t) ==
  /\ Running /\ pc[t] = "idle"
  /\ platformAmx /\ ~bufType
  /\ entitled' = TRUE
  /\ bufType' = TRUE
  /\ UNCHANGED <<platformAmx, g_amx_enabled, g_amx_int8_initialized,
                 g_amx_bf16_initialized, fault, locals>>

-----------------------------------------------------------------------------
(* The tile-using entry points: ggml_amx_test_tiles and                    *)
(* ggml_amx_gemv_q4_0_q8_0_simple share their first steps.                 *)

\* The call of ggml_amx_test_tiles.
ggml_amx_test_tiles(t) ==
  /\ Running /\ pc[t] = "idle"
  /\ fn' = [fn EXCEPT ![t] = "test_tiles"]
  /\ Goto(t, "check")
  /\ UNCHANGED <<globals, is_first_time, tc, hw, c0, out>>

\* The call of ggml_amx_gemv_q4_0_q8_0_simple.
ggml_amx_gemv_q4_0_q8_0_simple(t) ==
  /\ Running /\ pc[t] = "idle"
  /\ fn' = [fn EXCEPT ![t] = "gemv"]
  /\ Goto(t, "check")
  /\ UNCHANGED <<globals, is_first_time, tc, hw, c0, out>>

\* if (!ggml_amx_is_enabled()) return;  The GEMV then leaves dst unwritten.
EnabledCheck(t) ==
  /\ Running /\ pc[t] = "check"
  /\ \/ /\ g_amx_enabled
        /\ Goto(t, "init")
        /\ UNCHANGED out
     \/ /\ ~g_amx_enabled
        /\ Goto(t, "idle")
        /\ out' = [out EXCEPT ![t] = IF fn[t] = "gemv" THEN "unwritten" ELSE @]
  /\ UNCHANGED <<globals, fn, is_first_time, tc, hw, c0>>

\* Thread t is about to issue an AMX instruction: _tile_storeconfig in the
\* first tile_config_init, _tile_loadconfig, the tile operations of
\* test_tiles, _tile_release.
AtAmxInstruction(t) ==
  \/ pc[t] = "init" /\ is_first_time[t]
  \/ pc[t] \in {"cfg", "release"}
  \/ pc[t] = "body" /\ fn[t] = "test_tiles"

\* That instruction without the entitlement.
AmxUnentitled(t) == Running /\ AtAmxInstruction(t) /\ Sigill

\* ggml_amx_tile_config_init: after the first call of a thread it returns
\* at once; the first call stores the current configuration and loads the
\* default layout if NeedsReload.
ggml_amx_tile_config_init(t) ==
  /\ Running /\ pc[t] = "init"
  /\ \/ /\ ~is_first_time[t]
        /\ UNCHANGED <<is_first_time, tc, hw>>
     \/ /\ is_first_time[t] /\ entitled
        /\ LET reload == NeedsReload(hw[t], tc[t]) IN
           /\ tc' = [tc EXCEPT ![t] = IF reload THEN InitLayout ELSE @]
           /\ hw' = [hw EXCEPT ![t] = IF reload THEN InitLayout ELSE @]
        /\ is_first_time' = [is_first_time EXCEPT ![t] = FALSE]
  /\ Goto(t, "cfg")
  /\ UNCHANGED <<globals, fn, c0, out>>

\* Mutant: the C tile configured as TILE_K int32 columns.
config_tiles_simple_WideC(t) ==
  /\ Running /\ pc[t] = "cfg" /\ entitled
  /\ hw' = [hw EXCEPT ![t] = [SimpleLayout EXCEPT !.colsb[4] = TILE_K * 4]]
  /\ Goto(t, "body")
  /\ UNCHANGED <<globals, fn, is_first_time, tc, c0, out>>

\* Mutant: the caller forgets config_tiles_simple.
config_tiles_simple_Skip(t) ==
  /\ Running /\ pc[t] = "cfg" /\ entitled
  /\ Goto(t, "body")
  /\ UNCHANGED <<globals, fn, is_first_time, tc, hw, c0, out>>

\* config_tiles_simple: _tile_loadconfig of the simple layout.
config_tiles_simple(t) ==
  /\ Running /\ pc[t] = "cfg" /\ entitled
  /\ hw' = [hw EXCEPT ![t] = SimpleLayout]
  /\ Goto(t, "body")
  /\ UNCHANGED <<globals, fn, is_first_time, tc, c0, out>>

\* test_tiles: _tile_zero, two _tile_loadd, _tile_dpbssd, _tile_stored on
\* all-ones A and B.  A configuration they do not fit raises #UD.
TestTilesOps(t) ==
  /\ Running /\ pc[t] = "body" /\ fn[t] = "test_tiles" /\ entitled
  /\ fault' = TileOpsFault(hw[t])
  /\ c0' = [c0 EXCEPT ![t] = IF TileOpsFault(hw[t]) = "none"
                                THEN DpbssdC0(hw[t]) ELSE @]
  /\ Goto(t, "release")
  /\ UNCHANGED <<platformAmx, g_amx_enabled, entitled, g_amx_int8_initialized,
                 g_amx_bf16_initialized, bufType, fn, is_first_time, tc, hw, out>>

\* gemv_simple: the scalar loop writes dst[n] for every n.
GemvLoop(t) ==
  /\ Running /\ pc[t] = "body" /\ fn[t] = "gemv"
  /\ out' = [out EXCEPT ![t] = "written"]
  /\ Goto(t, "release")
  /\ UNCHANGED <<globals, fn, is_first_time, tc, hw, c0>>

\* _tile_release: the tiles return to the INIT state.
TileRelease(t) ==
  /\ Running /\ pc[t] = "release" /\ entitled
  /\ hw' = [hw EXCEPT ![t] = NoTiles]
  /\ Goto(t, "idle")
  /\ UNCHANGED <<globals, fn, is_first_time, tc, c0, out>>

-----------------------------------------------------------------------------
(* The other kernel entry points, each one step.                           *)

\* ggml_vec_dot_q4_0_q8_0_amx: when disabled it returns without writing *s;
\* otherwise the scalar loop writes it.
ggml_vec_dot_q4_0_q8_0_amx(t) ==
  /\ Running /\ pc[t] = "idle"
  /\ out' = [out EXCEPT ![t] = IF g_amx_enabled THEN "written" ELSE "unwritten"]
  /\ UNCHANGED <<globals, pc, fn, is_first_time, tc, hw, c0>>

\* ggml_mul_mat_q4_0_q8_0_amx returns false whether or not AMX is enabled:
\* the caller is told to fall back.
ggml_mul_mat_q4_0_q8_0_amx(t) ==
  /\ Running /\ pc[t] = "idle"
  /\ out' = [out EXCEPT ![t] = "declined"]
  /\ UNCHANGED <<globals, pc, fn, is_first_time, tc, hw, c0>>

\* The quantize_*_amx_int8 stubs return 0 bytes written: the caller is told.
quantize_amx_int8(t) ==
  /\ Running /\ pc[t] = "idle"
  /\ out' = [out EXCEPT ![t] = "declined"]
  /\ UNCHANGED <<globals, pc, fn, is_first_time, tc, hw, c0>>

\* The ggml_gemv_*/ggml_gemm_*_amx_int8 stubs return void and leave s
\* unwritten.
KernelStub(t) ==
  /\ Running /\ pc[t] = "idle"
  /\ out' = [out EXCEPT ![t] = "unwritten"]
  /\ UNCHANGED <<globals, pc, fn, is_first_time, tc, hw, c0>>

\* The ggml_gemv_*/ggml_gemm_*_amx_bf16 stubs, likewise.
Bf16KernelStub(t) ==
  /\ Running /\ pc[t] = "idle"
  /\ out' = [out EXCEPT ![t] = "unwritten"]
  /\ UNCHANGED <<globals, pc, fn, is_first_time, tc, hw, c0>>

Next ==
  \E t \in Threads :
    \/ ggml_amx_set_enabled(t) \/ ggml_amx_int8_init(t) \/ Int8Request(t)
    \/ ggml_amx_bf16_init(t) \/ ggml_backend_amx_buffer_type(t)
    \/ ggml_amx_test_tiles(t) \/ ggml_amx_gemv_q4_0_q8_0_simple(t)
    \/ EnabledCheck(t) \/ AmxUnentitled(t) \/ ggml_amx_tile_config_init(t)
    \/ config_tiles_simple(t) \/ TestTilesOps(t) \/ GemvLoop(t)
    \/ TileRelease(t)
    \/ ggml_vec_dot_q4_0_q8_0_amx(t) \/ ggml_mul_mat_q4_0_q8_0_amx(t)
    \/ quantize_amx_int8(t) \/ KernelStub(t) \/ Bf16KernelStub(t)

Spec == Init /\ [][Next]_vars

-----------------------------------------------------------------------------
(* Properties.                                                             *)

\* Every tile configuration a thread loads is one palette 1 accepts (at
\* most 16 rows of at most 64 bytes), and every variable has its type.
TypeOK ==
  /\ platformAmx \in BOOLEAN /\ g_amx_enabled \in BOOLEAN /\ entitled \in BOOLEAN
  /\ g_amx_int8_initialized \in BOOLEAN /\ g_amx_bf16_initialized \in BOOLEAN
  /\ bufType \in BOOLEAN
  /\ pc \in [Threads -> {"idle", "i8_request", "check", "init", "cfg", "body",
                         "release"}]
  /\ fn \in [Threads -> {"none", "test_tiles", "gemv"}]
  /\ is_first_time \in [Threads -> BOOLEAN]
  /\ tc \in [Threads -> TileConfig] /\ hw \in [Threads -> TileConfig]
  /\ c0 \in [Threads -> {NoResult} \cup Nat]
  /\ out \in [Threads -> {"none", "written", "unwritten", "declined"}]
  /\ fault \in {"none", "unentitled", "unconfigured", "shape"}

\* test_tiles's tile operations run on a configuration that fits them and
\* compute C[0] = 64, on every call of every thread, however the calls of
\* tile_config_init, config_tiles_simple and _tile_release before it went.
TileOpsConfigured ==
  /\ fault \notin {"unconfigured", "shape"}
  /\ \A t \in Threads : c0[t] \in {NoResult, 64}

\* The inductive strengthening of TileOpsConfigured: a thread that reaches
\* test_tiles's tile operations has the layout of config_tiles_simple
\* loaded, whatever tile_config_init did before it.
IInv ==
  /\ TypeOK
  /\ TileOpsConfigured
  /\ \A t \in Threads : pc[t] = "body" /\ fn[t] = "test_tiles" => hw[t] = SimpleLayout

\* Spec 4.1: ensure_configured leaves the thread's tiles configured, so a
\* caller may issue tile operations right after tile_config_init returns.
TileConfigInitEnsures ==
  \A t \in Threads : pc[t] = "cfg" => hw[t].palette_id = 1

\* Spec 4.5 and 4.1: no AMX instruction is issued unless the entitlement
\* request has succeeded; g_amx_enabled alone must not open the path.
TileOpsEntitled == fault # "unentitled"

\* Spec 4.5: a kernel that cannot compute reports "not handled"; it never
\* returns leaving its output unwritten.
NoSilentWrongAnswer == \A t \in Threads : out[t] # "unwritten"

=============================================================================
