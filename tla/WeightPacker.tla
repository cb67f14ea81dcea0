---------------------------- MODULE WeightPacker ----------------------------
(***************************************************************************)
(* ggml_amx_pack_weights of ggml-amx-impl.c: one call repacking a K x N    *)
(* quantised weight into the AMX tile layout, one N tile (TILE_N rows) per *)
(* loop iteration, each by pack_B_q4_0 / pack_B_q4_1 / pack_B_q8_0.        *)
(*                                                                         *)
(* Bytes are abstracted to what the properties tell apart: a store is the  *)
(* byte range of packed_buffer it fills and the source items it holds.  A *)
(* source item is one part of a weight block, named by the block's index  *)
(* in the weights array (row-major, KB blocks per row): a 4-byte column   *)
(* group 0..7 of its 32 quants, its scale d, its min m, or the s8s8        *)
(* compensation of its row.                                                *)
(***************************************************************************)
EXTENDS Naturals, FiniteSets

CONSTANTS
  Types,   \* ggml types a caller passes
  Ks,      \* reduction lengths K a caller passes
  Ns       \* output-feature counts N a caller passes

\* The #defines of ggml-amx-impl.c and the sizes of ggml's block fields.
TILE_N == 16
TILE_K == 32
SizeofHalf == 2
SizeofInt32 == 4

\* K and N are tensor extents: never negative.
ASSUME InputAssumption == Ks \subseteq Nat /\ Ns \subseteq Nat /\ Types # {}

VARIABLES
  type, K, N,   \* the call's arguments
  enabled,      \* g_amx_enabled
  pc,           \* "entry", "loop" or "done"
  nb,           \* the loop index over N tiles
  writes,       \* the stores made into packed_buffer
  reads,        \* indices of the weight blocks read
  result        \* the return value, once pc = "done"

vars == <<type, K, N, enabled, pc, nb, writes, reads, result>>

\* Column groups are 0..7; the per-row fields get the next numbers.
PartD == 8
PartM == 9
PartComp == 10
Parts == 0..PartComp
Item == [blk: Nat, part: Parts]
Store == [lo: Nat, hi: Nat, src: SUBSET Item]

-----------------------------------------------------------------------------
(* Helpers translated from the code.                                       *)

\* Mutant: the Q8_0 size forgets the compensation array.
ggml_amx_get_packed_size_NoComp(ty, n) ==
  CASE ty = "Q4_0" -> n * ((TILE_N * TILE_K) \div 2 + TILE_N * SizeofHalf)
    [] ty = "Q4_1" -> n * ((TILE_N * TILE_K) \div 2 + 2 * TILE_N * SizeofHalf)
    [] ty = "Q8_0" -> n * (TILE_N * TILE_K + TILE_N * SizeofHalf)
    [] OTHER -> 0

\* ggml_amx_get_packed_size(type, n): bytes of n packed N tiles.
ggml_amx_get_packed_size(ty, n) ==
  CASE ty = "Q4_0" -> n * ((TILE_N * TILE_K) \div 2 + TILE_N * SizeofHalf)
    [] ty = "Q4_1" -> n * ((TILE_N * TILE_K) \div 2 + 2 * TILE_N * SizeofHalf)
    [] ty = "Q8_0" -> n * (TILE_N * TILE_K + TILE_N * SizeofHalf + TILE_N * SizeofInt32)
    [] OTHER -> 0

\* ggml_amx_can_handle
ggml_amx_can_handle(ty) == ty \in {"Q4_0", "Q4_1", "Q8_0"}

\* const int KB = K / TILE_K; const int NB = N / TILE_N;
KB == K \div TILE_K
NB == N \div TILE_N

\* Mutant: B advances by TILE_N blocks per tile instead of TILE_N rows.
TileBase_NoKB(i) == i * TILE_N

\* B = w + nb * TILE_N * KB: the first block of tile i's rows.
TileBase(i) == i * TILE_N * KB

\* packed_tile = packed_buffer + nb * tile_size.
TileAt(i) == i * ggml_amx_get_packed_size(type, 1)

\* The block pack_B_* reads for row n of a tile whose B starts at block
\* base: B[n * KB].
RowBlock(base, kb, n) == base + n * kb

\* Column groups G of rows `rows` of the tile.
Quants(base, kb, rows, G) ==
  {[blk |-> RowBlock(base, kb, n), part |-> g] : n \in rows, g \in G}

\* pack_B_q4_0/q4_1: after the two transposes tmp + n*64 holds column
\* group n of all 16 rows; packNibbles(r0, r1) stores groups n and n+1
\* in 64 bytes at n*32, for n = 0, 2, 4, 6.
NibbleStores(at, base, kb) ==
  {[lo |-> at + n * 32, hi |-> at + n * 32 + 64,
    src |-> Quants(base, kb, 0..(TILE_N - 1), {n, n + 1})] :
     n \in {i \in 0..7 : i % 2 = 0}}

\* pack_B_q8_0: transpose_8x8_32bit of rows 0..7 (h = 0) and 8..15 (h = 1)
\* stores column group n of those rows in 32 bytes at n*64 + h*32.
ByteStores(at, base, kb) ==
  {[lo |-> at + n * 64 + h * 32, hi |-> at + n * 64 + h * 32 + 32,
    src |-> Quants(base, kb, (8 * h)..(8 * h + 7), {n})] : n \in 0..7, h \in 0..1}

\* The per-row fields: d0[n] = B[n * KB].d (or .m) for n < TILE_N, at
\* offset off of the tile.
FieldStore(at, off, base, kb, part) ==
  [lo |-> at + off, hi |-> at + off + TILE_N * SizeofHalf,
   src |-> {[blk |-> RowBlock(base, kb, n), part |-> part] : n \in 0..(TILE_N - 1)}]

\* s8s8_compensation: dpbusd over the 8 x 64 bytes at the start of the tile;
\* lane n sums row n's bytes, so it yields the compensation of the rows
\* whose 8 column groups are stored there.  Stored after d.
CompStore(at, qs, base, kb) ==
  LET held == UNION {s.src : s \in {x \in qs : at <= x.lo /\ x.hi <= at + 8 * 64}}
      off == TILE_N * TILE_K + TILE_N * SizeofHalf
  IN  [lo |-> at + off, hi |-> at + off + TILE_N * SizeofInt32,
       src |-> {[blk |-> RowBlock(base, kb, n), part |-> PartComp] :
                  n \in {r \in 0..(TILE_N - 1) :
                           \A g \in 0..7 : [blk |-> RowBlock(base, kb, r), part |-> g] \in held}}]

\* What pack_B_<ty>(packed_tile, B, KB) stores, packed_tile at byte `at`
\* and B at block `base`.
pack_B(ty, at, base, kb) ==
  CASE ty = "Q4_0" ->
         NibbleStores(at, base, kb)
           \cup {FieldStore(at, (TILE_N * TILE_K) \div 2, base, kb, PartD)}
    [] ty = "Q4_1" ->
         NibbleStores(at, base, kb)
           \cup {FieldStore(at, (TILE_N * TILE_K) \div 2, base, kb, PartD),
                 FieldStore(at, (TILE_N * TILE_K) \div 2 + TILE_N * SizeofHalf, base, kb, PartM)}
    [] ty = "Q8_0" ->
         LET qs == ByteStores(at, base, kb)
             d == FieldStore(at, TILE_N * TILE_K, base, kb, PartD)
         IN  qs \cup {d, CompStore(at, qs, base, kb)}

\* The blocks pack_B_* reads: B[n * KB] for n < TILE_N.
BlocksRead(base, kb) == {RowBlock(base, kb, n) : n \in 0..(TILE_N - 1)}

\* The stores of loop iteration nb = i: pack_B_<type>(packed_tile, B, KB).
TileStores(i) == pack_B(type, TileAt(i), TileBase(i), KB)

\* The closed form of the call's return value: the entry checks pass and,
\* when the loop runs at all, the switch knows the type.
PackAccepts(ty, k, n, en) ==
  /\ en /\ k % TILE_K = 0 /\ n % TILE_N = 0
  /\ n \div TILE_N = 0 \/ ggml_amx_can_handle(ty)

\* The closed form of what a successful call stores: every iteration's
\* tile, for nb = 0 .. NB - 1.
PackImage(ty, k, n) ==
  UNION {pack_B(ty, i * ggml_amx_get_packed_size(ty, 1), i * TILE_N * (k \div TILE_K),
                k \div TILE_K) : i \in 0..(n \div TILE_N - 1)}

-----------------------------------------------------------------------------
(* One call of ggml_amx_pack_weights.                                       *)

Init ==
  /\ type \in Types
  /\ K \in Ks
  /\ N \in Ns
  /\ enabled \in BOOLEAN
  /\ pc = "entry"
  /\ nb = 0
  /\ writes = {}
  /\ reads = {}
  /\ result = FALSE

\* Mutant: the entry check forgets N % TILE_N.
PackEntry_NoNCheck ==
  /\ pc = "entry"
  /\ \/ /\ ~enabled \/ K % TILE_K # 0
        /\ pc' = "done"
        /\ result' = FALSE
     \/ /\ enabled /\ K % TILE_K = 0
        /\ pc' = "loop"
        /\ UNCHANGED result
  /\ UNCHANGED <<type, K, N, enabled, nb, writes, reads>>

\* The guards before the loop: AMX disabled, or K or N not tile-aligned.
PackEntry ==
  /\ pc = "entry"
  /\ \/ /\ ~enabled \/ K % TILE_K # 0 \/ N % TILE_N # 0
        /\ pc' = "done"
        /\ result' = FALSE
     \/ /\ enabled /\ K % TILE_K = 0 /\ N % TILE_N = 0
        /\ pc' = "loop"
        /\ UNCHANGED result
  /\ UNCHANGED <<type, K, N, enabled, nb, writes, reads>>

\* Mutant: the loop runs while nb <= NB.
PackTile_LoopLE ==
  /\ pc = "loop"
  /\ nb <= NB
  /\ \/ /\ ggml_amx_can_handle(type)
        /\ writes' = writes \cup TileStores(nb)
        /\ reads' = reads \cup BlocksRead(TileBase(nb), KB)
        /\ nb' = nb + 1
        /\ UNCHANGED <<pc, result>>
     \/ /\ ~ggml_amx_can_handle(type)
        /\ pc' = "done"
        /\ result' = FALSE
        /\ UNCHANGED <<nb, writes, reads>>
  /\ UNCHANGED <<type, K, N, enabled>>

\* Mutant: the loop forgets to advance nb.
PackTile_NoAdvance ==
  /\ pc = "loop"
  /\ nb < NB
  /\ \/ /\ ggml_amx_can_handle(type)
        /\ writes' = writes \cup TileStores(nb)
        /\ reads' = reads \cup BlocksRead(TileBase(nb), KB)
        /\ UNCHANGED <<nb, pc, result>>
     \/ /\ ~ggml_amx_can_handle(type)
        /\ pc' = "done"
        /\ result' = FALSE
        /\ UNCHANGED <<nb, writes, reads>>
  /\ UNCHANGED <<type, K, N, enabled>>

\* One iteration for N tile nb: packed_tile = packed_buffer + nb *
\* get_packed_size(type, 1), B = weights + nb * TILE_N * KB; an unsupported
\* type returns false from inside the loop.
PackTile ==
  /\ pc = "loop"
  /\ nb < NB
  /\ \/ /\ ggml_amx_can_handle(type)
        /\ writes' = writes \cup TileStores(nb)
        /\ reads' = reads \cup BlocksRead(TileBase(nb), KB)
        /\ nb' = nb + 1
        /\ UNCHANGED <<pc, result>>
     \/ /\ ~ggml_amx_can_handle(type)
        /\ pc' = "done"
        /\ result' = FALSE
        /\ UNCHANGED <<nb, writes, reads>>
  /\ UNCHANGED <<type, K, N, enabled>>

\* The loop ends: return true.
PackDone ==
  /\ pc = "loop"
  /\ ~(nb < NB)
  /\ pc' = "done"
  /\ result' = TRUE
  /\ UNCHANGED <<type, K, N, enabled, nb, writes, reads>>

Next == PackEntry \/ PackTile \/ PackDone

Spec == Init /\ [][Next]_vars

\* The call runs to its return on the caller's thread: a thread in the
\* middle of ggml_amx_pack_weights is not stopped forever.
FairSpec == Spec /\ WF_vars(Next)

\* The refinement mapping: the call has returned when pc = "done", and the
\* caller sees packed_buffer only then.
Contract == INSTANCE PackWeightsContract
              WITH done <- pc = "done",
                   image <- IF pc = "done" THEN writes ELSE {},
                   Accepts <- PackAccepts,
                   Image <- PackImage

-----------------------------------------------------------------------------
(* Properties.                                                              *)

TypeOK ==
  /\ type \in Types /\ K \in Ks /\ N \in Ns /\ enabled \in BOOLEAN
  /\ pc \in {"entry", "loop", "done"}
  /\ nb \in 0..NB
  /\ writes \subseteq Store
  /\ reads \subseteq Nat
  /\ result \in BOOLEAN

\* Everything the stores put into packed_buffer.
Packed == UNION {s.src : s \in writes}

\* The parts of a weight block the layout of ty carries.
RowParts(ty) ==
  (0..7) \cup {PartD} \cup (IF ty = "Q4_1" THEN {PartM} ELSE {})
         \cup (IF ty = "Q8_0" THEN {PartComp} ELSE {})

\* The size contract (spec 4.2): after a successful call the stores of
\* pack_B_* tile [0, get_packed_size(type, NB)) exactly: none overlaps
\* another, none leaves the buffer the caller sized, no byte is left out.
LayoutExact ==
  (pc = "done" /\ result) =>
    LET size == ggml_amx_get_packed_size(type, NB) IN
    /\ \A s \in writes : s.lo < s.hi /\ s.hi <= size
    /\ \A s1, s2 \in writes : s1 # s2 => s1.hi <= s2.lo \/ s2.hi <= s1.lo
    /\ \A b \in 0..(size - 1) : \E s \in writes : s.lo <= b /\ b < s.hi

\* The return value (spec 4.2, 7): true only for an enabled, tile-aligned
\* request; false leaves packed_buffer untouched; an enabled, aligned,
\* non-empty request succeeds exactly for the types ggml_amx_can_handle
\* reports.
PackResultHonest ==
  pc = "done" =>
    /\ result => enabled /\ K % TILE_K = 0 /\ N % TILE_N = 0
    /\ ~result => writes = {}
    /\ (enabled /\ K % TILE_K = 0 /\ N % TILE_N = 0 /\ NB > 0) =>
         result = ggml_amx_can_handle(type)

\* Every row of the weight reaches the packed buffer: after a successful
\* call each of the N rows has all column groups, its scale (min,
\* compensation) of its first K block packed, in whichever tile the loop
\* put it.
EveryRowPacked ==
  (pc = "done" /\ result) =>
    \A r \in 0..(N - 1), p \in RowParts(type) : [blk |-> r * KB, part |-> p] \in Packed

\* The spec (3, 8): a packed weight represents the whole reduction, every
\* TILE_K block of every row, so a kernel over K = 256 sees all of it.
PackCoversAllBlocks ==
  (pc = "done" /\ result) =>
    \A r \in 0..(N - 1), k \in 0..(KB - 1), p \in RowParts(type) :
      [blk |-> r * KB + k, part |-> p] \in Packed

\* The spec (4.2): packing reports failure for a quantization kind it
\* does not recognise, whatever the shape.  The code checks the kind only
\* inside the tile loop.
PackRejectsUnsupported == (pc = "done" /\ result) => ggml_amx_can_handle(type)

\* The packer reads only blocks of the weights array, which holds N * KB
\* blocks.
ReadsInBounds == \A i \in reads : i < N * KB

\* ggml_amx_pack_weights implements its all-or-nothing contract: it returns
\* true exactly for an enabled, aligned request of a type the switch knows
\* (or with no tile), the stores of its NB loop iterations are then the
\* whole image, and when it returns false, from the entry checks or from
\* the switch's default in the first iteration, nothing has been stored.
PackContract == Contract!Spec

\* Every call of ggml_amx_pack_weights returns: the tile loop advances nb
\* towards NB on every iteration.
Termination == <>(pc = "done")

=============================================================================
