------------------------ MODULE WeightPacker_proofs ------------------------
(***************************************************************************)
(* Proofs about WeightPacker, for every set of types, K and N a caller may *)
(* pass: the tile loop of ggml_amx_pack_weights implements the atomic      *)
(* all-or-nothing contract of PackWeightsContract, and its return value is *)
(* honest.  The stores of pack_B_* are never expanded: the argument is     *)
(* about which iterations have run, not about the bytes each one writes.   *)
(***************************************************************************)
EXTENDS WeightPacker, TLAPS

\* The stores of the first n loop iterations of a call with type ty and
\* reduction length k.
PartialImage(ty, k, n) ==
  UNION {pack_B(ty, i * ggml_amx_get_packed_size(ty, 1), i * TILE_N * (k \div TILE_K),
                k \div TILE_K) : i \in 0..(n - 1)}

\* The inductive invariant: what the loop has stored so far, and what the
\* entry checks established before it started.
IInv ==
  /\ type \in Types /\ K \in Ks /\ N \in Ns /\ enabled \in BOOLEAN
  /\ pc \in {"entry", "loop", "done"}
  /\ nb \in 0..NB
  /\ result \in BOOLEAN
  /\ pc = "entry" => nb = 0 /\ writes = {} /\ ~result
  /\ pc = "loop" =>
       /\ enabled /\ K % TILE_K = 0 /\ N % TILE_N = 0
       /\ writes = PartialImage(type, K, nb)
       /\ ~result
       /\ nb > 0 => ggml_amx_can_handle(type)
  /\ pc = "done" =>
       /\ result = PackAccepts(type, K, N, enabled)
       /\ writes = IF result THEN PackImage(type, K, N) ELSE {}

\* K and N are naturals and the tile extents numbers, in every step.
USE InputAssumption DEF TILE_N, TILE_K

-----------------------------------------------------------------------------
(* Lemmas about the image of the loop.                                      *)

\* No iteration has run: nothing is stored.
LEMMA PartialImageZero ==
  ASSUME NEW ty, NEW k
  PROVE  PartialImage(ty, k, 0) = {}
<1>1. 0..(0 - 1) = {}
  OBVIOUS
<1> QED
  BY <1>1 DEF PartialImage

\* Iteration n adds its tile's stores to those of the n before it.
LEMMA PartialImageStep ==
  ASSUME NEW ty, NEW k, NEW n \in Nat
  PROVE  PartialImage(ty, k, n + 1) =
           PartialImage(ty, k, n)
             \cup pack_B(ty, n * ggml_amx_get_packed_size(ty, 1),
                         n * TILE_N * (k \div TILE_K), k \div TILE_K)
<1>1. 0..((n + 1) - 1) = (0..(n - 1)) \cup {n}
  OBVIOUS
<1> QED
  BY <1>1, Zenon DEF PartialImage

\* After NB iterations the loop has stored the whole image.
LEMMA PartialImageWhole ==
  ASSUME NEW ty, NEW k, NEW n
  PROVE  PartialImage(ty, k, n \div TILE_N) = PackImage(ty, k, n)
BY DEF PartialImage, PackImage

\* The stores of iteration nb, as PackTile makes them.
LEMMA TileStoresForm ==
  TileStores(nb) = pack_B(type, nb * ggml_amx_get_packed_size(type, 1),
                          nb * TILE_N * (K \div TILE_K), K \div TILE_K)
BY DEF TileStores, TileAt, TileBase, KB

-----------------------------------------------------------------------------
(* The invariant.                                                           *)

LEMMA InitIInv == Init => IInv
<1> SUFFICES ASSUME Init PROVE IInv
  OBVIOUS
<1>1. K \in Nat /\ N \in Nat
  BY InputAssumption DEF Init
<1>2. nb \in 0..NB
  BY <1>1 DEF Init, NB
<1> QED
  BY <1>2 DEF Init, IInv

LEMMA PackEntryIInv ==
  ASSUME IInv, PackEntry
  PROVE  IInv'
<1>1. /\ type' = type /\ K' = K /\ N' = N /\ enabled' = enabled
      /\ nb' = nb /\ writes' = writes /\ reads' = reads /\ pc = "entry"
  BY DEF PackEntry
<1>2. nb = 0 /\ writes = {} /\ ~result
  BY <1>1 DEF IInv
<1>3. CASE ~enabled \/ K % TILE_K # 0 \/ N % TILE_N # 0
  <2>1. pc' = "done" /\ result' = FALSE
    BY <1>1, <1>3 DEF PackEntry
  <2>2. ~PackAccepts(type, K, N, enabled)
    BY <1>3 DEF PackAccepts
  <2>3. result' = PackAccepts(type', K', N', enabled')
    BY <1>1, <1>3, <2>1 DEF PackAccepts
  <2>4. writes' = IF result' THEN PackImage(type', K', N') ELSE {}
    BY <1>1, <1>2, <2>1
  <2>5. nb' \in 0..NB'
    BY <1>1, <1>2 DEF IInv, NB
  <2> QED
    BY <1>1, <2>1, <2>3, <2>4, <2>5 DEF IInv
<1>4. CASE enabled /\ K % TILE_K = 0 /\ N % TILE_N = 0
  <2>1. pc' = "loop" /\ result' = result
    BY <1>1, <1>4 DEF PackEntry
  <2>2. writes' = PartialImage(type', K', nb')
    BY <1>1, <1>2, PartialImageZero
  <2> QED
    BY <1>1, <1>2, <1>4, <2>1, <2>2 DEF IInv, NB
<1> QED
  BY <1>3, <1>4

LEMMA PackTileIInv ==
  ASSUME IInv, PackTile
  PROVE  IInv'
<1>1. pc = "loop" /\ nb < NB /\ type' = type /\ K' = K /\ N' = N /\ enabled' = enabled
  BY DEF PackTile
<1>2. /\ enabled /\ K % TILE_K = 0 /\ N % TILE_N = 0
      /\ writes = PartialImage(type, K, nb) /\ ~result
      /\ nb > 0 => ggml_amx_can_handle(type)
      /\ nb \in 0..NB /\ K \in Nat /\ N \in Nat
  BY <1>1, InputAssumption DEF IInv
<1>3. CASE ggml_amx_can_handle(type)
  <2>1. /\ writes' = writes \cup TileStores(nb)
        /\ nb' = nb + 1
        /\ pc' = pc /\ result' = result
    BY <1>3 DEF PackTile
  <2>2. writes' = PartialImage(type, K, nb + 1)
    BY <1>2, <2>1, TileStoresForm, PartialImageStep
  <2>3. nb' \in 0..NB
    BY <1>1, <1>2, <2>1 DEF NB
  <2> QED
    BY <1>1, <1>2, <1>3, <2>1, <2>2, <2>3 DEF IInv, NB
<1>4. CASE ~ggml_amx_can_handle(type)
  <2>1. /\ pc' = "done" /\ result' = FALSE
        /\ nb' = nb /\ writes' = writes /\ reads' = reads
    BY <1>4 DEF PackTile
  <2>2. nb = 0
    BY <1>2, <1>4
  <2>3. writes = {}
    BY <1>2, <2>2, PartialImageZero
  <2>4. N \div TILE_N # 0
    BY <1>1, <1>2, <2>2 DEF NB
  <2> QED
    BY <1>1, <1>2, <1>4, <2>1, <2>3, <2>4 DEF IInv, NB, PackAccepts
<1> QED
  BY <1>3, <1>4

LEMMA PackDoneIInv ==
  ASSUME IInv, PackDone
  PROVE  IInv'
<1>1. /\ pc = "loop" /\ ~(nb < NB) /\ pc' = "done" /\ result' = TRUE
      /\ type' = type /\ K' = K /\ N' = N /\ enabled' = enabled
      /\ nb' = nb /\ writes' = writes /\ reads' = reads
  BY DEF PackDone
<1>2. /\ enabled /\ K % TILE_K = 0 /\ N % TILE_N = 0
      /\ writes = PartialImage(type, K, nb)
      /\ nb > 0 => ggml_amx_can_handle(type)
      /\ nb \in 0..NB /\ K \in Nat /\ N \in Nat
  BY <1>1, InputAssumption DEF IInv
<1>3. nb = N \div TILE_N
  BY <1>1, <1>2 DEF NB
<1>4. PackAccepts(type, K, N, enabled)
  BY <1>2, <1>3 DEF PackAccepts
<1>5. writes = PackImage(type, K, N)
  BY <1>2, <1>3, PartialImageWhole
<1> QED
  BY <1>1, <1>2, <1>4, <1>5 DEF IInv, NB

LEMMA NextIInv == IInv /\ [Next]_vars => IInv'
<1> SUFFICES ASSUME IInv, [Next]_vars PROVE IInv'
  OBVIOUS
<1>1. CASE UNCHANGED vars
  BY <1>1 DEF vars, IInv, NB, PackAccepts
<1> QED
  BY <1>1, PackEntryIInv, PackTileIInv, PackDoneIInv DEF Next

-----------------------------------------------------------------------------
(* Theorems.                                                                *)

\* The inductive invariant holds in every reachable state of a call.
THEOREM IInvInvariant == Spec => []IInv
<1>1. Init => IInv
  BY InitIInv
<1>2. IInv /\ [Next]_vars => IInv'
  BY NextIInv
<1> QED
  BY <1>1, <1>2, PTL DEF Spec

\* ggml_amx_pack_weights's return value is honest for every K and N: true
\* only for an enabled, tile-aligned request, false only with packed_buffer
\* untouched, and for a non-empty aligned request exactly when
\* ggml_amx_can_handle accepts the type.
THEOREM PackResultHonestInvariant == Spec => []PackResultHonest
<1>1. IInv => PackResultHonest
  <2> SUFFICES ASSUME IInv, pc = "done"
               PROVE  /\ result => enabled /\ K % TILE_K = 0 /\ N % TILE_N = 0
                      /\ ~result => writes = {}
                      /\ (enabled /\ K % TILE_K = 0 /\ N % TILE_N = 0 /\ NB > 0) =>
                           result = ggml_amx_can_handle(type)
    BY DEF PackResultHonest
  <2>1. /\ result = PackAccepts(type, K, N, enabled)
        /\ writes = IF result THEN PackImage(type, K, N) ELSE {}
        /\ result \in BOOLEAN
    BY DEF IInv
  <2>2. result => enabled /\ K % TILE_K = 0 /\ N % TILE_N = 0
    BY <2>1 DEF PackAccepts
  <2>3. ~result => writes = {}
    BY <2>1
  <2>4. ASSUME enabled, K % TILE_K = 0, N % TILE_N = 0, NB > 0
        PROVE  result = ggml_amx_can_handle(type)
    <3>1. N \div TILE_N # 0
      BY <2>4 DEF NB
    <3>2. PackAccepts(type, K, N, enabled) <=> ggml_amx_can_handle(type)
      BY <2>4, <3>1 DEF PackAccepts
    <3> QED
      BY <2>1, <3>2 DEF ggml_amx_can_handle
  <2> QED
    BY <2>2, <2>3, <2>4
<1> QED
  BY <1>1, IInvInvariant, PTL

\* Each step of the loop is a step of the contract or invisible to it: the
\* entry check into the loop and every successful iteration leave the
\* caller's view unchanged, and the two returns are the contract's Call.
LEMMA StepRefines ==
  ASSUME IInv, IInv', [Next]_vars
  PROVE  [Contract!Next]_Contract!vars
<1>1. CASE UNCHANGED vars
  BY <1>1 DEF vars, Contract!vars
<1>2. CASE PackEntry /\ pc' = "loop"
  BY <1>2 DEF PackEntry, Contract!vars
<1>3. CASE PackEntry /\ pc' = "done"
  <2>1. /\ pc = "entry" /\ writes' = writes
        /\ type' = type /\ K' = K /\ N' = N /\ enabled' = enabled
    BY <1>3 DEF PackEntry
  <2>2. writes = {} /\ result' = FALSE
    BY <1>3, <2>1 DEF IInv, PackEntry
  <2>3. result' = PackAccepts(type, K, N, enabled)
    BY <1>3, <2>1 DEF IInv, PackAccepts
  <2> QED
    BY <2>1, <2>2, <2>3, <1>3 DEF Contract!Next, Contract!Call
<1>4. CASE PackTile /\ pc' = "loop"
  BY <1>4 DEF PackTile, Contract!vars
<1>5. CASE PackTile /\ pc' = "done"
  <2>1. pc = "loop" /\ type' = type /\ K' = K /\ N' = N /\ enabled' = enabled
    BY <1>5 DEF PackTile
  <2>2. result' = PackAccepts(type, K, N, enabled)
        /\ writes' = IF result' THEN PackImage(type, K, N) ELSE {}
    BY <1>5, <2>1 DEF IInv, PackAccepts
  <2> QED
    BY <2>1, <2>2, <1>5 DEF Contract!Next, Contract!Call
<1>6. CASE PackDone
  <2>1. /\ pc = "loop" /\ pc' = "done"
        /\ type' = type /\ K' = K /\ N' = N /\ enabled' = enabled
    BY <1>6 DEF PackDone
  <2>2. result' = PackAccepts(type, K, N, enabled)
        /\ writes' = IF result' THEN PackImage(type, K, N) ELSE {}
    BY <2>1 DEF IInv, PackAccepts
  <2> QED
    BY <2>1, <2>2 DEF Contract!Next, Contract!Call
<1>7. Next => \/ PackEntry /\ pc' = "loop"
              \/ PackEntry /\ pc' = "done"
              \/ PackTile /\ pc' = "loop"
              \/ PackTile /\ pc' = "done"
              \/ PackDone
  BY DEF Next, PackEntry, PackTile
<1> QED
  BY <1>1, <1>2, <1>3, <1>4, <1>5, <1>6, <1>7

\* ggml_amx_pack_weights implements its all-or-nothing contract, for every
\* type, K and N: PackContract, checked by TLC on a small instance, holds
\* for all of them.
THEOREM Refinement == Spec => PackContract
<1>1. Init => Contract!Init
  BY DEF Init, Contract!Init
<1>2. IInv /\ IInv' /\ [Next]_vars => [Contract!Next]_Contract!vars
  BY StepRefines
<1> QED
  BY <1>1, <1>2, IInvInvariant, PTL DEF Spec, PackContract, Contract!Spec

-----------------------------------------------------------------------------
(* What a tile holds: the stores of pack_B_* are well formed, and every     *)
(* row of the tile reaches packed_buffer with every part its type's layout *)
(* carries.                                                                *)

\* The item of part p of row n's block, in a tile whose B starts at block
\* base.
RowItem(base, kb, n, p) == [blk |-> RowBlock(base, kb, n), part |-> p]

\* Everything a set of stores holds.
Held(S) == UNION {s.src : s \in S}

\* The types whose pack_B_* the switch calls.
Handled == {"Q4_0", "Q4_1", "Q8_0"}

\* ggml_amx_can_handle accepts exactly the types the switch knows.
LEMMA HandledIsCanHandle ==
  ASSUME NEW ty
  PROVE  ggml_amx_can_handle(ty) <=> ty \in Handled
BY DEF ggml_amx_can_handle, Handled

\* A packed tile has a natural number of bytes.
LEMMA PackedSizeNat ==
  ASSUME NEW ty \in Handled
  PROVE  ggml_amx_get_packed_size(ty, 1) \in Nat
BY DEF Handled, ggml_amx_get_packed_size, SizeofHalf, SizeofInt32

\* The items of rows and column groups of a tile.
LEMMA QuantsType ==
  ASSUME NEW base \in Nat, NEW kb \in Nat, NEW rows \in SUBSET Nat, NEW G \in SUBSET Parts
  PROVE  Quants(base, kb, rows, G) \subseteq Item
<1> SUFFICES ASSUME NEW n \in rows, NEW g \in G
             PROVE  [blk |-> RowBlock(base, kb, n), part |-> g] \in Item
  BY DEF Quants
<1>1. RowBlock(base, kb, n) \in Nat
  BY DEF RowBlock
<1> QED
  BY <1>1 DEF Item

\* A byte range of naturals holding items is a store.
LEMMA StoreIntro ==
  ASSUME NEW lo \in Nat, NEW hi \in Nat, NEW src \in SUBSET Item
  PROVE  [lo |-> lo, hi |-> hi, src |-> src] \in Store
BY Zenon DEF Store

\* Every store of pack_B_* is a byte range of naturals holding items of
\* naturally-numbered blocks.
LEMMA PackBType ==
  ASSUME NEW ty \in Handled, NEW at \in Nat, NEW base \in Nat, NEW kb \in Nat
  PROVE  pack_B(ty, at, base, kb) \subseteq Store
<1>1. NibbleStores(at, base, kb) \subseteq Store
  <2> SUFFICES ASSUME NEW n \in {i \in 0..7 : i % 2 = 0}
               PROVE  [lo |-> at + n * 32, hi |-> at + n * 32 + 64,
                       src |-> Quants(base, kb, 0..(TILE_N - 1), {n, n + 1})] \in Store
    BY DEF NibbleStores
  <2>1. {n, n + 1} \in SUBSET Parts /\ 0..(TILE_N - 1) \in SUBSET Nat
    BY DEF Parts, PartComp
  <2>2. Quants(base, kb, 0..(TILE_N - 1), {n, n + 1}) \subseteq Item
    BY <2>1, QuantsType
  <2>3. at + n * 32 \in Nat /\ at + n * 32 + 64 \in Nat
    OBVIOUS
  <2> QED
    BY <2>2, <2>3, StoreIntro
<1>2. ByteStores(at, base, kb) \subseteq Store
  <2> SUFFICES ASSUME NEW n \in 0..7, NEW h \in 0..1
               PROVE  [lo |-> at + n * 64 + h * 32, hi |-> at + n * 64 + h * 32 + 32,
                       src |-> Quants(base, kb, (8 * h)..(8 * h + 7), {n})] \in Store
    BY DEF ByteStores
  <2>1. {n} \in SUBSET Parts /\ (8 * h)..(8 * h + 7) \in SUBSET Nat
    BY DEF Parts, PartComp
  <2>2. Quants(base, kb, (8 * h)..(8 * h + 7), {n}) \subseteq Item
    BY <2>1, QuantsType
  <2>3. at + n * 64 + h * 32 \in Nat /\ at + n * 64 + h * 32 + 32 \in Nat
    OBVIOUS
  <2> QED
    BY <2>2, <2>3, StoreIntro
<1>3. \A off \in Nat, p \in {PartD, PartM} : FieldStore(at, off, base, kb, p) \in Store
  <2> SUFFICES ASSUME NEW off \in Nat, NEW p \in {PartD, PartM}
               PROVE  FieldStore(at, off, base, kb, p) \in Store
    OBVIOUS
  <2>1. {[blk |-> RowBlock(base, kb, n), part |-> p] : n \in 0..(TILE_N - 1)} \subseteq Item
    <3>1. p \in Parts /\ \A n \in 0..(TILE_N - 1) : RowBlock(base, kb, n) \in Nat
      BY DEF PartD, PartM, Parts, PartComp, RowBlock
    <3> QED
      BY <3>1 DEF Item
  <2>2. at + off \in Nat /\ at + off + TILE_N * SizeofHalf \in Nat
    BY DEF SizeofHalf
  <2> QED
    BY <2>1, <2>2, StoreIntro DEF FieldStore
<1>4. \A qs : CompStore(at, qs, base, kb) \in Store
  <2> SUFFICES ASSUME NEW qs PROVE CompStore(at, qs, base, kb) \in Store
    OBVIOUS
  <2> DEFINE off == TILE_N * TILE_K + TILE_N * SizeofHalf
  <2>1. \A R \in SUBSET (0..(TILE_N - 1)) :
          {[blk |-> RowBlock(base, kb, n), part |-> PartComp] : n \in R} \subseteq Item
    <3> SUFFICES ASSUME NEW R \in SUBSET (0..(TILE_N - 1)), NEW n \in R
                 PROVE  [blk |-> RowBlock(base, kb, n), part |-> PartComp] \in Item
      OBVIOUS
    <3>1. PartComp \in Parts /\ RowBlock(base, kb, n) \in Nat
      BY DEF PartComp, Parts, RowBlock
    <3> QED
      BY <3>1 DEF Item
  <2>2. at + off \in Nat /\ at + off + TILE_N * SizeofInt32 \in Nat
    BY DEF SizeofHalf, SizeofInt32
  <2>3. \A held : {r \in 0..(TILE_N - 1) :
                     \A g \in 0..7 : [blk |-> RowBlock(base, kb, r), part |-> g] \in held}
                  \in SUBSET (0..(TILE_N - 1))
    OBVIOUS
  <2> QED
    BY <2>1, <2>2, <2>3, StoreIntro DEF CompStore
<1> QED
  BY <1>1, <1>2, <1>3, <1>4 DEF pack_B, Handled, SizeofHalf

\* Column group g of row n is in the 64-byte store packNibbles makes for
\* the even group at or below g.
LEMMA NibbleRows ==
  ASSUME NEW at \in Nat, NEW base \in Nat, NEW kb \in Nat,
         NEW n \in 0..(TILE_N - 1), NEW g \in 0..7
  PROVE  RowItem(base, kb, n, g) \in Held(NibbleStores(at, base, kb))
<1> DEFINE m == 2 * (g \div 2)
           s == [lo |-> at + m * 32, hi |-> at + m * 32 + 64,
                 src |-> Quants(base, kb, 0..(TILE_N - 1), {m, m + 1})]
<1>1. m \in 0..7 /\ m % 2 = 0 /\ g \in {m, m + 1}
  OBVIOUS
<1>2. s \in NibbleStores(at, base, kb)
  <2>1. m \in {i \in 0..7 : i % 2 = 0}
    BY <1>1
  <2> QED
    BY <2>1, Zenon DEF NibbleStores
<1>3. RowItem(base, kb, n, g) \in s.src
  BY <1>1 DEF RowItem, Quants
<1> QED
  BY <1>2, <1>3 DEF Held

\* The 32-byte store of column group u of rows 8v..8v+7 of pack_B_q8_0.
ByteStore(at, base, kb, u, v) ==
  [lo |-> at + u * 64 + v * 32, hi |-> at + u * 64 + v * 32 + 32,
   src |-> Quants(base, kb, (8 * v)..(8 * v + 7), {u})]

\* The sixteen stores of transpose_8x8_32bit, one per column group and half.
LEMMA ByteStoresAsSet ==
  ASSUME NEW at, NEW base, NEW kb
  PROVE  ByteStores(at, base, kb) = {ByteStore(at, base, kb, u, v) : u \in 0..7, v \in 0..1}
BY DEF ByteStores, ByteStore

\* Each transpose of pack_B_q8_0 is one of ByteStores.
LEMMA ByteStoreIntro ==
  ASSUME NEW at, NEW base, NEW kb, NEW x \in 0..7, NEW y \in 0..1
  PROVE  [lo |-> at + x * 64 + y * 32, hi |-> at + x * 64 + y * 32 + 32,
          src |-> Quants(base, kb, (8 * y)..(8 * y + 7), {x})] \in ByteStores(at, base, kb)
<1>1. ByteStore(at, base, kb, x, y) \in ByteStores(at, base, kb)
  BY ByteStoresAsSet
<1> QED
  BY <1>1 DEF ByteStore

\* Column group g of row n is in the 32-byte store transpose_8x8_32bit
\* makes for the half h = n \div 8 of the tile, within its first 8 x 64
\* bytes.
LEMMA ByteRows ==
  ASSUME NEW at \in Nat, NEW base \in Nat, NEW kb \in Nat,
         NEW n \in 0..(TILE_N - 1), NEW g \in 0..7
  PROVE  \E s \in ByteStores(at, base, kb) :
           /\ RowItem(base, kb, n, g) \in s.src
           /\ at <= s.lo /\ s.hi <= at + 8 * 64
<1> DEFINE half == n \div 8
           s == [lo |-> at + g * 64 + half * 32, hi |-> at + g * 64 + half * 32 + 32,
                 src |-> Quants(base, kb, (8 * half)..(8 * half + 7), {g})]
<1>1. half \in 0..1 /\ n \in (8 * half)..(8 * half + 7)
  OBVIOUS
<1>2. s \in ByteStores(at, base, kb)
  <2>1. \A nn \in 0..7, hh \in 0..1 :
          [lo |-> at + nn * 64 + hh * 32, hi |-> at + nn * 64 + hh * 32 + 32,
           src |-> Quants(base, kb, (8 * hh)..(8 * hh + 7), {nn})] \in ByteStores(at, base, kb)
    BY ByteStoreIntro
  <2> QED
    BY <1>1, <2>1, Zenon
<1>3. RowItem(base, kb, n, g) \in s.src
  BY <1>1 DEF RowItem, Quants
<1>4. at <= s.lo /\ s.hi <= at + 8 * 64
  BY <1>1
<1> QED
  BY <1>2, <1>3, <1>4

\* s8s8_compensation covers every row of a Q8_0 tile: all eight column
\* groups of each row lie in the first 8 x 64 bytes it sums.
LEMMA CompRows ==
  ASSUME NEW at \in Nat, NEW base \in Nat, NEW kb \in Nat,
         NEW n \in 0..(TILE_N - 1)
  PROVE  RowItem(base, kb, n, PartComp) \in CompStore(at, ByteStores(at, base, kb), base, kb).src
<1> DEFINE qs == ByteStores(at, base, kb)
           held == UNION {s.src : s \in {x \in qs : at <= x.lo /\ x.hi <= at + 8 * 64}}
<1>1. \A g \in 0..7 : [blk |-> RowBlock(base, kb, n), part |-> g] \in held
  <2> SUFFICES ASSUME NEW g \in 0..7
               PROVE  [blk |-> RowBlock(base, kb, n), part |-> g] \in held
    OBVIOUS
  <2>1. PICK s \in qs : /\ RowItem(base, kb, n, g) \in s.src
                        /\ at <= s.lo /\ s.hi <= at + 8 * 64
    BY ByteRows
  <2> QED
    BY <2>1 DEF RowItem
<1> QED
  BY <1>1 DEF CompStore, RowItem

\* An item of one of a set of stores is held by the set.
LEMMA HeldIntro ==
  ASSUME NEW S, NEW s \in S, NEW x \in s.src
  PROVE  x \in Held(S)
BY DEF Held

\* pack_B_q4_0, pack_B_q4_1 and pack_B_q8_0 store every part the type's
\* layout carries of every one of the TILE_N rows of their tile: the column
\* groups, d, m for Q4_1 and the compensation for Q8_0.
LEMMA TileRows ==
  ASSUME NEW ty \in Handled, NEW at \in Nat, NEW base \in Nat, NEW kb \in Nat,
         NEW n \in 0..(TILE_N - 1), NEW p \in RowParts(ty)
  PROVE  RowItem(base, kb, n, p) \in Held(pack_B(ty, at, base, kb))
<1> DEFINE S == pack_B(ty, at, base, kb)
           x == RowItem(base, kb, n, p)
           Field(off) == FieldStore(at, off, base, kb, p)
<1>1. ASSUME NEW off PROVE x \in Field(off).src
  BY DEF FieldStore, RowItem
<1>2. CASE p \in 0..7
  <2>1. CASE ty \in {"Q4_0", "Q4_1"}
    <3>1. NibbleStores(at, base, kb) \subseteq S
      BY <2>1 DEF pack_B
    <3>2. x \in Held(NibbleStores(at, base, kb))
      BY <1>2, NibbleRows
    <3>3. Held(NibbleStores(at, base, kb)) \subseteq Held(S)
      BY <3>1 DEF Held
    <3> QED
      BY <3>2, <3>3
  <2>2. CASE ty = "Q8_0"
    <3>1. PICK s \in ByteStores(at, base, kb) : x \in s.src
      BY <1>2, ByteRows
    <3>2. s \in S
      BY <2>2, <3>1 DEF pack_B
    <3> QED
      BY <3>1, <3>2, HeldIntro
  <2> QED
    BY <2>1, <2>2 DEF Handled
<1>3. CASE p = PartD
  <2>1. CASE ty \in {"Q4_0", "Q4_1"}
    <3>1. Field((TILE_N * TILE_K) \div 2) \in S
      BY <1>3, <2>1 DEF pack_B
    <3> QED
      BY <3>1, <1>1, HeldIntro
  <2>2. CASE ty = "Q8_0"
    <3>1. Field(TILE_N * TILE_K) \in S
      BY <1>3, <2>2 DEF pack_B
    <3> QED
      BY <3>1, <1>1, HeldIntro
  <2> QED
    BY <2>1, <2>2 DEF Handled
<1>4. CASE p = PartM /\ ty = "Q4_1"
  <2>1. Field((TILE_N * TILE_K) \div 2 + TILE_N * SizeofHalf) \in S
    BY <1>4 DEF pack_B
  <2> QED
    BY <2>1, <1>1, HeldIntro
<1>5. CASE p = PartComp /\ ty = "Q8_0"
  <2>1. CompStore(at, ByteStores(at, base, kb), base, kb) \in S
    BY <1>5 DEF pack_B
  <2> QED
    BY <1>5, <2>1, CompRows, HeldIntro
<1>6. p \in 0..7 \/ p = PartD \/ (p = PartM /\ ty = "Q4_1") \/ (p = PartComp /\ ty = "Q8_0")
  BY DEF RowParts, PartD, PartM, PartComp
<1> QED
  BY <1>2, <1>3, <1>4, <1>5, <1>6

-----------------------------------------------------------------------------
(* Every row reaches packed_buffer.                                         *)

\* After a successful call, row r of the weight is row r % TILE_N of the
\* tile r \div TILE_N of the loop, and that tile's pack_B_* has stored it.
LEMMA IInvEveryRowPacked == IInv => EveryRowPacked
<1> SUFFICES ASSUME IInv, pc = "done", result,
                    NEW r \in 0..(N - 1), NEW p \in RowParts(type)
             PROVE  [blk |-> r * KB, part |-> p] \in Packed
  BY DEF EveryRowPacked
<1>1. /\ K % TILE_K = 0 /\ N % TILE_N = 0
      /\ N \div TILE_N = 0 \/ ggml_amx_can_handle(type)
      /\ writes = PackImage(type, K, N)
  BY DEF IInv, PackAccepts
<1>2. N \in Nat /\ K \in Nat
  BY DEF IInv
<1>3. N \div TILE_N # 0
  BY <1>1, <1>2
<1>4. type \in Handled
  BY <1>1, <1>3, HandledIsCanHandle
<1> DEFINE tile == r \div TILE_N
           row == r % TILE_N
           kbv == K \div TILE_K
           atv == tile * ggml_amx_get_packed_size(type, 1)
           basev == tile * TILE_N * kbv
<1>5. tile \in 0..(N \div TILE_N - 1) /\ row \in 0..(TILE_N - 1) /\ r = TILE_N * tile + row
  <2>1. row \in 0..(TILE_N - 1) /\ r = TILE_N * tile + row
    BY DEF tile, row
  <2>2. N = TILE_N * (N \div TILE_N)
    BY <1>1, <1>2
  <2> QED
    BY <1>2, <2>1, <2>2 DEF tile
<1>6. kbv \in Nat /\ atv \in Nat /\ basev \in Nat
  BY <1>2, <1>4, <1>5, PackedSizeNat
<1>7. RowItem(basev, kbv, row, p) \in Held(pack_B(type, atv, basev, kbv))
  BY <1>4, <1>5, <1>6, TileRows
<1>8. RowItem(basev, kbv, row, p) = [blk |-> r * KB, part |-> p]
  <2>1. basev + row * kbv = (TILE_N * tile + row) * kbv
    BY <1>5, <1>6
  <2> QED
    BY <1>5, <2>1 DEF RowItem, RowBlock, KB
<1>9. pack_B(type, atv, basev, kbv) \subseteq writes
  BY <1>1, <1>5 DEF PackImage
<1> QED
  BY <1>7, <1>8, <1>9 DEF Held, Packed

\* Every one of the N rows of a weight that ggml_amx_pack_weights reports
\* packed has each part its type's layout carries in packed_buffer, for
\* every K, N and type: the tile loop misses no row.
THEOREM EveryRowPackedInvariant == Spec => []EveryRowPacked
<1>1. IInv => EveryRowPacked
  BY IInvEveryRowPacked
<1> QED
  BY <1>1, IInvInvariant, PTL

-----------------------------------------------------------------------------
(* Type correctness.                                                        *)

\* The stores of the first n iterations are stores, for a type the switch
\* knows whenever any iteration has run.
LEMMA PartialImageType ==
  ASSUME NEW ty, NEW k \in Nat, NEW n \in Nat, n > 0 => ty \in Handled
  PROVE  PartialImage(ty, k, n) \subseteq Store
<1>1. CASE n = 0
  BY <1>1, PartialImageZero
<1>2. CASE n > 0
  <2> SUFFICES ASSUME NEW i \in 0..(n - 1)
               PROVE  pack_B(ty, i * ggml_amx_get_packed_size(ty, 1), i * TILE_N * (k \div TILE_K),
                             k \div TILE_K) \subseteq Store
    BY DEF PartialImage
  <2>1. ty \in Handled
    BY <1>2
  <2>2. /\ i * ggml_amx_get_packed_size(ty, 1) \in Nat
        /\ i * TILE_N * (k \div TILE_K) \in Nat
        /\ k \div TILE_K \in Nat
    BY <2>1, PackedSizeNat
  <2> QED
    BY <2>1, <2>2, PackBType
<1> QED
  BY <1>1, <1>2

\* Whatever point the call has reached, packed_buffer holds stores.
LEMMA IInvWritesType == IInv => writes \subseteq Store
<1> SUFFICES ASSUME IInv PROVE writes \subseteq Store
  OBVIOUS
<1>1. K \in Nat /\ N \in Nat /\ nb \in Nat
  BY DEF IInv
<1>2. CASE pc = "loop"
  <2>1. nb > 0 => type \in Handled
    BY <1>2, HandledIsCanHandle DEF IInv
  <2> QED
    BY <1>1, <1>2, <2>1, PartialImageType DEF IInv
<1>3. CASE pc = "done" /\ result
  <2>1. N \div TILE_N > 0 => type \in Handled
    BY <1>3, HandledIsCanHandle DEF IInv, PackAccepts
  <2>2. writes = PartialImage(type, K, N \div TILE_N)
    BY <1>3, PartialImageWhole DEF IInv
  <2> QED
    BY <1>1, <2>1, <2>2, PartialImageType
<1> QED
  BY <1>2, <1>3 DEF IInv

\* The packer reads blocks B[n * KB] at naturals.
LEMMA ReadsStep ==
  IInv /\ reads \subseteq Nat /\ [Next]_vars => reads' \subseteq Nat
<1> SUFFICES ASSUME IInv, reads \subseteq Nat, [Next]_vars
             PROVE  reads' \subseteq Nat
  OBVIOUS
<1>1. CASE PackTile
  <2>1. nb \in Nat /\ KB \in Nat
    BY DEF IInv, KB
  <2>2. BlocksRead(TileBase(nb), KB) \subseteq Nat
    BY <2>1 DEF BlocksRead, TileBase, RowBlock
  <2> QED
    BY <1>1, <2>2 DEF PackTile
<1>2. CASE PackEntry \/ PackDone
  BY <1>2 DEF PackEntry, PackDone
<1>3. CASE UNCHANGED vars
  BY <1>3 DEF vars
<1> QED
  BY <1>1, <1>2, <1>3 DEF Next

\* The type invariant of the run: every state of a call, for every set of
\* types, K and N, has its variables in their types; in particular the
\* stores of pack_B_* are byte ranges of naturals holding block items.
THEOREM TypeCorrect == Spec => []TypeOK
<1>1. Init => IInv /\ reads \subseteq Nat
  BY InitIInv DEF Init
<1>2. IInv /\ reads \subseteq Nat /\ [Next]_vars => (IInv /\ reads \subseteq Nat)'
  BY NextIInv, ReadsStep
<1>3. IInv /\ reads \subseteq Nat => TypeOK
  BY IInvWritesType DEF TypeOK, IInv
<1> QED
  BY <1>1, <1>2, <1>3, PTL DEF Spec

=============================================================================
