--------------------- MODULE WeightPackerLayout_proofs ---------------------
(***************************************************************************)
(* The byte layout of ggml_amx_pack_weights, for every K, N and type: the  *)
(* stores of pack_B_* of one tile tile [at, at + get_packed_size(type, 1)) *)
(* exactly, and the NB tiles of a successful call, side by side at         *)
(* nb * get_packed_size(type, 1), tile [0, get_packed_size(type, NB)).     *)
(***************************************************************************)
EXTENDS WeightPacker_proofs

\* The bytes of one packed N tile of type ty.
TileSize(ty) == ggml_amx_get_packed_size(ty, 1)

\* The 64-byte store packNibbles makes for column groups u and u + 1.
NibbleStore(at, base, kb, u) ==
  [lo |-> at + u * 32, hi |-> at + u * 32 + 64,
   src |-> Quants(base, kb, 0..(TILE_N - 1), {u, u + 1})]

\* Two stores share no byte.
Apart(s1, s2) == s1.hi <= s2.lo \/ s2.hi <= s1.lo

\* K and N are naturals and the tile extents numbers, in every step.
USE InputAssumption DEF TILE_N, TILE_K

-----------------------------------------------------------------------------
(* The sizes and the stores of one tile.                                    *)

\* The bytes of one tile of each type the switch knows.
LEMMA TileSizeValues ==
  /\ TileSize("Q4_0") = 288
  /\ TileSize("Q4_1") = 320
  /\ TileSize("Q8_0") = 608
BY DEF TileSize, ggml_amx_get_packed_size, SizeofHalf, SizeofInt32

\* get_packed_size(type, n) is n tiles of a handled type, and 0 bytes of
\* any other.
LEMMA PackedSizeTiles ==
  ASSUME NEW ty, NEW n \in Nat
  PROVE  ggml_amx_get_packed_size(ty, n) = IF ty \in Handled THEN n * TileSize(ty) ELSE 0
BY DEF TileSize, ggml_amx_get_packed_size, Handled, SizeofHalf, SizeofInt32

\* packNibbles stores at column groups 0, 2, 4 and 6.
LEMMA NibbleStoresAsSet ==
  ASSUME NEW at, NEW base, NEW kb
  PROVE  NibbleStores(at, base, kb) = {NibbleStore(at, base, kb, u) : u \in {0, 2, 4, 6}}
<1>1. {i \in 0..7 : i % 2 = 0} = {0, 2, 4, 6}
  OBVIOUS
<1>2. NibbleStores(at, base, kb) =
        {NibbleStore(at, base, kb, u) : u \in {i \in 0..7 : i % 2 = 0}}
  BY DEF NibbleStores, NibbleStore
<1> QED
  BY <1>1, <1>2

\* Where each kind of store lies in its tile.
LEMMA StoreBounds ==
  ASSUME NEW at \in Nat, NEW base, NEW kb
  PROVE  /\ \A u : NibbleStore(at, base, kb, u).lo = at + u * 32
                   /\ NibbleStore(at, base, kb, u).hi = at + u * 32 + 64
         /\ \A u, v : ByteStore(at, base, kb, u, v).lo = at + u * 64 + v * 32
                      /\ ByteStore(at, base, kb, u, v).hi = at + u * 64 + v * 32 + 32
         /\ \A off, p : FieldStore(at, off, base, kb, p).lo = at + off
                        /\ FieldStore(at, off, base, kb, p).hi = at + off + 32
         /\ \A qs : CompStore(at, qs, base, kb).lo = at + 544
                    /\ CompStore(at, qs, base, kb).hi = at + 608
<1>1. \A u : NibbleStore(at, base, kb, u).lo = at + u * 32
             /\ NibbleStore(at, base, kb, u).hi = at + u * 32 + 64
  BY Zenon DEF NibbleStore
<1>2. \A u, v : ByteStore(at, base, kb, u, v).lo = at + u * 64 + v * 32
                /\ ByteStore(at, base, kb, u, v).hi = at + u * 64 + v * 32 + 32
  BY Zenon DEF ByteStore
<1>3. \A off, p : FieldStore(at, off, base, kb, p).lo = at + off
                  /\ FieldStore(at, off, base, kb, p).hi = at + off + TILE_N * SizeofHalf
  BY Zenon DEF FieldStore
<1>4. \A qs : CompStore(at, qs, base, kb).lo = at + (TILE_N * TILE_K + TILE_N * SizeofHalf)
              /\ CompStore(at, qs, base, kb).hi
                   = at + (TILE_N * TILE_K + TILE_N * SizeofHalf) + TILE_N * SizeofInt32
  BY Zenon DEF CompStore
<1> QED
  BY <1>1, <1>2, <1>3, <1>4 DEF SizeofHalf, SizeofInt32

\* The stores of pack_B_q4_0, pack_B_q4_1 and pack_B_q8_0, one by one.
LEMMA PackBForms ==
  ASSUME NEW at, NEW base, NEW kb
  PROVE  /\ pack_B("Q4_0", at, base, kb) =
              NibbleStores(at, base, kb) \cup {FieldStore(at, 256, base, kb, PartD)}
         /\ pack_B("Q4_1", at, base, kb) =
              NibbleStores(at, base, kb) \cup {FieldStore(at, 256, base, kb, PartD),
                                               FieldStore(at, 288, base, kb, PartM)}
         /\ pack_B("Q8_0", at, base, kb) =
              ByteStores(at, base, kb) \cup {FieldStore(at, 512, base, kb, PartD),
                                             CompStore(at, ByteStores(at, base, kb), base, kb)}
BY DEF pack_B, SizeofHalf

\* The stores of one tile lie in it and share no byte: packNibbles' four
\* 64-byte stores, transpose_8x8_32bit's sixteen 32-byte ones, d, m and the
\* compensation follow one another.
LEMMA TileLayout ==
  ASSUME NEW ty \in Handled, NEW at \in Nat, NEW base, NEW kb,
         NEW s1 \in pack_B(ty, at, base, kb), NEW s2 \in pack_B(ty, at, base, kb)
  PROVE  /\ at <= s1.lo /\ s1.lo < s1.hi /\ s1.hi <= at + TileSize(ty)
         /\ s1 # s2 => Apart(s1, s2)
<1> DEFINE NS == {NibbleStore(at, base, kb, u) : u \in {0, 2, 4, 6}}
           BS == {ByteStore(at, base, kb, u, v) : u \in 0..7, v \in 0..1}
           D4 == FieldStore(at, 256, base, kb, PartD)
           M4 == FieldStore(at, 288, base, kb, PartM)
           D8 == FieldStore(at, 512, base, kb, PartD)
           C8 == CompStore(at, ByteStores(at, base, kb), base, kb)
<1>1. CASE ty = "Q4_0"
  <2>1. \A s \in pack_B(ty, at, base, kb) :
          (\E u \in {0, 2, 4, 6} : s = NibbleStore(at, base, kb, u)) \/ s = D4
    BY <1>1, PackBForms, NibbleStoresAsSet
  <2> QED
    BY <1>1, <2>1, StoreBounds, TileSizeValues DEF Apart
<1>2. CASE ty = "Q4_1"
  <2>1. \A s \in pack_B(ty, at, base, kb) :
          (\E u \in {0, 2, 4, 6} : s = NibbleStore(at, base, kb, u)) \/ s = D4 \/ s = M4
    BY <1>2, PackBForms, NibbleStoresAsSet
  <2> QED
    BY <1>2, <2>1, StoreBounds, TileSizeValues DEF Apart
<1>3. CASE ty = "Q8_0"
  <2>1. \A s \in pack_B(ty, at, base, kb) :
          (\E u \in 0..7, v \in 0..1 : s = ByteStore(at, base, kb, u, v)) \/ s = D8 \/ s = C8
    BY <1>3, PackBForms, ByteStoresAsSet
  <2> QED
    BY <1>3, <2>1, StoreBounds, TileSizeValues DEF Apart
<1> QED
  BY <1>1, <1>2, <1>3 DEF Handled

\* No byte of a tile is left out: each lies in the nibble or byte store of
\* its 64 or 32 bytes, or in d, m or the compensation.
LEMMA TileCover ==
  ASSUME NEW ty \in Handled, NEW at \in Nat, NEW base, NEW kb,
         NEW b \in at..(at + TileSize(ty) - 1)
  PROVE  \E s \in pack_B(ty, at, base, kb) : s.lo <= b /\ b < s.hi
<1>1. CASE ty \in {"Q4_0", "Q4_1"} /\ b < at + 256
  <2> DEFINE u == 2 * ((b - at) \div 64)
  <2>1. u \in {0, 2, 4, 6} /\ at + u * 32 <= b /\ b < at + u * 32 + 64
    BY <1>1
  <2>2. NibbleStore(at, base, kb, u) \in pack_B(ty, at, base, kb)
    BY <1>1, <2>1, PackBForms, NibbleStoresAsSet
  <2> QED
    BY <2>1, <2>2, StoreBounds
<1>2. CASE ty \in {"Q4_0", "Q4_1"} /\ at + 256 <= b /\ b < at + 288
  <2>1. FieldStore(at, 256, base, kb, PartD) \in pack_B(ty, at, base, kb)
    BY <1>2, PackBForms
  <2> QED
    BY <1>2, <2>1, StoreBounds
<1>3. CASE ty = "Q4_1" /\ at + 288 <= b
  <2>1. FieldStore(at, 288, base, kb, PartM) \in pack_B(ty, at, base, kb)
    BY <1>3, PackBForms
  <2> QED
    BY <1>3, <2>1, StoreBounds, TileSizeValues
<1>4. CASE ty = "Q8_0" /\ b < at + 512
  <2> DEFINE c == (b - at) \div 32
             u == c \div 2
             v == c % 2
  <2>1. u \in 0..7 /\ v \in 0..1 /\ at + u * 64 + v * 32 <= b /\ b < at + u * 64 + v * 32 + 32
    BY <1>4
  <2>2. ByteStore(at, base, kb, u, v) \in pack_B(ty, at, base, kb)
    BY <1>4, <2>1, PackBForms, ByteStoresAsSet
  <2>3. /\ ByteStore(at, base, kb, u, v).lo = at + u * 64 + v * 32
        /\ ByteStore(at, base, kb, u, v).hi = at + u * 64 + v * 32 + 32
    BY StoreBounds
  <2> QED
    BY <2>1, <2>2, <2>3
<1>5. CASE ty = "Q8_0" /\ at + 512 <= b /\ b < at + 544
  <2>1. FieldStore(at, 512, base, kb, PartD) \in pack_B(ty, at, base, kb)
    BY <1>5, PackBForms
  <2> QED
    BY <1>5, <2>1, StoreBounds
<1>6. CASE ty = "Q8_0" /\ at + 544 <= b
  <2>1. CompStore(at, ByteStores(at, base, kb), base, kb) \in pack_B(ty, at, base, kb)
    BY <1>6, PackBForms
  <2> QED
    BY <1>6, <2>1, StoreBounds, TileSizeValues
<1> QED
  BY <1>1, <1>2, <1>3, <1>4, <1>5, <1>6, TileSizeValues DEF Handled

-----------------------------------------------------------------------------
(* The whole call.                                                          *)

\* The bytes ggml_amx_pack_weights's caller sizes packed_buffer to.
PackedSize == ggml_amx_get_packed_size(type, NB)

\* The tile of loop iteration i, at i * get_packed_size(type, 1).
Tile(i) == pack_B(type, i * TileSize(type), i * TILE_N * KB, KB)

\* A successful call has stored tiles 0..NB-1 and nothing else; tile i lies
\* in [i * TileSize, (i + 1) * TileSize), so tiles are apart and their
\* bytes together are [0, NB * TileSize).
LEMMA IInvLayoutExact == IInv => LayoutExact
<1> SUFFICES ASSUME IInv, pc = "done", result
             PROVE  /\ \A s \in writes : s.lo < s.hi /\ s.hi <= PackedSize
                    /\ \A s1, s2 \in writes : s1 # s2 => s1.hi <= s2.lo \/ s2.hi <= s1.lo
                    /\ \A b \in 0..(PackedSize - 1) : \E s \in writes : s.lo <= b /\ b < s.hi
  BY DEF LayoutExact, PackedSize
<1>1. /\ N \div TILE_N = 0 \/ ggml_amx_can_handle(type)
      /\ writes = PackImage(type, K, N)
      /\ K \in Nat /\ N \in Nat
  BY DEF IInv, PackAccepts
<1>2. NB \in Nat
  BY <1>1 DEF NB
<1>0. \A s \in writes : s.lo \in Nat /\ s.hi \in Nat
  BY IInvWritesType DEF Store
<1>3. writes = UNION {Tile(i) : i \in 0..(NB - 1)}
  BY <1>1 DEF PackImage, Tile, TileSize, KB, NB
<1>4. CASE NB = 0
  <2>1. writes = {}
    BY <1>3, <1>4
  <2>2. PackedSize = 0
    BY <1>2, <1>4, PackedSizeTiles, TileSizeValues DEF PackedSize, Handled
  <2> QED
    BY <2>1, <2>2
<1>5. CASE NB > 0
  <2>1. type \in Handled
    BY <1>1, <1>5, HandledIsCanHandle DEF NB
  <2>2. TileSize(type) \in {288, 320, 608} /\ PackedSize = NB * TileSize(type)
    BY <1>2, <2>1, TileSizeValues, PackedSizeTiles DEF Handled, PackedSize
  <2>3. ASSUME NEW i \in 0..(NB - 1)
        PROVE  /\ i * TileSize(type) \in Nat
               /\ i * TileSize(type) + TileSize(type) <= NB * TileSize(type)
               /\ \A s \in Tile(i) : i * TileSize(type) <= s.lo /\ s.lo < s.hi /\ s.hi <= i * TileSize(type) + TileSize(type)
    <3>1. i * TileSize(type) \in Nat /\ i * TileSize(type) + TileSize(type) <= NB * TileSize(type)
      BY <1>2, <2>2
    <3> QED
      BY <2>1, <3>1, TileLayout DEF Tile
  <2>4. \A s \in writes : \E i \in 0..(NB - 1) : s \in Tile(i)
    BY <1>3
  <2>5. \A s \in writes : s.lo < s.hi /\ s.hi <= PackedSize
    <3> SUFFICES ASSUME NEW s \in writes PROVE s.lo < s.hi /\ s.hi <= PackedSize
      OBVIOUS
    <3>1. PICK i \in 0..(NB - 1) : s \in Tile(i)
      BY <2>4
    <3>2. s.lo < s.hi /\ s.hi <= i * TileSize(type) + TileSize(type) /\ i * TileSize(type) + TileSize(type) <= NB * TileSize(type)
      BY <2>3, <3>1
    <3> QED
      BY <1>0, <2>2, <3>2
  <2>6. ASSUME NEW s1 \in writes, NEW s2 \in writes, s1 # s2
        PROVE  s1.hi <= s2.lo \/ s2.hi <= s1.lo
    <3>1. PICK i \in 0..(NB - 1) : s1 \in Tile(i)
      BY <2>4
    <3>2. PICK j \in 0..(NB - 1) : s2 \in Tile(j)
      BY <2>4
    <3>3. CASE i = j
      BY <2>1, <2>3, <3>1, <3>2, <3>3, <2>6, TileLayout DEF Tile, Apart
    <3>4. CASE i < j
      <4>1. i * TileSize(type) + TileSize(type) <= j * TileSize(type)
        BY <3>4, <2>2
      <4>2. s1.hi <= i * TileSize(type) + TileSize(type) /\ j * TileSize(type) <= s2.lo
        BY <2>3, <3>1, <3>2
      <4> QED
        BY <1>0, <2>2, <4>1, <4>2
    <3>5. CASE j < i
      <4>1. j * TileSize(type) + TileSize(type) <= i * TileSize(type)
        BY <3>5, <2>2
      <4>2. s2.hi <= j * TileSize(type) + TileSize(type) /\ i * TileSize(type) <= s1.lo
        BY <2>3, <3>1, <3>2
      <4> QED
        BY <1>0, <2>2, <4>1, <4>2
    <3> QED
      BY <3>3, <3>4, <3>5
  <2>7. ASSUME NEW b \in 0..(PackedSize - 1)
        PROVE  \E s \in writes : s.lo <= b /\ b < s.hi
    <3>1. PICK i \in 0..(NB - 1) :
                 b \in (i * TileSize(type))..(i * TileSize(type) + TileSize(type) - 1)
      <4>1. b \div TileSize(type) \in 0..(NB - 1)
            /\ b \in ((b \div TileSize(type)) * TileSize(type))
                      ..((b \div TileSize(type)) * TileSize(type) + TileSize(type) - 1)
        BY <1>2, <2>2
      <4> QED
        BY <4>1
    <3>2. \E s \in Tile(i) : s.lo <= b /\ b < s.hi
      BY <2>1, <2>3, <3>1, TileCover DEF Tile
    <3> QED
      BY <1>3, <3>1, <3>2
  <2> QED
    BY <2>5, <2>6, <2>7
<1> QED
  BY <1>2, <1>4, <1>5

\* The size contract of ggml_amx_pack_weights, for every K, N and type:
\* after a successful call the stores of pack_B_* tile [0,
\* get_packed_size(type, NB)) exactly, none overlapping another, none past
\* the end and no byte left out.
THEOREM LayoutExactInvariant == Spec => []LayoutExact
<1>1. IInv => LayoutExact
  BY IInvLayoutExact
<1> QED
  BY <1>1, IInvInvariant, PTL

=============================================================================
