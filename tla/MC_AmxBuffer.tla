--------------------------- MODULE MC_AmxBuffer ---------------------------
(***************************************************************************)
(* A small instance of AmxBuffer: two weight buffers, three tensors of an  *)
(* AMX-packed, an F16 and a second packed type, two NUMA nodes, two        *)
(* payloads, three MUL_MAT ops, one of which supports_op rejects, and an  *)
(* op of another kind.                                                     *)
(***************************************************************************)
EXTENDS AmxBuffer, TLC

CONSTANTS b1, b2, t1, t2, t3, o1, o2, o3, o4

MC_TBuf == [t \in {t1, t2, t3} |-> IF t = t3 THEN b2 ELSE b1]
MC_TType == (t1 :> "Q4_0") @@ (t2 :> "F16") @@ (t3 :> "Q8_0")
MC_StartTensor == (b1 :> t1) @@ (b2 :> t3)

\* o1: a supported 2-D MUL_MAT on a packed weight; o2: a MUL_MAT whose
\* out_features (48) is not a multiple of 32; o3: an F16-weight MUL_MAT;
\* o4: another op (a GET_ROWS, say) on the F16 weight, which the AMX
\* traits decline and the default kernel runs.
MC_Shape(t, n) == [kind |-> "MUL_MAT", src0 |-> t, contig0 |-> TRUE, contig1 |-> TRUE,
                   ne0 |-> n, src1Type |-> "F32", src1Host |-> TRUE]
MC_OpSpec == (o1 :> MC_Shape(t1, 64)) @@ (o2 :> MC_Shape(t3, 48)) @@ (o3 :> MC_Shape(t2, 32))
              @@ (o4 :> [MC_Shape(t2, 32) EXCEPT !.kind = "OTHER"])

=============================================================================
