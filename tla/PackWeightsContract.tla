------------------------- MODULE PackWeightsContract -------------------------
(***************************************************************************)
(* What one call of ggml_amx_pack_weights promises its caller, as a single *)
(* atomic step: it returns whether the request is accepted, and the packed *)
(* buffer it leaves is the whole packed image of the weight when it        *)
(* returns true and untouched when it returns false.  The tile loop, the   *)
(* order of its stores and the point at which it gives up are hidden.      *)
(*                                                                         *)
(* Accepts and Image are parameters: the refinement in WeightPacker        *)
(* supplies the entry checks and the stores of pack_B_* of the code.       *)
(***************************************************************************)

CONSTANTS
  Types, Ks, Ns,          \* the arguments a caller may pass
  Accepts(_, _, _, _),    \* Accepts(type, K, N, enabled): the call returns true
  Image(_, _, _)          \* Image(type, K, N): the stores of a successful call

VARIABLES
  type, K, N, enabled,    \* the call's arguments and g_amx_enabled
  done,                   \* the call has returned
  result,                 \* its return value
  image                   \* the stores it has made into packed_buffer

vars == <<type, K, N, enabled, done, result, image>>

Init ==
  /\ type \in Types
  /\ K \in Ks
  /\ N \in Ns
  /\ enabled \in BOOLEAN
  /\ done = FALSE
  /\ result = FALSE
  /\ image = {}

\* The whole call of ggml_amx_pack_weights: all tiles or nothing.
Call ==
  /\ ~done
  /\ done' = TRUE
  /\ result' = Accepts(type, K, N, enabled)
  /\ image' = IF result' THEN Image(type, K, N) ELSE {}
  /\ UNCHANGED <<type, K, N, enabled>>

Next == Call

Spec == Init /\ [][Next]_vars

=============================================================================
