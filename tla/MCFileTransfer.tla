--------------------------- MODULE MCFileTransfer ---------------------------
(* FileTransfer with the senders that TLC tries. *)
EXTENDS FileTransfer, TLC

CONSTANTS a, b, s

Same == Permutations({a, b})
=============================================================================
