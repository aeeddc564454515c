---------------------------- MODULE MCNonceWords ----------------------------
EXTENDS NonceWords

(* Words of four values; both halves start just below a carry, the second  *)
(* one just below the end of its range.                                    *)
SmallSalt == <<3, 3, 1, 2, 3, 3>>
=============================================================================
