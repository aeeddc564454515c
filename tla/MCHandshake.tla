----------------------------- MODULE MCHandshake -----------------------------
(* Instance of Handshake for TLC. *)
EXTENDS Handshake

(* The clocks of the two machines are in step or one unit apart. *)
SkewsOfOne == {-1, 0, 1}
NoSkew == {0}
=============================================================================
