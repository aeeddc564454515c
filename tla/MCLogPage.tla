------------------------------ MODULE MCLogPage ------------------------------
(* Instance of LogPage for TLC, with the texts its reader is tried on.      *)
EXTENDS LogPage, TLC

Three == <<"m1", "m2", "m3">>
PageSymmetry == Permutations(Pages)

(* Every text of up to six bytes, read in chunks of one to four: the reader *)
(* returns its lines.  A statement about no state, it is evaluated in one.  *)
Texts == UNION {[1..n -> {LF, CR, "a"}] : n \in 0..6}
ReadsAllLines ==
    logged = 0 /\ page = [p \in Pages |-> Unopened] =>
        \A text \in Texts, cap \in 1..4 : SameLines(text, cap)
=============================================================================
