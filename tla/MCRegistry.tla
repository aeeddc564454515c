------------------------------ MODULE MCRegistry ------------------------------
(* Instance of Registry for TLC. *)
EXTENDS Registry

(* "a443" is the server "a" named with the port of https. *)
CanonOfThree == [h \in Hosts |-> IF h = "a443" THEN "a" ELSE h]

SomeConfigs ==
    LET Configured(h, S) == [NewServer(h) EXCEPT !.rules["domain"] = S]
        NoneDirect == [k \in Kinds |-> <<>>]
    IN {[servers |-> <<>>, direct |-> NoneDirect],
        [servers |-> <<Configured("a443", {"x"}), Configured("b", {})>>, direct |-> NoneDirect],
        [servers |-> <<Configured("a443", {})>>, direct |-> [NoneDirect EXCEPT !["domain"] = <<"x">>]]}
CallersAlike == Permutations(Callers)
=============================================================================
