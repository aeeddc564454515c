----------------------------- MODULE NonceWords -----------------------------
(***************************************************************************)
(* The nonces of a tunnel as the bytes they are (crates/crypto/src/        *)
(* cipher.rs): EncryptedStream counts how far a nonce moved, here it is a  *)
(* little-endian sequence of words, cut from the salt of the handshake and *)
(* moved on by `inc_nonce` behind every part that is sealed.               *)
(***************************************************************************)
EXTENDS EncryptedStream, FiniteSets

CONSTANTS
    Base,           \* the values of a word (2^16)
    NonceSize,      \* words of a nonce (6)
    Salt            \* the salt's words (16 of them: the size of a key)

ASSUME NonceAssumption ==
    /\ Base \in Nat /\ Base > 1 /\ Base > PadMax
    /\ NonceSize \in Nat \ {0}
    /\ Salt \in Seq(0..(Base - 1)) /\ NonceSize <= Len(Salt)

(* How many nonces differ in their n upper words. *)
Numbers[n \in 0..NonceSize] == IF n = 0 THEN 1 ELSE Base * Numbers[n - 1]

(* Every frame moves the nonce by less than PadMax + 2, and holds a byte   *)
(* at least, so no more than EncLimit + 1 of them are encrypted: with a    *)
(* limit of 64 bits and a padding of 16 that is below 2^81, of 2^96.       *)
ASSUME RangeAssumption == (EncLimit + 1) * (PadMax + 2) <= Numbers[NonceSize]

(* Cipher::new_client_server: the client's stream starts with the head of  *)
(* the salt, the server's with its tail.                                   *)
ClientNonce == SubSeq(Salt, 1, NonceSize)
ServerNonce == SubSeq(Salt, Len(Salt) - NonceSize + 1, Len(Salt))

(* Cipher::inc_nonce: the value is added to the first word, what does not  *)
(* fit carries to the next, and what leaves the last word is lost.         *)
IncFirstWord(nonce, value) ==                       \* fault: no carry
    [nonce EXCEPT ![1] = (@ + value) % Base]
IncNonce(nonce, value) ==
    LET add[i \in 1..Len(nonce)] ==
            IF i = 1 THEN value ELSE (nonce[i - 1] + add[i - 1]) \div Base
    IN  [i \in 1..Len(nonce) |-> (nonce[i] + add[i]) % Base]

(* What the cipher's nonce was before the k-th part of a stream that began *)
(* with `first`: parts are sealed in the order of the frames, each frame's *)
(* header and then its data, as long as frames are encrypted.              *)
Sealed == 2 * Cardinality({k \in DOMAIN frames : frames[k].enc})
MovedBy(part) == IF part % 2 = 1 THEN HeaderInc(frames[(part + 1) \div 2].pad) ELSE 1
NonceOf(first) ==
    LET at[part \in 1..(Sealed + 1)] ==
            IF part = 1 THEN first ELSE IncNonce(at[part - 1], MovedBy(part - 1))
    IN  at

-----------------------------------------------------------------------------
(* No two parts of a direction are sealed under the same bytes: the carry  *)
(* goes through every word and the wrap at the top comes back to no nonce  *)
(* in use, wherever in the range the salt let the nonce start.             *)
WordsFresh ==
    \A first \in {ClientNonce, ServerNonce} :
        LET at == NonceOf(first)
        IN  \A i, j \in 1..Sealed : at[i] = at[j] => i = j
=============================================================================
