------------------------------ MODULE ByteStream ------------------------------
(***************************************************************************)
(* What the two callers of a pair of `EncryptedStream`s may rely on in one *)
(* direction: the promise of AsyncRead and AsyncWrite over a TCP stream.   *)
(* Bytes are named by their position in what the writer's caller wrote.    *)
(***************************************************************************)
EXTENDS Naturals, Sequences

CONSTANT MaxBytes           \* bound: bytes written in a behaviour

VARIABLES
    accepted,       \* bytes poll_write took
    writer,         \* "open", "closed" (poll_shutdown succeeded), "dead"
    delivered,      \* bytes poll_read gave
    reader          \* "reading", or how it ended: "eof", "short"

vars == <<accepted, writer, delivered, reader>>

Init == accepted = 0 /\ writer = "open" /\ delivered = <<>> /\ reader = "reading"

Accept(n) ==
    /\ writer = "open" /\ n > 0 /\ accepted + n <= MaxBytes
    /\ accepted' = accepted + n
    /\ UNCHANGED <<writer, delivered, reader>>

Close ==
    /\ writer = "open" /\ writer' = "closed"
    /\ UNCHANGED <<accepted, delivered, reader>>

Die ==
    /\ writer = "open" /\ writer' = "dead"
    /\ UNCHANGED <<accepted, delivered, reader>>

Deliver(n) ==
    /\ reader = "reading" /\ n > 0 /\ Len(delivered) + n <= accepted
    /\ delivered' = delivered \o [i \in 1..n |-> Len(delivered) + i]
    /\ UNCHANGED <<accepted, writer, reader>>

(* A clean end follows a shutdown and everything written before it, or the *)
(* writer's death; an unclean end only the latter.                         *)
End ==
    /\ reader = "reading"
    /\ \/ writer = "closed" /\ Len(delivered) = accepted /\ reader' = "eof"
       \/ writer = "dead" /\ reader' \in {"eof", "short"}
    /\ UNCHANGED <<accepted, writer, delivered>>

Read == (\E n \in 1..MaxBytes : Deliver(n)) \/ End
Next == (\E n \in 1..MaxBytes : Accept(n)) \/ Close \/ Die \/ Read

Spec == Init /\ [][Next]_vars
FairSpec == Spec /\ WF_vars(Read)
=============================================================================
