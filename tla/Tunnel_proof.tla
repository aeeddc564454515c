----------------------------- MODULE Tunnel_proof -----------------------------
(***************************************************************************)
(* Proofs about Tunnel for every size of the copy buffer and any number of *)
(* bytes; and about the connection a tunnel may run over, UpgradeStream,   *)
(* for every header, limit and size of the pipe.                           *)
(***************************************************************************)
EXTENDS Tunnel, UpgradeStream, SequenceTheorems, FiniteSetTheorems, TLAPS

-----------------------------------------------------------------------------
(* The inductive invariant, in its parts.                                  *)

CopyState == [phase : {"running", "shutting", "done"}, size : 0..BufLen,
              read_done : BOOLEAN, need_flush : BOOLEAN]

(* Every byte read is in the copy buffer, behind the stream or delivered.  *)
Conserved ==
    \A d \in Dirs : /\ got[d] <= source[d]
                    /\ got[d] = out[d] + Unflushed(d) + copy[d].size

(* End of stream was read only behind the last byte, and a direction that  *)
(* goes on to its shutdown has nothing left.                               *)
Drained ==
    \A d \in Dirs :
        /\ copy[d].read_done => closed[d] /\ got[d] = source[d]
        /\ copy[d].phase # "running" =>
              copy[d].read_done /\ copy[d].size = 0 /\ Unflushed(d) = 0
        /\ shut[d] <=> copy[d].phase = "done"

(* How copy_bidirectional ended. *)
EndedRight == tunnel # "running" /\ ~failed => \A d \in Dirs : copy[d].phase = "done"

(* The counters of this tunnel are those of its success, until it returns. *)
Counters ==
    /\ succes_count = IF success THEN 1 ELSE 0
    /\ client = "direct" => ~success
    /\ err_count = IF tunnel = "counted" /\ ~success /\ client # "direct" THEN 1 ELSE 0

IInv == TypeOK /\ Conserved /\ Drained /\ EndedRight /\ Counters /\ TxExact

LEMMA InitInv == Init => IInv
<1>. SUFFICES ASSUME Init PROVE IInv
    OBVIOUS
<1>1. MaxBytes \in Nat \ {0} /\ BufLen \in Nat \ {0}
    BY TunnelAssumption
<1>2. TypeOK
    <2>1. woken \in BOOLEAN /\ closed \in [Dirs -> BOOLEAN] /\ shut \in [Dirs -> BOOLEAN]
        BY DEF Init
    <2>2. source \in [Dirs -> 0..MaxBytes]
        BY <1>1 DEF Init
    <2>3. copy \in [Dirs -> [phase : {"running", "shutting", "done"}, size : 0..BufLen,
                          read_done : BOOLEAN, need_flush : BOOLEAN]]
        <3>1. 0 \in 0..BufLen
            BY <1>1
        <3>. QED  BY <3>1, Zenon DEF Init
    <2>4. /\ client \in Clients /\ got \in [Dirs -> Nat] /\ out \in [Dirs -> Nat] /\ held \in Nat
          /\ broken \subseteq {"app", "server"}
          /\ tunnel \in {"running", "ended", "counted"} /\ failed \in BOOLEAN
          /\ success \in BOOLEAN /\ rx_total \in Nat /\ tx_total \in Nat
          /\ succes_count \in Nat /\ err_count \in Nat
        BY DEF Init
    <2>. QED  BY <2>1, <2>2, <2>3, <2>4 DEF TypeOK
<1>3. Conserved /\ Drained /\ EndedRight /\ Counters /\ TxExact
    BY DEF Init, Conserved, Drained, EndedRight, Counters, TxExact, Clients, Dirs, Unflushed
<1>. QED  BY <1>2, <1>3 DEF IInv

(* An end sends a byte.                                                    *)
LEMMA ProduceInv ==
    ASSUME IInv, NEW d \in Dirs, Produce(d)
    PROVE  IInv'
<1>. USE DEF Produce, Free, Reader, ends, stats
<1>1. TypeOK'
    BY TunnelAssumption DEF IInv, TypeOK, Conserved, Unflushed, Dirs
<1>2. Conserved'
    BY TunnelAssumption DEF IInv, TypeOK, Conserved, Drained, Unflushed, Dirs
<1>3. Drained'
    BY DEF IInv, TypeOK, Conserved, Drained, Unflushed, Dirs
<1>4. EndedRight' /\ Counters'
    BY DEF IInv, TypeOK, EndedRight, Counters, Dirs
<1>5. TxExact'
    BY DEF IInv, TypeOK, TxExact, Conserved, Drained, Unflushed, Dirs
<1>. QED  BY <1>1, <1>2, <1>3, <1>4, <1>5 DEF IInv

(* An end sends no more.                                                   *)
LEMMA CloseInv ==
    ASSUME IInv, NEW d \in Dirs, CloseSource(d)
    PROVE  IInv'
<1>. USE DEF CloseSource, Free, Reader, ends, stats
<1>1. TypeOK'
    BY TunnelAssumption DEF IInv, TypeOK, Conserved, Unflushed, Dirs
<1>2. Conserved'
    BY TunnelAssumption DEF IInv, TypeOK, Conserved, Drained, Unflushed, Dirs
<1>3. Drained'
    BY DEF IInv, TypeOK, Conserved, Drained, Unflushed, Dirs
<1>4. EndedRight' /\ Counters'
    BY DEF IInv, TypeOK, EndedRight, Counters, Dirs
<1>5. TxExact'
    BY DEF IInv, TypeOK, TxExact, Conserved, Drained, Unflushed, Dirs
<1>. QED  BY <1>1, <1>2, <1>3, <1>4, <1>5 DEF IInv

(* A connection is reset.                                                  *)
LEMMA BreakInv ==
    ASSUME IInv, NEW e \in {"app", "server"}, Break(e)
    PROVE  IInv'
<1>. USE DEF Break, Free, ends, stats
<1>1. TypeOK'
    BY TunnelAssumption DEF IInv, TypeOK, Conserved, Unflushed, Dirs
<1>2. Conserved'
    BY TunnelAssumption DEF IInv, TypeOK, Conserved, Drained, Unflushed, Dirs
<1>3. Drained'
    BY DEF IInv, TypeOK, Conserved, Drained, Unflushed, Dirs
<1>4. EndedRight' /\ Counters'
    BY DEF IInv, TypeOK, EndedRight, Counters, Dirs
<1>5. TxExact'
    BY DEF IInv, TypeOK, TxExact, Conserved, Drained, Unflushed, Dirs
<1>. QED  BY <1>1, <1>2, <1>3, <1>4, <1>5 DEF IInv

(* A direction reads (tokio's CopyBuffer and MonitorStream::poll_read).    *)
LEMMA ReadInv ==
    ASSUME IInv, NEW d \in Dirs, NEW n \in 0..BufLen, Read(d, n)
    PROVE  IInv'
<1>. USE DEF Read, Running, Readable, CountRead, Reader, ends, stats
<1>1. TypeOK'
    <2>1. copy' \in [Dirs -> CopyState]
        BY TunnelAssumption DEF IInv, TypeOK, CopyState, Dirs
    <2>2. got' \in [Dirs -> Nat] /\ out' \in [Dirs -> Nat] /\ held' \in Nat
        BY TunnelAssumption DEF IInv, TypeOK, Unflushed, Dirs
    <2>3. /\ client' \in Clients /\ woken' \in BOOLEAN
          /\ source' \in [Dirs -> 0..MaxBytes] /\ closed' \in [Dirs -> BOOLEAN]
          /\ shut' \in [Dirs -> BOOLEAN] /\ broken' \subseteq {"app", "server"}
        BY DEF IInv, TypeOK, Dirs
    <2>4. /\ tunnel' \in {"running", "ended", "counted"} /\ failed' \in BOOLEAN
          /\ success' \in BOOLEAN /\ rx_total' \in Nat /\ tx_total' \in Nat
          /\ succes_count' \in Nat /\ err_count' \in Nat
        <3>1. copy[d].size \in Nat /\ n \in Nat
            BY TunnelAssumption DEF IInv, TypeOK
        <3>2. tunnel' \in {"running", "ended", "counted"} /\ failed' \in BOOLEAN
            BY DEF IInv, TypeOK
        <3>3. CASE d = "down" /\ client # "direct"
            <4>1. /\ success' = TRUE /\ rx_total' = rx_total + copy[d].size + n
                  /\ succes_count' \in {succes_count, succes_count + 1}
                  /\ tx_total' = tx_total /\ err_count' = err_count
                BY <3>1, <3>3 DEF IInv, TypeOK
            <4>2. /\ rx_total \in Nat /\ tx_total \in Nat
                  /\ succes_count \in Nat /\ err_count \in Nat
                BY DEF IInv, TypeOK
            <4>. HIDE DEF Read
            <4>. QED  BY <3>1, <3>2, <4>1, <4>2
        <3>4. CASE ~(d = "down" /\ client # "direct")
            BY <3>2, <3>4 DEF IInv, TypeOK
        <3>. QED  BY <3>3, <3>4
    <2>. QED  BY <2>1, <2>2, <2>3, <2>4 DEF TypeOK, CopyState
<1>2. Conserved'
    BY TunnelAssumption DEF IInv, TypeOK, Conserved, Drained, Unflushed, Dirs
<1>3. Drained'
    BY DEF IInv, TypeOK, Conserved, Drained, Unflushed, Dirs
<1>4. EndedRight' /\ Counters'
    BY DEF IInv, TypeOK, EndedRight, Counters, Dirs
<1>5. TxExact'
    BY DEF IInv, TypeOK, TxExact, Conserved, Drained, Unflushed, Dirs
<1>. QED  BY <1>1, <1>2, <1>3, <1>4, <1>5 DEF IInv

(* The encrypted stream takes the buffer (MonitorStream::poll_write).      *)
LEMMA WriteUpInv ==
    ASSUME IInv, NEW keep \in 0..BufLen, WriteUp(keep)
    PROVE  IInv'
<1>. USE DEF WriteUp, Running, CountWrite, ends, stats
<1>1. TypeOK'
    <2>1. copy' \in [Dirs -> CopyState]
        <3>1. copy \in [Dirs -> CopyState] /\ 0 \in 0..BufLen /\ "up" \in Dirs
            BY TunnelAssumption DEF IInv, TypeOK, CopyState, Dirs
        <3>2. copy' = [copy EXCEPT !["up"].size = 0, !["up"].need_flush = TRUE]
            OBVIOUS
        <3>. HIDE DEF WriteUp
        <3>. QED  BY <3>1, <3>2 DEF CopyState
    <2>2. got' \in [Dirs -> Nat] /\ out' \in [Dirs -> Nat] /\ held' \in Nat
        BY TunnelAssumption DEF IInv, TypeOK, Unflushed, Dirs
    <2>3. /\ client' \in Clients /\ woken' \in BOOLEAN
          /\ source' \in [Dirs -> 0..MaxBytes] /\ closed' \in [Dirs -> BOOLEAN]
          /\ shut' \in [Dirs -> BOOLEAN] /\ broken' \subseteq {"app", "server"}
        BY DEF IInv, TypeOK, Dirs
    <2>4. /\ tunnel' \in {"running", "ended", "counted"} /\ failed' \in BOOLEAN
          /\ success' \in BOOLEAN /\ rx_total' \in Nat /\ tx_total' \in Nat
          /\ succes_count' \in Nat /\ err_count' \in Nat
        BY TunnelAssumption DEF IInv, TypeOK, CopyState, Dirs
    <2>. QED  BY <2>1, <2>2, <2>3, <2>4 DEF TypeOK, CopyState
<1>2. Conserved'
    BY TunnelAssumption DEF IInv, TypeOK, Conserved, Drained, Unflushed, Dirs
<1>3. Drained'
    BY DEF IInv, TypeOK, Conserved, Drained, Unflushed, Dirs
<1>4. EndedRight' /\ Counters'
    BY DEF IInv, TypeOK, EndedRight, Counters, Dirs
<1>5. TxExact'
    BY DEF IInv, TypeOK, TxExact, Conserved, Drained, Unflushed, Dirs
<1>. QED  BY <1>1, <1>2, <1>3, <1>4, <1>5 DEF IInv

(* A TCP stream takes a part of the buffer.                                *)
LEMMA WriteTcpInv ==
    ASSUME IInv, NEW d \in Dirs, NEW n \in 1..BufLen, WriteTcp(d, n)
    PROVE  IInv'
<1>. USE DEF WriteTcp, Running, Writer, ends, stats
<1>1. TypeOK'
    <2>1. copy' \in [Dirs -> CopyState]
        <3>1. copy \in [Dirs -> CopyState] /\ copy[d].size - n \in 0..BufLen
            BY TunnelAssumption DEF IInv, TypeOK, CopyState
        <3>2. copy' = [copy EXCEPT ![d].size = copy[d].size - n, ![d].need_flush = TRUE]
            OBVIOUS
        <3>. HIDE DEF WriteTcp
        <3>. QED  BY <3>1, <3>2 DEF CopyState
    <2>2. got' \in [Dirs -> Nat] /\ out' \in [Dirs -> Nat] /\ held' \in Nat
        BY TunnelAssumption DEF IInv, TypeOK, Unflushed, Dirs
    <2>3. /\ client' \in Clients /\ woken' \in BOOLEAN
          /\ source' \in [Dirs -> 0..MaxBytes] /\ closed' \in [Dirs -> BOOLEAN]
          /\ shut' \in [Dirs -> BOOLEAN] /\ broken' \subseteq {"app", "server"}
        BY DEF IInv, TypeOK, Dirs
    <2>4. /\ tunnel' \in {"running", "ended", "counted"} /\ failed' \in BOOLEAN
          /\ success' \in BOOLEAN /\ rx_total' \in Nat /\ tx_total' \in Nat
          /\ succes_count' \in Nat /\ err_count' \in Nat
        BY TunnelAssumption DEF IInv, TypeOK, CopyState, Dirs
    <2>. QED  BY <2>1, <2>2, <2>3, <2>4 DEF TypeOK, CopyState
<1>2. Conserved'
    BY TunnelAssumption DEF IInv, TypeOK, Conserved, Drained, Unflushed, Dirs
<1>3. Drained'
    BY DEF IInv, TypeOK, Conserved, Drained, Unflushed, Dirs
<1>4. EndedRight' /\ Counters'
    BY DEF IInv, TypeOK, EndedRight, Counters, Dirs
<1>5. TxExact'
    BY DEF IInv, TypeOK, TxExact, Conserved, Drained, Unflushed, Dirs
<1>. QED  BY <1>1, <1>2, <1>3, <1>4, <1>5 DEF IInv

(* The probe takes the first bytes of the page (TtfbStream::poll_write).   *)
LEMMA WriteProbeInv ==
    ASSUME IInv, WriteProbe
    PROVE  IInv'
<1>. USE DEF WriteProbe, Running, ends, stats
<1>1. TypeOK'
    <2>1. copy' \in [Dirs -> CopyState]
        <3>1. copy \in [Dirs -> CopyState] /\ 0 \in 0..BufLen /\ "down" \in Dirs
            BY TunnelAssumption DEF IInv, TypeOK, CopyState, Dirs
        <3>2. copy' = [copy EXCEPT !["down"].size = 0, !["down"].need_flush = TRUE]
            OBVIOUS
        <3>. HIDE DEF WriteProbe
        <3>. QED  BY <3>1, <3>2 DEF CopyState
    <2>2. got' \in [Dirs -> Nat] /\ out' \in [Dirs -> Nat] /\ held' \in Nat
        BY TunnelAssumption DEF IInv, TypeOK, Unflushed, Dirs
    <2>3. /\ client' \in Clients /\ woken' \in BOOLEAN
          /\ source' \in [Dirs -> 0..MaxBytes] /\ closed' \in [Dirs -> BOOLEAN]
          /\ shut' \in [Dirs -> BOOLEAN] /\ broken' \subseteq {"app", "server"}
        BY DEF IInv, TypeOK, Dirs
    <2>4. /\ tunnel' \in {"running", "ended", "counted"} /\ failed' \in BOOLEAN
          /\ success' \in BOOLEAN /\ rx_total' \in Nat /\ tx_total' \in Nat
          /\ succes_count' \in Nat /\ err_count' \in Nat
        BY TunnelAssumption DEF IInv, TypeOK, CopyState, Dirs
    <2>. QED  BY <2>1, <2>2, <2>3, <2>4 DEF TypeOK, CopyState
<1>2. Conserved'
    BY TunnelAssumption DEF IInv, TypeOK, Conserved, Drained, Unflushed, Dirs
<1>3. Drained'
    BY DEF IInv, TypeOK, Conserved, Drained, Unflushed, Dirs
<1>4. EndedRight' /\ Counters'
    BY DEF IInv, TypeOK, EndedRight, Counters, Dirs
<1>5. TxExact'
    BY DEF IInv, TypeOK, TxExact, Conserved, Drained, Unflushed, Dirs
<1>. QED  BY <1>1, <1>2, <1>3, <1>4, <1>5 DEF IInv

(* A direction flushes before it waits.                                    *)
LEMMA FlushIdleInv ==
    ASSUME IInv, NEW d \in Dirs, NEW n \in 0..BufLen, FlushIdle(d, n)
    PROVE  IInv'
<1>. USE DEF FlushIdle, Running, Sends, Flushed, Readable, Reader, Writer, ends, stats
<1>1. TypeOK'
    <2>1. copy' \in [Dirs -> CopyState]
        BY TunnelAssumption DEF IInv, TypeOK, CopyState, Dirs
    <2>2. got' \in [Dirs -> Nat] /\ out' \in [Dirs -> Nat] /\ held' \in Nat
        BY TunnelAssumption DEF IInv, TypeOK, Unflushed, Dirs
    <2>3. /\ client' \in Clients /\ woken' \in BOOLEAN
          /\ source' \in [Dirs -> 0..MaxBytes] /\ closed' \in [Dirs -> BOOLEAN]
          /\ shut' \in [Dirs -> BOOLEAN] /\ broken' \subseteq {"app", "server"}
        BY DEF IInv, TypeOK, Dirs
    <2>4. /\ tunnel' \in {"running", "ended", "counted"} /\ failed' \in BOOLEAN
          /\ success' \in BOOLEAN /\ rx_total' \in Nat /\ tx_total' \in Nat
          /\ succes_count' \in Nat /\ err_count' \in Nat
        BY TunnelAssumption DEF IInv, TypeOK, CopyState, Dirs
    <2>. QED  BY <2>1, <2>2, <2>3, <2>4 DEF TypeOK, CopyState
<1>2. ASSUME d = "up" PROVE Conserved' /\ Drained'
    <2>1. /\ held \in Nat /\ n \in 0..held /\ out["up"] \in Nat
          /\ held' = held - n /\ out' = [out EXCEPT !["up"] = @ + n]
        BY <1>2 DEF IInv, TypeOK, Unflushed, Dirs
    <2>2. /\ copy["up"].size = 0 /\ copy["up"].phase = "running"
          /\ copy'["down"] = copy["down"]
          /\ copy'["up"].size = copy["up"].size /\ copy'["up"].phase = copy["up"].phase
          /\ copy'["up"].read_done = copy["up"].read_done
        BY <1>2 DEF IInv, TypeOK, Dirs
    <2>3. /\ out["down"] \in Nat /\ out' \in [Dirs -> Nat]
          /\ out'["up"] = out["up"] + n /\ out'["down"] = out["down"]
        BY <2>1 DEF IInv, TypeOK, Dirs
    <2>4. got' = got /\ source' = source /\ closed' = closed /\ shut' = shut
        OBVIOUS
    <2>. HIDE DEF FlushIdle
    <2>5. Conserved'
        BY <2>1, <2>2, <2>3, <2>4 DEF IInv, TypeOK, Conserved, Unflushed, Dirs
    <2>6. Drained'
        BY <2>1, <2>2, <2>3, <2>4 DEF IInv, TypeOK, Conserved, Drained, Unflushed, Dirs
    <2>. QED  BY <2>5, <2>6
<1>3. ASSUME d = "down" PROVE Conserved' /\ Drained'
    <2>1. n = 0 /\ held' = held /\ out' = out
        BY <1>3 DEF IInv, TypeOK, Unflushed, Dirs
    <2>2. Conserved' /\ Drained'
        BY <1>3, <2>1 DEF IInv, TypeOK, Conserved, Drained, Unflushed, Dirs
    <2>. QED  BY <2>2
<1>4. EndedRight' /\ Counters'
    BY DEF IInv, TypeOK, EndedRight, Counters, Dirs
<1>5. TxExact'
    BY DEF IInv, TypeOK, TxExact, Conserved, Drained, Unflushed, Dirs
<1>. QED  BY <1>1, <1>2, <1>3, <1>4, <1>5 DEF IInv, Dirs

(* A direction flushes at end of stream.                                   *)
LEMMA FinishInv ==
    ASSUME IInv, NEW d \in Dirs, NEW n \in 0..BufLen, Finish(d, n)
    PROVE  IInv'
<1>. USE DEF Finish, Running, Sends, Flushed, Writer, ends, stats
<1>1. TypeOK'
    <2>1. copy' \in [Dirs -> CopyState]
        BY TunnelAssumption DEF IInv, TypeOK, CopyState, Dirs
    <2>2. got' \in [Dirs -> Nat] /\ out' \in [Dirs -> Nat] /\ held' \in Nat
        BY TunnelAssumption DEF IInv, TypeOK, Unflushed, Dirs
    <2>3. /\ client' \in Clients /\ woken' \in BOOLEAN
          /\ source' \in [Dirs -> 0..MaxBytes] /\ closed' \in [Dirs -> BOOLEAN]
          /\ shut' \in [Dirs -> BOOLEAN] /\ broken' \subseteq {"app", "server"}
        BY DEF IInv, TypeOK, Dirs
    <2>4. /\ tunnel' \in {"running", "ended", "counted"} /\ failed' \in BOOLEAN
          /\ success' \in BOOLEAN /\ rx_total' \in Nat /\ tx_total' \in Nat
          /\ succes_count' \in Nat /\ err_count' \in Nat
        BY TunnelAssumption DEF IInv, TypeOK, CopyState, Dirs
    <2>. QED  BY <2>1, <2>2, <2>3, <2>4 DEF TypeOK, CopyState
<1>2. ASSUME d = "up" PROVE Conserved' /\ Drained'
    <2>1. /\ held \in Nat /\ n \in 0..held /\ out["up"] \in Nat
          /\ held' = held - n /\ out' = [out EXCEPT !["up"] = @ + n]
        BY <1>2 DEF IInv, TypeOK, Unflushed, Dirs
    <2>2. Conserved'
        BY <1>2, <2>1 DEF IInv, TypeOK, Conserved, Unflushed, Dirs
    <2>3. Drained'
        BY <1>2, <2>1 DEF IInv, TypeOK, Conserved, Drained, Unflushed, Dirs
    <2>. QED  BY <2>2, <2>3
<1>3. ASSUME d = "down" PROVE Conserved' /\ Drained'
    <2>1. n = 0 /\ held' = held /\ out' = out
        BY <1>3 DEF IInv, TypeOK, Unflushed, Dirs
    <2>2. Conserved' /\ Drained'
        BY <1>3, <2>1 DEF IInv, TypeOK, Conserved, Drained, Unflushed, Dirs
    <2>. QED  BY <2>2
<1>4. EndedRight' /\ Counters'
    BY DEF IInv, TypeOK, EndedRight, Counters, Dirs
<1>5. TxExact'
    BY DEF IInv, TypeOK, TxExact, Conserved, Drained, Unflushed, Dirs
<1>. QED  BY <1>1, <1>2, <1>3, <1>4, <1>5 DEF IInv, Dirs

(* The destination is told that no more come.                              *)
LEMMA ShutdownInv ==
    ASSUME IInv, NEW d \in Dirs, Shutdown(d)
    PROVE  IInv'
<1>. USE DEF Shutdown, Writer, ends, stats
<1>1. TypeOK'
    BY TunnelAssumption DEF IInv, TypeOK, Conserved, Unflushed, Dirs
<1>2. Conserved'
    BY TunnelAssumption DEF IInv, TypeOK, Conserved, Drained, Unflushed, Dirs
<1>3. Drained'
    BY DEF IInv, TypeOK, Conserved, Drained, Unflushed, Dirs
<1>4. EndedRight' /\ Counters'
    BY DEF IInv, TypeOK, EndedRight, Counters, Dirs
<1>5. TxExact'
    BY DEF IInv, TypeOK, TxExact, Conserved, Drained, Unflushed, Dirs
<1>. QED  BY <1>1, <1>2, <1>3, <1>4, <1>5 DEF IInv

(* An error ends the copy.                                                 *)
LEMMA FailInv ==
    ASSUME IInv, NEW d \in Dirs, Fail(d)
    PROVE  IInv'
<1>. USE DEF Fail, Reader, Writer, ends, stats
<1>1. TypeOK'
    BY TunnelAssumption DEF IInv, TypeOK, Conserved, Unflushed, Dirs
<1>2. Conserved'
    BY TunnelAssumption DEF IInv, TypeOK, Conserved, Drained, Unflushed, Dirs
<1>3. Drained'
    BY DEF IInv, TypeOK, Conserved, Drained, Unflushed, Dirs
<1>4. EndedRight' /\ Counters'
    BY DEF IInv, TypeOK, EndedRight, Counters, Dirs
<1>5. TxExact'
    BY DEF IInv, TypeOK, TxExact, Conserved, Drained, Unflushed, Dirs
<1>. QED  BY <1>1, <1>2, <1>3, <1>4, <1>5 DEF IInv

(* Both directions are done.                                               *)
LEMMA EndInv ==
    ASSUME IInv, End
    PROVE  IInv'
<1>. USE DEF End, ends, stats
<1>1. TypeOK'
    BY TunnelAssumption DEF IInv, TypeOK, Conserved, Unflushed, Dirs
<1>2. Conserved'
    BY TunnelAssumption DEF IInv, TypeOK, Conserved, Drained, Unflushed, Dirs
<1>3. Drained'
    BY DEF IInv, TypeOK, Conserved, Drained, Unflushed, Dirs
<1>4. EndedRight' /\ Counters'
    BY DEF IInv, TypeOK, EndedRight, Counters, Dirs
<1>5. TxExact'
    BY DEF IInv, TypeOK, TxExact, Conserved, Drained, Unflushed, Dirs
<1>. QED  BY <1>1, <1>2, <1>3, <1>4, <1>5 DEF IInv

(* process_tunnel returns.                                                 *)
LEMMA CountEndInv ==
    ASSUME IInv, CountEnd
    PROVE  IInv'
<1>. USE DEF CountEnd, ends, stats
<1>1. TypeOK'
    BY TunnelAssumption DEF IInv, TypeOK, Conserved, Unflushed, Dirs
<1>2. Conserved'
    BY TunnelAssumption DEF IInv, TypeOK, Conserved, Drained, Unflushed, Dirs
<1>3. Drained'
    BY DEF IInv, TypeOK, Conserved, Drained, Unflushed, Dirs
<1>4. EndedRight' /\ Counters'
    BY DEF IInv, TypeOK, EndedRight, Counters, Dirs
<1>5. TxExact'
    BY DEF IInv, TypeOK, TxExact, Conserved, Drained, Unflushed, Dirs
<1>. QED  BY <1>1, <1>2, <1>3, <1>4, <1>5 DEF IInv

(* A tunnel that returned, or a probe that waits, stays. *)
LEMMA StutterInv == ASSUME IInv, UNCHANGED vars PROVE IInv'
<1>1. TypeOK' /\ Conserved' /\ Drained'
    BY DEF IInv, vars, ends, stats, TypeOK, Conserved, Drained, Unflushed
<1>2. EndedRight' /\ Counters' /\ TxExact'
    BY DEF IInv, vars, ends, stats, EndedRight, Counters, TxExact
<1>. QED  BY <1>1, <1>2 DEF IInv

LEMMA StepInv == IInv /\ [Next]_vars => IInv'
<1>. SUFFICES ASSUME IInv, [Next]_vars PROVE IInv'
    OBVIOUS
<1>1. CASE Ends
    BY <1>1, ProduceInv, CloseInv, BreakInv DEF Ends
<1>2. ASSUME NEW d \in Dirs, Transfer(d) PROVE IInv'
    BY <1>2, ReadInv, WriteUpInv, WriteTcpInv, WriteProbeInv, FlushIdleInv, FinishInv,
       ShutdownInv, FailInv DEF Transfer
<1>3. CASE End \/ CountEnd
    BY <1>3, EndInv, CountEndInv
<1>4. CASE Done \/ UNCHANGED vars
    BY <1>4, StutterInv DEF Done
<1>. QED  BY <1>1, <1>2, <1>3, <1>4 DEF Next
-----------------------------------------------------------------------------
LEMMA Inductive == Spec => []IInv
<1>. QED  BY InitInv, StepInv, PTL DEF Spec

(* Every reachable state is well typed, so that the copy buffer is never   *)
(* overfull (protocol.rs:263).                                             *)
THEOREM TypeCorrect == Spec => []TypeOK
<1>1. IInv => TypeOK
    BY DEF IInv
<1>. QED  BY <1>1, Inductive, PTL

(* The destination of a direction is told of its end after the last byte,  *)
(* and a copy that returns Ok told both (protocol.rs:263).                 *)
THEOREM EndsComeLast == Spec => []EndsAfterAll
<1>1. IInv => EndsAfterAll
    <2>. SUFFICES ASSUME IInv PROVE EndsAfterAll
        OBVIOUS
    <2>1. ASSUME NEW d \in Dirs, shut[d] PROVE closed[d] /\ out[d] = source[d]
        <3>1. /\ copy[d].read_done /\ copy[d].size = 0 /\ Unflushed(d) = 0
              /\ closed[d] /\ got[d] = source[d]
            BY <2>1 DEF IInv, Drained
        <3>. QED  BY <3>1 DEF IInv, TypeOK, Conserved
    <2>2. tunnel # "running" /\ ~failed => \A d \in Dirs : shut[d]
        BY DEF IInv, EndedRight, Drained
    <2>. QED  BY <2>1, <2>2 DEF EndsAfterAll
<1>. QED  BY <1>1, Inductive, PTL

(* tx_total counts what poll_write accepted, once                          *)
(* (monitor_stream.rs:74-89).                                              *)
THEOREM TxCounted == Spec => []TxExact
<1>1. IInv => TxExact
    BY DEF IInv
<1>. QED  BY <1>1, Inductive, PTL

(* A tunnel is counted as a success or as an error, and once               *)
(* (protocol.rs:261-271, monitor_stream.rs:47-70).                         *)
THEOREM OnceCounted == Spec => []CountedOnce
<1>1. IInv => CountedOnce
    BY DEF IInv, Counters, CountedOnce
<1>. QED  BY <1>1, Inductive, PTL
-----------------------------------------------------------------------------
(* Lemmas about sequences.  The provers take a concatenation or a piece    *)
(* apart wherever they see one, so these have names of their own.          *)
Joined(s, t) == s \o t
After(s, j) == SubSeq(s, j + 1, Len(s))
Until(s, j) == SubSeq(s, 1, j)

LEMMA JoinedIs ==
    ASSUME NEW s \in Seq(Int), NEW t \in Seq(Int)
    PROVE  /\ Joined(s, t) \in Seq(Int) /\ Len(Joined(s, t)) = Len(s) + Len(t)
           /\ \A i \in 1..(Len(s) + Len(t)) :
                 Joined(s, t)[i] = IF i <= Len(s) THEN s[i] ELSE t[i - Len(s)]
<1>1. /\ s \o t \in Seq(Int) /\ Len(s \o t) = Len(s) + Len(t)
      /\ \A i \in 1..Len(s) + Len(t) :
            (s \o t)[i] = IF i <= Len(s) THEN s[i] ELSE t[i - Len(s)]
    BY ConcatProperties
<1>. QED  BY <1>1, Zenon DEF Joined

LEMMA CutIs ==
    ASSUME NEW s \in Seq(Int), NEW j \in 0..Len(s)
    PROVE  /\ After(s, j) \in Seq(Int) /\ Len(After(s, j)) = Len(s) - j
           /\ \A i \in 1..(Len(s) - j) : After(s, j)[i] = s[i + j]
           /\ Until(s, j) \in Seq(Int) /\ Len(Until(s, j)) = j
           /\ \A i \in 1..j : Until(s, j)[i] = s[i]
    BY DEF After, Until

LEMMA SameSeq ==
    ASSUME NEW s \in Seq(Int), NEW t \in Seq(Int), Len(s) = Len(t),
           \A i \in 1..Len(s) : s[i] = t[i]
    PROVE  s = t
    BY SeqEqual

(***************************************************************************)
(* What lies between two ends is a piece of one stream: a header, and      *)
(* behind it the bytes 1, 2, ...  Piece(h, a, b) is what follows its first *)
(* a items up to its b-th.                                                 *)
(***************************************************************************)
Item(h, i) == IF i <= Len(h) THEN h[i] ELSE i - Len(h)
Piece(h, a, b) == [i \in 1..(b - a) |-> Item(h, a + i)]

LEMMA PieceIs ==
    ASSUME NEW h \in Seq(Int), NEW a \in Nat, NEW b \in Nat, a <= b
    PROVE  /\ Piece(h, a, b) \in Seq(Int) /\ Len(Piece(h, a, b)) = b - a
           /\ \A i \in 1..(b - a) : Piece(h, a, b)[i] = Item(h, a + i)
<1>1. b - a \in Nat /\ Len(h) \in Nat
    OBVIOUS
<1>2. ASSUME NEW i \in 1..(b - a) PROVE Item(h, a + i) \in Int
    <2>1. a + i \in Nat \ {0}
        OBVIOUS
    <2>2. CASE a + i <= Len(h)
        <3>1. a + i \in 1..Len(h)
            BY <2>1, <2>2
        <3>2. h[a + i] \in Int
            BY <3>1, ElementOfSeq
        <3>. QED  BY <2>2, <3>2 DEF Item
    <2>3. CASE ~(a + i <= Len(h))
        BY <1>1, <2>1, <2>3 DEF Item
    <2>. QED  BY <2>2, <2>3
<1>3. Piece(h, a, b) \in [1..(b - a) -> Int]
    BY <1>2 DEF Piece
<1>4. Len(Piece(h, a, b)) = b - a
    BY <1>1 DEF Piece
<1>. QED  BY <1>1, <1>3, <1>4 DEF Piece

LEMMA PieceJoin ==
    ASSUME NEW h \in Seq(Int), NEW a \in Nat, NEW b \in Nat, NEW c \in Nat, a <= b, b <= c
    PROVE  Joined(Piece(h, a, b), Piece(h, b, c)) = Piece(h, a, c)
<1>. DEFINE s == Piece(h, a, b)
            t == Piece(h, b, c)
            u == Piece(h, a, c)
<1>0. b - a \in Nat /\ c - b \in Nat /\ c - a = (b - a) + (c - b) /\ a <= c
    OBVIOUS
<1>1. /\ s \in Seq(Int) /\ Len(s) = b - a /\ \A i \in 1..(b - a) : s[i] = Item(h, a + i)
      /\ t \in Seq(Int) /\ Len(t) = c - b /\ \A i \in 1..(c - b) : t[i] = Item(h, b + i)
      /\ u \in Seq(Int) /\ Len(u) = c - a /\ \A i \in 1..(c - a) : u[i] = Item(h, a + i)
    <2>1. s \in Seq(Int) /\ Len(s) = b - a /\ \A i \in 1..(b - a) : s[i] = Item(h, a + i)
        BY PieceIs
    <2>2. t \in Seq(Int) /\ Len(t) = c - b /\ \A i \in 1..(c - b) : t[i] = Item(h, b + i)
        BY PieceIs
    <2>3. u \in Seq(Int) /\ Len(u) = c - a /\ \A i \in 1..(c - a) : u[i] = Item(h, a + i)
        BY <1>0, PieceIs
    <2>. QED  BY <2>1, <2>2, <2>3
<1>. HIDE DEF s, t, u
<1>2. /\ Joined(s, t) \in Seq(Int) /\ Len(Joined(s, t)) = Len(s) + Len(t)
      /\ \A i \in 1..(Len(s) + Len(t)) :
            Joined(s, t)[i] = IF i <= Len(s) THEN s[i] ELSE t[i - Len(s)]
    BY <1>1, JoinedIs
<1>3. Len(Joined(s, t)) = c - a
    BY <1>0, <1>1, <1>2
<1>4. ASSUME NEW i \in 1..(c - a) PROVE Joined(s, t)[i] = u[i]
    <2>1. CASE i <= b - a
        <3>1. i \in 1..(b - a) /\ i \in 1..(Len(s) + Len(t)) /\ i <= Len(s)
            BY <1>0, <1>1, <2>1
        <3>. QED  BY <1>1, <1>2, <3>1
    <2>2. CASE ~(i <= b - a)
        <3>1. i - (b - a) \in 1..(c - b) /\ b + (i - (b - a)) = a + i
            BY <2>2
        <3>2. i \in 1..(Len(s) + Len(t)) /\ ~(i <= Len(s)) /\ i - Len(s) = i - (b - a)
            BY <1>0, <1>1, <2>2
        <3>. QED  BY <1>1, <1>2, <3>1, <3>2
    <2>. QED  BY <2>1, <2>2
<1>5. Joined(s, t) = u
    BY <1>1, <1>2, <1>3, <1>4, SameSeq
<1>. QED  BY <1>5 DEF s, t, u

LEMMA PieceCut ==
    ASSUME NEW h \in Seq(Int), NEW a \in Nat, NEW b \in Nat, a <= b, NEW j \in 0..(b - a)
    PROVE  /\ After(Piece(h, a, b), j) = Piece(h, a + j, b)
           /\ Until(Piece(h, a, b), j) = Piece(h, a, a + j)
<1>. DEFINE s == Piece(h, a, b)
            t == Piece(h, a + j, b)
            u == Piece(h, a, a + j)
<1>1. a + j \in Nat /\ a + j <= b /\ a <= a + j /\ (a + j) - a = j /\ b - (a + j) = (b - a) - j
    OBVIOUS
<1>2. /\ s \in Seq(Int) /\ Len(s) = b - a /\ \A i \in 1..(b - a) : s[i] = Item(h, a + i)
      /\ t \in Seq(Int) /\ Len(t) = b - (a + j) /\ \A i \in 1..(b - (a + j)) : t[i] = Item(h, (a + j) + i)
      /\ u \in Seq(Int) /\ Len(u) = (a + j) - a /\ \A i \in 1..((a + j) - a) : u[i] = Item(h, a + i)
    BY <1>1, PieceIs
<1>. HIDE DEF s, t, u
<1>3. /\ After(s, j) \in Seq(Int) /\ Len(After(s, j)) = Len(s) - j
      /\ \A i \in 1..(Len(s) - j) : After(s, j)[i] = s[i + j]
      /\ Until(s, j) \in Seq(Int) /\ Len(Until(s, j)) = j
      /\ \A i \in 1..j : Until(s, j)[i] = s[i]
    <2>1. s \in Seq(Int) /\ j \in 0..Len(s)
        BY <1>2
    <2>. QED  BY <2>1, CutIs
<1>4. After(s, j) = t
    <2>1. Len(After(s, j)) = Len(t)
        BY <1>1, <1>2, <1>3
    <2>2. ASSUME NEW i \in 1..Len(t) PROVE After(s, j)[i] = t[i]
        <3>0. i \in 1..((b - a) - j)
            BY <1>1, <1>2
        <3>1. i + j \in 1..(b - a) /\ a + (i + j) = (a + j) + i
            BY <3>0
        <3>. QED  BY <1>1, <1>2, <1>3, <3>0, <3>1
    <2>. QED  BY <1>2, <1>3, <2>1, <2>2, SameSeq
<1>5. Until(s, j) = u
    <2>1. ASSUME NEW i \in 1..j PROVE Until(s, j)[i] = u[i]
        <3>1. i \in 1..(b - a) /\ i \in 1..((a + j) - a)
            BY <1>1
        <3>. QED  BY <1>2, <1>3, <3>1
    <2>. QED  BY <1>1, <1>2, <1>3, <2>1, SameSeq
<1>. QED  BY <1>4, <1>5 DEF s, t, u

(* Behind the header a piece has only bytes, whatever the header was.      *)
LEMMA PieceBytes ==
    ASSUME NEW h \in Seq(Int), NEW a \in Nat, NEW b \in Nat, a <= b
    PROVE  Piece(h, Len(h) + a, Len(h) + b) = Piece(<<>>, a, b)
<1>. DEFINE s == Piece(h, Len(h) + a, Len(h) + b)
            t == Piece(<<>>, a, b)
<1>1. /\ Len(h) + a \in Nat /\ Len(h) + b \in Nat /\ Len(h) + a <= Len(h) + b
      /\ (Len(h) + b) - (Len(h) + a) = b - a /\ Len(h) \in Nat /\ b - a \in Nat
    OBVIOUS
<1>2. s \in Seq(Int) /\ Len(s) = b - a
    BY <1>1, PieceIs
<1>3. t \in Seq(Int) /\ Len(t) = b - a
    <2>1. <<>> \in Seq(Int)
        OBVIOUS
    <2>. QED  BY <2>1, PieceIs
<1>4. ASSUME NEW i \in 1..(b - a) PROVE s[i] = t[i]
    <2>1. s[i] = a + i
        <3>1. Item(h, (Len(h) + a) + i) = a + i
            <4>1. ~((Len(h) + a) + i <= Len(h)) /\ (Len(h) + a) + i - Len(h) = a + i
                BY <1>1
            <4>. QED  BY <4>1 DEF Item
        <3>2. \A k \in 1..((Len(h) + b) - (Len(h) + a)) : s[k] = Item(h, (Len(h) + a) + k)
            BY <1>1, PieceIs
        <3>3. s[i] = Item(h, (Len(h) + a) + i)
            BY <1>1, <3>2
        <3>. QED  BY <3>1, <3>3
    <2>2. t[i] = a + i
        <3>1. <<>> \in Seq(Int) /\ Item(<<>>, a + i) = a + i
            BY <1>1 DEF Item
        <3>2. t[i] = Item(<<>>, a + i)
            BY <3>1, PieceIs
        <3>. QED  BY <3>1, <3>2
    <2>. QED  BY <2>1, <2>2
<1>. HIDE DEF s, t
<1>5. s = t
    BY <1>2, <1>3, <1>4, SameSeq
<1>. QED  BY <1>5 DEF s, t

(* The bytes themselves. *)
LEMMA BytesAre ==
    ASSUME NEW a \in Nat, NEW b \in Nat, a <= b
    PROVE  /\ Piece(<<>>, a, b) \in Seq(Int) /\ Len(Piece(<<>>, a, b)) = b - a
           /\ \A i \in 1..(b - a) : Piece(<<>>, a, b)[i] = a + i
<1>1. <<>> \in Seq(Int) /\ \A i \in 1..(b - a) : Item(<<>>, a + i) = a + i
    BY DEF Item
<1>. QED  BY <1>1, PieceIs

(* A piece that is not empty, and one that is.                             *)
LEMMA PieceEnds ==
    ASSUME NEW h \in Seq(Int), NEW a \in Nat, NEW b \in Nat, a <= b
    PROVE  /\ Piece(h, a, b) = <<>> <=> a = b
           /\ a # b => /\ Head(Piece(h, a, b)) = Item(h, a + 1)
                       /\ Tail(Piece(h, a, b)) = Piece(h, a + 1, b)
<1>. DEFINE s == Piece(h, a, b)
<1>1. /\ s \in Seq(Int) /\ Len(s) = b - a /\ \A i \in 1..(b - a) : s[i] = Item(h, a + i)
    BY PieceIs
<1>2. s = <<>> <=> a = b
    <2>. HIDE DEF s
    <2>1. s = <<>> <=> Len(s) = 0
        BY <1>1, EmptySeq
    <2>2. b - a = 0 <=> a = b
        OBVIOUS
    <2>. QED  BY <1>1, <2>1, <2>2
<1>3. ASSUME a # b PROVE Head(s) = Item(h, a + 1) /\ Tail(s) = Piece(h, a + 1, b)
    <2>1. 1 \in 0..(b - a) /\ 1 \in 1..(b - a) /\ s # <<>>
        BY <1>2, <1>3
    <2>2. After(s, 1) = Piece(h, a + 1, b)
        BY <2>1, PieceCut
    <2>. HIDE DEF s
    <2>3. Tail(s) = SubSeq(s, 2, Len(s))
        BY <1>1, <2>1, TailIsSubSeq
    <2>4. Head(s) = s[1]
        BY <1>1, <2>1
    <2>5. After(s, 1) = SubSeq(s, 2, Len(s))
        BY DEF After
    <2>6. s[1] = Item(h, a + 1)
        BY <1>1, <2>1
    <2>7. Tail(s) = After(s, 1)
        BY <2>3, <2>5, Zenon
    <2>. QED  BY <2>2, <2>4, <2>6, <2>7 DEF s
<1>. QED  BY <1>2, <1>3
-----------------------------------------------------------------------------
(* Lemmas about headers: one ends at its only blank line, wherever it is   *)
(* cut.                                                                    *)
Headers == {Request} \cup Forwards \cup Answers
Header(h) == h \in Seq(Int) /\ BlankLine(h) = {Len(h)}
Answer == <<Other, CR, LF, CR, LF>>

LEMMA HeadersAre ==
    ASSUME NEW h \in Headers
    PROVE  /\ Header(h) /\ Len(h) \in Nat /\ Len(h) > 0 /\ h # <<>> /\ h[Len(h)] = LF
           /\ \A i \in 1..Len(h) : h[i] # Page
<1>1. h \in Seq({LF, CR, Path, Other}) /\ BlankLine(h) = {Len(h)}
    BY UpgradeAssumption DEF Headers
<1>2. {LF, CR, Path, Other} \subseteq Int
    BY DEF LF, CR, Path, Other
<1>3. h \in Seq(Int)
    BY <1>1, <1>2, SeqMonotonic
<1>4. Len(h) \in BlankLine(h)
    BY <1>1
<1>5. Len(h) \in DOMAIN h /\ h[Len(h)] = LF
    BY <1>4 DEF BlankLine
<1>6. \A i \in 1..Len(h) : h[i] \in {LF, CR, Path, Other}
    BY <1>1
<1>7. Page \notin {LF, CR, Path, Other}
    BY DEF Page, LF, CR, Path, Other
<1>. QED  BY <1>1, <1>3, <1>5, <1>6, <1>7 DEF Header

(* The server's answer is a header too. *)
LEMMA AnswerIs == Header(Answer) /\ Len(Answer) = 5
<1>1. Answer \in Seq(Int) /\ Len(Answer) = 5 /\ DOMAIN Answer = 1..5
    BY DEF Answer, LF, CR, Other
<1>2. /\ Answer[1] = Other /\ Answer[2] = CR /\ Answer[3] = LF /\ Answer[4] = CR /\ Answer[5] = LF
      /\ Other # LF /\ CR # LF
    BY DEF Answer, LF, CR, Other
<1>. HIDE DEF Answer
<1>3. 5 \in BlankLine(Answer)
    <2>1. \A k \in 4..4 : Answer[k] = CR
        BY <1>2
    <2>2. 3 \in 1..(5 - 1) /\ \A k \in (3 + 1)..(5 - 1) : Answer[k] = CR
        BY <2>1
    <2>. QED  BY <1>1, <1>2, <2>2 DEF BlankLine
<1>4. ASSUME NEW i \in BlankLine(Answer) PROVE i = 5
    <2>1. i \in 1..5 /\ Answer[i] = LF
        BY <1>1 DEF BlankLine
    <2>2. i = 3 \/ i = 5
        BY <1>2, <2>1
    <2>3. i # 3
        <3>. SUFFICES ASSUME i = 3 PROVE FALSE
            OBVIOUS
        <3>1. PICK j \in 1..(3 - 1) : Answer[j] = LF
            BY DEF BlankLine
        <3>2. j = 1 \/ j = 2
            OBVIOUS
        <3>. QED  BY <1>2, <3>1, <3>2
    <2>. QED  BY <2>2, <2>3
<1>. QED  BY <1>1, <1>3, <1>4 DEF Header

(* Whoever looks for the end of a header finds it, and not in the bytes    *)
(* behind it.                                                              *)
LEMMA BlankInPiece ==
    ASSUME NEW h, Header(h), NEW b \in Nat
    PROVE  /\ b < Len(h) => BlankLine(Piece(h, 0, b)) = {}
           /\ b >= Len(h) => BlankLine(Piece(h, 0, b)) = {Len(h)}
<1>. DEFINE s == Piece(h, 0, b)
<1>1. /\ h \in Seq(Int) /\ Len(h) \in Nat /\ DOMAIN h = 1..Len(h)
    BY DEF Header
<1>2. s \in Seq(Int) /\ Len(s) = b /\ \A i \in 1..b : s[i] = Item(h, i)
    <2>0. 0 \in Nat /\ 0 <= b
        OBVIOUS
    <2>1. Len(s) = b - 0 /\ s \in Seq(Int) /\ \A i \in 1..(b - 0) : s[i] = Item(h, 0 + i)
        BY <1>1, <2>0, PieceIs
    <2>2. b - 0 = b /\ \A i \in 1..b : 0 + i = i
        OBVIOUS
    <2>. QED  BY <2>1, <2>2
<1>3. DOMAIN s = 1..b
    BY <1>2
<1>4. \A i \in 1..b : (i <= Len(h) => s[i] = h[i]) /\ (i > Len(h) => s[i] # LF)
    BY <1>1, <1>2 DEF Item, LF
<1>. HIDE DEF s
<1>5. ASSUME NEW i \in 1..b, i <= Len(h) PROVE i \in BlankLine(s) <=> i \in BlankLine(h)
    <2>1. i \in 1..Len(h) /\ s[i] = h[i] /\ \A j \in 1..(i - 1) : s[j] = h[j]
        BY <1>1, <1>4, <1>5
    <2>2. ASSUME NEW j \in 1..(i - 1)
          PROVE  (\A k \in (j + 1)..(i - 1) : s[k] = CR) <=> (\A k \in (j + 1)..(i - 1) : h[k] = CR)
        BY <2>1
    <2>. QED  BY <1>1, <1>3, <2>1, <2>2 DEF BlankLine
<1>6. BlankLine(s) \subseteq {i \in 1..b : i <= Len(h)}
    BY <1>1, <1>3, <1>4 DEF BlankLine
<1>7. BlankLine(h) = {Len(h)} /\ Len(h) \in DOMAIN h
    <2>1. BlankLine(h) = {Len(h)}
        BY DEF Header
    <2>. QED  BY <2>1 DEF BlankLine
<1>8. ASSUME b < Len(h) PROVE BlankLine(s) = {}
    <2>0. PICK l \in Nat : l = Len(h)
        BY <1>1
    <2>1. \A i \in 1..b : i # Len(h)
        BY <1>8, <2>0
    <2>. QED  BY <1>5, <1>6, <1>7, <2>1
<1>9. ASSUME b >= Len(h) PROVE BlankLine(s) = {Len(h)}
    <2>1. Len(h) \in 1..b
        BY <1>1, <1>7, <1>9
    <2>. QED  BY <1>5, <1>6, <1>7, <2>1
<1>. QED  BY <1>8, <1>9 DEF s

LEMMA MinOne == ASSUME NEW x \in Int PROVE Min({x}) = x
    BY DEF Min

(* A reader that counts the rows has two at the end of a header, and only  *)
(* there.                                                                  *)
InRow(h, n, rows) ==
    /\ rows \in {0, 1}
    /\ rows = 1 <=> \E j \in 1..n : h[j] = LF /\ \A k \in (j + 1)..n : h[k] = CR

LEMMA RowsStart == \A h : InRow(h, 0, 0)
    BY DEF InRow

LEMMA RowsStep ==
    ASSUME NEW h, Header(h), NEW n \in Nat, n < Len(h), NEW rows, InRow(h, n, rows)
    PROVE  /\ n + 1 = Len(h) <=> Rows(rows, h[n + 1]) = 2
           /\ n + 1 # Len(h) => InRow(h, n + 1, Rows(rows, h[n + 1]))
<1>. DEFINE i == n + 1
            Found(m) == \E j \in 1..m : h[j] = LF /\ \A k \in (j + 1)..m : h[k] = CR
<1>1. /\ h \in Seq(Int) /\ Len(h) \in Nat /\ DOMAIN h = 1..Len(h) /\ i \in 1..Len(h) /\ i - 1 = n
      /\ BlankLine(h) = {Len(h)} /\ rows \in {0, 1} /\ (rows = 1 <=> Found(n))
    BY DEF Header, InRow
<1>2. i \in BlankLine(h) <=> h[i] = LF /\ Found(n)
    BY <1>1 DEF BlankLine
<1>3. Found(i) <=> h[i] = LF \/ (h[i] = CR /\ Found(n))
    <2>1. ASSUME h[i] = LF PROVE Found(i)
        <3>1. i \in 1..i /\ \A k \in (i + 1)..i : h[k] = CR
            BY <1>1
        <3>. QED  BY <2>1, <3>1
    <2>2. ASSUME h[i] = CR, Found(n) PROVE Found(i)
        <3>1. PICK j \in 1..n : h[j] = LF /\ \A k \in (j + 1)..n : h[k] = CR
            BY <2>2
        <3>2. \A k \in (j + 1)..i : h[k] = CR
            <4>1. \A k \in (j + 1)..i : k \in (j + 1)..n \/ k = i
                OBVIOUS
            <4>. QED  BY <2>2, <3>1, <4>1
        <3>3. j \in 1..i
            OBVIOUS
        <3>. QED  BY <3>1, <3>2, <3>3
    <2>3. ASSUME Found(i), h[i] # LF PROVE h[i] = CR /\ Found(n)
        <3>1. PICK j \in 1..i : h[j] = LF /\ \A k \in (j + 1)..i : h[k] = CR
            BY <2>3
        <3>2. j \in 1..n /\ i \in (j + 1)..i /\ \A k \in (j + 1)..n : k \in (j + 1)..i
            <4>1. j # i
                BY <2>3, <3>1
            <4>. QED  BY <4>1
        <3>. QED  BY <3>1, <3>2
    <2>. QED  BY <2>1, <2>2, <2>3
<1>. HIDE DEF Found, i
<1>4. LF # CR
    BY DEF LF, CR
<1>5. i \in BlankLine(h) <=> i = Len(h)
    BY <1>1
<1>6. Rows(rows, h[i]) = 2 <=> i \in BlankLine(h)
    <2>1. rows = 0 \/ rows = 1
        BY <1>1
    <2>2. Rows(rows, h[i]) = 2 <=> h[i] = LF /\ rows = 1
        BY <2>1 DEF Rows
    <2>. QED  BY <1>1, <1>2, <2>2
<1>7. ASSUME i # Len(h) PROVE Rows(rows, h[i]) \in {0, 1} /\ (Rows(rows, h[i]) = 1 <=> Found(i))
    <2>1. ~(h[i] = LF /\ Found(n))
        BY <1>2, <1>5, <1>7
    <2>. QED  BY <1>1, <1>3, <1>4, <2>1 DEF Rows
<1>. QED  BY <1>5, <1>6, <1>7 DEF i, Found, InRow
-----------------------------------------------------------------------------
(* The inductive invariant of UpgradeStream, in its parts.                 *)

UpgradeType ==
    /\ state \in [at : {"send", "wait", "up"}, pos : 0..Len(Request), lf_in_row : Nat, size : Nat]
    /\ written \in 0..MaxSent /\ closing \in {"open", "closed", "dead"}
    /\ reading \in {"reading", "eof", "short"}
    /\ proxy \in {"request", "asked", "tunnel", "gone"}
    /\ fronted \in [request : {<<>>} \cup Forwards, answer : {<<>>} \cup Answers]
    /\ server \in [at : {"request", "reply", "tunnel", "refused"}, lf_in_row : Nat,
                   readed : Nat, path : BOOLEAN]
    /\ sent \in 0..MaxSent /\ ending \in {"open", "closed", "dead"} /\ taking \in {"reading", "eof"}

(* The caller's bytes come behind the whole request.                       *)
SentWhole ==
    /\ state.at = "send" <=> state.pos < Len(Request)
    /\ written > 0 => state.pos = Len(Request)

(* What the server has of the header h it was sent and of the x bytes that *)
(* were passed on behind it.                                               *)
Served(h, x) ==
    /\ server.at = "request" =>
          /\ server.readed < Len(h) /\ InRow(h, server.readed, server.lf_in_row)
          /\ to = Piece(h, server.readed, Len(h) + x)
    /\ server.at = "reply" => to = Piece(<<>>, 0, x)
    /\ server.at = "tunnel" =>
          \E t \in 0..x : taken = Piece(<<>>, 0, t) /\ to = Piece(<<>>, t, x)
    /\ server.at # "tunnel" => taken = <<>>

(* What the client wrote is with the proxy, or a header in place of its    *)
(* request and then its bytes in order are on their way.                   *)
Unasked ==
    /\ proxy \in {"request", "gone"} /\ up = Piece(Request, 0, state.pos + written)
    /\ to = <<>> /\ taken = <<>> /\ server.at \in {"request", "refused"}
    /\ server.readed = 0 /\ server.lf_in_row = 0
Asked ==
    /\ proxy # "request" /\ state.pos = Len(Request)
    /\ \E x \in 0..written : up = Piece(<<>>, x, written) /\ Served(fronted.request, x)
UpHeld == IF fronted.request = <<>> THEN Unasked ELSE Asked

(* The server's tunnel follows its answer.                                 *)
Answering ==
    /\ server.at # "tunnel" => from = <<>> /\ sent = 0 /\ ending # "closed"
    /\ server.at \in {"request", "reply"} => ending = "open"

(* The client is before the end of the header h, and before it is the rest *)
(* of g, which begins with h, up to y behind the header.                   *)
InAnswer(h, g, y) ==
    /\ state.at # "up" /\ given = <<>>
    /\ state.size < Len(h) /\ InRow(h, state.size, state.lf_in_row)
    /\ down = Piece(g, state.size, Len(h) + y)

(* Nothing came for the client yet, or an error page.                      *)
Silent == down = <<>> /\ given = <<>> /\ state.at # "up" /\ state.size = 0 /\ state.lf_in_row = 0
PageRead == state.at = "up" /\ \/ given = <<>> /\ down = <<Page>>
                               \/ given = <<Page>> /\ down = <<>>
PageSent == \/ reading = "short" /\ given = <<>>
            \/ \E h \in Answers : InAnswer(h, h \o <<Page>>, 1)
            \/ PageRead
(* Or the answer, and y of the bytes behind it.                            *)
Passed(y) ==
    state.at = "up" /\ \E g \in 0..y : given = Piece(<<>>, 0, g) /\ down = Piece(<<>>, g, y)
AnswerSent(h, y) == from = Piece(<<>>, y, sent) /\ (reading = "short" \/ InAnswer(h, h, y) \/ Passed(y))

Unanswered ==
    /\ proxy # "tunnel" /\ (Silent \/ (proxy = "gone" /\ PageSent))
    /\ server.at = "tunnel" => from = Piece(Answer, 0, Len(Answer) + sent)
Answered ==
    /\ proxy \in {"tunnel", "gone"} /\ server.at = "tunnel"
    /\ \E y \in 0..sent : AnswerSent(fronted.answer, y)
DownHeld == IF fronted.answer = <<>> THEN Unanswered ELSE Answered

UpgradeInv == UpgradeType /\ SentWhole /\ UpHeld /\ Answering /\ DownHeld

LEMMA UpFrame ==
    ASSUME UpHeld, UNCHANGED <<up, to, taken, written>>,
           fronted'.request = fronted.request, state'.pos = state.pos,
           server'.at = server.at, server'.readed = server.readed,
           server'.lf_in_row = server.lf_in_row,
           proxy' = proxy \/ proxy' = "gone" \/ (proxy = "asked" /\ proxy' # "request")
    PROVE  UpHeld'
<1>1. ASSUME fronted.request = <<>> PROVE Unasked'
    BY <1>1 DEF UpHeld, Unasked
<1>2. ASSUME fronted.request # <<>> PROVE Asked'
    <2>1. proxy' # "request" /\ state'.pos = Len(Request)
        BY <1>2 DEF UpHeld, Asked
    <2>2. PICK x \in 0..written : up = Piece(<<>>, x, written) /\ Served(fronted.request, x)
        BY <1>2 DEF UpHeld, Asked
    <2>3. x \in 0..written' /\ up' = Piece(<<>>, x, written')
        BY <2>2
    <2>4. Served(fronted.request, x)'
        BY <2>2 DEF Served
    <2>. QED  BY <2>1, <2>3, <2>4 DEF Asked
<1>. QED  BY <1>1, <1>2 DEF UpHeld

LEMMA DownFrame ==
    ASSUME DownHeld, UNCHANGED <<from, sent, down, given>>,
           fronted'.answer = fronted.answer, state'.size = state.size,
           state'.lf_in_row = state.lf_in_row, state'.at = "up" <=> state.at = "up",
           reading = "short" => reading' = "short",
           server'.at = "tunnel" <=> server.at = "tunnel",
           proxy' = proxy \/ proxy' = "gone" \/ (proxy = "request" /\ proxy' = "asked")
    PROVE  DownHeld'
<1>1. ASSUME NEW h, NEW g, NEW y PROVE InAnswer(h, g, y) => InAnswer(h, g, y)'
    BY DEF InAnswer
<1>2. ASSUME fronted.answer = <<>> PROVE Unanswered'
    <2>1. Unanswered
        BY <1>2 DEF DownHeld
    <2>2. Silent => Silent'
        BY DEF Silent
    <2>3. PageSent => PageSent'
        BY <1>1 DEF PageSent, PageRead
    <2>. QED  BY <2>1, <2>2, <2>3 DEF Unanswered
<1>3. ASSUME fronted.answer # <<>> PROVE Answered'
    <2>1. Answered
        BY <1>3 DEF DownHeld
    <2>2. PICK y \in 0..sent : AnswerSent(fronted.answer, y)
        BY <2>1 DEF Answered
    <2>3. Passed(y) => Passed(y)'
        BY DEF Passed
    <2>4. AnswerSent(fronted.answer, y)'
        BY <1>1, <2>2, <2>3 DEF AnswerSent
    <2>. QED  BY <2>1, <2>2, <2>4 DEF Answered
<1>. QED  BY <1>2, <1>3 DEF DownHeld

(* A header is a piece of its stream, and so is what is left of it.        *)
LEMMA HeaderPiece ==
    ASSUME NEW h \in Seq(Int), NEW j \in 0..Len(h)
    PROVE  After(h, j) = Piece(h, j, Len(h)) /\ h = Piece(h, 0, Len(h))
<1>1. /\ After(h, j) \in Seq(Int) /\ Len(After(h, j)) = Len(h) - j
      /\ \A k \in 1..(Len(h) - j) : After(h, j)[k] = h[k + j]
    BY CutIs
<1>2. Len(h) \in Nat /\ j \in Nat /\ j <= Len(h) /\ 0 <= Len(h) /\ Len(h) - 0 = Len(h)
    OBVIOUS
<1>3. /\ Piece(h, j, Len(h)) \in Seq(Int) /\ Len(Piece(h, j, Len(h))) = Len(h) - j
      /\ \A k \in 1..(Len(h) - j) : Piece(h, j, Len(h))[k] = Item(h, j + k)
    BY <1>2, PieceIs
<1>4. \A k \in 1..(Len(h) - j) : Item(h, j + k) = h[k + j]
    BY <1>2 DEF Item
<1>5. After(h, j) = Piece(h, j, Len(h))
    BY <1>1, <1>2, <1>3, <1>4, SameSeq
<1>6. /\ Piece(h, 0, Len(h)) \in Seq(Int) /\ Len(Piece(h, 0, Len(h))) = Len(h) - 0
      /\ \A k \in 1..(Len(h) - 0) : Piece(h, 0, Len(h))[k] = Item(h, 0 + k)
    BY <1>2, PieceIs
<1>7. \A k \in 1..Len(h) : Item(h, 0 + k) = h[k]
    BY <1>2 DEF Item
<1>8. h = Piece(h, 0, Len(h))
    BY <1>2, <1>6, <1>7, SameSeq
<1>. QED  BY <1>5, <1>8

LEMMA NumberedIs ==
    ASSUME NEW a \in Nat, NEW n \in Nat
    PROVE  Numbered(a, n) = Piece(<<>>, a, a + n)
<1>1. a + n \in Nat /\ a <= a + n /\ (a + n) - a = n
    OBVIOUS
<1>2. /\ Piece(<<>>, a, a + n) \in Seq(Int) /\ Len(Piece(<<>>, a, a + n)) = n
      /\ \A i \in 1..n : Piece(<<>>, a, a + n)[i] = a + i
    BY <1>1, BytesAre
<1>3. Numbered(a, n) \in Seq(Int) /\ Len(Numbered(a, n)) = n /\ \A i \in 1..n : Numbered(a, n)[i] = a + i
    BY DEF Numbered
<1>. QED  BY <1>2, <1>3, SameSeq

(* What poll_write offers is the next piece of the client's stream.        *)
LEMMA Offered ==
    ASSUME NEW h \in Seq(Int), NEW pos \in 0..Len(h), NEW w \in Nat, w > 0 => pos = Len(h),
           NEW want \in Nat, NEW k \in Nat, k <= Len(After(h, pos)) + want
    PROVE  /\ Until(Joined(After(h, pos), Numbered(w, want)), k) = Piece(h, pos + w, pos + w + k)
           /\ Len(After(h, pos)) = Len(h) - pos
<1>. DEFINE l == Len(h)
            rest == After(h, pos)
            bytes == Numbered(w, want)
<1>1. l \in Nat /\ pos \in Nat /\ pos <= l /\ l - pos \in Nat /\ 0 <= want
    OBVIOUS
<1>2. rest = Piece(h, pos, l) /\ Len(rest) = l - pos
    <2>1. Len(Piece(h, pos, l)) = l - pos
        BY <1>1, PieceIs
    <2>. QED  BY <2>1, HeaderPiece
<1>3. bytes = Piece(h, l + w, l + (w + want))
    <2>1. w + want \in Nat /\ w <= w + want
        OBVIOUS
    <2>2. Numbered(w, want) = Piece(<<>>, w, w + want)
        BY NumberedIs
    <2>3. Piece(h, Len(h) + w, Len(h) + (w + want)) = Piece(<<>>, w, w + want)
        BY <2>1, PieceBytes
    <2>. QED  BY <2>2, <2>3
<1>4. k <= (l - pos) + want
    BY <1>2
<1>. HIDE DEF l, rest, bytes
<1>5. Joined(rest, bytes) = Piece(h, pos + w, l + (w + want))
    <2>1. CASE w = 0
        <3>1. l + w = l /\ pos + w = pos /\ l <= l + (w + want) /\ l + (w + want) \in Nat
            BY <1>1, <2>1
        <3>2. Joined(Piece(h, pos, l), Piece(h, l, l + (w + want))) = Piece(h, pos, l + (w + want))
            BY <1>1, <3>1, PieceJoin
        <3>. QED  BY <1>2, <1>3, <3>1, <3>2
    <2>2. CASE w # 0
        <3>1. pos = l
            BY <2>2 DEF l
        <3>2. Piece(h, l, l) = <<>>
            BY <1>1, PieceEnds
        <3>3. bytes \in Seq(Int)
            <4>1. l + w \in Nat /\ l + (w + want) \in Nat /\ l + w <= l + (w + want)
                BY <1>1
            <4>. QED  BY <1>3, <4>1, PieceIs
        <3>4. Joined(<<>>, bytes) = bytes
            BY <3>3, ConcatEmptySeq, Zenon DEF Joined
        <3>. QED  BY <1>2, <1>3, <3>1, <3>2, <3>4
    <2>. QED  BY <2>1, <2>2
<1>6. Until(Piece(h, pos + w, l + (w + want)), k) = Piece(h, pos + w, pos + w + k)
    <2>1. /\ pos + w \in Nat /\ l + (w + want) \in Nat /\ pos + w <= l + (w + want)
          /\ k \in 0..((l + (w + want)) - (pos + w))
        BY <1>1, <1>4
    <2>. QED  BY <2>1, PieceCut
<1>. QED  BY <1>2, <1>5, <1>6 DEF l, rest, bytes

LEMMA PollWriteUpgrade ==
    ASSUME UpgradeInv, NEW want \in 1..MaxSent, NEW k \in 1..PipeCap, PollWrite(want, k)
    PROVE  UpgradeInv'
<1>. DEFINE pos == state.pos
            l == Len(Request)
            left == After(Request, pos)
            W == pos + written
<1>1. /\ Request \in Seq(Int) /\ l \in Nat /\ want \in Nat /\ k \in Nat /\ k > 0
      /\ pos \in Nat /\ pos <= l /\ pos \in 0..l /\ written \in Nat /\ (written > 0 => pos = l)
      /\ MaxSent \in Nat
    <2>1. Request \in Headers
        BY DEF Headers
    <2>2. Request \in Seq(Int) /\ l \in Nat
        BY <2>1, HeadersAre DEF Header
    <2>. QED  BY <2>2, UpgradeAssumption DEF UpgradeInv, UpgradeType, SentWhole
<1>2. /\ proxy # "gone" /\ written + want <= MaxSent /\ k <= Len(left) + want
      /\ up' = Joined(up, Until(Joined(left, Numbered(written, want)), k))
      /\ written' = written + (IF k > Len(left) THEN k - Len(left) ELSE 0)
      /\ state' = IF k < Len(left) THEN [state EXCEPT !.pos = @ + k]
                  ELSE [state EXCEPT !.pos = l, !.at = IF @ = "send" THEN "wait" ELSE @]
      /\ UNCHANGED <<closing, given, reading, down, proxy, fronted, to, from, serverVars>>
    BY Zenon DEF PollWrite, After, Until, Joined
<1>. HIDE DEF l, pos, left, W
<1>3. Until(Joined(left, Numbered(written, want)), k) = Piece(Request, W, W + k) /\ Len(left) = l - pos
    <2>1. ASSUME NEW p \in 0..Len(Request), written > 0 => p = Len(Request),
                 k <= Len(After(Request, p)) + want
          PROVE  /\ Until(Joined(After(Request, p), Numbered(written, want)), k)
                        = Piece(Request, p + written, p + written + k)
                 /\ Len(After(Request, p)) = Len(Request) - p
        <3>1. Request \in Seq(Int) /\ written \in Nat /\ want \in Nat /\ k \in Nat
            BY <1>1
        <3>. QED  BY <2>1, <3>1, Offered
    <2>2. pos \in 0..Len(Request) /\ (written > 0 => pos = Len(Request)) /\ k <= Len(After(Request, pos)) + want
        BY <1>1, <1>2 DEF l, left
    <2>3. /\ Until(Joined(After(Request, pos), Numbered(written, want)), k)
                = Piece(Request, pos + written, pos + written + k)
          /\ Len(After(Request, pos)) = Len(Request) - pos
        BY <2>1, <2>2, Zenon
    <2>. QED  BY <2>3, Zenon DEF l, left, W
<1>0. W = pos + written /\ W \in Nat /\ l - pos \in Nat
    BY <1>1 DEF W
<1>4. up' = Joined(up, Piece(Request, W, W + k))
    BY <1>2, <1>3
<1>5. /\ state'.pos \in 0..l /\ written' \in Nat /\ written <= written' /\ written' <= written + want
      /\ state'.pos + written' = W + k /\ (written' > 0 => state'.pos = l)
    <2>0. state'.pos = IF k < l - pos THEN pos + k ELSE l
        BY <1>2, <1>3 DEF UpgradeInv, UpgradeType, pos
    <2>1. CASE k < l - pos
        <3>1. written' = written /\ written = 0
            BY <1>1, <1>2, <1>3, <2>1
        <3>. QED  BY <1>0, <1>1, <2>0, <2>1, <3>1
    <2>2. CASE ~(k < l - pos)
        <3>1. written' = written + (k - (l - pos)) /\ k - (l - pos) \in Nat /\ k - (l - pos) <= want
            <4>1. written' = written + (IF k > l - pos THEN k - (l - pos) ELSE 0) /\ k <= l - pos + want
                BY <1>2, <1>3
            <4>. QED  BY <1>0, <1>1, <2>2, <4>1
        <3>2. state'.pos = l
            BY <2>0, <2>2
        <3>. QED  BY <1>0, <1>1, <3>1, <3>2
    <2>. QED  BY <2>1, <2>2
<1>6. /\ state'.size = state.size /\ state'.lf_in_row = state.lf_in_row
      /\ state'.at \in {"send", "wait", "up"} /\ (state'.at = "up" <=> state.at = "up")
      /\ state'.at = "send" <=> state'.pos < l
      /\ state' \in [at : {"send", "wait", "up"}, pos : 0..l, lf_in_row : Nat, size : Nat]
    <2>1. CASE k < l - pos
        <3>0. pos + k \in 0..l /\ pos + k < l /\ pos < l
            BY <1>1, <2>1
        <3>1. state' = [state EXCEPT !.pos = pos + k]
            BY <1>2, <1>3, <2>1 DEF pos
        <3>2. state.at = "send"
            BY <3>0 DEF UpgradeInv, SentWhole, pos, l
        <3>. QED  BY <3>0, <3>1, <3>2 DEF UpgradeInv, UpgradeType, l
    <2>2. CASE ~(k < l - pos)
        <3>1. state' = [state EXCEPT !.pos = l, !.at = IF @ = "send" THEN "wait" ELSE @]
            BY <1>2, <1>3, <2>2
        <3>2. l \in 0..l /\ ~(l < l)
            BY <1>1
        <3>. QED  BY <3>1, <3>2 DEF UpgradeInv, UpgradeType, l
    <2>. QED  BY <2>1, <2>2
<1>7. UpgradeType' /\ SentWhole'
    <2>1. written' \in 0..MaxSent
        BY <1>1, <1>2, <1>5
    <2>. QED  BY <1>2, <1>5, <1>6, <2>1 DEF UpgradeInv, UpgradeType, SentWhole, serverVars, l
<1>8. UpHeld'
    <2>1. CASE fronted.request = <<>>
        <3>1. Unasked
            BY <2>1 DEF UpgradeInv, UpHeld
        <3>2. up = Piece(Request, 0, W)
            BY <3>1 DEF Unasked, W, pos
        <3>3. 0 <= W /\ W <= W + k /\ W \in Nat /\ W + k \in Nat /\ 0 \in Nat
            BY <1>0, <1>1
        <3>4. Joined(Piece(Request, 0, W), Piece(Request, W, W + k)) = Piece(Request, 0, W + k)
            BY <1>1, <3>3, PieceJoin
        <3>5. up' = Piece(Request, 0, state'.pos + written')
            BY <1>4, <1>5, <3>2, <3>4
        <3>. QED  BY <1>2, <2>1, <3>1, <3>5 DEF UpHeld, Unasked, serverVars
    <2>2. CASE fronted.request # <<>>
        <3>1. Asked
            BY <2>2 DEF UpgradeInv, UpHeld
        <3>2. PICK x \in 0..written : up = Piece(<<>>, x, written) /\ Served(fronted.request, x)
            BY <3>1 DEF Asked
        <3>3. pos = l /\ W = l + written /\ W + k = l + (written + k) /\ written + k \in Nat
            <4>1. pos = l
                BY <3>1 DEF Asked, pos, l
            <4>. QED  BY <1>0, <1>1, <4>1
        <3>4. state'.pos = l /\ written' = written + k
            <4>1. state'.pos = l
                <5>1. ~(k < l - pos)
                    BY <1>1, <3>3
                <5>. QED  BY <1>2, <1>3, <5>1 DEF UpgradeInv, UpgradeType
            <4>2. l + written' = (l + written) + k /\ written' \in Nat
                BY <1>5, <3>3, <4>1
            <4>3. \A a, b \in Nat : l + a = (l + b) + k => a = b + k
                BY <1>1
            <4>. QED  BY <1>1, <4>1, <4>2, <4>3
        <3>5. Piece(Request, W, W + k) = Piece(<<>>, written, written + k)
            <4>1. Piece(Request, Len(Request) + written, Len(Request) + (written + k))
                    = Piece(<<>>, written, written + k)
                BY <1>1, <3>3, PieceBytes
            <4>. QED  BY <3>3, <4>1 DEF l
        <3>6. Joined(Piece(<<>>, x, written), Piece(<<>>, written, written + k))
                = Piece(<<>>, x, written + k)
            <4>1. x \in Nat /\ x <= written /\ written <= written + k
                BY <1>1
            <4>2. <<>> \in Seq(Int)
                OBVIOUS
            <4>3. written \in Nat /\ written + k \in Nat
                BY <1>1
            <4>. QED  BY <4>1, <4>2, <4>3, PieceJoin
        <3>7. up' = Piece(<<>>, x, written') /\ x \in 0..written'
            BY <1>1, <1>4, <3>2, <3>4, <3>5, <3>6
        <3>8. Served(fronted.request, x)'
            BY <1>2, <3>2 DEF Served, serverVars
        <3>. QED  BY <1>2, <2>2, <3>1, <3>4, <3>7, <3>8 DEF UpHeld, Asked, l
    <2>. QED  BY <2>1, <2>2
<1>9. DownHeld'
    BY <1>2, <1>6, DownFrame DEF UpgradeInv, serverVars
<1>10. Answering'
    BY <1>2 DEF UpgradeInv, Answering, serverVars
<1>. QED  BY <1>7, <1>8, <1>9, <1>10 DEF UpgradeInv

(* The pieces that meet in a buffer. *)
LEMMA BytesJoin ==
    ASSUME NEW a \in Nat, NEW b \in Nat, NEW c \in Nat, a <= b, b <= c
    PROVE  Joined(Piece(<<>>, a, b), Piece(<<>>, b, c)) = Piece(<<>>, a, c)
<1>1. <<>> \in Seq(Int)
    OBVIOUS
<1>. QED  BY <1>1, PieceJoin

LEMMA BytesBehind ==
    ASSUME NEW h \in Seq(Int), NEW a \in Nat, NEW b \in Nat, NEW c \in Nat, a <= Len(h) + b, b <= c
    PROVE  Joined(Piece(h, a, Len(h) + b), Piece(<<>>, b, c)) = Piece(h, a, Len(h) + c)
<1>1. Piece(h, Len(h) + b, Len(h) + c) = Piece(<<>>, b, c)
    BY PieceBytes
<1>2. PICK l \in Nat : l = Len(h)
    OBVIOUS
<1>3. l + b \in Nat /\ l + c \in Nat /\ a <= l + b /\ l + b <= l + c
    BY <1>2
<1>4. Joined(Piece(h, a, l + b), Piece(h, l + b, l + c)) = Piece(h, a, l + c)
    BY <1>3, PieceJoin
<1>. QED  BY <1>1, <1>2, <1>4

LEMMA OneMore ==
    ASSUME NEW s \in Seq(Int), NEW n \in Nat
    PROVE  Append(s, n + 1) = Joined(s, Piece(<<>>, n, n + 1))
<1>1. n + 1 \in Nat /\ n <= n + 1 /\ (n + 1) - n = 1
    OBVIOUS
<1>2. /\ Piece(<<>>, n, n + 1) \in Seq(Int) /\ Len(Piece(<<>>, n, n + 1)) = 1
      /\ \A i \in 1..1 : Piece(<<>>, n, n + 1)[i] = n + i
    BY <1>1, BytesAre
<1>3. Piece(<<>>, n, n + 1) = <<n + 1>>
    BY <1>2
<1>4. Append(s, n + 1) = s \o <<n + 1>>
    BY AppendIsConcat
<1>. QED  BY <1>3, <1>4, Zenon DEF Joined

LEMMA NoBytes ==
    ASSUME NEW h \in Seq(Int), NEW a \in Nat
    PROVE  Piece(h, a, a) = <<>>
    BY PieceEnds
LEMMA PieceNext ==
    ASSUME NEW h \in Seq(Int), NEW a \in Nat, NEW b \in Nat, a <= b, a # b
    PROVE  Head(Piece(h, a, b)) = Item(h, a + 1) /\ Tail(Piece(h, a, b)) = Piece(h, a + 1, b)
    BY PieceEnds, Zenon

LEMMA EmptyPiece ==
    ASSUME NEW h \in Seq(Int), NEW a \in Nat, NEW b \in Nat, a <= b, Piece(h, a, b) = <<>>
    PROVE  a = b
    BY PieceEnds
-----------------------------------------------------------------------------
(* Each action keeps the invariant. *)

LEMMA PollShutdownUpgrade ==
    ASSUME UpgradeInv, PollShutdown
    PROVE  UpgradeInv'
<1>. USE DEF PollShutdown, serverVars
<1>1. UpgradeType' /\ SentWhole' /\ Answering'
    BY DEF UpgradeInv, UpgradeType, SentWhole, Answering
<1>2. UpHeld'
    BY UpFrame DEF UpgradeInv
<1>3. DownHeld'
    BY DownFrame DEF UpgradeInv
<1>. QED  BY <1>1, <1>2, <1>3 DEF UpgradeInv

LEMMA PollEofUpgrade ==
    ASSUME UpgradeInv, PollEof
    PROVE  UpgradeInv'
<1>. USE DEF PollEof, FailClient, serverVars
<1>1. UpgradeType' /\ SentWhole' /\ Answering'
    BY DEF UpgradeInv, UpgradeType, SentWhole, Answering
<1>2. UpHeld'
    BY UpFrame DEF UpgradeInv
<1>3. DownHeld'
    BY DownFrame DEF UpgradeInv
<1>. QED  BY <1>1, <1>2, <1>3 DEF UpgradeInv

LEMMA DisconnectUpgrade ==
    ASSUME UpgradeInv, Disconnect
    PROVE  UpgradeInv'
<1>. USE DEF Disconnect, Gone, clientVars, serverVars
<1>1. UpgradeType' /\ SentWhole' /\ Answering'
    BY DEF UpgradeInv, UpgradeType, SentWhole, Answering
<1>2. UpHeld'
    BY UpFrame DEF UpgradeInv
<1>3. DownHeld'
    BY DownFrame DEF UpgradeInv
<1>. QED  BY <1>1, <1>2, <1>3 DEF UpgradeInv

LEMMA ServerEndsUpgrade ==
    ASSUME UpgradeInv, ServerEnds
    PROVE  UpgradeInv'
<1>. USE DEF ServerEnds, clientVars
<1>1. UpgradeType' /\ SentWhole' /\ Answering'
    BY DEF UpgradeInv, UpgradeType, SentWhole, Answering
<1>2. UpHeld'
    BY UpFrame DEF UpgradeInv
<1>3. DownHeld'
    BY DownFrame DEF UpgradeInv
<1>. QED  BY <1>1, <1>2, <1>3 DEF UpgradeInv

LEMMA TakeEofUpgrade ==
    ASSUME UpgradeInv, TakeEof
    PROVE  UpgradeInv'
<1>. USE DEF TakeEof, clientVars
<1>1. UpgradeType' /\ SentWhole' /\ Answering'
    BY DEF UpgradeInv, UpgradeType, SentWhole, Answering
<1>2. UpHeld'
    BY UpFrame DEF UpgradeInv
<1>3. DownHeld'
    BY DownFrame DEF UpgradeInv
<1>. QED  BY <1>1, <1>2, <1>3 DEF UpgradeInv

LEMMA RequestEofUpgrade ==
    ASSUME UpgradeInv, RequestEof
    PROVE  UpgradeInv'
<1>1. /\ server.at = "request" /\ server' = [server EXCEPT !.at = "refused"]
      /\ UNCHANGED <<clientVars, up, down, proxy, fronted, to, from, sent, ending, taken, taking>>
    BY DEF RequestEof, Refused
<1>2. /\ server'.at = "refused" /\ server'.readed = server.readed /\ server'.lf_in_row = server.lf_in_row
      /\ server' \in [at : {"request", "reply", "tunnel", "refused"}, lf_in_row : Nat,
                      readed : Nat, path : BOOLEAN]
    BY <1>1 DEF UpgradeInv, UpgradeType
<1>3. UpgradeType' /\ SentWhole' /\ Answering'
    BY <1>1, <1>2 DEF UpgradeInv, UpgradeType, SentWhole, Answering, clientVars
<1>4. UpHeld'
    <2>1. CASE fronted.request = <<>>
        BY <1>1, <1>2, <2>1 DEF UpgradeInv, UpHeld, Unasked, clientVars
    <2>2. CASE fronted.request # <<>>
        <3>1. PICK x \in 0..written : up = Piece(<<>>, x, written) /\ Served(fronted.request, x)
            BY <2>2 DEF UpgradeInv, UpHeld, Asked
        <3>2. Served(fronted.request, x)'
            BY <1>1, <1>2, <3>1 DEF Served
        <3>. QED  BY <1>1, <2>2, <3>1, <3>2 DEF UpgradeInv, UpHeld, Asked, clientVars
    <2>. QED  BY <2>1, <2>2
<1>5. DownHeld'
    BY <1>1, <1>2, DownFrame DEF UpgradeInv, clientVars
<1>. QED  BY <1>3, <1>4, <1>5 DEF UpgradeInv

(* A byte of the answer, of which the client counts the rows.              *)
LEMMA NextInAnswer ==
    ASSUME NEW h, Header(h), NEW g \in Seq(Int), Len(h) <= Len(g),
           \A i \in 1..Len(h) : g[i] = h[i], NEW y \in Nat,
           InAnswer(h, g, y), state.size \in Nat, state.at = "wait", down # <<>>,
           down' = Tail(down), given' = given,
           state'.size = state.size + 1,
           state'.lf_in_row = Rows(state.lf_in_row, Head(down)),
           state'.at = IF Rows(state.lf_in_row, Head(down)) = 2 THEN "up" ELSE "wait"
    PROVE  \/ InAnswer(h, g, y)'
           \/ state'.at = "up" /\ given' = <<>> /\ down' = Piece(g, Len(h), Len(h) + y)
<1>. DEFINE n == state.size
            rows == state.lf_in_row
<1>1. n \in Nat /\ n < Len(h) /\ InRow(h, n, rows) /\ given = <<>> /\ Len(h) \in Nat
    BY DEF InAnswer, Header
<1>. HIDE DEF n, rows
<1>2. down = Piece(g, n, Len(h) + y)
    BY DEF InAnswer, n
<1>3. n <= Len(h) + y /\ n # Len(h) + y /\ Len(h) + y \in Nat /\ n + 1 \in 1..Len(h) /\ n + 1 <= Len(g)
    BY <1>1
<1>4. Head(down) = h[n + 1] /\ Tail(down) = Piece(g, n + 1, Len(h) + y)
    <2>1. Head(down) = Item(g, n + 1) /\ Tail(down) = Piece(g, n + 1, Len(h) + y)
        <3>1. PICK e \in Nat : e = Len(h) + y
            BY <1>3
        <3>2. n <= e /\ n # e
            BY <1>3, <3>1
        <3>3. g \in Seq(Int) /\ n \in Nat /\ e \in Nat
            BY <1>1, <3>1
        <3>4. Head(Piece(g, n, e)) = Item(g, n + 1) /\ Tail(Piece(g, n, e)) = Piece(g, n + 1, e)
            BY <3>2, <3>3, PieceNext
        <3>. QED  BY <1>2, <3>1, <3>4, Zenon
    <2>2. Item(g, n + 1) = h[n + 1]
        BY <1>3 DEF Item
    <2>. QED  BY <2>1, <2>2
<1>5. /\ n + 1 = Len(h) <=> Rows(rows, h[n + 1]) = 2
      /\ n + 1 # Len(h) => InRow(h, n + 1, Rows(rows, h[n + 1]))
    BY <1>1, RowsStep
<1>6. /\ state'.size = n + 1 /\ state'.lf_in_row = Rows(rows, h[n + 1])
      /\ state'.at = IF Rows(rows, h[n + 1]) = 2 THEN "up" ELSE "wait"
      /\ down' = Piece(g, n + 1, Len(h) + y) /\ given' = <<>>
    BY <1>1, <1>4 DEF n, rows
<1>7. CASE n + 1 = Len(h)
    BY <1>5, <1>6, <1>7
<1>8. CASE n + 1 # Len(h)
    <2>1. n + 1 < Len(h)
        BY <1>3, <1>8
    <2>. QED  BY <1>5, <1>6, <1>8, <2>1 DEF InAnswer
<1>. QED  BY <1>7, <1>8

LEMMA ReadWhole ==
    ASSUME NEW h \in Seq(Int), NEW y \in Nat,
           state'.at = "up", given' = <<>>, down' = Piece(h, Len(h), Len(h) + y)
    PROVE  Passed(y)'
<1>1. Piece(h, Len(h), Len(h) + y) = Piece(<<>>, 0, y)
    <2>1. PICK l \in Nat : l = Len(h)
        OBVIOUS
    <2>2. 0 \in Nat /\ 0 <= y /\ l + 0 = l
        OBVIOUS
    <2>3. Piece(h, Len(h) + 0, Len(h) + y) = Piece(<<>>, 0, y)
        BY <2>2, PieceBytes
    <2>. QED  BY <2>1, <2>2, <2>3
<1>2. <<>> \in Seq(Int) /\ 0 \in Nat /\ 0 \in 0..y
    OBVIOUS
<1>3. Piece(<<>>, 0, 0) = <<>>
    BY <1>2, NoBytes
<1>. QED  BY <1>1, <1>2, <1>3 DEF Passed

(* An error page is an answer and one byte more. *)
LEMMA PageIs ==
    ASSUME NEW h \in Headers
    PROVE  LET g == h \o <<Page>>
           IN  /\ g \in Seq(Int) /\ Len(g) = Len(h) + 1 /\ \A i \in 1..Len(h) : g[i] = h[i]
               /\ Piece(g, Len(h), Len(h) + 1) = <<Page>>
               /\ g = Piece(g, 0, Len(h) + 1)
<1>. DEFINE g == h \o <<Page>>
<1>1. h \in Seq(Int) /\ Len(h) \in Nat /\ Page \in Int
    BY HeadersAre DEF Header, Page
<1>2. g \in Seq(Int) /\ Len(g) = Len(h) + 1 /\ g[Len(h) + 1] = Page /\ \A i \in 1..Len(h) : g[i] = h[i]
    <2>1. <<Page>> \in Seq(Int) /\ Len(<<Page>>) = 1 /\ <<Page>>[1] = Page
        BY <1>1
    <2>. QED  BY <1>1, <2>1, ConcatProperties
<1>. HIDE DEF g
<1>3. /\ Piece(g, Len(h), Len(h) + 1) \in Seq(Int) /\ Len(Piece(g, Len(h), Len(h) + 1)) = 1
      /\ \A i \in 1..1 : Piece(g, Len(h), Len(h) + 1)[i] = Item(g, Len(h) + i)
    <2>1. PICK l \in Nat : l = Len(h)
        BY <1>1
    <2>2. l + 1 \in Nat /\ l <= l + 1 /\ (l + 1) - l = 1
        OBVIOUS
    <2>3. /\ Piece(g, l, l + 1) \in Seq(Int) /\ Len(Piece(g, l, l + 1)) = (l + 1) - l
          /\ \A i \in 1..((l + 1) - l) : Piece(g, l, l + 1)[i] = Item(g, l + i)
        <3>1. g \in Seq(Int) /\ l \in Nat /\ l + 1 \in Nat /\ l <= l + 1
            BY <1>2, <2>1, <2>2, Zenon
        <3>. QED  BY <3>1, PieceIs
    <2>. QED  BY <2>1, <2>2, <2>3, Zenon
<1>4. Item(g, Len(h) + 1) = Page
    BY <1>1, <1>2 DEF Item
<1>5. Piece(g, Len(h), Len(h) + 1) = <<Page>>
    BY <1>3, <1>4
<1>6. 0 \in 0..Len(g)
    BY <1>1, <1>2
<1>7. g = Piece(g, 0, Len(h) + 1)
    BY <1>2, <1>6, HeaderPiece
<1>. QED  BY <1>2, <1>5, <1>7 DEF g

LEMMA ReadAnswerUpgrade ==
    ASSUME UpgradeInv, ReadAnswer
    PROVE  UpgradeInv'
<1>. DEFINE rows == Rows(state.lf_in_row, Head(down))
<1>1. /\ state.at = "wait" /\ reading = "reading" /\ down # <<>> /\ down' = Tail(down)
      /\ UNCHANGED <<written, given, up, proxy, fronted, to, from, serverVars>>
    BY DEF ReadAnswer
<1>2. \/ reading' = "short" /\ closing' \in {closing, "dead"} /\ state' = state
      \/ /\ reading' = reading /\ closing' = closing
         /\ state' = [state EXCEPT !.size = @ + 1, !.lf_in_row = rows,
                                   !.at = IF rows = 2 THEN "up" ELSE "wait"]
    BY DEF ReadAnswer, FailClient
<1>. HIDE DEF rows
<1>3. /\ state'.pos = state.pos /\ (state'.at = "send" <=> state.at = "send")
      /\ state' \in [at : {"send", "wait", "up"}, pos : 0..Len(Request), lf_in_row : Nat, size : Nat]
    <2>1. rows \in Nat
        BY DEF rows, Rows, UpgradeInv, UpgradeType
    <2>2. CASE state' = state
        BY <2>2 DEF UpgradeInv, UpgradeType
    <2>3. CASE state' = [state EXCEPT !.size = @ + 1, !.lf_in_row = rows,
                                      !.at = IF rows = 2 THEN "up" ELSE "wait"]
        <3>1. state.size + 1 \in Nat
            BY DEF UpgradeInv, UpgradeType
        <3>2. (IF rows = 2 THEN "up" ELSE "wait") \in {"wait", "up"}
            OBVIOUS
        <3>. QED  BY <1>1, <2>1, <2>3, <3>1, <3>2 DEF UpgradeInv, UpgradeType
    <2>. QED  BY <1>2, <2>2, <2>3
<1>4. UpgradeType' /\ SentWhole' /\ Answering'
    BY <1>1, <1>2, <1>3 DEF UpgradeInv, UpgradeType, SentWhole, Answering, serverVars
<1>5. UpHeld'
    BY <1>1, <1>3, UpFrame DEF UpgradeInv, serverVars
<1>6. state.size \in Nat /\ fronted \in [request : {<<>>} \cup Forwards, answer : {<<>>} \cup Answers]
    BY DEF UpgradeInv, UpgradeType
<1>7. ASSUME reading' # "short",
             NEW h, Header(h), NEW g \in Seq(Int), Len(h) <= Len(g),
             \A i \in 1..Len(h) : g[i] = h[i], NEW y \in Nat, InAnswer(h, g, y)
      PROVE  \/ InAnswer(h, g, y)'
             \/ state'.at = "up" /\ given' = <<>> /\ down' = Piece(g, Len(h), Len(h) + y)
    <2>1. /\ state'.size = state.size + 1 /\ state'.lf_in_row = rows
          /\ state'.at = IF rows = 2 THEN "up" ELSE "wait"
        BY <1>2, <1>7 DEF UpgradeInv, UpgradeType
    <2>. QED  BY <1>1, <1>6, <1>7, <2>1, NextInAnswer DEF rows
<1>8. ASSUME fronted.answer = <<>> PROVE DownHeld'
    <2>1. Unanswered
        BY <1>8 DEF UpgradeInv, DownHeld
    <2>2. proxy = "gone" /\ PageSent
        BY <1>1, <2>1 DEF Unanswered, Silent
    <2>3. PageSent'
        <3>1. PICK h \in Answers : InAnswer(h, h \o <<Page>>, 1)
            BY <1>1, <2>2 DEF PageSent, PageRead
        <3>2. CASE reading' = "short"
            BY <1>1, <3>1, <3>2 DEF PageSent, InAnswer
        <3>3. CASE reading' # "short"
            <4>. DEFINE g == h \o <<Page>>
            <4>1. h \in Headers
                BY DEF Headers
            <4>2. /\ g \in Seq(Int) /\ Len(g) = Len(h) + 1 /\ \A i \in 1..Len(h) : g[i] = h[i]
                  /\ Piece(g, Len(h), Len(h) + 1) = <<Page>>
                BY <4>1, PageIs, Zenon
            <4>3. Header(h) /\ Len(h) \in Nat
                BY <4>1, HeadersAre
            <4>. HIDE DEF g
            <4>4. InAnswer(h, g, 1)
                BY <3>1 DEF g
            <4>5. Len(h) <= Len(g) /\ 1 \in Nat
                BY <4>2, <4>3
            <4>6. \/ InAnswer(h, g, 1)'
                  \/ state'.at = "up" /\ given' = <<>> /\ down' = Piece(g, Len(h), Len(h) + 1)
                BY <1>7, <3>3, <4>2, <4>3, <4>4, <4>5
            <4>. QED  BY <4>2, <4>6 DEF PageSent, PageRead, g
        <3>. QED  BY <3>2, <3>3
    <2>4. server'.at = "tunnel" => from' = Piece(Answer, 0, Len(Answer) + sent')
        BY <1>1, <2>1 DEF Unanswered, serverVars
    <2>5. Unanswered'
        BY <1>1, <2>2, <2>3, <2>4 DEF Unanswered
    <2>6. fronted' = fronted
        BY <1>1
    <2>. QED  BY <1>8, <2>5, <2>6, Zenon DEF DownHeld
<1>9. ASSUME fronted.answer # <<>> PROVE DownHeld'
    <2>1. Answered
        BY <1>9 DEF UpgradeInv, DownHeld
    <2>2. PICK h : h = fronted.answer
        OBVIOUS
    <2>3. PICK y \in 0..sent : AnswerSent(h, y)
        BY <2>1, <2>2 DEF Answered
    <2>4. h \in Headers
        BY <1>6, <1>9, <2>2 DEF Headers
    <2>5. Header(h) /\ h \in Seq(Int) /\ Len(h) \in Nat /\ y \in Nat
        BY <2>4, HeadersAre DEF Header, UpgradeInv, UpgradeType
    <2>6. reading' = "short" \/ InAnswer(h, h, y)' \/ Passed(y)'
        <3>. SUFFICES ASSUME reading' # "short" PROVE InAnswer(h, h, y)' \/ Passed(y)'
            OBVIOUS
        <3>1. InAnswer(h, h, y)
            BY <1>1, <2>3 DEF AnswerSent, Passed
        <3>2. Len(h) <= Len(h) /\ \A i \in 1..Len(h) : h[i] = h[i]
            BY <2>5
        <3>3. \/ InAnswer(h, h, y)'
              \/ state'.at = "up" /\ given' = <<>> /\ down' = Piece(h, Len(h), Len(h) + y)
            BY <1>7, <2>5, <3>1, <3>2
        <3>. QED  BY <2>5, <3>3, ReadWhole
    <2>7. AnswerSent(h, y)'
        BY <1>1, <2>3, <2>6 DEF AnswerSent, serverVars
    <2>8. sent' = sent /\ fronted' = fronted /\ proxy' = proxy /\ server' = server
        BY <1>1 DEF serverVars
    <2>9. Answered'
        BY <2>1, <2>2, <2>7, <2>8 DEF Answered
    <2>. QED  BY <1>9, <2>8, <2>9, Zenon DEF DownHeld
<1>. QED  BY <1>4, <1>5, <1>8, <1>9 DEF UpgradeInv

LEMMA PollReadUpgrade ==
    ASSUME UpgradeInv, NEW n \in 1..MaxSent, PollRead(n)
    PROVE  UpgradeInv'
<1>1. /\ state.at = "up" /\ reading = "reading" /\ n \in 1..Len(down)
      /\ given' = Joined(given, Until(down, n)) /\ down' = After(down, n)
      /\ UNCHANGED <<state, written, closing, reading, up, proxy, fronted, to, from, serverVars>>
    BY Zenon DEF PollRead, Joined, Until, After
<1>2. UpgradeType' /\ SentWhole' /\ Answering'
    BY <1>1 DEF UpgradeInv, UpgradeType, SentWhole, Answering, serverVars
<1>3. UpHeld'
    BY <1>1, UpFrame DEF UpgradeInv, serverVars
<1>4. sent' = sent /\ fronted' = fronted /\ proxy' = proxy /\ server' = server /\ from' = from
    BY <1>1 DEF serverVars
<1>5. ASSUME fronted.answer = <<>> PROVE DownHeld'
    <2>1. Unanswered
        BY <1>5 DEF UpgradeInv, DownHeld
    <2>2. proxy = "gone" /\ PageRead
        BY <1>1, <2>1 DEF Unanswered, Silent, PageSent, InAnswer
    <2>3. given = <<>> /\ down = <<Page>>
        <3>1. down # <<>>
            BY <1>1
        <3>. QED  BY <2>2, <3>1 DEF PageRead
    <2>4. n = 1
        <3>1. Len(<<Page>>) = 1
            OBVIOUS
        <3>. QED  BY <1>1, <2>3, <3>1
    <2>5. given' = <<Page>> /\ down' = <<>>
        <3>1. given' = Joined(<<>>, Until(<<Page>>, 1)) /\ down' = After(<<Page>>, 1)
            BY <1>1, <2>3, <2>4
        <3>2. After(<<Page>>, 1) = <<>> /\ Until(<<Page>>, 1) = <<Page>>
            <4>1. <<Page>> \in Seq(Int) /\ Len(<<Page>>) = 1 /\ <<Page>>[1] = Page /\ 1 \in 0..1
                BY DEF Page
            <4>2. PICK p : p = <<Page>>
                OBVIOUS
            <4>3. /\ After(p, 1) \in Seq(Int) /\ Len(After(p, 1)) = Len(p) - 1
                  /\ Until(p, 1) \in Seq(Int) /\ Len(Until(p, 1)) = 1 /\ \A i \in 1..1 : Until(p, 1)[i] = p[i]
                BY <4>1, <4>2, CutIs
            <4>4. After(p, 1) = <<>>
                BY <4>1, <4>2, <4>3
            <4>5. Until(p, 1) = p
                BY <4>1, <4>2, <4>3, SameSeq
            <4>. QED  BY <4>2, <4>4, <4>5
        <3>3. Joined(<<>>, <<Page>>) = <<Page>>
            BY DEF Joined, Page
        <3>. QED  BY <3>1, <3>2, <3>3
    <2>6. PageSent'
        BY <1>1, <2>5 DEF PageSent, PageRead
    <2>7. server'.at = "tunnel" => from' = Piece(Answer, 0, Len(Answer) + sent')
        BY <1>4, <2>1 DEF Unanswered
    <2>8. Unanswered'
        BY <1>4, <2>2, <2>6, <2>7 DEF Unanswered
    <2>. QED  BY <1>4, <1>5, <2>8, Zenon DEF DownHeld
<1>6. ASSUME fronted.answer # <<>> PROVE DownHeld'
    <2>1. Answered
        BY <1>6 DEF UpgradeInv, DownHeld
    <2>2. PICK y \in 0..sent : AnswerSent(fronted.answer, y)
        BY <2>1 DEF Answered
    <2>3. Passed(y)
        BY <1>1, <2>2 DEF AnswerSent, InAnswer
    <2>4. PICK l \in 0..y : given = Piece(<<>>, 0, l) /\ down = Piece(<<>>, l, y)
        BY <2>3 DEF Passed
    <2>5. l \in Nat /\ l <= y /\ y \in Nat /\ given = Piece(<<>>, 0, l) /\ down = Piece(<<>>, l, y)
        <3>1. y \in Nat
            BY DEF UpgradeInv, UpgradeType
        <3>. QED  BY <2>4, <3>1
    <2>6. Len(down) = y - l
        BY <2>5, BytesAre
    <2>7. n \in Nat /\ n \in 0..(y - l) /\ l + n \in Nat /\ l + n <= y /\ l <= l + n /\ 0 <= l
        BY <1>1, <2>5, <2>6
    <2>8. After(down, n) = Piece(<<>>, l + n, y) /\ Until(down, n) = Piece(<<>>, l, l + n)
        <3>1. <<>> \in Seq(Int)
            OBVIOUS
        <3>. QED  BY <2>5, <2>7, <3>1, PieceCut
    <2>9. given' = Piece(<<>>, 0, l + n)
        <3>1. 0 \in Nat
            OBVIOUS
        <3>. QED  BY <1>1, <2>5, <2>7, <2>8, <3>1, BytesJoin
    <2>10. l + n \in 0..y
        BY <2>7
    <2>11. Passed(y)'
        BY <1>1, <2>8, <2>9, <2>10 DEF Passed
    <2>12. AnswerSent(fronted.answer, y)'
        BY <1>4, <2>2, <2>11 DEF AnswerSent
    <2>13. Answered'
        BY <1>4, <2>1, <2>12 DEF Answered
    <2>. QED  BY <1>4, <1>6, <2>13, Zenon DEF DownHeld
<1>. QED  BY <1>2, <1>3, <1>5, <1>6 DEF UpgradeInv

LEMMA ForwardUpgrade ==
    ASSUME UpgradeInv, NEW h \in Forwards, Forward(h)
    PROVE  UpgradeInv'
<1>1. /\ proxy = "request" /\ BlankLine(up) # {} /\ up' = After(up, Min(BlankLine(up)))
      /\ to' = h /\ proxy' = "asked" /\ fronted' = [fronted EXCEPT !.request = h]
      /\ UNCHANGED <<down, from, clientVars, serverVars>>
    BY Zenon DEF Forward, After
<1>2. h \in Headers /\ Request \in Headers
    BY DEF Headers
<1>3. /\ Header(h) /\ h \in Seq(Int) /\ Len(h) \in Nat /\ Len(h) > 0 /\ h # <<>>
      /\ Header(Request) /\ Request \in Seq(Int) /\ Len(Request) \in Nat
    BY <1>2, HeadersAre DEF Header
<1>4. Unasked
    BY <1>1 DEF UpgradeInv, UpHeld, Asked
<1>5. /\ fronted' \in [request : {<<>>} \cup Forwards, answer : {<<>>} \cup Answers]
      /\ fronted'.request = h /\ fronted'.answer = fronted.answer
    BY <1>1 DEF UpgradeInv, UpgradeType
<1>6. UpgradeType' /\ SentWhole' /\ Answering'
    BY <1>1, <1>5 DEF UpgradeInv, UpgradeType, SentWhole, Answering, clientVars, serverVars
<1>7. DownHeld'
    BY <1>1, <1>5, DownFrame DEF UpgradeInv, clientVars, serverVars
<1>8. /\ state.pos \in Nat /\ written \in Nat /\ state.pos <= Len(Request)
      /\ written > 0 => state.pos = Len(Request)
    BY <1>3 DEF UpgradeInv, UpgradeType, SentWhole
<1>9. up = Piece(Request, 0, state.pos + written) /\ state.pos + written \in Nat
    BY <1>4, <1>8 DEF Unasked
<1>10. state.pos + written >= Len(Request) /\ BlankLine(up) = {Len(Request)}
    BY <1>1, <1>3, <1>9, BlankInPiece
<1>11. state.pos = Len(Request)
    BY <1>3, <1>8, <1>10
<1>12. up' = Piece(<<>>, 0, written)
    <2>1. PICK l \in Nat : l = Len(Request)
        BY <1>3
    <2>2. Min(BlankLine(up)) = l
        BY <1>10, <2>1, MinOne
    <2>3. up' = After(Piece(Request, 0, l + written), l)
        BY <1>1, <1>9, <1>11, <2>1, <2>2, Zenon
    <2>4. After(Piece(Request, 0, l + written), l) = Piece(Request, 0 + l, l + written)
        <3>1. 0 \in Nat /\ l + written \in Nat /\ 0 <= l + written /\ l \in 0..((l + written) - 0)
            BY <1>8, <2>1
        <3>. QED  BY <1>3, <3>1, PieceCut
    <2>5. Piece(Request, l + 0, l + written) = Piece(<<>>, 0, written)
        <3>1. 0 \in Nat /\ 0 <= written
            BY <1>8
        <3>2. Piece(Request, Len(Request) + 0, Len(Request) + written) = Piece(<<>>, 0, written)
            BY <1>3, <1>8, <3>1, PieceBytes
        <3>. QED  BY <2>1, <3>2, Zenon
    <2>6. 0 + l = l + 0
        BY <2>1
    <2>. QED  BY <2>3, <2>4, <2>5, <2>6, Zenon
<1>13. Served(h, 0)'
    <2>1. /\ server'.at \in {"request", "refused"} /\ server'.readed = 0 /\ server'.lf_in_row = 0
          /\ taken' = <<>>
        BY <1>1, <1>4 DEF Unasked, serverVars
    <2>2. h = Piece(h, 0, Len(h)) /\ Len(h) + 0 = Len(h)
        BY <1>3, HeaderPiece
    <2>. QED  BY <1>1, <1>3, <2>1, <2>2, RowsStart DEF Served
<1>14. /\ state'.pos = Len(Request) /\ written' = written /\ 0 \in 0..written
    BY <1>1, <1>8, <1>11 DEF clientVars
<1>15. Asked'
    BY <1>1, <1>5, <1>12, <1>13, <1>14 DEF Asked
<1>16. UpHeld'
    BY <1>3, <1>5, <1>15 DEF UpHeld
<1>. QED  BY <1>6, <1>7, <1>16 DEF UpgradeInv

LEMMA PassAnswerUpgrade ==
    ASSUME UpgradeInv, NEW h \in Answers, PassAnswer(h)
    PROVE  UpgradeInv'
<1>1. /\ proxy = "asked" /\ BlankLine(from) # {} /\ from' = After(from, Min(BlankLine(from)))
      /\ down' = h /\ proxy' = "tunnel" /\ fronted' = [fronted EXCEPT !.answer = h]
      /\ UNCHANGED <<up, to, clientVars, serverVars>>
    BY Zenon DEF PassAnswer, After
<1>2. h \in Headers
    BY DEF Headers
<1>3. Header(h) /\ h \in Seq(Int) /\ Len(h) \in Nat /\ Len(h) > 0 /\ h # <<>>
    BY <1>2, HeadersAre DEF Header
<1>4. Unanswered /\ Silent
    BY <1>1 DEF UpgradeInv, DownHeld, Answered, Unanswered
<1>5. /\ fronted' \in [request : {<<>>} \cup Forwards, answer : {<<>>} \cup Answers]
      /\ fronted'.answer = h /\ fronted'.request = fronted.request
    BY <1>1 DEF UpgradeInv, UpgradeType
<1>6. server.at = "tunnel"
    <2>. SUFFICES ASSUME server.at # "tunnel" PROVE FALSE
        OBVIOUS
    <2>1. from = <<>>
        BY DEF UpgradeInv, Answering
    <2>. QED  BY <1>1, <2>1 DEF BlankLine
<1>7. UpgradeType' /\ SentWhole' /\ Answering'
    BY <1>1, <1>5, <1>6 DEF UpgradeInv, UpgradeType, SentWhole, Answering, clientVars, serverVars
<1>8. UpHeld'
    BY <1>1, <1>5, UpFrame DEF UpgradeInv, clientVars, serverVars
<1>9. sent \in Nat /\ sent' = sent
    BY <1>1 DEF UpgradeInv, UpgradeType, serverVars
<1>10. from' = Piece(<<>>, 0, sent)
    <2>1. PICK l \in Nat : l = Len(Answer)
        BY AnswerIs
    <2>2. Answer \in Seq(Int)
        BY AnswerIs DEF Header
    <2>3. from = Piece(Answer, 0, l + sent)
        BY <1>4, <1>6, <2>1 DEF Unanswered
    <2>4. BlankLine(from) = {l}
        <3>1. l + sent \in Nat /\ l + sent >= Len(Answer)
            BY <1>9, <2>1
        <3>. QED  BY <2>1, <2>3, <3>1, BlankInPiece, AnswerIs
    <2>5. Min(BlankLine(from)) = l
        BY <2>1, <2>4, MinOne
    <2>6. After(Piece(Answer, 0, l + sent), l) = Piece(Answer, 0 + l, l + sent)
        <3>1. 0 \in Nat /\ l + sent \in Nat /\ 0 <= l + sent /\ l \in 0..((l + sent) - 0)
            BY <1>9, <2>1
        <3>. QED  BY <2>2, <3>1, PieceCut
    <2>7. Piece(Answer, l + 0, l + sent) = Piece(<<>>, 0, sent)
        <3>1. 0 \in Nat /\ 0 <= sent
            BY <1>9
        <3>2. Piece(Answer, Len(Answer) + 0, Len(Answer) + sent) = Piece(<<>>, 0, sent)
            BY <1>9, <2>2, <3>1, PieceBytes
        <3>. QED  BY <2>1, <3>2, Zenon
    <2>8. 0 + l = l + 0
        BY <2>1
    <2>. QED  BY <1>1, <2>3, <2>5, <2>6, <2>7, <2>8, Zenon
<1>11. AnswerSent(h, 0)'
    <2>1. state'.at # "up" /\ given' = <<>> /\ state'.size = 0 /\ state'.lf_in_row = 0
        BY <1>1, <1>4 DEF Silent, clientVars
    <2>2. h = Piece(h, 0, Len(h)) /\ Len(h) + 0 = Len(h)
        BY <1>3, HeaderPiece
    <2>3. InAnswer(h, h, 0)'
        BY <1>1, <1>3, <2>1, <2>2, RowsStart DEF InAnswer
    <2>. QED  BY <1>9, <1>10, <2>3 DEF AnswerSent
<1>12. Answered'
    <2>1. 0 \in 0..sent' /\ server'.at = "tunnel"
        BY <1>1, <1>6, <1>9 DEF serverVars
    <2>. QED  BY <1>1, <1>5, <1>11, <2>1 DEF Answered
<1>13. DownHeld'
    BY <1>3, <1>5, <1>12 DEF DownHeld
<1>. QED  BY <1>7, <1>8, <1>13 DEF UpgradeInv

LEMMA RefuseUpgrade ==
    ASSUME UpgradeInv, NEW h \in Answers, Refuse(h)
    PROVE  UpgradeInv'
<1>1. /\ proxy \in {"asked", "request"} /\ down' = h \o <<Page>> /\ proxy' = "gone"
      /\ UNCHANGED <<up, fronted, to, from, clientVars, serverVars>>
    BY DEF Refuse, Gone
<1>2. h \in Headers
    BY DEF Headers
<1>3. Header(h) /\ h \in Seq(Int) /\ Len(h) \in Nat /\ Len(h) > 0
    BY <1>2, HeadersAre DEF Header
<1>4. Unanswered /\ Silent /\ fronted.answer = <<>>
    BY <1>1 DEF UpgradeInv, DownHeld, Answered, Unanswered
<1>5. UpgradeType' /\ SentWhole' /\ Answering'
    <2>1. down' = down' /\ UNCHANGED <<fronted, from, clientVars, serverVars>> /\ proxy' = "gone"
        BY <1>1
    <2>. QED  BY <2>1 DEF UpgradeInv, UpgradeType, SentWhole, Answering, clientVars, serverVars
<1>6. UpHeld'
    <2>1. proxy' = "gone" /\ UNCHANGED <<up, fronted, to, clientVars, serverVars>>
        BY <1>1
    <2>. QED  BY <2>1, UpFrame DEF UpgradeInv, clientVars, serverVars
<1>7. PageSent'
    <2>. DEFINE g == h \o <<Page>>
    <2>1. g = Piece(g, 0, Len(h) + 1)
        BY <1>2, PageIs, Zenon
    <2>2. state'.at # "up" /\ given' = <<>> /\ state'.size = 0 /\ state'.lf_in_row = 0 /\ down' = g
        BY <1>1, <1>4 DEF Silent, clientVars
    <2>. HIDE DEF g
    <2>3. InAnswer(h, g, 1)'
        BY <1>3, <2>1, <2>2, RowsStart DEF InAnswer
    <2>. QED  BY <2>3 DEF PageSent, g
<1>8. sent' = sent /\ fronted' = fronted /\ server' = server /\ from' = from /\ proxy' = "gone"
    BY <1>1 DEF serverVars
<1>9. server'.at = "tunnel" => from' = Piece(Answer, 0, Len(Answer) + sent')
    BY <1>4, <1>8 DEF Unanswered
<1>10. Unanswered'
    BY <1>7, <1>8, <1>9 DEF Unanswered
<1>11. DownHeld'
    BY <1>4, <1>8, <1>10, Zenon DEF DownHeld
<1>. QED  BY <1>5, <1>6, <1>11 DEF UpgradeInv

LEMMA PassUpUpgrade ==
    ASSUME UpgradeInv, PassUp
    PROVE  UpgradeInv'
<1>1. /\ proxy = "tunnel" /\ to' = Joined(to, up) /\ up' = <<>>
      /\ UNCHANGED <<down, proxy, fronted, from, clientVars, serverVars>>
    BY Zenon DEF PassUp, Joined
<1>2. UpgradeType' /\ SentWhole' /\ Answering'
    BY <1>1 DEF UpgradeInv, UpgradeType, SentWhole, Answering, clientVars, serverVars
<1>3. DownHeld'
    BY <1>1, DownFrame DEF UpgradeInv, clientVars, serverVars
<1>4. Asked /\ fronted.request # <<>>
    BY <1>1 DEF UpgradeInv, UpHeld, Unasked
<1>5. PICK h : h = fronted.request
    OBVIOUS
<1>6. Header(h) /\ h \in Seq(Int) /\ Len(h) \in Nat
    <2>1. h \in Headers
        BY <1>4, <1>5 DEF UpgradeInv, UpgradeType, Headers
    <2>. QED  BY <2>1, HeadersAre DEF Header
<1>7. PICK x \in 0..written : up = Piece(<<>>, x, written) /\ Served(h, x)
    BY <1>4, <1>5 DEF Asked
<1>8. x \in Nat /\ written \in Nat /\ x <= written /\ server.readed \in Nat
    BY <1>7 DEF UpgradeInv, UpgradeType
<1>9. server' = server /\ taken' = taken /\ written' = written /\ fronted' = fronted /\ state' = state
    BY <1>1 DEF clientVars, serverVars
<1>10. Served(h, written)'
    <2>1. CASE server.at = "request"
        <3>1. server.readed < Len(h) /\ InRow(h, server.readed, server.lf_in_row)
              /\ to = Piece(h, server.readed, Len(h) + x)
            BY <1>7, <2>1 DEF Served
        <3>2. server.readed <= Len(h) + x
            BY <1>6, <1>8, <3>1
        <3>3. to' = Piece(h, server.readed, Len(h) + written)
            BY <1>1, <1>6, <1>7, <1>8, <3>1, <3>2, BytesBehind
        <3>. QED  BY <1>7, <1>9, <2>1, <3>1, <3>3 DEF Served
    <2>2. CASE server.at = "reply"
        <3>1. to = Piece(<<>>, 0, x)
            BY <1>7, <2>2 DEF Served
        <3>2. 0 \in Nat /\ 0 <= x
            BY <1>8
        <3>3. to' = Piece(<<>>, 0, written)
            BY <1>1, <1>7, <1>8, <3>1, <3>2, BytesJoin
        <3>. QED  BY <1>7, <1>9, <2>2, <3>3 DEF Served
    <2>3. CASE server.at = "tunnel"
        <3>1. PICK t \in 0..x : taken = Piece(<<>>, 0, t) /\ to = Piece(<<>>, t, x)
            BY <1>7, <2>3 DEF Served
        <3>2. t \in Nat /\ t <= x /\ t \in 0..written
            BY <1>8, <3>1
        <3>3. to' = Piece(<<>>, t, written)
            BY <1>1, <1>7, <1>8, <3>1, <3>2, BytesJoin
        <3>. QED  BY <1>9, <2>3, <3>1, <3>2, <3>3 DEF Served
    <2>4. CASE server.at \notin {"request", "reply", "tunnel"}
        BY <1>7, <1>9, <2>4 DEF Served
    <2>. QED  BY <2>1, <2>2, <2>3, <2>4
<1>11. up' = Piece(<<>>, written, written) /\ written \in 0..written
    <2>1. <<>> \in Seq(Int)
        OBVIOUS
    <2>2. Piece(<<>>, written, written) = <<>>
        BY <1>8, <2>1, NoBytes
    <2>3. written \in 0..written
        BY <1>8
    <2>. QED  BY <1>1, <2>2, <2>3
<1>12. Asked'
    BY <1>1, <1>4, <1>5, <1>9, <1>10, <1>11 DEF Asked
<1>13. UpHeld'
    BY <1>4, <1>9, <1>12 DEF UpHeld
<1>. QED  BY <1>2, <1>3, <1>13 DEF UpgradeInv

LEMMA PassDownUpgrade ==
    ASSUME UpgradeInv, PassDown
    PROVE  UpgradeInv'
<1>1. /\ proxy = "tunnel" /\ down' = Joined(down, from) /\ from' = <<>>
      /\ UNCHANGED <<up, proxy, fronted, to, clientVars, serverVars>>
    BY Zenon DEF PassDown, Joined
<1>2. Answered /\ fronted.answer # <<>>
    BY <1>1 DEF UpgradeInv, DownHeld, Unanswered
<1>3. UpgradeType' /\ SentWhole' /\ Answering'
    <2>1. server.at = "tunnel"
        BY <1>2 DEF Answered
    <2>2. UNCHANGED <<proxy, fronted, clientVars, serverVars>>
        BY <1>1
    <2>. QED  BY <2>1, <2>2 DEF UpgradeInv, UpgradeType, SentWhole, Answering, clientVars, serverVars
<1>4. UpHeld'
    BY <1>1, UpFrame DEF UpgradeInv, clientVars, serverVars
<1>5. PICK h : h = fronted.answer
    OBVIOUS
<1>6. Header(h) /\ h \in Seq(Int) /\ Len(h) \in Nat
    <2>1. h \in Headers
        BY <1>2, <1>5 DEF UpgradeInv, UpgradeType, Headers
    <2>. QED  BY <2>1, HeadersAre DEF Header
<1>7. PICK y \in 0..sent : AnswerSent(h, y)
    BY <1>2, <1>5 DEF Answered
<1>8. y \in Nat /\ sent \in Nat /\ y <= sent /\ state.size \in Nat /\ from = Piece(<<>>, y, sent)
    BY <1>7 DEF UpgradeInv, UpgradeType, AnswerSent
<1>9. /\ server' = server /\ sent' = sent /\ fronted' = fronted /\ state' = state
      /\ given' = given /\ reading' = reading
    BY <1>1 DEF clientVars, serverVars
<1>10. from' = Piece(<<>>, sent, sent) /\ sent \in 0..sent
    <2>1. <<>> \in Seq(Int)
        OBVIOUS
    <2>2. Piece(<<>>, sent, sent) = <<>>
        BY <1>8, <2>1, NoBytes
    <2>3. sent \in 0..sent
        BY <1>8
    <2>. QED  BY <1>1, <2>2, <2>3
<1>11. ASSUME InAnswer(h, h, y) PROVE InAnswer(h, h, sent)'
    <2>1. state.size < Len(h) /\ down = Piece(h, state.size, Len(h) + y)
        BY <1>11 DEF InAnswer
    <2>2. state.size <= Len(h) + y
        BY <1>6, <1>8, <2>1
    <2>3. down' = Piece(h, state.size, Len(h) + sent)
        BY <1>1, <1>6, <1>8, <2>1, <2>2, BytesBehind
    <2>. QED  BY <1>9, <1>11, <2>3 DEF InAnswer
<1>12. ASSUME Passed(y) PROVE Passed(sent)'
    <2>1. PICK g \in 0..y : given = Piece(<<>>, 0, g) /\ down = Piece(<<>>, g, y)
        BY <1>12 DEF Passed
    <2>2. g \in Nat /\ g <= y /\ g \in 0..sent
        BY <1>8, <2>1
    <2>3. down' = Piece(<<>>, g, sent)
        BY <1>1, <1>8, <2>1, <2>2, BytesJoin
    <2>. QED  BY <1>9, <1>12, <2>1, <2>2, <2>3 DEF Passed
<1>13. AnswerSent(h, sent)'
    BY <1>7, <1>9, <1>10, <1>11, <1>12 DEF AnswerSent
<1>14. Answered'
    BY <1>1, <1>2, <1>5, <1>9, <1>10, <1>13 DEF Answered
<1>15. DownHeld'
    BY <1>2, <1>9, <1>14 DEF DownHeld
<1>. QED  BY <1>3, <1>4, <1>15 DEF UpgradeInv

LEMMA ReadRequestUpgrade ==
    ASSUME UpgradeInv, ReadRequest
    PROVE  UpgradeInv'
<1>. DEFINE rows == Rows(server.lf_in_row, Head(to))
<1>1. /\ server.at = "request" /\ to # <<>> /\ to' = Tail(to)
      /\ UNCHANGED <<clientVars, up, down, proxy, fronted, from, sent, ending, taken, taking>>
    BY DEF ReadRequest
<1>2. \/ server' = [server EXCEPT !.at = "refused"]
      \/ \E path : server' = [at |-> IF rows = 2 THEN "reply" ELSE "request", lf_in_row |-> rows,
                              readed |-> server.readed + 1, path |-> path]
                   /\ path = (server.path \/ Head(to) = Path)
    BY DEF ReadRequest, Refused
<1>. HIDE DEF rows
<1>3. /\ server' \in [at : {"request", "reply", "tunnel", "refused"}, lf_in_row : Nat,
                      readed : Nat, path : BOOLEAN]
      /\ server'.at \in {"request", "reply", "refused"}
    <2>1. CASE server' = [server EXCEPT !.at = "refused"]
        BY <2>1 DEF UpgradeInv, UpgradeType
    <2>2. CASE server' # [server EXCEPT !.at = "refused"]
        <3>1. PICK path : server' = [at |-> IF rows = 2 THEN "reply" ELSE "request", lf_in_row |-> rows,
                              readed |-> server.readed + 1, path |-> path]
                   /\ path = (server.path \/ Head(to) = Path)
            BY <1>2, <2>2, Zenon
        <3>2. rows \in Nat /\ server.readed + 1 \in Nat
            BY DEF rows, Rows, UpgradeInv, UpgradeType
        <3>3. path \in BOOLEAN
            BY <3>1, Zenon
        <3>4. (IF rows = 2 THEN "reply" ELSE "request") \in {"request", "reply"}
            OBVIOUS
        <3>. QED  BY <3>1, <3>2, <3>3, <3>4
    <2>. QED  BY <2>1, <2>2
<1>4. UpgradeType' /\ SentWhole' /\ Answering'
    <2>1. UNCHANGED <<clientVars, proxy, fronted, from, sent, ending, taken, taking>>
        BY <1>1
    <2>. QED  BY <1>1, <1>3, <2>1 DEF UpgradeInv, UpgradeType, SentWhole, Answering, clientVars
<1>5. DownHeld'
    <2>1. server'.at # "tunnel" /\ server.at # "tunnel"
        BY <1>1, <1>3
    <2>2. UNCHANGED <<clientVars, down, proxy, fronted, from, sent>>
        BY <1>1
    <2>. QED  BY <2>1, <2>2, DownFrame DEF UpgradeInv, clientVars
<1>6. Asked /\ fronted.request # <<>>
    BY <1>1 DEF UpgradeInv, UpHeld, Unasked
<1>7. PICK h : h = fronted.request
    OBVIOUS
<1>8. Header(h) /\ h \in Seq(Int) /\ Len(h) \in Nat
    <2>1. h \in Headers
        BY <1>6, <1>7 DEF UpgradeInv, UpgradeType, Headers
    <2>. QED  BY <2>1, HeadersAre DEF Header
<1>9. PICK x \in 0..written : up = Piece(<<>>, x, written) /\ Served(h, x)
    BY <1>6, <1>7 DEF Asked
<1>10. PICK n : n = server.readed
    OBVIOUS
<1>11. /\ x \in Nat /\ n \in Nat /\ n < Len(h) /\ InRow(h, n, server.lf_in_row)
       /\ to = Piece(h, n, Len(h) + x) /\ taken = <<>>
    <2>1. x \in Nat /\ n \in Nat
        BY <1>9, <1>10 DEF UpgradeInv, UpgradeType
    <2>. QED  BY <1>1, <1>9, <1>10, <2>1 DEF Served
<1>12. Head(to) = h[n + 1] /\ to' = Piece(h, n + 1, Len(h) + x)
    <2>1. PICK e \in Nat : e = Len(h) + x
        BY <1>8, <1>11
    <2>2. n <= e /\ n # e /\ n + 1 <= Len(h)
        BY <1>8, <1>11, <2>1
    <2>3. Head(Piece(h, n, e)) = Item(h, n + 1) /\ Tail(Piece(h, n, e)) = Piece(h, n + 1, e)
        <3>1. h \in Seq(Int) /\ n \in Nat /\ e \in Nat
            BY <1>8, <1>11, <2>1
        <3>. QED  BY <2>2, <3>1, PieceEnds, Zenon
    <2>4. Item(h, n + 1) = h[n + 1]
        BY <2>2 DEF Item
    <2>. QED  BY <1>1, <1>11, <2>1, <2>3, <2>4, Zenon
<1>13. /\ n + 1 = Len(h) <=> rows = 2
       /\ n + 1 # Len(h) => InRow(h, n + 1, rows)
    <2>1. rows = Rows(server.lf_in_row, h[n + 1])
        BY <1>12 DEF rows
    <2>. QED  BY <1>8, <1>11, <2>1, RowsStep
<1>14. taken' = <<>> /\ written' = written /\ fronted' = fronted /\ state' = state /\ proxy' = proxy /\ up' = up
    BY <1>1, <1>11 DEF clientVars
<1>15. Served(h, x)'
    <2>1. CASE server' = [server EXCEPT !.at = "refused"]
        <3>1. server'.at = "refused"
            BY <2>1 DEF UpgradeInv, UpgradeType
        <3>. QED  BY <1>14, <3>1 DEF Served
    <2>2. CASE server' # [server EXCEPT !.at = "refused"]
        <3>1. /\ server'.at = IF rows = 2 THEN "reply" ELSE "request"
              /\ server'.lf_in_row = rows /\ server'.readed = n + 1
            <4>1. PICK path : server' = [at |-> IF rows = 2 THEN "reply" ELSE "request", lf_in_row |-> rows,
                              readed |-> server.readed + 1, path |-> path]
                BY <1>2, <2>2, Zenon
            <4>. QED  BY <1>10, <4>1
        <3>2. CASE rows = 2
            <4>1. server'.at = "reply"
                BY <3>1, <3>2
            <4>2. to' = Piece(h, Len(h), Len(h) + x)
                BY <1>12, <1>13, <3>2
            <4>3. Piece(h, Len(h), Len(h) + x) = Piece(<<>>, 0, x)
                <5>1. PICK l \in Nat : l = Len(h)
                    BY <1>8
                <5>2. 0 \in Nat /\ 0 <= x /\ l + 0 = l
                    BY <1>11, <5>1
                <5>3. Piece(h, Len(h) + 0, Len(h) + x) = Piece(<<>>, 0, x)
                    BY <1>8, <1>11, <5>2, PieceBytes
                <5>. QED  BY <5>1, <5>2, <5>3
            <4>. QED  BY <1>14, <4>1, <4>2, <4>3 DEF Served
        <3>3. CASE rows # 2
            <4>1. server'.at = "request" /\ n + 1 < Len(h)
                BY <1>8, <1>11, <1>13, <3>1, <3>3
            <4>. QED  BY <1>12, <1>13, <1>14, <3>1, <3>3, <4>1 DEF Served
        <3>. QED  BY <3>2, <3>3
    <2>. QED  BY <2>1, <2>2
<1>16. Asked'
    BY <1>6, <1>7, <1>9, <1>14, <1>15 DEF Asked
<1>17. UpHeld'
    BY <1>6, <1>14, <1>16 DEF UpHeld
<1>. QED  BY <1>4, <1>5, <1>17 DEF UpgradeInv

LEMMA ReplyUpgrade ==
    ASSUME UpgradeInv, Reply
    PROVE  UpgradeInv'
<1>1. /\ server.at = "reply" /\ server' = [server EXCEPT !.at = "tunnel"]
      /\ from' = Joined(from, Answer)
      /\ UNCHANGED <<clientVars, up, down, proxy, fronted, to, sent, ending, taken, taking>>
    BY Zenon DEF Reply, Joined, Answer
<1>2. /\ server' \in [at : {"request", "reply", "tunnel", "refused"}, lf_in_row : Nat,
                      readed : Nat, path : BOOLEAN]
      /\ server'.at = "tunnel"
    BY <1>1 DEF UpgradeInv, UpgradeType
<1>3. UpgradeType' /\ SentWhole' /\ Answering'
    <2>1. UNCHANGED <<clientVars, proxy, fronted, sent, ending, taken, taking>>
        BY <1>1
    <2>. QED  BY <1>2, <2>1 DEF UpgradeInv, UpgradeType, SentWhole, Answering, clientVars
<1>4. from = <<>> /\ sent = 0
    BY <1>1 DEF UpgradeInv, Answering
<1>5. Unanswered /\ fronted.answer = <<>>
    BY <1>1 DEF UpgradeInv, DownHeld, Answered
<1>6. from' = Piece(Answer, 0, Len(Answer) + sent')
    <2>1. Answer \in Seq(Int) /\ Len(Answer) = 5
        BY AnswerIs DEF Header
    <2>2. Answer = Piece(Answer, 0, Len(Answer))
        <3>1. 0 \in 0..Len(Answer)
            BY <2>1
        <3>. QED  BY <2>1, <3>1, HeaderPiece
    <2>3. Joined(<<>>, Answer) = Answer
        BY <2>1, ConcatEmptySeq, Zenon DEF Joined
    <2>4. Len(Answer) + sent' = Len(Answer)
        BY <1>1, <1>4, <2>1
    <2>. QED  BY <1>1, <1>4, <2>2, <2>3, <2>4, Zenon
<1>7. DownHeld'
    <2>1. UNCHANGED <<clientVars, down, proxy, fronted>>
        BY <1>1
    <2>2. Silent => Silent'
        BY <2>1 DEF Silent, clientVars
    <2>3. ASSUME NEW h, NEW g PROVE InAnswer(h, g, 1) => InAnswer(h, g, 1)'
        BY <2>1 DEF InAnswer, clientVars
    <2>4. PageSent => PageSent'
        BY <2>1, <2>3 DEF PageSent, PageRead, clientVars
    <2>5. Unanswered'
        BY <1>5, <1>6, <2>1, <2>2, <2>4 DEF Unanswered
    <2>. QED  BY <1>5, <2>1, <2>5 DEF DownHeld
<1>8. Asked /\ fronted.request # <<>>
    BY <1>1 DEF UpgradeInv, UpHeld, Unasked
<1>9. PICK x \in 0..written : up = Piece(<<>>, x, written) /\ Served(fronted.request, x)
    BY <1>8 DEF Asked
<1>10. written' = written /\ fronted' = fronted /\ state' = state /\ proxy' = proxy
       /\ up' = up /\ to' = to /\ taken' = taken
    BY <1>1 DEF clientVars
<1>11. Served(fronted.request, x)'
    <2>1. to = Piece(<<>>, 0, x) /\ taken = <<>>
        BY <1>1, <1>9 DEF Served
    <2>2. Piece(<<>>, 0, 0) = <<>>
        <3>1. <<>> \in Seq(Int) /\ 0 \in Nat
            OBVIOUS
        <3>. QED  BY <3>1, NoBytes
    <2>3. 0 \in 0..x
        BY <1>9 DEF UpgradeInv, UpgradeType
    <2>. QED  BY <1>2, <1>10, <2>1, <2>2, <2>3 DEF Served
<1>12. UpHeld'
    BY <1>8, <1>9, <1>10, <1>11 DEF UpHeld, Asked
<1>. QED  BY <1>3, <1>7, <1>12 DEF UpgradeInv

LEMMA TakeUpgrade ==
    ASSUME UpgradeInv, NEW n \in 1..MaxSent, Take(n)
    PROVE  UpgradeInv'
<1>1. /\ server.at = "tunnel" /\ n \in 1..Len(to)
      /\ taken' = Joined(taken, Until(to, n)) /\ to' = After(to, n)
      /\ UNCHANGED <<clientVars, up, down, proxy, fronted, from, server, sent, ending, taking>>
    BY Zenon DEF Take, Joined, Until, After
<1>2. UNCHANGED <<clientVars, up, proxy, fronted, down, from, server, sent, ending, taking>>
    BY <1>1
<1>3. UpgradeType' /\ SentWhole' /\ Answering'
    BY <1>2 DEF UpgradeInv, UpgradeType, SentWhole, Answering, clientVars
<1>4. DownHeld'
    BY <1>2, DownFrame DEF UpgradeInv, clientVars
<1>5. Asked /\ fronted.request # <<>>
    BY <1>1 DEF UpgradeInv, UpHeld, Unasked
<1>6. PICK x \in 0..written : up = Piece(<<>>, x, written) /\ Served(fronted.request, x)
    BY <1>5 DEF Asked
<1>7. PICK t \in 0..x : taken = Piece(<<>>, 0, t) /\ to = Piece(<<>>, t, x)
    BY <1>1, <1>6 DEF Served
<1>8. x \in Nat /\ t \in Nat /\ t <= x /\ 0 <= t /\ 0 \in Nat
    BY <1>6, <1>7 DEF UpgradeInv, UpgradeType
<1>9. Len(to) = x - t
    BY <1>7, <1>8, BytesAre
<1>10. n \in 0..(x - t) /\ t + n \in Nat /\ t <= t + n /\ t + n \in 0..x
    BY <1>1, <1>8, <1>9
<1>11. to' = Piece(<<>>, t + n, x) /\ Until(to, n) = Piece(<<>>, t, t + n)
    <2>1. <<>> \in Seq(Int)
        OBVIOUS
    <2>. QED  BY <1>1, <1>7, <1>8, <1>10, <2>1, PieceCut
<1>12. taken' = Piece(<<>>, 0, t + n)
    BY <1>1, <1>7, <1>8, <1>10, <1>11, BytesJoin
<1>13. Served(fronted.request, x)'
    BY <1>1, <1>10, <1>11, <1>12 DEF Served
<1>14. UpHeld'
    BY <1>2, <1>5, <1>6, <1>13 DEF UpHeld, Asked, clientVars
<1>. QED  BY <1>3, <1>4, <1>14 DEF UpgradeInv

LEMMA PutUpgrade ==
    ASSUME UpgradeInv, Put
    PROVE  UpgradeInv'
<1>1. /\ server.at = "tunnel" /\ proxy # "gone" /\ sent < MaxSent /\ sent' = sent + 1
      /\ from' = Append(from, sent + 1)
      /\ UNCHANGED <<clientVars, up, down, proxy, fronted, to, server, ending, taken, taking>>
    BY DEF Put
<1>2. UNCHANGED <<clientVars, up, down, proxy, fronted, to, server, ending, taken, taking>>
    BY <1>1
<1>3. sent \in Nat /\ sent + 1 \in Nat /\ sent <= sent + 1 /\ sent' \in 0..MaxSent
    BY <1>1, UpgradeAssumption DEF UpgradeInv, UpgradeType
<1>4. UpgradeType' /\ SentWhole' /\ Answering'
    BY <1>1, <1>2, <1>3 DEF UpgradeInv, UpgradeType, SentWhole, Answering, clientVars
<1>5. UpHeld'
    BY <1>2, UpFrame DEF UpgradeInv, clientVars
<1>6. ASSUME fronted.answer = <<>> PROVE DownHeld'
    <2>1. Unanswered
        BY <1>6 DEF UpgradeInv, DownHeld
    <2>2. Silent'
        BY <1>1, <1>2, <2>1 DEF Unanswered, Silent, clientVars
    <2>3. from = Piece(Answer, 0, Len(Answer) + sent)
        BY <1>1, <2>1 DEF Unanswered
    <2>4. from' = Piece(Answer, 0, Len(Answer) + sent')
        <3>1. Answer \in Seq(Int) /\ 0 \in Nat /\ 0 <= Len(Answer) + sent /\ Len(Answer) + sent \in Nat
            BY <1>3, AnswerIs DEF Header
        <3>2. from \in Seq(Int)
            BY <2>3, <3>1, PieceIs
        <3>3. from' = Joined(from, Piece(<<>>, sent, sent + 1))
            BY <1>1, <1>3, <3>2, OneMore
        <3>4. Joined(Piece(Answer, 0, Len(Answer) + sent), Piece(<<>>, sent, sent + 1))
                = Piece(Answer, 0, Len(Answer) + (sent + 1))
            BY <1>3, <3>1, BytesBehind
        <3>. QED  BY <1>1, <2>3, <3>3, <3>4, Zenon
    <2>5. Unanswered'
        BY <1>2, <2>1, <2>2, <2>4 DEF Unanswered
    <2>. QED  BY <1>2, <1>6, <2>5 DEF DownHeld
<1>7. ASSUME fronted.answer # <<>> PROVE DownHeld'
    <2>1. Answered
        BY <1>7 DEF UpgradeInv, DownHeld
    <2>2. PICK y \in 0..sent : AnswerSent(fronted.answer, y)
        BY <2>1 DEF Answered
    <2>3. from = Piece(<<>>, y, sent) /\ y \in Nat /\ y <= sent /\ y \in 0..sent'
        BY <1>1, <1>3, <2>2 DEF AnswerSent
    <2>4. from' = Piece(<<>>, y, sent')
        <3>1. from \in Seq(Int)
            BY <1>3, <2>3, BytesAre
        <3>2. from' = Joined(from, Piece(<<>>, sent, sent + 1))
            BY <1>1, <1>3, <3>1, OneMore
        <3>3. Joined(Piece(<<>>, y, sent), Piece(<<>>, sent, sent + 1)) = Piece(<<>>, y, sent + 1)
            BY <1>3, <2>3, BytesJoin
        <3>. QED  BY <1>1, <2>3, <3>2, <3>3, Zenon
    <2>5. ASSUME NEW h PROVE InAnswer(h, h, y) => InAnswer(h, h, y)'
        BY <1>2 DEF InAnswer, clientVars
    <2>6. Passed(y) => Passed(y)'
        BY <1>2 DEF Passed, clientVars
    <2>7. AnswerSent(fronted.answer, y)'
        BY <1>2, <2>2, <2>4, <2>5, <2>6 DEF AnswerSent, clientVars
    <2>8. Answered'
        BY <1>2, <2>1, <2>3, <2>7 DEF Answered
    <2>. QED  BY <1>2, <1>7, <2>8 DEF DownHeld
<1>. QED  BY <1>4, <1>5, <1>6, <1>7 DEF UpgradeInv

LEMMA UpgradeInitInv == UpgradeInit => UpgradeInv
<1>. SUFFICES ASSUME UpgradeInit PROVE UpgradeInv
    OBVIOUS
<1>1. Request \in Headers
    BY DEF Headers
<1>2. Request \in Seq(Int) /\ Len(Request) \in Nat /\ Len(Request) > 0 /\ MaxSent \in Nat
    BY <1>1, HeadersAre, UpgradeAssumption DEF Header
<1>3. UpgradeType /\ SentWhole /\ Answering
    BY <1>2 DEF UpgradeInit, UpgradeType, SentWhole, Answering
<1>4. UpHeld
    <2>1. Piece(Request, 0, 0) = <<>> /\ state.pos + written = 0
        <3>1. 0 \in Nat
            OBVIOUS
        <3>2. Piece(Request, 0, 0) = <<>>
            BY <1>2, <3>1, NoBytes
        <3>. QED  BY <3>2 DEF UpgradeInit
    <2>. QED  BY <2>1 DEF UpgradeInit, UpHeld, Unasked
<1>5. DownHeld
    BY DEF UpgradeInit, DownHeld, Unanswered, Silent
<1>. QED  BY <1>3, <1>4, <1>5 DEF UpgradeInv

LEMMA UpgradeStep == UpgradeInv /\ [UpgradeNext]_upgradeVars => UpgradeInv'
<1>. SUFFICES ASSUME UpgradeInv, [UpgradeNext]_upgradeVars PROVE UpgradeInv'
    OBVIOUS
<1>1. CASE Write
    BY <1>1, PollWriteUpgrade DEF Write
<1>2. CASE PollShutdown
    BY <1>2, PollShutdownUpgrade
<1>3. CASE PollReads
    BY <1>3, ReadAnswerUpgrade, PollEofUpgrade, PollReadUpgrade DEF PollReads
<1>4. CASE Pass
    BY <1>4, ForwardUpgrade, PassAnswerUpgrade, PassUpUpgrade, PassDownUpgrade DEF Pass
<1>5. CASE Disconnect
    BY <1>5, DisconnectUpgrade
<1>6. CASE Serve
    BY <1>6, ReadRequestUpgrade, RequestEofUpgrade, ReplyUpgrade DEF Serve
<1>7. CASE Tunnel
    BY <1>7, TakeUpgrade, TakeEofUpgrade, PutUpgrade, ServerEndsUpgrade DEF Tunnel
<1>8. ASSUME NEW h \in Answers, Refuse(h) PROVE UpgradeInv'
    BY <1>8, RefuseUpgrade
<1>9. CASE UNCHANGED upgradeVars
    <2>1. UNCHANGED <<state, written, closing, given, reading, up, down, proxy, fronted, to, from,
                      server, sent, ending, taken, taking>>
        BY <1>9 DEF upgradeVars, clientVars, serverVars
    <2>2. UpgradeType' /\ SentWhole' /\ Answering'
        BY <2>1 DEF UpgradeInv, UpgradeType, SentWhole, Answering
    <2>3. UpHeld'
        BY <2>1, UpFrame DEF UpgradeInv
    <2>4. DownHeld'
        BY <2>1, DownFrame DEF UpgradeInv
    <2>. QED  BY <2>2, <2>3, <2>4 DEF UpgradeInv
<1>. QED  BY <1>1, <1>2, <1>3, <1>4, <1>5, <1>6, <1>7, <1>8, <1>9 DEF UpgradeNext, Over
-----------------------------------------------------------------------------
LEMMA UpgradeInductive == UpgradeSpec => []UpgradeInv
<1>. QED  BY UpgradeInitInv, UpgradeStep, PTL DEF UpgradeSpec

(* How a writer ended, for the other end, changes at most once.            *)
EndOf(end, held_, at) ==
    IF end = "closed" /\ held_ = <<>> THEN "closed"
    ELSE IF at = "gone" THEN "dead" ELSE IF end = "closed" THEN "open" ELSE end

LEMMA EndsOnce ==
    ASSUME NEW e \in {"open", "closed", "dead"}, NEW f \in {"open", "closed", "dead"},
           NEW a, NEW b, NEW p, NEW q,
           f = e \/ e = "open",
           e = "closed" /\ a = <<>> => b = <<>>,
           p = "gone" => /\ q = "gone" /\ (b = a \/ f = "open")
                         /\ (f = "closed" => e = "closed")
    PROVE  \/ EndOf(f, b, q) = EndOf(e, a, p)
           \/ EndOf(e, a, p) = "open" /\ EndOf(f, b, q) \in {"closed", "dead"}
    BY DEF EndOf

(* How a step may move what either writer looks like. *)
UpMoves ==
    /\ closing' = closing \/ (closing = "open" /\ closing' \in {"closed", "dead"})
    /\ closing = "closed" /\ up = <<>> => up' = <<>>
    /\ proxy = "gone" => proxy' = "gone" /\ up' = up /\ (closing' = "closed" => closing = "closed")
DownMoves ==
    /\ ending' = ending \/ (ending = "open" /\ ending' \in {"closed", "dead"})
    /\ ending = "closed" /\ from = <<>> => from' = <<>>
    /\ proxy = "gone" => /\ proxy' = "gone" /\ (from' = from \/ ending' = "open")
                         /\ (ending' = "closed" => ending = "closed")

LEMMA WritersMove ==
    ASSUME UpgradeInv, [UpgradeNext]_upgradeVars
    PROVE  UpMoves /\ DownMoves
<1>. USE DEF UpMoves, DownMoves, clientVars, serverVars
<1>1. CASE Write
    BY <1>1 DEF Write, PollWrite
<1>2. CASE PollShutdown
    BY <1>2 DEF PollShutdown
<1>3. CASE PollReads
    <2>1. CASE ReadAnswer
        BY <2>1 DEF ReadAnswer, FailClient
    <2>2. CASE PollEof
        BY <2>2 DEF PollEof, FailClient
    <2>3. ASSUME NEW n \in 1..MaxSent, PollRead(n) PROVE UpMoves /\ DownMoves
        BY <2>3 DEF PollRead
    <2>. QED  BY <1>3, <2>1, <2>2, <2>3 DEF PollReads
<1>4. CASE Pass
    <2>1. ASSUME NEW h \in Forwards, Forward(h) PROVE UpMoves /\ DownMoves
        <3>1. up # <<>>
            BY <2>1 DEF Forward, BlankLine
        <3>. QED  BY <2>1, <3>1 DEF Forward
    <2>2. ASSUME NEW h \in Answers, PassAnswer(h) PROVE UpMoves /\ DownMoves
        <3>1. from # <<>>
            BY <2>2 DEF PassAnswer, BlankLine
        <3>. QED  BY <2>2, <3>1 DEF PassAnswer
    <2>3. CASE PassUp
        BY <2>3 DEF PassUp
    <2>4. CASE PassDown
        BY <2>4 DEF PassDown
    <2>. QED  BY <1>4, <2>1, <2>2, <2>3, <2>4 DEF Pass
<1>5. CASE Disconnect
    BY <1>5 DEF Disconnect, Gone
<1>6. CASE Serve
    <2>1. CASE ReadRequest
        BY <2>1 DEF ReadRequest
    <2>2. CASE RequestEof
        BY <2>2 DEF RequestEof
    <2>3. CASE Reply
        <3>1. ending = "open"
            BY <2>3 DEF Reply, UpgradeInv, Answering
        <3>. QED  BY <2>3, <3>1 DEF Reply
    <2>. QED  BY <1>6, <2>1, <2>2, <2>3 DEF Serve
<1>7. CASE Tunnel
    <2>1. ASSUME NEW n \in 1..MaxSent, Take(n) PROVE UpMoves /\ DownMoves
        BY <2>1 DEF Take
    <2>2. CASE TakeEof
        BY <2>2 DEF TakeEof
    <2>3. CASE Put
        BY <2>3 DEF Put
    <2>4. CASE ServerEnds
        BY <2>4 DEF ServerEnds
    <2>. QED  BY <1>7, <2>1, <2>2, <2>3, <2>4 DEF Tunnel
<1>8. ASSUME NEW h \in Answers, Refuse(h) PROVE UpMoves /\ DownMoves
    BY <1>8 DEF Refuse, Gone
<1>9. CASE UNCHANGED upgradeVars
    BY <1>9 DEF upgradeVars
<1>. QED  BY <1>1, <1>2, <1>3, <1>4, <1>5, <1>6, <1>7, <1>8, <1>9 DEF UpgradeNext, Over

LEMMA WritersEnd ==
    ASSUME UpgradeInv, UpgradeInv', [UpgradeNext]_upgradeVars
    PROVE  /\ \/ Ending(closing, up)' = Ending(closing, up)
              \/ Ending(closing, up) = "open" /\ Ending(closing, up)' \in {"closed", "dead"}
           /\ \/ Ending(ending, from)' = Ending(ending, from)
              \/ Ending(ending, from) = "open" /\ Ending(ending, from)' \in {"closed", "dead"}
<1>1. UpMoves /\ DownMoves
    BY WritersMove
<1>2. /\ closing \in {"open", "closed", "dead"} /\ closing' \in {"open", "closed", "dead"}
      /\ ending \in {"open", "closed", "dead"} /\ ending' \in {"open", "closed", "dead"}
    BY DEF UpgradeInv, UpgradeType
<1>3. /\ Ending(closing, up) = EndOf(closing, up, proxy)
      /\ Ending(closing, up)' = EndOf(closing', up', proxy')
      /\ Ending(ending, from) = EndOf(ending, from, proxy)
      /\ Ending(ending, from)' = EndOf(ending', from', proxy')
    BY Zenon DEF Ending, EndOf
<1>4. \/ EndOf(closing', up', proxy') = EndOf(closing, up, proxy)
      \/ EndOf(closing, up, proxy) = "open" /\ EndOf(closing', up', proxy') \in {"closed", "dead"}
    BY <1>1, <1>2, EndsOnce DEF UpMoves
<1>5. \/ EndOf(ending', from', proxy') = EndOf(ending, from, proxy)
      \/ EndOf(ending, from, proxy) = "open" /\ EndOf(ending', from', proxy') \in {"closed", "dead"}
    BY <1>1, <1>2, EndsOnce DEF DownMoves
<1>. QED  BY <1>3, <1>4, <1>5
-----------------------------------------------------------------------------
(* Towards the server the connection is a stream of bytes.                 *)

LEMMA WriteIsAccept ==
    ASSUME UpgradeInv, UpgradeInv', NEW want \in 1..MaxSent, NEW k \in 1..PipeCap, PollWrite(want, k)
    PROVE  [Up!Next]_(Up!vars)
<1>. DEFINE left == SubSeq(Request, state.pos + 1, Len(Request))
<1>1. /\ closing = "open" /\ proxy # "gone" /\ closing' = closing /\ proxy' = proxy
      /\ written' = written + (IF k > Len(left) THEN k - Len(left) ELSE 0)
      /\ taken' = taken /\ taking' = taking
    BY Zenon DEF PollWrite, serverVars
<1>2. Len(left) \in Nat
    <2>1. Request \in Headers
        BY DEF Headers
    <2>2. PICK r : r = Request
        OBVIOUS
    <2>3. state.pos \in 0..Len(r) /\ r \in Seq(Int)
        BY <2>1, <2>2, HeadersAre DEF Header, UpgradeInv, UpgradeType
    <2>4. Len(After(r, state.pos)) = Len(r) - state.pos
        BY <2>3, CutIs
    <2>5. Len(left) = Len(r) - state.pos
        BY <2>2, <2>4, Zenon DEF After
    <2>. QED  BY <2>3, <2>5
<1>. HIDE DEF left
<1>3. Ending(closing, up) = "open" /\ Ending(closing, up)' = "open"
    BY <1>1 DEF Ending
<1>4. written \in Nat /\ written' \in 0..MaxSent /\ MaxSent \in Nat /\ k \in Nat
    BY UpgradeAssumption DEF UpgradeInv, UpgradeType
<1>5. CASE k > Len(left)
    <2>. DEFINE n == k - Len(left)
    <2>1. written' = written + n
        BY <1>1, <1>5
    <2>2. n \in Nat /\ n > 0
        BY <1>2, <1>4, <1>5
    <2>. HIDE DEF n
    <2>3. n \in 1..MaxSent /\ written + n <= MaxSent
        BY <1>4, <2>1, <2>2
    <2>4. Up!Accept(n)
        BY <1>1, <1>3, <2>1, <2>2, <2>3 DEF Up!Accept
    <2>. QED  BY <2>3, <2>4 DEF Up!Next
<1>6. CASE ~(k > Len(left))
    <2>1. written' = written
        BY <1>1, <1>4, <1>6
    <2>. QED  BY <1>1, <1>3, <2>1 DEF Up!vars
<1>. QED  BY <1>5, <1>6

LEMMA TakeIsDeliver ==
    ASSUME UpgradeInv, NEW n \in 1..MaxSent, Take(n)
    PROVE  Up!Deliver(n)
<1>1. /\ server.at = "tunnel" /\ taking = "reading" /\ n \in 1..Len(to)
      /\ taken' = Joined(taken, Until(to, n))
      /\ UNCHANGED <<clientVars, up, proxy, taking>>
    BY Zenon DEF Take, Joined, Until
<1>2. Asked
    BY <1>1 DEF UpgradeInv, UpHeld, Unasked
<1>3. PICK x \in 0..written : Served(fronted.request, x)
    BY <1>2 DEF Asked
<1>4. PICK t \in 0..x : taken = Piece(<<>>, 0, t) /\ to = Piece(<<>>, t, x)
    BY <1>1, <1>3 DEF Served
<1>5. /\ x \in Nat /\ t \in Nat /\ t <= x /\ 0 <= t /\ 0 \in Nat /\ t - 0 = t
      /\ x <= written /\ written \in Nat
    BY <1>3, <1>4 DEF UpgradeInv, UpgradeType
<1>6. Len(to) = x - t /\ Len(taken) = t
    BY <1>4, <1>5, BytesAre
<1>7. n \in 0..(x - t) /\ n \in Nat /\ n > 0 /\ t + n <= written
    BY <1>1, <1>5, <1>6
<1>8. Until(to, n) = Numbered(t, n)
    <2>1. <<>> \in Seq(Int)
        OBVIOUS
    <2>2. Until(to, n) = Piece(<<>>, t, t + n)
        BY <1>4, <1>5, <1>7, <2>1, PieceCut
    <2>. QED  BY <1>5, <1>7, <2>2, NumberedIs
<1>9. taken' = taken \o [i \in 1..n |-> Len(taken) + i]
    BY <1>1, <1>6, <1>8, Zenon DEF Joined, Numbered
<1>10. closing' = closing /\ up' = up /\ proxy' = proxy /\ written' = written /\ taking' = taking
    BY <1>1 DEF clientVars
<1>11. Ending(closing, up)' = Ending(closing, up)
    BY <1>10 DEF Ending
<1>12. n > 0 /\ Len(taken) + n <= written
    BY <1>6, <1>7
<1>. QED  BY <1>1, <1>9, <1>10, <1>11, <1>12, Zenon DEF Up!Deliver

LEMMA TakeEofIsEnd ==
    ASSUME UpgradeInv, TakeEof
    PROVE  Up!End
<1>1. /\ server.at = "tunnel" /\ taking = "reading" /\ to = <<>> /\ NoMore /\ taking' = "eof"
      /\ closing' = closing /\ up' = up /\ proxy' = proxy /\ written' = written /\ taken' = taken
    BY DEF TakeEof, clientVars
<1>2. Asked
    BY <1>1 DEF UpgradeInv, UpHeld, Unasked
<1>3. PICK x \in 0..written : up = Piece(<<>>, x, written) /\ Served(fronted.request, x)
    BY <1>2 DEF Asked
<1>4. PICK t \in 0..x : taken = Piece(<<>>, 0, t) /\ to = Piece(<<>>, t, x)
    BY <1>1, <1>3 DEF Served
<1>5. /\ x \in Nat /\ t \in Nat /\ t <= x /\ 0 <= t /\ 0 \in Nat /\ t - 0 = t
      /\ x <= written /\ written \in Nat
    BY <1>3, <1>4 DEF UpgradeInv, UpgradeType
<1>6. <<>> \in Seq(Int)
    OBVIOUS
<1>7. t = x /\ Len(taken) = t
    <2>1. t = x
        <3>1. Piece(<<>>, t, x) = <<>>
            BY <1>1, <1>4
        <3>. QED  BY <1>5, <1>6, <3>1, EmptyPiece
    <2>. QED  BY <1>4, <1>5, <2>1, BytesAre
<1>8. Ending(closing, up)' = Ending(closing, up)
    BY <1>1 DEF Ending
<1>9. CASE closing = "closed" /\ up = <<>>
    <2>1. x = written
        <3>1. Piece(<<>>, x, written) = <<>>
            BY <1>3, <1>9
        <3>. QED  BY <1>5, <1>6, <3>1, EmptyPiece
    <2>2. Ending(closing, up) = "closed"
        BY <1>9 DEF Ending
    <2>. QED  BY <1>1, <1>7, <1>8, <2>1, <2>2 DEF Up!End
<1>10. CASE ~(closing = "closed" /\ up = <<>>)
    <2>1. Ending(closing, up) = "dead"
        BY <1>1, <1>10 DEF Ending, NoMore, UpgradeInv, UpgradeType
    <2>. QED  BY <1>1, <1>8, <2>1 DEF Up!End
<1>. QED  BY <1>9, <1>10

LEMMA UpElse ==
    ASSUME UpgradeInv, UpgradeInv', [UpgradeNext]_upgradeVars, UNCHANGED <<written, taken, taking>>
    PROVE  [Up!Next]_(Up!vars)
<1>1. \/ Ending(closing, up)' = Ending(closing, up)
      \/ Ending(closing, up) = "open" /\ Ending(closing, up)' \in {"closed", "dead"}
    BY WritersEnd
<1>2. CASE Ending(closing, up)' = Ending(closing, up)
    BY <1>2 DEF Up!vars
<1>3. CASE Ending(closing, up) = "open" /\ Ending(closing, up)' = "closed"
    BY <1>3 DEF Up!Next, Up!Close
<1>4. CASE Ending(closing, up) = "open" /\ Ending(closing, up)' = "dead"
    BY <1>4 DEF Up!Next, Up!Die
<1>. QED  BY <1>1, <1>2, <1>3, <1>4

LEMMA UpStep == UpgradeInv /\ UpgradeInv' /\ [UpgradeNext]_upgradeVars => [Up!Next]_(Up!vars)
<1>. SUFFICES ASSUME UpgradeInv, UpgradeInv', [UpgradeNext]_upgradeVars
              PROVE  [Up!Next]_(Up!vars)
    OBVIOUS
<1>1. CASE Write
    BY <1>1, WriteIsAccept DEF Write
<1>2. CASE Tunnel
    <2>1. ASSUME NEW n \in 1..MaxSent, Take(n) PROVE [Up!Next]_(Up!vars)
        BY <2>1, TakeIsDeliver DEF Up!Next, Up!Read
    <2>2. CASE TakeEof
        BY <2>2, TakeEofIsEnd DEF Up!Next, Up!Read
    <2>3. CASE Put \/ ServerEnds
        <3>1. UNCHANGED <<written, taken, taking>>
            BY <2>3 DEF Put, ServerEnds, clientVars
        <3>. QED  BY <3>1, UpElse
    <2>. QED  BY <1>2, <2>1, <2>2, <2>3 DEF Tunnel
<1>3. CASE PollShutdown \/ PollReads \/ Pass \/ Disconnect \/ Serve \/ Over
           \/ (\E h \in Answers : Refuse(h)) \/ UNCHANGED upgradeVars
    <2>1. UNCHANGED <<written, taken, taking>>
        BY <1>3 DEF PollShutdown, PollReads, ReadAnswer, PollEof, PollRead, Pass, Forward, PassAnswer,
           PassUp, PassDown, Disconnect, Serve, ReadRequest, RequestEof, Reply, Over, Refuse,
           upgradeVars, clientVars, serverVars
    <2>. QED  BY <2>1, UpElse
<1>. QED  BY <1>1, <1>2, <1>3 DEF UpgradeNext

LEMMA UpStart == UpgradeInit => Up!Init
    BY DEF UpgradeInit, Up!Init, Ending

(* upgrade_stream.rs:103-136, server.rs:353-393: what the client's          *)
(* caller writes reaches the server's tunnel once, in order and from the   *)
(* first byte behind the header, although the client writes it before it   *)
(* has an answer; and the tunnel's end comes behind all of it.             *)
THEOREM UpImplements == UpgradeSpec => UpIsByteStream
<1>. QED  BY UpStart, UpStep, UpgradeInductive, PTL DEF UpgradeSpec, UpIsByteStream, Up!Spec
-----------------------------------------------------------------------------
(* Towards the client too. *)
Given == IF Page \in ToSet(given) THEN <<>> ELSE given

LEMMA ToSetIs ==
    ASSUME NEW s \in Seq(Int), NEW x
    PROVE  x \in ToSet(s) <=> \E i \in 1..Len(s) : s[i] = x
    BY DEF ToSet

(* Of the tunnel the client is given bytes, and no error page.             *)
LEMMA GivenBytes ==
    ASSUME NEW s, NEW n \in Nat, s = Piece(<<>>, 0, n)
    PROVE  Page \notin ToSet(s)
<1>1. 0 \in Nat /\ 0 <= n /\ n - 0 = n
    OBVIOUS
<1>2. s \in Seq(Int) /\ Len(s) = n /\ \A i \in 1..n : s[i] = 0 + i
    BY <1>1, BytesAre
<1>3. \A i \in 1..n : s[i] # Page
    BY <1>2 DEF Page
<1>. QED  BY <1>2, <1>3, ToSetIs

LEMMA PageGiven == Page \in ToSet(<<Page>>) /\ Page \notin ToSet(<<>>)
<1>1. PICK p : p = <<Page>>
    OBVIOUS
<1>2. p \in Seq(Int) /\ Len(p) = 1 /\ p[1] = Page
    BY <1>1 DEF Page
<1>3. Page \in ToSet(p)
    BY <1>2, ToSetIs
<1>4. Page \notin ToSet(<<>>)
    BY DEF ToSet
<1>. QED  BY <1>1, <1>3, <1>4, Zenon

LEMMA PutIsAccept ==
    ASSUME UpgradeInv, Put
    PROVE  Down!Accept(1) /\ 1 \in 1..MaxSent
<1>1. /\ ending = "open" /\ proxy # "gone" /\ sent < MaxSent /\ sent' = sent + 1
      /\ ending' = ending /\ proxy' = proxy /\ given' = given /\ reading' = reading
    BY DEF Put, clientVars
<1>2. Ending(ending, from) = "open" /\ Ending(ending, from)' = "open"
    BY <1>1 DEF Ending
<1>3. sent \in Nat /\ MaxSent \in Nat
    BY UpgradeAssumption DEF UpgradeInv, UpgradeType
<1>4. sent + 1 <= MaxSent /\ 1 \in 1..MaxSent
    BY <1>1, <1>3
<1>. QED  BY <1>1, <1>2, <1>4 DEF Down!Accept

LEMMA ReadIsDeliver ==
    ASSUME UpgradeInv, NEW n \in 1..MaxSent, PollRead(n)
    PROVE  Down!Deliver(n) \/ UNCHANGED Down!vars
<1>1. /\ state.at = "up" /\ reading = "reading" /\ n \in 1..Len(down)
      /\ given' = Joined(given, Until(down, n))
      /\ ending' = ending /\ from' = from /\ proxy' = proxy /\ sent' = sent /\ reading' = reading
    BY Zenon DEF PollRead, Joined, Until, serverVars
<1>2. Ending(ending, from)' = Ending(ending, from)
    BY <1>1 DEF Ending
<1>3. CASE fronted.answer = <<>>
    <2>1. PageRead
        BY <1>1, <1>3 DEF UpgradeInv, DownHeld, Unanswered, Silent, PageSent, InAnswer
    <2>2. given = <<>> /\ down = <<Page>>
        <3>1. down # <<>>
            BY <1>1
        <3>. QED  BY <2>1, <3>1 DEF PageRead
    <2>3. given' = <<Page>>
        <3>1. PICK p : p = <<Page>>
            OBVIOUS
        <3>2. p \in Seq(Int) /\ Len(p) = 1 /\ 1 \in 0..Len(p)
            BY <3>1 DEF Page
        <3>3. n = 1
            BY <1>1, <2>2, <3>1, <3>2
        <3>4. /\ Until(p, 1) \in Seq(Int) /\ Len(Until(p, 1)) = 1
              /\ \A i \in 1..1 : Until(p, 1)[i] = p[i]
            BY <3>2, CutIs
        <3>5. Until(p, 1) = p
            BY <3>2, <3>4, SameSeq
        <3>6. Joined(<<>>, p) = p
            BY <3>2, ConcatEmptySeq, Zenon DEF Joined
        <3>. QED  BY <1>1, <2>2, <3>1, <3>3, <3>5, <3>6, Zenon
    <2>4. Given = <<>> /\ Given' = <<>>
        BY <2>2, <2>3, PageGiven, Zenon DEF Given
    <2>. QED  BY <1>1, <1>2, <2>4, Zenon DEF Down!vars, Given
<1>4. CASE fronted.answer # <<>>
    <2>1. PICK y \in 0..sent : AnswerSent(fronted.answer, y)
        BY <1>4 DEF UpgradeInv, DownHeld, Answered
    <2>2. Passed(y)
        BY <1>1, <2>1 DEF AnswerSent, InAnswer
    <2>3. PICK g \in 0..y : given = Piece(<<>>, 0, g) /\ down = Piece(<<>>, g, y)
        BY <2>2 DEF Passed
    <2>4. /\ y \in Nat /\ g \in Nat /\ g <= y /\ 0 <= g /\ 0 \in Nat /\ g - 0 = g
          /\ y <= sent /\ sent \in Nat
        BY <2>1, <2>3 DEF UpgradeInv, UpgradeType
    <2>5. Len(down) = y - g /\ Len(given) = g
        BY <2>3, <2>4, BytesAre
    <2>6. /\ n \in 0..(y - g) /\ n \in Nat /\ n > 0 /\ g + n <= sent /\ g + n \in Nat
          /\ g <= g + n
        BY <1>1, <2>4, <2>5
    <2>7. Until(down, n) = Piece(<<>>, g, g + n)
        <3>1. <<>> \in Seq(Int)
            OBVIOUS
        <3>. QED  BY <2>3, <2>4, <2>6, <3>1, PieceCut
    <2>8. Until(down, n) = Numbered(g, n)
        BY <2>4, <2>6, <2>7, NumberedIs
    <2>9. given' = given \o [i \in 1..n |-> Len(given) + i]
        BY <1>1, <2>5, <2>8, Zenon DEF Joined, Numbered
    <2>10. given' = Piece(<<>>, 0, g + n)
        BY <1>1, <2>3, <2>4, <2>6, <2>7, BytesJoin
    <2>11. Page \notin ToSet(given) /\ Page \notin ToSet(given')
        BY <2>3, <2>4, <2>6, <2>10, GivenBytes
    <2>12. Given = given /\ Given' = given'
        BY <2>11, Zenon DEF Given
    <2>13. n > 0 /\ Len(given) + n <= sent
        BY <2>5, <2>6
    <2>14. /\ Len(Given) + n <= sent /\ Given' = Given \o [i \in 1..n |-> Len(Given) + i]
        BY <2>9, <2>12, <2>13, Zenon
    <2>15. /\ (IF reading = "short" THEN "reading" ELSE reading) = "reading"
           /\ (IF reading' = "short" THEN "reading" ELSE reading')
                = (IF reading = "short" THEN "reading" ELSE reading)
        BY <1>1
    <2>. QED  BY <1>1, <1>2, <2>13, <2>14, <2>15, Zenon DEF Down!Deliver, Given
<1>. QED  BY <1>3, <1>4

LEMMA PollEofIsEnd ==
    ASSUME UpgradeInv, PollEof
    PROVE  Down!End \/ UNCHANGED Down!vars
<1>1. /\ reading = "reading" /\ down = <<>> /\ reading' \in {"short", "eof"}
      /\ proxy = "gone" \/ (proxy = "tunnel" /\ from = <<>> /\ ending # "open")
      /\ ending' = ending /\ from' = from /\ proxy' = proxy /\ sent' = sent /\ given' = given
    BY DEF PollEof, FailClient, serverVars
<1>2. Ending(ending, from)' = Ending(ending, from)
    BY <1>1 DEF Ending
<1>3. CASE reading' = "short"
    BY <1>1, <1>2, <1>3 DEF Down!vars
<1>4. CASE reading' = "eof" /\ ending = "closed" /\ from = <<>>
    <2>1. server.at = "tunnel"
        BY <1>4 DEF UpgradeInv, Answering
    <2>2. sent \in Nat /\ state.size \in Nat
        BY DEF UpgradeInv, UpgradeType
    <2>3. fronted.answer # <<>>
        <3>. SUFFICES ASSUME fronted.answer = <<>> PROVE FALSE
            OBVIOUS
        <3>1. Piece(Answer, 0, Len(Answer) + sent) = <<>>
            BY <1>4, <2>1 DEF UpgradeInv, DownHeld, Unanswered
        <3>2. Answer \in Seq(Int) /\ Len(Answer) = 5
            BY AnswerIs DEF Header
        <3>3. 0 \in Nat /\ Len(Answer) + sent \in Nat /\ 0 <= Len(Answer) + sent /\ 0 # Len(Answer) + sent
            BY <2>2, <3>2
        <3>. QED  BY <3>1, <3>2, <3>3, EmptyPiece
    <2>4. PICK h : h = fronted.answer
        OBVIOUS
    <2>5. Header(h) /\ h \in Seq(Int) /\ Len(h) \in Nat
        <3>1. h \in Headers
            BY <2>3, <2>4 DEF UpgradeInv, UpgradeType, Headers
        <3>. QED  BY <3>1, HeadersAre DEF Header
    <2>6. PICK y \in 0..sent : AnswerSent(h, y)
        BY <2>3, <2>4 DEF UpgradeInv, DownHeld, Answered
    <2>7. y \in Nat /\ y <= sent /\ <<>> \in Seq(Int) /\ 0 \in Nat
        BY <2>2, <2>6
    <2>8. y = sent
        <3>1. Piece(<<>>, y, sent) = <<>>
            BY <1>4, <2>6 DEF AnswerSent
        <3>. QED  BY <2>2, <2>7, <3>1, EmptyPiece
    <2>9. ~InAnswer(h, h, y)
        <3>. SUFFICES ASSUME InAnswer(h, h, y) PROVE FALSE
            OBVIOUS
        <3>1. state.size < Len(h) /\ Piece(h, state.size, Len(h) + y) = <<>>
            BY <1>1 DEF InAnswer
        <3>2. Len(h) + y \in Nat /\ state.size <= Len(h) + y /\ state.size # Len(h) + y
            BY <2>2, <2>5, <2>7, <3>1
        <3>. QED  BY <2>2, <2>5, <3>1, <3>2, EmptyPiece
    <2>10. PICK g \in 0..y : given = Piece(<<>>, 0, g) /\ down = Piece(<<>>, g, y)
        BY <1>1, <2>6, <2>9 DEF AnswerSent, Passed
    <2>11. g \in Nat /\ g <= y /\ 0 <= g /\ g - 0 = g
        BY <2>7, <2>10
    <2>12. g = y
        <3>1. Piece(<<>>, g, y) = <<>>
            BY <1>1, <2>10
        <3>. QED  BY <2>7, <2>11, <3>1, EmptyPiece
    <2>13. Len(given) = g /\ Page \notin ToSet(given)
        BY <2>7, <2>10, <2>11, BytesAre, GivenBytes
    <2>14. Given = given /\ Given' = Given
        BY <1>1, <2>13, Zenon DEF Given
    <2>15. Len(Given) = sent
        BY <2>8, <2>12, <2>13, <2>14, Zenon
    <2>16. Ending(ending, from) = "closed"
        BY <1>4 DEF Ending
    <2>17. /\ (IF reading = "short" THEN "reading" ELSE reading) = "reading"
           /\ (IF reading' = "short" THEN "reading" ELSE reading') = "eof"
        BY <1>1, <1>4
    <2>. QED  BY <1>1, <1>2, <2>14, <2>15, <2>16, <2>17, Zenon DEF Down!End, Given
<1>5. CASE reading' = "eof" /\ ~(ending = "closed" /\ from = <<>>)
    <2>1. Ending(ending, from) = "dead"
        BY <1>1, <1>5 DEF Ending, UpgradeInv, UpgradeType
    <2>2. Given' = Given
        BY <1>1, Zenon DEF Given
    <2>3. /\ (IF reading = "short" THEN "reading" ELSE reading) = "reading"
          /\ (IF reading' = "short" THEN "reading" ELSE reading') \in {"eof", "short"}
        BY <1>1, <1>5
    <2>. QED  BY <1>1, <1>2, <2>1, <2>2, <2>3, Zenon DEF Down!End, Given
<1>. QED  BY <1>1, <1>3, <1>4, <1>5

LEMMA DownElse ==
    ASSUME UpgradeInv, UpgradeInv', [UpgradeNext]_upgradeVars, UNCHANGED <<sent, given>>,
           reading' = reading \/ (reading = "reading" /\ reading' = "short")
    PROVE  [Down!Next]_(Down!vars)
<1>. DEFINE Reader_ == IF reading = "short" THEN "reading" ELSE reading
<1>1. \/ Ending(ending, from)' = Ending(ending, from)
      \/ Ending(ending, from) = "open" /\ Ending(ending, from)' \in {"closed", "dead"}
    BY WritersEnd
<1>2. Given' = Given /\ Reader_' = Reader_ /\ sent' = sent
    BY DEF Given
<1>3. CASE Ending(ending, from)' = Ending(ending, from)
    BY <1>2, <1>3, Zenon DEF Down!vars, Given
<1>4. CASE Ending(ending, from) = "open" /\ Ending(ending, from)' = "closed"
    BY <1>2, <1>4, Zenon DEF Down!Next, Down!Close, Given
<1>5. CASE Ending(ending, from) = "open" /\ Ending(ending, from)' = "dead"
    BY <1>2, <1>5, Zenon DEF Down!Next, Down!Die, Given
<1>. QED  BY <1>1, <1>3, <1>4, <1>5

LEMMA DownStep == UpgradeInv /\ UpgradeInv' /\ [UpgradeNext]_upgradeVars => [Down!Next]_(Down!vars)
<1>. SUFFICES ASSUME UpgradeInv, UpgradeInv', [UpgradeNext]_upgradeVars
              PROVE  [Down!Next]_(Down!vars)
    OBVIOUS
<1>1. CASE Tunnel
    <2>1. CASE Put
        BY <2>1, PutIsAccept DEF Down!Next
    <2>2. CASE (\E n \in 1..MaxSent : Take(n)) \/ TakeEof \/ ServerEnds
        <3>1. UNCHANGED <<sent, given, reading>>
            BY <2>2 DEF Take, TakeEof, ServerEnds, clientVars
        <3>. QED  BY <3>1, DownElse
    <2>. QED  BY <1>1, <2>1, <2>2 DEF Tunnel
<1>2. CASE PollReads
    <2>1. ASSUME NEW n \in 1..MaxSent, PollRead(n) PROVE [Down!Next]_(Down!vars)
        BY <2>1, ReadIsDeliver DEF Down!Next, Down!Read
    <2>2. CASE PollEof
        BY <2>2, PollEofIsEnd DEF Down!Next, Down!Read
    <2>3. CASE ReadAnswer
        <3>1. UNCHANGED <<sent, given>> /\ (reading' = reading \/ (reading = "reading" /\ reading' = "short"))
            BY <2>3 DEF ReadAnswer, FailClient, serverVars
        <3>. QED  BY <3>1, DownElse
    <2>. QED  BY <1>2, <2>1, <2>2, <2>3 DEF PollReads
<1>3. CASE Write \/ PollShutdown \/ Pass \/ Disconnect \/ Serve \/ Over
           \/ (\E h \in Answers : Refuse(h)) \/ UNCHANGED upgradeVars
    <2>1. UNCHANGED <<sent, given, reading>>
        BY <1>3 DEF Write, PollWrite, PollShutdown, Pass, Forward, PassAnswer, PassUp, PassDown,
           Disconnect, Serve, ReadRequest, RequestEof, Reply, Over, Refuse, upgradeVars, clientVars,
           serverVars
    <2>. QED  BY <2>1, DownElse
<1>. QED  BY <1>1, <1>2, <1>3 DEF UpgradeNext

LEMMA DownStart == UpgradeInit => Down!Init
<1>. SUFFICES ASSUME UpgradeInit PROVE Down!Init
    OBVIOUS
<1>1. Given = <<>>
    BY PageGiven, Zenon DEF Given, UpgradeInit
<1>. QED  BY <1>1, Zenon DEF UpgradeInit, Down!Init, Ending, Given

(* upgrade_stream.rs:53-99: what the server's tunnel writes reaches the   *)
(* client's caller once, in order and from the first byte behind the       *)
(* answer, wherever the answer is cut; and its end comes behind all of it. *)
THEOREM DownImplements == UpgradeSpec => DownIsByteStream
<1>. QED  BY DownStart, DownStep, UpgradeInductive, PTL DEF UpgradeSpec, DownIsByteStream, Down!Spec
===============================================================================
