-------------------------------- MODULE Tunnel --------------------------------
(***************************************************************************)
(* A tunnel on the client (crates/client/src/protocol.rs, the end of       *)
(* `process_tunnel`): tokio's copy_bidirectional between the application's *)
(* connection and the `EncryptedStream` to the server, seen through the    *)
(* `MonitorStream` that keeps the server's statistics.                     *)
(*                                                                         *)
(* Direction "up" reads the application and writes the server, "down" the  *)
(* reverse.  Each end of a direction is a reliable stream of bytes, as     *)
(* module EncryptedStream shows of the encrypted one, so bytes are counted,*)
(* not named.  What that stream adds is that poll_write may accept bytes   *)
(* and keep them until it is flushed.                                      *)
(*                                                                         *)
(* The application is one of three: a program that connected to the proxy; *)
(* the same with a direct connection, for which no server is asked         *)
(* (`direct_connection`); or the `TtfbStream` of get_ttfb, which asks for  *)
(* one page and closes when a first byte comes back.                       *)
(***************************************************************************)
EXTENDS Naturals

CONSTANTS
    BufLen,         \* the copy buffer of a direction
    MaxBytes        \* bound: bytes an end sends

ASSUME TunnelAssumption == BufLen \in Nat \ {0} /\ MaxBytes \in Nat \ {0}

Dirs == {"up", "down"}

Clients == {"program", "direct", "probe"}

VARIABLES
    client,         \* what the application is, fixed by Init
    source,         \* per direction: bytes its origin sent
    closed,         \* per direction: its origin sent its last byte
    got,            \* per direction: bytes read
    copy,           \* per direction: the CopyBuffer and the TransferState
    held,           \* bytes the server's stream accepted and did not send on
    out,            \* per direction: bytes that reached the destination
    shut,           \* per direction: the destination was told that no more come
    woken,          \* the probe's task was woken for its end of stream
    broken,         \* ends whose connection was reset: "app", "server"
    tunnel,         \* "running", "ended", and "counted" when process_tunnel returns
    failed,         \* history: copy_bidirectional returned an error
    success,        \* MonitorStream::success
    rx_total, tx_total, succes_count, err_count     \* this tunnel's share of ServerState

stats == <<success, rx_total, tx_total, succes_count, err_count>>
ends == <<client, source, closed, woken, broken>>
vars == <<ends, got, copy, held, out, shut, tunnel, failed, stats>>
-----------------------------------------------------------------------------
Init ==
    /\ client \in Clients /\ woken = (client # "probe")
    /\ source = [d \in Dirs |-> IF d = "up" /\ client = "probe" THEN 1 ELSE 0]
    /\ closed = [d \in Dirs |-> FALSE]
    /\ got = [d \in Dirs |-> 0] /\ out = [d \in Dirs |-> 0]
    /\ copy = [d \in Dirs |-> [phase |-> "running", size |-> 0,
                               read_done |-> FALSE, need_flush |-> FALSE]]
    /\ held = 0 /\ shut = [d \in Dirs |-> FALSE] /\ broken = {}
    /\ tunnel = "running" /\ failed = FALSE
    /\ success = FALSE /\ rx_total = 0 /\ tx_total = 0 /\ succes_count = 0 /\ err_count = 0

(* The ends: each sends, closes its sending side, or breaks.  The probe has*)
(* its request from the start, closes by itself and does not break.        *)
Free(end) == end = "app" => client # "probe"
Reader(d) == IF d = "up" THEN "app" ELSE "server"
Writer(d) == IF d = "up" THEN "server" ELSE "app"
Produce(d) ==
    /\ Free(Reader(d)) /\ ~closed[d] /\ source[d] < MaxBytes
    /\ source' = [source EXCEPT ![d] = @ + 1]
    /\ UNCHANGED <<client, closed, woken, broken, got, copy, held, out, shut, tunnel, failed, stats>>

CloseSource(d) ==
    /\ Free(Reader(d)) /\ ~closed[d] /\ closed' = [closed EXCEPT ![d] = TRUE]
    /\ UNCHANGED <<client, source, woken, broken, got, copy, held, out, shut, tunnel, failed, stats>>

Break(end) ==
    /\ Free(end) /\ end \notin broken /\ broken' = broken \cup {end}
    /\ UNCHANGED <<client, source, closed, woken, got, copy, held, out, shut, tunnel, failed, stats>>
-----------------------------------------------------------------------------
(* MonitorStream, around the reads and writes of the server's stream; a    *)
(* direct connection has none.                                             *)

(* poll_read: `filled` is what is in the caller's buffer afterwards.       *)
CountReadSometimes(filled) ==         \* fault: a success is counted per read
    /\ success' = TRUE /\ succes_count' = succes_count + 1
    /\ rx_total' = rx_total + filled
    /\ UNCHANGED <<tx_total, err_count>>
CountRead(filled) ==
    /\ success' = TRUE
    /\ succes_count' = IF success THEN succes_count ELSE succes_count + 1
    /\ rx_total' = rx_total + filled
    /\ UNCHANGED <<tx_total, err_count>>

(* poll_write accepted n bytes. *)
CountOffered(n) ==                 \* fault: what was offered before is counted
    /\ tx_total' = tx_total + got["up"] - out["up"]
    /\ UNCHANGED <<success, succes_count, rx_total, err_count>>
CountWrite(n) ==
    /\ tx_total' = tx_total + n
    /\ UNCHANGED <<success, succes_count, rx_total, err_count>>
-----------------------------------------------------------------------------
(* copy_bidirectional, one direction.  It reads while its buffer has room  *)
(* (a write that is pending lets it top up the buffer), writes while the   *)
(* buffer is not empty, and flushes before it waits for its reader.        *)

Running(d) == tunnel = "running" /\ copy[d].phase = "running"
Readable(d) == source[d] - got[d]

Read(d, n) ==
    /\ Running(d) /\ ~copy[d].read_done /\ copy[d].size < BufLen
    /\ Reader(d) \notin broken
    /\ n <= Readable(d) /\ copy[d].size + n <= BufLen
    /\ n = 0 => closed[d] /\ Readable(d) = 0
    /\ got' = [got EXCEPT ![d] = @ + n]
    /\ copy' = [copy EXCEPT ![d].size = @ + n, ![d].read_done = (n = 0)]
    /\ IF d = "down" /\ client # "direct" THEN CountRead(copy[d].size + n) ELSE UNCHANGED stats
    /\ UNCHANGED <<ends, held, out, shut, tunnel, failed>>

(* The server's stream takes the whole buffer, once all it held before is  *)
(* sent, and may hold any part of the new frame.                           *)
WriteUp(keep) ==
    /\ client # "direct" /\ Running("up") /\ copy["up"].size > 0 /\ keep \in 0..copy["up"].size
    /\ "server" \notin broken
    /\ out' = [out EXCEPT !["up"] = @ + held + copy["up"].size - keep]
    /\ held' = keep
    /\ copy' = [copy EXCEPT !["up"].size = 0, !["up"].need_flush = TRUE]
    /\ CountWrite(copy["up"].size)
    /\ UNCHANGED <<ends, got, shut, tunnel, failed>>

(* A TCP stream takes any number of the bytes. *)
WriteTcp(d, n) ==
    /\ client = "direct" \/ (client = "program" /\ d = "down")
    /\ Running(d) /\ n \in 1..copy[d].size /\ Writer(d) \notin broken
    /\ out' = [out EXCEPT ![d] = @ + n]
    /\ copy' = [copy EXCEPT ![d].size = @ - n, ![d].need_flush = TRUE]
    /\ UNCHANGED <<ends, got, held, shut, tunnel, failed, stats>>

(* The probe takes them all.  The first of them end its request's side, of *)
(* which its task must be told: that direction was polled before.          *)
WriteProbeSilent ==                         \* fault: the waker is not called
    /\ client = "probe" /\ Running("down") /\ copy["down"].size > 0
    /\ got["up"] = source["up"] /\ closed' = [closed EXCEPT !["up"] = TRUE]
    /\ out' = [out EXCEPT !["down"] = @ + copy["down"].size]
    /\ copy' = [copy EXCEPT !["down"].size = 0, !["down"].need_flush = TRUE]
    /\ UNCHANGED <<client, source, woken, broken, got, held, shut, tunnel, failed, stats>>
WriteProbe ==
    /\ client = "probe" /\ Running("down") /\ copy["down"].size > 0
    /\ got["up"] = source["up"] /\ closed' = [closed EXCEPT !["up"] = TRUE]
    /\ woken' = TRUE
    /\ out' = [out EXCEPT !["down"] = @ + copy["down"].size]
    /\ copy' = [copy EXCEPT !["down"].size = 0, !["down"].need_flush = TRUE]
    /\ UNCHANGED <<client, source, broken, got, held, shut, tunnel, failed, stats>>

(* poll_flush sends n of the bytes held: it is Ready when that is all.     *)
Unflushed(d) == IF d = "up" THEN held ELSE 0
Sends(d, n) ==
    /\ Writer(d) \notin broken /\ n \in 0..Unflushed(d)
    /\ held' = held - n /\ out' = [out EXCEPT ![d] = @ + n]
Flushed(d, n) == n = Unflushed(d)

FlushIdleNever(d, n) ==                       \* fault: waits without a flush
    FALSE /\ n = 0 /\ UNCHANGED vars
FlushIdle(d, n) ==
    /\ Running(d) /\ copy[d].size = 0 /\ ~copy[d].read_done /\ copy[d].need_flush
    /\ Readable(d) = 0 /\ ~closed[d] /\ Reader(d) \notin broken
    /\ Sends(d, n)
    /\ copy' = [copy EXCEPT ![d].need_flush = ~Flushed(d, n)]
    /\ UNCHANGED <<ends, got, shut, tunnel, failed, stats>>

FinishUnflushed(d, n) ==                   \* fault: ends at once on end of stream
    /\ Running(d) /\ copy[d].read_done
    /\ copy' = [copy EXCEPT ![d].phase = "shutting"]
    /\ UNCHANGED <<ends, got, held, out, shut, tunnel, failed, stats>>
FinishFlushed(d, n) ==        \* fault: ends only if there was something to flush
    /\ Running(d) /\ copy[d].read_done /\ copy[d].size = 0 /\ copy[d].need_flush
    /\ Sends(d, n)
    /\ copy' = [copy EXCEPT ![d].phase = IF Flushed(d, n) THEN "shutting" ELSE "running"]
    /\ UNCHANGED <<ends, got, shut, tunnel, failed, stats>>
Finish(d, n) ==
    /\ Running(d) /\ copy[d].read_done /\ copy[d].size = 0
    /\ Sends(d, n)
    /\ copy' = [copy EXCEPT ![d].phase = IF Flushed(d, n) THEN "shutting" ELSE "running"]
    /\ UNCHANGED <<ends, got, shut, tunnel, failed, stats>>

Shutdown(d) ==
    /\ tunnel = "running" /\ copy[d].phase = "shutting" /\ Writer(d) \notin broken
    /\ shut' = [shut EXCEPT ![d] = TRUE]
    /\ copy' = [copy EXCEPT ![d].phase = "done"]
    /\ UNCHANGED <<ends, got, held, out, tunnel, failed, stats>>

(* An error of either stream ends both directions. *)
Fail(d) ==
    /\ tunnel = "running"
    /\ \/ copy[d].phase = "running" /\ ~copy[d].read_done /\ Reader(d) \in broken
       \/ /\ Writer(d) \in broken
          /\ copy[d].size > 0 \/ copy[d].read_done \/ Unflushed(d) > 0
    /\ tunnel' = "ended" /\ failed' = TRUE
    /\ UNCHANGED <<ends, got, copy, held, out, shut, stats>>

End ==
    /\ tunnel = "running" /\ \A d \in Dirs : copy[d].phase = "done"
    /\ tunnel' = "ended"
    /\ UNCHANGED <<ends, got, copy, held, out, shut, failed, stats>>

(* process_tunnel counts a tunnel without success as an error, whether or  *)
(* not the copy failed, and drops the two streams.                         *)
CountEnd ==
    /\ tunnel = "ended" /\ tunnel' = "counted"
    /\ err_count' = IF success \/ client = "direct" THEN err_count ELSE err_count + 1
    /\ UNCHANGED <<ends, got, copy, held, out, shut, failed, success, rx_total, tx_total,
                   succes_count>>
-----------------------------------------------------------------------------
Transfer(d) ==
    \/ \E n \in 0..BufLen : Read(d, n)
    \/ d = "up" /\ \E keep \in 0..BufLen : WriteUp(keep)
    \/ \E n \in 1..BufLen : WriteTcp(d, n)
    \/ d = "down" /\ WriteProbe
    \/ \E n \in 0..BufLen : FlushIdle(d, n)
    \/ \E n \in 0..BufLen : Finish(d, n)
    \/ Shutdown(d)
    \/ Fail(d)
Ends == (\E d \in Dirs : Produce(d) \/ CloseSource(d)) \/ (\E e \in {"app", "server"} : Break(e))

(* A probe that no byte can reach any more waits for ever: get_ttfb has no *)
(* time limit.                                                             *)
Waits == client = "probe" /\ ~closed["up"] /\ (closed["down"] \/ "server" \in broken)
Done == (tunnel = "counted" \/ Waits) /\ UNCHANGED vars

Next == Ends \/ (\E d \in Dirs : Transfer(d)) \/ End \/ CountEnd \/ Done

(* The task is woken by whatever makes a direction able to go on, the probe*)
(* by its own waker, and a pending flush or write is one the transport will*)
(* take sooner or later.                                                   *)
Fairness ==
    /\ \A d \in Dirs :
          /\ WF_vars(\E n \in 1..BufLen : Read(d, n)) /\ WF_vars(woken /\ Read(d, 0))
          /\ WF_vars(FlushIdle(d, Unflushed(d))) /\ WF_vars(Finish(d, Unflushed(d)))
          /\ WF_vars(\E n \in 1..BufLen : WriteTcp(d, n))
          /\ WF_vars(Shutdown(d)) /\ WF_vars(Fail(d))
    /\ WF_vars(\E keep \in 0..BufLen : WriteUp(keep))
    /\ WF_vars(WriteProbe)
    /\ WF_vars(End) /\ WF_vars(CountEnd)

Spec == Init /\ [][Next]_vars
FairSpec == Spec /\ Fairness
-----------------------------------------------------------------------------
TypeOK ==
    /\ client \in Clients /\ woken \in BOOLEAN
    /\ source \in [Dirs -> 0..MaxBytes] /\ closed \in [Dirs -> BOOLEAN]
    /\ got \in [Dirs -> Nat] /\ out \in [Dirs -> Nat] /\ held \in Nat
    /\ copy \in [Dirs -> [phase : {"running", "shutting", "done"}, size : 0..BufLen,
                          read_done : BOOLEAN, need_flush : BOOLEAN]]
    /\ shut \in [Dirs -> BOOLEAN] /\ broken \subseteq {"app", "server"}
    /\ tunnel \in {"running", "ended", "counted"} /\ failed \in BOOLEAN
    /\ success \in BOOLEAN /\ rx_total \in Nat /\ tx_total \in Nat
    /\ succes_count \in Nat /\ err_count \in Nat

(* The other end is told that no more bytes come only after it got all of  *)
(* them, none still in the copy buffer or behind the encrypted stream; and *)
(* a copy that returned Ok told both, also when one side had closed long   *)
(* before the other.                                                       *)
EndsAfterAll ==
    /\ \A d \in Dirs : shut[d] => closed[d] /\ out[d] = source[d]
    /\ tunnel # "running" /\ ~failed => \A d \in Dirs : shut[d]

(* tx_total is what left or will leave for the server, no byte twice.      *)
TxExact == client # "direct" => tx_total = out["up"] + held

(* A tunnel that returned is a success or an error, once; a direct         *)
(* connection is neither.                                                  *)
CountedOnce ==
    /\ succes_count + err_count <= (IF client = "direct" THEN 0 ELSE 1)
    /\ tunnel = "counted" /\ client # "direct" => succes_count + err_count = 1

(* What one end sends reaches the other though the sender then waits for   *)
(* the answer: nothing stays in a buffer until more comes.                 *)
Reaches ==
    \A d \in Dirs, k \in 1..MaxBytes :
        (source[d] >= k) ~> (out[d] >= k \/ tunnel # "running")

(* When both ends have closed, the tunnel ends. *)
TunnelEnds == (\A d \in Dirs : closed[d]) ~> (tunnel = "counted")

(* Once a byte came back the probe ends its side, though nothing more may  *)
(* come to wake its task: the server is told, or the tunnel is over.  No   *)
(* such thing ends a probe whose target stays silent, or closes without a  *)
(* byte.                                                                   *)
ProbeEnds ==
    (client = "probe" /\ out["down"] > 0) ~> (shut["up"] \/ tunnel = "counted")

(* protocol.rs:27-28: a tunnel is an error when no data was returned from  *)
(* the server.                                                             *)
ZeroDataIsError == client # "direct" /\ tunnel = "counted" => (err_count = 1 <=> got["down"] = 0)
=============================================================================
