------------------------------ MODULE Handshake ------------------------------
(***************************************************************************)
(* One connection from a client to the server, until it carries a tunnel   *)
(* or is closed: the request `process_tunnel` or `get_server_protocol`     *)
(* sends (crates/client/src/protocol.rs) and what `start_tunnel` and       *)
(* `try_special_request` make of it (crates/cc-server/src/server.rs).      *)
(* Connections share nothing on the server, so one stands for all.         *)
(*                                                                         *)
(* A key is named by the interval of time it is derived from, a host by    *)
(* its length, a position in the client's byte stream by how many bytes    *)
(* precede it: the request comes first, bytes of the tunnel follow at once.*)
(***************************************************************************)
EXTENDS Integers

CONSTANTS
    MainLen,        \* main_header_len: nonce, salt, padding, host length, tag
    TagSize,        \* size of a tag
    MinHostLen,     \* MIN_HOST_LEN
    HostLenMod,     \* values of the field for the host's length (256: a u8)
    HostLens,       \* lengths of the hosts clients ask for
    PadStart,       \* header_padding.start
    PadEnd,         \* header_padding.end
    SpecialLen,     \* header_len of a special request, one tag more and no host length
    SpecialPads,    \* MIN_.. to MAX_GET_PROTOCOL_HEADER_PADDING
    ReplyHeaderLen, \* header of the answer to a special request
    ReplyLen,       \* the whole answer
    Delay,          \* max_connect_delay
    SpecialDelay,   \* GET_PROTOCOL_MAX_CONNECT_DELAY
    CooldownStart,  \* unauth_cooldown.start
    CooldownEnd,    \* unauth_cooldown.end
    Starts,         \* times a connection may begin at
    MaxTime,        \* bound: the clock stops here
    Skews,          \* how far the client's clock may be ahead
    MaxExtra        \* bound: tunnel bytes the client sends

ASSUME HandshakeAssumption ==
    /\ MainLen \in Nat \ {0} /\ TagSize \in Nat \ {0} /\ MinHostLen \in Nat
    /\ HostLenMod \in Nat \ {0} /\ HostLens \subseteq Nat
    /\ PadStart \in Nat /\ PadEnd \in Nat /\ PadStart < PadEnd
    /\ SpecialLen \in Nat \ {0} /\ SpecialLen <= MainLen + TagSize /\ SpecialPads \subseteq Nat
    /\ ReplyHeaderLen \in Nat \ {0} /\ ReplyLen \in Nat /\ ReplyHeaderLen < ReplyLen
    /\ Delay \in Nat \ {0} /\ SpecialDelay \in Nat \ {0}
    /\ CooldownStart \in Nat /\ CooldownEnd \in Nat /\ CooldownStart < CooldownEnd
    /\ Starts \subseteq Nat /\ MaxTime \in Nat /\ Skews \subseteq Int /\ MaxExtra \in Nat

VARIABLES
    now,            \* the server's clock, in milliseconds
    skew,           \* the client's clock minus the server's
    client,         \* where the client is
    request,        \* what it asks for
    stamp,          \* its clock when it derived the request's key
    sent,           \* bytes it wrote
    arrived,        \* of these, bytes that reached the server's socket
    gone,           \* the client closed its end
    server,         \* where start_tunnel is
    connect_time,   \* the server's clock at accept
    consumed,       \* bytes start_tunnel took from its socket
    drained,        \* its last read left room in the buffer
    whole,          \* history: the request had arrived when the first read returned
    why,            \* history: how the request was refused
    cool_until,     \* end of the timeout of terminate_slowly
    replied,        \* bytes of the answer the server wrote
    answered        \* of these, bytes that reached the client's socket

clientVars == <<skew, client, request, stamp, sent, gone, answered>>
serverVars == <<server, connect_time, consumed, drained, whole, why, cool_until, replied>>
vars == <<now, clientVars, arrived, serverVars>>
-----------------------------------------------------------------------------
Lesser(a, b) == IF a < b THEN a ELSE b

(* The host length as the request carries it, and as the server reads it:  *)
(* `as u8` keeps the low bits of the difference, negative or not.          *)
HostField(len) == (len - MinHostLen) % HostLenMod
HostLenRead(field) == field + MinHostLen

Requests ==
    [kind : {"tunnel"}, host : HostLens, padding : PadStart..(PadEnd - 1)]
        \cup [kind : {"protocol"}, host : {0}, padding : SpecialPads]
NoRequest == [kind |-> "none", host |-> 0, padding |-> 0]

RequestLen(r) ==
    IF r.kind = "tunnel" THEN MainLen + r.host + TagSize + r.padding
                         ELSE SpecialLen + r.padding

MinHeaderLen == MainLen + MinHostLen + TagSize + PadStart

(* The key of a request opens its header only if the two sides derived it  *)
(* from the same interval; a server tries its own and the one before.      *)
Interval(time, delay) == time \div delay
OpenedCurrentOnly(time, delay) ==                     \* fault: one interval
    Interval(stamp, delay) = Interval(time, delay)
OpenedThreeBack(time, delay) ==                    \* fault: three intervals
    Interval(stamp, delay) \in (Interval(time, delay) - 2)..Interval(time, delay)
Opened(time, delay) ==
    Interval(stamp, delay) \in {Interval(time, delay), Interval(time, delay) - 1}

Init ==
    /\ now \in Starts /\ skew \in Skews
    /\ client = "connected" /\ request = NoRequest /\ stamp = 0
    /\ sent = 0 /\ arrived = 0 /\ gone = FALSE
    /\ server = "backlog" /\ connect_time = 0 /\ consumed = 0
    /\ drained = FALSE /\ whole = FALSE /\ why = "none" /\ cool_until = 0
    /\ replied = 0 /\ answered = 0

Tick == now < MaxTime /\ now' = now + 1 /\ UNCHANGED <<clientVars, arrived, serverVars>>
-----------------------------------------------------------------------------
(* The client.  It derives the key some time before the request is written *)
(* and goes on to the tunnel without an answer.                            *)

Stamp(r) ==
    /\ client = "connected" /\ ~gone
    /\ request' = r /\ stamp' = now + skew /\ client' = "stamped"
    /\ UNCHANGED <<now, skew, sent, gone, answered, arrived, serverVars>>

Send ==
    /\ client = "stamped" /\ ~gone
    /\ sent' = RequestLen(request)
    /\ client' = IF request.kind = "tunnel" THEN "tunnel" ELSE "asked"
    /\ UNCHANGED <<now, skew, request, stamp, gone, answered, arrived, serverVars>>

SendMore ==
    /\ client = "tunnel" /\ ~gone /\ sent < RequestLen(request) + MaxExtra
    /\ sent' = sent + 1
    /\ UNCHANGED <<now, skew, client, request, stamp, gone, answered, arrived, serverVars>>

(* The client gives up or dies; what it wrote still arrives. *)
Leave ==
    /\ ~gone /\ client # "configured"
    /\ gone' = TRUE
    /\ UNCHANGED <<now, skew, client, request, stamp, sent, answered, arrived, serverVars>>

(* get_server_protocol: one read must return the whole header.             *)
ReadReplyHeader ==
    /\ client = "asked" /\ ~gone
    /\ \/ answered > 0
       \/ server = "closed" /\ answered = replied
    /\ client' = IF answered >= ReplyHeaderLen THEN "reading" ELSE "failed"
    /\ UNCHANGED <<now, skew, request, stamp, sent, gone, answered, arrived, serverVars>>

ReadReplyPatient ==                 \* fault: end of stream is not an error
    /\ client = "reading" /\ ~gone /\ answered = ReplyLen
    /\ client' = "configured"
    /\ UNCHANGED <<now, skew, request, stamp, sent, gone, answered, arrived, serverVars>>
ReadReply ==
    /\ client = "reading" /\ ~gone
    /\ \/ answered = ReplyLen /\ client' = "configured"
       \/ server = "closed" /\ answered = replied /\ answered < ReplyLen /\ client' = "failed"
    /\ UNCHANGED <<now, skew, request, stamp, sent, gone, answered, arrived, serverVars>>
-----------------------------------------------------------------------------
(* The network hands over bytes in order, in pieces of any size.           *)

Arrive(n) ==
    /\ n \in 1..(sent - arrived)
    /\ arrived' = arrived + n
    /\ UNCHANGED <<now, clientVars, serverVars>>

Answer(n) ==
    /\ n \in 1..(replied - answered)
    /\ answered' = answered + n
    /\ UNCHANGED <<now, skew, client, request, stamp, sent, gone, arrived, serverVars>>
-----------------------------------------------------------------------------
(* The server.                                                             *)

Available == arrived - consumed
AtEof == gone /\ arrived = sent /\ Available = 0

(* What try_read may return for a buffer of `want` bytes; -1 is WouldBlock.*)
(* A read that left room in its buffer has told the reactor that the       *)
(* socket is empty, so more bytes may not be noticed yet; without bytes a  *)
(* read of nothing blocks or not, as the platform has it.                  *)
TryRead(want) ==
    LET found == CASE AtEof           -> {0}
                   [] Available > 0   -> {Lesser(Available, want)}
                   [] want = 0        -> {0, -1}
                   [] OTHER           -> {-1}
    IN  IF drained THEN found \cup {-1} ELSE found

Accept ==
    /\ server = "backlog"
    /\ connect_time' = now /\ server' = "first"
    /\ UNCHANGED <<now, clientVars, arrived, consumed, drained, whole, why, cool_until, replied>>

(* The first read, of at most min_header_len bytes; nothing bounds how     *)
(* long it waits.                                                          *)
FirstReadExact ==                        \* fault: read_exact instead of read
    /\ server = "first" /\ Available >= MinHeaderLen
    /\ consumed' = MinHeaderLen /\ whole' = (arrived >= RequestLen(request))
    /\ server' = "main"
    /\ UNCHANGED <<now, clientVars, arrived, connect_time, drained, why, cool_until, replied>>
FirstRead ==
    LET n == Lesser(Available, MinHeaderLen)
    IN  /\ server = "first" /\ (n > 0 \/ AtEof)
        /\ consumed' = n /\ drained' = (n < MinHeaderLen)
        /\ whole' = (client # "connected" /\ arrived >= RequestLen(request))
        /\ server' = IF n < MinHeaderLen THEN "special" ELSE "main"
        /\ why' = IF n < MinHeaderLen THEN "size" ELSE why
        /\ UNCHANGED <<now, clientVars, arrived, connect_time, cool_until, replied>>

(* A header that does not open may be that of a special request.           *)
OpenHeader ==
    /\ server = "main"
    /\ IF request.kind = "tunnel" /\ Opened(connect_time, Delay)
       THEN server' = "rest" /\ UNCHANGED why
       ELSE server' = "special" /\ why' = "header"
    /\ UNCHANGED <<now, clientVars, arrived, connect_time, consumed, drained, whole,
                   cool_until, replied>>

(* terminate_slowly: read_exact into a buffer that was given a capacity    *)
(* and has no bytes, under a timeout.                                      *)
TerminateSlowly(reason, until) ==
    /\ until \in (now + CooldownStart)..(now + CooldownEnd - 1)
    /\ server' = "cooling" /\ why' = reason /\ cool_until' = until
Wanted == 0

(* The rest of the request, taken only if it is there already.             *)
ReadRestAll(got, until) ==        \* fault: whatever has arrived is consumed
    /\ server = "rest" /\ got \in TryRead(sent) /\ got >= 0
    /\ consumed' = consumed + got /\ drained' = FALSE
    /\ server' = "resolve" /\ UNCHANGED <<why, cool_until>>
    /\ UNCHANGED <<now, clientVars, arrived, connect_time, whole, replied>>
ReadRest(got, until) ==
    LET host == HostLenRead(HostField(request.host))
        want == MainLen + host + TagSize + request.padding - MinHeaderLen
    IN  /\ server = "rest" /\ got \in TryRead(want)
        /\ CASE got = -1 ->
                  server' = "closed" /\ why' = "blocked" /\ UNCHANGED <<consumed, cool_until>>
             [] got \in 0..(want - 1) ->
                  TerminateSlowly("rest", until) /\ consumed' = consumed + got
             [] got = want /\ host # request.host ->
                  TerminateSlowly("host", until) /\ consumed' = consumed + got
             [] OTHER ->
                  /\ server' = "resolve" /\ consumed' = consumed + got
                  /\ UNCHANGED <<why, cool_until>>
        /\ UNCHANGED <<now, clientVars, arrived, connect_time, drained, whole, replied>>

(* lookup_host, and then connect; an error of either ends start_tunnel.    *)
Resolve ==
    /\ server \in {"resolve", "connect"}
    /\ \/ server' = (IF server = "resolve" THEN "connect" ELSE "tunnel") /\ UNCHANGED why
       \/ server' = "closed" /\ why' = "upstream"
    /\ UNCHANGED <<now, clientVars, arrived, connect_time, consumed, drained, whole,
                   cool_until, replied>>

(* try_special_request: its message must be all there is.  A failure is  *)
(* the failure of the read that led here.                                  *)
SpecialOpened ==
    /\ request.kind = "protocol" /\ consumed >= SpecialLen
    /\ Opened(connect_time, SpecialDelay)
TrySpecial(got, until) ==
    LET want == RequestLen(request) - consumed
    IN  /\ server = "special"
        /\ IF SpecialOpened
           THEN /\ got \in TryRead(want)
                /\ consumed' = consumed + (IF got = -1 THEN 0 ELSE got)
                /\ IF got = want
                   THEN server' = "reply" /\ why' = "none" /\ UNCHANGED cool_until
                   ELSE TerminateSlowly(why, until)
           ELSE got = -1 /\ TerminateSlowly(why, until) /\ UNCHANGED consumed
        /\ UNCHANGED <<now, clientVars, arrived, connect_time, drained, whole, replied>>

(* write_all of the answer; it can only fail when the client is gone.      *)
WriteReply(n, until) ==
    /\ server = "reply"
    /\ \/ /\ n \in 1..(ReplyLen - replied) /\ replied' = replied + n
          /\ server' = IF replied + n = ReplyLen THEN "closed" ELSE "reply"
          /\ UNCHANGED <<why, cool_until>>
       \/ n = 0 /\ gone /\ TerminateSlowly("left", until) /\ UNCHANGED replied
    /\ UNCHANGED <<now, clientVars, arrived, connect_time, consumed, drained, whole>>

CoolDown ==
    /\ server = "cooling"
    /\ Wanted = 0 \/ AtEof \/ now >= cool_until
    /\ server' = "closed"
    /\ UNCHANGED <<now, clientVars, arrived, connect_time, consumed, drained, whole, why,
                   cool_until, replied>>

(* The server's process ends, or the network loses the connection.         *)
Die ==
    /\ server \notin {"tunnel", "closed"}
    /\ server' = "closed" /\ why' = "died"
    /\ UNCHANGED <<now, clientVars, arrived, connect_time, consumed, drained, whole,
                   cool_until, replied>>
-----------------------------------------------------------------------------
ReadReplyStep == ReadReplyHeader \/ ReadReply
ClientStep == (\E r \in Requests : Stamp(r)) \/ Send \/ SendMore \/ Leave \/ ReadReplyStep
Network == (\E n \in 1..sent : Arrive(n)) \/ (\E n \in 1..replied : Answer(n))
ServerStep ==
    \/ Accept \/ FirstRead \/ OpenHeader \/ Resolve \/ CoolDown
    \/ \E got \in -1..sent, until \in now..(now + CooldownEnd) :
          ReadRest(got, until) \/ TrySpecial(got, until)
    \/ \E n \in 0..ReplyLen, until \in now..(now + CooldownEnd) : WriteReply(n, until)

(* A tunnel goes on elsewhere; a closed connection is over. *)
Ended == server \in {"tunnel", "closed"} /\ UNCHANGED vars

Next == Tick \/ ClientStep \/ Network \/ ServerStep \/ Die \/ Ended

(* The tasks of both programs are polled and the network delivers; the     *)
(* client is obliged to nothing but to read the answer it waits for.       *)
Fairness ==
    /\ WF_vars(ServerStep) /\ WF_vars(Network)
    /\ WF_vars(ReadReplyStep)

Spec == Init /\ [][Next]_vars
FairSpec == Spec /\ Fairness
-----------------------------------------------------------------------------
TypeOK ==
    /\ now \in Nat /\ skew \in Skews
    /\ client \in {"connected", "stamped", "tunnel", "asked", "reading", "configured", "failed"}
    /\ request \in Requests \cup {NoRequest} /\ stamp \in Int
    /\ sent \in Nat /\ arrived \in 0..sent /\ gone \in BOOLEAN
    /\ server \in {"backlog", "first", "main", "special", "rest", "resolve", "connect",
                   "tunnel", "reply", "cooling", "closed"}
    /\ connect_time \in Nat /\ consumed \in 0..arrived
    /\ drained \in BOOLEAN /\ whole \in BOOLEAN
    /\ why \in {"none", "size", "header", "rest", "host", "blocked", "left", "died", "upstream"}
    /\ cool_until \in Nat /\ replied \in 0..ReplyLen /\ answered \in 0..replied

(* How old the request's key was when the connection was accepted, by the  *)
(* client's own account of when it was derived.                            *)
Age == connect_time - stamp
Authenticated == server \in {"resolve", "connect", "tunnel"}

(* The tunnel's cipher begins where the request ends and to the host that  *)
(* was asked for: no byte of the tunnel was read with the request, none of *)
(* the request is left, although the client does not wait in between.      *)
TunnelFollowsRequest ==
    Authenticated =>
        /\ consumed = RequestLen(request)
        /\ HostLenRead(HostField(request.host)) = request.host

(* A request that came in one piece, derived at most `max_connect_delay`   *)
(* before its connection was accepted, is never refused, whatever follows  *)
(* it and however the interval boundaries fall.  Not promised: a request   *)
(* that leaves nothing for the second read.                                *)
Timely == IF request.kind = "tunnel" THEN Age \in 0..Delay ELSE Age \in 0..SpecialDelay
Representable ==
    request.kind = "tunnel" => HostLenRead(HostField(request.host)) = request.host
Refused == why \in {"header", "rest", "host", "blocked", "size"} /\ server \in {"cooling", "closed"}
TimelyAccepted ==
    whole /\ Timely /\ Representable /\ RequestLen(request) > MinHeaderLen => ~Refused

(* The window a request is accepted in: two intervals, no more.            *)
WindowBounded ==
    /\ Authenticated => Age > -Delay /\ Age < 2 * Delay
    /\ replied > 0 => Age > -SpecialDelay /\ Age < 2 * SpecialDelay

(* Each accepted connection ends in a tunnel or is closed once its client  *)
(* wrote or left.                                                          *)
Decided == (sent > 0 \/ gone) ~> server \in {"tunnel", "closed"}

(* get_server_protocol does not wait for ever. *)
AskedEnds == (client = "asked") ~> (client \in {"configured", "failed"} \/ gone)

(* config.rs:30 (crypto): max_connect_delay is the maximum delay.          *)
DelayIsMaximum == Authenticated => Age <= Delay

(* server.rs:77: a header written in one call is read.                     *)
OneCallSuffices == whole /\ Timely /\ Representable => ~Refused

(* cc-server config.rs:25-28: a refused connection is kept for the time    *)
(* drawn from unauth_cooldown, unless the client leaves or keeps sending.  *)
CooldownKept ==
    [][server = "cooling" /\ server' = "closed" /\ why' # "died"
        => gone \/ now >= cool_until]_vars
=============================================================================
