--------------------------- MODULE Handshake_proof ---------------------------
(***************************************************************************)
(* Proofs about Handshake for every length, padding, clock and delay.      *)
(***************************************************************************)
EXTENDS Handshake, TLAPS

-----------------------------------------------------------------------------
(* What two intervals say about the distance of two times.                 *)

LEMMA IntervalBounds ==
    ASSUME NEW x \in Int, NEW d \in Nat \ {0}
    PROVE  /\ x \div d \in Int
           /\ d * (x \div d) <= x /\ x < d * (x \div d) + d
<1>1. x \div d \in Int
    OBVIOUS
<1>2. d * (x \div d) <= x
    OBVIOUS
<1>3. x < d * (x \div d) + d
    OBVIOUS
<1>. QED  BY <1>1, <1>2, <1>3

(* Two times whose intervals are the same, or the first's the one before,  *)
(* are less than an interval apart one way and less than two the other.    *)
LEMMA IntervalsApart ==
    ASSUME NEW s \in Int, NEW t \in Int, NEW d \in Nat \ {0},
           s \div d \in {t \div d, (t \div d) - 1}
    PROVE  t - s > -d /\ t - s < 2 * d
<1>. DEFINE p == s \div d
            q == t \div d
<1>1. p \in Int /\ d * p <= s /\ s < d * p + d
    BY IntervalBounds
<1>2. q \in Int /\ d * q <= t /\ t < d * q + d
    BY IntervalBounds
<1>3. p = q \/ p = q - 1
    OBVIOUS
<1>. HIDE DEF p, q
<1>4. d * (q - 1) = d * q - d
    BY <1>2
<1>5. d * q \in Int
    BY <1>2
<1>. QED  BY <1>1, <1>2, <1>3, <1>4, <1>5

-----------------------------------------------------------------------------
(* The inductive invariant, in its parts.                                  *)

Clocks ==
    /\ now \in Nat /\ skew \in Int /\ stamp \in Int /\ connect_time \in Nat
    /\ replied \in Nat /\ consumed \in Int /\ arrived \in Int
    /\ request \in Requests \cup {NoRequest}

(* The request and its key are there before anything is written. *)
Unasked == client = "connected" => request = NoRequest

(* Who opened a header has the key, and took exactly the request.          *)
TunnelOpened ==
    /\ server \in {"main", "rest"} => consumed = MinHeaderLen
    /\ server \in {"rest", "resolve", "connect", "tunnel"} =>
          request.kind = "tunnel" /\ Opened(connect_time, Delay)
    /\ Authenticated => /\ consumed = RequestLen(request)
                        /\ HostLenRead(HostField(request.host)) = request.host

SpecialAnswered ==
    /\ server = "backlog" => replied = 0
    /\ server = "reply" \/ replied > 0 =>
          request.kind = "protocol" /\ Opened(connect_time, SpecialDelay)

IInv == Clocks /\ Unasked /\ TunnelOpened /\ SpecialAnswered

LEMMA InitInv == Init => IInv
<1>. SUFFICES ASSUME Init PROVE IInv
    OBVIOUS
<1>1. Clocks
    BY HandshakeAssumption DEF Init, Clocks
<1>2. Unasked /\ TunnelOpened /\ SpecialAnswered
    BY DEF Init, Unasked, TunnelOpened, SpecialAnswered, Authenticated
<1>. QED  BY <1>1, <1>2 DEF IInv

-----------------------------------------------------------------------------
(* A step that leaves the request, the time of the connection and what the *)
(* server took of it as they were.                                         *)
LEMMA ClientInv == ASSUME IInv, Tick \/ ClientStep \/ Network PROVE IInv'
<1>1. UNCHANGED serverVars
    BY DEF Tick, ClientStep, ReadReplyStep, Network, Stamp, Send, SendMore, Leave,
           ReadReplyHeader, ReadReply, Arrive, Answer
<1>2. CASE \E r \in Requests : Stamp(r)
    <2>1. PICK r \in Requests : Stamp(r)
        BY <1>2
    <2>2. request = NoRequest /\ client' # "connected" /\ stamp' \in Int /\ request' \in Requests
        BY <2>1 DEF Stamp, IInv, Clocks, Unasked
    <2>3. server \notin {"rest", "resolve", "connect", "tunnel", "reply"} /\ replied = 0
        BY <2>2 DEF IInv, TunnelOpened, SpecialAnswered, Clocks, NoRequest
    <2>4. now' = now /\ skew' = skew /\ arrived' = arrived
        BY <2>1 DEF Stamp
    <2>. QED  BY <1>1, <2>2, <2>3, <2>4
              DEF serverVars, IInv, Clocks, Unasked, TunnelOpened, SpecialAnswered, Authenticated
<1>3. CASE ~\E r \in Requests : Stamp(r)
    <2>1. /\ UNCHANGED <<request, stamp, skew>> /\ now' \in {now, now + 1}
          /\ client' = "connected" => client = "connected"
        BY <1>3 DEF Tick, ClientStep, ReadReplyStep, Network, Send, SendMore, Leave,
               ReadReplyHeader, ReadReply, Arrive, Answer, clientVars
    <2>2. arrived' \in Int
        BY <1>3 DEF Tick, ClientStep, ReadReplyStep, Network, Send, SendMore, Leave,
               ReadReplyHeader, ReadReply, Arrive, Answer, clientVars, IInv, Clocks
    <2>. QED  BY <1>1, <2>1, <2>2 DEF serverVars, IInv, Clocks, Unasked, TunnelOpened, SpecialAnswered,
                                Authenticated, Opened
<1>. QED  BY <1>2, <1>3

(* What the steps of the server leave as it was.                           *)
LEMMA ServerKeeps ==
    ASSUME ServerStep \/ Die
    PROVE  /\ UNCHANGED <<now, clientVars>>
           /\ server # "backlog" => connect_time' = connect_time
BY DEF ServerStep, Accept, FirstRead, OpenHeader, Resolve, CoolDown, ReadRest, TrySpecial,
       WriteReply, Die

(* A host's length is read as a number that is not too small.              *)
LEMMA HostRead ==
    ASSUME NEW len \in Nat
    PROVE  HostLenRead(HostField(len)) \in Nat /\ HostLenRead(HostField(len)) >= MinHostLen
<1>1. len - MinHostLen \in Int /\ HostLenMod \in Nat \ {0} /\ MinHostLen \in Nat
    BY HandshakeAssumption
<1>2. (len - MinHostLen) % HostLenMod \in 0..(HostLenMod - 1)
    BY <1>1
<1>. QED  BY <1>1, <1>2 DEF HostLenRead, HostField
LEMMA NoRequestKind == NoRequest.kind = "none" /\ NoRequest.host = 0 /\ NoRequest.padding = 0
BY DEF NoRequest

(* The rest of the request ends where the request does.                    *)
LEMMA RestExact ==
    ASSUME IInv, NEW got, NEW until, ReadRest(got, until), server' = "resolve"
    PROVE  /\ consumed' = RequestLen(request)
           /\ HostLenRead(HostField(request.host)) = request.host
<1>. DEFINE host == HostLenRead(HostField(request.host))
            want == MainLen + host + TagSize + request.padding - MinHeaderLen
<1>1. /\ consumed = MinHeaderLen /\ request.kind = "tunnel"
      /\ request.host \in HostLens /\ request.padding \in PadStart..(PadEnd - 1)
    BY NoRequestKind DEF ReadRest, IInv, TunnelOpened, Clocks, Requests
<1>2. /\ host \in Nat /\ host >= MinHostLen /\ MinHostLen \in Nat
      /\ MainLen \in Nat /\ TagSize \in Nat /\ PadStart \in Nat
      /\ request.padding \in Nat /\ request.padding >= PadStart
    <2>1. request.host \in Nat
        BY <1>1, HandshakeAssumption
    <2>2. host \in Nat /\ host >= MinHostLen
        BY <2>1, HostRead
    <2>. HIDE DEF host
    <2>. QED  BY <1>1, <2>2, HandshakeAssumption
<1>3. want \in Nat /\ MinHeaderLen + want = MainLen + host + TagSize + request.padding
    BY <1>2 DEF MinHeaderLen
<1>4. got = want /\ host = request.host /\ consumed' = consumed + got
    <2>. HIDE DEF host
    <2>1. got \in TryRead(want)
        BY DEF ReadRest, host
    <2>2. Available \in Int
        BY DEF Available, IInv, Clocks
    <2>3. got \in {-1, want} \/ got \in 0..(want - 1)
        BY <2>1, <2>2, <1>3 DEF TryRead, Lesser
    <2>. QED  BY <2>3, <1>3 DEF ReadRest, TerminateSlowly, host
<1>. QED  BY <1>1, <1>3, <1>4 DEF RequestLen

(* A step of the server that opened no header, and answered nothing new.   *)
LEMMA ServerInv == ASSUME IInv, ServerStep \/ Die PROVE IInv'
<1>. USE DEF IInv, Clocks
<1>1. UNCHANGED <<now, clientVars, arrived>> /\ UNCHANGED <<skew, request, stamp, client>>
    BY ServerKeeps DEF clientVars, ServerStep, Accept, FirstRead, OpenHeader, Resolve, CoolDown,
       ReadRest, TrySpecial, WriteReply, Die
<1>2. Unasked'
    BY <1>1 DEF Unasked
<1>3. CASE Accept
    <2>1. server' = "first" /\ replied' = 0 /\ connect_time' = now /\ consumed' = consumed
        BY <1>3 DEF Accept, SpecialAnswered
    <2>. QED  BY <1>1, <1>2, <2>1 DEF TunnelOpened, SpecialAnswered, Authenticated
<1>4. CASE FirstRead
    <2>1. /\ server = "first" /\ server' \in {"special", "main"}
          /\ server' = "main" => consumed' = MinHeaderLen
          /\ UNCHANGED <<connect_time, replied>>
        BY <1>4 DEF FirstRead, Lesser
    <2>2. consumed' \in Int
        BY <1>4, HandshakeAssumption DEF FirstRead, Lesser, Available, MinHeaderLen
    <2>. QED  BY <1>1, <1>2, <2>1, <2>2 DEF TunnelOpened, SpecialAnswered, Authenticated, Opened
<1>5. CASE OpenHeader
    <2>1. /\ server = "main" /\ server' \in {"special", "rest"}
          /\ server' = "rest" => request.kind = "tunnel" /\ Opened(connect_time, Delay)
          /\ UNCHANGED <<connect_time, replied, consumed>>
        BY <1>5 DEF OpenHeader
    <2>. QED  BY <1>1, <1>2, <2>1 DEF TunnelOpened, SpecialAnswered, Authenticated, Opened
<1>6. CASE Resolve
    <2>1. /\ Authenticated
          /\ server' \in {"connect", "tunnel", "closed"}
          /\ UNCHANGED <<connect_time, replied, consumed>>
        BY <1>6 DEF Resolve, Authenticated
    <2>. QED  BY <1>1, <1>2, <2>1 DEF TunnelOpened, SpecialAnswered, Authenticated, Opened, RequestLen
<1>7. CASE CoolDown \/ Die
    <2>1. server' = "closed" /\ UNCHANGED <<connect_time, replied, consumed>>
        BY <1>7 DEF CoolDown, Die
    <2>. QED  BY <1>1, <1>2, <2>1 DEF TunnelOpened, SpecialAnswered, Authenticated, Opened
<1>8. ASSUME NEW got \in -1..sent, NEW until, ReadRest(got, until) PROVE IInv'
    <2>1. /\ server = "rest" /\ server' \in {"closed", "cooling", "resolve"}
          /\ UNCHANGED <<connect_time, replied>>
        BY <1>8 DEF ReadRest, TerminateSlowly
    <2>2. consumed' \in Int
        BY <1>8 DEF ReadRest
    <2>3. server' = "resolve" => /\ consumed' = RequestLen(request)
                                 /\ HostLenRead(HostField(request.host)) = request.host
        BY <1>8, RestExact
    <2>. QED  BY <1>1, <1>2, <2>1, <2>2, <2>3
              DEF TunnelOpened, SpecialAnswered, Authenticated, Opened, RequestLen
<1>9. ASSUME NEW got \in -1..sent, NEW until, TrySpecial(got, until) PROVE IInv'
    <2>1. /\ server = "special" /\ server' \in {"cooling", "reply"}
          /\ server' = "reply" => request.kind = "protocol" /\ Opened(connect_time, SpecialDelay)
          /\ UNCHANGED <<connect_time, replied>>
        BY <1>9 DEF TrySpecial, TerminateSlowly, SpecialOpened
    <2>2. consumed' \in Int
        BY <1>9 DEF TrySpecial
    <2>. QED  BY <1>1, <1>2, <2>1, <2>2 DEF TunnelOpened, SpecialAnswered, Authenticated, Opened
<1>10. ASSUME NEW n \in 0..ReplyLen, NEW until, WriteReply(n, until) PROVE IInv'
    <2>1. /\ server = "reply" /\ server' \in {"cooling", "reply", "closed"}
          /\ UNCHANGED <<connect_time, consumed>>
        BY <1>10 DEF WriteReply, TerminateSlowly
    <2>2. replied' \in Nat
        BY <1>10 DEF WriteReply
    <2>. QED  BY <1>1, <1>2, <2>1, <2>2 DEF TunnelOpened, SpecialAnswered, Authenticated, Opened
<1>. QED  BY <1>3, <1>4, <1>5, <1>6, <1>7, <1>8, <1>9, <1>10 DEF ServerStep

LEMMA StepInv == IInv /\ [Next]_vars => IInv'
<1>1. CASE UNCHANGED vars
    BY <1>1 DEF vars, clientVars, serverVars, IInv, Clocks, Unasked, TunnelOpened,
                SpecialAnswered, Authenticated, Opened
<1>. QED  BY <1>1, ClientInv, ServerInv DEF Next, Ended

-----------------------------------------------------------------------------
(* The invariants of the run.                                              *)

(* The key of an accepted request was derived less than two intervals      *)
(* before its connection was accepted and less than one after: the window  *)
(* of start_tunnel's and try_special_request's two keys, for every delay   *)
(* and every difference of the clocks.                                     *)
THEOREM WindowsBounded == Spec => []WindowBounded
<1>1. IInv => WindowBounded
    <2>. SUFFICES ASSUME IInv PROVE WindowBounded
        OBVIOUS
    <2>1. ASSUME NEW d \in Nat \ {0}, Opened(connect_time, d)
          PROVE  Age > -d /\ Age < 2 * d
        BY <2>1, IntervalsApart DEF Age, Opened, Interval, IInv, Clocks
    <2>. QED  BY <2>1, HandshakeAssumption
              DEF WindowBounded, IInv, TunnelOpened, SpecialAnswered, Authenticated
<1>. QED  BY <1>1, InitInv, StepInv, PTL DEF Spec

(* start_tunnel hands the socket on exactly behind the request, and to the *)
(* host that was asked for, however the bytes arrived and whatever lengths *)
(* the request has: its two reads, of min_header_len bytes and of the rest,*)
(* make up the request.                                                    *)
THEOREM TunnelsFollow == Spec => []TunnelFollowsRequest
<1>1. IInv => TunnelFollowsRequest
    BY DEF IInv, TunnelOpened, TunnelFollowsRequest
<1>. QED  BY <1>1, InitInv, StepInv, PTL DEF Spec

-----------------------------------------------------------------------------
(* A timely request.  The key of one that is at most one interval old is   *)
(* that of the server's interval or of the one before.                     *)
LEMMA IntervalsNear ==
    ASSUME NEW s \in Int, NEW t \in Int, NEW d \in Nat \ {0}, t - s \in 0..d
    PROVE  s \div d \in {t \div d, (t \div d) - 1}
<1>. DEFINE p == s \div d
            q == t \div d
<1>1. p \in Int /\ d * p <= s /\ s < d * p + d
    BY IntervalBounds
<1>2. q \in Int /\ d * q <= t /\ t < d * q + d
    BY IntervalBounds
<1>. HIDE DEF p, q
<1>3. d * p \in Int /\ d * q \in Int
    BY <1>1, <1>2
<1>4. d * q < d * p + d + d /\ d * p < d * q + d
    BY <1>1, <1>2, <1>3
<1>5. d * p + d + d = d * (p + 2) /\ d * q + d = d * (q + 1)
    BY <1>1, <1>2
<1>6. d * q < d * (p + 2) /\ d * p < d * (q + 1)
    BY <1>4, <1>5
<1>7. q < p + 2 /\ p < q + 1
    <2>1. ASSUME q >= p + 2 PROVE FALSE
        <3>1. d * q >= d * (p + 2)
            BY <1>1, <1>2, <2>1
        <3>. QED  BY <1>1, <1>2, <1>6, <3>1
    <2>2. ASSUME p >= q + 1 PROVE FALSE
        <3>1. d * p >= d * (q + 1)
            BY <1>1, <1>2, <2>2
        <3>. QED  BY <1>1, <1>2, <1>6, <3>1
    <2>. QED  BY <1>1, <1>2, <2>1, <2>2
<1>8. p = q \/ p = q - 1
    BY <1>1, <1>2, <1>7
<1>. QED  BY <1>8 DEF p, q

(* What is promised to hold until the request is accepted: nothing was     *)
(* refused for good, and the bytes the next read asks for have arrived.    *)
Unread == server \in {"backlog", "first"} => ~whole /\ consumed = 0 /\ why = "none"
Asked == client # "connected" => request \in Requests
Came == whole => client # "connected" /\ arrived >= RequestLen(request)

Promised == whole /\ Timely /\ Representable /\ RequestLen(request) > MinHeaderLen
OnItsWay ==
    Promised =>
        /\ server \in {"main", "rest", "special"} => consumed = MinHeaderLen /\ ~drained
        /\ server \in {"main", "rest"} => why = "none"
        /\ server = "special" => request.kind = "protocol"
        /\ why \in {"header", "rest", "host", "blocked", "size"} => server = "special"

TimelyInv == Unread /\ Asked /\ Came /\ OnItsWay

LEMMA InitTimely == Init => TimelyInv
BY DEF Init, TimelyInv, Unread, Asked, Came, OnItsWay, Promised

(* The lengths of a request, in the integers.                              *)
(* The lengths the parts of a request may have are natural numbers.        *)
LEMMA Lengths ==
    /\ \A n \in PadStart..(PadEnd - 1) : n \in Nat
    /\ \A n \in HostLens : n \in Nat
    /\ \A n \in SpecialPads : n \in Nat
<1>1. PadStart \in Nat /\ PadEnd \in Nat
    BY HandshakeAssumption
<1>2. HostLens \subseteq Nat /\ SpecialPads \subseteq Nat
    BY HandshakeAssumption
<1>. QED  BY <1>1, <1>2

LEMMA RequestLength ==
    ASSUME NEW r \in Requests
    PROVE  /\ RequestLen(r) \in Nat /\ r.kind \in {"tunnel", "protocol"}
           /\ r.host \in Nat /\ r.padding \in Nat
           /\ MinHeaderLen \in Nat \ {0} /\ MinHeaderLen >= SpecialLen
           /\ r.kind = "tunnel" => RequestLen(r) = MainLen + r.host + TagSize + r.padding
<1>1. r.kind \in {"tunnel", "protocol"} /\ r.host \in Nat /\ r.padding \in Nat
    <2>1. CASE r \in [kind : {"tunnel"}, host : HostLens, padding : PadStart..(PadEnd - 1)]
        <3>1. r.kind = "tunnel" /\ r.host \in HostLens /\ r.padding \in PadStart..(PadEnd - 1)
            BY <2>1
        <3>. QED  BY <3>1, Lengths, Zenon
    <2>2. CASE r \in [kind : {"protocol"}, host : {0}, padding : SpecialPads]
        <3>1. r.kind = "protocol" /\ r.host = 0 /\ r.padding \in SpecialPads
            BY <2>2
        <3>. QED  BY <3>1, Lengths
    <2>. QED  BY <2>1, <2>2 DEF Requests
<1>. QED  BY <1>1, HandshakeAssumption DEF RequestLen, MinHeaderLen

(* The client may stamp and write once; what has arrived stays.            *)
LEMMA ClientTimely == ASSUME IInv, TimelyInv, Tick \/ ClientStep \/ Network PROVE TimelyInv'
<1>1. UNCHANGED serverVars
    BY DEF Tick, ClientStep, ReadReplyStep, Network, Stamp, Send, SendMore, Leave,
           ReadReplyHeader, ReadReply, Arrive, Answer
<1>2. CASE \E r \in Requests : Stamp(r)
    <2>1. client = "connected" /\ request' \in Requests
        BY <1>2 DEF Stamp
    <2>2. ~whole
        BY <2>1 DEF TimelyInv, Came
    <2>3. ~whole'
        BY <1>1, <2>2 DEF serverVars
    <2>. QED  BY <1>1, <2>1, <2>3 DEF serverVars, TimelyInv, Unread, Asked, Came, OnItsWay, Promised
<1>3. CASE ~\E r \in Requests : Stamp(r)
    <2>1. /\ UNCHANGED <<request, stamp>>
          /\ client' = "connected" <=> client = "connected"
        BY <1>3 DEF Tick, ClientStep, ReadReplyStep, Network, Send, SendMore, Leave,
               ReadReplyHeader, ReadReply, Arrive, Answer, clientVars
    <2>2. arrived' \in Int /\ arrived' >= arrived
        BY <1>3 DEF Tick, ClientStep, ReadReplyStep, Network, Send, SendMore, Leave,
               ReadReplyHeader, ReadReply, Arrive, Answer, clientVars, IInv, Clocks
    <2>3. Promised' <=> Promised
        BY <1>1, <2>1 DEF serverVars, Promised, Timely, Age, Representable
    <2>4. whole => RequestLen(request) \in Int
        BY RequestLength DEF TimelyInv, Came, Asked
    <2>5. Came'
        BY <1>1, <2>1, <2>2, <2>4 DEF serverVars, TimelyInv, Came, IInv, Clocks
    <2>. QED  BY <1>1, <2>1, <2>3, <2>5 DEF serverVars, TimelyInv, Unread, Asked, OnItsWay
<1>. QED  BY <1>2, <1>3

(* A read that asks for no more than has arrived, and does not follow one  *)
(* that left room, returns what it asked for.                              *)
LEMMA ReadsAll ==
    ASSUME ~drained, NEW want \in Int, want > 0, Available \in Int, Available >= want,
           NEW got \in TryRead(want)
    PROVE  got = want
<1>1. ~AtEof /\ Available > 0
    BY DEF AtEof
<1>2. TryRead(want) = {Lesser(Available, want)}
    BY <1>1 DEF TryRead
<1>. QED  BY <1>2 DEF Lesser

(* The first read takes its full length, as the request is longer.         *)
LEMMA FirstTimely == ASSUME IInv, TimelyInv, FirstRead PROVE OnItsWay' /\ Came' /\ Unread'
<1>1. /\ server = "first" /\ consumed = 0 /\ why = "none"
      /\ UNCHANGED <<request, stamp, client, arrived, connect_time>>
    BY DEF FirstRead, TimelyInv, Unread, clientVars
<1>2. whole' => client # "connected" /\ arrived >= RequestLen(request)
    BY DEF FirstRead
<1>3. server' \in {"special", "main"}
    BY DEF FirstRead
<1>4. ASSUME Promised' PROVE server' = "main" /\ consumed' = MinHeaderLen /\ ~drained' /\ why' = "none"
    <2>1. /\ request \in Requests /\ arrived >= RequestLen(request)
          /\ RequestLen(request) > MinHeaderLen
        BY <1>1, <1>2, <1>4 DEF Promised, TimelyInv, Asked
    <2>2. RequestLen(request) \in Nat /\ MinHeaderLen \in Nat /\ arrived \in Int
        BY <2>1, RequestLength DEF IInv, Clocks
    <2>3. Available = arrived
        BY <1>1, <2>2 DEF Available
    <2>4. Lesser(Available, MinHeaderLen) = MinHeaderLen
        BY <2>1, <2>2, <2>3 DEF Lesser
    <2>5. ~(MinHeaderLen < MinHeaderLen)
        BY <2>2
    <2>6. /\ consumed' = Lesser(Available, MinHeaderLen)
          /\ drained' = (Lesser(Available, MinHeaderLen) < MinHeaderLen)
          /\ server' = IF Lesser(Available, MinHeaderLen) < MinHeaderLen THEN "special" ELSE "main"
          /\ why' = IF Lesser(Available, MinHeaderLen) < MinHeaderLen THEN "size" ELSE why
        BY DEF FirstRead
    <2>. QED  BY <1>1, <2>4, <2>5, <2>6
<1>. QED  BY <1>1, <1>2, <1>3, <1>4 DEF OnItsWay, Came, Unread, RequestLen

(* The header opens: its key is of one of the two intervals.               *)
LEMMA OpenTimely == ASSUME IInv, TimelyInv, OpenHeader PROVE OnItsWay'
<1>1. /\ server = "main" /\ server' \in {"rest", "special"}
      /\ UNCHANGED <<request, stamp, client, connect_time, whole, consumed, drained>>
    BY DEF OpenHeader, clientVars
<1>2. Promised' <=> Promised
    BY <1>1 DEF Promised, Timely, Age, Representable, RequestLen
<1>3. ASSUME Promised PROVE \/ server' = "rest" /\ why' = why
                            \/ request.kind = "protocol" /\ server' = "special"
    <2>1. request \in Requests
        BY <1>3 DEF Promised, TimelyInv, Came, Asked
    <2>2. request.kind = "tunnel" => Opened(connect_time, Delay)
        <3>. SUFFICES ASSUME request.kind = "tunnel" PROVE Opened(connect_time, Delay)
            OBVIOUS
        <3>1. Age \in 0..Delay
            BY <1>3 DEF Promised, Timely
        <3>2. connect_time - stamp \in 0..Delay /\ connect_time \in Int /\ stamp \in Int
            BY <3>1 DEF Age, IInv, Clocks
        <3>. QED  BY <3>2, IntervalsNear, HandshakeAssumption DEF Opened, Interval
    <2>. QED  BY <2>1, <2>2, RequestLength DEF OpenHeader
<1>. QED  BY <1>1, <1>2, <1>3 DEF OnItsWay, TimelyInv

(* The rest is there and is the rest of the request. *)
LEMMA RestTimely ==
    ASSUME IInv, TimelyInv, NEW got, NEW until, ReadRest(got, until), Promised
    PROVE  server' = "resolve" /\ why' = "none"
<1>. DEFINE host == HostLenRead(HostField(request.host))
            want == MainLen + host + TagSize + request.padding - MinHeaderLen
<1>1. /\ server = "rest" /\ consumed = MinHeaderLen /\ ~drained /\ request.kind = "tunnel"
      /\ request \in Requests /\ arrived >= RequestLen(request) /\ why = "none"
    BY DEF ReadRest, TimelyInv, OnItsWay, Promised, Asked, Came, IInv, TunnelOpened
<1>2. host = request.host
    BY <1>1 DEF Promised, Representable
<1>3. /\ RequestLen(request) \in Nat /\ MinHeaderLen \in Nat /\ arrived \in Int
      /\ want = RequestLen(request) - MinHeaderLen
    <2>1. MainLen + host + TagSize + request.padding = RequestLen(request)
        BY <1>1, <1>2 DEF RequestLen
    <2>2. /\ MainLen \in Int /\ host \in Int /\ TagSize \in Int /\ request.padding \in Int
          /\ MinHeaderLen \in Int
        BY <1>1, <1>2, RequestLength, HandshakeAssumption
    <2>3. want = RequestLen(request) - MinHeaderLen
        BY <2>1, <2>2
    <2>. QED  BY <1>1, <2>3, RequestLength DEF IInv, Clocks
<1>. HIDE DEF host, want
<1>4. want \in Int /\ want > 0 /\ Available \in Int /\ Available >= want
    BY <1>1, <1>3 DEF Promised, Available
<1>5. got \in TryRead(want)
    BY DEF ReadRest, host, want
<1>6. got = want
    BY <1>1, <1>4, <1>5, ReadsAll
<1>7. ~(got = -1) /\ ~(got \in 0..(want - 1)) /\ ~(got = want /\ host # request.host)
    BY <1>2, <1>4, <1>6
<1>8. server' = "resolve" /\ UNCHANGED why
    BY <1>7 DEF ReadRest, host, want
<1>. QED  BY <1>1, <1>8

(* The same of the request for the configuration.                          *)
LEMMA SpecialTimely ==
    ASSUME IInv, TimelyInv, NEW got, NEW until, TrySpecial(got, until), Promised
    PROVE  server' = "reply" /\ why' = "none"
<1>. DEFINE want == RequestLen(request) - consumed
<1>1. /\ server = "special" /\ consumed = MinHeaderLen /\ ~drained /\ request.kind = "protocol"
      /\ request \in Requests /\ arrived >= RequestLen(request)
    BY DEF TrySpecial, TimelyInv, OnItsWay, Promised, Asked, Came
<1>2. /\ RequestLen(request) \in Nat /\ MinHeaderLen \in Nat /\ arrived \in Int
      /\ MinHeaderLen >= SpecialLen
    BY <1>1, RequestLength DEF IInv, Clocks
<1>3. Opened(connect_time, SpecialDelay)
    <2>1. Age \in 0..SpecialDelay
        BY <1>1 DEF Promised, Timely
    <2>2. connect_time - stamp \in 0..SpecialDelay /\ connect_time \in Int /\ stamp \in Int
        BY <2>1 DEF Age, IInv, Clocks
    <2>. QED  BY <2>2, IntervalsNear, HandshakeAssumption DEF Opened, Interval
<1>4. SpecialOpened
    BY <1>1, <1>2, <1>3 DEF SpecialOpened
<1>5. want \in Int /\ want > 0 /\ Available \in Int /\ Available >= want
    BY <1>1, <1>2 DEF Promised, Available
<1>6. got \in TryRead(want)
    BY <1>4 DEF TrySpecial
<1>. HIDE DEF want
<1>7. got = want
    BY <1>1, <1>5, <1>6, ReadsAll
<1>. QED  BY <1>4, <1>7 DEF TrySpecial, want

LEMMA ServerTimely == ASSUME IInv, TimelyInv, ServerStep \/ Die PROVE TimelyInv'
<1>1. UNCHANGED <<request, stamp, client, arrived>>
    BY ServerKeeps DEF clientVars, ServerStep, Accept, FirstRead, OpenHeader, Resolve, CoolDown,
       ReadRest, TrySpecial, WriteReply, Die
<1>2. Asked'
    BY <1>1 DEF TimelyInv, Asked
<1>3. CASE Accept
    BY <1>1, <1>2, <1>3 DEF Accept, TimelyInv, Unread, Came, OnItsWay, Promised
<1>4. CASE FirstRead
    BY <1>2, <1>4, FirstTimely DEF TimelyInv
<1>5. CASE ~Accept /\ ~FirstRead
    <2>1. /\ UNCHANGED <<connect_time, whole>>
          /\ server \notin {"backlog", "first"} \/ server' = "closed"
          /\ server' \notin {"backlog", "first"}
        BY <1>5 DEF ServerStep, OpenHeader, Resolve, CoolDown, ReadRest, TrySpecial, WriteReply, Die,
               TerminateSlowly
    <2>2. Unread' /\ Came'
        BY <1>1, <2>1 DEF TimelyInv, Unread, Came, RequestLen
    <2>3. Promised' <=> Promised
        BY <1>1, <2>1 DEF Promised, Timely, Age, Representable, RequestLen
    <2>4. CASE OpenHeader
        BY <1>2, <2>2, <2>4, OpenTimely DEF TimelyInv
    <2>5. CASE \E got, until : ReadRest(got, until)
        <3>1. Promised => server' = "resolve" /\ why' = "none"
            BY <2>5, RestTimely
        <3>. QED  BY <1>2, <2>2, <2>3, <3>1 DEF TimelyInv, OnItsWay
    <2>6. CASE \E got, until : TrySpecial(got, until)
        <3>1. Promised => server' = "reply" /\ why' = "none"
            BY <2>6, SpecialTimely
        <3>. QED  BY <1>2, <2>2, <2>3, <3>1 DEF TimelyInv, OnItsWay
    <2>7. CASE \E n, until : WriteReply(n, until)
        <3>1. /\ server = "reply" /\ server' \in {"reply", "closed", "cooling"}
              /\ why' \in {why, "left"}
            BY <2>7 DEF WriteReply, TerminateSlowly
        <3>. QED  BY <1>2, <2>2, <2>3, <3>1 DEF TimelyInv, OnItsWay
    <2>8. CASE Resolve \/ CoolDown \/ Die
        <3>1. /\ server' \in {"connect", "tunnel", "closed"}
              /\ why' \in {"died", "upstream"} \/ (why' = why /\ server # "special")
            BY <2>8 DEF Resolve, CoolDown, Die
        <3>. QED  BY <1>2, <2>2, <2>3, <3>1 DEF TimelyInv, OnItsWay
    <2>. QED  BY <1>5, <2>4, <2>5, <2>6, <2>7, <2>8 DEF ServerStep
<1>. QED  BY <1>3, <1>4, <1>5

LEMMA StepTimely == IInv /\ TimelyInv /\ [Next]_vars => TimelyInv'
<1>1. CASE UNCHANGED vars
    BY <1>1 DEF vars, clientVars, serverVars, TimelyInv, Unread, Asked, Came, OnItsWay, Promised,
                Timely, Age, Representable, RequestLen
<1>. QED  BY <1>1, ClientTimely, ServerTimely DEF Next, Ended

(* A request that came in one piece, with a key derived at most            *)
(* max_connect_delay before the connection was accepted, is refused by     *)
(* neither read and for no key, whatever follows it: for every delay, every*)
(* length of host and padding and wherever the intervals' boundaries fall. *)
THEOREM TimelyIsAccepted == Spec => []TimelyAccepted
<1>1. IInv /\ TimelyInv => TimelyAccepted
    BY DEF TimelyInv, OnItsWay, Promised, TimelyAccepted, Refused
<1>2. Spec => []IInv
    BY InitInv, StepInv, PTL DEF Spec
<1>. QED  BY <1>1, <1>2, InitTimely, StepTimely, PTL DEF Spec
=============================================================================
