---------------------------- MODULE UpgradeStream ----------------------------
(***************************************************************************)
(* The way to a server behind an HTTPS reverse proxy: the client's         *)
(* UgradeStream (crates/client/src/upgrade_stream.rs) asks for an upgrade  *)
(* before the first byte of its caller and does not wait for the answer;   *)
(* the server's process_http_upgrade (crates/cc-server/src/server.rs)      *)
(* answers; the proxy between them rewrites both headers.  Then bytes pass *)
(* both ways: each direction implements ByteStream.                        *)
(*                                                                         *)
(* A character of a header is a negative number, a byte of a caller its    *)
(* position in what that caller wrote.                                     *)
(***************************************************************************)
EXTENDS Integers, SequencesExt

CONSTANTS
    Limit,          \* MAX_UPGRADE_RESPONSE and the server's u8::MAX
    Request,        \* the header the client sends
    Forwards,       \* headers the proxy may make of it
    Answers,        \* headers the proxy may make of the server's answer
    PipeCap,        \* bytes the connection to the proxy holds
    MaxSent         \* bound: bytes each caller writes

LF == -1
CR == -2
Path == -3          \* the url_path, in a header
Other == -4
Page == -5          \* a byte of an error page

(* Where a header ends: a line feed behind another, with nothing but       *)
(* carriage returns between them.                                          *)
BlankLine(bytes) ==
    {i \in DOMAIN bytes : /\ bytes[i] = LF
                          /\ \E j \in 1..(i - 1) :
                                bytes[j] = LF /\ \A k \in (j + 1)..(i - 1) : bytes[k] = CR}

ASSUME UpgradeAssumption ==
    /\ Limit \in Nat \ {0} /\ PipeCap \in Nat \ {0} /\ MaxSent \in Nat
    /\ \A h \in {Request} \cup Forwards \cup Answers :
          h \in Seq({LF, CR, Path, Other}) /\ BlankLine(h) = {Len(h)}

VARIABLES
    state,          \* UpgradeState: [at, pos], or [at, lf_in_row, size]
    written,        \* bytes the client's poll_write took from its caller
    closing,        \* how the client's writer ended, or "open"
    given,          \* what its poll_read gave
    reading,        \* "reading", or how that ended
    up, down,       \* between client and proxy
    proxy,          \* "request", "asked", "tunnel", "gone"
    fronted,        \* history: what the proxy chose to send
    to, from,       \* between proxy and server
    server,         \* [at, lf_in_row, readed, path]
    sent,           \* bytes the server's tunnel wrote
    ending,         \* how its writer ended, or "open"
    taken,          \* what the server's tunnel read
    taking          \* "reading", or how that ended

clientVars == <<state, written, closing, given, reading>>
serverVars == <<server, sent, ending, taken, taking>>
upgradeVars == <<clientVars, up, down, proxy, fronted, to, from, serverVars>>

UpgradeInit ==
    /\ state = [at |-> "send", pos |-> 0, lf_in_row |-> 0, size |-> 0]
    /\ written = 0 /\ closing = "open" /\ given = <<>> /\ reading = "reading"
    /\ up = <<>> /\ down = <<>> /\ proxy = "request"
    /\ fronted = [request |-> <<>>, answer |-> <<>>] /\ to = <<>> /\ from = <<>>
    /\ server = [at |-> "request", lf_in_row |-> 0, readed |-> 0, path |-> FALSE]
    /\ sent = 0 /\ ending = "open" /\ taken = <<>> /\ taking = "reading"

Numbered(first, n) == [i \in 1..n |-> first + i]
Rows(lf_in_row, char) == IF char = LF THEN lf_in_row + 1 ELSE IF char = CR THEN lf_in_row ELSE 0
-----------------------------------------------------------------------------
(* The client.                                                             *)

(* poll_write: what is left of the request, and behind it the caller's     *)
(* bytes; the transport takes k of all these and is then pending.          *)
PollWrite(want, k) ==
    LET rest == SubSeq(Request, state.pos + 1, Len(Request))
        room == PipeCap - Len(up)
    IN  /\ closing = "open" /\ proxy # "gone" /\ written + want <= MaxSent
        /\ k \in 1..room /\ k <= Len(rest) + want
        /\ up' = up \o SubSeq(rest \o Numbered(written, want), 1, k)
        /\ written' = written + (IF k > Len(rest) THEN k - Len(rest) ELSE 0)
        /\ state' = IF k < Len(rest) THEN [state EXCEPT !.pos = @ + k]
                    ELSE [state EXCEPT !.pos = Len(Request),
                                       !.at = IF @ = "send" THEN "wait" ELSE @]
        /\ UNCHANGED <<closing, given, reading, down, proxy, fronted, to, from, serverVars>>

(* poll_shutdown, passed on; process_tunnel has written before.            *)
PollShutdown ==
    /\ closing = "open" /\ proxy # "gone" /\ written > 0 /\ closing' = "closed"
    /\ UNCHANGED <<state, written, given, reading, up, down, proxy, fronted, to, from, serverVars>>

(* An error at the client ends both of its directions. *)
FailClient == reading' = "short" /\ closing' = IF closing = "open" THEN "dead" ELSE closing

(* poll_read while it waits for the answer: a byte at a time, until a blank*)
(* line; the end of the stream is passed on as it is.                      *)
ReadAnswerStrict ==                  \* fault: a carriage return ends the row
    LET char == Head(down)
        rows == IF char = LF THEN state.lf_in_row + 1 ELSE 0
    IN  /\ state.at = "wait" /\ reading = "reading" /\ down # <<>>
        /\ down' = Tail(down)
        /\ IF state.size + 1 > Limit THEN FailClient /\ UNCHANGED state
           ELSE /\ state' = [state EXCEPT !.size = @ + 1, !.lf_in_row = rows,
                                          !.at = IF rows = 2 THEN "up" ELSE "wait"]
                /\ UNCHANGED <<reading, closing>>
        /\ UNCHANGED <<written, given, up, proxy, fronted, to, from, serverVars>>
ReadAnswerAnyLine ==                 \* fault: other characters do not reset the row
    LET rows == state.lf_in_row + (IF Head(down) = LF THEN 1 ELSE 0)
    IN  /\ state.at = "wait" /\ reading = "reading" /\ down # <<>>
        /\ down' = Tail(down)
        /\ IF state.size + 1 > Limit THEN FailClient /\ UNCHANGED state
           ELSE /\ state' = [state EXCEPT !.size = @ + 1, !.lf_in_row = rows,
                                          !.at = IF rows = 2 THEN "up" ELSE "wait"]
                /\ UNCHANGED <<reading, closing>>
        /\ UNCHANGED <<written, given, up, proxy, fronted, to, from, serverVars>>
ReadAnswer ==
    LET rows == Rows(state.lf_in_row, Head(down))
    IN  /\ state.at = "wait" /\ reading = "reading" /\ down # <<>>
        /\ down' = Tail(down)
        /\ IF state.size + 1 > Limit THEN FailClient /\ UNCHANGED state
           ELSE /\ state' = [state EXCEPT !.size = @ + 1, !.lf_in_row = rows,
                                          !.at = IF rows = 2 THEN "up" ELSE "wait"]
                /\ UNCHANGED <<reading, closing>>
        /\ UNCHANGED <<written, given, up, proxy, fronted, to, from, serverVars>>

PollRead(n) ==
    /\ state.at = "up" /\ reading = "reading" /\ n \in 1..Len(down)
    /\ given' = given \o SubSeq(down, 1, n) /\ down' = SubSeq(down, n + 1, Len(down))
    /\ UNCHANGED <<state, written, closing, reading, up, proxy, fronted, to, from, serverVars>>

(* What the proxy has closed ends for the client when nothing is left.     *)
PollEof ==
    /\ state.at \in {"wait", "up"} /\ reading = "reading" /\ down = <<>>
    /\ \/ proxy = "gone"
       \/ proxy = "tunnel" /\ from = <<>> /\ ending # "open"
    /\ IF state.at = "wait" /\ state.size + 1 > Limit THEN FailClient
       ELSE reading' = "eof" /\ UNCHANGED closing
    /\ UNCHANGED <<state, written, given, up, down, proxy, fronted, to, from, serverVars>>
-----------------------------------------------------------------------------
(* The reverse proxy, as the code expects it.                              *)

Gone == proxy' = "gone"

(* The header goes to the server in another form.                          *)
Forward(h) ==
    /\ proxy = "request" /\ BlankLine(up) # {} /\ h \in Forwards
    /\ up' = SubSeq(up, Min(BlankLine(up)) + 1, Len(up))
    /\ to' = h /\ proxy' = "asked" /\ fronted' = [fronted EXCEPT !.request = h]
    /\ UNCHANGED <<down, from, clientVars, serverVars>>

(* So does the answer.                                                     *)
PassAnswer(h) ==
    /\ proxy = "asked" /\ BlankLine(from) # {} /\ h \in Answers
    /\ from' = SubSeq(from, Min(BlankLine(from)) + 1, Len(from))
    /\ down' = h /\ proxy' = "tunnel" /\ fronted' = [fronted EXCEPT !.answer = h]
    /\ UNCHANGED <<up, to, clientVars, serverVars>>

(* An error page, because the server closed or for a reason of its own.    *)
Refuse(h) ==
    /\ proxy = "asked" \/ (proxy = "request" /\ BlankLine(up) # {})
    /\ h \in Answers /\ down' = h \o <<Page>> /\ Gone
    /\ UNCHANGED <<up, fronted, to, from, clientVars, serverVars>>

PassUp ==
    /\ proxy = "tunnel" /\ up # <<>>
    /\ to' = to \o up /\ up' = <<>>
    /\ UNCHANGED <<down, proxy, fronted, from, clientVars, serverVars>>
PassDown ==
    /\ proxy = "tunnel" /\ from # <<>>
    /\ down' = down \o from /\ from' = <<>>
    /\ UNCHANGED <<up, proxy, fronted, to, clientVars, serverVars>>

(* A connection is lost, and with it what the proxy has not passed on;     *)
(* what is written or shut down after it fails.                            *)
Disconnect ==
    /\ proxy # "gone" /\ Gone
    /\ UNCHANGED <<up, down, fronted, to, from, clientVars, serverVars>>
-----------------------------------------------------------------------------
(* The server: process_http_upgrade, and then its tunnel.                  *)

(* An error is followed by terminate_slowly, which closes.                 *)
Refused == [server EXCEPT !.at = "refused"]

ReadRequestAnyLine ==                \* fault: other characters do not reset the row
    LET rows == server.lf_in_row + (IF Head(to) = LF THEN 1 ELSE 0)
        path == server.path \/ Head(to) = Path
    IN  /\ server.at = "request" /\ to # <<>> /\ to' = Tail(to)
        /\ server' = IF server.readed + 1 >= Limit THEN Refused
                     ELSE IF rows = 2 /\ ~path THEN Refused
                     ELSE [at |-> IF rows = 2 THEN "reply" ELSE "request", lf_in_row |-> rows,
                           readed |-> server.readed + 1, path |-> path]
        /\ UNCHANGED <<clientVars, up, down, proxy, fronted, from, sent, ending, taken, taking>>
ReadRequest ==
    LET rows == Rows(server.lf_in_row, Head(to))
        path == server.path \/ Head(to) = Path
    IN  /\ server.at = "request" /\ to # <<>> /\ to' = Tail(to)
        /\ server' = IF server.readed + 1 >= Limit THEN Refused
                     ELSE IF rows = 2 /\ ~path THEN Refused
                     ELSE [at |-> IF rows = 2 THEN "reply" ELSE "request", lf_in_row |-> rows,
                           readed |-> server.readed + 1, path |-> path]
        /\ UNCHANGED <<clientVars, up, down, proxy, fronted, from, sent, ending, taken, taking>>

NoMore == proxy = "gone" \/ (proxy = "tunnel" /\ up = <<>> /\ closing # "open")
RequestEof ==
    /\ server.at = "request" /\ to = <<>> /\ NoMore /\ server' = Refused
    /\ UNCHANGED <<clientVars, up, down, proxy, fronted, to, from, sent, ending, taken, taking>>

Reply ==
    /\ server.at = "reply" /\ server' = [server EXCEPT !.at = "tunnel"]
    /\ from' = from \o <<Other, CR, LF, CR, LF>>
    /\ UNCHANGED <<clientVars, up, down, proxy, fronted, to, sent, ending, taken, taking>>

Take(n) ==
    /\ server.at = "tunnel" /\ taking = "reading" /\ n \in 1..Len(to)
    /\ taken' = taken \o SubSeq(to, 1, n) /\ to' = SubSeq(to, n + 1, Len(to))
    /\ UNCHANGED <<clientVars, up, down, proxy, fronted, from, server, sent, ending, taking>>
TakeEof ==
    /\ server.at = "tunnel" /\ taking = "reading" /\ to = <<>> /\ NoMore
    /\ taking' = "eof"
    /\ UNCHANGED <<clientVars, up, down, proxy, fronted, to, from, server, sent, ending, taken>>
Put ==
    /\ server.at = "tunnel" /\ ending = "open" /\ proxy # "gone"
    /\ sent < MaxSent /\ sent' = sent + 1 /\ from' = Append(from, sent + 1)
    /\ UNCHANGED <<clientVars, up, down, proxy, fronted, to, server, ending, taken, taking>>
ServerEnds ==
    /\ ending = "open"
    /\ \/ server.at = "refused" /\ ending' = "dead"
       \/ server.at = "tunnel" /\ proxy # "gone" /\ ending' = "closed"
    /\ UNCHANGED <<clientVars, up, down, proxy, fronted, to, from, server, sent, taken, taking>>
-----------------------------------------------------------------------------
Write == \E want \in 1..MaxSent, k \in 1..PipeCap : PollWrite(want, k)
PollReads == ReadAnswer \/ PollEof \/ \E n \in 1..MaxSent : PollRead(n)
Pass == (\E h \in Forwards : Forward(h)) \/ (\E h \in Answers : PassAnswer(h)) \/ PassUp \/ PassDown
Serve == ReadRequest \/ RequestEof \/ Reply
Tunnel == (\E n \in 1..MaxSent : Take(n)) \/ TakeEof \/ Put \/ ServerEnds
Over == (reading # "reading" \/ proxy = "gone") /\ UNCHANGED upgradeVars
UpgradeNext ==
    \/ Write \/ PollShutdown \/ PollReads \/ Pass \/ Disconnect \/ Serve \/ Tunnel \/ Over
    \/ \E h \in Answers : Refuse(h)

(* process_tunnel writes its request whole before anything else, and the   *)
(* copy polls the reader; the proxy and the server's task go on.           *)
UpgradeFairness ==
    /\ WF_upgradeVars(written = 0 /\ Write) /\ WF_upgradeVars(PollReads)
    /\ WF_upgradeVars(Pass) /\ WF_upgradeVars(Serve)
    /\ WF_upgradeVars(server.at = "refused" /\ ServerEnds)
UpgradeSpec == UpgradeInit /\ [][UpgradeNext]_upgradeVars
FairUpgradeSpec == UpgradeSpec /\ UpgradeFairness
-----------------------------------------------------------------------------
(* A writer has closed, for the other end, once the proxy passed its bytes.*)
(* Towards the server: its tunnel reads what the client's caller wrote,    *)
(* from the first byte behind the header, although the client did not wait *)
(* for the answer.                                                         *)
Ending(end, held) ==
    IF end = "closed" /\ held = <<>> THEN "closed"
    ELSE IF proxy = "gone" THEN "dead" ELSE IF end = "closed" THEN "open" ELSE end
Up == INSTANCE ByteStream WITH
          MaxBytes <- MaxSent, accepted <- written, writer <- Ending(closing, up),
          delivered <- taken, reader <- taking
UpIsByteStream == Up!Spec

(* Towards the client: from the first byte behind the answer, although it  *)
(* arrives with the answer.  What an error page says is left to the cipher,*)
(* which opens none of it; an error of the client's own is no end.         *)
Down == INSTANCE ByteStream WITH
          MaxBytes <- MaxSent, accepted <- sent, writer <- Ending(ending, from),
          delivered <- IF Page \in ToSet(given) THEN <<>> ELSE given,
          reader <- IF reading = "short" THEN "reading" ELSE reading
DownIsByteStream == Down!Spec

(* Headers that fit (the request shorter than the limit, the answer not    *)
(* longer) lead to a tunnel, however they are cut, unless a connection is  *)
(* lost or the proxy refuses.                                              *)
Fits == /\ fronted.request # <<>> =>
              Len(fronted.request) < Limit /\ Path \in ToSet(fronted.request)
        /\ fronted.answer # <<>> => Len(fronted.answer) <= Limit
Upgraded == (written > 0) ~> (state.at = "up" \/ proxy = "gone" \/ ~Fits)
=============================================================================
