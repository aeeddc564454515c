---------------------------- MODULE Registry_proof ----------------------------
(***************************************************************************)
(* Proofs about Registry for any number of callers, tunnels, servers and   *)
(* items: that the proxy goes off without servers, and that the lists, the *)
(* servers' rules and the PAC file agree while calls do not overlap.       *)
(***************************************************************************)
EXTENDS Registry, SequenceTheorems, WellFoundedInduction, TLAPS

(* A list, of whatever elements.                                           *)
IsList(s) == \E S : s \in Seq(S)

LEMMA ListAppend ==
    ASSUME NEW s, IsList(s), NEW e
    PROVE  IsList(Append(s, e)) /\ Append(s, e) # <<>>
<1>1. PICK S : s \in Seq(S)
    BY DEF IsList
<1>2. s \in Seq(S \cup {e})
    BY <1>1
<1>3. Append(s, e) \in Seq(S \cup {e}) /\ Append(s, e) # <<>>
    BY <1>2, AppendProperties
<1>. QED  BY <1>3 DEF IsList

(* A list whose elements are changed in place is a list, as long as it was.*)
LEMMA ListInPlace ==
    ASSUME NEW s, IsList(s), NEW t, DOMAIN t = DOMAIN s, t = [i \in DOMAIN s |-> t[i]]
    PROVE  IsList(t) /\ (t = <<>> <=> s = <<>>)
<1>1. PICK S : s \in Seq(S)
    BY DEF IsList
<1>2. DOMAIN s = 1..Len(s) /\ Len(s) \in Nat /\ (s = <<>> <=> Len(s) = 0)
    BY <1>1
<1>3. t \in [1..Len(s) -> {t[i] : i \in 1..Len(s)}]
    BY <1>2
<1>4. t \in Seq({t[i] : i \in 1..Len(s)}) /\ Len(t) = Len(s)
    BY <1>2, <1>3
<1>5. t = <<>> <=> Len(t) = 0
    BY <1>4
<1>. QED  BY <1>2, <1>4, <1>5 DEF IsList

LEMMA ListRemove ==
    ASSUME NEW s, IsList(s), NEW i \in 1..Len(s)
    PROVE  IsList(RemoveAt(s, i))
<1>1. PICK S : s \in Seq(S)
    BY DEF IsList
<1>2. Len(s) \in Nat /\ \A j \in 1..Len(s) : s[j] \in S
    BY <1>1
<1>3. SubSeq(s, 1, i - 1) \in Seq(S)
    BY <1>2, SubSeqProperties
<1>4. SubSeq(s, i + 1, Len(s)) \in Seq(S)
    BY <1>2, SubSeqProperties
<1>5. RemoveAt(s, i) \in Seq(S)
    BY <1>3, <1>4, ConcatProperties DEF RemoveAt
<1>. QED  BY <1>5 DEF IsList

LEMMA LeastNatural ==
    ASSUME NEW T, T \subseteq Nat, T # {}
    PROVE  Min(T) \in T
<1>1. PICK x \in T : \A y \in T : <<y, x>> \notin OpToRel(<, Nat)
    BY WFMin, NatLessThanWellFounded
<1>2. \A y \in T : ~(y < x)
    BY <1>1, Zenon DEF OpToRel
<1>3. \A y \in T : x =< y
    BY <1>2
<1>. QED  BY <1>3 DEF Min

(* A server that is known has its place in the list.                       *)
LEMMA KnownPlace ==
    ASSUME IsList(servers), NEW host, Known(host)
    PROVE  FirstOf(host) \in 1..Len(servers)
<1>. DEFINE I == {i \in 1..Len(servers) : servers[i].host = host}
<1>1. FirstOf(host) = IF I # {} THEN Min(I) ELSE 0
    BY DEF FirstOf, SelectInSeq
<1>2. I # {}
    BY <1>1 DEF Known
<1>3. I \subseteq Nat
    OBVIOUS
<1>4. Min(I) \in I
    BY <1>2, <1>3, LeastNatural
<1>. QED  BY <1>1, <1>2, <1>4

-----------------------------------------------------------------------------
(* The inductive invariant, in its parts.                                  *)

Asked(r) ==
    /\ "pc" \in DOMAIN r /\ "host" \in DOMAIN r
    /\ r.pc = "write" => r.host \in {"Pac", "Off"}

Shapes ==
    /\ IsList(servers)
    /\ call = [c \in Callers |-> call[c]] /\ \A c \in Callers : Asked(call[c])

(* Without a server the proxy is off, or a call is about to turn it off,   *)
(* unless the user has turned it on since.                                 *)
TurnsOff == \E c \in Callers : call[c].pc = "write" /\ call[c].host = "Off"
OffOrComing ==
    servers = <<>> /\ loading = <<>> => proxy_state = "Off" \/ chosen \/ TurnsOff

IInv == Shapes /\ OffOrComing

LEMMA IdleAsked == Asked(Idle) /\ Idle.pc = "idle"
BY DEF Asked, Idle

LEMMA InitInv == Init => IInv
<1>. SUFFICES ASSUME Init PROVE IInv
    OBVIOUS
<1>1. IsList(servers)
    <2>1. servers \in Seq({})
        BY DEF Init
    <2>. QED  BY <2>1 DEF IsList
<1>2. call = [c \in Callers |-> call[c]] /\ \A c \in Callers : Asked(call[c])
    BY IdleAsked, Zenon DEF Init
<1>3. OffOrComing
    BY DEF Init, OffOrComing
<1>. QED  BY <1>1, <1>2, <1>3 DEF IInv, Shapes

-----------------------------------------------------------------------------
(* A step of a call that leaves the servers, if there are any.             *)
LEMMA CallMoves ==
    ASSUME IInv, NEW c \in Callers, NEW x, call' = [call EXCEPT ![c] = x], Asked(x),
           call[c].pc # "write", IsList(servers'), servers' = <<>> => servers = <<>>,
           UNCHANGED <<loading, proxy_state, chosen>>
    PROVE  IInv'
<1>1. /\ call' = [d \in Callers |-> call'[d]]
      /\ \A d \in Callers : call'[d] = IF d = c THEN x ELSE call[d]
    BY DEF IInv, Shapes
<1>2. Shapes'
    BY <1>1 DEF IInv, Shapes, Asked
<1>3. TurnsOff => TurnsOff'
    BY <1>1 DEF TurnsOff
<1>. QED  BY <1>2, <1>3 DEF IInv, OffOrComing

LEMMA Moved ==
    ASSUME IInv, NEW c \in Callers, NEW pc, pc # "write", Goes(c, pc)
    PROVE  \E x : call' = [call EXCEPT ![c] = x] /\ Asked(x)
<1>. DEFINE x == [call[c] EXCEPT !.pc = pc]
<1>1. call' = [call EXCEPT ![c] = x]
    BY DEF Goes
<1>2. "pc" \in DOMAIN call[c] /\ "host" \in DOMAIN call[c]
    BY DEF IInv, Shapes, Asked
<1>3. Asked(x)
    BY <1>2 DEF Asked
<1>. QED  BY <1>1, <1>3

(* Calls that are made change no server.                                   *)
LEMMA StartsKeeps ==
    ASSUME IInv, NEW c \in Callers, NEW ask, Asked(ask), Starts(c, ask)
    PROVE  IInv'
<1>1. /\ call' = [call EXCEPT ![c] = ask] /\ call[c].pc # "write"
      /\ UNCHANGED <<servers, loading, proxy_state, chosen>>
    BY DEF Starts
<1>. QED  BY <1>1, CallMoves DEF IInv, Shapes

LEMMA StartsInv == ASSUME IInv, NEW c \in Callers, CallStarts(c) PROVE IInv'
<1>1. CASE set_rule(c)
    <2>1. PICK kind \in Kinds, item \in Items, host \in Hosts \cup {NoHost} :
              Starts(c, [Idle EXCEPT !.pc = IF host = NoHost THEN "check" ELSE "undirect",
                                     !.kind = kind, !.item = item, !.host = host])
        BY <1>1, Zenon DEF set_rule
    <2>2. Asked([Idle EXCEPT !.pc = IF host = NoHost THEN "check" ELSE "undirect",
                                     !.kind = kind, !.item = item, !.host = host])
        BY DEF Idle, Asked
    <2>. QED  BY <2>1, <2>2, StartsKeeps
<1>2. CASE remove_rule(c)
    <2>1. PICK kind \in Kinds, item \in Items :
              Starts(c, [Idle EXCEPT !.pc = "unlist", !.kind = kind, !.item = item])
        BY <1>2, Zenon DEF remove_rule
    <2>2. Asked([Idle EXCEPT !.pc = "unlist", !.kind = kind, !.item = item])
        BY DEF Idle, Asked
    <2>. QED  BY <2>1, <2>2, StartsKeeps
<1>3. CASE add_server(c)
    <2>1. PICK config \in {NewServer(h) : h \in Hosts}
                         \cup {[s EXCEPT !.known = FALSE] : s \in {page} \ {<<>>}} :
              Starts(c, [Idle EXCEPT !.pc = "lookup", !.config = config])
        BY <1>3, Zenon DEF add_server
    <2>2. Asked([Idle EXCEPT !.pc = "lookup", !.config = config])
        BY DEF Idle, Asked
    <2>. QED  BY <2>1, <2>2, StartsKeeps
<1>4. CASE update_server(c)
    <2>1. PICK host \in Hosts :
              Starts(c, [Idle EXCEPT !.pc = "relookup", !.host = page.host,
                     !.config = [page EXCEPT !.host = host, !.known = FALSE, !.rules["app"] = {}]])
        BY <1>4, Zenon DEF update_server
    <2>2. Asked([Idle EXCEPT !.pc = "relookup", !.host = page.host,
                     !.config = [page EXCEPT !.host = host, !.known = FALSE, !.rules["app"] = {}]])
        BY DEF Idle, Asked
    <2>. QED  BY <2>1, <2>2, StartsKeeps
<1>5. CASE set_enabled(c)
    <2>1. PICK host \in Hosts :
              Starts(c, [Idle EXCEPT !.pc = "enable", !.host = host])
        BY <1>5, Zenon DEF set_enabled
    <2>2. Asked([Idle EXCEPT !.pc = "enable", !.host = host])
        BY DEF Idle, Asked
    <2>. QED  BY <2>1, <2>2, StartsKeeps
<1>6. CASE delete_server(c)
    <2>1. PICK host \in Hosts :
              Starts(c, [Idle EXCEPT !.pc = "delete", !.host = host])
        BY <1>6, Zenon DEF delete_server
    <2>2. Asked([Idle EXCEPT !.pc = "delete", !.host = host])
        BY DEF Idle, Asked
    <2>. QED  BY <2>1, <2>2, StartsKeeps
<1>7. CASE set_proxy_state(c)
    <2>1. PICK host \in {"Pac", "Off"} :
              Starts(c, [Idle EXCEPT !.pc = "write", !.host = host])
        BY <1>7, Zenon DEF set_proxy_state
    <2>2. Asked([Idle EXCEPT !.pc = "write", !.host = host])
        BY DEF Idle, Asked
    <2>. QED  BY <2>1, <2>2, StartsKeeps
<1>. QED  BY <1>1, <1>2, <1>3, <1>4, <1>5, <1>6, <1>7 DEF CallStarts

(* Steps of calls that change no server.                                   *)
LEMMA QuietInv ==
    ASSUME IInv, NEW c \in Callers,
           \/ Undirect(c) \/ Check(c) \/ Push(c) \/ Unlist(c) \/ Reset(c) \/ Collect(c)
           \/ Publish(c) \/ Lookup(c)
    PROVE  IInv'
<1>1. UNCHANGED <<servers, loading, proxy_state, chosen>> /\ call[c].pc # "write"
    BY DEF Undirect, Check, Push, Unlist, Reset, Collect, Publish, Lookup, At, history
<1>2. "pc" \in DOMAIN call[c] /\ "host" \in DOMAIN call[c]
    BY DEF IInv, Shapes, Asked
<1>3. PICK x : call' = [call EXCEPT ![c] = x] /\ Asked(x)
    <2>1. CASE Undirect(c) \/ Check(c) \/ Push(c) \/ Unlist(c) \/ Reset(c) \/ Publish(c)
        BY <2>1, Moved, IdleAsked
           DEF Undirect, Check, Push, Unlist, Reset, Publish, Returns
    <2>2. CASE Collect(c)
        <3>. DEFINE x == [call[c] EXCEPT !.pc = "publish", !.domains = ToSet(direct["domain"])]
        <3>1. call' = [call EXCEPT ![c] = x]
            BY <2>2, Zenon DEF Collect
        <3>2. Asked(x)
            BY <1>2 DEF Asked
        <3>. QED  BY <3>1, <3>2
    <2>3. CASE Lookup(c)
        <3>1. PICK config \in Lookups(call[c].config) :
                  call' = [call EXCEPT ![c].pc = IF At(c, "lookup") THEN "add" ELSE "replace",
                                       ![c].config = config]
            BY <2>3 DEF Lookup
        <3>. DEFINE x == [call[c] EXCEPT !.pc = IF At(c, "lookup") THEN "add" ELSE "replace",
                                         !.config = config]
        <3>2. call' = [call EXCEPT ![c] = x]
            BY <3>1, Zenon
        <3>3. Asked(x)
            BY <1>2 DEF Asked
        <3>. QED  BY <3>2, <3>3
    <2>. QED  BY <2>1, <2>2, <2>3
<1>. QED  BY <1>1, <1>3, CallMoves DEF IInv, Shapes

(* Steps of calls that change the list of servers, or turn the proxy off.  *)
LEMMA AssignInv == ASSUME IInv, NEW c \in Callers, AssignRule(c) PROVE IInv'
<1>1. UNCHANGED <<loading, proxy_state, chosen>> /\ call[c].pc # "write"
    BY DEF AssignRule, At
<1>2. PICK x : call' = [call EXCEPT ![c] = x] /\ Asked(x)
    BY Moved, IdleAsked DEF AssignRule, Returns
<1>3. DOMAIN servers' = DOMAIN servers /\ servers' = [i \in DOMAIN servers |-> servers'[i]]
    <2>1. servers = [i \in DOMAIN servers |-> servers[i]]
        BY DEF IInv, Shapes, IsList
    <2>. QED  BY <2>1 DEF AssignRule, Assign
<1>4. IsList(servers') /\ (servers' = <<>> <=> servers = <<>>)
    BY <1>3, ListInPlace DEF IInv, Shapes
<1>. QED  BY <1>1, <1>2, <1>4, CallMoves

LEMMA InPlaceInv ==
    ASSUME IInv, NEW c \in Callers, UnassignRule(c) \/ Enable(c) \/ Replace(c)
    PROVE  IInv'
<1>1. UNCHANGED <<loading, proxy_state, chosen>> /\ call[c].pc # "write"
    BY DEF UnassignRule, Enable, Replace, At, history
<1>2. PICK x : call' = [call EXCEPT ![c] = x] /\ Asked(x)
    BY Moved, IdleAsked DEF UnassignRule, Enable, Replace, Returns
<1>3. DOMAIN servers' = DOMAIN servers /\ servers' = [i \in DOMAIN servers |-> servers'[i]]
    <2>1. servers = [i \in DOMAIN servers |-> servers[i]]
        BY DEF IInv, Shapes, IsList
    <2>2. CASE UnassignRule(c)
        BY <2>2 DEF UnassignRule, Unassign
    <2>3. CASE Enable(c)
        BY <2>1, <2>3 DEF Enable
    <2>4. CASE Replace(c)
        BY <2>1, <2>4 DEF Replace
    <2>. QED  BY <2>2, <2>3, <2>4
<1>4. IsList(servers') /\ (servers' = <<>> <=> servers = <<>>)
    BY <1>3, ListInPlace DEF IInv, Shapes
<1>. QED  BY <1>1, <1>2, <1>4, CallMoves

LEMMA AddInv == ASSUME IInv, NEW c \in Callers, Add(c) PROVE IInv'
<1>1. UNCHANGED <<loading, proxy_state, chosen>> /\ call[c].pc # "write"
      /\ call' = [call EXCEPT ![c] = Idle] /\ servers' = Append(servers, call[c].config)
    BY DEF Add, At, Returns
<1>2. IsList(servers') /\ servers' # <<>>
    BY <1>1, ListAppend DEF IInv, Shapes
<1>. QED  BY <1>1, <1>2, IdleAsked, CallMoves

(* Who deletes the last server turns the proxy off next.                   *)
LEMMA DeleteInv == ASSUME IInv, NEW c \in Callers, Delete(c) PROVE IInv'
<1>1. UNCHANGED <<loading, proxy_state>> /\ call[c].pc = "delete"
    BY DEF Delete, At
<1>2. CASE ~Known(call[c].host)
    <2>1. call' = [call EXCEPT ![c] = Idle] /\ UNCHANGED <<servers, chosen>>
        BY <1>2 DEF Delete, Returns
    <2>. QED  BY <1>1, <2>1, IdleAsked, CallMoves DEF IInv, Shapes
<1>3. CASE Known(call[c].host)
    <2>1. IsList(servers')
        BY <1>3, KnownPlace, ListRemove DEF Delete, IInv, Shapes
    <2>. DEFINE off == [call[c] EXCEPT !.pc = "write", !.host = "Off"]
    <2>2. /\ servers' = <<>> => call' = [call EXCEPT ![c] = off]
          /\ servers' # <<>> => call' = [call EXCEPT ![c] = Idle]
        BY <1>3, Zenon DEF Delete, Returns
    <2>3. Asked(off) /\ off.pc = "write" /\ off.host = "Off"
        BY DEF Asked, IInv, Shapes
    <2>. HIDE DEF off
    <2>4. /\ call' = [d \in Callers |-> call'[d]]
          /\ \A d \in Callers \ {c} : call'[d] = call[d]
          /\ call'[c] \in {off, Idle} /\ (servers' = <<>> => call'[c] = off)
        BY <2>2 DEF IInv, Shapes
    <2>5. Shapes'
        BY <2>1, <2>3, <2>4, IdleAsked DEF IInv, Shapes, Asked
    <2>6. servers' = <<>> => TurnsOff'
        BY <2>3, <2>4 DEF TurnsOff
    <2>. QED  BY <2>5, <2>6 DEF IInv, OffOrComing
<1>. QED  BY <1>2, <1>3

LEMMA WriteInv == ASSUME IInv, NEW c \in Callers, Write(c) PROVE IInv'
<1>1. /\ UNCHANGED <<servers, loading>> /\ call' = [call EXCEPT ![c] = Idle]
      /\ proxy_state' = call[c].host /\ chosen' = (chosen \/ call[c].host = "Pac")
      /\ call[c].pc = "write"
    BY DEF Write, At, Returns
<1>2. call[c].host \in {"Pac", "Off"}
    BY <1>1 DEF IInv, Shapes, Asked
<1>3. Shapes'
    <2>1. /\ call' = [d \in Callers |-> call'[d]]
          /\ \A d \in Callers : call'[d] = IF d = c THEN Idle ELSE call[d]
        BY <1>1 DEF IInv, Shapes
    <2>. QED  BY <1>1, <2>1, IdleAsked DEF IInv, Shapes, Asked
<1>. QED  BY <1>1, <1>2, <1>3 DEF IInv, OffOrComing

-----------------------------------------------------------------------------
(* The loading, the tunnels and the page leave the calls alone.            *)
LEMMA BesideInv ==
    ASSUME IInv, Load \/ OpenPage \/ (\E t \in Tunnels : TunnelStep(t)) \/ UNCHANGED vars
    PROVE  IInv'
<1>1. UNCHANGED <<call, proxy_state, chosen>>
    BY DEF Load, OpenPage, TunnelStep, Select, Copy, LookupFails, WriteBack, vars, history
<1>2. /\ IsList(servers')
      /\ servers' = <<>> => servers = <<>> /\ loading' = loading
    <2>1. CASE Load
        <3>1. PICK config : servers' = Append(servers, config)
            BY <2>1 DEF Load
        <3>. QED  BY <3>1, ListAppend DEF IInv, Shapes
    <2>2. CASE \E t \in Tunnels : WriteBack(t)
        <3>1. servers = [i \in DOMAIN servers |-> servers[i]]
            BY DEF IInv, Shapes, IsList
        <3>2. DOMAIN servers' = DOMAIN servers /\ servers' = [i \in DOMAIN servers |-> servers'[i]]
            BY <2>2, <3>1 DEF WriteBack
        <3>. QED  BY <2>2, <3>2, ListInPlace DEF IInv, Shapes, WriteBack
    <2>3. CASE OpenPage \/ UNCHANGED vars
                \/ (\E t \in Tunnels : Select(t) \/ Copy(t) \/ LookupFails(t))
        <3>1. UNCHANGED <<servers, loading>>
            BY <2>3 DEF OpenPage, Select, Copy, LookupFails, vars
        <3>. QED  BY <3>1 DEF IInv, Shapes
    <2>. QED  BY <2>1, <2>2, <2>3 DEF TunnelStep
<1>3. Shapes' /\ (TurnsOff <=> TurnsOff')
    BY <1>1, <1>2 DEF IInv, Shapes, TurnsOff
<1>. QED  BY <1>1, <1>2, <1>3 DEF IInv, OffOrComing

LEMMA StepInv == IInv /\ [Next]_vars => IInv'
BY StartsInv, QuietInv, AssignInv, InPlaceInv, AddInv, DeleteInv, WriteInv, BesideInv
   DEF Next, CallStep

-----------------------------------------------------------------------------
(* del_server lets the list go before it turns the proxy off, and calls,   *)
(* tunnels and the loading may run in between; all the same the proxy is   *)
(* off when all is done and no server is left, unless it was turned on     *)
(* since: for any number of callers, calls, tunnels and servers.           *)
THEOREM ProxyGoesOff == Spec => []OffWithoutServers
<1>1. IInv => OffWithoutServers
    <2>1. TurnsOff => InFlight # {}
        BY DEF TurnsOff, InFlight
    <2>. QED  BY <2>1 DEF IInv, OffOrComing, OffWithoutServers, AtRest
<1>. QED  BY <1>1, InitInv, StepInv, PTL DEF Spec

-----------------------------------------------------------------------------
(* Lists of direct items.  What RemoveAt leaves, element by element.       *)
LEMMA Removed ==
    ASSUME NEW S, NEW s \in Seq(S), NEW i \in 1..Len(s)
    PROVE  /\ RemoveAt(s, i) \in Seq(S) /\ Len(RemoveAt(s, i)) = Len(s) - 1
           /\ \A j \in 1..(Len(s) - 1) :
                 RemoveAt(s, i)[j] = IF j < i THEN s[j] ELSE s[j + 1]
<1>. DEFINE a == SubSeq(s, 1, i - 1)
            b == SubSeq(s, i + 1, Len(s))
<1>1. /\ Len(s) \in Nat /\ i \in Nat /\ 1 <= i /\ i <= Len(s)
      /\ \A j \in 1..Len(s) : s[j] \in S
    OBVIOUS
<1>2. /\ a \in Seq(S) /\ Len(a) = i - 1 /\ \A j \in 1..(i - 1) : a[j] = s[j]
      /\ b \in Seq(S) /\ Len(b) = Len(s) - i /\ \A j \in 1..(Len(s) - i) : b[j] = s[i + j]
    BY <1>1
<1>. HIDE DEF a, b
<1>3. /\ a \o b \in Seq(S) /\ Len(a \o b) = Len(s) - 1
      /\ \A j \in 1..(Len(s) - 1) : (a \o b)[j] = IF j <= i - 1 THEN a[j] ELSE b[j - (i - 1)]
    <2>1. /\ a \o b \in Seq(S) /\ Len(a \o b) = Len(a) + Len(b)
          /\ \A j \in 1..(Len(a) + Len(b)) :
                (a \o b)[j] = IF j <= Len(a) THEN a[j] ELSE b[j - Len(a)]
        BY <1>2, ConcatProperties
    <2>2. Len(a) = i - 1 /\ Len(a) + Len(b) = Len(s) - 1
        BY <1>1, <1>2
    <2>. QED  BY <2>1, <2>2
<1>4. ASSUME NEW j \in 1..(Len(s) - 1)
      PROVE  (a \o b)[j] = IF j < i THEN s[j] ELSE s[j + 1]
    <2>1. CASE j < i
        BY <1>1, <1>2, <1>3, <2>1
    <2>2. CASE ~(j < i)
        <3>1. j - (i - 1) \in 1..(Len(s) - i) /\ i + (j - (i - 1)) = j + 1 /\ ~(j <= i - 1)
            BY <1>1, <2>2
        <3>. QED  BY <1>2, <1>3, <2>2, <3>1
    <2>. QED  BY <2>1, <2>2
<1>5. RemoveAt(s, i) = a \o b
    BY DEF RemoveAt, a, b
<1>. QED  BY <1>3, <1>4, <1>5

LEMMA FirstPlace ==
    ASSUME NEW S, NEW s \in Seq(S), NEW e, NEW i \in 1..Len(s), s[i] = e
    PROVE  LET f == SelectInSeq(s, LAMBDA v : v = e) IN f \in 1..Len(s) /\ s[f] = e
<1>. DEFINE I == {j \in 1..Len(s) : s[j] = e}
<1>1. I \subseteq Nat /\ I # {}
    OBVIOUS
<1>2. Min(I) \in I
    BY <1>1, LeastNatural
<1>3. SelectInSeq(s, LAMBDA v : v = e) = Min(I)
    BY <1>1 DEF SelectInSeq
<1>. QED  BY <1>2, <1>3

(* RemoveFirst takes the item away when the list holds it once.            *)
LEMMA RemoveOnly ==
    ASSUME NEW S, NEW s \in Seq(S), NEW e
    PROVE  /\ RemoveFirst(s, e) \in Seq(S)
           /\ IsInjective(s) => /\ IsInjective(RemoveFirst(s, e))
                                /\ ToSet(RemoveFirst(s, e)) = ToSet(s) \ {e}
<1>1. CASE ~\E i \in 1..Len(s) : s[i] = e
    <2>1. RemoveFirst(s, e) = s
        BY <1>1 DEF RemoveFirst
    <2>. QED  BY <1>1, <2>1 DEF ToSet
<1>2. CASE \E i \in 1..Len(s) : s[i] = e
    <2>. DEFINE f == SelectInSeq(s, LAMBDA v : v = e)
                t == RemoveAt(s, f)
    <2>1. f \in 1..Len(s) /\ s[f] = e
        BY <1>2, FirstPlace
    <2>2. RemoveFirst(s, e) = t
        BY <1>2 DEF RemoveFirst
    <2>. HIDE DEF f
    <2>3. /\ t \in Seq(S) /\ Len(t) = Len(s) - 1
          /\ \A j \in 1..(Len(s) - 1) : t[j] = IF j < f THEN s[j] ELSE s[j + 1]
        BY <2>1, Removed
    <2>. HIDE DEF t
    <2>4. /\ Len(s) \in Nat /\ f \in Nat /\ 1 <= f /\ f <= Len(s)
          /\ DOMAIN s = 1..Len(s) /\ DOMAIN t = 1..(Len(s) - 1)
        BY <2>1, <2>3
    <2>5. ASSUME IsInjective(s) PROVE IsInjective(t) /\ ToSet(t) = ToSet(s) \ {e}
        <3>1. \A i, j \in 1..Len(s) : s[i] = s[j] => i = j
            BY <2>4, <2>5 DEF IsInjective
        <3>2. ASSUME NEW i \in 1..(Len(s) - 1), NEW j \in 1..(Len(s) - 1), t[i] = t[j]
              PROVE  i = j
            BY <2>3, <2>4, <3>1, <3>2
        <3>3. ASSUME NEW j \in 1..(Len(s) - 1) PROVE t[j] \in ToSet(s) /\ t[j] # e
            <4>1. PICK k \in 1..Len(s) : t[j] = s[k] /\ k # f
                <5>1. CASE j < f
                    BY <2>3, <2>4, <5>1
                <5>2. CASE ~(j < f)
                    BY <2>3, <2>4, <5>2
                <5>. QED  BY <5>1, <5>2
            <4>. QED  BY <2>1, <2>4, <3>1, <4>1 DEF ToSet
        <3>4. ASSUME NEW j \in 1..Len(s), s[j] # e PROVE \E i \in 1..(Len(s) - 1) : t[i] = s[j]
            <4>1. CASE j < f
                <5>1. j \in 1..(Len(s) - 1) /\ t[j] = s[j]
                    BY <2>3, <2>4, <4>1
                <5>. QED  BY <5>1
            <4>2. CASE j > f
                <5>1. j - 1 \in 1..(Len(s) - 1) /\ ~(j - 1 < f) /\ (j - 1) + 1 = j
                    BY <2>4, <4>2
                <5>2. t[j - 1] = s[j]
                    BY <2>3, <5>1
                <5>. QED  BY <5>1, <5>2
            <4>. QED  BY <2>1, <2>4, <3>4, <4>1, <4>2
        <3>5. ToSet(t) = ToSet(s) \ {e}
            <4>1. ASSUME NEW x \in ToSet(t) PROVE x \in ToSet(s) \ {e}
                BY <2>4, <3>3, <4>1 DEF ToSet
            <4>2. ASSUME NEW x \in ToSet(s) \ {e} PROVE x \in ToSet(t)
                <5>1. PICK j \in 1..Len(s) : s[j] = x /\ s[j] # e
                    BY <2>4 DEF ToSet
                <5>2. PICK i \in 1..(Len(s) - 1) : t[i] = s[j]
                    BY <3>4, <5>1
                <5>. QED  BY <2>4, <5>1, <5>2 DEF ToSet
            <4>. QED  BY <4>1, <4>2
        <3>. QED  BY <2>4, <3>2, <3>5 DEF IsInjective
    <2>. QED  BY <2>2, <2>3, <2>5
<1>. QED  BY <1>1, <1>2

LEMMA AppendNew ==
    ASSUME NEW S, NEW s \in Seq(S), NEW e \in S
    PROVE  /\ Append(s, e) \in Seq(S) /\ ToSet(Append(s, e)) = ToSet(s) \cup {e}
           /\ IsInjective(s) /\ e \notin ToSet(s) => IsInjective(Append(s, e))
<1>1. /\ Append(s, e) \in Seq(S) /\ Len(Append(s, e)) = Len(s) + 1 /\ Len(s) \in Nat
      /\ DOMAIN s = 1..Len(s) /\ DOMAIN Append(s, e) = 1..(Len(s) + 1)
      /\ Append(s, e)[Len(s) + 1] = e
      /\ \A j \in 1..Len(s) : Append(s, e)[j] = s[j]
    OBVIOUS
<1>. DEFINE t == Append(s, e)
<1>. HIDE DEF t
<1>2. /\ DOMAIN t = 1..(Len(s) + 1) /\ t[Len(s) + 1] = e /\ \A j \in 1..Len(s) : t[j] = s[j]
    BY <1>1 DEF t
<1>3. ToSet(t) = ToSet(s) \cup {e}
    BY <1>1, <1>2 DEF ToSet
<1>4. ASSUME IsInjective(s), e \notin ToSet(s) PROVE IsInjective(t)
    BY <1>1, <1>2, <1>4 DEF ToSet, IsInjective
<1>. QED  BY <1>1, <1>3, <1>4 DEF t

-----------------------------------------------------------------------------
(* The rules of a list of servers, and what the changes of a list do to    *)
(* them.                                                                   *)
RulesIn(list, kind) == UNION {list[i].rules[kind] : i \in DOMAIN list}

LEMMA RulesFields ==
    ASSUME NEW s \in Server, NEW k \in Kinds
    PROVE  s.rules \in [Kinds -> SUBSET Items] /\ s.rules[k] \subseteq Items
BY DEF Server

LEMMA RulesPut ==
    ASSUME NEW s \in Seq(Server), NEW i \in 1..Len(s), NEW e \in Server
    PROVE  LET t == [s EXCEPT ![i] = e]
           IN  /\ t \in Seq(Server)
               /\ \A k \in Kinds : RulesIn(t, k) \subseteq RulesIn(s, k) \cup e.rules[k]
               /\ e.rules = s[i].rules => \A k \in Kinds : RulesIn(t, k) = RulesIn(s, k)
<1>. DEFINE t == [s EXCEPT ![i] = e]
<1>1. /\ t \in Seq(Server) /\ DOMAIN t = DOMAIN s /\ i \in DOMAIN s
      /\ \A j \in DOMAIN s : t[j] = IF j = i THEN e ELSE s[j]
    OBVIOUS
<1>. HIDE DEF t
<1>2. ASSUME NEW k \in Kinds PROVE RulesIn(t, k) \subseteq RulesIn(s, k) \cup e.rules[k]
    BY <1>1 DEF RulesIn
<1>3. ASSUME e.rules = s[i].rules, NEW k \in Kinds PROVE RulesIn(t, k) = RulesIn(s, k)
    <2>1. \A j \in DOMAIN s : t[j].rules[k] = s[j].rules[k]
        BY <1>1, <1>3
    <2>. QED  BY <1>1, <2>1 DEF RulesIn
<1>. QED  BY <1>1, <1>2, <1>3 DEF t

LEMMA RulesAppend ==
    ASSUME NEW s \in Seq(Server), NEW e \in Server
    PROVE  /\ Append(s, e) \in Seq(Server)
           /\ \A k \in Kinds : RulesIn(Append(s, e), k) = RulesIn(s, k) \cup e.rules[k]
<1>. DEFINE t == Append(s, e)
<1>1. /\ t \in Seq(Server) /\ Len(s) \in Nat /\ DOMAIN s = 1..Len(s)
      /\ DOMAIN t = 1..(Len(s) + 1) /\ t[Len(s) + 1] = e /\ \A j \in 1..Len(s) : t[j] = s[j]
    OBVIOUS
<1>. HIDE DEF t
<1>2. DOMAIN t = DOMAIN s \cup {Len(s) + 1} /\ \A j \in DOMAIN s : t[j] = s[j]
    BY <1>1
<1>3. ASSUME NEW k \in Kinds PROVE RulesIn(t, k) = RulesIn(s, k) \cup e.rules[k]
    BY <1>1, <1>2 DEF RulesIn
<1>. QED  BY <1>1, <1>3 DEF t

LEMMA RulesRemoved ==
    ASSUME NEW s \in Seq(Server), NEW i \in 1..Len(s)
    PROVE  /\ RemoveAt(s, i) \in Seq(Server)
           /\ \A k \in Kinds : RulesIn(RemoveAt(s, i), k) \subseteq RulesIn(s, k)
<1>. DEFINE t == RemoveAt(s, i)
<1>1. /\ t \in Seq(Server) /\ Len(t) = Len(s) - 1
      /\ \A j \in 1..(Len(s) - 1) : t[j] = IF j < i THEN s[j] ELSE s[j + 1]
    BY Removed
<1>. HIDE DEF t
<1>2. Len(s) \in Nat /\ DOMAIN s = 1..Len(s) /\ DOMAIN t = 1..(Len(s) - 1)
    BY <1>1
<1>3. \A j \in DOMAIN t : \E n \in DOMAIN s : t[j] = s[n]
    <2>. TAKE j \in DOMAIN t
    <2>1. j \in DOMAIN s /\ j + 1 \in DOMAIN s
        BY <1>2
    <2>. QED  BY <1>1, <1>2, <2>1
<1>4. ASSUME NEW k \in Kinds PROVE RulesIn(t, k) \subseteq RulesIn(s, k)
    BY <1>3 DEF RulesIn
<1>. QED  BY <1>1, <1>4 DEF t

LEMMA RulesFirst ==
    ASSUME NEW s \in Seq(Server), s # <<>>
    PROVE  /\ Head(s) \in Server /\ Tail(s) \in Seq(Server)
           /\ \A k \in Kinds : /\ Head(s).rules[k] \subseteq RulesIn(s, k)
                               /\ RulesIn(Tail(s), k) \subseteq RulesIn(s, k)
<1>1. /\ Len(s) \in Nat /\ Len(s) > 0 /\ DOMAIN s = 1..Len(s)
      /\ Head(s) = s[1] /\ s[1] \in Server /\ Tail(s) \in Seq(Server)
      /\ DOMAIN Tail(s) = 1..(Len(s) - 1)
      /\ \A j \in 1..(Len(s) - 1) : Tail(s)[j] = s[j + 1]
    OBVIOUS
<1>2. ASSUME NEW k \in Kinds PROVE Head(s).rules[k] \subseteq RulesIn(s, k)
    <2>1. 1 \in DOMAIN s
        BY <1>1
    <2>. QED  BY <1>1, <2>1 DEF RulesIn
<1>3. \A j \in DOMAIN Tail(s) : \E n \in DOMAIN s : Tail(s)[j] = s[n]
    <2>. TAKE j \in DOMAIN Tail(s)
    <2>1. j + 1 \in DOMAIN s
        BY <1>1
    <2>. QED  BY <1>1, <2>1
<1>4. ASSUME NEW k \in Kinds PROVE RulesIn(Tail(s), k) \subseteq RulesIn(s, k)
    BY <1>3 DEF RulesIn
<1>. QED  BY <1>1, <1>2, <1>4

(* The rules a call adds to a server, and takes from all of them.          *)
LEMMA AssignRules ==
    ASSUME servers \in Seq(Server), NEW kind \in Kinds, NEW item \in Items, NEW host,
           Known(host), Assign(kind, item, host)
    PROVE  /\ servers' \in Seq(Server)
           /\ \A k \in Kinds : RulesIn(servers', k)
                 \subseteq RulesIn(servers, k) \cup (IF k = kind THEN {item} ELSE {})
<1>. DEFINE i == FirstOf(host)
            f == [servers[i].rules EXCEPT ![kind] = servers[i].rules[kind] \cup {item}]
            e == [servers[i] EXCEPT !.rules = f]
<1>1. i \in 1..Len(servers)
    BY KnownPlace DEF IsList
<1>2. servers' = [servers EXCEPT ![i] = e]
    BY Zenon DEF Assign
<1>. HIDE DEF i
<1>3. servers[i] \in Server /\ i \in DOMAIN servers
    BY <1>1
<1>4. /\ e \in Server
      /\ \A k \in Kinds : e.rules[k]
            = IF k = kind THEN servers[i].rules[k] \cup {item} ELSE servers[i].rules[k]
    <2>1. /\ f \in [Kinds -> SUBSET Items]
          /\ \A k \in Kinds : f[k] = IF k = kind THEN servers[i].rules[k] \cup {item}
                                                 ELSE servers[i].rules[k]
        BY <1>3 DEF Server
    <2>. HIDE DEF f
    <2>2. e \in Server /\ e.rules = f
        BY <1>3, <2>1 DEF Server
    <2>. QED  BY <2>1, <2>2
<1>. HIDE DEF e
<1>5. \A k \in Kinds : servers[i].rules[k] \subseteq RulesIn(servers, k)
    BY <1>3 DEF RulesIn
<1>6. \A k \in Kinds : RulesIn(servers', k) \subseteq RulesIn(servers, k) \cup e.rules[k]
    BY <1>1, <1>2, <1>4, RulesPut
<1>. QED  BY <1>1, <1>2, <1>4, <1>5, <1>6, RulesPut

LEMMA UnassignRules ==
    ASSUME servers \in Seq(Server), NEW kind \in Kinds, NEW item, Unassign(kind, item)
    PROVE  /\ servers' \in Seq(Server)
           /\ \A k \in Kinds : RulesIn(servers', k)
                 = RulesIn(servers, k) \ (IF k = kind THEN {item} ELSE {})
<1>. DEFINE f(i) == [servers[i].rules EXCEPT ![kind] = servers[i].rules[kind] \ {item}]
            e(i) == [servers[i] EXCEPT !.rules = f(i)]
<1>1. servers' = [i \in DOMAIN servers |-> e(i)]
    BY Zenon DEF Unassign
<1>2. ASSUME NEW i \in DOMAIN servers
      PROVE  /\ e(i) \in Server
             /\ \A k \in Kinds : e(i).rules[k]
                   = IF k = kind THEN servers[i].rules[k] \ {item} ELSE servers[i].rules[k]
    <2>1. servers[i] \in Server
        OBVIOUS
    <2>2. /\ f(i) \in [Kinds -> SUBSET Items]
          /\ \A k \in Kinds : f(i)[k] = IF k = kind THEN servers[i].rules[k] \ {item}
                                                    ELSE servers[i].rules[k]
        BY <2>1 DEF Server
    <2>. HIDE DEF f
    <2>3. e(i) \in Server /\ e(i).rules = f(i)
        BY <2>1, <2>2 DEF Server
    <2>. QED  BY <2>2, <2>3
<1>. HIDE DEF e
<1>3. DOMAIN servers = 1..Len(servers) /\ Len(servers) \in Nat
    OBVIOUS
<1>4. servers' \in [1..Len(servers) -> Server]
    BY <1>1, <1>2, <1>3
<1>5. servers' \in Seq(Server) /\ DOMAIN servers' = DOMAIN servers
    BY <1>3, <1>4
<1>6. ASSUME NEW k \in Kinds
      PROVE  RulesIn(servers', k) = RulesIn(servers, k) \ (IF k = kind THEN {item} ELSE {})
    <2>1. \A i \in DOMAIN servers : servers'[i].rules[k]
              = servers[i].rules[k] \ (IF k = kind THEN {item} ELSE {})
        BY <1>1, <1>2
    <2>. QED  BY <1>5, <2>1 DEF RulesIn
<1>. QED  BY <1>5, <1>6

-----------------------------------------------------------------------------
(* What the variables hold, overlapping calls or not.                      *)
Pcs == {"idle", "undirect", "assign", "check", "push", "unassign", "unlist", "reset", "collect",
        "publish", "lookup", "relookup", "add", "replace", "enable", "delete", "write"}
Calls == [pc : Pcs, kind : Kinds, item : Items \cup {"none"},
          host : Hosts \cup {NoHost, "Pac", "Off"}, config : Server \cup {<<>>},
          domains : SUBSET Items]
WellFormed(r) ==
    /\ r.pc \in {"undirect", "assign", "check", "push", "unassign", "unlist"} => r.item \in Items
    /\ r.pc \in {"lookup", "relookup", "add", "replace"} => r.config \in Server
    /\ r.pc = "write" => r.host \in {"Pac", "Off"}
CallsOK == call \in [Callers -> Calls] /\ \A c \in Callers : WellFormed(call[c])

Copies == [pc : {"idle", "copy", "lookup"}, host : Hosts \cup {NoHost}, config : Server \cup {<<>>}]
TunnelsOK ==
    /\ tunnel \in [Tunnels -> Copies]
    /\ \A t \in Tunnels : tunnel[t].pc = "lookup" => tunnel[t].config \in Server

Types ==
    /\ servers \in Seq(Server) /\ loading \in Seq(Server)
    /\ direct \in [Kinds -> Seq(Items)]
    /\ CallsOK /\ TunnelsOK
    /\ page \in Server \cup {<<>>}
    /\ proxy_state \in {"Pac", "Off"} /\ pac \subseteq Items /\ removed \subseteq Kinds \X Items

LEMMA IdleCall ==
    Idle \in Calls /\ WellFormed(Idle) /\ Idle.pc = "idle"
BY DEF Idle, Calls, Pcs, WellFormed, Kinds

LEMMA InitTypes == Init => Types
<1>. SUFFICES ASSUME Init PROVE Types
    OBVIOUS
<1>1. PICK config \in Configs :
          /\ loading = config.servers /\ direct = config.direct
          /\ pac = ToSet(config.direct["domain"])
    BY DEF Init
<1>2. config.servers \in Seq(Server) /\ config.direct \in [Kinds -> Seq(Items)]
    BY ConfigsAssumption DEF Tidy
<1>3. pac \subseteq Items
    <2>1. config.direct["domain"] \in Seq(Items)
        BY <1>2 DEF Kinds
    <2>. QED  BY <1>1, <2>1 DEF ToSet
<1>4. servers \in Seq(Server) /\ page \in Server \cup {<<>>} /\ removed \subseteq Kinds \X Items
      /\ proxy_state \in {"Pac", "Off"}
    BY DEF Init
<1>5. CallsOK
    BY IdleCall DEF Init, CallsOK
<1>6. TunnelsOK
    BY DEF Init, TunnelsOK, Copies
<1>. QED  BY <1>1, <1>2, <1>3, <1>4, <1>5, <1>6 DEF Types

(* A call becomes another record; it goes on; it returns.                  *)
LEMMA CallBecomes ==
    ASSUME CallsOK, NEW c \in Callers, NEW x \in Calls, WellFormed(x),
           call' = [call EXCEPT ![c] = x]
    PROVE  CallsOK' /\ call'[c] = x /\ \A d \in Callers \ {c} : call'[d] = call[d]
<1>1. call' \in [Callers -> Calls] /\ call'[c] = x /\ \A d \in Callers \ {c} : call'[d] = call[d]
    BY DEF CallsOK
<1>2. \A d \in Callers : WellFormed(call'[d])
    BY <1>1 DEF CallsOK
<1>. QED  BY <1>1, <1>2 DEF CallsOK, WellFormed

LEMMA CallGoes ==
    ASSUME CallsOK, NEW c \in Callers, NEW pc \in Pcs, Goes(c, pc),
           \/ pc \in {"assign", "push", "unassign"} /\ call[c].item \in Items
           \/ pc \in {"reset", "collect"}
    PROVE  /\ CallsOK' /\ \A d \in Callers \ {c} : call'[d] = call[d]
           /\ call'[c] = [call[c] EXCEPT !.pc = pc]
           /\ call'[c].pc = pc /\ call'[c].kind = call[c].kind /\ call'[c].item = call[c].item
<1>. DEFINE x == [call[c] EXCEPT !.pc = pc]
<1>1. call' = [call EXCEPT ![c] = x]
    BY Zenon DEF Goes
<1>2. call[c] \in Calls
    BY DEF CallsOK
<1>3. x \in Calls /\ x.pc = pc /\ x.kind = call[c].kind /\ x.item = call[c].item
    BY <1>2 DEF Calls
<1>4. WellFormed(x)
    BY <1>3 DEF WellFormed
<1>. QED  BY <1>1, <1>3, <1>4, CallBecomes

LEMMA CallReturns ==
    ASSUME CallsOK, NEW c \in Callers, Returns(c)
    PROVE  CallsOK' /\ call'[c] = Idle /\ \A d \in Callers \ {c} : call'[d] = call[d]
BY IdleCall, CallBecomes DEF Returns

(* The calls that are made.                                                *)
LEMMA StartsTypes == ASSUME Types, NEW c \in Callers, CallStarts(c) PROVE Types'
<1>1. UNCHANGED <<loading, servers, direct, proxy_state, pac, tunnel, page>>
    BY DEF CallStarts, set_rule, remove_rule, add_server, update_server, set_enabled,
           delete_server, set_proxy_state, Starts
<1>2. ASSUME NEW x \in Calls, WellFormed(x), Starts(c, x), removed' \subseteq Kinds \X Items
      PROVE  Types'
    <2>1. call' = [call EXCEPT ![c] = x]
        BY <1>2 DEF Starts
    <2>2. CallsOK'
        BY <1>2, <2>1, CallBecomes DEF Types
    <2>. QED  BY <1>1, <1>2, <2>2 DEF Types, TunnelsOK
<1>3. CASE set_rule(c)
    <2>1. PICK kind \in Kinds, item \in Items, host \in Hosts \cup {NoHost} :
              /\ Starts(c, [Idle EXCEPT !.pc = IF host = NoHost THEN "check" ELSE "undirect",
                                        !.kind = kind, !.item = item, !.host = host])
              /\ removed' = removed \ {<<kind, item>>}
        BY <1>3, Zenon DEF set_rule
    <2>. DEFINE x == [Idle EXCEPT !.pc = IF host = NoHost THEN "check" ELSE "undirect",
                                  !.kind = kind, !.item = item, !.host = host]
    <2>2. x \in Calls /\ WellFormed(x)
        BY DEF Idle, Calls, Pcs, WellFormed
    <2>3. removed' \subseteq Kinds \X Items
        BY <2>1 DEF Types
    <2>. HIDE DEF x
    <2>4. Starts(c, x)
        BY <2>1 DEF x
    <2>. QED  BY <2>2, <2>3, <2>4, <1>2
<1>4. CASE remove_rule(c)
    <2>1. PICK kind \in Kinds, item \in Items :
              /\ Starts(c, [Idle EXCEPT !.pc = "unlist", !.kind = kind, !.item = item])
              /\ removed' = removed \cup {<<kind, item>>}
        BY <1>4, Zenon DEF remove_rule
    <2>. DEFINE x == [Idle EXCEPT !.pc = "unlist", !.kind = kind, !.item = item]
    <2>2. x \in Calls /\ WellFormed(x)
        BY DEF Idle, Calls, Pcs, WellFormed
    <2>3. removed' \subseteq Kinds \X Items
        BY <2>1 DEF Types
    <2>. HIDE DEF x
    <2>4. Starts(c, x)
        BY <2>1 DEF x
    <2>. QED  BY <2>2, <2>3, <2>4, <1>2
<1>5. CASE add_server(c)
    <2>1. PICK config \in {NewServer(h) : h \in Hosts}
                         \cup {[s EXCEPT !.known = FALSE] : s \in {page} \ {<<>>}} :
              /\ Starts(c, [Idle EXCEPT !.pc = "lookup", !.config = config])
              /\ UNCHANGED removed
        BY <1>5, Zenon DEF add_server
    <2>. DEFINE x == [Idle EXCEPT !.pc = "lookup", !.config = config]
    <2>2. config \in Server
        <3>1. ASSUME NEW h \in Hosts PROVE NewServer(h) \in Server
            BY DEF NewServer, NoRules, Server
        <3>2. ASSUME NEW s \in Server PROVE [s EXCEPT !.known = FALSE] \in Server
            BY DEF Server
        <3>. QED  BY <2>1, <3>1, <3>2 DEF Types
    <2>3. x \in Calls /\ WellFormed(x)
        BY <2>2 DEF Idle, Calls, Pcs, WellFormed, Kinds
    <2>. HIDE DEF x
    <2>4. Starts(c, x)
        BY <2>1 DEF x
    <2>. QED  BY <2>1, <2>3, <2>4, <1>2 DEF Types
<1>6. CASE update_server(c)
    <2>1. PICK host \in Hosts :
              /\ Starts(c, [Idle EXCEPT !.pc = "relookup", !.host = page.host,
                     !.config = [page EXCEPT !.host = host, !.known = FALSE, !.rules["app"] = {}]])
              /\ page # <<>> /\ UNCHANGED removed
        BY <1>6, Zenon DEF update_server
    <2>. DEFINE config == [page EXCEPT !.host = host, !.known = FALSE, !.rules["app"] = {}]
                x == [Idle EXCEPT !.pc = "relookup", !.host = page.host, !.config = config]
    <2>2. page \in Server
        BY <2>1 DEF Types
    <2>3. config \in Server /\ page.host \in Hosts
        BY <2>2 DEF Server
    <2>. HIDE DEF config
    <2>4. x \in Calls /\ WellFormed(x)
        BY <2>3 DEF Idle, Calls, Pcs, WellFormed, Kinds
    <2>. HIDE DEF x
    <2>5. Starts(c, x)
        BY <2>1 DEF x, config
    <2>. QED  BY <2>1, <2>4, <2>5, <1>2 DEF Types
<1>7. CASE set_enabled(c) \/ delete_server(c) \/ set_proxy_state(c)
    <2>1. PICK pc \in {"enable", "delete", "write"}, host \in Hosts \cup {"Pac", "Off"} :
              /\ Starts(c, [Idle EXCEPT !.pc = pc, !.host = host])
              /\ pc = "write" => host \in {"Pac", "Off"}
              /\ UNCHANGED removed
        BY <1>7, Zenon DEF set_enabled, delete_server, set_proxy_state
    <2>. DEFINE x == [Idle EXCEPT !.pc = pc, !.host = host]
    <2>2. x \in Calls /\ WellFormed(x)
        BY <2>1 DEF Idle, Calls, Pcs, WellFormed, Kinds
    <2>. HIDE DEF x
    <2>3. Starts(c, x)
        BY <2>1 DEF x
    <2>. QED  BY <2>1, <2>2, <2>3, <1>2 DEF Types
<1>. QED  BY <1>3, <1>4, <1>5, <1>6, <1>7 DEF CallStarts

(* What is not at place 0 has a place; set_server_enabled keeps the rules. *)
LEMMA Placed ==
    ASSUME IsList(servers), NEW host, FirstOf(host) # 0
    PROVE  FirstOf(host) \in 1..Len(servers)
<1>. DEFINE I == {i \in 1..Len(servers) : servers[i].host = host}
<1>1. FirstOf(host) = IF I # {} THEN Min(I) ELSE 0
    BY DEF FirstOf, SelectInSeq
<1>2. I # {} /\ I \subseteq Nat
    BY <1>1
<1>3. Min(I) \in I
    BY <1>2, LeastNatural
<1>. QED  BY <1>1, <1>2, <1>3

LEMMA EnableRules ==
    ASSUME servers \in Seq(Server), NEW c, Enable(c)
    PROVE  /\ servers' \in Seq(Server)
           /\ \A k \in Kinds : RulesIn(servers', k) = RulesIn(servers, k)
<1>1. CASE ~Known(call[c].host)
    BY <1>1 DEF Enable
<1>2. CASE Known(call[c].host)
    <2>. DEFINE i == FirstOf(call[c].host)
    <2>1. PICK value \in BOOLEAN : servers' = [servers EXCEPT ![i].enabled = value]
        BY <1>2 DEF Enable
    <2>. DEFINE e == [servers[i] EXCEPT !.enabled = value]
    <2>2. i \in 1..Len(servers)
        BY <1>2, KnownPlace DEF IsList
    <2>3. servers' = [servers EXCEPT ![i] = e]
        BY <2>1, Zenon
    <2>. HIDE DEF i
    <2>4. servers[i] \in Server
        BY <2>2
    <2>5. e \in Server /\ e.rules = servers[i].rules
        BY <2>4 DEF Server
    <2>. HIDE DEF e
    <2>. QED  BY <2>2, <2>3, <2>5, RulesPut
<1>. QED  BY <1>1, <1>2

LEMMA DirectChanges ==
    ASSUME Types, NEW kind \in Kinds, NEW s \in Seq(Items), direct' = [direct EXCEPT ![kind] = s]
    PROVE  /\ direct' \in [Kinds -> Seq(Items)]
           /\ \A k \in Kinds : direct'[k] = IF k = kind THEN s ELSE direct[k]
BY DEF Types

LEMMA CallFields ==
    ASSUME Types, NEW c \in Callers
    PROVE  /\ call[c].kind \in Kinds /\ call[c].pc \in Pcs /\ WellFormed(call[c])
           /\ call[c].config \in Server \cup {<<>>} /\ call[c] \in Calls
           /\ direct[call[c].kind] \in Seq(Items) /\ direct["domain"] \in Seq(Items)
<1>1. call[c] \in Calls /\ WellFormed(call[c])
    BY DEF Types, CallsOK
<1>2. call[c].kind \in Kinds /\ call[c].pc \in Pcs /\ call[c].config \in Server \cup {<<>>}
    BY <1>1 DEF Calls
<1>. QED  BY <1>1, <1>2 DEF Types, Kinds

(* The steps of set_rule and remove_rule: what becomes of the call and of  *)
(* the lists.                                                              *)
LEMMA RemovesDirect ==
    ASSUME Types, NEW c \in Callers,
           direct' = [direct EXCEPT ![call[c].kind] = RemoveFirst(@, call[c].item)]
    PROVE  /\ direct' \in [Kinds -> Seq(Items)]
           /\ \A k \in Kinds : k # call[c].kind => direct'[k] = direct[k]
           /\ IsInjective(direct[call[c].kind]) =>
                 /\ IsInjective(direct'[call[c].kind])
                 /\ ToSet(direct'[call[c].kind]) = ToSet(direct[call[c].kind]) \ {call[c].item}
<1>. DEFINE s == RemoveFirst(direct[call[c].kind], call[c].item)
<1>1. call[c].kind \in Kinds /\ direct[call[c].kind] \in Seq(Items)
    BY CallFields
<1>2. direct' = [direct EXCEPT ![call[c].kind] = s]
    BY Zenon
<1>3. /\ s \in Seq(Items)
      /\ IsInjective(direct[call[c].kind]) =>
            /\ IsInjective(s)
            /\ ToSet(s) = ToSet(direct[call[c].kind]) \ {call[c].item}
    BY <1>1, RemoveOnly
<1>. HIDE DEF s
<1>. QED  BY <1>1, <1>2, <1>3, DirectChanges

LEMMA RuleTypes ==
    ASSUME Types, NEW c \in Callers,
           \/ Undirect(c) \/ AssignRule(c) \/ Check(c) \/ Push(c) \/ UnassignRule(c)
           \/ Unlist(c) \/ Reset(c) \/ Collect(c) \/ Publish(c)
    PROVE  Types'
<1>1. /\ call[c].kind \in Kinds /\ WellFormed(call[c]) /\ call[c] \in Calls
      /\ direct[call[c].kind] \in Seq(Items) /\ direct["domain"] \in Seq(Items)
    BY CallFields
<1>2. CallsOK
    BY DEF Types
<1>3. CASE Undirect(c)
    <2>1. call[c].item \in Items /\ Goes(c, "assign")
        BY <1>1, <1>3 DEF Undirect, At, WellFormed
    <2>2. CallsOK'
        BY <1>2, <2>1, CallGoes DEF Pcs
    <2>3. direct' \in [Kinds -> Seq(Items)]
        BY <1>3, RemovesDirect DEF Undirect
    <2>. QED  BY <1>3, <2>2, <2>3 DEF Undirect, Types, TunnelsOK
<1>4. CASE AssignRule(c)
    <2>1. call[c].item \in Items
        BY <1>1, <1>4 DEF AssignRule, At, WellFormed
    <2>2. CallsOK'
        BY <1>2, <1>4, CallGoes, CallReturns DEF AssignRule, Pcs
    <2>3. servers' \in Seq(Server)
        BY <1>1, <1>4, <2>1, AssignRules DEF AssignRule, Types
    <2>. QED  BY <1>4, <2>2, <2>3 DEF AssignRule, Types, TunnelsOK
<1>5. CASE Check(c)
    <2>1. call[c].item \in Items
        BY <1>1, <1>5 DEF Check, At, WellFormed
    <2>2. Goes(c, "unassign") \/ Goes(c, "push")
        BY <1>5 DEF Check
    <2>3. CallsOK'
        BY <1>2, <2>1, <2>2, CallGoes DEF Pcs
    <2>. QED  BY <1>5, <2>3 DEF Check, Types, TunnelsOK, history
<1>6. CASE Push(c)
    <2>1. call[c].item \in Items
        BY <1>1, <1>6 DEF Push, At, WellFormed
    <2>2. CallsOK'
        BY <1>2, <1>6, <2>1, CallGoes DEF Push, Pcs
    <2>3. direct' = [direct EXCEPT ![call[c].kind] = Append(direct[call[c].kind], call[c].item)]
        BY <1>6, Zenon DEF Push
    <2>4. Append(direct[call[c].kind], call[c].item) \in Seq(Items)
        BY <1>1, <2>1, AppendNew
    <2>5. direct' \in [Kinds -> Seq(Items)]
        BY <1>1, <2>3, <2>4, DirectChanges
    <2>. QED  BY <1>6, <2>2, <2>5 DEF Push, Types, TunnelsOK
<1>7. CASE UnassignRule(c)
    <2>1. CallsOK'
        BY <1>2, <1>7, CallGoes DEF UnassignRule, Pcs
    <2>2. servers' \in Seq(Server)
        BY <1>1, <1>7, UnassignRules DEF UnassignRule, Types
    <2>. QED  BY <1>7, <2>1, <2>2 DEF UnassignRule, Types, TunnelsOK, history
<1>8. CASE Unlist(c)
    <2>1. call[c].item \in Items
        BY <1>1, <1>8 DEF Unlist, At, WellFormed
    <2>2. CallsOK'
        BY <1>2, <1>8, <2>1, CallGoes, CallReturns DEF Unlist, Pcs
    <2>3. direct' \in [Kinds -> Seq(Items)]
        BY <1>8, RemovesDirect DEF Unlist, Types
    <2>. QED  BY <1>8, <2>2, <2>3 DEF Unlist, Types, TunnelsOK
<1>9. CASE Reset(c)
    <2>1. CallsOK'
        BY <1>2, <1>9, CallGoes, CallReturns DEF Reset, Pcs
    <2>. QED  BY <1>9, <2>1 DEF Reset, Types, TunnelsOK, history
<1>10. CASE Collect(c)
    <2>. DEFINE x == [call[c] EXCEPT !.pc = "publish", !.domains = ToSet(direct["domain"])]
    <2>1. call' = [call EXCEPT ![c] = x]
        BY <1>10, Zenon DEF Collect
    <2>2. ToSet(direct["domain"]) \subseteq Items
        BY <1>1 DEF ToSet
    <2>3. x \in Calls /\ WellFormed(x)
        BY <1>1, <2>2 DEF Calls, Pcs, WellFormed
    <2>. HIDE DEF x
    <2>4. CallsOK'
        BY <1>2, <2>1, <2>3, CallBecomes
    <2>. QED  BY <1>10, <2>4 DEF Collect, Types, TunnelsOK, history
<1>11. CASE Publish(c)
    <2>1. CallsOK'
        BY <1>2, <1>11, CallReturns DEF Publish
    <2>2. pac' \subseteq Items
        BY <1>1, <1>11 DEF Publish, Calls
    <2>. QED  BY <1>11, <2>1, <2>2 DEF Publish, Types, TunnelsOK
<1>. QED  BY <1>3, <1>4, <1>5, <1>6, <1>7, <1>8, <1>9, <1>10, <1>11

(* The steps of the calls about servers, and of set_proxy_state.           *)
LEMMA InitialisedFields ==
    ASSUME NEW s \in Server, NEW x \in Lookups(s)
    PROVE  x \in Server /\ x.rules = s.rules
BY RegistryAssumption DEF Lookups, Initialised, Server

LEMMA ServerTypes ==
    ASSUME Types, NEW c \in Callers,
           Lookup(c) \/ Add(c) \/ Replace(c) \/ Enable(c) \/ Delete(c) \/ Write(c)
    PROVE  Types'
<1>1. WellFormed(call[c]) /\ call[c] \in Calls
    BY CallFields
<1>2. CallsOK /\ servers \in Seq(Server) /\ IsList(servers)
    BY DEF Types, IsList
<1>3. CASE Lookup(c)
    <2>1. call[c].config \in Server
        BY <1>1, <1>3 DEF Lookup, At, WellFormed
    <2>2. PICK config \in Lookups(call[c].config) :
              call' = [call EXCEPT ![c].pc = IF At(c, "lookup") THEN "add" ELSE "replace",
                                   ![c].config = config]
        BY <1>3 DEF Lookup
    <2>. DEFINE x == [call[c] EXCEPT !.pc = IF At(c, "lookup") THEN "add" ELSE "replace",
                                     !.config = config]
    <2>3. call' = [call EXCEPT ![c] = x]
        BY <2>2, Zenon
    <2>4. config \in Server
        BY <2>1, <2>2, InitialisedFields
    <2>5. x \in Calls /\ WellFormed(x)
        BY <1>1, <2>4 DEF Calls, Pcs, WellFormed
    <2>. HIDE DEF x
    <2>6. CallsOK'
        BY <1>2, <2>3, <2>5, CallBecomes
    <2>. QED  BY <1>3, <2>6 DEF Lookup, Types, TunnelsOK, history
<1>4. CASE Add(c)
    <2>1. call[c].config \in Server
        BY <1>1, <1>4 DEF Add, At, WellFormed
    <2>2. servers' \in Seq(Server) /\ CallsOK'
        BY <1>2, <1>4, <2>1, RulesAppend, CallReturns DEF Add
    <2>. QED  BY <1>4, <2>2 DEF Add, Types, TunnelsOK
<1>5. CASE Replace(c)
    <2>1. call[c].config \in Server
        BY <1>1, <1>5 DEF Replace, At, WellFormed
    <2>2. CASE FirstOf(call[c].host) = 0
        BY <1>2, <1>5, <2>2, CallReturns DEF Replace, Types, TunnelsOK
    <2>3. CASE FirstOf(call[c].host) # 0
        <3>1. FirstOf(call[c].host) \in 1..Len(servers)
            BY <1>2, <2>3, Placed
        <3>2. servers' \in Seq(Server)
            BY <1>2, <1>5, <2>1, <2>3, <3>1, RulesPut DEF Replace
        <3>. QED  BY <1>2, <1>5, <3>2, CallReturns DEF Replace, Types, TunnelsOK
    <2>. QED  BY <2>2, <2>3
<1>6. CASE Enable(c)
    <2>1. servers' \in Seq(Server)
        BY <1>2, <1>6, EnableRules
    <2>. QED  BY <1>2, <1>6, <2>1, CallReturns DEF Enable, Types, TunnelsOK, history
<1>7. CASE Delete(c)
    <2>1. servers' \in Seq(Server)
        BY <1>2, <1>7, KnownPlace, RulesRemoved DEF Delete
    <2>2. CallsOK'
        <3>. DEFINE off == [call[c] EXCEPT !.pc = "write", !.host = "Off"]
        <3>1. call' = [call EXCEPT ![c] = off] \/ Returns(c)
            BY <1>7, Zenon DEF Delete
        <3>2. off \in Calls /\ WellFormed(off)
            BY <1>1 DEF Calls, Pcs, WellFormed
        <3>. HIDE DEF off
        <3>. QED  BY <1>2, <3>1, <3>2, CallBecomes, CallReturns
    <2>. QED  BY <1>7, <2>1, <2>2 DEF Delete, Types, TunnelsOK
<1>8. CASE Write(c)
    <2>1. call[c].host \in {"Pac", "Off"}
        BY <1>1, <1>8 DEF Write, At, WellFormed
    <2>. QED  BY <1>2, <1>8, <2>1, CallReturns DEF Write, Types, TunnelsOK
<1>. QED  BY <1>3, <1>4, <1>5, <1>6, <1>7, <1>8

LEMMA BesideTypes ==
    ASSUME Types, Load \/ OpenPage \/ (\E t \in Tunnels : TunnelStep(t)) \/ UNCHANGED vars
    PROVE  Types'
<1>1. servers \in Seq(Server) /\ loading \in Seq(Server) /\ IsList(servers)
    BY DEF Types, IsList
<1>2. CASE Load
    <2>1. Head(loading) \in Server /\ Tail(loading) \in Seq(Server)
        BY <1>1, <1>2, RulesFirst DEF Load
    <2>2. PICK config \in Lookups(Head(loading)) : servers' = Append(servers, config)
        BY <1>2 DEF Load
    <2>3. servers' \in Seq(Server)
        BY <1>1, <2>1, <2>2, InitialisedFields, RulesAppend
    <2>. QED  BY <1>2, <2>1, <2>3 DEF Load, Types, CallsOK, TunnelsOK, history
<1>3. CASE OpenPage
    BY <1>1, <1>3 DEF OpenPage, Types, CallsOK, TunnelsOK, history
<1>4. CASE \E t \in Tunnels : TunnelStep(t)
    <2>1. PICK t \in Tunnels : TunnelStep(t)
        BY <1>4
    <2>. DEFINE Becomes(x) == tunnel' = [tunnel EXCEPT ![t] = x]
    <2>2. ASSUME NEW x \in Copies, x.pc = "lookup" => x.config \in Server, Becomes(x)
          PROVE  TunnelsOK'
        <3>1. tunnel' \in [Tunnels -> Copies]
            BY <2>2 DEF Types, TunnelsOK
        <3>2. \A u \in Tunnels : tunnel'[u] = IF u = t THEN x ELSE tunnel[u]
            BY <2>2 DEF Types, TunnelsOK
        <3>. QED  BY <2>2, <3>1, <3>2 DEF Types, TunnelsOK
    <2>3. Ends(t) => TunnelsOK'
        <3>. DEFINE x == [pc |-> "idle", host |-> NoHost, config |-> <<>>]
        <3>1. x \in Copies /\ x.pc = "idle"
            BY DEF Copies
        <3>. HIDE DEF x
        <3>2. Ends(t) => Becomes(x)
            BY DEF Ends, x
        <3>. QED  BY <2>2, <3>1, <3>2
    <2>4. tunnel[t] \in Copies /\ (tunnel[t].pc = "lookup" => tunnel[t].config \in Server)
        BY DEF Types, TunnelsOK
    <2>5. CASE Select(t)
        <3>1. PICK i \in DOMAIN servers :
                  Becomes([pc |-> "copy", host |-> servers[i].host, config |-> <<>>])
            BY <2>5 DEF Select
        <3>. DEFINE x == [pc |-> "copy", host |-> servers[i].host, config |-> <<>>]
        <3>2. servers[i] \in Server
            BY <1>1
        <3>3. x \in Copies /\ x.pc = "copy"
            BY <3>2 DEF Copies, Server
        <3>. HIDE DEF x
        <3>4. TunnelsOK'
            BY <2>2, <3>1, <3>3 DEF x
        <3>. QED  BY <2>5, <3>4 DEF Select, Types, CallsOK, history
    <2>6. CASE Copy(t)
        <3>1. CASE Known(tunnel[t].host)
            <4>. DEFINE s == servers[FirstOf(tunnel[t].host)]
                        x == [tunnel[t] EXCEPT !.pc = "lookup", !.config = s]
            <4>1. FirstOf(tunnel[t].host) \in 1..Len(servers)
                BY <1>1, <3>1, KnownPlace
            <4>2. s \in Server
                BY <1>1, <4>1
            <4>3. Becomes(x)
                BY <2>6, <3>1, Zenon DEF Copy
            <4>. HIDE DEF s
            <4>4. x \in Copies /\ x.config \in Server
                BY <2>4, <4>2 DEF Copies
            <4>. HIDE DEF x
            <4>. QED  BY <2>2, <2>6, <4>3, <4>4 DEF Copy, Types, CallsOK, history
        <3>2. CASE ~Known(tunnel[t].host)
            BY <2>3, <2>6, <3>2 DEF Copy, Types, CallsOK, history
        <3>. QED  BY <3>1, <3>2
    <2>7. CASE LookupFails(t)
        BY <2>3, <2>7 DEF LookupFails, Types, CallsOK, history
    <2>8. CASE WriteBack(t)
        <3>1. CASE FirstOf(tunnel[t].host) = 0
            BY <2>3, <2>8, <3>1 DEF WriteBack, Types, CallsOK
        <3>2. CASE FirstOf(tunnel[t].host) # 0
            <4>1. FirstOf(tunnel[t].host) \in 1..Len(servers)
                BY <1>1, <3>2, Placed
            <4>2. Initialised(tunnel[t].config) \in Server
                BY <2>4, <2>8, InitialisedFields DEF WriteBack, Lookups
            <4>3. servers' \in Seq(Server)
                BY <1>1, <2>8, <3>2, <4>1, <4>2, RulesPut DEF WriteBack
            <4>. QED  BY <2>3, <2>8, <4>3 DEF WriteBack, Types, CallsOK
        <3>. QED  BY <3>1, <3>2
    <2>. QED  BY <2>1, <2>5, <2>6, <2>7, <2>8 DEF TunnelStep
<1>5. CASE UNCHANGED vars
    BY <1>5 DEF vars, history, Types, CallsOK, TunnelsOK
<1>. QED  BY <1>2, <1>3, <1>4, <1>5

LEMMA StepTypes == Types /\ [Next]_vars => Types'
BY StartsTypes, RuleTypes, ServerTypes, BesideTypes DEF Next, CallStep

(* The lists hold servers and items, the calls and the copies of tunnels   *)
(* what they were given, whatever overlaps.                                *)
THEOREM TypeCorrect == Spec => []TypeOK
<1>1. Types => TypeOK
    <2>. SUFFICES ASSUME Types PROVE TypeOK
        OBVIOUS
    <2>1. ToSet(servers) \subseteq Server /\ ToSet(loading) \subseteq Server
        BY DEF Types, ToSet
    <2>2. \A k \in Kinds : ToSet(direct[k]) \subseteq Items
        BY DEF Types, ToSet
    <2>3. \A c \in Callers : call[c].config = <<>> \/ call[c].config \in Server
        BY CallFields
    <2>4. \A t \in Tunnels : tunnel[t].config = <<>> \/ tunnel[t].config \in Server
        BY DEF Types, TunnelsOK, Copies
    <2>. QED  BY <2>1, <2>2, <2>3, <2>4 DEF Types, TypeOK
<1>. QED  BY <1>1, InitTypes, StepTypes, PTL DEF Spec

-----------------------------------------------------------------------------
(* Calls one at a time.  What is not yet in order is what the call in      *)
(* flight, r, has still to do; without one, r is Idle and nothing is left. *)
(* The item it pushes, or assigns to a server, is in no direct list; only  *)
(* the item it is about to take from the servers is direct and at a server;*)
(* and the PAC file has the direct domains, or the call will publish them, *)
(* or their change was not followed.                                       *)
Direct(kind) == ToSet(direct[kind])
Held(r) ==
    /\ r.pc \in {"assign", "push"} => r.item \notin Direct(r.kind)
    /\ \A k \in Kinds : \A item \in Direct(k) \cap RulesIn(servers, k) :
          r.pc = "unassign" /\ r.kind = k /\ r.item = item
    /\ r.pc = "publish" => r.domains = Direct("domain")
    /\ \/ pac = Direct("domain") \/ pac_stale
       \/ r.pc \in {"assign", "unassign", "reset"} /\ r.kind = "domain" /\ proxy_state = "Pac"
       \/ r.pc \in {"collect", "publish"}

Once == \A k \in Kinds : IsInjective(direct[k])
NotComing == \A k \in Kinds : Direct(k) \cap RulesIn(loading, k) = {}
Sole(c) == \A d \in Callers \ {c} : call[d].pc = "idle"
RulesInv ==
    ~raced =>
        /\ Once /\ NotComing
        /\ \A c \in InFlight : Sole(c) /\ loading = <<>> /\ Held(call[c])
        /\ InFlight = {} => Held(Idle)

LEMMA InitRules == Init => RulesInv
<1>. SUFFICES ASSUME Init PROVE RulesInv
    OBVIOUS
<1>1. PICK config \in Configs :
          /\ loading = config.servers /\ direct = config.direct
          /\ pac = ToSet(config.direct["domain"])
    BY DEF Init
<1>2. Tidy(config)
    BY ConfigsAssumption
<1>3. Once
    BY <1>1, <1>2 DEF Tidy, Once
<1>4. NotComing
    BY <1>1, <1>2 DEF Tidy, NotComing, Direct, RulesIn
<1>5. InFlight = {}
    BY IdleCall DEF Init, InFlight
<1>6. \A k : RulesIn(servers, k) = {}
    BY DEF Init, RulesIn
<1>7. Held(Idle)
    BY <1>1, <1>6, IdleCall DEF Held, Direct
<1>. QED  BY <1>3, <1>4, <1>5, <1>7 DEF RulesInv

(* What a step of the call in flight has to show.                          *)
LEMMA SoleMoves ==
    ASSUME RulesInv, ~raced, NEW c \in Callers, call[c].pc # "idle",
           \A d \in Callers \ {c} : call'[d] = call[d], UNCHANGED loading,
           Once', NotComing', Held(call[c])',
           call'[c] = Idle \/ call'[c].pc # "idle"
    PROVE  RulesInv'
<1>1. c \in InFlight
    BY DEF InFlight
<1>2. Sole(c) /\ loading = <<>>
    BY <1>1 DEF RulesInv
<1>3. Sole(c)' /\ InFlight' \subseteq {c}
    BY <1>2 DEF Sole, InFlight
<1>4. InFlight' = {} => call'[c] = Idle
    BY DEF InFlight
<1>5. call'[c] = Idle /\ Held(call[c])' => Held(Idle)'
    BY DEF Held, Direct
<1>6. InFlight' = {} => Held(Idle)'
    BY <1>4, <1>5
<1>. QED  BY <1>2, <1>3, <1>6 DEF RulesInv

(* A call that begins alone.                                               *)
LEMMA StartsRules ==
    ASSUME RulesInv, Types, NEW c \in Callers, NEW x, Starts(c, x), ~raced',
           x.pc \notin {"idle", "assign", "push", "publish"}, CallsOK'
    PROVE  RulesInv'
<1>1. ~raced /\ InFlight = {} /\ loading = <<>>
    BY DEF Starts
<1>2. UNCHANGED <<loading, servers, direct, proxy_state, pac, pac_stale>>
      /\ call' = [call EXCEPT ![c] = x]
    BY DEF Starts
<1>3. call'[c] = x /\ \A d \in Callers \ {c} : call'[d] = call[d]
    BY <1>2 DEF Types, CallsOK
<1>4. InFlight' = {c} /\ Sole(c)'
    BY <1>1, <1>3 DEF InFlight, Sole
<1>5. Held(Idle)
    BY <1>1 DEF RulesInv
<1>6. \A k \in Kinds : Direct(k) \cap RulesIn(servers, k) = {}
    BY <1>5, IdleCall DEF Held
<1>7. pac = Direct("domain") \/ pac_stale
    BY <1>5, IdleCall DEF Held
<1>8. Held(call[c])'
    BY <1>2, <1>3, <1>6, <1>7 DEF Held, Direct
<1>9. Once' /\ NotComing'
    BY <1>1, <1>2 DEF RulesInv, Once, NotComing, Direct
<1>. QED  BY <1>1, <1>2, <1>4, <1>8, <1>9 DEF RulesInv

LEMMA CallsStartRules == ASSUME RulesInv, Types, NEW c \in Callers, CallStarts(c) PROVE RulesInv'
<1>1. CallsOK'
    BY StartsTypes DEF Types
<1>2. PICK x : Starts(c, x) /\ x.pc \notin {"idle", "assign", "push", "publish"}
    <2>1. CASE set_rule(c)
        <3>1. PICK kind \in Kinds, item \in Items, host \in Hosts \cup {NoHost} :
                  Starts(c, [Idle EXCEPT !.pc = IF host = NoHost THEN "check" ELSE "undirect",
                                         !.kind = kind, !.item = item, !.host = host])
            BY <2>1, Zenon DEF set_rule
        <3>2. [Idle EXCEPT !.pc = IF host = NoHost THEN "check" ELSE "undirect",
                           !.kind = kind, !.item = item, !.host = host].pc \in {"check", "undirect"}
            BY DEF Idle
        <3>. QED  BY <3>1, <3>2
    <2>2. CASE remove_rule(c)
        <3>1. PICK kind \in Kinds, item \in Items :
                  Starts(c, [Idle EXCEPT !.pc = "unlist", !.kind = kind, !.item = item])
            BY <2>2, Zenon DEF remove_rule
        <3>2. [Idle EXCEPT !.pc = "unlist", !.kind = kind, !.item = item].pc = "unlist"
            BY DEF Idle
        <3>. QED  BY <3>1, <3>2
    <2>3. CASE add_server(c)
        <3>1. PICK config : Starts(c, [Idle EXCEPT !.pc = "lookup", !.config = config])
            BY <2>3, Zenon DEF add_server
        <3>2. [Idle EXCEPT !.pc = "lookup", !.config = config].pc = "lookup"
            BY DEF Idle
        <3>. QED  BY <3>1, <3>2
    <2>4. CASE update_server(c)
        <3>1. PICK host, config : Starts(c, [Idle EXCEPT !.pc = "relookup", !.host = host,
                                                         !.config = config])
            BY <2>4, Zenon DEF update_server
        <3>2. [Idle EXCEPT !.pc = "relookup", !.host = host, !.config = config].pc = "relookup"
            BY DEF Idle
        <3>. QED  BY <3>1, <3>2
    <2>5. CASE set_enabled(c) \/ delete_server(c) \/ set_proxy_state(c)
        <3>1. PICK pc \in {"enable", "delete", "write"} :
                  \E host : Starts(c, [Idle EXCEPT !.pc = pc, !.host = host])
            BY <2>5, Zenon DEF set_enabled, delete_server, set_proxy_state
        <3>2. PICK host : Starts(c, [Idle EXCEPT !.pc = pc, !.host = host])
            BY <3>1
        <3>3. [Idle EXCEPT !.pc = pc, !.host = host].pc = pc
            BY DEF Idle
        <3>. QED  BY <3>2, <3>3
    <2>. QED  BY <2>1, <2>2, <2>3, <2>4, <2>5 DEF CallStarts
<1>3. CASE ~raced'
    BY <1>1, <1>2, <1>3, StartsRules
<1>. QED  BY <1>3 DEF RulesInv

LEMMA InFlightHeld ==
    ASSUME RulesInv, ~raced, NEW c \in Callers, call[c].pc # "idle"
    PROVE  /\ Once /\ NotComing /\ Sole(c) /\ loading = <<>> /\ Held(call[c])
           /\ UNCHANGED loading => NotComing'
<1>1. Once /\ NotComing /\ Sole(c) /\ loading = <<>> /\ Held(call[c])
    BY DEF RulesInv, InFlight
<1>2. \A k : RulesIn(<<>>, k) = {}
    BY DEF RulesIn
<1>3. UNCHANGED loading => NotComing'
    BY <1>1, <1>2 DEF NotComing
<1>. QED  BY <1>1, <1>3

(* Of the direct ones the item is gone, or it is added; the PAC file       *)
(* follows in this call or is known to be stale.                           *)
LEMMA UndirectRules ==
    ASSUME RulesInv, Types, ~raced, NEW c \in Callers,
           Undirect(c) \/ (Unlist(c) /\ Listed(call[c].kind, call[c].item))
    PROVE  RulesInv'
<1>. DEFINE kind == call[c].kind
            item == call[c].item
<1>1. /\ call[c].pc \in {"undirect", "unlist"}
      /\ \/ call[c].pc = "undirect" /\ Goes(c, "assign")
         \/ call[c].pc = "unlist" /\ Goes(c, "unassign")
      /\ direct' = [direct EXCEPT ![call[c].kind] = RemoveFirst(@, call[c].item)]
      /\ PacLags(kind) /\ UNCHANGED <<loading, servers, proxy_state, pac, raced>>
    BY Zenon DEF Undirect, Unlist, At
<1>2. Once /\ NotComing' /\ Held(call[c])
    BY <1>1, InFlightHeld
<1>3. kind \in Kinds /\ item \in Items
    BY <1>1, CallFields DEF WellFormed
<1>4. /\ \A k \in Kinds : k # kind => direct'[k] = direct[k]
      /\ IsInjective(direct'[kind]) /\ ToSet(direct'[kind]) = ToSet(direct[kind]) \ {item}
    BY <1>1, <1>2, <1>3, RemovesDirect DEF Once
<1>5. Once'
    BY <1>2, <1>4 DEF Once
<1>6. /\ \A d \in Callers \ {c} : call'[d] = call[d]
      /\ call'[c].pc \in {"assign", "unassign"} /\ call'[c].kind = kind /\ call'[c].item = item
    BY <1>1, <1>3, CallGoes DEF Types, Pcs
<1>. HIDE DEF kind, item
<1>7. \A k \in Kinds : \A i \in ToSet(direct'[k]) : i \in Direct(k)
    BY <1>4 DEF Direct
<1>8. \A k \in Kinds : Direct(k) \cap RulesIn(servers, k) = {}
    BY <1>1, <1>2 DEF Held
<1>9. \A k \in Kinds : ToSet(direct'[k]) \cap RulesIn(servers', k) = {}
    BY <1>1, <1>7, <1>8
<1>10. item \notin ToSet(direct'[kind])
    BY <1>4
<1>11. \/ pac = ToSet(direct'["domain"]) \/ pac_stale'
       \/ kind = "domain" /\ proxy_state = "Pac"
    <2>1. pac = Direct("domain") \/ pac_stale
        BY <1>1, <1>2 DEF Held
    <2>2. CASE kind = "domain"
        BY <1>1, <2>1, <2>2 DEF PacLags, Direct
    <2>3. CASE kind # "domain"
        <3>1. direct'["domain"] = direct["domain"]
            BY <1>4, <2>3 DEF Kinds
        <3>. QED  BY <1>1, <2>1, <3>1 DEF PacLags, Direct
    <2>. QED  BY <2>2, <2>3
<1>12. Held(call[c])'
    BY <1>1, <1>6, <1>9, <1>10, <1>11 DEF Held, Direct
<1>. QED  BY <1>1, <1>2, <1>5, <1>6, <1>12, SoleMoves

LEMMA PushRules ==
    ASSUME RulesInv, Types, ~raced, NEW c \in Callers, Push(c)
    PROVE  RulesInv'
<1>. DEFINE kind == call[c].kind
            item == call[c].item
<1>1. /\ call[c].pc = "push" /\ Goes(c, "unassign")
      /\ direct' = [direct EXCEPT ![kind] = Append(direct[kind], item)]
      /\ PacLags(kind) /\ UNCHANGED <<loading, servers, proxy_state, pac, raced>>
    BY Zenon DEF Push, At
<1>2. Once /\ NotComing' /\ Held(call[c])
    BY <1>1, InFlightHeld
<1>3. kind \in Kinds /\ item \in Items /\ direct[kind] \in Seq(Items)
    BY <1>1, CallFields DEF WellFormed
<1>4. item \notin ToSet(direct[kind])
    BY <1>1, <1>2 DEF Held, Direct
<1>. DEFINE s == Append(direct[kind], item)
<1>5. s \in Seq(Items) /\ IsInjective(s) /\ ToSet(s) = ToSet(direct[kind]) \cup {item}
    BY <1>2, <1>3, <1>4, AppendNew DEF Once
<1>. HIDE DEF s
<1>6. \A k \in Kinds : direct'[k] = IF k = kind THEN s ELSE direct[k]
    <2>1. direct' = [direct EXCEPT ![kind] = s]
        BY <1>1 DEF s
    <2>. QED  BY <1>3, <1>5, <2>1, DirectChanges
<1>7. Once'
    BY <1>2, <1>5, <1>6 DEF Once
<1>8. /\ \A d \in Callers \ {c} : call'[d] = call[d]
      /\ call'[c].pc = "unassign" /\ call'[c].kind = kind /\ call'[c].item = item
    BY <1>1, <1>3, CallGoes DEF Types, Pcs
<1>. HIDE DEF kind, item
<1>9. \A k \in Kinds : ToSet(direct'[k])
          = IF k = kind THEN Direct(k) \cup {item} ELSE Direct(k)
    BY <1>5, <1>6 DEF Direct
<1>10. \A k \in Kinds : Direct(k) \cap RulesIn(servers, k) = {}
    BY <1>1, <1>2 DEF Held
<1>11. \A k \in Kinds : \A i \in ToSet(direct'[k]) \cap RulesIn(servers', k) : k = kind /\ i = item
    <2>. TAKE k \in Kinds
    <2>. TAKE i \in ToSet(direct'[k]) \cap RulesIn(servers', k)
    <2>1. i \notin Direct(k)
        BY <1>1, <1>10
    <2>. QED  BY <1>9, <2>1
<1>12. \/ pac = ToSet(direct'["domain"]) \/ pac_stale'
       \/ kind = "domain" /\ proxy_state = "Pac"
    <2>1. pac = Direct("domain") \/ pac_stale
        BY <1>1, <1>2 DEF Held
    <2>2. CASE kind = "domain"
        BY <1>1, <2>1, <2>2 DEF PacLags, Direct
    <2>3. CASE kind # "domain"
        <3>1. ToSet(direct'["domain"]) = Direct("domain")
            BY <1>9, <2>3 DEF Kinds
        <3>. QED  BY <1>1, <2>1, <3>1 DEF PacLags
    <2>. QED  BY <2>2, <2>3
<1>13. Held(call[c])'
    BY <1>1, <1>8, <1>11, <1>12 DEF Held, Direct
<1>. QED  BY <1>1, <1>2, <1>7, <1>8, <1>13, SoleMoves

(* A server takes an item that is no longer direct; or none takes it, and  *)
(* the call fails before the PAC file follows.                             *)
LEMMA AssignRuleRules ==
    ASSUME RulesInv, Types, ~raced, NEW c \in Callers, AssignRule(c)
    PROVE  RulesInv'
<1>1. call[c].pc = "assign" /\ UNCHANGED <<loading, direct, proxy_state, pac, raced>>
    BY DEF AssignRule, At
<1>2. Once' /\ NotComing' /\ Held(call[c])
    BY <1>1, InFlightHeld DEF Once
<1>3. call[c].kind \in Kinds /\ call[c].item \in Items
    BY <1>1, CallFields DEF WellFormed
<1>4. /\ call[c].item \notin Direct(call[c].kind)
      /\ \A k \in Kinds : Direct(k) \cap RulesIn(servers, k) = {}
      /\ \/ pac = Direct("domain") \/ pac_stale
         \/ call[c].kind = "domain" /\ proxy_state = "Pac"
    BY <1>1, <1>2 DEF Held
<1>5. CASE Known(call[c].host)
    <2>1. /\ Goes(c, "reset") /\ UNCHANGED pac_stale
          /\ Assign(call[c].kind, call[c].item, call[c].host)
        BY <1>5 DEF AssignRule
    <2>2. /\ \A d \in Callers \ {c} : call'[d] = call[d]
          /\ call'[c].pc = "reset" /\ call'[c].kind = call[c].kind
        BY <2>1, CallGoes DEF Types, Pcs
    <2>3. \A k \in Kinds : RulesIn(servers', k)
              \subseteq RulesIn(servers, k) \cup (IF k = call[c].kind THEN {call[c].item} ELSE {})
        BY <1>3, <1>5, <2>1, AssignRules DEF Types
    <2>4. \A k \in Kinds : Direct(k) \cap RulesIn(servers', k) = {}
        BY <1>4, <2>3
    <2>5. Held(call[c])'
        BY <1>1, <1>4, <2>1, <2>2, <2>4 DEF Held, Direct
    <2>. QED  BY <1>1, <1>2, <2>2, <2>5, SoleMoves
<1>6. CASE ~Known(call[c].host)
    <2>1. Returns(c) /\ PacLost(call[c].kind) /\ UNCHANGED servers
        BY <1>6 DEF AssignRule
    <2>2. call'[c] = Idle /\ \A d \in Callers \ {c} : call'[d] = call[d]
        BY <2>1, CallReturns DEF Types
    <2>3. pac = Direct("domain") \/ pac_stale'
        BY <1>4, <2>1 DEF PacLost, Direct
    <2>4. Held(call[c])'
        BY <1>1, <1>4, <2>1, <2>2, <2>3, IdleCall DEF Held, Direct
    <2>. QED  BY <1>1, <1>2, <2>2, <2>4, SoleMoves
<1>. QED  BY <1>5, <1>6

LEMMA CheckRules ==
    ASSUME RulesInv, Types, ~raced, NEW c \in Callers, Check(c)
    PROVE  RulesInv'
<1>1. /\ call[c].pc = "check"
      /\ UNCHANGED <<loading, servers, direct, proxy_state, pac, raced, pac_stale>>
    BY DEF Check, At, history
<1>2. Once' /\ NotComing' /\ Held(call[c])
    BY <1>1, InFlightHeld DEF Once
<1>3. call[c].item \in Items
    BY <1>1, CallFields DEF WellFormed
<1>4. \/ Goes(c, "unassign")
      \/ Goes(c, "push") /\ call[c].item \notin Direct(call[c].kind)
    BY DEF Check, Listed, Direct
<1>5. /\ \A d \in Callers \ {c} : call'[d] = call[d]
      /\ call'[c].kind = call[c].kind /\ call'[c].item = call[c].item
      /\ \/ call'[c].pc = "unassign"
         \/ call'[c].pc = "push" /\ call[c].item \notin Direct(call[c].kind)
    BY <1>3, <1>4, CallGoes DEF Types, Pcs
<1>6. Held(call[c])'
    BY <1>1, <1>2, <1>5 DEF Held, Direct
<1>. QED  BY <1>1, <1>2, <1>5, <1>6, SoleMoves

LEMMA UnassignRuleRules ==
    ASSUME RulesInv, Types, ~raced, NEW c \in Callers, UnassignRule(c)
    PROVE  RulesInv'
<1>1. /\ call[c].pc = "unassign" /\ Goes(c, "reset") /\ Unassign(call[c].kind, call[c].item)
      /\ UNCHANGED <<loading, direct, proxy_state, pac, raced, pac_stale>>
    BY DEF UnassignRule, At, history
<1>2. Once' /\ NotComing' /\ Held(call[c])
    BY <1>1, InFlightHeld DEF Once
<1>3. call[c].kind \in Kinds
    BY CallFields
<1>4. /\ \A d \in Callers \ {c} : call'[d] = call[d]
      /\ call'[c].pc = "reset" /\ call'[c].kind = call[c].kind
    BY <1>1, CallGoes DEF Types, Pcs
<1>5. \A k \in Kinds : RulesIn(servers', k)
          = RulesIn(servers, k) \ (IF k = call[c].kind THEN {call[c].item} ELSE {})
    BY <1>1, <1>3, UnassignRules DEF Types
<1>6. \A k \in Kinds : \A item \in Direct(k) \cap RulesIn(servers, k) :
          k = call[c].kind /\ item = call[c].item
    BY <1>2 DEF Held
<1>7. \A k \in Kinds : Direct(k) \cap RulesIn(servers', k) = {}
    BY <1>5, <1>6
<1>8. \/ pac = Direct("domain") \/ pac_stale
      \/ call[c].kind = "domain" /\ proxy_state = "Pac"
    BY <1>1, <1>2 DEF Held
<1>9. Held(call[c])'
    BY <1>1, <1>4, <1>7, <1>8 DEF Held, Direct
<1>. QED  BY <1>1, <1>2, <1>4, <1>9, SoleMoves

(* Steps that change neither list: what is in order for the call as it was *)
(* is so for the call as it becomes.                                       *)
LEMMA ResetRules ==
    ASSUME RulesInv, Types, ~raced, NEW c \in Callers,
           \/ Reset(c) \/ Collect(c) \/ Publish(c) \/ Lookup(c) \/ Write(c)
           \/ Unlist(c) /\ ~Listed(call[c].kind, call[c].item)
    PROVE  RulesInv'
<1>1. call[c].pc \in {"reset", "collect", "publish", "lookup", "relookup", "write", "unlist"}
      /\ UNCHANGED <<loading, servers, direct, raced>>
    BY DEF Reset, Collect, Publish, Lookup, Write, Unlist, At, history
<1>2. Once' /\ NotComing' /\ Held(call[c])
    BY <1>1, InFlightHeld DEF Once
<1>3. \A k \in Kinds : Direct(k) \cap RulesIn(servers, k) = {}
    BY <1>1, <1>2 DEF Held
<1>4. CASE Reset(c)
    <2>1. call[c].pc = "reset" /\ UNCHANGED <<proxy_state, pac, pac_stale>>
        BY <1>4 DEF Reset, At, history
    <2>2. CASE proxy_state = "Pac"
        <3>1. call'[c].pc = "collect" /\ \A d \in Callers \ {c} : call'[d] = call[d]
            BY <1>4, <2>2, CallGoes DEF Reset, Types, Pcs
        <3>2. Held(call[c])'
            BY <1>1, <1>3, <3>1 DEF Held, Direct
        <3>. QED  BY <1>1, <1>2, <3>1, <3>2, SoleMoves
    <2>3. CASE proxy_state # "Pac"
        <3>1. call'[c] = Idle /\ \A d \in Callers \ {c} : call'[d] = call[d]
            BY <1>4, <2>3, CallReturns DEF Reset, Types
        <3>2. pac = Direct("domain") \/ pac_stale
            BY <1>2, <2>1, <2>3 DEF Held
        <3>3. Held(call[c])'
            BY <1>1, <1>3, <2>1, <3>1, <3>2, IdleCall DEF Held, Direct
        <3>. QED  BY <1>1, <1>2, <3>1, <3>3, SoleMoves
    <2>. QED  BY <2>2, <2>3
<1>5. CASE Collect(c)
    <2>. DEFINE x == [call[c] EXCEPT !.pc = "publish", !.domains = ToSet(direct["domain"])]
    <2>1. call' = [call EXCEPT ![c] = x]
        BY <1>5, Zenon DEF Collect
    <2>2. x.pc = "publish" /\ x.domains = ToSet(direct["domain"])
        BY CallFields DEF Calls
    <2>. HIDE DEF x
    <2>3. call'[c] = x /\ \A d \in Callers \ {c} : call'[d] = call[d]
        BY <2>1 DEF Types, CallsOK
    <2>4. Held(call[c])'
        BY <1>1, <1>3, <2>2, <2>3 DEF Held, Direct
    <2>. QED  BY <1>1, <1>2, <2>2, <2>3, <2>4, SoleMoves
<1>6. CASE Publish(c)
    <2>1. call[c].pc = "publish" /\ pac' = call[c].domains /\ Returns(c)
        BY <1>6 DEF Publish, At
    <2>2. call'[c] = Idle /\ \A d \in Callers \ {c} : call'[d] = call[d]
        BY <2>1, CallReturns DEF Types
    <2>3. pac' = Direct("domain")
        BY <1>2, <2>1 DEF Held
    <2>4. Held(call[c])'
        BY <1>1, <1>3, <2>2, <2>3, IdleCall DEF Held, Direct
    <2>. QED  BY <1>1, <1>2, <2>2, <2>4, SoleMoves
<1>7. CASE Lookup(c) \/ Write(c) \/ (Unlist(c) /\ ~Listed(call[c].kind, call[c].item))
    <2>1. call[c].pc \in {"lookup", "relookup", "write", "unlist"} /\ UNCHANGED <<pac, pac_stale>>
        BY <1>7 DEF Lookup, Write, Unlist, At, history
    <2>2. pac = Direct("domain") \/ pac_stale
        BY <1>2, <2>1 DEF Held
    <2>3. /\ \A d \in Callers \ {c} : call'[d] = call[d]
          /\ call'[c] = Idle \/ call'[c].pc \in {"add", "replace"}
        <3>1. CASE Write(c) \/ (Unlist(c) /\ ~Listed(call[c].kind, call[c].item))
            BY <3>1, CallReturns DEF Write, Unlist, Types
        <3>2. CASE Lookup(c)
            <4>1. PICK config :
                      call' = [call EXCEPT ![c].pc = IF At(c, "lookup") THEN "add" ELSE "replace",
                                           ![c].config = config]
                BY <3>2 DEF Lookup
            <4>. DEFINE x == [call[c] EXCEPT !.pc = IF At(c, "lookup") THEN "add" ELSE "replace",
                                             !.config = config]
            <4>2. call' = [call EXCEPT ![c] = x]
                BY <4>1, Zenon
            <4>3. x.pc \in {"add", "replace"}
                BY CallFields DEF Calls
            <4>. HIDE DEF x
            <4>. QED  BY <4>2, <4>3 DEF Types, CallsOK
        <3>. QED  BY <1>7, <3>1, <3>2
    <2>4. Held(call[c])'
        BY <1>1, <1>3, <2>1, <2>2, <2>3, IdleCall DEF Held, Direct
    <2>. QED  BY <1>1, <1>2, <2>3, <2>4, SoleMoves
<1>. QED  BY <1>4, <1>5, <1>6, <1>7

(* What raced has raced.                                                   *)
LEMMA RacedStays ==
    ASSUME \/ \E c \in Callers : CallStep(c)
           \/ Load \/ OpenPage \/ (\E t \in Tunnels : TunnelStep(t)) \/ UNCHANGED vars
    PROVE  raced => raced'
<1>1. ASSUME NEW c \in Callers, CallStep(c) PROVE raced => raced'
    <2>1. CASE Add(c)
        BY <2>1, Zenon DEF Add
    <2>2. CASE Replace(c)
        <3>1. \/ raced' = raced
              \/ raced' = (raced \/ Outdated(call[c].config, FirstOf(call[c].host)))
            BY <2>2 DEF Replace
        <3>. QED  BY <3>1, Zenon
    <2>3. CASE ~Add(c) /\ ~Replace(c)
        <3>1. raced' = raced
            BY <1>1, <2>3 DEF CallStep, Undirect, AssignRule, Check, Push, UnassignRule, Unlist,
                   Reset, Collect, Publish, Lookup, Enable, Delete, Write, history
        <3>. QED  BY <3>1
    <2>. QED  BY <2>1, <2>2, <2>3
<1>2. ASSUME NEW t \in Tunnels, TunnelStep(t) PROVE raced => raced'
    <2>1. CASE WriteBack(t)
        <3>1. \/ raced' = raced
              \/ raced' = (raced \/ Initialised(tunnel[t].config).rules
                                        # servers[FirstOf(tunnel[t].host)].rules)
            BY <2>1 DEF WriteBack
        <3>. QED  BY <3>1, Zenon
    <2>2. CASE Select(t) \/ Copy(t) \/ LookupFails(t)
        <3>1. raced' = raced
            BY <2>2 DEF Select, Copy, LookupFails, history
        <3>. QED  BY <3>1
    <2>. QED  BY <1>2, <2>1, <2>2 DEF TunnelStep
<1>3. ASSUME Load \/ OpenPage \/ UNCHANGED vars PROVE raced => raced'
    <2>1. raced' = raced
        BY <1>3 DEF Load, OpenPage, vars, history
    <2>. QED  BY <2>1
<1>. QED  BY <1>1, <1>2, <1>3

(* Steps that change the list of servers.  One that comes back brings no   *)
(* direct item, or it was a race.                                          *)
LEMMA ServersRules ==
    ASSUME RulesInv, Types, ~raced', NEW c \in Callers,
           Add(c) \/ Replace(c) \/ Enable(c) \/ Delete(c)
    PROVE  RulesInv'
<1>1. /\ call[c].pc \in {"add", "replace", "enable", "delete"} /\ ~raced
      /\ UNCHANGED <<loading, direct, pac, pac_stale>>
    <2>1. ~raced
        BY RacedStays DEF CallStep
    <2>. QED  BY <2>1 DEF Add, Replace, Enable, Delete, At, history
<1>2. Once' /\ NotComing' /\ Held(call[c])
    BY <1>1, InFlightHeld DEF Once
<1>3. /\ \A k \in Kinds : Direct(k) \cap RulesIn(servers, k) = {}
      /\ pac = Direct("domain") \/ pac_stale
    BY <1>1, <1>2 DEF Held
<1>4. servers \in Seq(Server) /\ IsList(servers)
    BY DEF Types, IsList
<1>5. /\ \A d \in Callers \ {c} : call'[d] = call[d]
      /\ call'[c] = Idle \/ call'[c].pc = "write"
    <2>1. CASE Returns(c)
        BY <2>1, CallReturns DEF Types
    <2>2. CASE ~Returns(c)
        <3>. DEFINE off == [call[c] EXCEPT !.pc = "write", !.host = "Off"]
        <3>1. call' = [call EXCEPT ![c] = off]
            BY <2>2, Zenon DEF Add, Replace, Enable, Delete
        <3>2. off.pc = "write"
            BY CallFields DEF Calls
        <3>. HIDE DEF off
        <3>. QED  BY <3>1, <3>2 DEF Types, CallsOK
    <2>. QED  BY <2>1, <2>2
<1>6. ASSUME NEW k \in Kinds PROVE Direct(k) \cap RulesIn(servers', k) = {}
    <2>1. CASE Add(c)
        <3>1. call[c].config \in Server
            BY <2>1, CallFields DEF Add, At, WellFormed
        <3>2. RulesIn(servers', k) = RulesIn(servers, k) \cup call[c].config.rules[k]
            BY <1>4, <2>1, <3>1, RulesAppend DEF Add
        <3>3. ~Outdated(call[c].config, 0)
            BY <2>1 DEF Add
        <3>4. ASSUME NEW item \in Direct(k), item \in call[c].config.rules[k] PROVE FALSE
            <4>1. item \in Items
                BY <3>1, <3>4, RulesFields
            <4>. QED  BY <3>3, <3>4, <4>1 DEF Outdated, Listed, Direct
        <3>. QED  BY <1>3, <3>2, <3>4
    <2>2. CASE Replace(c)
        <3>1. CASE FirstOf(call[c].host) = 0
            BY <1>3, <2>2, <3>1 DEF Replace
        <3>2. CASE FirstOf(call[c].host) # 0
            <4>1. call[c].config \in Server
                BY <2>2, CallFields DEF Replace, At, WellFormed
            <4>2. FirstOf(call[c].host) \in 1..Len(servers)
                BY <1>4, <3>2, Placed
            <4>3. RulesIn(servers', k) \subseteq RulesIn(servers, k) \cup call[c].config.rules[k]
                BY <1>4, <2>2, <3>2, <4>1, <4>2, RulesPut DEF Replace
            <4>4. ~Outdated(call[c].config, FirstOf(call[c].host))
                BY <2>2, <3>2 DEF Replace
            <4>5. ASSUME NEW item \in Direct(k), item \in call[c].config.rules[k] PROVE FALSE
                <5>1. item \in Items
                    BY <4>1, <4>5, RulesFields
                <5>. QED  BY <4>4, <4>5, <5>1 DEF Outdated, Listed, Direct
            <4>. QED  BY <1>3, <4>3, <4>5
        <3>. QED  BY <3>1, <3>2
    <2>3. CASE Enable(c)
        BY <1>3, <1>4, <2>3, EnableRules
    <2>4. CASE Delete(c)
        <3>1. CASE Known(call[c].host)
            <4>1. RulesIn(servers', k) \subseteq RulesIn(servers, k)
                BY <1>4, <2>4, <3>1, KnownPlace, RulesRemoved DEF Delete
            <4>. QED  BY <1>3, <4>1
        <3>2. CASE ~Known(call[c].host)
            BY <1>3, <2>4, <3>2 DEF Delete
        <3>. QED  BY <3>1, <3>2
    <2>. QED  BY <2>1, <2>2, <2>3, <2>4
<1>7. Held(call[c])'
    BY <1>1, <1>3, <1>5, <1>6, IdleCall DEF Held, Direct
<1>. QED  BY <1>1, <1>2, <1>5, <1>7, SoleMoves

(* The loading ends before the first call, or it was a race; a tunnel that *)
(* writes back other rules than there are is one.                          *)
LEMMA BesideRules ==
    ASSUME RulesInv, Types, ~raced',
           Load \/ OpenPage \/ (\E t \in Tunnels : TunnelStep(t)) \/ UNCHANGED vars
    PROVE  RulesInv'
<1>1. UNCHANGED <<call, direct, proxy_state, pac, pac_stale>> /\ ~raced
    <2>1. ~raced
        BY RacedStays
    <2>. QED  BY <2>1 DEF Load, OpenPage, TunnelStep, Select, Copy, LookupFails, WriteBack, vars, history
<1>2. servers \in Seq(Server) /\ loading \in Seq(Server) /\ IsList(servers)
    BY DEF Types, IsList
<1>3. Once' /\ InFlight' = InFlight /\ \A c \in InFlight : Sole(c)'
    BY <1>1 DEF RulesInv, Once, InFlight, Sole
<1>4. CASE Load
    <2>1. InFlight = {} /\ NotComing
        BY <1>1, <1>4 DEF RulesInv, Load
    <2>2. Held(Idle)
        BY <1>1, <2>1 DEF RulesInv
    <2>3. Head(loading) \in Server /\ loading # <<>> /\ loading' = Tail(loading)
        BY <1>2, <1>4, RulesFirst DEF Load
    <2>4. PICK config \in Lookups(Head(loading)) : servers' = Append(servers, config)
        BY <1>4 DEF Load
    <2>5. config \in Server /\ config.rules = Head(loading).rules
        BY <2>3, <2>4, InitialisedFields
    <2>6. ASSUME NEW k \in Kinds
          PROVE  /\ Direct(k) \cap RulesIn(servers', k) = {}
                 /\ Direct(k) \cap RulesIn(loading', k) = {}
        <3>1. RulesIn(servers', k) = RulesIn(servers, k) \cup Head(loading).rules[k]
            BY <1>2, <2>4, <2>5, RulesAppend
        <3>2. /\ Head(loading).rules[k] \subseteq RulesIn(loading, k)
              /\ RulesIn(loading', k) \subseteq RulesIn(loading, k)
            BY <1>2, <2>3, RulesFirst
        <3>3. Direct(k) \cap RulesIn(servers, k) = {}
            BY <2>2, IdleCall DEF Held
        <3>4. Direct(k) \cap RulesIn(loading, k) = {}
            BY <2>1 DEF NotComing
        <3>. QED  BY <3>1, <3>2, <3>3, <3>4
    <2>7. Held(Idle)' /\ NotComing'
        BY <1>1, <2>2, <2>6, IdleCall DEF Held, NotComing, Direct
    <2>. QED  BY <1>3, <2>1, <2>7 DEF RulesInv
<1>5. CASE OpenPage \/ (\E t \in Tunnels : TunnelStep(t)) \/ UNCHANGED vars
    <2>1. UNCHANGED loading
        BY <1>5 DEF OpenPage, TunnelStep, Select, Copy, LookupFails, WriteBack, vars
    <2>2. \A k \in Kinds : RulesIn(servers', k) = RulesIn(servers, k)
        <3>1. CASE OpenPage \/ UNCHANGED vars
                  \/ (\E t \in Tunnels : Select(t) \/ Copy(t) \/ LookupFails(t))
            BY <3>1 DEF OpenPage, Select, Copy, LookupFails, vars
        <3>2. ASSUME NEW t \in Tunnels, WriteBack(t)
              PROVE  \A k \in Kinds : RulesIn(servers', k) = RulesIn(servers, k)
            <4>1. CASE FirstOf(tunnel[t].host) = 0
                BY <3>2, <4>1 DEF WriteBack
            <4>2. CASE FirstOf(tunnel[t].host) # 0
                <5>1. FirstOf(tunnel[t].host) \in 1..Len(servers)
                    BY <1>2, <4>2, Placed
                <5>2. tunnel[t].config \in Server
                    BY <3>2 DEF WriteBack, Types, TunnelsOK
                <5>3. Initialised(tunnel[t].config) \in Server
                    BY <5>2, InitialisedFields DEF Lookups
                <5>4. /\ servers' = [servers EXCEPT ![FirstOf(tunnel[t].host)]
                                                        = Initialised(tunnel[t].config)]
                      /\ Initialised(tunnel[t].config).rules
                             = servers[FirstOf(tunnel[t].host)].rules
                    BY <3>2, <4>2 DEF WriteBack
                <5>. QED  BY <1>2, <5>1, <5>3, <5>4, RulesPut
            <4>. QED  BY <4>1, <4>2
        <3>. QED  BY <1>5, <3>1, <3>2 DEF TunnelStep
    <2>3. NotComing'
        BY <1>1, <2>1 DEF RulesInv, NotComing, Direct
    <2>4. ASSUME NEW c \in InFlight PROVE Held(call[c])'
        <3>1. Held(call[c])
            BY <1>1 DEF RulesInv
        <3>. QED  BY <1>1, <2>2, <3>1 DEF Held, Direct
    <2>5. InFlight = {} => Held(Idle)'
        <3>1. InFlight = {} => Held(Idle)
            BY <1>1 DEF RulesInv
        <3>. QED  BY <1>1, <2>2, <3>1 DEF Held, Direct
    <2>. QED  BY <1>1, <1>3, <2>1, <2>3, <2>4, <2>5 DEF RulesInv
<1>. QED  BY <1>4, <1>5

LEMMA StepRules == ASSUME RulesInv, Types, [Next]_vars PROVE RulesInv'
<1>1. CASE raced'
    BY <1>1 DEF RulesInv
<1>2. CASE ~raced'
    <2>1. ASSUME NEW c \in Callers, CallStep(c) PROVE RulesInv'
        <3>1. ~raced
            BY <1>2, <2>1, RacedStays
        <3>2. CASE Unlist(c)
            BY <3>1, <3>2, UndirectRules, ResetRules
        <3>. QED  BY <1>2, <2>1, <3>1, <3>2, UndirectRules, AssignRuleRules, CheckRules, PushRules,
                     UnassignRuleRules, ResetRules, ServersRules DEF CallStep
    <2>. QED  BY <1>2, <2>1, CallsStartRules, BesideRules DEF Next
<1>. QED  BY <1>1, <1>2

LEMMA AlwaysRules == Spec => [](Types /\ RulesInv)
<1>1. Types /\ RulesInv /\ [Next]_vars => (Types /\ RulesInv)'
    BY StepTypes, StepRules
<1>. QED  BY <1>1, InitTypes, InitRules, PTL DEF Spec

(* set_rule and remove_rule change two lists and all the servers one lock  *)
(* after another.  When calls do not overlap, an item that goes direct is  *)
(* at no server once they are done, whatever tunnels write back in between *)
(* and whatever servers come and go.                                       *)
THEOREM NeverBoth == Spec => []DirectOrAssigned
<1>1. RulesInv => DirectOrAssigned
    <2>. SUFFICES ASSUME RulesInv, AtRest, ~raced,
                         NEW kind \in Kinds, NEW item \in Items, Listed(kind, item),
                         NEW i \in DOMAIN servers
                  PROVE  ~Has(i, kind, item)
        BY DEF DirectOrAssigned
    <2>1. Held(Idle)
        BY DEF RulesInv, AtRest
    <2>2. Direct(kind) \cap RulesIn(servers, kind) = {}
        BY <2>1, IdleCall DEF Held
    <2>. QED  BY <2>2 DEF Listed, Direct, RulesIn, Has
<1>. QED  BY <1>1, AlwaysRules, PTL

(* set_rule looks a direct item up before it pushes it, remove_rule takes  *)
(* only the first: no item is listed twice, at any time.                   *)
THEOREM ListedOnce == Spec => []DirectOnce
<1>1. RulesInv => DirectOnce
    BY DEF RulesInv, Once, IsInjective, DirectOnce
<1>. QED  BY <1>1, AlwaysRules, PTL

(* The PAC file is made of the direct domains in a step of its own, after  *)
(* the lists changed, and only in state Pac: it still agrees with them     *)
(* when the call is done, or the change is known not to be followed.       *)
THEOREM PacAgrees == Spec => []PacFollowsDirect
<1>1. RulesInv => PacFollowsDirect
    <2>1. ASSUME RulesInv, AtRest, ~raced PROVE Held(Idle)
        BY <2>1 DEF RulesInv, AtRest
    <2>. QED  BY <2>1, IdleCall DEF PacFollowsDirect, Held, Direct
<1>. QED  BY <1>1, AlwaysRules, PTL
=============================================================================
