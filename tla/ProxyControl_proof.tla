-------------------------- MODULE ProxyControl_proof --------------------------
(***************************************************************************)
(* Proofs about ProxyControl for any number of callers, calls and ports.   *)
(***************************************************************************)
EXTENDS ProxyControl, TLAPS

(* The inductive invariant, in its parts.                                  *)

Pcs == {"idle", "store", "signal", "write", "reset", "content", "publish", "point", "apply"}
ServePcs == {"loading", "begin", "point", "apply", "channel", "address", "bind", "accepting",
             "replace", "readdress", "ended"}
Shapes ==
    /\ call \in [Callers -> [pc : Pcs, want : States, port : Ports \cup {NoPort}]]
    /\ serve \in [pc : ServePcs, want : States, port : Ports \cup {NoPort}]
    /\ proxy_port \in Ports \cup {NoPort} /\ proxy_state \in States /\ proxy_address \in Ports \cup {NoPort}
    /\ accept_errors \in Nat

(* No signal is under way: none in the channel, none to be sent. *)
Quiet == ~signalled /\ NoneAt({"signal"})

(* A call that finds no sender in the slot may fail without harm: serve    *)
(* has yet to read the port, or has a signal it has not taken.             *)
SlotEmpty ==
    ~restart => signalled \/ serve.pc \in {"loading", "begin", "point", "apply", "channel",
                                           "replace", "ended"}

Current(port) == port = proxy_port \/ (accept_errors > 0 /\ port = proxy_address)
BindsCurrent == serve.pc = "bind" /\ Quiet => Current(serve.port)
ListensCurrent == serve.pc = "accepting" /\ Quiet => \E port : listener = {port} /\ Current(port)

IInv == Shapes /\ SlotEmpty /\ BindsCurrent /\ ListensCurrent

LEMMA InitInv == Init => IInv
BY ProxyControlAssumption
   DEF Init, IInv, Shapes, SlotEmpty, BindsCurrent, ListensCurrent, Idle, Pcs, ServePcs, States,
       NoPort

-----------------------------------------------------------------------------
(* What the invariant speaks of, and a step that changes none of it except *)
(* where the calls are.                                                    *)
watched == <<proxy_port, proxy_address, restart, signalled, serve, listener, accept_errors>>

LEMMA OtherStep ==
    ASSUME IInv, UNCHANGED watched, Shapes',
           NoneAt({"signal"})' => NoneAt({"signal"})
    PROVE  IInv'
BY DEF IInv, watched, SlotEmpty, BindsCurrent, ListensCurrent, Quiet, Current

(* The steps of a call, except for those of set_proxy_port that store the  *)
(* port and send the signal.                                               *)
LEMMA CallInv ==
    ASSUME IInv, NEW c \in Callers,
           \/ set_proxy_port(c) \/ set_proxy_state(c) \/ set_domain(c)
           \/ WriteState(c) \/ Reset(c) \/ ReadForContent(c) \/ Publish(c) \/ Point(c) \/ Apply(c)
    PROVE  IInv'
<1>. USE DEF IInv, Shapes
<1>1. UNCHANGED watched
    BY DEF watched, serveVars, bounds, history, set_proxy_port, set_proxy_state, set_domain, Starts,
           WriteState, Reset, ReadForContent, Publish, Point, Apply
<1>2. proxy_state' \in States
    BY DEF set_proxy_port, set_proxy_state, set_domain, Starts, WriteState, Reset,
           ReadForContent, Publish, Point, Apply
<1>3. PICK ask \in [pc : Pcs \ {"signal"}, want : States, port : Ports \cup {NoPort}] :
          call' = [call EXCEPT ![c] = ask]
    <2>. USE DEF Pcs, States
    <2>1. CASE set_proxy_port(c) \/ set_proxy_state(c) \/ set_domain(c)
        BY <2>1 DEF set_proxy_port, set_proxy_state, set_domain, Starts
    <2>2. CASE WriteState(c) \/ Reset(c)
        <3>1. call' \in {[call EXCEPT ![c] = [call[c] EXCEPT !.pc = "point"]],
                         [call EXCEPT ![c] = [pc |-> "content", want |-> "Pac", port |-> NoPort]],
                         [call EXCEPT ![c] = Idle]}
            BY <2>2 DEF WriteState, Reset, Goes, Returns
        <3>. QED  BY <3>1 DEF Idle
    <2>3. CASE ReadForContent(c) \/ Publish(c) \/ Point(c) \/ Apply(c)
        <3>1. call' \in {[call EXCEPT ![c] = [call[c] EXCEPT !.pc = "publish", !.port = proxy_port]],
                         [call EXCEPT ![c] = [call[c] EXCEPT !.pc = "apply", !.port = proxy_port]],
                         [call EXCEPT ![c] = [call[c] EXCEPT !.pc = "point"]],
                         [call EXCEPT ![c] = Idle]}
            BY <2>3 DEF ReadForContent, Publish, Point, Apply, Goes, Returns
        <3>. QED  BY <3>1 DEF Idle
    <2>. QED  BY <2>1, <2>2, <2>3
<1>4. Shapes'
    BY <1>1, <1>2, <1>3 DEF watched
<1>5. call[c].pc # "signal"
    BY DEF set_proxy_port, set_proxy_state, set_domain, Starts, WriteState, Reset,
           ReadForContent, Publish, Point, Apply
<1>6. NoneAt({"signal"})' => NoneAt({"signal"})
    BY <1>3, <1>5 DEF NoneAt
<1>. QED  BY <1>1, <1>4, <1>6, OtherStep

(* The new port is there with the signal still to be sent.                 *)
LEMMA StoreInv == ASSUME IInv, NEW c \in Callers, Store(c) PROVE IInv'
<1>. USE DEF IInv, Shapes
<1>1. /\ call' = [call EXCEPT ![c] = [call[c] EXCEPT !.pc = "signal"]]
      /\ proxy_port' = call[c].port
      /\ UNCHANGED <<proxy_state, proxy_address, restart, signalled, serve, accept_errors>>
    BY DEF Store, Goes, serveVars, bounds
<1>2. Shapes'
    BY <1>1 DEF Pcs
<1>3. call'[c].pc = "signal"
    BY <1>1
<1>4. ~Quiet'
    BY <1>3 DEF Quiet, NoneAt
<1>. QED  BY <1>1, <1>2, <1>4 DEF SlotEmpty, BindsCurrent, ListensCurrent

(* A signal that cannot be sent is one that serve does not need.           *)
LEMMA SignalInv == ASSUME IInv, NEW c \in Callers, Signal(c) PROVE IInv'
<1>. USE DEF IInv, Shapes
<1>1. /\ call' \in {[call EXCEPT ![c] = [call[c] EXCEPT !.pc = "reset"]], [call EXCEPT ![c] = Idle]}
      /\ UNCHANGED <<proxy_port, proxy_state, proxy_address, serve, accept_errors>>
      /\ ~restart'
      /\ \/ ~restart /\ signalled' = signalled
         \/ serve.pc = "ended"
         \/ signalled'
    BY DEF Signal, Goes, Returns, Fails, serveVars, bounds
<1>2. Shapes'
    BY <1>1 DEF Pcs, Idle, States
<1>3. SlotEmpty'
    BY <1>1 DEF SlotEmpty
<1>4. serve.pc \in {"bind", "accepting"} => ~Quiet'
    BY <1>1, <1>3 DEF SlotEmpty, Quiet
<1>. QED  BY <1>1, <1>2, <1>3, <1>4 DEF BindsCurrent, ListensCurrent

(* serve binds the port it has just read, or one that changed meanwhile    *)
(* and whose signal is under way.                                          *)
LEMMA ServeInv ==
    ASSUME IInv, Serve \/ AcceptFails
    PROVE  IInv'
<1>. USE DEF IInv, Shapes
<1>1. UNCHANGED <<call, proxy_port, proxy_state>>
    BY DEF Serve, AcceptFails, Begin, ReadState, ServePoint, ServeApply, Channel, Address, Bind,
           RestartSignalled, Replace, Readdress
<1>2. NoneAt({"signal"})' = NoneAt({"signal"})
    BY <1>1 DEF NoneAt
<1>3. CASE Begin \/ ReadState \/ ServePoint \/ ServeApply
    <2>1. /\ serve' \in {[serve EXCEPT !.pc = pc] : pc \in ServePcs}
                           \cup {[serve EXCEPT !.pc = pc, !.want = proxy_state] : pc \in ServePcs}
                           \cup {[serve EXCEPT !.pc = pc, !.port = proxy_port] : pc \in ServePcs}
          /\ serve'.pc \in {"begin", "channel", "point", "apply", "ended"}
          /\ UNCHANGED <<proxy_address, restart, signalled, accept_errors>>
        BY <1>3 DEF Begin, ReadState, ServePoint, ServeApply, ServeGoes, ServePcs, bounds
    <2>2. Shapes'
        BY <1>1, <2>1
    <2>. QED  BY <1>1, <2>1, <2>2 DEF SlotEmpty, BindsCurrent, ListensCurrent
<1>4. CASE Channel \/ Replace
    <2>1. /\ serve' \in {[serve EXCEPT !.pc = "address"], [serve EXCEPT !.pc = "readdress"]}
          /\ restart' /\ UNCHANGED <<proxy_address, signalled, accept_errors>>
        BY <1>4 DEF Channel, Replace, ServeGoes, bounds
    <2>2. Shapes' /\ serve'.pc \in {"address", "readdress"}
        BY <1>1, <2>1 DEF ServePcs
    <2>. QED  BY <1>1, <2>1, <2>2 DEF SlotEmpty, BindsCurrent, ListensCurrent
<1>5. CASE Address \/ Readdress
    <2>1. /\ serve' = [serve EXCEPT !.pc = "bind", !.port = proxy_port]
          /\ serve.pc \in {"address", "readdress"}
          /\ proxy_address' \in {proxy_address, proxy_port}
          /\ UNCHANGED <<restart, signalled, accept_errors>>
        BY <1>5 DEF Address, Readdress, bounds
    <2>2. Shapes' /\ serve'.pc = "bind" /\ serve'.port = proxy_port
        BY <1>1, <2>1 DEF ServePcs
    <2>. QED  BY <1>1, <2>1, <2>2 DEF SlotEmpty, BindsCurrent, ListensCurrent, Current
<1>6. CASE Bind
    <2>1. /\ serve.pc = "bind"
          /\ \/ serve' = [serve EXCEPT !.pc = "accepting"] /\ listener' = {serve.port}
             \/ serve' = [serve EXCEPT !.pc = "ended"]
          /\ UNCHANGED <<proxy_address, restart, signalled, accept_errors>>
        BY <1>6 DEF Bind, ServeGoes, bounds
    <2>2. Shapes'
        BY <1>1, <2>1 DEF ServePcs
    <2>3. serve'.pc = "accepting" /\ Quiet' => \E port : listener' = {port} /\ Current(port)
        BY <1>2, <2>1 DEF BindsCurrent, Quiet
    <2>4. serve'.pc \in {"accepting", "ended"}
        BY <2>1
    <2>. QED  BY <1>1, <2>1, <2>2, <2>3, <2>4 DEF SlotEmpty, BindsCurrent, ListensCurrent, Current
<1>7. CASE RestartSignalled
    <2>1. serve' = [serve EXCEPT !.pc = "replace"] /\ UNCHANGED <<proxy_address, restart, accept_errors>>
        BY <1>7 DEF RestartSignalled, ServeGoes, bounds
    <2>2. Shapes' /\ serve'.pc = "replace"
        BY <1>1, <2>1 DEF ServePcs
    <2>. QED  BY <1>1, <2>1, <2>2 DEF SlotEmpty, BindsCurrent, ListensCurrent
<1>8. CASE AcceptFails
    <2>1. /\ serve' = [serve EXCEPT !.pc = "bind", !.port = proxy_address]
          /\ serve.pc = "accepting"
          /\ accept_errors' = accept_errors + 1
          /\ UNCHANGED <<proxy_address, restart, signalled>>
        BY <1>8 DEF AcceptFails
    <2>2. Shapes'
        <3>1. serve' \in [pc : ServePcs, want : States, port : Ports \cup {NoPort}]
            BY <2>1 DEF ServePcs
        <3>2. accept_errors' \in Nat
            BY <2>1
        <3>. QED  BY <1>1, <2>1, <3>1, <3>2
    <2>3. serve'.pc = "bind" /\ serve'.port = proxy_address' /\ accept_errors' > 0
        BY <2>1
    <2>. QED  BY <1>1, <2>1, <2>2, <2>3 DEF SlotEmpty, BindsCurrent, ListensCurrent, Current
<1>. QED  BY <1>3, <1>4, <1>5, <1>6, <1>7, <1>8 DEF Serve

LEMMA StepInv == IInv /\ [Next]_vars => IInv'
<1>. SUFFICES ASSUME IInv, [Next]_vars PROVE IInv'
    OBVIOUS
<1>1. ASSUME UNCHANGED vars \/ \E port \in Ports : Taken(port) PROVE IInv'
    <2>1. UNCHANGED watched /\ UNCHANGED <<call, proxy_state>>
        BY <1>1 DEF vars, serveVars, bounds, watched, Taken
    <2>2. Shapes' /\ NoneAt({"signal"})' = NoneAt({"signal"})
        BY <2>1 DEF watched, IInv, Shapes, NoneAt
    <2>. QED  BY <2>1, <2>2, OtherStep
<1>2. ASSUME NEW c \in Callers,
             set_proxy_port(c) \/ set_proxy_state(c) \/ set_domain(c) \/ CallStep(c)
      PROVE  IInv'
    BY <1>2, CallInv, StoreInv, SignalInv DEF CallStep
<1>. QED  BY <1>1, <1>2, ServeInv DEF Next

-----------------------------------------------------------------------------
(* serve listens on the port that set_proxy_port stored last, whichever    *)
(* calls overlap and whichever of them found no sender in the slot, for    *)
(* any number of calls: at most a failed accept brings back the address    *)
(* that serve read before its loop.                                        *)
THEOREM ListenerFollows == Spec => []ListenerFollowsPort
<1>1. IInv => ListenerFollowsPort
    BY DEF IInv, ListensCurrent, Quiet, Current, ListenerFollowsPort
<1>. QED  BY <1>1, InitInv, StepInv, PTL DEF Spec

-----------------------------------------------------------------------------
(* The order of the calls.  As long as no two tasks set the state or the   *)
(* system at once and no setting was refused, what a call or serve is about*)
(* to set is what there is to be set.                                      *)

Lone ==
    /\ serve.pc \in Starting => InFlight = {}
    /\ \A c, d \in InFlight : c = d

AtWork ==
    /\ serve.pc \in {"point", "apply"} => serve.want = proxy_state
    /\ serve.pc = "apply" => serve.port = proxy_port
    /\ \A c \in Callers :
          /\ call[c].pc \in {"content", "publish", "point", "apply"} => call[c].want = proxy_state
          /\ call[c].pc \in {"publish", "apply"} => call[c].port = proxy_port
          /\ call[c].pc = "write" => serve.pc # "loading"

(* A call that goes on to reset_proxy will set them in state Pac. *)
WillReset(c) == call[c].pc \in {"signal", "reset"} /\ proxy_state = "Pac"
PacComing == \E c \in Callers : WillReset(c) \/ call[c].pc \in {"content", "publish"}
SystemComing ==
    \E c \in Callers : WillReset(c) \/ call[c].pc \in {"content", "publish", "point", "apply"}

PacOrComing == pac_port = proxy_port \/ "pac" \in stale \/ PacComing
PortOrComing ==
    system.kind # "Off" => system.port = proxy_port \/ "system" \in stale \/ SystemComing

(* Before serve sets the system it may still be off; later only a task     *)
(* that is about to set it excuses another kind.                           *)
KindOrComing ==
    IF serve.pc \in {"loading", "begin"} THEN system.kind \in {"Off", proxy_state}
    ELSE \/ system.kind = proxy_state
         \/ serve.pc \in {"point", "apply"}
         \/ \E c \in Callers : call[c].pc \in {"point", "apply"}

InOrder == Lone /\ AtWork /\ PacOrComing /\ PortOrComing /\ KindOrComing
OrderInv == set_errors \in Nat /\ (Ordered => InOrder)

LEMMA InitOrder == Init => OrderInv
BY DEF Init, OrderInv, InOrder, Lone, AtWork, PacOrComing, PortOrComing, KindOrComing, Idle,
       Starting, InFlight

(* No step makes up for what overlapped or was refused. *)
LEMMA OrderKept ==
    ASSUME set_errors \in Nat, [Next]_vars
    PROVE  set_errors' \in Nat /\ (Ordered' => Ordered)
<1>1. CASE UNCHANGED vars \/ (\E port \in Ports : Taken(port)) \/ Serve \/ AcceptFails
    <2>1. set_errors' \in {set_errors, set_errors + 1}
        BY <1>1 DEF Serve, vars, bounds, Begin, ReadState, ServePoint, ServeApply, Channel, Address,
               Bind, RestartSignalled, Replace, Readdress, AcceptFails, Taken, Refused, Granted
    <2>2. overlapped => overlapped'
        BY <1>1 DEF Serve, vars, history, Begin, ReadState, ServePoint, ServeApply, Channel, Address,
               Bind, RestartSignalled, Replace, Readdress, AcceptFails, Taken
    <2>. QED  BY <2>1, <2>2 DEF Ordered
<1>2. ASSUME NEW c \in Callers,
             set_proxy_port(c) \/ set_proxy_state(c) \/ set_domain(c) \/ CallStep(c)
      PROVE  set_errors' \in Nat /\ (Ordered' => Ordered)
    <2>1. set_errors' \in {set_errors, set_errors + 1}
        BY <1>2 DEF CallStep, bounds, set_proxy_port, set_proxy_state, set_domain, Starts, Store,
               Signal, WriteState, Reset, ReadForContent, Publish, Point, Apply, Refused, Granted
    <2>2. overlapped => overlapped'
        BY <1>2 DEF CallStep, history, set_proxy_port, set_proxy_state, set_domain, Starts, Store,
               Signal, WriteState, Reset, ReadForContent, Publish, Point, Apply
    <2>. QED  BY <2>1, <2>2 DEF Ordered
<1>. QED  BY <1>1, <1>2 DEF Next

-----------------------------------------------------------------------------
(* A call that begins finds no other, and serve at rest.                   *)
LEMMA StartsOrder ==
    ASSUME Shapes, InOrder, Ordered', NEW c \in Callers,
           set_proxy_port(c) \/ set_proxy_state(c) \/ set_domain(c)
    PROVE  InOrder'
<1>1. PICK ask \in [pc : {"store", "write", "reset"}, want : States, port : Ports \cup {NoPort}] :
          call' = [call EXCEPT ![c] = ask] /\ (ask.pc = "write" => serve.pc # "loading")
    BY DEF set_proxy_port, set_proxy_state, set_domain, Starts, States
<1>2. /\ UNCHANGED <<proxy_state, proxy_port, pac_port, system, stale, serve>>
      /\ InFlight = {} /\ serve.pc \notin Starting
    BY DEF set_proxy_port, set_proxy_state, set_domain, Starts, Ordered, serveVars
<1>3. call'[c] = ask /\ \A d \in Callers \ {c} : call'[d].pc = "idle"
    BY <1>1, <1>2 DEF Shapes, InFlight
<1>4. Lone'
    BY <1>2, <1>3 DEF Lone, InFlight
<1>5. AtWork'
    BY <1>1, <1>2, <1>3 DEF InOrder, AtWork
<1>6. \A d \in Callers : call[d].pc = "idle"
    BY <1>2 DEF InFlight
<1>7. PacOrComing' /\ PortOrComing' /\ KindOrComing'
    BY <1>2, <1>6 DEF InOrder, PacOrComing, PortOrComing, KindOrComing, PacComing, SystemComing,
                      WillReset
<1>. QED  BY <1>4, <1>5, <1>7 DEF InOrder

(* What a call that goes on may count on: the others rest, and serve does  *)
(* not set anything.                                                       *)
LEMMA LoneCall ==
    ASSUME Shapes, Lone, NEW c \in Callers, call[c].pc # "idle", NEW ask,
           call' = [call EXCEPT ![c] = ask], serve' = serve
    PROVE  /\ Lone' /\ serve.pc \notin Starting /\ call'[c] = ask
           /\ \A d \in Callers \ {c} : call[d].pc = "idle" /\ call'[d] = call[d]
<1>1. call'[c] = ask /\ \A d \in Callers \ {c} : call'[d] = call[d]
    BY DEF Shapes
<1>2. c \in InFlight /\ serve.pc \notin Starting
    BY DEF InFlight, Lone
<1>3. \A d \in Callers \ {c} : call[d].pc = "idle"
    BY <1>2 DEF InFlight, Lone
<1>4. InFlight' \subseteq {c}
    BY <1>1, <1>3 DEF InFlight
<1>. QED  BY <1>1, <1>2, <1>3, <1>4 DEF Lone

(* The new port, with the signal and in state Pac the reset to come.       *)
LEMMA StoreOrder == ASSUME Shapes, InOrder, NEW c \in Callers, Store(c) PROVE InOrder'
<1>. DEFINE ask == [call[c] EXCEPT !.pc = "signal"]
<1>1. /\ call' = [call EXCEPT ![c] = ask] /\ call[c].pc = "store"
      /\ proxy_state = "Pac" \/ stale' = {"system", "pac"}
      /\ UNCHANGED <<proxy_state, pac_port, system, serve>>
    BY DEF Store, Goes, serveVars
<1>2. ask.pc = "signal"
    BY DEF Shapes
<1>. HIDE DEF ask
<1>3. /\ Lone' /\ serve.pc \notin Starting /\ call'[c] = ask
      /\ \A d \in Callers \ {c} : call[d].pc = "idle" /\ call'[d] = call[d]
    BY <1>1, LoneCall DEF InOrder
<1>4. AtWork'
    BY <1>1, <1>2, <1>3 DEF InOrder, AtWork, Starting
<1>5. PacOrComing' /\ PortOrComing'
    BY <1>1, <1>2, <1>3 DEF PacOrComing, PortOrComing, PacComing, SystemComing, WillReset
<1>6. KindOrComing'
    BY <1>1, <1>3 DEF InOrder, KindOrComing, Starting
<1>. QED  BY <1>3, <1>4, <1>5, <1>6 DEF InOrder

(* A call that fails leaves both behind; one that does not goes on.        *)
LEMMA SignalOrder == ASSUME Shapes, InOrder, NEW c \in Callers, Signal(c) PROVE InOrder'
<1>1. PICK ask \in {Idle, [call[c] EXCEPT !.pc = "reset"]} :
          /\ call' = [call EXCEPT ![c] = ask] /\ call[c].pc = "signal"
          /\ \/ ask.pc = "idle" /\ stale' = {"system", "pac"}
             \/ ask.pc = "reset" /\ stale' = stale
          /\ UNCHANGED <<proxy_state, proxy_port, pac_port, system, serve>>
    <2>1. Idle.pc = "idle" /\ [call[c] EXCEPT !.pc = "reset"].pc = "reset"
        BY DEF Idle, Shapes
    <2>. QED  BY <2>1 DEF Signal, Goes, Returns, Fails, serveVars
<1>2. /\ Lone' /\ serve.pc \notin Starting /\ call'[c] = ask
      /\ \A d \in Callers \ {c} : call[d].pc = "idle" /\ call'[d] = call[d]
    BY <1>1, LoneCall DEF InOrder
<1>3. AtWork'
    BY <1>1, <1>2 DEF InOrder, AtWork
<1>4. PacOrComing' /\ PortOrComing'
    BY <1>1, <1>2 DEF InOrder, PacOrComing, PortOrComing, PacComing, SystemComing, WillReset
<1>5. KindOrComing'
    BY <1>1, <1>2 DEF InOrder, KindOrComing
<1>. QED  BY <1>2, <1>3, <1>4, <1>5 DEF InOrder

LEMMA WriteOrder == ASSUME Shapes, InOrder, NEW c \in Callers, WriteState(c) PROVE InOrder'
<1>. DEFINE ask == [call[c] EXCEPT !.pc = "point"]
<1>1. /\ call' = [call EXCEPT ![c] = ask] /\ call[c].pc = "write"
      /\ proxy_state' = call[c].want
      /\ UNCHANGED <<proxy_port, pac_port, system, serve, stale>>
    BY DEF WriteState, Goes, serveVars, history
<1>2. ask.pc = "point" /\ ask.want = call[c].want
    BY DEF Shapes
<1>. HIDE DEF ask
<1>3. /\ Lone' /\ serve.pc \notin Starting /\ call'[c] = ask
      /\ \A d \in Callers \ {c} : call[d].pc = "idle" /\ call'[d] = call[d]
    BY <1>1, LoneCall DEF InOrder
<1>4. AtWork'
    BY <1>1, <1>2, <1>3 DEF InOrder, AtWork, Starting
<1>5. PacOrComing' /\ PortOrComing'
    BY <1>1, <1>2, <1>3 DEF InOrder, PacOrComing, PortOrComing, PacComing, SystemComing, WillReset
<1>6. serve.pc # "loading"
    BY <1>1 DEF InOrder, AtWork
<1>7. KindOrComing'
    BY <1>1, <1>2, <1>3, <1>6 DEF KindOrComing, Starting
<1>. QED  BY <1>3, <1>4, <1>5, <1>7 DEF InOrder

(* reset_proxy goes on in state Pac only, in which nothing is behind.      *)
LEMMA ResetOrder == ASSUME Shapes, InOrder, NEW c \in Callers, Reset(c) PROVE InOrder'
<1>1. PICK ask \in {Idle, [pc |-> "content", want |-> "Pac", port |-> NoPort]} :
          /\ call' = [call EXCEPT ![c] = ask] /\ call[c].pc = "reset"
          /\ \/ ask.pc = "idle" /\ proxy_state # "Pac"
             \/ ask.pc = "content" /\ ask.want = "Pac" /\ proxy_state = "Pac"
          /\ UNCHANGED <<proxy_state, proxy_port, pac_port, system, serve, stale>>
    BY DEF Reset, Returns, Idle, serveVars, history
<1>2. /\ Lone' /\ serve.pc \notin Starting /\ call'[c] = ask
      /\ \A d \in Callers \ {c} : call[d].pc = "idle" /\ call'[d] = call[d]
    BY <1>1, LoneCall DEF InOrder
<1>3. AtWork'
    BY <1>1, <1>2 DEF InOrder, AtWork
<1>4. PacOrComing' /\ PortOrComing'
    BY <1>1, <1>2 DEF InOrder, PacOrComing, PortOrComing, PacComing, SystemComing, WillReset
<1>5. KindOrComing'
    BY <1>1, <1>2 DEF InOrder, KindOrComing
<1>. QED  BY <1>2, <1>3, <1>4, <1>5 DEF InOrder

(* update_content reads the port that is published, and the setting is     *)
(* made for the port and the state there are.                              *)
LEMMA ReadsOrder ==
    ASSUME Shapes, InOrder, NEW c \in Callers, ReadForContent(c) \/ Point(c)
    PROVE  InOrder'
<1>1. PICK ask \in {[call[c] EXCEPT !.pc = "publish", !.port = proxy_port],
                    [call[c] EXCEPT !.pc = "apply", !.port = proxy_port]} :
          /\ call' = [call EXCEPT ![c] = ask]
          /\ \/ ask.pc = "publish" /\ call[c].pc = "content"
             \/ ask.pc = "apply" /\ call[c].pc = "point"
          /\ ask.want = call[c].want /\ ask.port = proxy_port
          /\ UNCHANGED <<proxy_state, proxy_port, pac_port, system, serve, stale>>
    BY DEF ReadForContent, Point, Shapes, serveVars, history
<1>2. /\ Lone' /\ serve.pc \notin Starting /\ call'[c] = ask
      /\ \A d \in Callers \ {c} : call[d].pc = "idle" /\ call'[d] = call[d]
    BY <1>1, LoneCall DEF InOrder
<1>3. AtWork'
    BY <1>1, <1>2 DEF InOrder, AtWork
<1>4. PacOrComing' /\ PortOrComing'
    BY <1>1, <1>2 DEF InOrder, PacOrComing, PortOrComing, PacComing, SystemComing, WillReset
<1>5. KindOrComing'
    BY <1>1, <1>2 DEF InOrder, KindOrComing
<1>. QED  BY <1>2, <1>3, <1>4, <1>5 DEF InOrder

LEMMA PublishOrder == ASSUME Shapes, InOrder, NEW c \in Callers, Publish(c) PROVE InOrder'
<1>. DEFINE ask == [call[c] EXCEPT !.pc = "point"]
<1>1. /\ call' = [call EXCEPT ![c] = ask] /\ call[c].pc = "publish"
      /\ pac_port' = call[c].port /\ stale' = stale \ {"pac"}
      /\ UNCHANGED <<proxy_state, proxy_port, system, serve>>
    BY DEF Publish, Goes, serveVars
<1>2. ask.pc = "point" /\ ask.want = call[c].want
    BY DEF Shapes
<1>. HIDE DEF ask
<1>3. /\ Lone' /\ serve.pc \notin Starting /\ call'[c] = ask
      /\ \A d \in Callers \ {c} : call[d].pc = "idle" /\ call'[d] = call[d]
    BY <1>1, LoneCall DEF InOrder
<1>4. AtWork'
    BY <1>1, <1>2, <1>3 DEF InOrder, AtWork
<1>5. PacOrComing'
    BY <1>1 DEF InOrder, AtWork, PacOrComing
<1>6. PortOrComing' /\ KindOrComing'
    BY <1>1, <1>2, <1>3 DEF InOrder, PortOrComing, KindOrComing, SystemComing
<1>. QED  BY <1>3, <1>4, <1>5, <1>6 DEF InOrder

LEMMA ApplyOrder ==
    ASSUME Shapes, InOrder, set_errors \in Nat, Ordered', NEW c \in Callers, Apply(c)
    PROVE  InOrder'
<1>1. /\ call' = [call EXCEPT ![c] = Idle] /\ call[c].pc = "apply"
      /\ stale' = stale \ {"system"} /\ system' = Setting(call[c].want, call[c].port)
      /\ UNCHANGED <<proxy_state, proxy_port, pac_port, serve>>
    BY DEF Apply, Returns, Refused, Ordered, serveVars
<1>2. Idle.pc = "idle"
    BY DEF Idle
<1>3. /\ Lone' /\ serve.pc \notin Starting /\ call'[c] = Idle
      /\ \A d \in Callers \ {c} : call[d].pc = "idle" /\ call'[d] = call[d]
    BY <1>1, LoneCall DEF InOrder
<1>4. AtWork'
    BY <1>1, <1>2, <1>3 DEF InOrder, AtWork
<1>5. PacOrComing'
    BY <1>1, <1>2, <1>3 DEF InOrder, PacOrComing, PacComing, WillReset
<1>6. system'.kind = proxy_state /\ (system'.kind # "Off" => system'.port = proxy_port)
    BY <1>1 DEF InOrder, AtWork, Setting
<1>7. PortOrComing' /\ KindOrComing'
    BY <1>1, <1>6 DEF PortOrComing, KindOrComing
<1>. QED  BY <1>3, <1>4, <1>5, <1>7 DEF InOrder

-----------------------------------------------------------------------------
(* serve begins with no call under way, or it overlaps one.                *)
LEMMA ServeOrder ==
    ASSUME Shapes, InOrder, set_errors \in Nat, Ordered', Serve \/ AcceptFails
    PROVE  InOrder'
<1>. USE DEF Shapes
<1>1. UNCHANGED <<call, proxy_port, proxy_state, pac_port>> /\ (InFlight' = InFlight)
    <2>1. UNCHANGED <<call, proxy_port, proxy_state, pac_port>>
        BY DEF Serve, AcceptFails, Begin, ReadState, ServePoint, ServeApply, Channel, Address, Bind,
               RestartSignalled, Replace, Readdress
    <2>. QED  BY <2>1 DEF InFlight
<1>2. CASE Begin
    <2>1. serve' = [serve EXCEPT !.pc = "begin"] /\ serve.pc = "loading"
          /\ InFlight = {} /\ UNCHANGED <<system, stale>>
        BY <1>2 DEF Begin, ServeGoes, Ordered
    <2>2. serve'.pc = "begin"
        BY <2>1
    <2>. QED  BY <1>1, <2>1, <2>2
              DEF InOrder, Lone, AtWork, PacOrComing, PortOrComing, KindOrComing, PacComing,
                  SystemComing, WillReset
<1>3. CASE ReadState
    <2>1. PICK pc \in {"channel", "point"} :
              /\ serve' = [serve EXCEPT !.pc = pc, !.want = proxy_state]
              /\ proxy_state # "Off" => pc = "point"
              /\ serve.pc = "begin" /\ UNCHANGED <<system, stale>>
        BY <1>3 DEF ReadState, history
    <2>2. serve'.pc = pc /\ serve'.want = proxy_state
        BY <2>1
    <2>3. InFlight = {}
        BY <2>1 DEF InOrder, Lone, Starting
    <2>. QED  BY <1>1, <2>1, <2>2, <2>3
              DEF InOrder, Lone, AtWork, PacOrComing, PortOrComing, KindOrComing, PacComing,
                  SystemComing, WillReset
<1>4. CASE ServePoint
    <2>1. serve' = [serve EXCEPT !.pc = "apply", !.port = proxy_port] /\ serve.pc = "point"
          /\ UNCHANGED <<system, stale>>
        BY <1>4 DEF ServePoint, history
    <2>2. serve'.pc = "apply" /\ serve'.port = proxy_port /\ serve'.want = serve.want
        BY <2>1
    <2>. QED  BY <1>1, <2>1, <2>2
              DEF InOrder, Lone, AtWork, PacOrComing, PortOrComing, KindOrComing, PacComing,
                  SystemComing, WillReset, Starting
<1>5. CASE ServeApply
    <2>1. /\ serve' = [serve EXCEPT !.pc = "channel"] /\ serve.pc = "apply"
          /\ system' = Setting(serve.want, serve.port) /\ stale' = stale \ {"system"}
        BY <1>5 DEF ServeApply, ServeGoes, Refused, Ordered
    <2>2. serve'.pc = "channel"
        BY <2>1
    <2>3. system'.kind = proxy_state /\ (system'.kind # "Off" => system'.port = proxy_port)
        BY <2>1 DEF InOrder, AtWork, Setting
    <2>. QED  BY <1>1, <2>1, <2>2, <2>3
              DEF InOrder, Lone, AtWork, PacOrComing, PortOrComing, KindOrComing, PacComing,
                  SystemComing, WillReset, Starting
<1>6. CASE Channel \/ Address \/ Bind \/ RestartSignalled \/ Replace \/ Readdress \/ AcceptFails
    <2>1. /\ serve.pc \notin {"loading"} \cup Starting /\ serve'.pc \notin {"loading"} \cup Starting
          /\ UNCHANGED <<system, stale>>
        BY <1>6 DEF Channel, Address, Bind, RestartSignalled, Replace, Readdress, AcceptFails,
               ServeGoes, Starting, history
    <2>. QED  BY <1>1, <2>1
              DEF InOrder, Lone, AtWork, PacOrComing, PortOrComing, KindOrComing, PacComing,
                  SystemComing, WillReset, Starting
<1>. QED  BY <1>2, <1>3, <1>4, <1>5, <1>6 DEF Serve

LEMMA StepOrder == IInv /\ OrderInv /\ [Next]_vars => OrderInv'
<1>. SUFFICES ASSUME IInv, OrderInv, [Next]_vars, Ordered' PROVE InOrder'
    BY OrderKept DEF OrderInv
<1>1. Shapes /\ InOrder /\ set_errors \in Nat
    BY OrderKept DEF IInv, OrderInv
<1>2. ASSUME UNCHANGED vars \/ \E port \in Ports : Taken(port) PROVE InOrder'
    <2>1. UNCHANGED <<proxy_state, proxy_port, pac_port, system, serve, call, stale>>
        BY <1>2 DEF vars, serveVars, history, Taken
    <2>. QED  BY <1>1, <2>1
              DEF InOrder, Lone, InFlight, AtWork, PacOrComing, PortOrComing, KindOrComing,
                  PacComing, SystemComing, WillReset
<1>3. ASSUME NEW c \in Callers,
             set_proxy_port(c) \/ set_proxy_state(c) \/ set_domain(c) \/ CallStep(c)
      PROVE  InOrder'
    BY <1>1, <1>3, StartsOrder, StoreOrder, SignalOrder, WriteOrder, ResetOrder, ReadsOrder,
       PublishOrder, ApplyOrder DEF CallStep
<1>. QED  BY <1>1, <1>2, <1>3, ServeOrder DEF Next

LEMMA AlwaysInOrder == Spec => []OrderInv
<1>1. Spec => []IInv
    BY InitInv, StepInv, PTL DEF Spec
<1>. QED  BY <1>1, InitOrder, StepOrder, PTL DEF Spec

(* As long as calls come one after the other and no setting is refused, the*)
(* system's proxy is, whenever all rest, what the state says and at the    *)
(* port there is: of the calls that change the port, the state and the     *)
(* rules, in any number and order and also before serve begins, none       *)
(* leaves the system behind, but for a port changed in state All or by a   *)
(* call that failed.                                                       *)
THEOREM SystemFollows == Spec => []SystemFollowsState
<1>1. OrderInv => SystemFollowsState
    <2>1. InFlight = {} => \A c \in Callers : call[c].pc = "idle"
        BY DEF InFlight
    <2>. QED  BY <2>1 DEF OrderInv, InOrder, SystemFollowsState, AtRest, Starting, KindOrComing,
                          PortOrComing, SystemComing, WillReset
<1>. QED  BY <1>1, AlwaysInOrder, PTL

(* Under the same condition the PAC file names the port there is, but for  *)
(* a port changed in state All or Off or by a call that failed.            *)
THEOREM PacFollows == Spec => []PacFollowsPort
<1>1. OrderInv => PacFollowsPort
    <2>1. InFlight = {} => \A c \in Callers : call[c].pc = "idle"
        BY DEF InFlight
    <2>. QED  BY <2>1 DEF OrderInv, InOrder, PacFollowsPort, AtRest, PacOrComing, PacComing,
                          WillReset
<1>. QED  BY <1>1, AlwaysInOrder, PTL
=============================================================================
