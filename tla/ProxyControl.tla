----------------------------- MODULE ProxyControl -----------------------------
(***************************************************************************)
(* The client's proxy as the user turns it on and off and moves it to      *)
(* another port (crates/client/src/proxy.rs): the task that runs           *)
(* `Proxy::serve`, the calls of the user interface that run beside it, the *)
(* PAC file (pac_file_service.rs) and the proxy settings of the system.    *)
(*                                                                         *)
(* A step is what a task does between two points where another may run:    *)
(* the awaited locks, and the atomic port that no lock guards.  The        *)
(* channel of a restart is its sender in `restart` and its receiver in     *)
(* `serve`, always of the same channel while serve runs.                   *)
(***************************************************************************)
EXTENDS Naturals, FiniteSets

CONSTANTS
    Callers,        \* calls in flight at most, one each
    Ports, First,   \* the ports tried, and the one of the configuration
    MaxCalls,       \* bound: calls made
    MaxAcceptErrors,\* bound: failures of accept
    MaxSetErrors    \* bound: settings the system refuses

ASSUME ProxyControlAssumption ==
    First \in Ports /\ MaxCalls \in Nat /\ MaxAcceptErrors \in Nat /\ MaxSetErrors \in Nat

States == {"Pac", "All", "Off"}

VARIABLES
    proxy_state,    \* Proxy::proxy_state
    proxy_port,     \* PacFileService::proxy_port
    pac_port,       \* the port in PacFileService::pac_content
    system,         \* the system's settings: [kind, port]
    restart,        \* Proxy::restart holds the sender
    signalled,      \* the receiver has got the signal
    serve,          \* Proxy::serve: [pc, want, port], the state and the port it read
    proxy_address,  \* serve's own proxy_address, read before its loop
    listener,       \* the ports it listens on (none or one)
    busy,           \* ports other programs listen on
    call,           \* per caller: [pc, want, port]
    made, accept_errors, set_errors,       \* the bounds
    overlapped,     \* history: two tasks set the state or the system at once
    stale,          \* history: what a change of the port left as it was: "system", "pac"
    panicked        \* history: a call panicked

serveVars == <<serve, proxy_address, listener>>
bounds == <<made, accept_errors, set_errors>>
history == <<overlapped, stale, panicked>>
vars == <<proxy_state, proxy_port, pac_port, system, restart, signalled, serveVars, busy,
          call, bounds, history>>

NoPort == 0
Idle == [pc |-> "idle", want |-> "Off", port |-> NoPort]
InFlight == {c \in Callers : call[c].pc # "idle"}
Starting == {"begin", "point", "apply"}
-----------------------------------------------------------------------------
(* The configuration is loaded while serve has not begun; the PAC file has *)
(* been written once.                                                      *)
Init ==
    /\ proxy_state \in States /\ proxy_port = First /\ pac_port = First
    /\ system = [kind |-> "Off", port |-> NoPort]
    /\ restart = FALSE /\ signalled = FALSE
    /\ serve = [pc |-> "loading", want |-> "Off", port |-> NoPort] /\ proxy_address = NoPort
    /\ listener = {} /\ busy = {} /\ call = [c \in Callers |-> Idle]
    /\ made = 0 /\ accept_errors = 0 /\ set_errors = 0
    /\ overlapped = FALSE /\ stale = {} /\ panicked = FALSE

Refused == set_errors < MaxSetErrors /\ set_errors' = set_errors + 1
Granted == UNCHANGED set_errors
Setting(kind, port) ==
    [kind |-> kind, port |-> IF kind = "Off" THEN NoPort ELSE port]

(* TcpListener::bind, which fails on a port that is taken, also by the     *)
(* listener that is still open.                                            *)
Free(port) == port \notin busy \cup listener
-----------------------------------------------------------------------------
(* The calls: set_proxy_port, set_proxy_state (of which del_server and     *)
(* stop are uses) and the changes of rules that end in reset_proxy.  The   *)
(* page with the state is shown when serve has begun.                      *)

Starts(c, pc, want, port) ==
    /\ call[c].pc = "idle" /\ made < MaxCalls
    /\ made' = made + 1
    /\ call' = [call EXCEPT ![c] = [pc |-> pc, want |-> want, port |-> port]]
    /\ overlapped' = (overlapped \/ InFlight # {} \/ serve.pc \in Starting)
    /\ UNCHANGED <<proxy_state, proxy_port, pac_port, system, restart, signalled, serveVars,
                   busy, accept_errors, set_errors, stale, panicked>>

set_proxy_port(c) == \E port \in Ports : Starts(c, "store", "Off", port)
set_proxy_state(c) == \E s \in States : serve.pc # "loading" /\ Starts(c, "write", s, NoPort)
set_domain(c) == Starts(c, "reset", "Off", NoPort)

Goes(c, pc) == call' = [call EXCEPT ![c].pc = pc]
Returns(c) == call' = [call EXCEPT ![c] = Idle]

Store(c) ==
    /\ call[c].pc = "store" /\ Goes(c, "signal")
    /\ proxy_port' = call[c].port
    /\ stale' = IF proxy_state = "Pac" THEN stale ELSE {"system", "pac"}
    /\ UNCHANGED <<proxy_state, pac_port, system, restart, signalled, serveVars, busy,
                   bounds, overlapped, panicked>>

(* A call that fails here leaves the new port and does not reset the proxy.*)
Fails(c) == Returns(c) /\ stale' = {"system", "pac"}

(* Takes the sender, if there is one, and sends: unwrap() of the result    *)
(* panics when the receiver is gone with serve.                            *)
SignalAwaits(c) ==              \* fault: the call waits until serve accepts
    /\ call[c].pc = "signal" /\ restart' = FALSE /\ serve.pc = "accepting"
    /\ \/ ~restart /\ Fails(c) /\ UNCHANGED <<signalled, panicked>>
       \/ /\ restart /\ Goes(c, "reset") /\ signalled' = TRUE
          /\ UNCHANGED <<stale, panicked>>
    /\ UNCHANGED <<proxy_state, proxy_port, pac_port, system, serveVars, busy, bounds, overlapped>>
Signal(c) ==
    /\ call[c].pc = "signal" /\ restart' = FALSE
    /\ \/ ~restart /\ Fails(c) /\ UNCHANGED <<signalled, panicked>>
       \/ restart /\ serve.pc = "ended" /\ Fails(c) /\ panicked' = TRUE /\ UNCHANGED signalled
       \/ /\ restart /\ serve.pc # "ended" /\ Goes(c, "reset") /\ signalled' = TRUE
          /\ UNCHANGED <<stale, panicked>>
    /\ UNCHANGED <<proxy_state, proxy_port, pac_port, system, serveVars, busy, bounds, overlapped>>

WriteState(c) ==
    /\ call[c].pc = "write" /\ Goes(c, "point")
    /\ proxy_state' = call[c].want
    /\ UNCHANGED <<proxy_port, pac_port, system, restart, signalled, serveVars, busy, bounds,
                   history>>

(* reset_proxy. *)
Reset(c) ==
    /\ call[c].pc = "reset"
    /\ IF proxy_state = "Pac"
       THEN call' = [call EXCEPT ![c] = [pc |-> "content", want |-> "Pac", port |-> NoPort]]
       ELSE Returns(c)
    /\ UNCHANGED <<proxy_state, proxy_port, pac_port, system, restart, signalled, serveVars,
                   busy, bounds, history>>

(* PacFileService::update_content reads the port first and writes last.    *)
ReadForContent(c) ==
    /\ call[c].pc = "content"
    /\ call' = [call EXCEPT ![c].pc = "publish", ![c].port = proxy_port]
    /\ UNCHANGED <<proxy_state, proxy_port, pac_port, system, restart, signalled, serveVars,
                   busy, bounds, history>>

PublishUrlOnly(c) ==                       \* fault: the PAC file is not rewritten
    /\ call[c].pc = "publish" /\ Goes(c, "point")
    /\ UNCHANGED <<proxy_state, proxy_port, pac_port, system, restart, signalled, serveVars,
                   busy, bounds, history>>
Publish(c) ==
    /\ call[c].pc = "publish" /\ Goes(c, "point")
    /\ pac_port' = call[c].port /\ stale' = stale \ {"pac"}
    /\ UNCHANGED <<proxy_state, proxy_port, system, restart, signalled, serveVars, busy,
                   bounds, overlapped, panicked>>

(* set_proxy_state_int: set_proxy_all, set_proxy_pac or restore_proxy.     *)
Point(c) ==
    /\ call[c].pc = "point"
    /\ call' = [call EXCEPT ![c].pc = "apply", ![c].port = proxy_port]
    /\ UNCHANGED <<proxy_state, proxy_port, pac_port, system, restart, signalled, serveVars,
                   busy, bounds, history>>

ApplyNoOff(c) ==                      \* fault: turning off leaves the system alone
    /\ call[c].pc = "apply" /\ Returns(c)
    /\ \/ /\ Granted /\ stale' = stale \ {"system"}
          /\ system' = IF call[c].want = "Off" THEN system
                       ELSE Setting(call[c].want, call[c].port)
       \/ Refused /\ UNCHANGED <<system, stale>>
    /\ UNCHANGED <<proxy_state, proxy_port, pac_port, restart, signalled, serveVars, busy, made,
                   accept_errors, overlapped, panicked>>
Apply(c) ==
    /\ call[c].pc = "apply" /\ Returns(c)
    /\ \/ /\ Granted /\ stale' = stale \ {"system"}
          /\ system' = Setting(call[c].want, call[c].port)
       \/ Refused /\ UNCHANGED <<system, stale>>
    /\ UNCHANGED <<proxy_state, proxy_port, pac_port, restart, signalled, serveVars, busy, made,
                   accept_errors, overlapped, panicked>>
-----------------------------------------------------------------------------
(* Proxy::serve.                                                           *)

ServeGoes(pc) == serve' = [serve EXCEPT !.pc = pc]

Begin ==
    /\ serve.pc = "loading" /\ ServeGoes("begin")
    /\ overlapped' = (overlapped \/ InFlight # {})
    /\ UNCHANGED <<proxy_state, proxy_port, pac_port, system, restart, signalled,
                   proxy_address, listener, busy, call, bounds, stale, panicked>>

ReadState ==
    /\ serve.pc = "begin"
    /\ serve' = [serve EXCEPT !.pc = IF proxy_state = "Off" THEN "channel" ELSE "point",
                              !.want = proxy_state]
    /\ UNCHANGED <<proxy_state, proxy_port, pac_port, system, restart, signalled,
                   proxy_address, listener, busy, call, bounds, history>>

ServePoint ==
    /\ serve.pc = "point"
    /\ serve' = [serve EXCEPT !.pc = "apply", !.port = proxy_port]
    /\ UNCHANGED <<proxy_state, proxy_port, pac_port, system, restart, signalled,
                   proxy_address, listener, busy, call, bounds, history>>

ServeApply ==
    /\ serve.pc = "apply"
    /\ \/ /\ Granted /\ system' = Setting(serve.want, serve.port)
          /\ stale' = stale \ {"system"} /\ ServeGoes("channel")
       \/ Refused /\ UNCHANGED <<system, stale>> /\ ServeGoes("ended")
    /\ UNCHANGED <<proxy_state, proxy_port, pac_port, restart, signalled, proxy_address,
                   listener, busy, call, made, accept_errors, overlapped, panicked>>

(* The first channel, then the address of the first listener. *)
Channel ==
    /\ serve.pc = "channel" /\ ServeGoes("address") /\ restart' = TRUE
    /\ UNCHANGED <<proxy_state, proxy_port, pac_port, system, signalled, proxy_address,
                   listener, busy, call, bounds, history>>

Address ==
    /\ serve.pc = "address" /\ proxy_address' = proxy_port
    /\ serve' = [serve EXCEPT !.pc = "bind", !.port = proxy_port]
    /\ UNCHANGED <<proxy_state, proxy_port, pac_port, system, restart, signalled, listener,
                   busy, call, bounds, history>>

Bind ==
    /\ serve.pc = "bind"
    /\ IF Free(serve.port)
       THEN listener' = {serve.port} /\ ServeGoes("accepting")
       ELSE listener' = {} /\ ServeGoes("ended")
    /\ UNCHANGED <<proxy_state, proxy_port, pac_port, system, restart, signalled,
                   proxy_address, busy, call, bounds, history>>

(* The signal of a restart: a new channel, and a new listener before the   *)
(* old one is dropped.                                                     *)
RestartForgotten ==                   \* fault: the signal is taken and not acted on
    /\ serve.pc = "accepting" /\ signalled
    /\ signalled' = FALSE /\ restart' = TRUE
    /\ UNCHANGED <<proxy_state, proxy_port, pac_port, system, serveVars, busy, call, bounds,
                   history>>
RestartSignalled ==
    /\ serve.pc = "accepting" /\ signalled
    /\ signalled' = FALSE /\ ServeGoes("replace")
    /\ UNCHANGED <<proxy_state, proxy_port, pac_port, system, restart, proxy_address,
                   listener, busy, call, bounds, history>>

Replace ==
    /\ serve.pc = "replace" /\ restart' = TRUE /\ ServeGoes("readdress")
    /\ UNCHANGED <<proxy_state, proxy_port, pac_port, system, signalled, proxy_address,
                   listener, busy, call, bounds, history>>

Readdress ==
    /\ serve.pc = "readdress"
    /\ serve' = [serve EXCEPT !.pc = "bind", !.port = proxy_port]
    /\ UNCHANGED <<proxy_state, proxy_port, pac_port, system, restart, signalled,
                   proxy_address, listener, busy, call, bounds, history>>

(* accept failed: the listener is dropped and bound again, to the address  *)
(* read before the loop.                                                   *)
AcceptFails ==
    /\ serve.pc = "accepting" /\ accept_errors < MaxAcceptErrors
    /\ accept_errors' = accept_errors + 1
    /\ listener' = {} /\ serve' = [serve EXCEPT !.pc = "bind", !.port = proxy_address]
    /\ UNCHANGED <<proxy_state, proxy_port, pac_port, system, restart, signalled,
                   proxy_address, busy, call, made, set_errors, history>>

(* Another program listens on a port. *)
Taken(port) ==
    /\ Free(port) /\ busy' = busy \cup {port}
    /\ UNCHANGED <<proxy_state, proxy_port, pac_port, system, restart, signalled, serveVars,
                   call, bounds, history>>
-----------------------------------------------------------------------------
Serve ==
    \/ Begin \/ ReadState \/ ServePoint \/ ServeApply \/ Channel \/ Address \/ Bind
    \/ RestartSignalled \/ Replace \/ Readdress
CallStep(c) ==
    \/ Store(c) \/ Signal(c) \/ WriteState(c) \/ Reset(c) \/ ReadForContent(c) \/ Publish(c)
    \/ Point(c) \/ Apply(c)

Next ==
    \/ Serve \/ AcceptFails
    \/ \E c \in Callers : set_proxy_port(c) \/ set_proxy_state(c) \/ set_domain(c) \/ CallStep(c)
    \/ \E port \in Ports : Taken(port)
    \/ UNCHANGED vars

(* No lock is held while its holder waits, and the tasks of the runtime    *)
(* are polled when they are woken.                                         *)
Fairness == WF_vars(Serve) /\ \A c \in Callers : WF_vars(CallStep(c))

Spec == Init /\ [][Next]_vars
FairSpec == Spec /\ Fairness
-----------------------------------------------------------------------------
Asks == [pc : {"idle", "store", "signal", "write", "reset", "content", "publish", "point",
               "apply"},
         want : States, port : Ports \cup {NoPort}]

TypeOK ==
    /\ proxy_state \in States /\ proxy_port \in Ports /\ pac_port \in Ports
    /\ system \in [kind : States, port : Ports \cup {NoPort}]
    /\ restart \in BOOLEAN /\ signalled \in BOOLEAN
    /\ serve \in [pc : {"loading", "begin", "point", "apply", "channel", "address", "bind",
                         "accepting", "replace", "readdress", "ended"},
                   want : States, port : Ports \cup {NoPort}]
    /\ proxy_address \in Ports \cup {NoPort}
    /\ listener \subseteq Ports /\ Cardinality(listener) <= 1
    /\ busy \subseteq Ports /\ listener \cap busy = {}
    /\ call \in [Callers -> Asks]
    /\ made \in 0..MaxCalls /\ accept_errors \in 0..MaxAcceptErrors
    /\ set_errors \in 0..MaxSetErrors
    /\ overlapped \in BOOLEAN /\ stale \subseteq {"system", "pac"} /\ panicked \in BOOLEAN

(* At rest the proxy listens on the port that was set last, whichever      *)
(* calls overlapped and also when one of them was told that there is no    *)
(* channel; after a failed accept it may be the port it began with.        *)
NoneAt(pcs) == \A c \in Callers : call[c].pc \notin pcs
ListenerFollowsPort ==
    serve.pc = "accepting" /\ ~signalled /\ NoneAt({"signal"}) =>
        listener = {proxy_port} \/ (accept_errors > 0 /\ listener = {proxy_address})

(* When the calls came one after the other, and the system refused none of *)
(* its settings, then at rest the system's proxy is off when the proxy is, *)
(* and else set as it is and to its port: unless that port was changed in  *)
(* state All or by a call that failed, and until the system is set again.  *)
AtRest == InFlight = {} /\ serve.pc \notin {"loading"} \cup Starting
Ordered == ~overlapped /\ set_errors = 0
SystemFollowsState ==
    AtRest /\ Ordered =>
        /\ system.kind = proxy_state
        /\ system.kind # "Off" => system.port = proxy_port \/ "system" \in stale

(* The same of the PAC file that sends the browsers to the proxy's port,   *)
(* unless that was changed in state All or Off or by a call that failed,   *)
(* and until a rule is changed or the port once more.                      *)
PacFollowsPort ==
    AtRest /\ Ordered => pac_port = proxy_port \/ "pac" \in stale

(* proxy.rs:106 asserts that the signal is always received.                *)
SendSucceeds == ~panicked

(* A signal sent is answered: the listener moves to the port, or serve     *)
(* ends for one it could not bind.                                         *)
RestartIsServed ==
    signalled ~> (listener = {proxy_port} \/ serve.pc = "ended")

(* Every call returns, whatever it waits for.                              *)
CallsReturn == \A c \in Callers : (call[c].pc # "idle") ~> (call[c].pc = "idle")
=============================================================================
