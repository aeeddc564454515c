----------------------------- MODULE SystemProxy -----------------------------
(***************************************************************************)
(* The proxy settings of the system (crates/sys-proxy): what `set_pac`,    *)
(* `set_proxy` and `restore` do to them, command by command, on the three  *)
(* platforms.  ProxyControl's `Setting` is one such call seen as a whole.  *)
(*                                                                         *)
(* macOS has settings per network service, which networksetup changes one  *)
(* at a time; the object remembers in `state` what it turned on, and a     *)
(* monitor of the network repeats the last setting.  GNOME and Windows     *)
(* have one setting, kept here alike for every service, and no memory.     *)
(* Every command may fail and then ends its call.  Calls may overlap.      *)
(***************************************************************************)
EXTENDS Naturals, Sequences

CONSTANTS
    Platforms,      \* of "macos", "linux", "windows"
    Services,       \* network services (macOS)
    Addresses,      \* addresses a setting may name
    Callers,        \* tasks that call, one call each at a time
    Monitor,        \* the task that runs the monitor's handler
    MaxCalls,       \* bound: calls made
    MaxFailures,    \* bound: commands that fail
    MaxChanges,     \* bound: services that come and go
    MaxUpdates      \* bound: updates dispatched before the monitor is cancelled

Tasks == Callers \cup {Monitor}
None == "none"                 \* neither address nor kind

ASSUME SystemProxyAssumption ==
    /\ Platforms \subseteq {"macos", "linux", "windows"} /\ None \notin Addresses
    /\ Monitor \notin Callers
    /\ MaxCalls \in Nat /\ MaxFailures \in Nat /\ MaxChanges \in Nat /\ MaxUpdates \in Nat

VARIABLES
    platform,
    settings,       \* per service: [pac, proxy, mode]
    state,          \* SytemProxyInner::state, the Mutex
    active,         \* services that have an address
    updates,        \* calls of the monitor's handler that are dispatched
    task,           \* per task: [pc, want, at, todo, step, old, alone]
    made, failures, changes,        \* the bounds
    asked           \* history: what the last call that ended well set, and where, while
                    \* no other ran beside it or began after it

bounds == <<made, failures, changes>>
vars == <<platform, settings, state, active, updates, task, bounds, asked>>

Kinds == {"Off", "Pac", "Proxy"}
Wants == [kind : {"Pac", "Proxy"}, address : Addresses]
Off == [kind |-> "Off", address |-> None]
Idle == [pc |-> "idle", want |-> Off, at |-> {}, todo |-> {}, step |-> 1,
         old |-> "Off", alone |-> TRUE]
Nothing == [want |-> Off, at |-> {}, known |-> FALSE]
-----------------------------------------------------------------------------
(* NWMonitor::start: SystemProxy::new drops the monitor in the same         *)
(* statement, which cancels it: what was dispatched by then is still to run.*)
Dispatched == IF platform = "macos" THEN 0..MaxUpdates ELSE {0}

Init ==
    /\ platform \in Platforms
    /\ settings = [s \in Services |-> [pac |-> None, proxy |-> None, mode |-> "none"]]
    /\ state = Off /\ active \in SUBSET Services
    /\ updates \in Dispatched
    /\ task = [t \in Tasks |-> Idle]
    /\ made = 0 /\ failures = 0 /\ changes = 0
    /\ asked = Nothing

InFlight == {t \in Tasks : task[t].pc # "idle"}

Starts(t, pc, want) ==
    /\ task[t].pc = "idle"
    /\ task' = [u \in Tasks |->
                  IF u = t THEN [Idle EXCEPT !.pc = pc, !.want = want, !.alone = (InFlight = {})]
                           ELSE [task[u] EXCEPT !.alone = FALSE]]
    /\ asked' = Nothing

(* A call: on macOS a setting begins with the list of the services, and    *)
(* restore with the state.                                                 *)
Call(t, want) ==
    /\ t \in Callers /\ made < MaxCalls /\ made' = made + 1
    /\ Starts(t, IF platform # "macos" THEN "command"
                 ELSE IF want.kind = "Off" THEN "swap" ELSE "list", want)
    /\ UNCHANGED <<platform, settings, state, active, updates, failures, changes>>

(* SytemProxyInner::update, which clones the state and repeats it.         *)
Update ==
    /\ updates > 0 /\ updates' = updates - 1
    /\ IF state.kind = "Off" THEN UNCHANGED <<task, asked>> ELSE Starts(Monitor, "list", state)
    /\ UNCHANGED <<platform, settings, state, active, bounds>>

(* A network service gets or loses its address. *)
Change(s) ==
    /\ platform = "macos" /\ changes < MaxChanges /\ changes' = changes + 1
    /\ active' = IF s \in active THEN active \ {s} ELSE active \cup {s}
    /\ UNCHANGED <<platform, settings, state, updates, task, made, failures, asked>>

Goes(t, pc) == task' = [task EXCEPT ![t].pc = pc]
Returns(t) == task' = [task EXCEPT ![t] = Idle]

(* The call returns Ok. *)
Ends(t) ==
    /\ Returns(t)
    /\ asked' = IF task[t].alone
                THEN [want |-> task[t].want, at |-> task[t].at, known |-> TRUE] ELSE asked

(* A command of the call fails, and `?` ends it there. *)
Fails(t) ==
    /\ \/ task[t].pc \in {"list", "listall", "command"}
       \/ task[t].pc \in {"set", "clear"} /\ task[t].todo # {}
    /\ failures < MaxFailures /\ failures' = failures + 1
    /\ Returns(t)
    /\ UNCHANGED <<platform, settings, state, active, updates, made, changes, asked>>
-----------------------------------------------------------------------------
(* macOS.  `at` are the services the call sets, `todo` those it has still  *)
(* to set or to clear; the two proxies of a service are independent.       *)

Field(kind) == IF kind = "Pac" THEN "pac" ELSE "proxy"

(* get_services(true) *)
List(t) ==
    /\ task[t].pc = "list"
    /\ task' = [task EXCEPT ![t].pc = "set", ![t].at = active, ![t].todo = active]
    /\ UNCHANGED <<platform, settings, state, active, updates, bounds, asked>>

SetOne(t, s) ==
    /\ task[t].pc = "set" /\ s \in task[t].todo
    /\ settings' = [settings EXCEPT ![s][Field(task[t].want.kind)] = task[t].want.address]
    /\ task' = [task EXCEPT ![t].todo = @ \ {s}]
    /\ UNCHANGED <<platform, state, active, updates, bounds, asked>>

SetDone(t) ==
    /\ task[t].pc = "set" /\ task[t].todo = {} /\ Goes(t, "swap")
    /\ UNCHANGED <<platform, settings, state, active, updates, bounds, asked>>

(* repalce_state; what was on before and is of another kind is turned off. *)
SwapOnly(t) ==                         \* fault: what was on before is left on
    /\ task[t].pc = "swap" /\ state' = task[t].want /\ Ends(t)
    /\ UNCHANGED <<platform, settings, active, updates, bounds>>
Swap(t) ==
    /\ task[t].pc = "swap" /\ state' = task[t].want
    /\ IF task[t].want.kind # "Off" /\ state.kind \in {"Off", task[t].want.kind}
       THEN Ends(t)
       ELSE task' = [task EXCEPT ![t].pc = "listall", ![t].old = state.kind] /\ UNCHANGED asked
    /\ UNCHANGED <<platform, settings, active, updates, bounds>>

(* The function restore: every service, whether it is active or not. *)
ListAll(t) ==
    /\ task[t].pc = "listall"
    /\ task' = [task EXCEPT ![t].pc = "clear",
                            ![t].todo = IF task[t].old = "Off" THEN {} ELSE Services]
    /\ UNCHANGED <<platform, settings, state, active, updates, bounds, asked>>

ClearOne(t, s) ==
    /\ task[t].pc = "clear" /\ s \in task[t].todo
    /\ settings' = [settings EXCEPT ![s][Field(task[t].old)] = None]
    /\ task' = [task EXCEPT ![t].todo = @ \ {s}]
    /\ UNCHANGED <<platform, state, active, updates, bounds, asked>>

ClearDone(t) ==
    /\ task[t].pc = "clear" /\ task[t].todo = {} /\ Ends(t)
    /\ UNCHANGED <<platform, settings, state, active, updates, bounds>>
-----------------------------------------------------------------------------
(* GNOME and Windows: a call is a list of commands on the one setting.     *)
(* Mode is GNOME's, on Windows ProxyEnable; the host and the port of a     *)
(* proxy are one address.                                                  *)

Set(field, value) == [field |-> field, value |-> value]
LinuxCommands(want) ==
    CASE want.kind = "Pac"   -> <<Set("pac", want.address), Set("mode", "auto")>>
      [] want.kind = "Proxy" -> <<Set("proxy", want.address), Set("mode", "manual")>>
      [] want.kind = "Off"   -> <<Set("mode", "none")>>

WindowsCommandsBeside(want) ==          \* fault: a proxy beside the PAC file's URL
    CASE want.kind = "Pac"   -> <<Set("pac", want.address)>>
      [] want.kind = "Proxy" -> <<Set("mode", "manual"), Set("proxy", want.address)>>
      [] want.kind = "Off"   -> <<Set("pac", None), Set("mode", "none")>>
WindowsCommands(want) ==
    CASE want.kind = "Pac"   -> <<Set("pac", want.address)>>
      [] want.kind = "Proxy" ->
            <<Set("pac", None), Set("mode", "manual"), Set("proxy", want.address)>>
      [] want.kind = "Off"   -> <<Set("pac", None), Set("mode", "none")>>

Commands(want) == IF platform = "linux" THEN LinuxCommands(want) ELSE WindowsCommands(want)

(* set_proxy on Windows goes on when the URL cannot be deleted. *)
Ignored(t) == platform = "windows" /\ task[t].want.kind = "Proxy" /\ task[t].step = 1

Advances(t) ==
    IF task[t].step = Len(Commands(task[t].want)) THEN Ends(t)
    ELSE task' = [task EXCEPT ![t].step = @ + 1] /\ UNCHANGED asked

Command(t) ==
    /\ task[t].pc = "command"
    /\ LET c == Commands(task[t].want)[task[t].step]
       IN settings' = [s \in Services |-> [settings[s] EXCEPT ![c.field] = c.value]]
    /\ Advances(t)
    /\ UNCHANGED <<platform, state, active, updates, bounds>>

CommandIgnored(t) ==
    /\ task[t].pc = "command" /\ Ignored(t)
    /\ failures < MaxFailures /\ failures' = failures + 1
    /\ Advances(t)
    /\ UNCHANGED <<platform, settings, state, active, updates, made, changes>>
-----------------------------------------------------------------------------
MacStep(t) ==
    \/ List(t) \/ SetDone(t) \/ Swap(t) \/ ListAll(t) \/ ClearDone(t)
    \/ \E s \in Services : SetOne(t, s) \/ ClearOne(t, s)

Next ==
    \/ \E t \in Callers, want \in Wants \cup {Off} : Call(t, want)
    \/ Update
    \/ \E s \in Services : Change(s)
    \/ \E t \in Tasks : MacStep(t) \/ Fails(t) \/ Command(t) \/ CommandIgnored(t)
    \/ UNCHANGED vars

Spec == Init /\ [][Next]_vars
-----------------------------------------------------------------------------
(* What the system uses at a service: PAC file and proxy, with the address.*)
Uses(s) ==
    LET pac == {<<"Pac", settings[s].pac>>} \ {<<"Pac", None>>}
        proxy == {<<"Proxy", settings[s].proxy>>} \ {<<"Proxy", None>>}
    IN CASE platform = "macos" -> pac \cup proxy
         [] platform = "linux" -> IF settings[s].mode = "auto" THEN pac
                                  ELSE IF settings[s].mode = "manual" THEN proxy ELSE {}
         [] platform = "windows" -> pac \cup (IF settings[s].mode = "manual" THEN proxy ELSE {})

(* After a call that ended well and beside which none ran, the system uses *)
(* what was asked for, at the services there were, and elsewhere at most   *)
(* that: whatever calls overlapped or failed half-way before it.  Not      *)
(* promised on macOS is a state some call failed in; on Windows a PAC file *)
(* goes before a proxy that stays on, and the URL may not be deletable.    *)
AsAsked ==
    asked.known /\ ~(platform = "macos" /\ failures > 0) =>
        LET wanted == {<<asked.want.kind, asked.want.address>>} \ {<<"Off", None>>}
            excused == IF platform # "windows" THEN {}
                       ELSE IF asked.want.kind = "Pac" THEN {"Proxy"}
                       ELSE IF failures > 0 THEN {"Pac"} ELSE {}
        IN \A s \in Services :
             /\ s \in asked.at \/ platform # "macos" => wanted \subseteq Uses(s)
             /\ \A u \in Uses(s) \ wanted :
                   u[1] \in excused \/ (u[1] = asked.want.kind /\ s \notin asked.at)

(* macOS: however calls and the monitor overlap, what is on when none of   *)
(* them runs is what `state` remembers, so that the next restore turns it  *)
(* off: unless a call failed half-way, which leaves what it had set.       *)
NothingForgotten ==
    platform = "macos" /\ InFlight = {} /\ failures = 0 =>
        \A s \in Services : \A u \in Uses(s) : u[1] = state.kind
=============================================================================
