------------------------------- MODULE Registry -------------------------------
(***************************************************************************)
(* The client's servers and rules (crates/client/src/proxy.rs) under the   *)
(* calls of the user interface (the UI's rust/src/api/service.rs), the     *)
(* loading of the configuration and the tunnels, all of which run at once. *)
(*                                                                         *)
(* A rule is an item of a kind, a domain or an application, that goes      *)
(* direct or to a server.  The code treats the two kinds alike, with the   *)
(* list of the direct domains in the PacFileService and that of the        *)
(* applications in the Proxy, each behind a lock of its own.  A step is    *)
(* what a task does while it holds one lock: none holds two.               *)
(***************************************************************************)
EXTENDS Naturals, SequencesExt

CONSTANTS
    Callers,        \* calls in flight at most, one each
    Tunnels,        \* tunnels at most
    Hosts, Canon,   \* the servers' names, and what `init` makes of each
    Items,          \* domains, applications
    Configs,        \* configurations to start with: [servers, direct]
    MaxCalls        \* bound: calls made

Kinds == {"domain", "app"}
NoHost == "none"

ASSUME RegistryAssumption ==
    /\ Canon \in [Hosts -> Hosts] /\ \A h \in Hosts : Canon[Canon[h]] = Canon[h]
    /\ NoHost \notin Hosts /\ MaxCalls \in Nat

Server == [host : Hosts, known : BOOLEAN, enabled : BOOLEAN, rules : [Kinds -> SUBSET Items]]

(* A configuration as the program saves it at rest: an item is listed once *)
(* as direct, or belongs to servers.  Nothing checks one written by hand.  *)
Tidy(config) ==
    /\ config.servers \in Seq(Server) /\ config.direct \in [Kinds -> Seq(Items)]
    /\ \A k \in Kinds :
          /\ IsInjective(config.direct[k])
          /\ \A i \in DOMAIN config.servers :
                config.servers[i].rules[k] \cap ToSet(config.direct[k]) = {}
ASSUME ConfigsAssumption == \A config \in Configs : Tidy(config)

VARIABLES
    loading,        \* servers of the configuration not yet in the list
    servers,        \* Proxy::servers: [host, known, enabled, rules]
    direct,         \* per kind: Proxy::apps, PacFileService::domains
    proxy_state,    \* Proxy::proxy_state, Pac or not
    pac,            \* the domains in PacFileService::pac_content
    call,           \* per caller: [pc, kind, item, host, config, domains]
    tunnel,         \* per tunnel: [pc, host, config], its ServerConfig clone
    page,           \* the server the page of a server was opened with
    made,           \* the bound
    raced,          \* history: a call overlapped another or wrote what was read before one
    pac_stale,      \* history: a direct domain changed and the PAC file did not
    chosen,         \* history: the state was set since the servers were last deleted
    removed         \* history: rules whose last call was a removal

history == <<raced, pac_stale, chosen, removed>>
vars == <<loading, servers, direct, proxy_state, pac, call, tunnel, page, made, history>>

Idle == [pc |-> "idle", kind |-> "domain", item |-> "none", host |-> NoHost,
         config |-> <<>>, domains |-> {}]
InFlight == {c \in Callers : call[c].pc # "idle"}
-----------------------------------------------------------------------------
(* The list of servers.  Their configurations name a server by its host,   *)
(* and the first of that host is meant.                                    *)

FirstOf(host) == SelectInSeq(servers, LAMBDA s : s.host = host)
Known(host) == FirstOf(host) > 0

NoRules == [k \in Kinds |-> {}]
NewServer(host) == [host |-> host, known |-> FALSE, enabled |-> TRUE, rules |-> NoRules]

(* ServerConfig::init, which drops the port of a host:443, unless its      *)
(* lookup fails: then the configuration is used as it is.                  *)
Initialised(config) == [config EXCEPT !.host = Canon[@], !.known = TRUE]
Lookups(config) == {Initialised(config), config}

Assign(kind, item, host) ==
    servers' = [servers EXCEPT ![FirstOf(host)].rules[kind] = @ \cup {item}]
UnassignFirst(kind, item) ==           \* fault: the first server that has it only
    LET i == SelectInSeq(servers, LAMBDA s : item \in s.rules[kind])
    IN servers' = IF i = 0 THEN servers
                  ELSE [servers EXCEPT ![i].rules[kind] = @ \ {item}]
Unassign(kind, item) ==
    servers' = [i \in DOMAIN servers |-> [servers[i] EXCEPT !.rules[kind] = @ \ {item}]]
-----------------------------------------------------------------------------
Init ==
    /\ \E config \in Configs :
          loading = config.servers /\ direct = config.direct
          /\ pac = ToSet(config.direct["domain"])
          /\ IF config.servers = <<>> THEN proxy_state = "Off" ELSE proxy_state \in {"Pac", "Off"}
    /\ servers = <<>>
    /\ call = [c \in Callers |-> Idle]
    /\ tunnel = [t \in Tunnels |-> [pc |-> "idle", host |-> NoHost, config |-> <<>>]]
    /\ page = <<>> /\ made = 0
    /\ raced = FALSE /\ pac_stale = FALSE /\ chosen = FALSE /\ removed = {}

(* ProxyService::start: the servers are added one by one, after a lookup.  *)
Load ==
    /\ loading # <<>>
    /\ \E config \in Lookups(Head(loading)) : servers' = Append(servers, config)
    /\ loading' = Tail(loading)
    /\ UNCHANGED <<direct, proxy_state, pac, call, tunnel, page, made, history>>
-----------------------------------------------------------------------------
(* The calls.                                                              *)

Starts(c, ask) ==
    /\ call[c].pc = "idle" /\ made < MaxCalls /\ made' = made + 1
    /\ call' = [call EXCEPT ![c] = ask]
    /\ raced' = (raced \/ InFlight # {} \/ loading # <<>>)
    /\ UNCHANGED <<loading, servers, direct, proxy_state, pac, tunnel, pac_stale, chosen>>

set_rule(c) ==
    \E kind \in Kinds, item \in Items, host \in Hosts \cup {NoHost} :
        /\ Starts(c, [Idle EXCEPT !.pc = IF host = NoHost THEN "check" ELSE "undirect",
                                  !.kind = kind, !.item = item, !.host = host])
        /\ removed' = removed \ {<<kind, item>>} /\ UNCHANGED page
remove_rule(c) ==
    \E kind \in Kinds, item \in Items :
        /\ Starts(c, [Idle EXCEPT !.pc = "unlist", !.kind = kind, !.item = item])
        /\ removed' = removed \cup {<<kind, item>>} /\ UNCHANGED page

(* A server comes from the page of servers: a new one, or the one it was   *)
(* opened with, after a deletion that is undone.                           *)
add_server(c) ==
    \E config \in {NewServer(h) : h \in Hosts}
                  \cup {[s EXCEPT !.known = FALSE] : s \in {page} \ {<<>>}} :
        /\ Starts(c, [Idle EXCEPT !.pc = "lookup", !.config = config])
        /\ UNCHANGED <<page, removed>>
set_enabled(c) ==
    \E host \in Hosts :
        /\ Starts(c, [Idle EXCEPT !.pc = "enable", !.host = host])
        /\ UNCHANGED <<page, removed>>
delete_server(c) ==
    \E host \in Hosts :
        /\ Starts(c, [Idle EXCEPT !.pc = "delete", !.host = host])
        /\ UNCHANGED <<page, removed>>
set_proxy_state(c) ==
    \E host \in {"Pac", "Off"} :
        /\ Starts(c, [Idle EXCEPT !.pc = "write", !.host = host])
        /\ UNCHANGED <<page, removed>>

(* The page of a server: it saves the domains it was opened with and no    *)
(* applications, under the name that was typed in.                         *)
OpenPage ==
    /\ \E i \in DOMAIN servers : page' = servers[i]
    /\ UNCHANGED <<loading, servers, direct, proxy_state, pac, call, tunnel, made, history>>
update_server(c) ==
    \E host \in Hosts :
        /\ page # <<>>
        /\ Starts(c, [Idle EXCEPT !.pc = "relookup", !.host = page.host,
                 !.config = [page EXCEPT !.host = host, !.known = FALSE, !.rules["app"] = {}]])
        /\ UNCHANGED <<page, removed>>
-----------------------------------------------------------------------------
(* Their steps.                                                            *)

At(c, pc) == call[c].pc = pc
Goes(c, pc) == call' = [call EXCEPT ![c].pc = pc]
Returns(c) == call' = [call EXCEPT ![c] = Idle]
Listed(kind, item) == item \in ToSet(direct[kind])

(* A direct domain changed, and the PAC file will follow if the state is   *)
(* Pac and the call goes on to reset_proxy.                                *)
PacLags(kind) ==
    pac_stale' = (pac_stale \/ (kind = "domain" /\ proxy_state # "Pac" /\ direct' # direct))
PacLost(kind) ==
    pac_stale' = (pac_stale \/ (kind = "domain" /\ pac # ToSet(direct[kind])))

Undirect(c) ==
    /\ At(c, "undirect") /\ Goes(c, "assign")
    /\ direct' = [direct EXCEPT ![call[c].kind] = RemoveFirst(@, call[c].item)]
    /\ PacLags(call[c].kind)
    /\ UNCHANGED <<loading, servers, proxy_state, pac, tunnel, page, made, raced, chosen, removed>>

AssignRule(c) ==
    /\ At(c, "assign")
    /\ \/ /\ Known(call[c].host) /\ Goes(c, "reset") /\ UNCHANGED pac_stale
          /\ Assign(call[c].kind, call[c].item, call[c].host)
       \/ ~Known(call[c].host) /\ Returns(c) /\ PacLost(call[c].kind) /\ UNCHANGED servers
    /\ UNCHANGED <<loading, direct, proxy_state, pac, tunnel, page, made, raced, chosen, removed>>

CheckNot(c) ==                        \* fault: the list is not looked at first
    /\ At(c, "check") /\ Goes(c, "push")
    /\ UNCHANGED <<loading, servers, direct, proxy_state, pac, tunnel, page, made, history>>
Check(c) ==
    /\ At(c, "check")
    /\ Goes(c, IF Listed(call[c].kind, call[c].item) THEN "unassign" ELSE "push")
    /\ UNCHANGED <<loading, servers, direct, proxy_state, pac, tunnel, page, made, history>>

Push(c) ==
    /\ At(c, "push") /\ Goes(c, "unassign")
    /\ direct' = [direct EXCEPT ![call[c].kind] = Append(@, call[c].item)]
    /\ PacLags(call[c].kind)
    /\ UNCHANGED <<loading, servers, proxy_state, pac, tunnel, page, made, raced, chosen, removed>>

(* remove_domain_from_servers, remove_app_from_servers. *)
UnassignRule(c) ==
    /\ At(c, "unassign") /\ Goes(c, "reset")
    /\ Unassign(call[c].kind, call[c].item)
    /\ UNCHANGED <<loading, direct, proxy_state, pac, tunnel, page, made, history>>

(* remove_domain, remove_app: an item that is not direct is an error.      *)
Unlist(c) ==
    /\ At(c, "unlist")
    /\ \/ /\ Listed(call[c].kind, call[c].item) /\ Goes(c, "unassign")
          /\ direct' = [direct EXCEPT ![call[c].kind] = RemoveFirst(@, call[c].item)]
          /\ PacLags(call[c].kind)
       \/ ~Listed(call[c].kind, call[c].item) /\ Returns(c) /\ UNCHANGED <<direct, pac_stale>>
    /\ UNCHANGED <<loading, servers, proxy_state, pac, tunnel, page, made, raced, chosen, removed>>

(* reset_proxy: in state Pac the PAC file is made of the domains there     *)
(* are, and published in a later step.                                     *)
ResetNot(c) ==                          \* fault: the PAC file is left as it is
    /\ At(c, "reset") /\ Returns(c)
    /\ UNCHANGED <<loading, servers, direct, proxy_state, pac, tunnel, page, made, history>>
Reset(c) ==
    /\ At(c, "reset")
    /\ IF proxy_state = "Pac" THEN Goes(c, "collect") ELSE Returns(c)
    /\ UNCHANGED <<loading, servers, direct, proxy_state, pac, tunnel, page, made, history>>

Collect(c) ==
    /\ At(c, "collect")
    /\ call' = [call EXCEPT ![c].pc = "publish", ![c].domains = ToSet(direct["domain"])]
    /\ UNCHANGED <<loading, servers, direct, proxy_state, pac, tunnel, page, made, history>>

Publish(c) ==
    /\ At(c, "publish") /\ Returns(c)
    /\ pac' = call[c].domains /\ pac_stale' = FALSE
    /\ UNCHANGED <<loading, servers, direct, proxy_state, tunnel, page, made, raced, chosen,
                   removed>>

Lookup(c) ==
    /\ At(c, "lookup") \/ At(c, "relookup")
    /\ \E config \in Lookups(call[c].config) :
          call' = [call EXCEPT ![c].pc = IF At(c, "lookup") THEN "add" ELSE "replace",
                              ![c].config = config]
    /\ UNCHANGED <<loading, servers, direct, proxy_state, pac, tunnel, page, made, history>>

(* The rules of a server that comes back are those it had when it was      *)
(* shown, whatever became of them.                                         *)
Outdated(config, i) ==
    \E kind \in Kinds, item \in Items :
        /\ item \in config.rules[kind]
        /\ \/ <<kind, item>> \in removed \/ Listed(kind, item)
           \/ \E j \in DOMAIN servers \ {i} : item \in servers[j].rules[kind]
Add(c) ==
    /\ At(c, "add") /\ Returns(c)
    /\ servers' = Append(servers, call[c].config)
    /\ raced' = (raced \/ Outdated(call[c].config, 0))
    /\ UNCHANGED <<loading, direct, proxy_state, pac, tunnel, page, made, pac_stale, chosen,
                   removed>>

Replace(c) ==
    /\ At(c, "replace") /\ Returns(c)
    /\ LET i == FirstOf(call[c].host)
       IN IF i = 0 THEN UNCHANGED <<servers, raced>>
          ELSE /\ servers' = [servers EXCEPT ![i] = call[c].config]
               /\ raced' = (raced \/ Outdated(call[c].config, i))
    /\ UNCHANGED <<loading, direct, proxy_state, pac, tunnel, page, made, pac_stale, chosen,
                   removed>>

Enable(c) ==
    /\ At(c, "enable") /\ Returns(c)
    /\ \E value \in BOOLEAN :
          servers' = IF Known(call[c].host)
                     THEN [servers EXCEPT ![FirstOf(call[c].host)].enabled = value] ELSE servers
    /\ UNCHANGED <<loading, direct, proxy_state, pac, tunnel, page, made, history>>

(* del_server, which lets the list go before it turns the proxy off.       *)
DeleteOnly(c) ==                \* fault: the proxy stays on without a server
    /\ At(c, "delete") /\ Returns(c)
    /\ servers' = IF Known(call[c].host) THEN RemoveAt(servers, FirstOf(call[c].host))
                  ELSE servers
    /\ chosen' = (chosen /\ ~Known(call[c].host))
    /\ UNCHANGED <<loading, direct, proxy_state, pac, tunnel, page, made, raced, pac_stale,
                   removed>>
Delete(c) ==
    /\ At(c, "delete")
    /\ \/ /\ Known(call[c].host)
          /\ servers' = RemoveAt(servers, FirstOf(call[c].host))
          /\ IF servers' = <<>>
             THEN call' = [call EXCEPT ![c].pc = "write", ![c].host = "Off"] ELSE Returns(c)
          /\ chosen' = FALSE
       \/ ~Known(call[c].host) /\ Returns(c) /\ UNCHANGED <<servers, chosen>>
    /\ UNCHANGED <<loading, direct, proxy_state, pac, tunnel, page, made, raced, pac_stale,
                   removed>>

(* set_proxy_state, which does not touch the PAC file.                     *)
Write(c) ==
    /\ At(c, "write") /\ Returns(c)
    /\ proxy_state' = call[c].host
    /\ chosen' = (chosen \/ call[c].host = "Pac")
    /\ UNCHANGED <<loading, servers, direct, pac, tunnel, page, made, raced, pac_stale, removed>>
-----------------------------------------------------------------------------
(* A tunnel: start_tunnel selects an enabled server, and for one whose     *)
(* address is not known ensure_config_initialized copies its               *)
(* configuration, looks the address up and writes the copy back.           *)

Select(t) ==
    /\ tunnel[t].pc = "idle"
    /\ \E i \in DOMAIN servers :
          /\ servers[i].enabled /\ ~servers[i].known
          /\ tunnel' = [tunnel EXCEPT ![t] = [pc |-> "copy", host |-> servers[i].host,
                                              config |-> <<>>]]
    /\ UNCHANGED <<loading, servers, direct, proxy_state, pac, call, page, made, history>>

Ends(t) == tunnel' = [tunnel EXCEPT ![t] = [pc |-> "idle", host |-> NoHost, config |-> <<>>]]

Copy(t) ==
    /\ tunnel[t].pc = "copy"
    /\ IF Known(tunnel[t].host)
       THEN tunnel' = [tunnel EXCEPT ![t].pc = "lookup",
                                     ![t].config = servers[FirstOf(tunnel[t].host)]]
       ELSE Ends(t)
    /\ UNCHANGED <<loading, servers, direct, proxy_state, pac, call, page, made, history>>

LookupFails(t) ==
    /\ tunnel[t].pc = "lookup" /\ Ends(t)
    /\ UNCHANGED <<loading, servers, direct, proxy_state, pac, call, page, made, history>>

WriteBack(t) ==
    /\ tunnel[t].pc = "lookup" /\ Ends(t)
    /\ LET i == FirstOf(tunnel[t].host)
           copy == Initialised(tunnel[t].config)
       IN IF i = 0 THEN UNCHANGED <<servers, raced>>
          ELSE /\ servers' = [servers EXCEPT ![i] = copy]
               /\ raced' = (raced \/ copy.rules # servers[i].rules)
    /\ UNCHANGED <<loading, direct, proxy_state, pac, call, page, made, pac_stale, chosen, removed>>
-----------------------------------------------------------------------------
CallStarts(c) ==
    \/ set_rule(c) \/ remove_rule(c) \/ add_server(c) \/ update_server(c) \/ set_enabled(c)
    \/ delete_server(c) \/ set_proxy_state(c)
CallStep(c) ==
    \/ Undirect(c) \/ AssignRule(c) \/ Check(c) \/ Push(c) \/ UnassignRule(c) \/ Unlist(c)
    \/ Reset(c) \/ Collect(c) \/ Publish(c) \/ Lookup(c) \/ Add(c) \/ Replace(c) \/ Enable(c)
    \/ Delete(c) \/ Write(c)
TunnelStep(t) == Select(t) \/ Copy(t) \/ LookupFails(t) \/ WriteBack(t)

Next ==
    \/ Load \/ OpenPage
    \/ \E c \in Callers : CallStarts(c) \/ CallStep(c)
    \/ \E t \in Tunnels : TunnelStep(t)
    \/ UNCHANGED vars

Spec == Init /\ [][Next]_vars
-----------------------------------------------------------------------------
TypeOK ==
    /\ ToSet(servers) \subseteq Server /\ ToSet(loading) \subseteq Server
    /\ \A k \in Kinds : ToSet(direct[k]) \subseteq Items
    /\ proxy_state \in {"Pac", "Off"} /\ pac \subseteq Items
    /\ page = <<>> \/ page \in Server
    /\ \A c \in Callers : call[c].config = <<>> \/ call[c].config \in Server
    /\ \A t \in Tunnels : tunnel[t].config = <<>> \/ tunnel[t].config \in Server
    /\ removed \subseteq Kinds \X Items

AtRest == InFlight = {} /\ loading = <<>>
Has(i, kind, item) == item \in servers[i].rules[kind]

(* When calls neither overlap nor bring back what they saw before others,  *)
(* an item that goes direct goes to no server: of the two lists and all    *)
(* the servers that a call changes one after another none is forgotten.    *)
DirectOrAssigned ==
    AtRest /\ ~raced =>
        \A kind \in Kinds, item \in Items :
            Listed(kind, item) => \A i \in DOMAIN servers : ~Has(i, kind, item)

(* Nor does the list of the direct ones hold an item twice, of which a     *)
(* removal would leave one.                                                *)
DirectOnce ==
    ~raced => \A kind \in Kinds : \A i, j \in DOMAIN direct[kind] :
                  direct[kind][i] = direct[kind][j] => i = j

(* The PAC file sends exactly the direct domains past the proxy, unless    *)
(* they changed while the state was not Pac or in a call that failed, and  *)
(* until the next change in state Pac.                                     *)
PacFollowsDirect ==
    AtRest /\ ~raced => pac = ToSet(direct["domain"]) \/ pac_stale

(* proxy.rs:275, also when calls overlap: "turn off proxy if we have no    *)
(* servers", until the user turns it on again.                             *)
OffWithoutServers ==
    AtRest /\ servers = <<>> => proxy_state = "Off" \/ chosen

(* proxy_service_mock.dart:128-133: a removal takes the domain from the    *)
(* direct ones and from every server.                                      *)
RemovalRemoves ==
    AtRest /\ ~raced =>
        \A r \in removed : ~Listed(r[1], r[2]) /\ \A i \in DOMAIN servers : ~Has(i, r[1], r[2])

(* proxy_service_mock.dart:112-114: a domain set to a server is taken from *)
(* the others.                                                             *)
OneServerEach ==
    AtRest /\ ~raced =>
        \A kind \in Kinds, item \in Items : \A i, j \in DOMAIN servers :
            Has(i, kind, item) /\ Has(j, kind, item) => i = j

(* proxy_service_mock.dart:177: a server whose host is there already is    *)
(* not added.                                                              *)
HostsDiffer ==
    \A i, j \in DOMAIN servers : servers[i].host = servers[j].host => i = j

(* config.rs:24, "the server should be used for these domains": the lookup  *)
(* of an address leaves the rules of the servers as the calls set them.    *)
LookupKeepsRules ==
    [][\A t \in Tunnels : WriteBack(t) =>
          \A i \in DOMAIN servers : servers'[i].rules = servers[i].rules]_vars
=============================================================================
