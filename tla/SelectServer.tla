----------------------------- MODULE SelectServer -----------------------------
(***************************************************************************)
(* Which way a request takes.  A browser that goes by the PAC file         *)
(* (crates/client/src/pac_file_service.rs) asks FindProxyForURL, and goes  *)
(* direct or to the proxy; there `Proxy::select_server` (proxy.rs) goes by *)
(* the applications that go direct, the servers' applications, the servers'*)
(* domains, and else the balance by weight.                                *)
(*                                                                         *)
(* A domain is the sequence of its labels; Rank is the order of the        *)
(* domains as strings, which the binary search goes by.  Within holds the  *)
(* pairs <<a, p>> in which the name a of a rule is a part of the process   *)
(* name p ("" when the process of a connection is unknown).                *)
(***************************************************************************)
EXTENDS Integers, Sequences, FiniteSets, FiniteSetsExt, Functions

CONSTANTS
    Setups,         \* the pairs of a list of servers and one of direct domains
    Apps,           \* the names of `Proxy::apps`, which go direct
    Requests,       \* the requests: [process, target, pac]
    Within, Rank,   \* see above
    Unset           \* the weight of a server whose configuration has none

VARIABLES
    servers,        \* Proxy::servers: [enabled, weight, apps, domains, ready]
    direct,         \* PacFileService::domains
    request,        \* with pac, the browser has the PAC file to ask
    outcome,        \* "none" yet, "proxy" (PAC), "DIRECT" (PAC), "direct", "no servers", "panic" or "server"
    selected        \* the index of the server, 0 without one

vars == <<servers, direct, request, outcome, selected>>

(* `ready` records that the server's ServerConfig::init went through: only *)
(* then are its domains sorted.                                            *)
Sorted(list) == \A i, j \in DOMAIN list : i < j => Rank[list[i]] < Rank[list[j]]

List(s) == s \in Seq(Range(s))

ASSUME SelectServerAssumption ==
    /\ \A d \in DOMAIN Rank : Rank[d] \in Int
    /\ \A setup \in Setups :
          /\ List(setup[1]) /\ List(setup[2]) /\ \A i \in DOMAIN setup[2] : List(setup[2][i])
          /\ \A i \in DOMAIN setup[1] :
                /\ setup[1][i].weight = Unset \/ setup[1][i].weight \in Nat
                /\ List(setup[1][i].domains) /\ Range(setup[1][i].domains) \subseteq DOMAIN Rank
                /\ setup[1][i].ready => Sorted(setup[1][i].domains)
    /\ \A r \in Requests : List(r.target) /\ r.target # <<>>
-----------------------------------------------------------------------------
(* The PAC file.  Its list has the direct domains by their number of labels*)
(* and ends at the largest.                                                *)

hosts_by_dots ==
    [n \in 1..Max({0} \cup {Len(direct[i]) : i \in DOMAIN direct}) |->
        {d \in Range(direct) : Len(d) = n}]

(* FindProxyForURL, of a host that is a name: a host without a dot, one in *)
(* .local, and one of which as many last labels as a list's number are in  *)
(* that list.                                                              *)
GoesDirectByHalf(host) ==       \* fault: the last list of each length is left out
    \/ Len(host) = 1 \/ host[Len(host)] = "local"
    \/ \E n \in 1..Len(hosts_by_dots) - 1 :
          n <= Len(host) /\ SubSeq(host, Len(host) - n + 1, Len(host)) \in hosts_by_dots[n]
FindsDirect(host) ==
    \/ Len(host) = 1 \/ host[Len(host)] = "local"
    \/ \E n \in DOMAIN hosts_by_dots :
          n <= Len(host) /\ SubSeq(host, Len(host) - n + 1, Len(host)) \in hosts_by_dots[n]
-----------------------------------------------------------------------------
(* The rules.                                                              *)

Enabled == {i \in DOMAIN servers : servers[i].enabled}
FirstIn(set) == CHOOSE i \in set : \A j \in set : i <= j

GoesDirect == request.process # "" /\ \E a \in Apps : <<a, request.process>> \in Within

ByApp == {i \in Enabled : \E a \in servers[i].apps : <<a, request.process>> \in Within}

(* domain_variants: the target's suffixes of two labels and more. *)
Suffixes(target) == {SubSeq(target, i, Len(target)) : i \in 1..Len(target) - 1}

(* slice::binary_search, which halves the list whether or not it is sorted.*)
BisectLeft(list, domain) ==         \* fault: the two sides of a probe are swapped
    LET search[size \in 0..Len(list)] ==
          [base \in 1..Len(list) + 1 |->
              IF size = 0 THEN 0
              ELSE IF size = 1 THEN IF list[base] = domain THEN base ELSE 0
              ELSE LET probe == base + size \div 2
                   IN search[size - size \div 2]
                            [IF Rank[list[probe]] < Rank[domain] THEN base ELSE probe]]
    IN search[Len(list)][1] # 0
Bisect(list, domain) ==
    LET search[size \in 0..Len(list)] ==
          [base \in 1..Len(list) + 1 |->
              IF size = 0 THEN 0
              ELSE IF size = 1 THEN IF list[base] = domain THEN base ELSE 0
              ELSE LET probe == base + size \div 2
                   IN search[size - size \div 2]
                            [IF Rank[list[probe]] > Rank[domain] THEN base ELSE probe]]
    IN search[Len(list)][1] # 0

ByDomain == {i \in Enabled : \E d \in Suffixes(request.target) : Bisect(servers[i].domains, d)}
-----------------------------------------------------------------------------
(* The balance.                                                            *)

Weighted == {i \in Enabled : servers[i].weight # Unset}
SumsOf(weights) ==                  \* of the first n servers
    LET sum[n \in 0..Len(servers)] == IF n = 0 THEN 0 ELSE sum[n - 1] + weights[n] IN sum
total_weight ==
    SumsOf([i \in DOMAIN servers |-> IF i \in Weighted THEN servers[i].weight ELSE 0])
        [Len(servers)]
unweighted_count == Cardinality(Enabled \ Weighted)

(* The mean weight; -1 stands for a division by zero. *)
avr_weight ==
    IF total_weight > 0 THEN total_weight \div Cardinality(Weighted)
    ELSE IF unweighted_count > 0 THEN 100 \div unweighted_count ELSE -1

(* gen_range(0..avr_weight * servers.len()), of which an empty one panics. *)
DrawsOfWeighted ==                  \* fault: unweighted servers add nothing to it
    0 .. (avr_weight * Cardinality(Weighted)) - 1
Draws == 0 .. (avr_weight * Len(servers)) - 1

WeightOf(i) == IF servers[i].weight = Unset THEN avr_weight ELSE servers[i].weight
WeightUpTo(i) == SumsOf([j \in DOMAIN servers |-> IF j \in Enabled THEN WeightOf(j) ELSE 0])[i]

(* The first server whose summed weights reach the draw, and the first of  *)
(* the list, enabled or not, if none does.                                 *)
BalancedOverAll(draw) ==                    \* fault: the disabled take part
    LET upTo == SumsOf([i \in DOMAIN servers |-> WeightOf(i)])
        reached == {i \in DOMAIN servers : upTo[i] >= draw}
    IN IF reached = {} THEN 1 ELSE FirstIn(reached)
Balanced(draw) ==
    LET reached == {i \in Enabled : WeightUpTo(i) >= draw}
    IN IF reached = {} THEN 1 ELSE FirstIn(reached)

ByRule == GoesDirect \/ servers = <<>> \/ ByApp # {} \/ ByDomain # {}

Outcome(what, server) == outcome' = what /\ selected' = server

SelectAppsFirst ==         \* fault: a server's applications before those that go direct
    /\ outcome = (IF request.pac THEN "proxy" ELSE "none")
    /\ \/ servers = <<>> /\ GoesDirect /\ Outcome("direct", 0)
       \/ servers = <<>> /\ ~GoesDirect /\ Outcome("no servers", 0)
       \/ ByApp # {} /\ Outcome("server", FirstIn(ByApp))
       \/ servers # <<>> /\ ByApp = {} /\ GoesDirect /\ Outcome("direct", 0)
       \/ ~GoesDirect /\ ByApp = {} /\ ByDomain # {} /\ Outcome("server", FirstIn(ByDomain))
       \/ ~ByRule /\ Draws = {} /\ Outcome("panic", 0)
       \/ ~ByRule /\ \E draw \in Draws : Outcome("server", Balanced(draw))
    /\ UNCHANGED <<servers, direct, request>>
Select ==
    /\ outcome = (IF request.pac THEN "proxy" ELSE "none")
    /\ \/ GoesDirect /\ Outcome("direct", 0)
       \/ ~GoesDirect /\ servers = <<>> /\ Outcome("no servers", 0)
       \/ ~GoesDirect /\ ByApp # {} /\ Outcome("server", FirstIn(ByApp))
       \/ ~GoesDirect /\ ByApp = {} /\ ByDomain # {} /\ Outcome("server", FirstIn(ByDomain))
       \/ ~ByRule /\ Draws = {} /\ Outcome("panic", 0)
       \/ ~ByRule /\ \E draw \in Draws : Outcome("server", Balanced(draw))
    /\ UNCHANGED <<servers, direct, request>>

(* The browser asks its PAC file first. *)
Ask ==
    /\ outcome = "none" /\ request.pac
    /\ Outcome(IF FindsDirect(request.target) THEN "DIRECT" ELSE "proxy", 0)
    /\ UNCHANGED <<servers, direct, request>>

Init == (\E setup \in Setups : servers = setup[1] /\ direct = setup[2])
        /\ request \in Requests /\ outcome = "none" /\ selected = 0
Decided == outcome \notin {"none", "proxy"}
Next == Ask \/ Select \/ (Decided /\ UNCHANGED vars)
Spec == Init /\ [][Next]_vars
-----------------------------------------------------------------------------
Covers(d) == \E i \in DOMAIN request.target : SubSeq(request.target, i, Len(request.target)) = d
Lists(i) == \E d \in Suffixes(request.target) : d \in Range(servers[i].domains)
HasApp(i) == \E a \in servers[i].apps : <<a, request.process>> \in Within

(* The rules come before the balance, each in its turn, whatever the later *)
(* ones say: an application that goes direct, and nothing else, goes       *)
(* direct, though servers name it and its domain too; without servers the  *)
(* rest is refused; then come a server's application, and a domain of an   *)
(* enabled and initialised server.  The bisection and the suffixes miss    *)
(* none, and no draw and no panic comes first.                             *)
IsDirectApp == request.process # "" /\ \E a \in Apps : <<a, request.process>> \in Within
RulesInOrder ==
    Decided /\ outcome # "DIRECT" =>
        /\ (outcome = "direct") <=> IsDirectApp
        /\ (outcome = "no servers") <=> (servers = <<>> /\ ~IsDirectApp)
        /\ (\E i \in Enabled : HasApp(i)) /\ ~IsDirectApp
              => selected \in Enabled /\ HasApp(selected)
        /\ (\E i \in Enabled : servers[i].ready /\ Lists(i))
               /\ ~(\E i \in Enabled : HasApp(i)) /\ ~IsDirectApp
              => selected \in Enabled /\ Lists(selected)

(* A browser goes past the proxy for a direct domain, its subdomains, plain*)
(* and local names, and for nothing else: whichever other domains are      *)
(* direct, with more labels or fewer.                                      *)
DirectByRule ==
    Decided /\ request.pac =>
        (outcome = "DIRECT" <=>
            \/ Len(request.target) = 1 \/ request.target[Len(request.target)] = "local"
            \/ \E d \in Range(direct) : Covers(d))

(* config.rs:24: "the server should be used for these domains".            *)
EveryDomainIsHonoured ==
    /\ Decided /\ outcome \notin {"DIRECT", "direct"} /\ ~\E i \in Enabled : HasApp(i)
    /\ \E i \in Enabled : Lists(i)
    => selected \in Enabled /\ Lists(selected)

(* A request is not lost to a division by zero or an empty range while     *)
(* some server is enabled and none of the enabled has weight zero: unless  *)
(* none has a weight and they are more than 100, of which each would have  *)
(* less than one percent.                                                  *)
NoPanic ==
    outcome = "panic" => \/ Enabled = {} \/ \E i \in Enabled : servers[i].weight = 0
                         \/ Weighted = {} /\ Cardinality(Enabled) > 100

(* Of a balance over no rules: how many of the draws pick server i.        *)
Picks(i) == Cardinality({draw \in Draws : Balanced(draw) = i})
Balance == outcome = "none" /\ ~ByRule

(* An enabled server gets no more of the draws than its weight, and a      *)
(* disabled one none, but the first in the list, which also gets what the  *)
(* others leave, and the first enabled one, which gets one more.           *)
ShareWithinWeight ==
    Balance => \A i \in DOMAIN servers \ {1} :
                 Picks(i) <= IF i \in Enabled
                             THEN WeightOf(i) + (IF i = FirstIn(Enabled) THEN 1 ELSE 0) ELSE 0

(* conf/template_client.yaml:15: "if zero this server will not be used     *)
(* unless domains are specified (only for these domains)".                 *)
ZeroWeightIsUnused ==
    selected \in Enabled /\ ~ByRule => servers[selected].weight # 0

(* conf/template_client.yaml:14: a weight "can be treated as the           *)
(* persentage of request going to this server", so one that has a weight   *)
(* gets some request.                                                      *)
WeightIsUsed ==
    Balance => \A i \in Weighted : servers[i].weight > 0 => Picks(i) > 0
=============================================================================
