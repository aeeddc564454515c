---------------------------- MODULE MCSelectServer ----------------------------
(* Instances of SelectServer for TLC: lists that differ in their rules,     *)
(* in their weights, or in the direct domains beside them.                  *)
EXTENDS SelectServer, TLC

Site == <<"site", "com">>
Www == <<"www", "site", "com">>
Other == <<"other", "org">>
Deep == <<"a", "www", "site", "com">>
Local == <<"x", "local">>
StringOrder == Deep :> 0 @@ Other :> 1 @@ Site :> 2 @@ Www :> 3 @@ Local :> 4
Names == {<<"browser", "browser">>, <<"torrent", "torrent">>}

SomeDomains ==
    {list \in UNION {[1..n -> {Site, Www, Other}] : n \in 0..3} :
        \A i, j \in DOMAIN list : i # j => list[i] # list[j]}
RuleServers ==
    {s \in [enabled : BOOLEAN, weight : {2}, apps : {{}, {"browser", "torrent"}},
            domains : SomeDomains, ready : BOOLEAN] :
        s.ready => \A i, j \in DOMAIN s.domains :
                      i < j => StringOrder[s.domains[i]] < StringOrder[s.domains[j]]}
RuleLists == {<<>>} \cup {<<s, t>> : s, t \in RuleServers}
AllRequests ==
    [process : {"", "browser", "torrent"}, target : {Site, Www, Deep, <<"com">>},
     pac : {FALSE}]
    \cup [process : {"browser"}, target : {Site, Www, Deep, <<"com">>, Local},
          pac : {TRUE}]

DirectLists == UNION {[1..n -> {Site, Www, Other, <<"org">>}] : n \in 0..3}
OneServer == {<<s>> : s \in {r \in RuleServers : r.enabled /\ r.ready}}

WeightServers ==
    [enabled : BOOLEAN, weight : {Unset, 0, 1, 3, 50}, apps : {{}}, domains : {<<>>},
     ready : {TRUE}]
Unweighted == [enabled |-> TRUE, weight |-> Unset, apps |-> {}, domains |-> <<>>, ready |-> TRUE]
WeightLists ==
    UNION {[1..n -> WeightServers] : n \in 1..3} \cup {[i \in 1..101 |-> Unweighted]}
AllSetups ==
    ((RuleLists \cup WeightLists) \X {<<>>}) \cup (OneServer \X DirectLists)
=============================================================================
