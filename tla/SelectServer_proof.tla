------------------------- MODULE SelectServer_proof -------------------------
(***************************************************************************)
(* Proofs about SelectServer, for any servers, rules, weights, direct      *)
(* domains and requests.                                                   *)
(***************************************************************************)
EXTENDS SelectServer, FiniteSetTheorems, WellFoundedInduction, TLAPS

-----------------------------------------------------------------------------
(* The first of some numbers, and induction in terms of a set of them.     *)

LEMMA First ==
    ASSUME NEW I, I \subseteq Nat, I # {}
    PROVE  FirstIn(I) \in I /\ \A i \in I : FirstIn(I) <= i
<1>1. PICK m \in I : \A y \in I : ~(y < m)
    <2>1. IsWellFoundedOn(OpToRel(<, Nat), I)
        BY NatLessThanWellFounded, IsWellFoundedOnSubset
    <2>2. PICK m \in I : \A y \in I : ~(<<y, m>> \in OpToRel(<, Nat))
        BY <2>1, WFMin
    <2>. QED  BY <2>2 DEF OpToRel
<1>2. \A y \in I : m <= y
    BY <1>1
<1>. QED  BY <1>2 DEF FirstIn

LEMMA Induction ==
    ASSUME NEW S, \A n \in Nat : (\A m \in Nat : m < n => m \in S) => n \in S
    PROVE  \A n \in Nat : n \in S
<1>. SUFFICES ASSUME Nat \ S # {} PROVE FALSE
    OBVIOUS
<1>1. FirstIn(Nat \ S) \in Nat \ S /\ \A i \in Nat \ S : FirstIn(Nat \ S) <= i
    BY First
<1>2. \A m \in Nat : m < FirstIn(Nat \ S) => m \in S
    BY <1>1
<1>. QED  BY <1>1, <1>2

-----------------------------------------------------------------------------
(* slice::binary_search.                                                   *)

(* A step of the search, on what is found in fewer items.                  *)
Halves(found, list, domain, size) ==
    [base \in 1..Len(list) + 1 |->
        IF size = 0 THEN 0
        ELSE IF size = 1 THEN IF list[base] = domain THEN base ELSE 0
        ELSE found[size - size \div 2]
                  [IF Rank[list[base + size \div 2]] > Rank[domain]
                   THEN base ELSE base + size \div 2]]

LEMMA HalvesSame ==
    ASSUME NEW f, NEW g, NEW list, NEW domain, NEW n \in Nat,
           \A m \in Nat : m < n => f[m] = g[m]
    PROVE  Halves(f, list, domain, n) = Halves(g, list, domain, n)
<1>1. CASE n = 0 \/ n = 1
    BY <1>1 DEF Halves
<1>2. CASE n > 1
    <2>1. n - n \div 2 \in Nat /\ n - n \div 2 < n
        BY <1>2
    <2>2. f[n - n \div 2] = g[n - n \div 2]
        BY <2>1
    <2>. QED  BY <2>2 DEF Halves
<1>. QED  BY <1>1, <1>2

LEMMA HalvesOne ==
    ASSUME NEW f, NEW list, NEW domain, NEW b \in 1..Len(list) + 1
    PROVE  /\ Halves(f, list, domain, 0)[b] = 0
           /\ Halves(f, list, domain, 1)[b] = IF list[b] = domain THEN b ELSE 0
BY DEF Halves

LEMMA HalvesMore ==
    ASSUME NEW f, NEW list, NEW domain, NEW n \in Nat, n > 1, NEW b \in 1..Len(list) + 1,
           NEW p, p = b + n \div 2, NEW c, c = IF Rank[list[p]] > Rank[domain] THEN b ELSE p
    PROVE  Halves(f, list, domain, n)[b] = f[n - n \div 2][c]
<1>1. n # 0 /\ n # 1
    OBVIOUS
<1>. QED  BY <1>1, Zenon DEF Halves

(* The search is defined for every number of items.                        *)
LEMMA SearchExists ==
    ASSUME NEW list, NEW domain, NEW N \in Nat
    PROVE  \E g : g = [k \in 0..N |-> Halves(g, list, domain, k)]
<1>. DEFINE S == {n \in Nat : \E g : g = [k \in 0..n |-> Halves(g, list, domain, k)]}
<1>1. ASSUME NEW n \in Nat, \A m \in Nat : m < n => m \in S PROVE n \in S
    <2>1. PICK g : \A k \in 0..(n - 1) : g[k] = Halves(g, list, domain, k)
        <3>1. CASE n = 0
            BY <3>1
        <3>2. CASE n # 0
            <4>1. n - 1 \in S
                BY <1>1, <3>2
            <4>. QED  BY <4>1
        <3>. QED  BY <3>1, <3>2
    <2>. DEFINE h == [k \in 0..n |-> IF k = n THEN Halves(g, list, domain, n) ELSE g[k]]
    <2>2. \A k \in 0..(n - 1) : h[k] = g[k]
        OBVIOUS
    <2>3. h[n] = Halves(g, list, domain, n)
        OBVIOUS
    <2>4. h = [k \in 0..n |-> h[k]]
        OBVIOUS
    <2>. HIDE DEF h
    <2>5. ASSUME NEW k \in 0..n PROVE h[k] = Halves(h, list, domain, k)
        <3>1. \A m \in Nat : m < k => g[m] = h[m]
            BY <2>2
        <3>2. Halves(g, list, domain, k) = Halves(h, list, domain, k)
            BY <3>1, HalvesSame
        <3>3. CASE k = n
            BY <2>3, <3>2, <3>3
        <3>4. CASE k # n
            BY <2>1, <2>2, <3>2, <3>4
        <3>. QED  BY <3>3, <3>4
    <2>6. h = [k \in 0..n |-> Halves(h, list, domain, k)]
        BY <2>4, <2>5
    <2>. QED  BY <2>6
<1>2. N \in S
    <2>. HIDE DEF S
    <2>. QED  BY <1>1, Induction
<1>. QED  BY <1>2

LEMMA SearchIs ==
    ASSUME NEW list, NEW domain, Len(list) \in Nat
    PROVE  \E f : /\ Bisect(list, domain) <=> f[Len(list)][1] # 0
                  /\ \A k \in 0..Len(list) : f[k] = Halves(f, list, domain, k)
<1>. DEFINE f == CHOOSE f : f = [k \in 0..Len(list) |-> Halves(f, list, domain, k)]
<1>1. f = [k \in 0..Len(list) |-> Halves(f, list, domain, k)]
    <2>1. \E g : g = [k \in 0..Len(list) |-> Halves(g, list, domain, k)]
        BY SearchExists
    <2>. QED  BY <2>1
<1>2. Bisect(list, domain) <=> f[Len(list)][1] # 0
    BY DEF Bisect, Halves
<1>. HIDE DEF f
<1>3. \A k \in 0..Len(list) : f[k] = Halves(f, list, domain, k)
    BY <1>1
<1>. QED  BY <1>2, <1>3

LEMMA Half ==
    ASSUME NEW n \in Nat, n > 1
    PROVE  /\ n \div 2 \in Nat /\ n - n \div 2 \in Nat
           /\ 1 <= n \div 2 /\ n \div 2 < n /\ n - n \div 2 < n /\ n - n \div 2 + n \div 2 = n
           /\ n \div 2 <= n - n \div 2
OBVIOUS

(* Where a part of a list begins and ends, when its first h items are left *)
(* out or it keeps its beginning.                                          *)
LEMMA Parts ==
    ASSUME NEW l \in Nat, NEW n \in Nat, NEW h \in Nat, NEW b \in 1..l + 1, NEW c \in {b, b + h},
           n <= l, b + n <= l + 1, 1 <= h, h < n
    PROVE  /\ n - h <= l /\ b + h \in 1..l /\ b + h + (n - h) = b + n
           /\ c \in 1..l + 1 /\ c + (n - h) <= l + 1
OBVIOUS

(* What the search finds is in the list, whether or not that is sorted.    *)
LEMMA BisectFinds ==
    ASSUME NEW list, List(list), NEW domain, Bisect(list, domain)
    PROVE  domain \in Range(list)
<1>1. Len(list) \in Nat /\ DOMAIN list = 1..Len(list)
    BY DEF List
<1>2. PICK f : /\ Bisect(list, domain) <=> f[Len(list)][1] # 0
               /\ \A k \in 0..Len(list) : f[k] = Halves(f, list, domain, k)
    BY <1>1, SearchIs
<1>. DEFINE S == {n \in Nat : n <= Len(list) =>
                    \A b \in 1..Len(list) + 1 :
                        b + n <= Len(list) + 1 /\ f[n][b] # 0 => domain \in Range(list)}
<1>3. ASSUME NEW n \in Nat, \A m \in Nat : m < n => m \in S PROVE n \in S
    <2>. SUFFICES ASSUME n <= Len(list), NEW b \in 1..Len(list) + 1, b + n <= Len(list) + 1,
                         f[n][b] # 0
                  PROVE  domain \in Range(list)
        OBVIOUS
    <2>1. f[n] = Halves(f, list, domain, n)
        BY <1>1, <1>2
    <2>2. CASE n = 0
        <3>1. f[n][b] = 0
            BY <2>1, <2>2, HalvesOne
        <3>. QED  BY <3>1
    <2>3. CASE n = 1
        <3>1. b \in DOMAIN list
            BY <1>1, <2>3
        <3>2. f[n][b] = IF list[b] = domain THEN b ELSE 0
            BY <2>1, <2>3, HalvesOne
        <3>3. list[b] = domain
            BY <3>2
        <3>. QED  BY <3>1, <3>3 DEF Range
    <2>4. CASE n > 1
        <3>. DEFINE p == b + n \div 2
                    c == IF Rank[list[p]] > Rank[domain] THEN b ELSE p
        <3>1. f[n][b] = f[n - n \div 2][c]
            BY <2>1, <2>4, HalvesMore
        <3>2. /\ n - n \div 2 \in Nat /\ n - n \div 2 < n /\ n - n \div 2 <= Len(list)
              /\ c \in 1..Len(list) + 1 /\ c + (n - n \div 2) <= Len(list) + 1
            <4>1. /\ n \div 2 \in Nat /\ n - n \div 2 \in Nat /\ 1 <= n \div 2 /\ n \div 2 < n
                  /\ n - n \div 2 < n /\ n \div 2 <= n - n \div 2
                BY <2>4, Half
            <4>2. c \in {b, p}
                OBVIOUS
            <4>. HIDE DEF c, S
            <4>. QED  BY <1>1, <2>4, <4>1, <4>2, Parts
        <3>3. n - n \div 2 \in S
            BY <1>3, <3>2
        <3>. QED  BY <3>1, <3>2, <3>3
    <2>. QED  BY <2>2, <2>3, <2>4
<1>4. Len(list) \in S
    <2>. HIDE DEF S
    <2>. QED  BY <1>1, <1>3, Induction
<1>5. f[Len(list)][1] # 0
    BY <1>2
<1>. QED  BY <1>1, <1>4, <1>5

(* In a sorted list it finds what is there.                                *)
LEMMA BisectMisses ==
    ASSUME NEW list, List(list), Sorted(list), NEW domain \in Range(list),
           \A d \in Range(list) : Rank[d] \in Int
    PROVE  Bisect(list, domain)
<1>1. Len(list) \in Nat /\ DOMAIN list = 1..Len(list)
    BY DEF List
<1>2. PICK f : /\ Bisect(list, domain) <=> f[Len(list)][1] # 0
               /\ \A k \in 0..Len(list) : f[k] = Halves(f, list, domain, k)
    BY <1>1, SearchIs
<1>3. PICK i \in 1..Len(list) : list[i] = domain
    BY <1>1 DEF Range
<1>4. \A j \in 1..Len(list) : Rank[list[j]] \in Int /\ Rank[domain] \in Int
    BY <1>1, <1>3 DEF Range
<1>5. /\ \A j \in 1..Len(list) : j < i => Rank[list[j]] < Rank[domain]
      /\ \A j \in 1..Len(list) : i < j => Rank[domain] < Rank[list[j]]
    BY <1>1, <1>3 DEF Sorted
<1>. DEFINE S == {n \in Nat : n <= Len(list) =>
                    \A b \in 1..Len(list) + 1 :
                        b + n <= Len(list) + 1 /\ b <= i /\ i < b + n => f[n][b] # 0}
<1>6. ASSUME NEW n \in Nat, \A m \in Nat : m < n => m \in S PROVE n \in S
    <2>. SUFFICES ASSUME n <= Len(list), NEW b \in 1..Len(list) + 1, b + n <= Len(list) + 1,
                         b <= i, i < b + n
                  PROVE  f[n][b] # 0
        OBVIOUS
    <2>1. f[n] = Halves(f, list, domain, n)
        BY <1>1, <1>2
    <2>2. n # 0
        BY <1>3
    <2>3. CASE n = 1
        <3>1. b = i
            BY <1>3, <2>3
        <3>2. f[n][b] = IF list[b] = domain THEN b ELSE 0
            BY <2>1, <2>3, HalvesOne
        <3>. QED  BY <1>3, <3>1, <3>2
    <2>4. CASE n > 1
        <3>. DEFINE p == b + n \div 2
                    c == IF Rank[list[p]] > Rank[domain] THEN b ELSE p
        <3>1. f[n][b] = f[n - n \div 2][c]
            BY <2>1, <2>4, HalvesMore
        <3>2. /\ n - n \div 2 \in Nat /\ n - n \div 2 < n /\ n - n \div 2 <= Len(list)
              /\ n \div 2 \in Nat /\ p \in 1..Len(list) /\ p + (n - n \div 2) = b + n
              /\ n \div 2 <= n - n \div 2
              /\ c \in 1..Len(list) + 1 /\ c + (n - n \div 2) <= Len(list) + 1
            <4>1. /\ n \div 2 \in Nat /\ n - n \div 2 \in Nat /\ 1 <= n \div 2 /\ n \div 2 < n
                  /\ n - n \div 2 < n /\ n \div 2 <= n - n \div 2
                BY <2>4, Half
            <4>2. c \in {b, p}
                OBVIOUS
            <4>. HIDE DEF c, S
            <4>. QED  BY <1>1, <2>4, <4>1, <4>2, Parts
        <3>3. c <= i /\ i < c + (n - n \div 2)
            <4>1. CASE Rank[list[p]] > Rank[domain]
                <5>1. i < p
                    <6>. HIDE DEF p, S
                    <6>1. p # i
                        BY <1>3, <1>4, <4>1
                    <6>2. ~(p < i)
                        BY <1>4, <1>5, <3>2, <4>1
                    <6>. QED  BY <1>3, <3>2, <6>1, <6>2
                <5>. QED  BY <3>2, <4>1, <5>1
            <4>2. CASE ~(Rank[list[p]] > Rank[domain])
                <5>1. p <= i
                    BY <1>3, <1>4, <1>5, <3>2, <4>2
                <5>. QED  BY <3>2, <4>2, <5>1
            <4>. QED  BY <4>1, <4>2
        <3>4. n - n \div 2 \in S
            BY <1>6, <3>2
        <3>. QED  BY <3>1, <3>2, <3>3, <3>4
    <2>. QED  BY <2>2, <2>3, <2>4
<1>7. Len(list) \in S
    <2>. HIDE DEF S
    <2>. QED  BY <1>1, <1>6, Induction
<1>8. f[Len(list)][1] # 0
    BY <1>1, <1>3, <1>7
<1>. QED  BY <1>2, <1>8

-----------------------------------------------------------------------------
(* What a decision was, in terms of the rules.                             *)

Known ==
    /\ \E setup \in Setups : servers = setup[1] /\ direct = setup[2]
    /\ request \in Requests
    /\ outcome \in {"none", "proxy", "DIRECT", "direct", "no servers", "panic", "server"}

AskedFirst ==
    /\ outcome = "DIRECT" => request.pac /\ FindsDirect(request.target)
    /\ request.pac /\ outcome \notin {"none", "DIRECT"} => ~FindsDirect(request.target)

ByTheRules ==
    /\ outcome = "direct" => GoesDirect
    /\ outcome \in {"no servers", "panic", "server"} => ~GoesDirect
    /\ outcome = "no servers" => servers = <<>>
    /\ outcome = "panic" => ~ByRule /\ Draws = {}
    /\ outcome = "server" =>
          /\ servers # <<>>
          /\ ByApp # {} => selected = FirstIn(ByApp)
          /\ ByApp = {} /\ ByDomain # {} => selected = FirstIn(ByDomain)

LEMMA KeepsKnown == Spec => []Known
<1>1. Init => Known
    BY DEF Init, Known
<1>2. Known /\ [Next]_vars => Known'
    <2>. SUFFICES ASSUME Known, [Next]_vars PROVE Known'
        OBVIOUS
    <2>1. UNCHANGED <<servers, direct, request>>
        BY DEF Next, Ask, Select, vars
    <2>2. outcome' \in {"none", "proxy", "DIRECT", "direct", "no servers", "panic", "server"}
        BY DEF Known, Next, Ask, Select, Outcome, vars
    <2>. QED  BY <2>1, <2>2 DEF Known
<1>. QED  BY <1>1, <1>2, PTL DEF Spec

LEMMA KeepsAskedFirst == Spec => []AskedFirst
<1>1. Init => AskedFirst
    BY DEF Init, AskedFirst
<1>2. AskedFirst /\ [Next]_vars => AskedFirst'
    <2>. SUFFICES ASSUME AskedFirst, [Next]_vars PROVE AskedFirst'
        OBVIOUS
    <2>1. UNCHANGED <<servers, direct, request>>
        BY DEF Next, Ask, Select, vars
    <2>2. FindsDirect(request.target)' <=> FindsDirect(request.target)
        BY <2>1 DEF FindsDirect, hosts_by_dots
    <2>3. CASE Ask
        BY <2>1, <2>2, <2>3 DEF Ask, Outcome, AskedFirst
    <2>4. CASE Select
        <3>1. request.pac => outcome = "proxy"
            BY <2>4 DEF Select
        <3>2. outcome' # "DIRECT"
            BY <2>4 DEF Select, Outcome
        <3>. QED  BY <2>1, <2>2, <3>1, <3>2 DEF AskedFirst
    <2>5. CASE UNCHANGED vars
        BY <2>1, <2>2, <2>5 DEF vars, AskedFirst
    <2>. QED  BY <2>3, <2>4, <2>5 DEF Next
<1>. QED  BY <1>1, <1>2, PTL DEF Spec

LEMMA KeepsByTheRules == Spec => []ByTheRules
<1>1. Init => ByTheRules
    BY DEF Init, ByTheRules
<1>2. ByTheRules /\ [Next]_vars => ByTheRules'
    <2>. SUFFICES ASSUME ByTheRules, [Next]_vars PROVE ByTheRules'
        OBVIOUS
    <2>1. UNCHANGED <<servers, direct, request>>
        BY DEF Next, Ask, Select, vars
    <2>2. ByApp' = ByApp /\ ByDomain' = ByDomain
        BY <2>1 DEF ByApp, ByDomain, Enabled
    <2>3. (GoesDirect' <=> GoesDirect) /\ (ByRule' <=> ByRule)
        BY <2>1, <2>2 DEF ByRule, GoesDirect
    <2>4. Draws' = Draws
        BY <2>1 DEF Draws, avr_weight, total_weight, unweighted_count, Weighted, Enabled, SumsOf
    <2>5. CASE Ask
        BY <2>5 DEF Ask, Outcome, ByTheRules
    <2>6. CASE Select
        <3>1. outcome' = "no servers" => servers = <<>>
            BY <2>6 DEF Select, Outcome
        <3>2. outcome' = "panic" => ~ByRule /\ Draws = {}
            BY <2>6 DEF Select, Outcome
        <3>3. outcome' = "server" => (ByApp # {} => selected' = FirstIn(ByApp))
            BY <2>6 DEF Select, Outcome, ByRule
        <3>4. outcome' = "server" =>
                (ByApp = {} /\ ByDomain # {} => selected' = FirstIn(ByDomain))
            BY <2>6 DEF Select, Outcome, ByRule
        <3>5. outcome' = "server" => servers # <<>>
            <4>1. servers = <<>> => ByApp = {} /\ ByDomain = {}
                <5>1. servers = <<>> => Enabled = {}
                    BY DEF Enabled
                <5>. QED  BY <5>1 DEF ByApp, ByDomain
            <4>. QED  BY <2>6, <4>1 DEF Select, Outcome, ByRule
        <3>6. outcome' = "direct" => GoesDirect
            BY <2>6 DEF Select, Outcome
        <3>7. outcome' \in {"no servers", "panic", "server"} => ~GoesDirect
            <4>1. GoesDirect => outcome' = "direct"
                BY <2>6 DEF Select, Outcome, ByRule
            <4>. QED  BY <4>1
        <3>. QED  BY <2>1, <2>2, <2>3, <2>4, <3>1, <3>2, <3>3, <3>4, <3>5, <3>6, <3>7
                     DEF ByTheRules
    <2>7. CASE UNCHANGED vars
        BY <2>1, <2>2, <2>3, <2>4, <2>7 DEF vars, ByTheRules
    <2>. QED  BY <2>5, <2>6, <2>7 DEF Next
<1>. QED  BY <1>1, <1>2, PTL DEF Spec

LEMMA KnownServers ==
    ASSUME Known
    PROVE  /\ List(servers) /\ Len(servers) \in Nat /\ DOMAIN servers = 1..Len(servers)
           /\ Enabled \subseteq 1..Len(servers)
           /\ \A i \in DOMAIN servers :
                 /\ servers[i].weight = Unset \/ servers[i].weight \in Nat
                 /\ List(servers[i].domains)
                 /\ \A d \in Range(servers[i].domains) : Rank[d] \in Int
                 /\ servers[i].ready => Sorted(servers[i].domains)
           /\ List(direct) /\ \A i \in DOMAIN direct : List(direct[i])
           /\ List(request.target) /\ request.target # <<>>
<1>. PICK setup \in Setups : servers = setup[1] /\ direct = setup[2]
    BY DEF Known
<1>1. List(servers) /\ List(direct) /\ \A i \in DOMAIN direct : List(direct[i])
    BY SelectServerAssumption
<1>2. Len(servers) \in Nat /\ DOMAIN servers = 1..Len(servers)
    BY <1>1 DEF List
<1>3. Enabled \subseteq 1..Len(servers)
    BY <1>2 DEF Enabled
<1>4. ASSUME NEW i \in DOMAIN servers
      PROVE  /\ servers[i].weight = Unset \/ servers[i].weight \in Nat
             /\ List(servers[i].domains)
             /\ \A d \in Range(servers[i].domains) : Rank[d] \in Int
             /\ servers[i].ready => Sorted(servers[i].domains)
    BY SelectServerAssumption
<1>5. List(request.target) /\ request.target # <<>>
    BY SelectServerAssumption DEF Known
<1>. QED  BY <1>1, <1>2, <1>3, <1>4, <1>5

-----------------------------------------------------------------------------
(* The rules of `Proxy::select_server` are taken in their order and none is*)
(* missed: an application that goes direct, whatever else names it, and    *)
(* nothing else goes direct; a request without servers is refused; then an *)
(* application of a server, then a domain, that of an initialised server   *)
(* always, both before the balance by weight.                              *)
THEOREM RulesGoFirst == Spec => []RulesInOrder
<1>1. ASSUME Known, ByTheRules PROVE RulesInOrder
    <2>. USE <1>1
    <2>. SUFFICES ASSUME Decided, outcome # "DIRECT"
                  PROVE  /\ (outcome = "direct") <=> GoesDirect
                         /\ (outcome = "no servers") <=> (servers = <<>> /\ ~GoesDirect)
                         /\ (\E i \in Enabled : HasApp(i)) /\ ~GoesDirect
                                => selected \in Enabled /\ HasApp(selected)
                         /\ (\E i \in Enabled : servers[i].ready /\ Lists(i))
                                /\ ByApp = {} /\ ~GoesDirect
                                => selected \in Enabled /\ Lists(selected)
        BY DEF RulesInOrder, IsDirectApp, GoesDirect, ByApp, HasApp
    <2>1. outcome \in {"direct", "no servers", "panic", "server"}
        BY DEF Known, Decided
    <2>2. ByApp = {i \in Enabled : HasApp(i)}
        BY DEF ByApp, HasApp
    <2>3. ASSUME NEW i \in Enabled, servers[i].ready, Lists(i) PROVE i \in ByDomain
        <3>1. PICK d \in Suffixes(request.target) : d \in Range(servers[i].domains)
            BY <2>3 DEF Lists
        <3>2. i \in DOMAIN servers
            BY DEF Enabled
        <3>3. Bisect(servers[i].domains, d)
            BY <2>3, <3>1, <3>2, KnownServers, BisectMisses
        <3>. QED  BY <3>1, <3>3 DEF ByDomain
    <2>4. ASSUME NEW i \in ByDomain PROVE i \in Enabled /\ Lists(i)
        <3>1. PICK d \in Suffixes(request.target) : Bisect(servers[i].domains, d)
            BY DEF ByDomain
        <3>2. i \in Enabled /\ i \in DOMAIN servers
            BY DEF ByDomain, Enabled
        <3>3. d \in Range(servers[i].domains)
            BY <3>1, <3>2, KnownServers, BisectFinds
        <3>. QED  BY <3>1, <3>2, <3>3 DEF Lists
    <2>5. ByApp \subseteq Nat /\ ByDomain \subseteq Nat
        BY KnownServers DEF ByApp, ByDomain
    <2>6. CASE outcome = "direct"
        BY <2>6 DEF ByTheRules
    <2>7. CASE outcome = "no servers"
        <3>1. servers = <<>> /\ ~GoesDirect
            BY <2>7 DEF ByTheRules
        <3>2. Enabled = {}
            <4>1. Len(servers) = 0
                BY <3>1
            <4>. QED  BY <4>1, KnownServers
        <3>. QED  BY <2>7, <3>1, <3>2
    <2>8. CASE outcome = "panic"
        <3>1. ~GoesDirect /\ servers # <<>> /\ ByApp = {} /\ ByDomain = {}
            BY <2>8 DEF ByTheRules, ByRule
        <3>. QED  BY <2>2, <2>3, <2>8, <3>1
    <2>9. CASE outcome = "server"
        <3>1. ByApp # {} => selected \in ByApp
            BY <2>5, <2>9, First DEF ByTheRules
        <3>2. ByApp = {} /\ ByDomain # {} => selected \in ByDomain
            BY <2>5, <2>9, First DEF ByTheRules
        <3>3. ~GoesDirect /\ servers # <<>>
            BY <2>9 DEF ByTheRules
        <3>. QED  BY <2>2, <2>3, <2>4, <2>9, <3>1, <3>2, <3>3
    <2>. QED  BY <2>1, <2>6, <2>7, <2>8, <2>9
<1>. QED  BY <1>1, KeepsKnown, KeepsByTheRules, PTL

-----------------------------------------------------------------------------
(* The lists of the PAC file.                                              *)

(* The largest of finitely many lengths is one of them.                    *)
LEMMA LongestExists ==
    ASSUME NEW list, List(list), \A i \in DOMAIN list : List(list[i]),
           NEW T, T = {0} \cup {Len(list[i]) : i \in DOMAIN list}
    PROVE  Max(T) \in Nat /\ \A t \in T : t <= Max(T)
<1>1. Len(list) \in Nat /\ DOMAIN list = 1..Len(list)
    BY DEF List
<1>2. \A i \in DOMAIN list : Len(list[i]) \in Nat
    BY DEF List
<1>. DEFINE S == {n \in Nat : \E b \in Nat : \A i \in DOMAIN list : i <= n => Len(list[i]) <= b}
<1>3. ASSUME NEW n \in Nat, \A m \in Nat : m < n => m \in S PROVE n \in S
    <2>1. CASE n = 0
        BY <1>1, <2>1
    <2>2. CASE n # 0
        <3>1. n - 1 \in S
            BY <1>3, <2>2
        <3>2. PICK b \in Nat : \A i \in DOMAIN list : i <= n - 1 => Len(list[i]) <= b
            BY <3>1
        <3>3. CASE n \in DOMAIN list
            <4>. DEFINE c == IF Len(list[n]) <= b THEN b ELSE Len(list[n])
            <4>1. c \in Nat /\ b <= c /\ Len(list[n]) <= c
                BY <1>2, <3>3
            <4>. HIDE DEF c
            <4>2. ASSUME NEW i \in DOMAIN list, i <= n PROVE Len(list[i]) <= c
                BY <1>1, <1>2, <3>2, <4>1, <4>2
            <4>. QED  BY <4>1, <4>2
        <3>4. CASE n \notin DOMAIN list
            <4>1. \A i \in DOMAIN list : i <= n => i <= n - 1
                BY <1>1, <3>4
            <4>. QED  BY <3>2, <4>1
        <3>. QED  BY <3>3, <3>4
    <2>. QED  BY <2>1, <2>2
<1>4. Len(list) \in S
    <2>. HIDE DEF S
    <2>. QED  BY <1>1, <1>3, Induction
<1>5. T \subseteq Nat /\ 0 \in T
    BY <1>2
<1>. DEFINE B == {b \in Nat : \A t \in T : t <= b}
<1>6. FirstIn(B) \in B /\ \A b \in B : FirstIn(B) <= b
    <2>1. PICK b \in Nat : \A i \in DOMAIN list : i <= Len(list) => Len(list[i]) <= b
        BY <1>4
    <2>2. b \in B
        BY <1>1, <2>1
    <2>. HIDE DEF B
    <2>3. B \subseteq Nat
        BY DEF B
    <2>. QED  BY <2>2, <2>3, First
<1>7. FirstIn(B) \in T
    <2>. SUFFICES ASSUME FirstIn(B) \notin T PROVE FALSE
        OBVIOUS
    <2>. DEFINE m == FirstIn(B)
    <2>1. m \in Nat /\ \A t \in T : t <= m /\ t # m
        BY <1>6
    <2>2. \A b \in B : m <= b
        BY <1>6
    <2>. HIDE DEF m
    <2>3. m - 1 \in Nat /\ \A t \in T : t <= m - 1
        BY <1>5, <2>1
    <2>4. m - 1 \in B
        BY <2>3
    <2>. QED  BY <2>1, <2>2, <2>4
<1>8. \E x \in T : \A y \in T : x >= y
    BY <1>5, <1>6, <1>7
<1>. QED  BY <1>5, <1>8 DEF Max

LEMMA SuffixIs ==
    ASSUME NEW target, List(target), NEW i \in 1..Len(target)
    PROVE  Len(SubSeq(target, i, Len(target))) = Len(target) - i + 1
BY DEF List

(* FindProxyForURL finds the direct domains that cover the host.           *)
LEMMA FindsCovering ==
    ASSUME Known
    PROVE  FindsDirect(request.target) <=>
                \/ Len(request.target) = 1 \/ request.target[Len(request.target)] = "local"
                \/ \E d \in Range(direct) : Covers(d)
<1>. DEFINE host == request.target
            T == {0} \cup {Len(direct[i]) : i \in DOMAIN direct}
<1>1. List(host) /\ Len(host) \in Nat /\ DOMAIN host = 1..Len(host)
    BY KnownServers DEF List
<1>2. Max(T) \in Nat /\ \A t \in T : t <= Max(T)
    BY KnownServers, LongestExists
<1>3. DOMAIN hosts_by_dots = 1..Max(T)
    BY DEF hosts_by_dots
<1>4. \A n \in 1..Max(T) : hosts_by_dots[n] = {d \in Range(direct) : Len(d) = n}
    BY DEF hosts_by_dots
<1>. HIDE DEF T
<1>5. ASSUME NEW n \in DOMAIN hosts_by_dots, n <= Len(host),
             SubSeq(host, Len(host) - n + 1, Len(host)) \in hosts_by_dots[n]
      PROVE  \E d \in Range(direct) : Covers(d)
    <2>1. n \in 1..Max(T) /\ Len(host) - n + 1 \in DOMAIN host
        BY <1>1, <1>2, <1>3, <1>5
    <2>2. SubSeq(host, Len(host) - n + 1, Len(host)) \in Range(direct)
        BY <1>4, <1>5, <2>1
    <2>. QED  BY <2>1, <2>2 DEF Covers
<1>6. ASSUME NEW d \in Range(direct), Covers(d)
      PROVE  \E n \in DOMAIN hosts_by_dots :
                n <= Len(host) /\ SubSeq(host, Len(host) - n + 1, Len(host)) \in hosts_by_dots[n]
    <2>1. PICK i \in 1..Len(host) : SubSeq(host, i, Len(host)) = d
        BY <1>1, <1>6 DEF Covers
    <2>. DEFINE n == Len(host) - i + 1
    <2>2. Len(d) = n /\ n \in Nat /\ 1 <= n /\ n <= Len(host) /\ Len(host) - n + 1 = i
        BY <1>1, <2>1, SuffixIs
    <2>. HIDE DEF n
    <2>3. Len(d) \in T
        BY DEF T, Range
    <2>4. n \in 1..Max(T)
        BY <1>2, <2>2, <2>3
    <2>5. d \in hosts_by_dots[n]
        BY <1>4, <2>2, <2>4
    <2>6. SubSeq(host, Len(host) - n + 1, Len(host)) = d
        BY <2>1, <2>2
    <2>. QED  BY <1>3, <2>2, <2>4, <2>5, <2>6
<1>. QED  BY <1>5, <1>6 DEF FindsDirect

(* The PAC file of pac_file_service.rs sends a browser past the proxy for  *)
(* the direct domains and what is in them, for any list of them.           *)
THEOREM PacGoesDirectByRule == Spec => []DirectByRule
<1>1. ASSUME Known, AskedFirst PROVE DirectByRule
    <2>. SUFFICES ASSUME Decided, request.pac
                  PROVE  outcome = "DIRECT" <=> FindsDirect(request.target)
        BY <1>1, FindsCovering DEF DirectByRule
    <2>. QED  BY <1>1 DEF AskedFirst, Decided
<1>. QED  BY <1>1, KeepsKnown, KeepsAskedFirst, PTL

-----------------------------------------------------------------------------
(* The sums of the weights.                                                *)

LEMMA SumExists ==
    ASSUME NEW w, NEW N \in Nat
    PROVE  \E g : g = [n \in 0..N |-> IF n = 0 THEN 0 ELSE g[n - 1] + w[n]]
<1>. DEFINE S == {n \in Nat : \E g : g = [k \in 0..n |-> IF k = 0 THEN 0 ELSE g[k - 1] + w[k]]}
<1>1. ASSUME NEW n \in Nat, \A m \in Nat : m < n => m \in S PROVE n \in S
    <2>1. CASE n = 0
        <3>. DEFINE h == [k \in 0..n |-> 0]
        <3>1. \A k \in 0..n : k = 0
            BY <2>1
        <3>2. h = [k \in 0..n |-> IF k = 0 THEN 0 ELSE h[k - 1] + w[k]]
            BY <3>1
        <3>. QED  BY <3>2
    <2>2. CASE n # 0
        <3>1. n - 1 \in S
            BY <1>1, <2>2
        <3>2. PICK g : g = [k \in 0..(n - 1) |-> IF k = 0 THEN 0 ELSE g[k - 1] + w[k]]
            BY <3>1
        <3>. DEFINE h == [k \in 0..n |-> IF k = n THEN g[n - 1] + w[n] ELSE g[k]]
        <3>3. h = [k \in 0..n |-> h[k]]
            OBVIOUS
        <3>4. \A k \in 0..(n - 1) : h[k] = g[k]
            OBVIOUS
        <3>5. h[n] = g[n - 1] + w[n]
            OBVIOUS
        <3>. HIDE DEF h
        <3>6. ASSUME NEW k \in 0..n PROVE h[k] = IF k = 0 THEN 0 ELSE h[k - 1] + w[k]
            <4>1. CASE k = n
                <5>1. h[n - 1] = g[n - 1]
                    BY <2>2, <3>4
                <5>. QED  BY <2>2, <3>5, <4>1, <5>1
            <4>2. CASE k # n
                <5>1. k \in 0..(n - 1) /\ (k # 0 => k - 1 \in 0..(n - 1))
                    BY <4>2
                <5>2. g[k] = IF k = 0 THEN 0 ELSE g[k - 1] + w[k]
                    BY <3>2, <5>1
                <5>. QED  BY <3>4, <5>1, <5>2
            <4>. QED  BY <4>1, <4>2
        <3>7. h = [k \in 0..n |-> IF k = 0 THEN 0 ELSE h[k - 1] + w[k]]
            BY <3>3, <3>6
        <3>. QED  BY <3>7
    <2>. QED  BY <2>1, <2>2
<1>2. N \in S
    <2>. HIDE DEF S
    <2>. QED  BY <1>1, Induction
<1>. QED  BY <1>2

LEMMA SumsAre ==
    ASSUME NEW w, Len(servers) \in Nat
    PROVE  /\ SumsOf(w)[0] = 0
           /\ \A n \in 1..Len(servers) : SumsOf(w)[n] = SumsOf(w)[n - 1] + w[n]
<1>. DEFINE s == SumsOf(w)
<1>1. s = [n \in 0..Len(servers) |-> IF n = 0 THEN 0 ELSE s[n - 1] + w[n]]
    <2>1. \E g : g = [n \in 0..Len(servers) |-> IF n = 0 THEN 0 ELSE g[n - 1] + w[n]]
        BY SumExists
    <2>. QED  BY <2>1 DEF SumsOf
<1>. HIDE DEF s
<1>2. s[0] = 0 /\ \A n \in 1..Len(servers) : s[n] = s[n - 1] + w[n]
    BY <1>1
<1>. QED  BY <1>2 DEF s

LEMMA SumsNat ==
    ASSUME NEW w, Len(servers) \in Nat, \A i \in 1..Len(servers) : w[i] \in Nat
    PROVE  \A n \in 0..Len(servers) : SumsOf(w)[n] \in Nat
<1>. DEFINE s == SumsOf(w)
            S == {n \in Nat : n <= Len(servers) => s[n] \in Nat}
<1>1. s[0] = 0 /\ \A n \in 1..Len(servers) : s[n] = s[n - 1] + w[n]
    BY SumsAre
<1>. HIDE DEF s
<1>2. ASSUME NEW n \in Nat, \A m \in Nat : m < n => m \in S PROVE n \in S
    <2>1. CASE n = 0
        BY <1>1, <2>1
    <2>2. CASE n # 0
        <3>1. n - 1 \in S
            BY <1>2, <2>2
        <3>. QED  BY <1>1, <2>2, <3>1
    <2>. QED  BY <2>1, <2>2
<1>3. \A n \in Nat : n \in S
    <2>. HIDE DEF S
    <2>. QED  BY <1>2, Induction
<1>. QED  BY <1>3 DEF s

LEMMA SumsZero ==
    ASSUME NEW w, Len(servers) \in Nat, \A i \in 1..Len(servers) : w[i] = 0
    PROVE  SumsOf(w)[Len(servers)] = 0
<1>. DEFINE s == SumsOf(w)
            S == {n \in Nat : n <= Len(servers) => s[n] = 0}
<1>1. s[0] = 0 /\ \A n \in 1..Len(servers) : s[n] = s[n - 1] + w[n]
    BY SumsAre
<1>. HIDE DEF s
<1>2. ASSUME NEW n \in Nat, \A m \in Nat : m < n => m \in S PROVE n \in S
    <2>1. CASE n = 0
        BY <1>1, <2>1
    <2>2. CASE n # 0
        <3>1. n - 1 \in S
            BY <1>2, <2>2
        <3>. QED  BY <1>1, <2>2, <3>1
    <2>. QED  BY <2>1, <2>2
<1>3. Len(servers) \in S
    <2>. HIDE DEF S
    <2>. QED  BY <1>2, Induction
<1>. QED  BY <1>3 DEF s

(* Weights of one and more add up to no less than their number.            *)
LEMMA SumsAtLeast ==
    ASSUME NEW w, Len(servers) \in Nat, \A i \in 1..Len(servers) : w[i] \in Nat,
           NEW I, I \subseteq 1..Len(servers), \A i \in I : w[i] >= 1
    PROVE  Cardinality(I) <= SumsOf(w)[Len(servers)]
<1>. DEFINE s == SumsOf(w)
            UpTo == [n \in Nat |-> {i \in I : i <= n}]
<1>1. /\ s[0] = 0 /\ \A n \in 1..Len(servers) : s[n] = s[n - 1] + w[n]
      /\ \A n \in 0..Len(servers) : s[n] \in Nat
    BY SumsAre, SumsNat
<1>2. \A i \in I : i \in Nat /\ 1 <= i /\ i <= Len(servers)
    OBVIOUS
<1>3. \A n \in Nat : UpTo[n] = {i \in I : i <= n}
    OBVIOUS
<1>. HIDE DEF s, UpTo
<1>4. UpTo[0] = {} /\ UpTo[Len(servers)] = I
    <2>1. {i \in I : i <= 0} = {} /\ {i \in I : i <= Len(servers)} = I
        <3>1. \A i \in I : ~(i <= 0) /\ i <= Len(servers)
            BY <1>2
        <3>. QED  BY <3>1, Zenon
    <2>. QED  BY <1>3, <2>1
<1>5. ASSUME NEW n \in Nat, n # 0, n \in I
      PROVE  n \notin UpTo[n - 1] /\ UpTo[n] = UpTo[n - 1] \cup {n}
    <2>1. {i \in I : i <= n} = {i \in I : i <= n - 1} \cup {n} /\ n \notin {i \in I : i <= n - 1}
        <3>1. ~(n <= n - 1) /\ \A i \in I : i <= n <=> i <= n - 1 \/ i = n
            BY <1>2, <1>5
        <3>. QED  BY <1>5, <3>1, Zenon
    <2>2. n - 1 \in Nat
        BY <1>5
    <2>3. UpTo[n] = {i \in I : i <= n} /\ UpTo[n - 1] = {i \in I : i <= n - 1}
        BY <1>3, <2>2
    <2>. QED  BY <2>1, <2>3, Zenon
<1>6. ASSUME NEW n \in Nat, n # 0, n \notin I PROVE UpTo[n] = UpTo[n - 1]
    <2>1. {i \in I : i <= n} = {i \in I : i <= n - 1}
        <3>1. \A i \in I : i <= n <=> i <= n - 1
            BY <1>2, <1>6
        <3>. QED  BY <3>1, Zenon
    <2>2. n - 1 \in Nat
        BY <1>6
    <2>. QED  BY <1>3, <2>1, <2>2
<1>. DEFINE S == {n \in Nat : n <= Len(servers) =>
                    IsFiniteSet(UpTo[n]) /\ Cardinality(UpTo[n]) <= s[n]}
<1>7. ASSUME NEW n \in Nat, \A m \in Nat : m < n => m \in S PROVE n \in S
    <2>. SUFFICES ASSUME n <= Len(servers)
                  PROVE  IsFiniteSet(UpTo[n]) /\ Cardinality(UpTo[n]) <= s[n]
        OBVIOUS
    <2>1. CASE n = 0
        <3>1. IsFiniteSet(UpTo[n]) /\ Cardinality(UpTo[n]) = 0
            BY <1>4, <2>1, FS_EmptySet
        <3>. QED  BY <1>1, <2>1, <3>1
    <2>2. CASE n # 0
        <3>1. IsFiniteSet(UpTo[n - 1]) /\ Cardinality(UpTo[n - 1]) <= s[n - 1]
            <4>1. n - 1 \in S
                BY <1>7, <2>2
            <4>. QED  BY <2>2, <4>1
        <3>2. s[n] = s[n - 1] + w[n] /\ s[n - 1] \in Nat /\ w[n] \in Nat
            BY <1>1, <2>2
        <3>3. Cardinality(UpTo[n - 1]) \in Nat
            BY <3>1, FS_CardinalityType
        <3>4. CASE n \in I
            <4>1. n \notin UpTo[n - 1] /\ UpTo[n] = UpTo[n - 1] \cup {n}
                BY <1>5, <2>2, <3>4
            <4>2. IsFiniteSet(UpTo[n]) /\ Cardinality(UpTo[n]) = Cardinality(UpTo[n - 1]) + 1
                <5>. DEFINE P == UpTo[n - 1]
                <5>1. IsFiniteSet(P) /\ n \notin P /\ UpTo[n] = P \cup {n}
                    BY <3>1, <4>1
                <5>. HIDE DEF P
                <5>2. IsFiniteSet(P \cup {n}) /\ Cardinality(P \cup {n}) = Cardinality(P) + 1
                    BY <5>1, FS_AddElement
                <5>. QED  BY <5>1, <5>2 DEF P
            <4>. QED  BY <3>1, <3>2, <3>3, <3>4, <4>2
        <3>5. CASE n \notin I
            <4>1. UpTo[n] = UpTo[n - 1]
                BY <1>6, <2>2, <3>5
            <4>. QED  BY <3>1, <3>2, <3>3, <4>1
        <3>. QED  BY <3>4, <3>5
    <2>. QED  BY <2>1, <2>2
<1>8. Len(servers) \in S
    <2>. HIDE DEF S
    <2>. QED  BY <1>7, Induction
<1>9. Cardinality(UpTo[Len(servers)]) <= s[Len(servers)]
    BY <1>8
<1>. QED  BY <1>4, <1>9 DEF s

-----------------------------------------------------------------------------
(* The mean weight and the draws.                                          *)

LEMMA Quotient ==
    ASSUME NEW x \in Nat, NEW d \in Nat, d # 0
    PROVE  x \div d \in Nat /\ (d <= x => x \div d >= 1)
<1>1. x \div d \in Int /\ d * (x \div d) <= x /\ x < d * (x \div d) + d
    OBVIOUS
<1>. DEFINE q == x \div d
<1>2. q \in Int /\ x < d * q + d
    BY <1>1
<1>. HIDE DEF q
<1>3. ASSUME q <= -1 PROVE FALSE
    <2>1. d * q <= d * (-1)
        BY <1>2, <1>3
    <2>. QED  BY <1>2, <2>1
<1>4. q = 0 => x < d
    BY <1>2
<1>5. q \in Nat /\ (d <= x => q >= 1)
    BY <1>2, <1>3, <1>4
<1>. QED  BY <1>5 DEF q

LEMMA Counts ==
    ASSUME Known
    PROVE  /\ IsFiniteSet(Weighted) /\ Cardinality(Weighted) \in Nat
           /\ unweighted_count \in Nat
           /\ Cardinality(Weighted) = 0 <=> Weighted = {}
           /\ unweighted_count = 0 <=> Enabled \ Weighted = {}
<1>1. IsFiniteSet(Enabled)
    <2>1. IsFiniteSet(1..Len(servers))
        BY KnownServers, FS_Interval
    <2>2. Enabled \in SUBSET (1..Len(servers))
        BY KnownServers
    <2>. QED  BY <2>1, <2>2, FS_Subset
<1>2. Weighted \in SUBSET Enabled
    BY DEF Weighted
<1>3. IsFiniteSet(Weighted) /\ IsFiniteSet(Enabled \ Weighted)
    BY <1>1, <1>2, FS_Subset
<1>4. Cardinality(Weighted) \in Nat /\ Cardinality(Enabled \ Weighted) \in Nat
    BY <1>3, FS_CardinalityType
<1>5. /\ Cardinality(Weighted) = 0 <=> Weighted = {}
      /\ Cardinality(Enabled \ Weighted) = 0 <=> Enabled \ Weighted = {}
    BY <1>3, FS_EmptySet
<1>. QED  BY <1>3, <1>4, <1>5 DEF unweighted_count

LEMMA Totals ==
    ASSUME Known
    PROVE  /\ total_weight \in Nat
           /\ Weighted = {} => total_weight = 0
           /\ (\A i \in Weighted : servers[i].weight # 0) => Cardinality(Weighted) <= total_weight
<1>. DEFINE w == [i \in DOMAIN servers |-> IF i \in Weighted THEN servers[i].weight ELSE 0]
<1>1. Len(servers) \in Nat /\ DOMAIN servers = 1..Len(servers)
    BY KnownServers
<1>2. Weighted \subseteq 1..Len(servers)
    BY KnownServers DEF Weighted
<1>3. \A i \in Weighted : servers[i].weight \in Nat
    BY <1>1, <1>2, KnownServers DEF Weighted
<1>4. /\ \A i \in 1..Len(servers) : w[i] \in Nat /\ (i \notin Weighted => w[i] = 0)
      /\ \A i \in Weighted : w[i] = servers[i].weight
    BY <1>1, <1>2, <1>3
<1>5. total_weight = SumsOf(w)[Len(servers)]
    BY DEF total_weight
<1>. HIDE DEF w
<1>6. total_weight \in Nat
    BY <1>1, <1>4, <1>5, SumsNat
<1>7. Weighted = {} => total_weight = 0
    BY <1>1, <1>4, <1>5, SumsZero
<1>8. ASSUME \A i \in Weighted : servers[i].weight # 0
      PROVE  Cardinality(Weighted) <= total_weight
    <2>1. \A i \in Weighted : w[i] >= 1
        BY <1>3, <1>4, <1>8
    <2>. QED  BY <1>1, <1>2, <1>4, <1>5, <2>1, SumsAtLeast
<1>. QED  BY <1>6, <1>7, <1>8

(* The mean is a number where a server needs it, and one at least where no *)
(* weight is zero and the servers without a weight are not too many.       *)
LEMMA Means ==
    ASSUME Known
    PROVE  /\ avr_weight \in Int
           /\ Enabled \ Weighted # {} => avr_weight \in Nat
           /\ /\ Enabled # {} /\ \A i \in Weighted : servers[i].weight # 0
              /\ Weighted # {} \/ unweighted_count <= 100
              => avr_weight >= 1
<1>. DEFINE t == total_weight
            c == Cardinality(Weighted)
            u == unweighted_count
<1>1. /\ t \in Nat /\ c \in Nat /\ u \in Nat
      /\ c = 0 => t = 0
      /\ c = 0 <=> Weighted = {}
      /\ u = 0 <=> Enabled \ Weighted = {}
    BY Counts, Totals
<1>2. (\A i \in Weighted : servers[i].weight # 0) => c <= t
    BY Totals
<1>3. avr_weight = IF t > 0 THEN t \div c ELSE IF u > 0 THEN 100 \div u ELSE -1
    BY DEF avr_weight
<1>. HIDE DEF t, c, u
<1>4. t > 0 => avr_weight \in Nat /\ (c <= t => avr_weight >= 1)
    <2>. SUFFICES ASSUME t > 0 PROVE avr_weight \in Nat /\ (c <= t => avr_weight >= 1)
        OBVIOUS
    <2>1. t \div c \in Nat /\ (c <= t => t \div c >= 1)
        BY <1>1, Quotient
    <2>. QED  BY <1>3, <2>1
<1>5. t = 0 /\ u > 0 => avr_weight \in Nat /\ (u <= 100 => avr_weight >= 1)
    <2>. SUFFICES ASSUME t = 0, u > 0
                  PROVE  avr_weight \in Nat /\ (u <= 100 => avr_weight >= 1)
        OBVIOUS
    <2>1. 100 \div u \in Nat /\ (u <= 100 => 100 \div u >= 1)
        BY <1>1, Quotient
    <2>. QED  BY <1>3, <2>1
<1>6. t = 0 /\ u = 0 => avr_weight = -1
    BY <1>3
<1>7. avr_weight \in Int /\ (Enabled \ Weighted # {} => avr_weight \in Nat)
    BY <1>1, <1>4, <1>5, <1>6
<1>8. ASSUME Enabled # {}, \A i \in Weighted : servers[i].weight # 0,
             Weighted # {} \/ u <= 100
      PROVE  avr_weight >= 1
    <2>1. c <= t
        BY <1>2, <1>8
    <2>2. CASE c > 0
        BY <1>1, <1>4, <2>1, <2>2
    <2>3. CASE c = 0
        <3>1. Weighted = {} /\ t = 0 /\ u # 0
            BY <1>1, <1>8, <2>3
        <3>. QED  BY <1>1, <1>5, <1>8, <3>1
    <2>. QED  BY <1>1, <2>2, <2>3
<1>. QED  BY <1>7, <1>8 DEF u

(* The balance of `Proxy::select_server` divides by no zero and draws from *)
(* no empty range while some server is enabled, none of the enabled has the*)
(* weight zero and one has a weight or they are at most 100.               *)
THEOREM BalanceNeverPanics == Spec => []NoPanic
<1>1. ASSUME Known, ByTheRules PROVE NoPanic
    <2>. SUFFICES ASSUME outcome = "panic", Enabled # {},
                         \A i \in Enabled : servers[i].weight # 0,
                         ~(Weighted = {} /\ Cardinality(Enabled) > 100)
                  PROVE  FALSE
        BY DEF NoPanic
    <2>1. Draws = {}
        BY <1>1 DEF ByTheRules
    <2>2. \A i \in Weighted : servers[i].weight # 0
        BY DEF Weighted
    <2>3. Weighted # {} \/ unweighted_count <= 100
        <3>1. CASE Weighted = {}
            <4>1. Enabled \ Weighted = Enabled
                BY <3>1
            <4>. QED  BY <1>1, <3>1, <4>1, Counts DEF unweighted_count
        <3>. QED  BY <3>1
    <2>4. avr_weight \in Int /\ avr_weight >= 1
        BY <1>1, <2>2, <2>3, Means
    <2>5. Len(servers) \in Nat /\ Len(servers) >= 1
        BY <1>1, KnownServers
    <2>6. avr_weight * Len(servers) >= 1
        BY <2>4, <2>5
    <2>7. 0 \in Draws
        BY <2>4, <2>5, <2>6 DEF Draws
    <2>. QED  BY <2>1, <2>7
<1>. QED  BY <1>1, KeepsKnown, KeepsByTheRules, PTL

-----------------------------------------------------------------------------
(* The shares of the draws.                                                *)

LEMMA InInterval ==
    ASSUME NEW D, NEW a \in Int, NEW n \in Nat, D \subseteq (a + 1)..(a + n)
    PROVE  IsFiniteSet(D) /\ Cardinality(D) <= n
<1>1. IsFiniteSet((a + 1)..(a + n)) /\ Cardinality((a + 1)..(a + n)) = n
    BY FS_Interval
<1>2. D \in SUBSET ((a + 1)..(a + n))
    OBVIOUS
<1>. QED  BY <1>1, <1>2, FS_Subset

(* The summed weights, when there are draws at all.                        *)
LEMMA Upward ==
    ASSUME Known, Draws # {}
    PROVE  \E s : /\ s[0] = 0
                  /\ \A i \in DOMAIN servers : s[i] = WeightUpTo(i) /\ i - 1 \in 0..Len(servers)
                  /\ \A n \in 0..Len(servers) : s[n] \in Nat
                  /\ \A i \in Enabled : WeightOf(i) \in Nat /\ s[i] = s[i - 1] + WeightOf(i)
                  /\ \A n \in 1..Len(servers) : n \notin Enabled => s[n] = s[n - 1]
<1>. DEFINE w == [j \in DOMAIN servers |-> IF j \in Enabled THEN WeightOf(j) ELSE 0]
<1>1. /\ Len(servers) \in Nat /\ DOMAIN servers = 1..Len(servers)
      /\ Enabled \subseteq 1..Len(servers)
    BY KnownServers
<1>2. \A i \in Enabled : WeightOf(i) \in Nat
    <2>. TAKE i \in Enabled
    <2>1. CASE i \in Weighted
        <3>1. servers[i].weight # Unset /\ servers[i].weight \in Nat
            BY <1>1, <2>1, KnownServers DEF Weighted
        <3>. QED  BY <3>1 DEF WeightOf
    <2>2. CASE i \notin Weighted
        <3>1. servers[i].weight = Unset
            BY <2>2 DEF Weighted
        <3>2. avr_weight \in Nat
            BY <2>2, Means
        <3>. QED  BY <3>1, <3>2 DEF WeightOf
    <2>. QED  BY <2>1, <2>2
<1>3. /\ \A i \in 1..Len(servers) : w[i] \in Nat /\ (i \notin Enabled => w[i] = 0)
      /\ \A i \in Enabled : w[i] = WeightOf(i)
    BY <1>1, <1>2
<1>4. \A i : WeightUpTo(i) = SumsOf(w)[i]
    BY DEF WeightUpTo
<1>. HIDE DEF w
<1>. DEFINE s == SumsOf(w)
<1>5. /\ s[0] = 0 /\ \A n \in 1..Len(servers) : s[n] = s[n - 1] + w[n]
      /\ \A n \in 0..Len(servers) : s[n] \in Nat
    BY <1>1, <1>3, SumsAre, SumsNat
<1>6. \A i : WeightUpTo(i) = s[i]
    BY <1>4
<1>. HIDE DEF s
<1>7. \A i \in DOMAIN servers : s[i] = WeightUpTo(i) /\ i - 1 \in 0..Len(servers)
    BY <1>1, <1>6
<1>8. \A i \in Enabled : s[i] = s[i - 1] + WeightOf(i)
    BY <1>1, <1>3, <1>5
<1>9. \A n \in 1..Len(servers) : n \notin Enabled => s[n] = s[n - 1]
    <2>. SUFFICES ASSUME NEW n \in 1..Len(servers), n \notin Enabled PROVE s[n] = s[n - 1]
        OBVIOUS
    <2>1. w[n] = 0 /\ s[n] = s[n - 1] + w[n] /\ s[n - 1] \in Nat
        BY <1>1, <1>3, <1>5
    <2>. QED  BY <2>1
<1>. QED  BY <1>2, <1>5, <1>7, <1>8, <1>9

(* A draw of one and more that some sum reaches is reached by the sum of an*)
(* enabled server up to there.                                             *)
LEMMA ReachedByEnabled ==
    ASSUME NEW s, NEW N \in Nat, s[0] = 0, \A n \in 0..N : s[n] \in Nat,
           \A n \in 1..N : n \notin Enabled => s[n] = s[n - 1],
           NEW draw \in Nat, draw >= 1, NEW k \in 0..N, s[k] >= draw
    PROVE  \E j \in Enabled : j \in 1..k /\ s[j] >= draw
<1>. DEFINE S == {n \in Nat : n <= N /\ s[n] >= draw =>
                    \E j \in Enabled : j \in 1..n /\ s[j] >= draw}
<1>1. ASSUME NEW n \in Nat, \A m \in Nat : m < n => m \in S PROVE n \in S
    <2>. SUFFICES ASSUME n <= N, s[n] >= draw
                  PROVE  \E j \in Enabled : j \in 1..n /\ s[j] >= draw
        OBVIOUS
    <2>1. n # 0
        OBVIOUS
    <2>2. CASE n \in Enabled
        BY <2>1, <2>2
    <2>3. CASE n \notin Enabled
        <3>1. s[n - 1] >= draw
            BY <2>1, <2>3
        <3>2. n - 1 \in S
            BY <1>1, <2>1
        <3>3. PICK j \in Enabled : j \in 1..(n - 1) /\ s[j] >= draw
            BY <2>1, <3>1, <3>2
        <3>. QED  BY <2>1, <3>3
    <2>. QED  BY <2>2, <2>3
<1>2. k \in S
    <2>. HIDE DEF S
    <2>. QED  BY <1>1, Induction
<1>. QED  BY <1>2

LEMMA BalancedIs ==
    ASSUME Known, NEW draw \in Draws, NEW i \in DOMAIN servers, i # 1, Balanced(draw) = i
    PROVE  /\ i \in Enabled /\ WeightUpTo(i) >= draw
           /\ \A j \in Enabled : WeightUpTo(j) >= draw => i <= j
<1>. DEFINE reached == {j \in Enabled : WeightUpTo(j) >= draw}
<1>1. i = IF reached = {} THEN 1 ELSE FirstIn(reached)
    BY DEF Balanced
<1>2. reached \subseteq Nat
    BY KnownServers
<1>3. i = FirstIn(reached) /\ reached # {}
    BY <1>1
<1>4. i \in reached /\ \A j \in reached : i <= j
    <2>. HIDE DEF reached
    <2>. QED  BY <1>2, <1>3, First
<1>. QED  BY <1>4

(* No enabled server gets more of the draws than its weight: but for the   *)
(* first of the list, which gets what is left, and the first enabled one,  *)
(* which gets one more; a disabled one gets none.                          *)
THEOREM SharesAreWithinWeights == Spec => []ShareWithinWeight
<1>1. ASSUME Known PROVE ShareWithinWeight
    <2>. USE <1>1
    <2>. SUFFICES ASSUME NEW i \in DOMAIN servers, i # 1
                  PROVE  Picks(i) <= IF i \in Enabled
                                     THEN WeightOf(i) + (IF i = FirstIn(Enabled) THEN 1 ELSE 0)
                                     ELSE 0
        BY DEF ShareWithinWeight
    <2>. DEFINE P == {draw \in Draws : Balanced(draw) = i}
    <2>1. Picks(i) = Cardinality(P)
        BY DEF Picks
    <2>2. /\ Len(servers) \in Nat /\ DOMAIN servers = 1..Len(servers)
          /\ Enabled \subseteq 1..Len(servers)
        BY KnownServers
    <2>3. P \subseteq Draws
        OBVIOUS
    <2>4. Draws \subseteq Nat
        BY <2>2, Means DEF Draws
    <2>5. ASSUME NEW draw \in P
          PROVE  /\ i \in Enabled /\ WeightUpTo(i) >= draw
                 /\ \A j \in Enabled : WeightUpTo(j) >= draw => i <= j
        BY <2>5, BalancedIs
    <2>. HIDE DEF P
    <2>6. CASE P = {}
        <3>1. Picks(i) = 0
            BY <2>1, <2>6, FS_EmptySet
        <3>2. i \in Enabled => WeightOf(i) \in Nat
            <4>. SUFFICES ASSUME i \in Enabled PROVE WeightOf(i) \in Nat
                OBVIOUS
            <4>1. i \in Weighted => servers[i].weight # Unset /\ servers[i].weight \in Nat
                BY KnownServers DEF Weighted
            <4>2. i \notin Weighted => servers[i].weight = Unset /\ avr_weight \in Nat
                BY Means DEF Weighted
            <4>. QED  BY <4>1, <4>2 DEF WeightOf
        <3>. QED  BY <3>1, <3>2
    <2>7. CASE P # {}
        <3>1. i \in Enabled /\ Draws # {}
            BY <2>3, <2>5, <2>7
        <3>2. PICK s : /\ s[0] = 0
                       /\ \A j \in DOMAIN servers :
                             s[j] = WeightUpTo(j) /\ j - 1 \in 0..Len(servers)
                       /\ \A n \in 0..Len(servers) : s[n] \in Nat
                       /\ \A j \in Enabled : WeightOf(j) \in Nat /\ s[j] = s[j - 1] + WeightOf(j)
                       /\ \A n \in 1..Len(servers) : n \notin Enabled => s[n] = s[n - 1]
            BY <3>1, Upward
        <3>3. i - 1 \in 0..Len(servers) /\ s[i - 1] \in Nat /\ WeightOf(i) \in Nat
              /\ s[i] = s[i - 1] + WeightOf(i) /\ s[i] = WeightUpTo(i)
            BY <3>1, <3>2
        <3>. DEFINE a == s[i - 1]
                    n == WeightOf(i)
        <3>4. ASSUME NEW draw \in P, draw # 0 PROVE draw \in (a + 1)..(a + n)
            <4>1. draw \in Nat /\ draw <= s[i] /\ draw >= 1
                BY <2>3, <2>4, <2>5, <3>3, <3>4
            <4>2. ASSUME s[i - 1] >= draw PROVE FALSE
                <5>. DEFINE k == i - 1
                            N == Len(servers)
                <5>1. /\ N \in Nat /\ k \in 0..N /\ s[k] >= draw
                      /\ s[0] = 0 /\ \A m \in 0..N : s[m] \in Nat
                      /\ \A m \in 1..N : m \notin Enabled => s[m] = s[m - 1]
                    BY <2>2, <3>2, <3>3, <4>2
                <5>. HIDE DEF k, N
                <5>2. PICK j \in Enabled : j \in 1..k /\ s[j] >= draw
                    BY <4>1, <5>1, ReachedByEnabled
                <5>3. i <= j
                    BY <2>2, <2>5, <3>2, <5>2
                <5>. QED  BY <2>2, <5>2, <5>3 DEF k
            <4>. QED  BY <3>3, <4>1, <4>2
        <3>5. a \in Int /\ n \in Nat
            BY <3>3
        <3>. HIDE DEF a, n
        <3>6. CASE 0 \in P
            <4>1. \A j \in Enabled : i <= j
                <5>. TAKE j \in Enabled
                <5>1. WeightUpTo(j) \in Nat
                    BY <2>2, <3>2
                <5>. QED  BY <2>5, <3>6, <5>1
            <4>2. i = FirstIn(Enabled)
                <5>1. FirstIn(Enabled) \in Enabled /\ \A j \in Enabled : FirstIn(Enabled) <= j
                    BY <2>2, <3>1, First
                <5>2. i <= FirstIn(Enabled) /\ FirstIn(Enabled) <= i
                    BY <3>1, <4>1, <5>1
                <5>3. Enabled \subseteq Nat
                    BY <2>2
                <5>4. i \in Nat /\ FirstIn(Enabled) \in Nat
                    BY <3>1, <5>1, <5>3, Zenon
                <5>. QED  BY <5>2, <5>4
            <4>. DEFINE Q == P \ {0}
            <4>3. IsFiniteSet(Q) /\ Cardinality(Q) <= n
                <5>1. Q \subseteq (a + 1)..(a + n)
                    BY <3>4
                <5>. HIDE DEF Q
                <5>. QED  BY <3>5, <5>1, InInterval
            <4>4. P = Q \cup {0} /\ 0 \notin Q
                BY <3>6
            <4>. HIDE DEF Q
            <4>5. Cardinality(Q) \in Nat
                BY <4>3, FS_CardinalityType
            <4>6. Cardinality(P) = Cardinality(Q) + 1
                BY <4>3, <4>4, FS_AddElement
            <4>. QED  BY <2>1, <3>1, <3>5, <4>2, <4>3, <4>5, <4>6 DEF n
        <3>7. CASE 0 \notin P
            <4>1. P \subseteq (a + 1)..(a + n)
                BY <3>4, <3>7
            <4>2. IsFiniteSet(P) /\ Cardinality(P) <= n
                BY <3>5, <4>1, InInterval
            <4>3. Cardinality(P) \in Nat
                BY <4>2, FS_CardinalityType
            <4>. QED  BY <2>1, <3>1, <3>5, <4>2, <4>3 DEF n
        <3>. QED  BY <3>6, <3>7
    <2>. QED  BY <2>6, <2>7
<1>. QED  BY <1>1, KeepsKnown, PTL
=============================================================================
