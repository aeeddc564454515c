---------------------------- MODULE LogPage_proof ----------------------------
(***************************************************************************)
(* Proofs about LogPage, for any number of pages and events and any sizes  *)
(* of chunks: the callbacks are those of the pages that have one, no line  *)
(* is lost between the callback and the file, and the reader of the file   *)
(* finds every line of any text.  MCLogPage has the texts TLC tries.       *)
(***************************************************************************)
EXTENDS MCLogPage, SequenceTheorems, WellFoundedInduction, TLAPS

-----------------------------------------------------------------------------
(* The callbacks as a list: one is put at the end, one is taken out.       *)

Callback == [id : Nat, page : Pages]

LEMMA LeastNatural ==
    ASSUME NEW I, I \subseteq Nat, I # {}
    PROVE  Min(I) \in I
<1>1. PICK m \in I : \A y \in I : ~(y < m)
    <2>1. IsWellFoundedOn(OpToRel(<, Nat), I)
        BY NatLessThanWellFounded, IsWellFoundedOnSubset
    <2>2. PICK m \in I : \A y \in I : ~(<<y, m>> \in OpToRel(<, Nat))
        BY <2>1, WFMin
    <2>. QED  BY <2>2 DEF OpToRel
<1>2. \A y \in I : m <= y
    BY <1>1
<1>. QED  BY <1>2 DEF Min

LEMMA Pushes ==
    ASSUME NEW s \in Seq(Callback), NEW c \in Callback
    PROVE  /\ Append(s, c) \in Seq(Callback)
           /\ DOMAIN s = 1..Len(s) /\ DOMAIN Append(s, c) = 1..(Len(s) + 1)
           /\ \A i \in DOMAIN s : Append(s, c)[i] = s[i]
           /\ Append(s, c)[Len(s) + 1] = c
OBVIOUS

(* Without item i every other one keeps a place, and no two share one.     *)
LEMMA TakenOut ==
    ASSUME NEW s \in Seq(Callback), NEW i \in DOMAIN s
    PROVE  /\ RemoveAt(s, i) \in Seq(Callback)
           /\ \A j \in DOMAIN RemoveAt(s, i) : \E k \in DOMAIN s \ {i} : RemoveAt(s, i)[j] = s[k]
           /\ \A k \in DOMAIN s \ {i} : \E j \in DOMAIN RemoveAt(s, i) : RemoveAt(s, i)[j] = s[k]
           /\ (\A j, k \in DOMAIN s : s[j].page = s[k].page => j = k)
                => \A j, k \in DOMAIN RemoveAt(s, i) :
                      RemoveAt(s, i)[j].page = RemoveAt(s, i)[k].page => j = k
<1>. DEFINE a == SubSeq(s, 1, i - 1)
            b == SubSeq(s, i + 1, Len(s))
            t == a \o b
            from(j) == IF j < i THEN j ELSE j + 1
<1>1. /\ Len(s) \in Nat /\ i \in Nat /\ 1 <= i /\ i <= Len(s) /\ DOMAIN s = 1..Len(s)
      /\ \A j \in 1..Len(s) : s[j] \in Callback
    OBVIOUS
<1>2. /\ a \in Seq(Callback) /\ Len(a) = i - 1 /\ \A j \in 1..(i - 1) : a[j] = s[j]
      /\ b \in Seq(Callback) /\ Len(b) = Len(s) - i /\ \A j \in 1..(Len(s) - i) : b[j] = s[i + j]
    <2>1. /\ a \in Seq(Callback) /\ Len(a) = i - 1
          /\ \A j \in 1..(i - 1) : a[j] = s[j]
        BY <1>1
    <2>2. /\ b \in Seq(Callback) /\ Len(b) = Len(s) - i
          /\ \A j \in 1..(Len(s) - i) : b[j] = s[i + j]
        BY <1>1
    <2>. QED  BY <2>1, <2>2
<1>. HIDE DEF a, b
<1>3. /\ t \in Seq(Callback) /\ Len(t) = Len(s) - 1 /\ DOMAIN t = 1..(Len(s) - 1)
      /\ \A j \in 1..(Len(s) - 1) : t[j] = IF j <= i - 1 THEN a[j] ELSE b[j - (i - 1)]
    <2>1. /\ t \in Seq(Callback) /\ Len(t) = Len(a) + Len(b)
          /\ \A j \in 1..(Len(a) + Len(b)) :
                t[j] = IF j <= Len(a) THEN a[j] ELSE b[j - Len(a)]
        BY <1>2, ConcatProperties
    <2>2. Len(a) = i - 1 /\ Len(a) + Len(b) = Len(s) - 1
        BY <1>1, <1>2
    <2>3. t \in Seq(Callback) => DOMAIN t = 1..Len(t)
        OBVIOUS
    <2>. QED  BY <2>1, <2>2, <2>3
<1>. HIDE DEF t
<1>4. ASSUME NEW j \in 1..(Len(s) - 1)
      PROVE  t[j] = s[from(j)] /\ from(j) \in DOMAIN s \ {i}
    <2>1. CASE j < i
        BY <1>1, <1>2, <1>3, <2>1
    <2>2. CASE ~(j < i)
        <3>1. j - (i - 1) \in 1..(Len(s) - i) /\ i + (j - (i - 1)) = j + 1 /\ ~(j <= i - 1)
            BY <1>1, <2>2
        <3>2. t[j] = b[j - (i - 1)] /\ b[j - (i - 1)] = s[j + 1]
            BY <1>2, <1>3, <3>1
        <3>3. from(j) = j + 1 /\ j + 1 \in DOMAIN s \ {i}
            BY <1>1, <2>2
        <3>. QED  BY <3>2, <3>3
    <2>. QED  BY <2>1, <2>2
<1>5. ASSUME NEW k \in DOMAIN s \ {i} PROVE \E j \in 1..(Len(s) - 1) : t[j] = s[k]
    <2>1. CASE k < i
        BY <1>1, <1>4, <2>1
    <2>2. CASE ~(k < i)
        <3>1. k - 1 \in 1..(Len(s) - 1) /\ from(k - 1) = k
            BY <1>1, <2>2
        <3>. QED  BY <1>4, <3>1
    <2>. QED  BY <2>1, <2>2
<1>6. \A j, k \in 1..(Len(s) - 1) : from(j) = from(k) => j = k
    BY <1>1
<1>. HIDE DEF from
<1>7. ASSUME \A j, k \in DOMAIN s : s[j].page = s[k].page => j = k,
             NEW j \in 1..(Len(s) - 1), NEW k \in 1..(Len(s) - 1), t[j].page = t[k].page
      PROVE  j = k
    BY <1>4, <1>6, <1>7
<1>8. RemoveAt(s, i) = t
    BY DEF RemoveAt, a, b, t
<1>. QED  BY <1>3, <1>4, <1>5, <1>7, <1>8

(* The first callback of an id, or 0.                                      *)
LEMMA FirstOfId ==
    ASSUME NEW s \in Seq(Callback), NEW id
    PROVE  LET f == SelectInSeq(s, LAMBDA c : c.id = id)
           IN  \/ f \in DOMAIN s /\ f # 0 /\ s[f].id = id
               \/ f = 0 /\ \A i \in DOMAIN s : s[i].id # id
<1>. DEFINE I == {i \in 1..Len(s) : s[i].id = id}
<1>1. DOMAIN s = 1..Len(s)
    OBVIOUS
<1>2. CASE I # {}
    <2>1. Min(I) \in I
        <3>1. I \subseteq Nat
            OBVIOUS
        <3>. QED  BY <1>2, <3>1, LeastNatural
    <2>2. SelectInSeq(s, LAMBDA c : c.id = id) = Min(I)
        BY <1>2 DEF SelectInSeq
    <2>. QED  BY <1>1, <2>1, <2>2
<1>3. CASE I = {}
    <2>1. SelectInSeq(s, LAMBDA c : c.id = id) = 0
        BY <1>3 DEF SelectInSeq
    <2>. QED  BY <1>1, <1>3, <2>1
<1>. QED  BY <1>2, <1>3

-----------------------------------------------------------------------------
(* The inductive invariant, in its parts.                                  *)

Loaded == {"get log", "merge", "ready"}
Pushed == {"bump", "registered"} \cup Loaded

(* A page has an id from the push on, and a logger once that has returned. *)
Typed ==
    /\ next_id \in Nat /\ next_id # 0 /\ DOMAIN page = Pages /\ callbacks \in Seq(Callback)
    /\ \A p \in Pages :
          /\ {"pc", "id", "logger"} \subseteq DOMAIN page[p]
          /\ page[p].pc \in {"unopened", "load id", "push"} \cup Pushed
          /\ page[p].id \in Nat /\ (page[p].pc \in Pushed \cup {"push"} => page[p].id # 0)
          /\ page[p].logger \in {NoLogger, page[p].id}
          /\ page[p].logger # NoLogger => page[p].pc \in Loaded

(* A page pushes one callback; what is to be removed is an id that a page  *)
(* gave up.                                                                *)
Once ==
    /\ \A i \in DOMAIN callbacks :
          /\ page[callbacks[i].page].pc \in Pushed
          /\ callbacks[i].id = page[callbacks[i].page].id
    /\ \A i, j \in DOMAIN callbacks : callbacks[i].page = callbacks[j].page => i = j
    /\ \A id \in removals : \E p \in Pages :
          page[p].pc \in Loaded /\ page[p].id = id /\ page[p].logger = NoLogger

(* As long as registrations come one after the other, ids are different,   *)
(* and a page has its callback until the removal it asked for.             *)
Has(p) == \/ page[p].pc \in {"bump", "registered"} \/ page[p].logger # NoLogger
          \/ page[p].pc \in Loaded /\ page[p].id \in removals
Own ==
    /\ \A p, q \in Registering : p = q
    /\ \A p \in Pages :
          /\ page[p].pc \in {"push", "bump"} => page[p].id = next_id
          /\ page[p].pc \in Loaded \cup {"registered"} => page[p].id < next_id
    /\ \A p, q \in Pages :
          page[p].pc \in Pushed /\ page[q].pc \in Pushed /\ page[p].id = page[q].id => p = q
    /\ \A p \in Pages : (\E i \in DOMAIN callbacks : callbacks[i].page = p) <=> Has(p)

Inv == Typed /\ Once /\ (~shared => Own)

LEMMA InitInv == Init => Inv
<1>. SUFFICES ASSUME Init PROVE Inv
    OBVIOUS
<1>1. /\ next_id = 1 /\ callbacks = <<>> /\ removals = {} /\ DOMAIN page = Pages
      /\ \A p \in Pages : page[p].pc = "unopened" /\ page[p].id = 0 /\ page[p].logger = 0
                          /\ {"pc", "id", "logger"} \subseteq DOMAIN page[p]
    BY DEF Init, Unopened, NoLogger
<1>2. Typed
    <2>1. <<>> \in Seq(Callback)
        OBVIOUS
    <2>2. ASSUME NEW p \in Pages
          PROVE  /\ {"pc", "id", "logger"} \subseteq DOMAIN page[p]
                 /\ page[p].pc = "unopened" /\ page[p].id \in Nat /\ page[p].logger = NoLogger
                 /\ page[p].pc \notin Pushed \cup {"push"}
        <3>1. page[p].pc = "unopened" /\ page[p].id = 0 /\ page[p].logger = 0
              /\ {"pc", "id", "logger"} \subseteq DOMAIN page[p]
            BY <1>1
        <3>2. "unopened" \notin Pushed \cup {"push"}
            BY DEF Pushed, Loaded
        <3>. QED  BY <3>1, <3>2 DEF NoLogger
    <2>3. next_id \in Nat /\ next_id # 0 /\ DOMAIN page = Pages /\ callbacks \in Seq(Callback)
        BY <1>1, <2>1
    <2>4. \A p \in Pages : page[p].pc \in {"unopened", "load id", "push"} \cup Pushed
        BY <2>2
    <2>. QED  BY <2>2, <2>3, <2>4 DEF Typed
<1>3. Once
    BY <1>1 DEF Once
<1>4. Own
    <2>1. DOMAIN callbacks = {} /\ Registering = {}
        <3>1. Registering = {}
            BY <1>1 DEF Registering
        <3>2. callbacks \in Seq(Callback) /\ Len(callbacks) = 0
            BY <1>1
        <3>. QED  BY <3>1, <3>2
    <2>2. \A p \in Pages : ~Has(p)
        BY <1>1 DEF Has, NoLogger
    <2>. QED  BY <1>1, <2>1, <2>2 DEF Own, Pushed, Loaded
<1>. QED  BY <1>2, <1>3, <1>4 DEF Inv

(* A step of one page leaves the others alone.                             *)
LEMMA Becomes ==
    ASSUME DOMAIN page = Pages, NEW p \in Pages, NEW x, page' = [page EXCEPT ![p] = x]
    PROVE  DOMAIN page' = Pages /\ page'[p] = x /\ \A q \in Pages \ {p} : page'[q] = page[q]
OBVIOUS

(* Steps that touch no registration.                                       *)
LEMMA QuietInv ==
    ASSUME Inv, UNCHANGED <<notifier, shared>>, DOMAIN page' = Pages,
           \A p \in Pages :
              /\ {"pc", "id", "logger"} \subseteq DOMAIN page'[p]
              /\ page'[p].id = page[p].id /\ page'[p].logger = page[p].logger
              /\ page'[p].pc = page[p].pc \/ (page[p].pc \in Loaded /\ page'[p].pc \in Loaded)
    PROVE  Inv'
<1>1. UNCHANGED <<next_id, callbacks, removals, shared>>
    BY DEF notifier
<1>2. Typed'
    BY <1>1 DEF Inv, Typed, Pushed
<1>3. Once'
    <2>1. \A i \in DOMAIN callbacks : callbacks[i].page \in Pages
        <3>1. callbacks \in Seq(Callback)
            BY DEF Inv, Typed
        <3>2. \A i \in DOMAIN callbacks : callbacks[i] \in Callback
            BY <3>1
        <3>. QED  BY <3>2 DEF Callback
    <2>2. \A p \in Pages : /\ page[p].pc \in Pushed => page'[p].pc \in Pushed
                           /\ page[p].pc \in Loaded => page'[p].pc \in Loaded
        BY DEF Pushed
    <2>. QED  BY <1>1, <2>1, <2>2 DEF Inv, Once
<1>4. ASSUME Own PROVE Own'
    <2>1. Registering' = Registering
        BY DEF Registering, Loaded
    <2>2. \A p \in Pages : Has(p)' <=> Has(p)
        BY <1>1 DEF Has, Loaded
    <2>3. \A p \in Pages :
             /\ page'[p].pc \in {"push", "bump"} <=> page[p].pc \in {"push", "bump"}
             /\ page'[p].pc \in Pushed <=> page[p].pc \in Pushed
             /\ page'[p].pc \in Loaded \cup {"registered"}
                    <=> page[p].pc \in Loaded \cup {"registered"}
        BY DEF Pushed, Loaded
    <2>. QED  BY <1>1, <1>4, <2>1, <2>2, <2>3 DEF Own
<1>. QED  BY <1>1, <1>2, <1>3, <1>4 DEF Inv

(* What LoadMore, Merge, GetLog and Deliver store is not a registration's. *)
LEMMA MergeStores ==
    ASSUME NEW p \in Pages, Merge(p)
    PROVE  \E c, d : page' = [page EXCEPT ![p].pc = "ready", ![p].chunk = <<>>,
                                          ![p].old = c, ![p].new = d]
<1>. DEFINE first == SelectInSeq(page[p].chunk, LAMBDA l : l.line # <<>>)
            messages == IF first = 0 THEN <<>>
                        ELSE SubSeq(page[p].chunk, first, Len(page[p].chunk))
            split == IF Len(page[p].chunk) < Chunk THEN Len(messages) ELSE Len(messages) \div 2
            recent == Reverse([i \in 1..split |-> messages[i].line])
            c == SubSeq(messages, split + 1, Len(messages))
            d == Without(recent, ToSet(page[p].new)) \o page[p].new
<1>1. page' = [page EXCEPT ![p].pc = "ready", ![p].chunk = <<>>, ![p].old = c, ![p].new = d]
    BY Zenon DEF Merge
<1>. HIDE DEF c, d
<1>. QED  BY <1>1

LEMMA QuietSteps ==
    ASSUME Inv,
           \/ Event \/ UNCHANGED vars \/ \E m \in ToSet(Messages) : Notify(m)
           \/ \E p \in Pages : \/ GetLog(p) \/ Merge(p) \/ LoadMore(p)
                               \/ \E m \in ToSet(Messages) : Deliver(p, m)
    PROVE  Inv'
<1>1. /\ DOMAIN page = Pages /\ \A q \in Pages : {"pc", "id", "logger"} \subseteq DOMAIN page[q]
    BY DEF Inv, Typed
<1>2. ASSUME UNCHANGED <<page, notifier, shared>> PROVE Inv'
    BY <1>1, <1>2, QuietInv
<1>3. ASSUME NEW p \in Pages, NEW x, page' = [page EXCEPT ![p] = x], UNCHANGED <<notifier, shared>>,
             {"pc", "id", "logger"} \subseteq DOMAIN x,
             x.id = page[p].id, x.logger = page[p].logger,
             x.pc = page[p].pc \/ (page[p].pc \in Loaded /\ x.pc \in Loaded)
      PROVE  Inv'
    BY <1>1, <1>3, Becomes, QuietInv
<1>4. CASE Event \/ UNCHANGED vars \/ \E m \in ToSet(Messages) : Notify(m)
    BY <1>2, <1>4 DEF Event, Notify, vars, notifier
<1>5. ASSUME NEW p \in Pages, GetLog(p) PROVE Inv'
    <2>. DEFINE e == get_log(Len(file))
                x == [page[p] EXCEPT !.pc = "merge", !.chunk = e]
    <2>1. page' = [page EXCEPT ![p] = x] /\ page[p].pc = "get log" /\ UNCHANGED <<notifier, shared>>
        BY <1>5, Zenon DEF GetLog
    <2>. HIDE DEF e
    <2>2. /\ {"pc", "id", "logger"} \subseteq DOMAIN x /\ x.id = page[p].id
          /\ x.logger = page[p].logger /\ x.pc = "merge"
        BY <1>1
    <2>. HIDE DEF x
    <2>. QED  BY <1>3, <2>1, <2>2 DEF Loaded
<1>6. ASSUME NEW p \in Pages, Merge(p) PROVE Inv'
    <2>1. PICK c, d : page' = [page EXCEPT ![p].pc = "ready", ![p].chunk = <<>>,
                                           ![p].old = c, ![p].new = d]
        BY <1>6, MergeStores
    <2>. DEFINE x == [page[p] EXCEPT !.pc = "ready", !.chunk = <<>>, !.old = c, !.new = d]
    <2>2. page' = [page EXCEPT ![p] = x] /\ page[p].pc = "merge" /\ UNCHANGED <<notifier, shared>>
        BY <1>6, <2>1, Zenon DEF Merge
    <2>3. /\ {"pc", "id", "logger"} \subseteq DOMAIN x /\ x.id = page[p].id
          /\ x.logger = page[p].logger /\ x.pc = "ready"
        BY <1>1
    <2>. HIDE DEF x
    <2>. QED  BY <1>3, <2>2, <2>3 DEF Loaded
<1>7. ASSUME NEW p \in Pages, LoadMore(p) PROVE Inv'
    <2>. DEFINE lines == get_log(Last(page[p].old).position)
                e == page[p].old \o lines
                x == [page[p] EXCEPT !.end = TRUE]
                y == [page[p] EXCEPT !.old = e]
    <2>1. page' = [page EXCEPT ![p] = x] \/ page' = [page EXCEPT ![p] = y]
        BY <1>7, Zenon DEF LoadMore
    <2>2. UNCHANGED <<notifier, shared>>
        BY <1>7 DEF LoadMore
    <2>. HIDE DEF e
    <2>3. /\ {"pc", "id", "logger"} \subseteq DOMAIN x /\ x.id = page[p].id
          /\ x.logger = page[p].logger /\ x.pc = page[p].pc
        BY <1>1
    <2>4. /\ {"pc", "id", "logger"} \subseteq DOMAIN y /\ y.id = page[p].id
          /\ y.logger = page[p].logger /\ y.pc = page[p].pc
        BY <1>1
    <2>. HIDE DEF x, y
    <2>. QED  BY <1>3, <2>1, <2>2, <2>3, <2>4
<1>8. ASSUME NEW p \in Pages, NEW m \in ToSet(Messages), Deliver(p, m) PROVE Inv'
    <2>. DEFINE e == Append(page[p].new, <<m, LF>>)
                x == [page[p] EXCEPT !.new = e]
    <2>1. page' = [page EXCEPT ![p] = x] /\ UNCHANGED <<notifier, shared>>
        BY <1>8, Zenon DEF Deliver
    <2>. HIDE DEF e
    <2>2. /\ {"pc", "id", "logger"} \subseteq DOMAIN x /\ x.id = page[p].id
          /\ x.logger = page[p].logger /\ x.pc = page[p].pc
        BY <1>1
    <2>. HIDE DEF x
    <2>. QED  BY <1>3, <2>1, <2>2
<1>. QED  BY <1>4, <1>5, <1>6, <1>7, <1>8

-----------------------------------------------------------------------------
(* The steps of a registration.  Facts of the invariant, one by one.       *)
LEMMA InvFields ==
    ASSUME Inv, NEW p \in Pages
    PROVE  /\ DOMAIN page = Pages /\ {"pc", "id", "logger"} \subseteq DOMAIN page[p]
           /\ page[p].pc \in {"unopened", "load id", "push"} \cup Pushed
           /\ page[p].id \in Nat /\ (page[p].pc \in Pushed \cup {"push"} => page[p].id # 0)
           /\ page[p].logger \in {NoLogger, page[p].id}
           /\ page[p].logger # NoLogger => page[p].pc \in Loaded
BY DEF Inv, Typed

LEMMA InvCallbacks ==
    ASSUME Inv
    PROVE  /\ next_id \in Nat /\ next_id # 0
           /\ callbacks \in Seq(Callback) /\ \A i \in DOMAIN callbacks : callbacks[i] \in Callback
           /\ \A i \in DOMAIN callbacks : callbacks[i].page \in Pages
<1>1. callbacks \in Seq(Callback) /\ next_id \in Nat /\ next_id # 0
    BY DEF Inv, Typed
<1>2. \A i \in DOMAIN callbacks : callbacks[i] \in Callback
    BY <1>1
<1>. QED  BY <1>1, <1>2 DEF Callback

(* A page moves on, its callback, its logger and what is to be removed     *)
(* staying as they are.                                                    *)
LEMMA MovesInv ==
    ASSUME Inv, NEW p \in Pages, NEW x, page' = [page EXCEPT ![p] = x],
           UNCHANGED <<callbacks, removals>>, next_id' \in Nat, next_id' # 0,
           {"pc", "id", "logger"} \subseteq DOMAIN x,
           x.pc \in {"unopened", "load id", "push"} \cup Pushed,
           x.id \in Nat, x.pc \in Pushed \cup {"push"} => x.id # 0,
           x.logger \in {NoLogger, x.id}, x.logger # NoLogger => x.pc \in Loaded,
           page[p].pc \in Pushed => x.pc \in Pushed /\ x.id = page[p].id,
           page[p].pc \notin Loaded
    PROVE  /\ Typed' /\ Once'
           /\ page'[p] = x /\ \A q \in Pages \ {p} : page'[q] = page[q]
<1>1. /\ DOMAIN page' = Pages /\ page'[p] = x /\ \A q \in Pages \ {p} : page'[q] = page[q]
    BY InvFields, Becomes
<1>2. Typed'
    BY <1>1 DEF Inv, Typed
<1>3. Once'
    <2>1. ASSUME NEW i \in DOMAIN callbacks
          PROVE  /\ page'[callbacks[i].page].pc \in Pushed
                 /\ callbacks[i].id = page'[callbacks[i].page].id
        <3>1. /\ callbacks[i].page \in Pages /\ page[callbacks[i].page].pc \in Pushed
              /\ callbacks[i].id = page[callbacks[i].page].id
            BY InvCallbacks DEF Inv, Once
        <3>. QED  BY <1>1, <3>1
    <2>2. ASSUME NEW id \in removals
          PROVE  \E q \in Pages :
                    page'[q].pc \in Loaded /\ page'[q].id = id /\ page'[q].logger = NoLogger
        <3>1. PICK q \in Pages :
                 page[q].pc \in Loaded /\ page[q].id = id /\ page[q].logger = NoLogger
            BY DEF Inv, Once
        <3>. QED  BY <1>1, <3>1
    <2>3. \A i, j \in DOMAIN callbacks' : callbacks'[i].page = callbacks'[j].page => i = j
        BY DEF Inv, Once
    <2>4. \A i \in DOMAIN callbacks' : /\ page'[callbacks'[i].page].pc \in Pushed
                                        /\ callbacks'[i].id = page'[callbacks'[i].page].id
        BY <2>1
    <2>5. \A id \in removals' : \E q \in Pages :
             page'[q].pc \in Loaded /\ page'[q].id = id /\ page'[q].logger = NoLogger
        BY <2>2
    <2>. QED  BY <2>3, <2>4, <2>5 DEF Once
<1>. QED  BY <1>1, <1>2, <1>3

LEMMA OpenInv == ASSUME Inv, NEW p \in Pages, Open(p) PROVE Inv'
<1>. DEFINE x == [page[p] EXCEPT !.pc = "load id", !.open = TRUE]
<1>1. /\ page[p].pc = "unopened" /\ page' = [page EXCEPT ![p] = x]
      /\ shared' = (shared \/ Registering # {}) /\ UNCHANGED <<next_id, callbacks, removals>>
    BY Zenon DEF Open, notifier
<1>2. /\ {"pc", "id", "logger"} \subseteq DOMAIN x /\ x.pc = "load id"
      /\ x.id = page[p].id /\ x.logger = page[p].logger
    BY InvFields
<1>. HIDE DEF x
<1>3. page[p].pc \notin Loaded /\ page[p].pc \notin Pushed /\ x.logger = NoLogger /\ x.id \in Nat
      /\ x.pc \notin Pushed \cup {"push"}
    BY <1>1, <1>2, InvFields DEF Pushed, Loaded
<1>4. /\ Typed' /\ Once' /\ page'[p] = x /\ \A q \in Pages \ {p} : page'[q] = page[q]
    BY <1>1, <1>2, <1>3, InvCallbacks, MovesInv
<1>5. ASSUME ~shared' PROVE Own'
    <2>1. Own /\ Registering = {}
        BY <1>1, <1>5 DEF Inv
    <2>2. Registering' = {p}
        BY <1>2, <1>4, <2>1 DEF Registering
    <2>3. \A q \in Pages : Has(q)' <=> Has(q)
        <3>1. Has(p)' <=> Has(p)
            BY <1>1, <1>2, <1>3, <1>4, InvFields DEF Has, Loaded
        <3>2. ASSUME NEW q \in Pages \ {p} PROVE Has(q)' <=> Has(q)
            <4>1. page'[q] = page[q] /\ removals' = removals
                BY <1>1, <1>4
            <4>. QED  BY <4>1 DEF Has
        <3>. QED  BY <3>1, <3>2
    <2>4. ASSUME NEW q \in Pages
          PROVE  /\ page'[q].pc \in {"push", "bump"} => page'[q].id = next_id
                 /\ page'[q].pc \in Loaded \cup {"registered"} => page'[q].id < next_id
        BY <1>2, <1>4, <2>1 DEF Own, Loaded
    <2>5. \A q \in Pages : page'[q].pc \in Pushed => q # p /\ page'[q] = page[q]
        BY <1>2, <1>3, <1>4 DEF Pushed, Loaded
    <2>6. \A q, r \in Pages : page'[q].pc \in Pushed /\ page'[r].pc \in Pushed
                               /\ page'[q].id = page'[r].id => q = r
        BY <2>1, <2>5 DEF Own
    <2>. QED  BY <1>1, <2>1, <2>2, <2>3, <2>4, <2>6 DEF Own
<1>. QED  BY <1>4, <1>5 DEF Inv

LEMMA RegisterLoadIdInv == ASSUME Inv, NEW p \in Pages, RegisterLoadId(p) PROVE Inv'
<1>. DEFINE x == [page[p] EXCEPT !.pc = "push", !.id = next_id]
<1>1. /\ page[p].pc = "load id" /\ page' = [page EXCEPT ![p] = x]
      /\ UNCHANGED <<next_id, callbacks, removals, shared>>
    BY Zenon DEF RegisterLoadId, notifier
<1>2. /\ {"pc", "id", "logger"} \subseteq DOMAIN x /\ x.pc = "push"
      /\ x.id = next_id /\ x.logger = page[p].logger
    BY InvFields
<1>. HIDE DEF x
<1>3. page[p].pc \notin Loaded /\ page[p].pc \notin Pushed /\ x.logger = NoLogger
      /\ x.pc \notin Pushed
    BY <1>1, <1>2, InvFields DEF Pushed, Loaded
<1>4. /\ Typed' /\ Once' /\ page'[p] = x /\ \A q \in Pages \ {p} : page'[q] = page[q]
    BY <1>1, <1>2, <1>3, InvCallbacks, MovesInv
<1>5. ASSUME ~shared' PROVE Own'
    <2>1. Own
        BY <1>1, <1>5 DEF Inv
    <2>2. Registering' = Registering
        BY <1>1, <1>2, <1>4 DEF Registering
    <2>3. \A q \in Pages : Has(q)' <=> Has(q)
        <3>1. Has(p)' <=> Has(p)
            BY <1>1, <1>2, <1>3, <1>4, InvFields DEF Has, Loaded
        <3>2. ASSUME NEW q \in Pages \ {p} PROVE Has(q)' <=> Has(q)
            <4>1. page'[q] = page[q] /\ removals' = removals
                BY <1>1, <1>4
            <4>. QED  BY <4>1 DEF Has
        <3>. QED  BY <3>1, <3>2
    <2>4. ASSUME NEW q \in Pages
          PROVE  /\ page'[q].pc \in {"push", "bump"} => page'[q].id = next_id
                 /\ page'[q].pc \in Loaded \cup {"registered"} => page'[q].id < next_id
        BY <1>2, <1>4, <2>1 DEF Own, Loaded
    <2>5. \A q \in Pages : page'[q].pc \in Pushed => q # p /\ page'[q] = page[q]
        BY <1>2, <1>3, <1>4 DEF Pushed, Loaded
    <2>6. \A q, r \in Pages : page'[q].pc \in Pushed /\ page'[r].pc \in Pushed
                               /\ page'[q].id = page'[r].id => q = r
        BY <2>1, <2>5 DEF Own
    <2>. QED  BY <1>1, <2>1, <2>2, <2>3, <2>4, <2>6 DEF Own
<1>. QED  BY <1>4, <1>5 DEF Inv

LEMMA RegisterBumpInv == ASSUME Inv, NEW p \in Pages, RegisterBump(p) PROVE Inv'
<1>. DEFINE x == [page[p] EXCEPT !.pc = "registered"]
<1>1. /\ page[p].pc = "bump" /\ page' = [page EXCEPT ![p] = x] /\ next_id' = next_id + 1
      /\ UNCHANGED <<callbacks, removals, shared>>
    BY Zenon DEF RegisterBump
<1>2. /\ {"pc", "id", "logger"} \subseteq DOMAIN x /\ x.pc = "registered"
      /\ x.id = page[p].id /\ x.logger = page[p].logger
    BY InvFields
<1>. HIDE DEF x
<1>3. /\ page[p].pc \notin Loaded /\ page[p].pc \in Pushed /\ x.logger = NoLogger
      /\ x.pc \in Pushed /\ x.id \in Nat /\ x.id # 0
    BY <1>1, <1>2, InvFields DEF Pushed, Loaded
<1>4. /\ next_id \in Nat /\ next_id' \in Nat /\ next_id' # 0 /\ next_id < next_id'
    BY <1>1, InvCallbacks
<1>5. /\ Typed' /\ Once' /\ page'[p] = x /\ \A q \in Pages \ {p} : page'[q] = page[q]
    BY <1>1, <1>2, <1>3, <1>4, MovesInv
<1>6. ASSUME ~shared' PROVE Own'
    <2>1. Own
        BY <1>1, <1>6 DEF Inv
    <2>2. Registering' = {} /\ Registering = {p}
        <3>1. Registering = {p}
            <4>1. p \in Registering
                BY <1>1 DEF Registering
            <4>2. \A q \in Registering : q = p
                BY <2>1, <4>1 DEF Own
            <4>. QED  BY <4>1, <4>2
        <3>2. \A q \in Pages : q \notin Registering'
            BY <1>2, <1>5, <3>1 DEF Registering
        <3>. QED  BY <3>1, <3>2 DEF Registering
    <2>3. \A q \in Pages : Has(q)' <=> Has(q)
        BY <1>1, <1>2, <1>3, <1>5 DEF Has, Pushed
    <2>4. ASSUME NEW q \in Pages
          PROVE  /\ page'[q].pc \in {"push", "bump"} => page'[q].id = next_id'
                 /\ page'[q].pc \in Loaded \cup {"registered"} => page'[q].id < next_id'
        <3>1. CASE q = p
            BY <1>1, <1>2, <1>4, <1>5, <2>1, <3>1 DEF Own
        <3>2. CASE q # p
            <4>1. page'[q] = page[q] /\ q \notin Registering /\ page[q].id \in Nat
                BY <1>5, <2>2, <3>2, InvFields
            <4>2. page[q].pc \in Loaded \cup {"registered"} => page[q].id < next_id
                BY <2>1 DEF Own
            <4>3. page[q].pc \notin {"push", "bump"}
                BY <4>1 DEF Registering
            <4>. QED  BY <1>4, <4>1, <4>2, <4>3
        <3>. QED  BY <3>1, <3>2
    <2>5. \A q \in Pages : page'[q].id = page[q].id
                           /\ (page'[q].pc \in Pushed <=> page[q].pc \in Pushed)
        BY <1>2, <1>3, <1>5
    <2>. QED  BY <1>1, <2>1, <2>2, <2>3, <2>4, <2>5 DEF Own
<1>. QED  BY <1>5, <1>6 DEF Inv

LEMMA RegisteredInv == ASSUME Inv, NEW p \in Pages, Registered(p) PROVE Inv'
<1>. DEFINE x == [page[p] EXCEPT !.pc = "get log", !.logger = page[p].id]
<1>1. /\ page[p].pc = "registered" /\ page' = [page EXCEPT ![p] = x]
      /\ UNCHANGED <<next_id, callbacks, removals, shared>>
    BY Zenon DEF Registered, notifier
<1>2. /\ {"pc", "id", "logger"} \subseteq DOMAIN x /\ x.pc = "get log"
      /\ x.id = page[p].id /\ x.logger = page[p].id
    BY InvFields
<1>. HIDE DEF x
<1>3. /\ page[p].pc \notin Loaded /\ page[p].pc \in Pushed /\ x.pc \in Loaded
      /\ x.pc \in Pushed /\ x.id \in Nat /\ x.id # 0 /\ x.logger # NoLogger
    BY <1>1, <1>2, InvFields DEF Pushed, Loaded, NoLogger
<1>4. /\ Typed' /\ Once' /\ page'[p] = x /\ \A q \in Pages \ {p} : page'[q] = page[q]
    BY <1>1, <1>2, <1>3, InvCallbacks, MovesInv
<1>5. ASSUME ~shared' PROVE Own'
    <2>1. Own
        BY <1>1, <1>5 DEF Inv
    <2>2. Registering' = Registering
        BY <1>1, <1>2, <1>4 DEF Registering
    <2>3. \A q \in Pages : Has(q)' <=> Has(q)
        <3>1. Has(p)' <=> Has(p)
            BY <1>1, <1>2, <1>3, <1>4, InvFields DEF Has, Loaded
        <3>2. ASSUME NEW q \in Pages \ {p} PROVE Has(q)' <=> Has(q)
            <4>1. page'[q] = page[q] /\ removals' = removals
                BY <1>1, <1>4
            <4>. QED  BY <4>1 DEF Has
        <3>. QED  BY <3>1, <3>2
    <2>4. \A q \in Pages :
             /\ page'[q].id = page[q].id
             /\ page'[q].pc \in Pushed <=> page[q].pc \in Pushed
             /\ page'[q].pc \in {"push", "bump"} <=> page[q].pc \in {"push", "bump"}
             /\ page'[q].pc \in Loaded \cup {"registered"}
                    <=> page[q].pc \in Loaded \cup {"registered"}
        BY <1>1, <1>2, <1>3, <1>4
    <2>. QED  BY <1>1, <2>1, <2>2, <2>3, <2>4 DEF Own
<1>. QED  BY <1>4, <1>5 DEF Inv

(* The callback of the page is pushed; no other page has its id.           *)
LEMMA RegisterPushInv == ASSUME Inv, NEW p \in Pages, RegisterPush(p) PROVE Inv'
<1>. DEFINE x == [page[p] EXCEPT !.pc = "bump"]
            c == [id |-> page[p].id, page |-> p]
            n == Len(callbacks) + 1
<1>1. /\ page[p].pc = "push" /\ page' = [page EXCEPT ![p] = x] /\ callbacks' = Append(callbacks, c)
      /\ UNCHANGED <<next_id, removals, shared>>
    BY Zenon DEF RegisterPush
<1>2. /\ {"pc", "id", "logger"} \subseteq DOMAIN x /\ x.pc = "bump"
      /\ x.id = page[p].id /\ x.logger = page[p].logger
    BY InvFields
<1>3. c \in Callback /\ c.id = page[p].id /\ c.page = p
    BY InvFields DEF Callback
<1>. HIDE DEF x, c
<1>4. /\ page[p].pc \notin Loaded /\ page[p].pc \notin Pushed /\ x.logger = NoLogger
      /\ x.pc \in Pushed /\ x.pc \notin Loaded /\ x.id \in Nat /\ x.id # 0
    BY <1>1, <1>2, InvFields DEF Pushed, Loaded
<1>5. /\ DOMAIN page' = Pages /\ page'[p] = x /\ \A q \in Pages \ {p} : page'[q] = page[q]
    BY <1>1, InvFields, Becomes
<1>6. /\ callbacks' \in Seq(Callback) /\ DOMAIN callbacks' = DOMAIN callbacks \cup {n}
      /\ n \notin DOMAIN callbacks
      /\ callbacks'[n] = c /\ \A i \in DOMAIN callbacks : callbacks'[i] = callbacks[i]
    <2>1. callbacks \in Seq(Callback)
        BY InvCallbacks
    <2>2. /\ callbacks' \in Seq(Callback)
          /\ DOMAIN callbacks = 1..Len(callbacks) /\ DOMAIN callbacks' = 1..n
          /\ \A i \in DOMAIN callbacks : callbacks'[i] = callbacks[i]
          /\ callbacks'[n] = c /\ Len(callbacks) \in Nat
        BY <1>1, <1>3, <2>1, Pushes
    <2>. QED  BY <2>2
<1>. HIDE DEF n
<1>7. \A i \in DOMAIN callbacks : callbacks[i].page \in Pages \ {p}
    BY <1>4, InvCallbacks DEF Inv, Once
<1>8. Typed'
    BY <1>1, <1>2, <1>4, <1>5, <1>6 DEF Inv, Typed
<1>9. Once'
    <2>1. ASSUME NEW i \in DOMAIN callbacks'
          PROVE  /\ page'[callbacks'[i].page].pc \in Pushed
                 /\ callbacks'[i].id = page'[callbacks'[i].page].id
        <3>1. CASE i = n
            BY <1>2, <1>3, <1>4, <1>5, <1>6, <3>1
        <3>2. CASE i # n
            <4>1. /\ i \in DOMAIN callbacks /\ callbacks'[i] = callbacks[i]
                  /\ page'[callbacks[i].page] = page[callbacks[i].page]
                BY <1>5, <1>6, <1>7, <3>2
            <4>. QED  BY <4>1 DEF Inv, Once
        <3>. QED  BY <3>1, <3>2
    <2>2. ASSUME NEW i \in DOMAIN callbacks', NEW j \in DOMAIN callbacks',
                 callbacks'[i].page = callbacks'[j].page
          PROVE  i = j
        <3>1. \A k, l \in DOMAIN callbacks : callbacks[k].page = callbacks[l].page => k = l
            BY DEF Inv, Once
        <3>2. \A k \in DOMAIN callbacks : callbacks'[k].page # p
            BY <1>6, <1>7
        <3>. QED  BY <1>3, <1>6, <2>2, <3>1, <3>2
    <2>3. ASSUME NEW id \in removals
          PROVE  \E q \in Pages :
                    page'[q].pc \in Loaded /\ page'[q].id = id /\ page'[q].logger = NoLogger
        <3>1. PICK q \in Pages :
                 page[q].pc \in Loaded /\ page[q].id = id /\ page[q].logger = NoLogger
            BY DEF Inv, Once
        <3>. QED  BY <1>4, <1>5, <3>1
    <2>. QED  BY <1>1, <2>1, <2>2, <2>3 DEF Once
<1>10. ASSUME ~shared' PROVE Own'
    <2>1. Own
        BY <1>1, <1>10 DEF Inv
    <2>2. Registering' = Registering /\ p \in Registering
        BY <1>1, <1>2, <1>5 DEF Registering
    <2>3. ASSUME NEW q \in Pages
          PROVE  /\ page'[q].pc \in {"push", "bump"} => page'[q].id = next_id
                 /\ page'[q].pc \in Loaded \cup {"registered"} => page'[q].id < next_id
        BY <1>1, <1>2, <1>5, <2>1 DEF Own, Loaded
    <2>4. ASSUME NEW q \in Pages \ {p}, page[q].pc \in Pushed PROVE page[q].id # page[p].id
        <3>1. q \notin Registering
            BY <2>1, <2>2 DEF Own
        <3>2. page[q].pc \in Loaded \cup {"registered"}
            BY <2>4, <3>1 DEF Registering, Pushed
        <3>3. page[q].id < next_id /\ page[p].id = next_id /\ page[q].id \in Nat /\ next_id \in Nat
            BY <1>1, <2>1, <3>2, InvFields, InvCallbacks DEF Own
        <3>. QED  BY <3>3
    <2>5. \A q, r \in Pages : page'[q].pc \in Pushed /\ page'[r].pc \in Pushed
                               /\ page'[q].id = page'[r].id => q = r
        BY <1>2, <1>5, <2>1, <2>4 DEF Own
    <2>6. ASSUME NEW q \in Pages
          PROVE  (\E i \in DOMAIN callbacks' : callbacks'[i].page = q) <=> Has(q)'
        <3>1. CASE q = p
            BY <1>2, <1>3, <1>5, <1>6, <3>1 DEF Has
        <3>2. CASE q # p
            <4>1. Has(q)' <=> Has(q)
                BY <1>1, <1>5, <3>2 DEF Has
            <4>2. (\E i \in DOMAIN callbacks' : callbacks'[i].page = q)
                    <=> (\E i \in DOMAIN callbacks : callbacks[i].page = q)
                BY <1>3, <1>6, <3>2
            <4>. QED  BY <2>1, <4>1, <4>2 DEF Own
        <3>. QED  BY <3>1, <3>2
    <2>. QED  BY <1>1, <2>1, <2>2, <2>3, <2>5, <2>6 DEF Own
<1>. QED  BY <1>8, <1>9, <1>10 DEF Inv

(* The page gives its id up; its callback is there until it is removed.    *)
LEMMA CloseInv == ASSUME Inv, NEW p \in Pages, Close(p) PROVE Inv'
<1>. DEFINE x == [page[p] EXCEPT !.open = FALSE, !.logger = NoLogger]
<1>1. /\ page' = [page EXCEPT ![p] = x] /\ removals' = removals \cup ({page[p].logger} \ {NoLogger})
      /\ UNCHANGED <<next_id, callbacks, shared>>
    BY Zenon DEF Close
<1>2. /\ {"pc", "id", "logger"} \subseteq DOMAIN x /\ x.pc = page[p].pc
      /\ x.id = page[p].id /\ x.logger = NoLogger
    BY InvFields
<1>. HIDE DEF x
<1>3. /\ DOMAIN page' = Pages /\ page'[p] = x /\ \A q \in Pages \ {p} : page'[q] = page[q]
    BY <1>1, InvFields, Becomes
<1>4. \A q \in Pages : page'[q].pc = page[q].pc /\ page'[q].id = page[q].id
    BY <1>2, <1>3
<1>5. Typed'
    BY <1>1, <1>2, <1>3 DEF Inv, Typed
<1>6. Once'
    <2>1. ASSUME NEW id \in removals'
          PROVE  \E q \in Pages :
                    page'[q].pc \in Loaded /\ page'[q].id = id /\ page'[q].logger = NoLogger
        <3>1. CASE id \in removals
            <4>1. PICK q \in Pages :
                     page[q].pc \in Loaded /\ page[q].id = id /\ page[q].logger = NoLogger
                BY <3>1 DEF Inv, Once
            <4>. QED  BY <1>2, <1>3, <4>1
        <3>2. CASE id \notin removals
            <4>1. id = page[p].logger /\ id # NoLogger
                BY <1>1, <3>2
            <4>2. page[p].pc \in Loaded /\ page[p].id = id
                BY <4>1, InvFields
            <4>. QED  BY <1>2, <1>3, <4>2
        <3>. QED  BY <3>1, <3>2
    <2>. QED  BY <1>1, <1>4, <2>1, InvCallbacks DEF Inv, Once
<1>7. ASSUME ~shared' PROVE Own'
    <2>1. Own
        BY <1>1, <1>7 DEF Inv
    <2>2. Registering' = Registering
        BY <1>4 DEF Registering
    <2>3. ASSUME NEW q \in Pages PROVE Has(q)' <=> Has(q)
        <3>1. CASE page[p].logger = NoLogger
            <4>1. removals' = removals /\ page'[q].logger = page[q].logger
                BY <1>1, <1>2, <1>3, <3>1
            <4>. QED  BY <1>4, <4>1 DEF Has
        <3>2. CASE page[p].logger # NoLogger
            <4>1. /\ page[p].pc \in Loaded /\ page[p].logger = page[p].id
                  /\ removals' = removals \cup {page[p].id}
                BY <1>1, <3>2, InvFields
            <4>2. CASE q = p
                BY <1>4, <3>2, <4>1, <4>2 DEF Has
            <4>3. CASE q # p
                <5>1. page[q].pc \in Loaded => page[q].id # page[p].id
                    BY <2>1, <4>1, <4>3 DEF Own, Pushed
                <5>. QED  BY <1>3, <4>1, <4>3, <5>1 DEF Has
            <4>. QED  BY <4>2, <4>3
        <3>. QED  BY <3>1, <3>2
    <2>. QED  BY <1>1, <1>4, <2>1, <2>2, <2>3 DEF Own
<1>. QED  BY <1>5, <1>6, <1>7 DEF Inv

(* Unless two registrations shared it, the first callback of the id is the *)
(* one of the page that gave it up.                                        *)
LEMMA UnregisterInv == ASSUME Inv, NEW id \in removals, Unregister(id) PROVE Inv'
<1>. DEFINE f == SelectInSeq(callbacks, LAMBDA c : c.id = id)
            t == RemoveAt(callbacks, f)
<1>1. /\ removals' = removals \ {id} /\ UNCHANGED <<next_id, page, shared>>
      /\ callbacks' = IF f = 0 THEN callbacks ELSE t
    BY DEF Unregister
<1>2. callbacks \in Seq(Callback)
    BY InvCallbacks
<1>3. \/ f \in DOMAIN callbacks /\ f # 0 /\ callbacks[f].id = id
      \/ f = 0 /\ \A i \in DOMAIN callbacks : callbacks[i].id # id
    BY <1>2, FirstOfId
<1>. HIDE DEF f
<1>4. PICK p \in Pages : page[p].pc \in Loaded /\ page[p].id = id /\ page[p].logger = NoLogger
    BY DEF Inv, Once
<1>5. \A i, j \in DOMAIN callbacks : callbacks[i].page = callbacks[j].page => i = j
    BY DEF Inv, Once
<1>6. /\ callbacks' \in Seq(Callback)
      /\ \A j \in DOMAIN callbacks' : \E k \in DOMAIN callbacks \ {f} : callbacks'[j] = callbacks[k]
      /\ \A k \in DOMAIN callbacks \ {f} : \E j \in DOMAIN callbacks' : callbacks'[j] = callbacks[k]
      /\ \A j, k \in DOMAIN callbacks' : callbacks'[j].page = callbacks'[k].page => j = k
    <2>1. CASE f = 0
        <3>1. 0 \notin DOMAIN callbacks
            BY <1>2
        <3>. QED  BY <1>1, <1>2, <1>5, <2>1, <3>1
    <2>2. CASE f # 0
        <3>1. callbacks' = t /\ f \in DOMAIN callbacks
            BY <1>1, <1>3, <2>2
        <3>2. /\ t \in Seq(Callback)
              /\ \A j \in DOMAIN t : \E k \in DOMAIN callbacks \ {f} : t[j] = callbacks[k]
              /\ \A k \in DOMAIN callbacks \ {f} : \E j \in DOMAIN t : t[j] = callbacks[k]
              /\ (\A j, k \in DOMAIN callbacks : callbacks[j].page = callbacks[k].page => j = k)
                   => \A j, k \in DOMAIN t : t[j].page = t[k].page => j = k
            BY <1>2, <3>1, TakenOut, Zenon
        <3>. HIDE DEF t
        <3>. QED  BY <1>5, <3>1, <3>2, Zenon
    <2>. QED  BY <2>1, <2>2
<1>7. Typed'
    BY <1>1, <1>6 DEF Inv, Typed
<1>8. Once'
    <2>1. \A i \in DOMAIN callbacks :
             page[callbacks[i].page].pc \in Pushed /\ callbacks[i].id = page[callbacks[i].page].id
        BY DEF Inv, Once
    <2>2. \A r \in removals' : \E q \in Pages :
             page[q].pc \in Loaded /\ page[q].id = r /\ page[q].logger = NoLogger
        BY <1>1 DEF Inv, Once
    <2>3. \A j \in DOMAIN callbacks' : \E k \in DOMAIN callbacks : callbacks'[j] = callbacks[k]
        BY <1>6
    <2>4. \A j \in DOMAIN callbacks' :
             /\ page[callbacks'[j].page].pc \in Pushed
             /\ callbacks'[j].id = page[callbacks'[j].page].id
        BY <2>1, <2>3
    <2>. QED  BY <1>1, <1>6, <2>2, <2>4 DEF Once
<1>9. ASSUME ~shared' PROVE Own'
    <2>1. Own
        BY <1>1, <1>9 DEF Inv
    <2>2. Registering' = Registering
        BY <1>1 DEF Registering
    <2>3. f # 0 /\ callbacks[f].page = p /\ f \in DOMAIN callbacks
        <3>1. Has(p)
            BY <1>4 DEF Has
        <3>2. PICK i \in DOMAIN callbacks : callbacks[i].page = p
            BY <2>1, <3>1 DEF Own
        <3>3. callbacks[i].id = id
            BY <1>4, <3>2 DEF Inv, Once
        <3>4. f # 0 /\ callbacks[f].id = id /\ f \in DOMAIN callbacks
            BY <1>3, <3>3
        <3>5. /\ callbacks[f].page \in Pages /\ page[callbacks[f].page].pc \in Pushed
              /\ page[callbacks[f].page].id = id
            BY <3>4, InvCallbacks DEF Inv, Once
        <3>. QED  BY <1>4, <2>1, <3>4, <3>5 DEF Own, Pushed
    <2>4. ASSUME NEW q \in Pages
          PROVE  (\E i \in DOMAIN callbacks' : callbacks'[i].page = q) <=> Has(q)'
        <3>1. CASE q = p
            <4>1. ~Has(q)'
                BY <1>1, <1>4, <3>1 DEF Has, Loaded
            <4>2. \A i \in DOMAIN callbacks' : callbacks'[i].page # p
                BY <1>5, <1>6, <2>3
            <4>. QED  BY <3>1, <4>1, <4>2
        <3>2. CASE q # p
            <4>1. page[q].pc \in Loaded => page[q].id # id
                BY <1>4, <2>1, <3>2 DEF Own, Pushed
            <4>2. Has(q)' <=> Has(q)
                BY <1>1, <4>1 DEF Has
            <4>3. (\E i \in DOMAIN callbacks' : callbacks'[i].page = q)
                    <=> (\E i \in DOMAIN callbacks : callbacks[i].page = q)
                BY <1>6, <2>3, <3>2
            <4>. QED  BY <2>1, <4>2, <4>3 DEF Own
        <3>. QED  BY <3>1, <3>2
    <2>. QED  BY <1>1, <2>1, <2>2, <2>4 DEF Own
<1>. QED  BY <1>7, <1>8, <1>9 DEF Inv

LEMMA StepInv == Inv /\ [Next]_vars => Inv'
<1>. SUFFICES ASSUME Inv, [Next]_vars PROVE Inv'
    OBVIOUS
<1>1. ASSUME NEW p \in Pages, PageStep(p) PROVE Inv'
    BY <1>1, QuietSteps, OpenInv, CloseInv, RegisterLoadIdInv, RegisterPushInv, RegisterBumpInv,
       RegisteredInv DEF PageStep
<1>2. ASSUME NEW id \in removals, Unregister(id) PROVE Inv'
    BY <1>2, UnregisterInv
<1>. QED  BY <1>1, <1>2, QuietSteps DEF Next

(* log.rs:87-146 and log.dart: register_logger, unregister_logger and       *)
(* dispose leave a page its callback, take a closed page's own away and no  *)
(* other's, however they interleave with the others' steps.                 *)
THEOREM CallbacksAreOwn == Spec => []OwnCallbacks
<1>1. Inv => OwnCallbacks
    <2>. SUFFICES ASSUME Inv, removals = {}, ~shared
                  PROVE  {callbacks[i].page : i \in DOMAIN callbacks}
                           = {p \in Pages : page[p].logger # NoLogger
                                            \/ page[p].pc \in {"bump", "registered"}}
        BY DEF OwnCallbacks
    <2>1. \A p \in Pages : (\E i \in DOMAIN callbacks : callbacks[i].page = p)
             <=> page[p].logger # NoLogger \/ page[p].pc \in {"bump", "registered"}
        BY DEF Inv, Own, Has
    <2>. QED  BY <2>1, InvCallbacks
<1>. QED  BY <1>1, InitInv, StepInv, PTL DEF Spec

-----------------------------------------------------------------------------
(* Induction, and functions defined by it.                                 *)

(* Induction over the natural numbers, for a set of them.                  *)
LEMMA Induction ==
    ASSUME NEW S, \A n \in Nat : (\A m \in Nat : m < n => m \in S) => n \in S
    PROVE  \A n \in Nat : n \in S
<1>. DEFINE I == Nat \ S
<1>1. CASE I = {}
    BY <1>1
<1>2. CASE I # {}
    <2>1. IsWellFoundedOn(OpToRel(<, Nat), I)
        <3>1. I \subseteq Nat
            OBVIOUS
        <3>. HIDE DEF I
        <3>. QED  BY <3>1, NatLessThanWellFounded, IsWellFoundedOnSubset
    <2>2. PICK n \in I : \A y \in I : ~(<<y, n>> \in OpToRel(<, Nat))
        BY <1>2, <2>1, WFMin
    <2>3. \A m \in Nat : m < n => m \in S
        BY <2>2 DEF OpToRel
    <2>. QED  BY <2>2, <2>3
<1>. QED  BY <1>1, <1>2

(* A function each of whose values is defined from the one at a smaller    *)
(* number exists.                                                          *)
Defined(N, V, first, from, G) ==
    \E g \in [0..N -> V] : g[0] = first /\ \A n \in 1..N : g[n] = G[<<n, g[from[n]]>>]

LEMMA Recursion ==
    \A N \in Nat : \A V : \A first \in V : \A from \in [1..N -> Nat] :
        \A G \in [(1..N) \X V -> V] :
            (\A n \in 1..N : from[n] < n) => Defined(N, V, first, from, G)
<1>. SUFFICES ASSUME NEW N \in Nat, NEW V, NEW first \in V, NEW from \in [1..N -> Nat],
                     NEW G \in [(1..N) \X V -> V], \A n \in 1..N : from[n] < n
              PROVE  Defined(N, V, first, from, G)
    OBVIOUS
<1>. DEFINE To(n, g) == /\ g \in [0..n -> V] /\ g[0] = first
                        /\ \A k \in 1..n : g[k] = G[<<k, g[from[k]]>>]
            S == {n \in Nat : n <= N => \E g : To(n, g)}
<1>1. 0 \in S
    <2>. DEFINE g == [k \in 0..0 |-> first]
    <2>1. To(0, g)
        OBVIOUS
    <2>. QED  BY <2>1
<1>2. ASSUME NEW n \in 1..N, n - 1 \in S PROVE n \in S
    <2>1. PICK g : To(n - 1, g)
        BY <1>2
    <2>. DEFINE h == [k \in 0..n |-> IF k = n THEN G[<<n, g[from[n]]>>] ELSE g[k]]
    <2>2. /\ n \in Nat /\ 0 \in 0..(n - 1)
          /\ \A k \in 1..n : from[k] \in 0..(n - 1) /\ from[k] \in 0..(k - 1)
        OBVIOUS
    <2>3. G[<<n, g[from[n]]>>] \in V
        <3>1. g[from[n]] \in V
            BY <2>1, <2>2
        <3>. QED  BY <3>1
    <2>4. h \in [0..n -> V]
        <3>1. ASSUME NEW k \in 0..n PROVE h[k] \in V
            BY <2>1, <2>3
        <3>. QED  BY <3>1
    <2>5. h[n] = G[<<n, g[from[n]]>>] /\ \A k \in 0..(n - 1) : h[k] = g[k]
        BY <2>2
    <2>. HIDE DEF h
    <2>6. ASSUME NEW k \in 1..n PROVE h[k] = G[<<k, h[from[k]]>>]
        <3>1. h[from[k]] = g[from[k]]
            BY <2>2, <2>5
        <3>2. CASE k = n
            BY <2>5, <3>1, <3>2
        <3>3. CASE k # n
            <4>1. k \in 1..(n - 1) /\ k \in 0..(n - 1)
                BY <3>3
            <4>2. g[k] = G[<<k, g[from[k]]>>]
                BY <2>1, <4>1
            <4>. QED  BY <2>5, <3>1, <4>1, <4>2
        <3>. QED  BY <3>2, <3>3
    <2>7. h[0] = first
        BY <2>1, <2>2, <2>5
    <2>8. To(n, h)
        BY <2>4, <2>6, <2>7
    <2>. QED  BY <2>2, <2>8
<1>3. \A n \in Nat : n \in S
    <2>1. ASSUME NEW n \in Nat, \A m \in Nat : m < n => m \in S PROVE n \in S
        <3>1. CASE n = 0
            BY <1>1, <3>1
        <3>2. CASE n > N
            BY <3>2
        <3>3. CASE n # 0 /\ n <= N
            <4>1. n \in 1..N /\ n - 1 \in Nat /\ n - 1 < n
                BY <3>3
            <4>2. n - 1 \in S
                BY <2>1, <4>1
            <4>. HIDE DEF S
            <4>. QED  BY <1>2, <4>1, <4>2
        <3>. QED  BY <3>1, <3>2, <3>3
    <2>. HIDE DEF S
    <2>. QED  BY <2>1, Induction
<1>4. \E g : To(N, g)
    <2>1. N \in S
        <3>. HIDE DEF S
        <3>. QED  BY <1>3
    <2>. HIDE DEF To
    <2>. QED  BY <2>1
<1>. QED  BY <1>4 DEF Defined

-----------------------------------------------------------------------------
(* Texts, and the lines of the reader.                                     *)

(* A byte is a string.  Some are named: the provers do not know of a       *)
(* literal that it is one.                                                 *)
Bytes == STRING \cup {LF, CR, "a"}
Line == [line : Seq(Bytes), position : Nat]
Nothing == [line |-> <<>>, position |-> 0]

(* The line that ends at p begins behind f, a line feed or the start.      *)
Begins(text, f, p) ==
    /\ f \in 0..p /\ (f > 0 => text[f] = LF)
    /\ \A i \in (f + 1)..p : text[i] # LF

LEMMA BeginsSomewhere ==
    ASSUME NEW text, NEW p \in Nat
    PROVE  \E f \in 0..p : Begins(text, f, p)
<1>. DEFINE S == {n \in Nat : \E f \in 0..n : Begins(text, f, n)}
<1>1. ASSUME NEW n \in Nat, \A m \in Nat : m < n => m \in S PROVE n \in S
    <2>1. CASE n = 0
        BY <2>1 DEF Begins
    <2>2. CASE n # 0 /\ text[n] = LF
        BY <2>2 DEF Begins
    <2>3. CASE n # 0 /\ text[n] # LF
        <3>1. n - 1 \in Nat /\ n - 1 < n
            BY <2>3
        <3>2. PICK f \in 0..(n - 1) : Begins(text, f, n - 1)
            BY <1>1, <3>1
        <3>3. f \in 0..n /\ Begins(text, f, n)
            BY <2>3, <3>2 DEF Begins
        <3>. QED  BY <3>3
    <2>. QED  BY <2>1, <2>2, <2>3
<1>2. \A n \in Nat : n \in S
    <2>. HIDE DEF S
    <2>. QED  BY <1>1, Induction
<1>. QED  BY <1>2

LEMMA SubIs ==
    ASSUME NEW text \in Seq(Bytes), NEW a \in Nat, NEW b \in a..Len(text)
    PROVE  /\ SubSeq(text, a + 1, b) \in Seq(Bytes) /\ Len(SubSeq(text, a + 1, b)) = b - a
           /\ \A i \in 1..(b - a) : SubSeq(text, a + 1, b)[i] = text[a + i]
<1>1. \A i \in (a + 1)..b : text[i] \in Bytes
    OBVIOUS
<1>. QED  BY <1>1

LEMMA SubJoin ==
    ASSUME NEW text \in Seq(Bytes), NEW a \in Nat, NEW b \in Nat, NEW c \in Nat,
           a <= b, b <= c, c <= Len(text)
    PROVE  SubSeq(text, a + 1, b) \o SubSeq(text, b + 1, c) = SubSeq(text, a + 1, c)
<1>. DEFINE s == SubSeq(text, a + 1, b)
            t == SubSeq(text, b + 1, c)
            w == SubSeq(text, a + 1, c)
<1>1. /\ s \in Seq(Bytes) /\ Len(s) = b - a /\ \A i \in 1..(b - a) : s[i] = text[a + i]
    BY SubIs
<1>2. /\ t \in Seq(Bytes) /\ Len(t) = c - b /\ \A i \in 1..(c - b) : t[i] = text[b + i]
    BY SubIs
<1>3. /\ w \in Seq(Bytes) /\ Len(w) = c - a /\ \A i \in 1..(c - a) : w[i] = text[a + i]
    BY SubIs
<1>. HIDE DEF s, t, w
<1>4. /\ s \o t \in Seq(Bytes) /\ Len(s \o t) = c - a
      /\ \A i \in 1..(c - a) : (s \o t)[i] = IF i <= b - a THEN s[i] ELSE t[i - (b - a)]
    <2>1. s \o t \in Seq(Bytes) /\ Len(s \o t) = Len(s) + Len(t)
        BY <1>1, <1>2, ConcatProperties
    <2>2. \A i \in 1..(Len(s) + Len(t)) :
             (s \o t)[i] = IF i <= Len(s) THEN s[i] ELSE t[i - Len(s)]
        BY <1>1, <1>2
    <2>3. Len(s) + Len(t) = c - a
        BY <1>1, <1>2
    <2>. QED  BY <1>1, <2>1, <2>2, <2>3
<1>5. ASSUME NEW i \in 1..(c - a) PROVE (s \o t)[i] = w[i]
    <2>1. CASE i <= b - a
        <3>1. i \in 1..(b - a)
            BY <2>1
        <3>. QED  BY <1>1, <1>3, <1>4, <2>1, <3>1
    <2>2. CASE i > b - a
        <3>1. i - (b - a) \in 1..(c - b) /\ b + (i - (b - a)) = a + i /\ ~(i <= b - a)
            BY <2>2
        <3>. QED  BY <1>2, <1>3, <1>4, <3>1
    <2>3. i <= b - a \/ i > b - a
        OBVIOUS
    <2>. QED  BY <2>1, <2>2, <2>3
<1>6. s \o t = w
    BY <1>3, <1>4, <1>5, SeqEqual
<1>. QED  BY <1>6 DEF s, t, w

Start(p, cap) == IF p > cap THEN p - cap ELSE 0

(* One step of the reader back from position p: what it makes of what it   *)
(* finds from the start of the chunk on, if the chunk has no line feed.    *)
ReadChunk(rest, text, cap, p) ==
    LET start == Start(p, cap)
        feeds == {i \in (start + 1)..p : text[i] = LF}
        feed == CHOOSE i \in feeds : \A j \in feeds : j <= i
        idx == feed - 1 - start
    IN  IF p = 0 THEN [line |-> <<>>, position |-> 0]
        ELSE IF feeds = {}
        THEN [rest EXCEPT !.line = @ \o SubSeq(text, start + 1, p)]
        ELSE [line |-> SubSeq(text, feed + 1, p),
              position |-> start + (IF idx > 1 /\ text[feed - 1] = CR
                                    THEN idx - 1 ELSE idx)]

(* The line goes on before the chunk, or begins in it.                     *)
GoesOn(rest, text, start, p) == [rest EXCEPT !.line = rest.line \o SubSeq(text, start + 1, p)]
BeginsHere(text, start, f, p) ==
    [line |-> SubSeq(text, f + 1, p),
     position |-> IF f - 2 > start /\ text[f - 1] = CR THEN f - 2 ELSE f - 1]

LEMMA StartIs ==
    ASSUME NEW cap \in Nat \ {0}, NEW p \in Nat, p # 0
    PROVE  Start(p, cap) \in Nat /\ Start(p, cap) < p
BY DEF Start

LEMMA ChunkIs ==
    ASSUME NEW text, NEW cap \in Nat \ {0}, NEW p \in Nat, p # 0,
           NEW f, Begins(text, f, p), NEW rest
    PROVE  ReadChunk(rest, text, cap, p) = IF f <= Start(p, cap)
                                           THEN GoesOn(rest, text, Start(p, cap), p)
                                           ELSE BeginsHere(text, Start(p, cap), f, p)
<1>. DEFINE start == Start(p, cap)
            feeds == {i \in (start + 1)..p : text[i] = LF}
            feed == CHOOSE i \in feeds : \A j \in feeds : j <= i
            idx == feed - 1 - start
<1>1. start \in Nat /\ start < p
    BY StartIs
<1>2. ReadChunk(rest, text, cap, p)
        = IF p = 0 THEN [line |-> <<>>, position |-> 0]
          ELSE IF feeds = {}
          THEN [rest EXCEPT !.line = @ \o SubSeq(text, start + 1, p)]
          ELSE [line |-> SubSeq(text, feed + 1, p),
                position |-> start + (IF idx > 1 /\ text[feed - 1] = CR
                                      THEN idx - 1 ELSE idx)]
    BY DEF ReadChunk
<1>. HIDE DEF start
<1>3. f \in Nat /\ f <= p /\ \A i \in Nat : i > f /\ i <= p => text[i] # LF
    BY DEF Begins
<1>4. CASE f <= start
    <2>1. feeds = {}
        BY <1>1, <1>3, <1>4
    <2>. HIDE DEF feeds, feed
    <2>2. ReadChunk(rest, text, cap, p) = [rest EXCEPT !.line = rest.line \o SubSeq(text, start + 1, p)]
        BY <1>2, <2>1, Zenon
    <2>. QED  BY <1>4, <2>2, Zenon DEF start, GoesOn
<1>5. CASE f > start
    <2>1. f \in feeds /\ \A j \in feeds : j \in Nat /\ j <= f
        BY <1>1, <1>3, <1>5 DEF Begins
    <2>. HIDE DEF feeds
    <2>2. feed \in feeds /\ \A j \in feeds : j <= feed
        BY <2>1, Zenon
    <2>3. feed = f
        <3>1. feed \in Nat /\ feed <= f /\ f <= feed
            BY <2>1, <2>2
        <3>. HIDE DEF feed
        <3>. QED  BY <1>3, <3>1
    <2>. HIDE DEF feed
    <2>4. start + (IF idx > 1 /\ text[feed - 1] = CR THEN idx - 1 ELSE idx)
            = IF f - 2 > start /\ text[f - 1] = CR THEN f - 2 ELSE f - 1
        BY <1>1, <1>3, <2>3
    <2>5. feeds # {}
        BY <2>1
    <2>6. ReadChunk(rest, text, cap, p)
            = [line |-> SubSeq(text, f + 1, p),
               position |-> IF f - 2 > start /\ text[f - 1] = CR THEN f - 2 ELSE f - 1]
        BY <1>2, <2>3, <2>4, <2>5, Zenon
    <2>7. ~(f <= start)
        BY <1>1, <1>3, <1>5
    <2>. QED  BY <2>6, <2>7, Zenon DEF start, BeginsHere
<1>6. f <= start \/ f > start
    BY <1>1, <1>3
<1>. QED  BY <1>4, <1>5, <1>6

(* What next_line returns from p: the line that ends there, and a place    *)
(* before its line feed, or before the carriage return in front of that.   *)
IsLine(r, text, f, p) ==
    /\ r \in Line /\ r.line = SubSeq(text, f + 1, p)
    /\ \/ r.position = IF f = 0 THEN 0 ELSE f - 1
       \/ f > 2 /\ text[f - 1] = CR /\ r.position = f - 2

LEMMA ReadsLine ==
    ASSUME NEW text \in Seq(Bytes), NEW cap \in Nat \ {0}, NEW p \in 1..Len(text),
           NEW f, Begins(text, f, p), NEW rest,
           f <= Start(p, cap) => IsLine(rest, text, f, Start(p, cap))
    PROVE  IsLine(ReadChunk(rest, text, cap, p), text, f, p)
<1>. DEFINE start == Start(p, cap)
            r == ReadChunk(rest, text, cap, p)
<1>1. /\ p \in Nat /\ p # 0 /\ p <= Len(text) /\ f \in Nat /\ f <= p
    BY DEF Begins
<1>2. /\ start \in Nat /\ start < p
      /\ r = IF f <= start THEN GoesOn(rest, text, start, p) ELSE BeginsHere(text, start, f, p)
    BY <1>1, StartIs, ChunkIs
<1>3. f <= start => IsLine(rest, text, f, start)
    OBVIOUS
<1>. HIDE DEF start, r
<1>4. SubSeq(text, f + 1, p) \in Seq(Bytes)
    BY <1>1, SubIs
<1>5. ASSUME f <= start PROVE IsLine(r, text, f, p)
    <2>1. SubSeq(text, f + 1, start) \o SubSeq(text, start + 1, p) = SubSeq(text, f + 1, p)
        <3>1. /\ f \in Nat /\ start \in Nat /\ p \in Nat
              /\ f <= start /\ start <= p /\ p <= Len(text)
            BY <1>1, <1>2, <1>5
        <3>. QED  BY <3>1, SubJoin
    <2>. DEFINE t == SubSeq(text, start + 1, p)
    <2>2. r = [rest EXCEPT !.line = rest.line \o t] /\ rest \in Line
        BY <1>2, <1>3, <1>5 DEF IsLine, GoesOn
    <2>3. rest.line \o t = SubSeq(text, f + 1, p)
        BY <1>3, <1>5, <2>1 DEF IsLine
    <2>. HIDE DEF t
    <2>4. r = [rest EXCEPT !.line = SubSeq(text, f + 1, p)]
        BY <2>2, <2>3
    <2>5. r \in Line /\ r.line = SubSeq(text, f + 1, p) /\ r.position = rest.position
        BY <1>4, <2>2, <2>4 DEF Line
    <2>6. \/ r.position = IF f = 0 THEN 0 ELSE f - 1
          \/ f > 2 /\ text[f - 1] = CR /\ r.position = f - 2
        BY <1>3, <1>5, <2>5 DEF IsLine
    <2>. QED  BY <2>5, <2>6, Zenon DEF IsLine
<1>6. ASSUME f > start PROVE IsLine(r, text, f, p)
    <2>. DEFINE q == IF f - 2 > start /\ text[f - 1] = CR THEN f - 2 ELSE f - 1
    <2>1. q \in Nat /\ (q = f - 1 \/ (f > 2 /\ text[f - 1] = CR /\ q = f - 2)) /\ f # 0
        BY <1>1, <1>2, <1>6
    <2>2. r = [line |-> SubSeq(text, f + 1, p), position |-> q]
        <3>1. ~(f <= start)
            BY <1>1, <1>2, <1>6
        <3>. QED  BY <1>2, <3>1 DEF BeginsHere
    <2>. HIDE DEF q
    <2>3. r \in Line /\ r.line = SubSeq(text, f + 1, p) /\ r.position = q
        BY <1>4, <2>1, <2>2 DEF Line
    <2>4. \/ r.position = IF f = 0 THEN 0 ELSE f - 1
          \/ f > 2 /\ text[f - 1] = CR /\ r.position = f - 2
        BY <2>1, <2>3
    <2>. QED  BY <2>3, <2>4, Zenon DEF IsLine
<1>7. f <= start \/ f > start
    BY <1>1, <1>2
<1>8. IsLine(r, text, f, p)
    BY <1>5, <1>6, <1>7, Zenon
<1>. QED  BY <1>8 DEF r

LEMMA ChunkLine ==
    ASSUME NEW text \in Seq(Bytes), NEW cap \in Nat \ {0}, NEW p \in 1..Len(text),
           NEW rest \in Line
    PROVE  ReadChunk(rest, text, cap, p) \in Line
<1>. DEFINE start == Start(p, cap)
            r == ReadChunk(rest, text, cap, p)
            t == SubSeq(text, start + 1, p)
<1>1. p \in Nat /\ p # 0 /\ p <= Len(text)
    OBVIOUS
<1>2. PICK f \in 0..p : Begins(text, f, p)
    BY <1>1, BeginsSomewhere
<1>3. /\ start \in Nat /\ start < p
      /\ f <= start => r = [rest EXCEPT !.line = rest.line \o t]
    <2>1. r = IF f <= start THEN GoesOn(rest, text, start, p) ELSE BeginsHere(text, start, f, p)
        BY <1>1, <1>2, ChunkIs
    <2>. QED  BY <1>1, <2>1, StartIs DEF GoesOn
<1>4. t \in Seq(Bytes)
    BY <1>1, <1>3, SubIs
<1>. HIDE DEF r, t
<1>5. CASE f <= start
    <2>1. rest.line \o t \in Seq(Bytes)
        <3>1. rest.line \in Seq(Bytes)
            BY DEF Line
        <3>. QED  BY <1>4, <3>1, ConcatProperties
    <2>2. r \in Line
        BY <1>3, <1>5, <2>1 DEF Line
    <2>. QED  BY <2>2 DEF r
<1>6. CASE ~(f <= start)
    <2>1. IsLine(r, text, f, p)
        BY <1>2, <1>6, ReadsLine DEF r
    <2>. QED  BY <2>1 DEF IsLine, r
<1>. QED  BY <1>5, <1>6

(* The function next_line computes has the values its equation says.       *)
LEMMA NextLineReads ==
    ASSUME NEW text \in Seq(Bytes), NEW cap \in Nat \ {0}
    PROVE  \A p \in 0..Len(text) :
              NextLine(text, cap)[p]
                 = ReadChunk(NextLine(text, cap)[Start(p, cap)], text, cap, p)
<1>. DEFINE N == Len(text)
            f == NextLine(text, cap)
            IsReader(g) == g = [p \in 0..N |-> ReadChunk(g[Start(p, cap)], text, cap, p)]
            from == [p \in 1..N |-> Start(p, cap)]
            G == [x \in (1..N) \X Line |-> ReadChunk(x[2], text, cap, x[1])]
<1>1. N \in Nat
    OBVIOUS
<1>2. \A p \in 1..N : Start(p, cap) \in Nat /\ Start(p, cap) < p
    BY <1>1 DEF Start
<1>3. from \in [1..N -> Nat] /\ \A p \in 1..N : from[p] < p
    BY <1>2
<1>4. G \in [(1..N) \X Line -> Line]
    <2>1. ASSUME NEW x \in (1..N) \X Line PROVE ReadChunk(x[2], text, cap, x[1]) \in Line
        <3>1. x[1] \in 1..N /\ x[2] \in Line
            OBVIOUS
        <3>. QED  BY <3>1, ChunkLine
    <2>. QED  BY <2>1
<1>5. Nothing \in Line
    BY DEF Nothing, Line
<1>6. PICK g \in [0..N -> Line] : g[0] = Nothing /\ \A p \in 1..N : g[p] = G[<<p, g[from[p]]>>]
    <2>. HIDE DEF N, from, G
    <2>1. Defined(N, Line, Nothing, from, G)
        BY <1>1, <1>3, <1>4, <1>5, Recursion
    <2>. QED  BY <2>1 DEF Defined
<1>7. ASSUME NEW p \in 0..N PROVE g[p] = ReadChunk(g[Start(p, cap)], text, cap, p)
    <2>1. CASE p = 0
        BY <1>6, <2>1 DEF ReadChunk, Nothing
    <2>2. CASE p # 0
        <3>1. p \in 1..N
            BY <2>2
        <3>2. from[p] \in 0..N /\ from[p] = Start(p, cap)
            BY <1>2, <3>1
        <3>3. <<p, g[from[p]]>> \in (1..N) \X Line
            BY <1>6, <3>1, <3>2
        <3>4. G[<<p, g[from[p]]>>] = ReadChunk(g[from[p]], text, cap, p)
            BY <3>3
        <3>. QED  BY <1>6, <3>1, <3>2, <3>4
    <2>. QED  BY <2>1, <2>2
<1>8. IsReader(g)
    <2>. HIDE DEF N
    <2>. QED  BY <1>6, <1>7
<1>9. f = CHOOSE h : IsReader(h)
    BY DEF NextLine, ReadChunk, Start
<1>. HIDE DEF f, IsReader
<1>10. IsReader(f)
    BY <1>8, <1>9, Zenon
<1>. QED  BY <1>10 DEF IsReader, f

(* So it returns, from each position, the line that ends there.            *)
LEMMA NextLineFinds ==
    ASSUME NEW text \in Seq(Bytes), NEW cap \in Nat \ {0}
    PROVE  \A p \in 0..Len(text) : \A f \in 0..p :
              Begins(text, f, p) => IsLine(NextLine(text, cap)[p], text, f, p)
<1>. DEFINE next == NextLine(text, cap)
            S == {p \in Nat : p <= Len(text) =>
                     \A f \in 0..p : Begins(text, f, p) => IsLine(next[p], text, f, p)}
<1>1. \A p \in 0..Len(text) : next[p] = ReadChunk(next[Start(p, cap)], text, cap, p)
    BY NextLineReads
<1>. HIDE DEF next
<1>2. ASSUME NEW p \in Nat, \A m \in Nat : m < p => m \in S PROVE p \in S
    <2>. SUFFICES ASSUME p <= Len(text), NEW f \in 0..p, Begins(text, f, p)
                  PROVE  IsLine(next[p], text, f, p)
        OBVIOUS
    <2>1. CASE p = 0
        <3>1. 0 \in 0..Len(text) /\ f = 0
            BY <2>1
        <3>2. next[p] = Nothing
            BY <1>1, <2>1, <3>1 DEF ReadChunk, Nothing
        <3>3. SubSeq(text, 0 + 1, 0) = <<>>
            OBVIOUS
        <3>. QED  BY <2>1, <3>1, <3>2, <3>3 DEF IsLine, Line, Nothing
    <2>2. CASE p # 0
        <3>1. p \in 1..Len(text) /\ p \in 0..Len(text)
            BY <2>2
        <3>2. Start(p, cap) \in Nat /\ Start(p, cap) < p /\ Start(p, cap) <= Len(text)
            BY <3>1 DEF Start
        <3>3. f <= Start(p, cap) => IsLine(next[Start(p, cap)], text, f, Start(p, cap))
            <4>. SUFFICES ASSUME f <= Start(p, cap)
                          PROVE  IsLine(next[Start(p, cap)], text, f, Start(p, cap))
                OBVIOUS
            <4>1. Start(p, cap) \in S
                BY <1>2, <3>2
            <4>2. f \in 0..Start(p, cap) /\ Begins(text, f, Start(p, cap))
                BY <3>2 DEF Begins
            <4>. QED  BY <3>2, <4>1, <4>2
        <3>4. IsLine(ReadChunk(next[Start(p, cap)], text, cap, p), text, f, p)
            BY <3>1, <3>3, ReadsLine
        <3>. QED  BY <1>1, <3>1, <3>4
    <2>. QED  BY <2>1, <2>2
<1>3. \A p \in Nat : p \in S
    <2>. HIDE DEF S
    <2>. QED  BY <1>2, Induction
<1>. QED  BY <1>3 DEF next

Chain(lines, next, p) == IF p = 0 THEN <<>> ELSE <<next[p]>> \o lines[next[p].position]

(* Each line precedes the position it was read from, so the chain of lines *)
(* has the values its equation says.                                       *)
LEMMA LinesAre ==
    ASSUME NEW text \in Seq(Bytes), NEW cap \in Nat \ {0}
    PROVE  /\ LinesBefore(text, cap, 0) = <<>>
           /\ \A p \in 1..Len(text) :
                 LET next == NextLine(text, cap)[p]
                 IN  /\ next \in Line /\ next.position < p
                     /\ LinesBefore(text, cap, p)
                           = <<next>> \o LinesBefore(text, cap, next.position)
           /\ \A p \in 0..Len(text) : LinesBefore(text, cap, p) \in Seq(Line)
<1>. DEFINE N == Len(text)
            next == NextLine(text, cap)
            IsChain(h) == h = [p \in 0..N |-> Chain(h, next, p)]
            f == CHOOSE h : IsChain(h)
            from == [p \in 1..N |-> next[p].position]
            G == [x \in (1..N) \X Seq(Line) |-> <<next[x[1]]>> \o x[2]]
<1>1. N \in Nat
    OBVIOUS
<1>2. \A p : LinesBefore(text, cap, p) = f[p]
    BY DEF LinesBefore, Chain
<1>3. \A p \in 0..N : \A b \in 0..p : Begins(text, b, p) => IsLine(next[p], text, b, p)
    BY NextLineFinds
<1>. HIDE DEF next
<1>4. ASSUME NEW p \in 1..N
      PROVE  next[p] \in Line /\ next[p].position \in Nat /\ next[p].position < p
    <2>1. p \in Nat /\ p # 0 /\ p \in 0..N
        BY <1>1
    <2>2. PICK b \in 0..p : Begins(text, b, p)
        BY <2>1, BeginsSomewhere
    <2>3. IsLine(next[p], text, b, p)
        BY <1>3, <2>1, <2>2
    <2>4. next[p] \in Line /\ next[p].position \in Nat
        BY <2>3 DEF IsLine, Line
    <2>5. next[p].position < p
        BY <2>1, <2>3 DEF IsLine
    <2>. QED  BY <2>4, <2>5
<1>5. from \in [1..N -> Nat] /\ \A p \in 1..N : from[p] < p
    BY <1>4
<1>6. G \in [(1..N) \X Seq(Line) -> Seq(Line)]
    <2>1. ASSUME NEW x \in (1..N) \X Seq(Line) PROVE <<next[x[1]]>> \o x[2] \in Seq(Line)
        <3>1. next[x[1]] \in Line /\ x[2] \in Seq(Line)
            BY <1>4
        <3>. QED  BY <3>1
    <2>. QED  BY <2>1
<1>7. PICK g \in [0..N -> Seq(Line)] :
         g[0] = <<>> /\ \A p \in 1..N : g[p] = G[<<p, g[from[p]]>>]
    <2>1. <<>> \in Seq(Line)
        OBVIOUS
    <2>. HIDE DEF N, from, G
    <2>2. Defined(N, Seq(Line), <<>>, from, G)
        BY <1>1, <1>5, <1>6, <2>1, Recursion
    <2>. QED  BY <2>2 DEF Defined
<1>8. ASSUME NEW p \in 0..N PROVE g[p] = Chain(g, next, p)
    <2>1. CASE p = 0
        BY <1>7, <2>1 DEF Chain
    <2>2. CASE p # 0
        <3>1. p \in 1..N
            BY <2>2
        <3>2. from[p] \in 0..N /\ from[p] = next[p].position
            BY <1>4, <3>1
        <3>3. <<p, g[from[p]]>> \in (1..N) \X Seq(Line)
            BY <1>7, <3>1, <3>2
        <3>4. G[<<p, g[from[p]]>>] = <<next[p]>> \o g[from[p]]
            BY <3>3
        <3>. QED  BY <1>7, <2>2, <3>1, <3>2, <3>4 DEF Chain
    <2>. QED  BY <2>1, <2>2
<1>9. IsChain(g)
    <2>. HIDE DEF N
    <2>. QED  BY <1>7, <1>8
<1>10. IsChain(f)
    <2>. HIDE DEF IsChain
    <2>. QED  BY <1>9, Zenon
<1>11. \A p \in 0..N : f[p] = Chain(f, next, p)
    <2>. HIDE DEF f
    <2>. QED  BY <1>10
<1>. HIDE DEF f
<1>12. f[0] = <<>> /\ \A p \in 1..N : f[p] = <<next[p]>> \o f[next[p].position]
    <2>1. 0 \in 0..N /\ f[0] = Chain(f, next, 0)
        BY <1>1, <1>11
    <2>2. ASSUME NEW p \in 1..N PROVE f[p] = <<next[p]>> \o f[next[p].position]
        <3>1. p \in 0..N /\ p # 0
            BY <1>1
        <3>2. f[p] = Chain(f, next, p)
            BY <1>11, <3>1
        <3>. QED  BY <3>1, <3>2, Zenon DEF Chain
    <2>3. f[0] = <<>>
        BY <2>1, Zenon DEF Chain
    <2>. QED  BY <2>2, <2>3
<1>13. \A p \in Nat : p <= N => f[p] \in Seq(Line)
    <2>. DEFINE S == {p \in Nat : p <= N => f[p] \in Seq(Line)}
    <2>1. ASSUME NEW p \in Nat, \A m \in Nat : m < p => m \in S PROVE p \in S
        <3>. SUFFICES ASSUME p <= N PROVE f[p] \in Seq(Line)
            OBVIOUS
        <3>1. CASE p = 0
            <4>1. f[0] = <<>> /\ <<>> \in Seq(Line)
                BY <1>12
            <4>. QED  BY <3>1, <4>1
        <3>2. CASE p # 0
            <4>1. p \in 1..N
                BY <3>2
            <4>2. next[p] \in Line /\ next[p].position \in Nat /\ next[p].position < p
                BY <1>4, <4>1
            <4>3. f[next[p].position] \in Seq(Line)
                <5>1. next[p].position \in S /\ next[p].position <= N
                    BY <1>1, <2>1, <4>1, <4>2
                <5>. QED  BY <5>1
            <4>4. f[p] = <<next[p]>> \o f[next[p].position]
                BY <1>12, <4>1
            <4>5. <<next[p]>> \in Seq(Line)
                BY <4>2
            <4>. QED  BY <4>3, <4>4, <4>5, ConcatProperties
        <3>. QED  BY <3>1, <3>2
    <2>. HIDE DEF S
    <2>2. \A p \in Nat : p \in S
        BY <2>1, Induction
    <2>. QED  BY <2>2 DEF S
<1>14. \A p \in 0..N : f[p] \in Seq(Line)
    BY <1>1, <1>13
<1>. QED  BY <1>2, <1>4, <1>12, <1>14 DEF next

-----------------------------------------------------------------------------
(* The lines found forwards.                                               *)

SomeLines == Seq(Seq(Bytes)) \ {<<>>}
WithByte(lines, byte) ==
    IF byte = LF THEN <<<<>>>> \o lines ELSE <<Append(Head(lines), byte)>> \o Tail(lines)
Begun(lines, text, n) == IF n = 0 THEN <<<<>>>> ELSE WithByte(lines[n - 1], text[n])
Forward(text) == CHOOSE h : h = [n \in 0..Len(text) |-> Begun(h, text, n)]
Wanted(lines) == IF Last(lines) = <<>> THEN Front(lines) ELSE lines

LEMMA WithByteIs ==
    ASSUME NEW lines \in SomeLines, NEW byte \in Bytes
    PROVE  WithByte(lines, byte) \in SomeLines
<1>1. lines \in Seq(Seq(Bytes)) /\ Len(lines) > 0
    BY DEF SomeLines
<1>2. Head(lines) \in Seq(Bytes) /\ Tail(lines) \in Seq(Seq(Bytes))
    BY <1>1
<1>3. \A s \in Seq(Bytes), t \in Seq(Seq(Bytes)) : <<s>> \o t \in SomeLines
    <2>. SUFFICES ASSUME NEW s \in Seq(Bytes), NEW t \in Seq(Seq(Bytes))
                  PROVE  <<s>> \o t \in SomeLines
        OBVIOUS
    <2>1. <<s>> \in Seq(Seq(Bytes)) /\ Len(<<s>>) = 1
        OBVIOUS
    <2>2. <<s>> \o t \in Seq(Seq(Bytes)) /\ Len(<<s>> \o t) = 1 + Len(t) /\ Len(t) \in Nat
        BY <2>1, ConcatProperties
    <2>3. <<s>> \o t # <<>>
        BY <2>2
    <2>. QED  BY <2>2, <2>3 DEF SomeLines
<1>4. Append(Head(lines), byte) \in Seq(Bytes) /\ <<>> \in Seq(Bytes)
    BY <1>2
<1>. QED  BY <1>1, <1>2, <1>3, <1>4 DEF WithByte

LEMMA ForwardIs ==
    ASSUME NEW text \in Seq(Bytes)
    PROVE  /\ LinesForward(text) = Wanted(Forward(text)[Len(text)])
           /\ Forward(text)[0] = <<<<>>>>
           /\ \A n \in 1..Len(text) : Forward(text)[n] = WithByte(Forward(text)[n - 1], text[n])
           /\ \A n \in 0..Len(text) : Forward(text)[n] \in SomeLines
<1>. DEFINE N == Len(text)
            IsForward(h) == h = [n \in 0..N |-> Begun(h, text, n)]
            f == Forward(text)
            from == [n \in 1..N |-> n - 1]
            G == [x \in (1..N) \X SomeLines |-> WithByte(x[2], text[x[1]])]
<1>1. N \in Nat /\ \A n \in 1..N : text[n] \in Bytes
    OBVIOUS
<1>2. LinesForward(text) = Wanted(f[N])
    BY DEF LinesForward, Wanted, Forward, Begun, WithByte
<1>3. from \in [1..N -> Nat] /\ \A n \in 1..N : from[n] < n
    BY <1>1
<1>4. G \in [(1..N) \X SomeLines -> SomeLines]
    <2>1. ASSUME NEW x \in (1..N) \X SomeLines PROVE WithByte(x[2], text[x[1]]) \in SomeLines
        <3>1. text[x[1]] \in Bytes /\ x[2] \in SomeLines
            BY <1>1
        <3>. QED  BY <3>1, WithByteIs
    <2>. QED  BY <2>1
<1>5. <<<<>>>> \in SomeLines
    <2>1. <<>> \in Seq(Bytes)
        OBVIOUS
    <2>2. <<<<>>>> \in Seq(Seq(Bytes)) /\ Len(<<<<>>>>) = 1
        BY <2>1
    <2>. QED  BY <2>2 DEF SomeLines
<1>6. PICK g \in [0..N -> SomeLines] :
         g[0] = <<<<>>>> /\ \A n \in 1..N : g[n] = G[<<n, g[from[n]]>>]
    <2>. HIDE DEF N, from, G
    <2>1. Defined(N, SomeLines, <<<<>>>>, from, G)
        BY <1>1, <1>3, <1>4, <1>5, Recursion
    <2>. QED  BY <2>1 DEF Defined
<1>7. ASSUME NEW n \in 0..N PROVE g[n] = Begun(g, text, n)
    <2>1. CASE n = 0
        BY <1>6, <2>1 DEF Begun
    <2>2. CASE n # 0
        <3>1. n \in 1..N
            BY <2>2
        <3>2. from[n] \in 0..N /\ from[n] = n - 1
            BY <3>1
        <3>3. <<n, g[from[n]]>> \in (1..N) \X SomeLines
            BY <1>6, <3>1, <3>2
        <3>4. G[<<n, g[from[n]]>>] = WithByte(g[from[n]], text[n])
            BY <3>3
        <3>. QED  BY <1>6, <2>2, <3>1, <3>2, <3>4 DEF Begun
    <2>. QED  BY <2>1, <2>2
<1>8. IsForward(g)
    <2>. HIDE DEF N
    <2>. QED  BY <1>6, <1>7
<1>9. f = CHOOSE h : IsForward(h)
    BY DEF Forward
<1>. HIDE DEF f
<1>10. IsForward(f)
    <2>. HIDE DEF IsForward
    <2>. QED  BY <1>8, <1>9, Zenon
<1>11. f[0] = <<<<>>>> /\ \A n \in 1..N : f[n] = WithByte(f[n - 1], text[n])
    <2>1. \A n \in 0..N : f[n] = Begun(f, text, n)
        BY <1>10
    <2>2. 0 \in 0..N /\ \A n \in 1..N : n \in 0..N /\ n # 0
        BY <1>1
    <2>. HIDE DEF N
    <2>. QED  BY <2>1, <2>2, Zenon DEF Begun
<1>12. \A n \in Nat : n <= N => f[n] \in SomeLines
    <2>. DEFINE S == {n \in Nat : n <= N => f[n] \in SomeLines}
    <2>1. ASSUME NEW n \in Nat, \A m \in Nat : m < n => m \in S PROVE n \in S
        <3>. SUFFICES ASSUME n <= N PROVE f[n] \in SomeLines
            OBVIOUS
        <3>1. CASE n = 0
            BY <1>5, <1>11, <3>1
        <3>2. CASE n # 0
            <4>1. n \in 1..N /\ n - 1 \in Nat /\ n - 1 < n /\ n - 1 <= N
                BY <1>1, <3>2
            <4>2. f[n - 1] \in SomeLines
                BY <2>1, <4>1
            <4>. QED  BY <1>1, <1>11, <4>1, <4>2, WithByteIs
        <3>. QED  BY <3>1, <3>2
    <2>. HIDE DEF S
    <2>2. \A n \in Nat : n \in S
        BY <2>1, Induction
    <2>. QED  BY <2>2 DEF S
<1>13. \A n \in 0..N : f[n] \in SomeLines
    BY <1>1, <1>12
<1>. QED  BY <1>2, <1>11, <1>13 DEF f

LEMMA PushIs ==
    ASSUME NEW S, NEW x \in S, NEW t \in Seq(S)
    PROVE  /\ <<x>> \o t \in Seq(S) /\ Len(<<x>> \o t) = 1 + Len(t) /\ (<<x>> \o t)[1] = x
           /\ \A i \in 2..(1 + Len(t)) : (<<x>> \o t)[i] = t[i - 1]
           /\ Head(<<x>> \o t) = x /\ Tail(<<x>> \o t) = t
<1>1. <<x>> \in Seq(S) /\ Len(<<x>>) = 1 /\ <<x>>[1] = x
    OBVIOUS
<1>2. /\ <<x>> \o t \in Seq(S) /\ Len(<<x>> \o t) = 1 + Len(t)
      /\ \A i \in 1..(1 + Len(t)) : (<<x>> \o t)[i] = IF i <= 1 THEN <<x>>[i] ELSE t[i - 1]
    BY <1>1, ConcatProperties
<1>. DEFINE w == <<x>> \o t
<1>. HIDE DEF w
<1>3. w \in Seq(S) /\ Len(w) = 1 + Len(t) /\ w[1] = x /\ \A i \in 2..(1 + Len(t)) : w[i] = t[i - 1]
    BY <1>1, <1>2 DEF w
<1>4. w # <<>> /\ Head(w) = x
    BY <1>3
<1>5. Tail(w) = t
    <2>1. /\ Tail(w) \in Seq(S) /\ Len(Tail(w)) = Len(t)
          /\ \A i \in 1..Len(t) : Tail(w)[i] = w[i + 1]
        BY <1>3, <1>4
    <2>2. ASSUME NEW i \in 1..Len(t) PROVE Tail(w)[i] = t[i]
        <3>1. i + 1 \in 2..(1 + Len(t)) /\ (i + 1) - 1 = i
            OBVIOUS
        <3>. QED  BY <1>3, <2>1, <3>1
    <2>. QED  BY <2>1, <2>2, SeqEqual
<1>. QED  BY <1>3, <1>4, <1>5 DEF w

(* The line that ends at p, in front of the lines before its line feed.    *)
LEMMA ForwardFrom ==
    ASSUME NEW text \in Seq(Bytes)
    PROVE  \A p \in 0..Len(text) : \A f \in 0..p : Begins(text, f, p) =>
              Forward(text)[p] = <<SubSeq(text, f + 1, p)>>
                                    \o (IF f = 0 THEN <<>> ELSE Forward(text)[f - 1])
<1>. DEFINE N == Len(text)
            g == Forward(text)
            rest(f) == IF f = 0 THEN <<>> ELSE g[f - 1]
            S == {p \in Nat : p <= N =>
                     \A f \in 0..p : Begins(text, f, p) => g[p] = <<SubSeq(text, f + 1, p)>> \o rest(f)}
<1>1. /\ g[0] = <<<<>>>> /\ \A n \in 1..N : g[n] = WithByte(g[n - 1], text[n])
      /\ \A n \in 0..N : g[n] \in SomeLines
    BY ForwardIs
<1>2. N \in Nat
    OBVIOUS
<1>. HIDE DEF g
<1>3. ASSUME NEW f \in 0..N PROVE rest(f) \in Seq(Seq(Bytes))
    <2>1. f # 0 => f - 1 \in 0..N
        BY <1>2
    <2>. QED  BY <1>1, <2>1 DEF SomeLines
<1>. HIDE DEF rest
<1>4. ASSUME NEW p \in Nat, \A m \in Nat : m < p => m \in S PROVE p \in S
    <2>. SUFFICES ASSUME p <= N, NEW f \in 0..p, Begins(text, f, p)
                  PROVE  g[p] = <<SubSeq(text, f + 1, p)>> \o rest(f)
        OBVIOUS
    <2>0. f \in Nat /\ f <= p /\ f <= N
        BY <1>2
    <2>1. CASE p = 0
        <3>1. f = 0 /\ SubSeq(text, f + 1, p) = <<>> /\ rest(f) = <<>>
            BY <2>0, <2>1 DEF rest
        <3>2. <<<<>>>> \o <<>> = <<<<>>>>
            <4>1. <<<<>>>> \in Seq(Seq(Bytes))
                OBVIOUS
            <4>. QED  BY <4>1, ConcatEmptySeq
        <3>. QED  BY <1>1, <2>1, <3>1, <3>2
    <2>2. CASE p # 0 /\ f = p
        <3>1. p \in 1..N /\ text[p] = LF
            BY <2>2 DEF Begins
        <3>2. g[p] = <<<<>>>> \o g[p - 1]
            BY <1>1, <3>1 DEF WithByte
        <3>3. SubSeq(text, f + 1, p) = <<>> /\ rest(f) = g[p - 1]
            BY <2>2 DEF rest
        <3>. QED  BY <3>2, <3>3
    <2>3. CASE p # 0 /\ f # p
        <3>1. /\ p \in 1..N /\ p - 1 \in Nat /\ p - 1 < p /\ p - 1 <= N
              /\ text[p] # LF /\ f \in 0..(p - 1) /\ Begins(text, f, p - 1)
            BY <2>0, <2>3 DEF Begins
        <3>2. g[p - 1] = <<SubSeq(text, f + 1, p - 1)>> \o rest(f)
            <4>1. p - 1 \in S
                BY <1>4, <3>1
            <4>. QED  BY <3>1, <4>1
        <3>3. g[p] = <<Append(Head(g[p - 1]), text[p])>> \o Tail(g[p - 1])
            BY <1>1, <3>1 DEF WithByte
        <3>. DEFINE s == SubSeq(text, f + 1, p - 1)
                    w == SubSeq(text, f + 1, p)
        <3>4. /\ s \in Seq(Bytes) /\ Len(s) = p - 1 - f
              /\ \A i \in 1..(p - 1 - f) : s[i] = text[f + i]
            BY <2>0, <3>1, SubIs
        <3>5. /\ w \in Seq(Bytes) /\ Len(w) = p - f
              /\ \A i \in 1..(p - f) : w[i] = text[f + i]
            BY <2>0, <3>1, SubIs
        <3>. HIDE DEF s, w
        <3>6. Append(s, text[p]) = w
            <4>1. text[p] \in Bytes
                BY <3>1
            <4>2. /\ Append(s, text[p]) \in Seq(Bytes) /\ Len(Append(s, text[p])) = p - f
                  /\ Append(s, text[p])[p - f] = text[p]
                  /\ \A i \in 1..(p - 1 - f) : Append(s, text[p])[i] = s[i]
                BY <2>0, <3>1, <3>4, <4>1
            <4>3. ASSUME NEW i \in 1..(p - f) PROVE Append(s, text[p])[i] = w[i]
                <5>1. CASE i = p - f
                    <6>1. f + i = p
                        BY <2>0, <5>1
                    <6>. QED  BY <3>5, <4>2, <5>1, <6>1
                <5>2. CASE i # p - f
                    <6>1. i \in 1..(p - 1 - f)
                        BY <2>0, <5>2
                    <6>. QED  BY <3>4, <3>5, <4>2, <6>1
                <5>. QED  BY <5>1, <5>2
            <4>. QED  BY <3>5, <4>2, <4>3, SeqEqual
        <3>7. rest(f) \in Seq(Seq(Bytes))
            BY <1>3, <2>0
        <3>8. Head(<<s>> \o rest(f)) = s /\ Tail(<<s>> \o rest(f)) = rest(f)
            BY <3>4, <3>7, PushIs
        <3>9. g[p] = <<w>> \o rest(f)
            BY <3>2, <3>3, <3>6, <3>8 DEF s
        <3>. QED  BY <3>9 DEF w
    <2>. QED  BY <2>1, <2>2, <2>3
<1>5. \A p \in Nat : p \in S
    <2>. HIDE DEF S
    <2>. QED  BY <1>4, Induction
<1>6. ASSUME NEW p \in 0..N, NEW f \in 0..p, Begins(text, f, p)
      PROVE  g[p] = <<SubSeq(text, f + 1, p)>> \o rest(f)
    <2>1. p \in S /\ p <= N
        BY <1>2, <1>5
    <2>. QED  BY <1>6, <2>1
<1>. QED  BY <1>6 DEF g, rest

LEMMA WantedPush ==
    ASSUME NEW s \in Seq(Bytes), NEW t \in SomeLines
    PROVE  Wanted(<<s>> \o t) = <<s>> \o Wanted(t) /\ Wanted(t) \in Seq(Seq(Bytes))
<1>. DEFINE w == <<s>> \o t
            n == Len(t)
<1>1. t \in Seq(Seq(Bytes)) /\ n \in Nat /\ n # 0
    BY DEF SomeLines
<1>2. /\ w \in Seq(Seq(Bytes)) /\ Len(w) = 1 + n /\ w[1] = s
      /\ \A i \in 2..(1 + n) : w[i] = t[i - 1]
    BY <1>1, PushIs
<1>. HIDE DEF w, n
<1>3. Last(w) = Last(t)
    <2>1. 1 + n \in 2..(1 + n) /\ (1 + n) - 1 = n
        BY <1>1
    <2>2. w[1 + n] = t[n]
        BY <1>2, <2>1
    <2>. QED  BY <1>2, <2>2 DEF Last, n
<1>4. /\ Front(t) \in Seq(Seq(Bytes)) /\ Len(Front(t)) = n - 1
      /\ \A i \in 1..(n - 1) : Front(t)[i] = t[i]
    <2>1. n = Len(t) /\ Front(t) = SubSeq(t, 1, n - 1)
        BY DEF Front, n
    <2>2. n - 1 \in 0..Len(t)
        BY <1>1, <2>1
    <2>. QED  BY <1>1, <2>1, <2>2
<1>5. Front(w) = <<s>> \o Front(t)
    <2>1. /\ Front(w) \in Seq(Seq(Bytes)) /\ Len(Front(w)) = n
          /\ \A i \in 1..n : Front(w)[i] = w[i]
        BY <1>1, <1>2 DEF Front
    <2>2. /\ <<s>> \o Front(t) \in Seq(Seq(Bytes)) /\ Len(<<s>> \o Front(t)) = 1 + (n - 1)
          /\ (<<s>> \o Front(t))[1] = s
          /\ \A i \in 2..(1 + (n - 1)) : (<<s>> \o Front(t))[i] = Front(t)[i - 1]
        BY <1>4, PushIs
    <2>3. ASSUME NEW i \in 1..n PROVE Front(w)[i] = (<<s>> \o Front(t))[i]
        <3>1. CASE i = 1
            BY <1>2, <2>1, <2>2, <3>1
        <3>2. CASE i # 1
            <4>1. i \in 2..(1 + n) /\ i \in 2..(1 + (n - 1)) /\ i - 1 \in 1..(n - 1)
                BY <1>1, <3>2
            <4>. QED  BY <1>2, <1>4, <2>1, <2>2, <4>1
        <3>. QED  BY <3>1, <3>2
    <2>4. 1 + (n - 1) = n
        BY <1>1
    <2>. QED  BY <2>1, <2>2, <2>3, <2>4, SeqEqual
<1>6. Wanted(w) = <<s>> \o Wanted(t)
    <2>1. CASE Last(t) = <<>>
        BY <1>3, <1>5, <2>1, Zenon DEF Wanted
    <2>2. CASE Last(t) # <<>>
        <3>1. Wanted(t) = t /\ Wanted(w) = w
            BY <1>3, <2>2, Zenon DEF Wanted
        <3>. QED  BY <3>1 DEF w
    <2>. QED  BY <2>1, <2>2
<1>. QED  BY <1>1, <1>4, <1>6 DEF w, Wanted

(* What is wanted from p on: that line, and what is wanted before it.      *)
LEMMA WantedFrom ==
    ASSUME NEW text \in Seq(Bytes), NEW p \in 1..Len(text), NEW f \in 0..p, Begins(text, f, p)
    PROVE  LET before == IF f = 0 THEN <<>> ELSE Wanted(Forward(text)[f - 1])
           IN  /\ before \in Seq(Seq(Bytes))
               /\ Wanted(Forward(text)[p]) = <<SubSeq(text, f + 1, p)>> \o before
<1>. DEFINE g == Forward(text)
            s == SubSeq(text, f + 1, p)
<1>1. p \in 0..Len(text) /\ f \in Nat /\ f <= p /\ p <= Len(text)
    OBVIOUS
<1>2. g[p] = <<s>> \o (IF f = 0 THEN <<>> ELSE g[f - 1])
    BY <1>1, ForwardFrom
<1>3. s \in Seq(Bytes) /\ Len(s) = p - f
    BY <1>1, SubIs
<1>4. \A n \in 0..Len(text) : g[n] \in SomeLines
    BY ForwardIs
<1>. HIDE DEF g, s
<1>5. CASE f = 0
    <2>1. <<s>> \in Seq(Seq(Bytes)) /\ Len(<<s>>) = 1 /\ <<s>>[1] = s
        BY <1>3
    <2>2. <<s>> \o <<>> = <<s>>
        BY <2>1, ConcatEmptySeq
    <2>3. s # <<>>
        BY <1>1, <1>3, <1>5
    <2>4. Last(<<s>>) # <<>>
        BY <2>1, <2>3 DEF Last
    <2>5. Wanted(g[p]) = <<s>> \o <<>>
        BY <1>2, <1>5, <2>2, <2>4 DEF Wanted
    <2>6. <<>> \in Seq(Seq(Bytes))
        OBVIOUS
    <2>. QED  BY <1>5, <2>5, <2>6 DEF g, s
<1>6. CASE f # 0
    <2>1. f - 1 \in 0..Len(text)
        BY <1>1, <1>6
    <2>2. /\ Wanted(<<s>> \o g[f - 1]) = <<s>> \o Wanted(g[f - 1])
          /\ Wanted(g[f - 1]) \in Seq(Seq(Bytes))
        BY <1>3, <1>4, <2>1, WantedPush
    <2>3. g[p] = <<s>> \o g[f - 1]
        BY <1>2, <1>6
    <2>. QED  BY <1>6, <2>2, <2>3 DEF g, s
<1>. QED  BY <1>5, <1>6

(* Lines found are those wanted, but for a carriage return at their ends.  *)
Match(found, wanted) ==
    /\ found \in Seq(Line) /\ wanted \in Seq(Seq(Bytes)) /\ Len(found) = Len(wanted)
    /\ \A i \in 1..Len(found) : found[i].line \in {wanted[i], NoReturn(wanted[i])}

LEMMA MatchPush ==
    ASSUME NEW l, NEW w, Match(l, w), NEW r \in Line, NEW s \in Seq(Bytes),
           r.line \in {s, NoReturn(s)}
    PROVE  Match(<<r>> \o l, <<s>> \o w)
<1>1. l \in Seq(Line) /\ w \in Seq(Seq(Bytes)) /\ Len(l) = Len(w) /\ Len(l) \in Nat
    BY DEF Match
<1>. DEFINE ll == <<r>> \o l
            ww == <<s>> \o w
<1>2. /\ ll \in Seq(Line) /\ Len(ll) = 1 + Len(l) /\ ll[1] = r
      /\ \A i \in 2..(1 + Len(l)) : ll[i] = l[i - 1]
    BY <1>1, PushIs
<1>3. /\ ww \in Seq(Seq(Bytes)) /\ Len(ww) = 1 + Len(l) /\ ww[1] = s
      /\ \A i \in 2..(1 + Len(l)) : ww[i] = w[i - 1]
    BY <1>1, PushIs
<1>. HIDE DEF ll, ww
<1>4. ASSUME NEW i \in 1..Len(ll) PROVE ll[i].line \in {ww[i], NoReturn(ww[i])}
    <2>1. CASE i = 1
        BY <1>2, <1>3, <2>1
    <2>2. CASE i # 1
        <3>1. i \in 2..(1 + Len(l)) /\ i - 1 \in 1..Len(l)
            BY <1>1, <1>2, <2>2
        <3>2. l[i - 1].line \in {w[i - 1], NoReturn(w[i - 1])}
            BY <3>1 DEF Match
        <3>. QED  BY <1>2, <1>3, <3>1, <3>2
    <2>. QED  BY <2>1, <2>2
<1>5. Match(ll, ww)
    BY <1>2, <1>3, <1>4 DEF Match
<1>. QED  BY <1>5 DEF ll, ww

(* The first line is found without the carriage return it ends in.         *)
LEMMA MatchReturn ==
    ASSUME NEW l, NEW w \in Seq(Seq(Bytes)), NEW s \in Seq(Bytes), NEW long \in Seq(Bytes),
           Match(l, <<s>> \o w), l[1].line = s, NoReturn(long) = s
    PROVE  Match(l, <<long>> \o w)
<1>. DEFINE ww == <<s>> \o w
            vv == <<long>> \o w
<1>1. /\ ww \in Seq(Seq(Bytes)) /\ Len(ww) = 1 + Len(w) /\ ww[1] = s
      /\ \A i \in 2..(1 + Len(w)) : ww[i] = w[i - 1]
    BY PushIs
<1>2. /\ vv \in Seq(Seq(Bytes)) /\ Len(vv) = 1 + Len(w) /\ vv[1] = long
      /\ \A i \in 2..(1 + Len(w)) : vv[i] = w[i - 1]
    BY PushIs
<1>3. Match(l, ww)
    OBVIOUS
<1>. HIDE DEF ww, vv
<1>4. Len(l) = 1 + Len(w) /\ Len(w) \in Nat
    BY <1>1, <1>3 DEF Match
<1>5. ASSUME NEW i \in 1..Len(l) PROVE l[i].line \in {vv[i], NoReturn(vv[i])}
    <2>1. CASE i = 1
        BY <1>2, <2>1
    <2>2. CASE i # 1
        <3>1. i \in 2..(1 + Len(w))
            BY <1>4, <2>2
        <3>2. vv[i] = ww[i]
            BY <1>1, <1>2, <3>1
        <3>3. l[i].line \in {ww[i], NoReturn(ww[i])}
            BY <1>3 DEF Match
        <3>. QED  BY <3>2, <3>3
    <2>. QED  BY <2>1, <2>2
<1>6. Match(l, vv)
    BY <1>2, <1>3, <1>4, <1>5 DEF Match
<1>. QED  BY <1>6 DEF vv

LEMMA WithoutReturn ==
    ASSUME NEW text \in Seq(Bytes), NEW f \in Nat, NEW n \in 1..Len(text), f < n,
           text[n] = CR
    PROVE  NoReturn(SubSeq(text, f + 1, n)) = SubSeq(text, f + 1, n - 1)
<1>. DEFINE long == SubSeq(text, f + 1, n)
            s == SubSeq(text, f + 1, n - 1)
<1>1. /\ long \in Seq(Bytes) /\ Len(long) = n - f
      /\ \A i \in 1..(n - f) : long[i] = text[f + i]
    BY SubIs
<1>2. /\ s \in Seq(Bytes) /\ Len(s) = n - 1 - f
      /\ \A i \in 1..(n - 1 - f) : s[i] = text[f + i]
    BY SubIs
<1>. HIDE DEF long, s
<1>3. long # <<>> /\ Last(long) = CR
    <2>1. n - f \in 1..(n - f) /\ f + (n - f) = n
        OBVIOUS
    <2>. QED  BY <1>1, <2>1 DEF Last
<1>4. Front(long) = s
    <2>1. /\ Front(long) \in Seq(Bytes) /\ Len(Front(long)) = n - f - 1
          /\ \A i \in 1..(n - f - 1) : Front(long)[i] = long[i]
        <3>1. Front(long) = SubSeq(long, 1, n - f - 1) /\ n - f - 1 \in 0..Len(long)
            BY <1>1 DEF Front
        <3>. QED  BY <1>1, <3>1
    <2>2. n - f - 1 = n - 1 - f /\ \A i \in 1..(n - 1 - f) : i \in 1..(n - f)
        OBVIOUS
    <2>. QED  BY <1>1, <1>2, <2>1, <2>2, SeqEqual
<1>5. NoReturn(long) = s
    BY <1>3, <1>4, Zenon DEF NoReturn
<1>. QED  BY <1>5 DEF long, s

(* Backwards in chunks or forwards by bytes: from each position the lines  *)
(* are the same.  The reader may have left out a carriage return before a  *)
(* line feed, never one that is a line of its own at the start of the text.*)
LEMMA ReadsWanted ==
    ASSUME NEW text \in Seq(Bytes), NEW cap \in Nat \ {0}
    PROVE  \A p \in 0..Len(text) :
              Match(LinesBefore(text, cap, p), Wanted(Forward(text)[p]))
<1>. DEFINE N == Len(text)
            next == NextLine(text, cap)
            found(p) == LinesBefore(text, cap, p)
            wanted(p) == Wanted(Forward(text)[p])
            S == {p \in Nat : p <= N => Match(found(p), wanted(p))}
<1>1. N \in Nat
    OBVIOUS
<1>2. /\ found(0) = <<>>
      /\ \A p \in 1..N : /\ next[p] \in Line /\ next[p].position < p
                         /\ found(p) = <<next[p]>> \o found(next[p].position)
      /\ \A p \in 0..N : found(p) \in Seq(Line)
    BY LinesAre
<1>3. ASSUME NEW p \in 1..N, NEW f \in 0..p, Begins(text, f, p)
      PROVE  IsLine(next[p], text, f, p)
    <2>1. p \in 0..N
        OBVIOUS
    <2>. QED  BY <1>3, <2>1, NextLineFinds
<1>4. ASSUME NEW p \in 1..N, NEW f \in 0..p, Begins(text, f, p)
      PROVE  /\ SubSeq(text, f + 1, p) \in Seq(Bytes)
             /\ (IF f = 0 THEN <<>> ELSE wanted(f - 1)) \in Seq(Seq(Bytes))
             /\ wanted(p) = <<SubSeq(text, f + 1, p)>> \o (IF f = 0 THEN <<>> ELSE wanted(f - 1))
    <2>1. SubSeq(text, f + 1, p) \in Seq(Bytes)
        BY SubIs
    <2>. QED  BY <1>4, <2>1, WantedFrom
<1>5. wanted(0) = <<>>
    <2>1. <<>> \in Seq(Bytes)
        OBVIOUS
    <2>2. /\ <<<<>>>> \in Seq(Seq(Bytes)) /\ Len(<<<<>>>>) = 1 /\ <<<<>>>>[1] = <<>>
        BY <2>1
    <2>3. Last(<<<<>>>>) = <<>> /\ Front(<<<<>>>>) = <<>>
        BY <2>2 DEF Last, Front
    <2>4. Forward(text)[0] = <<<<>>>>
        BY ForwardIs
    <2>. QED  BY <2>3, <2>4 DEF Wanted
<1>. HIDE DEF next, found, wanted
<1>6. ASSUME NEW p \in Nat, \A m \in Nat : m < p => m \in S PROVE p \in S
    <2>. SUFFICES ASSUME p <= N PROVE Match(found(p), wanted(p))
        OBVIOUS
    <2>1. CASE p = 0
        <3>1. <<>> \in Seq(Line) /\ <<>> \in Seq(Seq(Bytes)) /\ Len(<<>>) = 0
            OBVIOUS
        <3>2. Match(<<>>, <<>>)
            BY <3>1 DEF Match
        <3>. QED  BY <1>2, <1>5, <2>1, <3>2
    <2>2. CASE p # 0
        <3>1. p \in 1..N
            BY <2>2
        <3>2. PICK f \in 0..p : Begins(text, f, p)
            BY BeginsSomewhere
        <3>. DEFINE r == next[p]
                    q == next[p].position
                    s == SubSeq(text, f + 1, p)
        <3>3. /\ r \in Line /\ q \in Nat /\ q < p /\ q <= N
              /\ found(p) = <<r>> \o found(q) /\ Match(found(q), wanted(q))
            <4>1. r \in Line /\ q \in Nat /\ q < p /\ found(p) = <<r>> \o found(q)
                BY <1>2, <3>1 DEF Line
            <4>2. q <= N /\ q \in S
                BY <1>1, <1>6, <3>1, <4>1
            <4>. QED  BY <4>1, <4>2
        <3>4. /\ r.line = s
              /\ \/ q = IF f = 0 THEN 0 ELSE f - 1
                 \/ f > 2 /\ text[f - 1] = CR /\ q = f - 2
            BY <1>3, <3>1, <3>2 DEF IsLine
        <3>5. /\ s \in Seq(Bytes)
              /\ wanted(p) = <<s>> \o (IF f = 0 THEN <<>> ELSE wanted(f - 1))
            BY <1>4, <3>1, <3>2
        <3>. HIDE DEF r, q, s
        <3>6. Match(found(q), IF f = 0 THEN <<>> ELSE wanted(f - 1))
            <4>1. CASE q = IF f = 0 THEN 0 ELSE f - 1
                BY <1>5, <3>3, <4>1
            <4>2. CASE f > 2 /\ text[f - 1] = CR /\ q = f - 2
                <5>. DEFINE n == f - 1
                <5>1. /\ n \in 1..N /\ q \in 1..N /\ q = n - 1 /\ text[n] = CR /\ f # 0
                    BY <3>1, <4>2
                <5>2. PICK g \in 0..q : Begins(text, g, q)
                    BY <3>3, BeginsSomewhere
                <5>3. g \in 0..n /\ Begins(text, g, n) /\ g < n /\ g \in Nat
                    BY <5>1, <5>2 DEF Begins, CR, LF
                <5>. DEFINE w == IF g = 0 THEN <<>> ELSE wanted(g - 1)
                            short == SubSeq(text, g + 1, n - 1)
                            long == SubSeq(text, g + 1, n)
                <5>4. /\ short \in Seq(Bytes) /\ w \in Seq(Seq(Bytes))
                      /\ wanted(q) = <<short>> \o w
                    BY <1>4, <5>1, <5>2
                <5>5. long \in Seq(Bytes) /\ wanted(n) = <<long>> \o w
                    BY <1>4, <5>1, <5>3
                <5>6. NoReturn(long) = short
                    BY <5>1, <5>3, WithoutReturn
                <5>7. found(q)[1].line = short
                    <6>1. next[q].line = short
                        BY <1>3, <5>1, <5>2 DEF IsLine
                    <6>2. next[q].position \in 0..N
                        <7>1. next[q] \in Line /\ next[q].position < q
                            BY <1>2, <5>1
                        <7>2. next[q].position \in Nat
                            BY <7>1 DEF Line
                        <7>. QED  BY <1>1, <3>3, <7>1, <7>2
                    <6>3. found(next[q].position) \in Seq(Line) /\ next[q] \in Line
                        BY <1>2, <5>1, <6>2
                    <6>4. found(q)[1] = next[q]
                        <7>1. found(q) = <<next[q]>> \o found(next[q].position)
                            BY <1>2, <5>1
                        <7>2. (<<next[q]>> \o found(next[q].position))[1] = next[q]
                            BY <6>3, PushIs
                        <7>. QED  BY <7>1, <7>2, Zenon
                    <6>. QED  BY <6>1, <6>4
                <5>. HIDE DEF w, short, long, n
                <5>8. Match(found(q), <<long>> \o w)
                    BY <3>3, <5>4, <5>5, <5>6, <5>7, MatchReturn
                <5>. QED  BY <5>1, <5>5, <5>8 DEF n
            <4>. QED  BY <3>4, <4>1, <4>2
        <3>7. Match(<<r>> \o found(q), <<s>> \o (IF f = 0 THEN <<>> ELSE wanted(f - 1)))
            BY <3>3, <3>4, <3>5, <3>6, MatchPush
        <3>. QED  BY <3>3, <3>5, <3>7
    <2>. QED  BY <2>1, <2>2
<1>7. \A p \in Nat : p \in S
    <2>. HIDE DEF S
    <2>. QED  BY <1>6, Induction
<1>. QED  BY <1>7 DEF found, wanted

LEMMA SameLinesHold ==
    \A text \in Seq(Bytes), cap \in Nat \ {0} : SameLines(text, cap)
<1>. SUFFICES ASSUME NEW text \in Seq(Bytes), NEW cap \in Nat \ {0} PROVE SameLines(text, cap)
    OBVIOUS
<1>. DEFINE found == LinesBefore(text, cap, Len(text))
            wanted == LinesForward(text)
<1>1. Match(found, wanted)
    <2>1. Len(text) \in 0..Len(text)
        OBVIOUS
    <2>2. wanted = Wanted(Forward(text)[Len(text)])
        BY ForwardIs
    <2>. QED  BY <2>1, <2>2, ReadsWanted
<1>2. SameLines(text, cap)
        <=> /\ Len(found) = Len(wanted)
            /\ \A i \in DOMAIN found : found[i].line \in {wanted[i], NoReturn(wanted[i])}
    BY DEF SameLines
<1>. HIDE DEF found, wanted
<1>3. DOMAIN found = 1..Len(found)
    BY <1>1 DEF Match
<1>. QED  BY <1>1, <1>2, <1>3 DEF Match

-----------------------------------------------------------------------------
(* The log file, and the blocks of lines a page reads from it.             *)

(* The text of n events, and the lines found in it.                        *)
Log(text, n) ==
    /\ n \in 0..Len(Messages) /\ text \in Seq(Bytes) /\ Len(text) = 2 * n
    /\ \A k \in 1..n : text[2 * k - 1] = Messages[k] /\ text[2 * k] = LF
EventLine(k) == [line |-> <<Messages[k]>>, position |-> IF k = 1 THEN 0 ELSE 2 * k - 3]
EmptyLine(k) == [line |-> <<>>, position |-> 2 * k - 1]
Block(k, c) == [i \in 1..c |-> EventLine(k + 1 - i)]

(* Messages is a list of different bytes, none of them a line's end.       *)
LEMMA MessagesAre ==
    /\ Len(Messages) \in Nat /\ DOMAIN Messages = 1..Len(Messages)
    /\ \A k \in 1..Len(Messages) :
          /\ Messages[k] \in Bytes /\ Messages[k] # LF /\ Messages[k] # CR
          /\ EventLine(k) \in Line
    /\ \A k, l \in 1..Len(Messages) : Messages[k] = Messages[l] => k = l
<1>1. Messages \in Seq(STRING \ {LF, CR}) /\ IsInjective(Messages)
    BY LogPageAssumption
<1>2. /\ Len(Messages) \in Nat /\ DOMAIN Messages = 1..Len(Messages)
      /\ \A k \in 1..Len(Messages) : Messages[k] \in STRING \ {LF, CR}
    BY <1>1
<1>3. \A k \in 1..Len(Messages) : EventLine(k) \in Line
    <2>. SUFFICES ASSUME NEW k \in 1..Len(Messages) PROVE EventLine(k) \in Line
        OBVIOUS
    <2>1. <<Messages[k]>> \in Seq(Bytes)
        BY <1>2 DEF Bytes
    <2>2. (IF k = 1 THEN 0 ELSE 2 * k - 3) \in Nat
        OBVIOUS
    <2>. QED  BY <2>1, <2>2 DEF EventLine, Line
<1>. QED  BY <1>1, <1>2, <1>3 DEF IsInjective, Bytes

(* What the reader finds: an empty line before a line feed, else an event. *)
LEMMA NextLineIs ==
    ASSUME NEW text, NEW n, Log(text, n), NEW cap \in Nat \ {0}, NEW k \in 1..n
    PROVE  /\ NextLine(text, cap)[2 * k] = EmptyLine(k)
           /\ NextLine(text, cap)[2 * k - 1] = EventLine(k)
<1>. DEFINE next == NextLine(text, cap)
<1>1. /\ n \in Nat /\ Len(text) = 2 * n /\ text \in Seq(Bytes) /\ k \in 1..Len(Messages)
      /\ \A l \in 1..n : text[2 * l - 1] = Messages[l] /\ text[2 * l] = LF
      /\ \A l \in 1..n : Messages[l] # LF /\ Messages[l] # CR
    BY MessagesAre DEF Log
<1>2. \A p \in 0..Len(text) : \A f \in 0..p :
         Begins(text, f, p) => IsLine(next[p], text, f, p)
    BY <1>1, NextLineFinds
<1>. HIDE DEF next
<1>3. next[2 * k] = EmptyLine(k)
    <2>. DEFINE p == 2 * k
    <2>1. p \in 0..Len(text) /\ p # 0 /\ text[p] = LF /\ text[p - 1] # CR /\ p \in 0..p
        BY <1>1
    <2>. HIDE DEF p
    <2>2. IsLine(next[p], text, p, p)
        BY <1>2, <2>1 DEF Begins
    <2>3. next[p] \in Line /\ next[p].line = <<>> /\ next[p].position = p - 1
        BY <2>1, <2>2 DEF IsLine
    <2>. QED  BY <2>3 DEF EmptyLine, Line, p
<1>4. next[2 * k - 1] = EventLine(k)
    <2>. DEFINE f == 2 * k - 2
                p == 2 * k - 1
    <2>1. /\ p \in 0..Len(text) /\ f \in 0..p /\ p = f + 1 /\ text[p] = Messages[k]
          /\ f = 0 <=> k = 1
        BY <1>1
    <2>2. f # 0 => f > 1 /\ text[f] = LF /\ text[f - 1] # CR
        <3>. SUFFICES ASSUME f # 0 PROVE f > 1 /\ text[f] = LF /\ text[f - 1] # CR
            OBVIOUS
        <3>1. k - 1 \in 1..n /\ f = 2 * (k - 1) /\ f - 1 = 2 * (k - 1) - 1 /\ f > 1
            BY <1>1, <2>1
        <3>. HIDE DEF f
        <3>. QED  BY <1>1, <3>1
    <2>3. f - 1 = 2 * k - 3
        BY <1>1
    <2>. HIDE DEF f, p
    <2>4. Begins(text, f, p)
        <3>1. \A i \in (f + 1)..p : i = p
            BY <2>1
        <3>. QED  BY <1>1, <2>1, <2>2, <3>1 DEF Begins
    <2>5. IsLine(next[p], text, f, p)
        BY <1>2, <2>1, <2>4
    <2>6. SubSeq(text, f + 1, p) = <<Messages[k]>>
        <3>. DEFINE a == SubSeq(text, f + 1, p)
                    b == <<Messages[k]>>
        <3>1. a \in Seq(Bytes) /\ Len(a) = 1 /\ a[1] = Messages[k]
            <4>1. f \in Nat /\ p \in f..Len(text) /\ p - f = 1
                BY <2>1
            <4>2. /\ a \in Seq(Bytes) /\ Len(a) = p - f
                  /\ \A i \in 1..(p - f) : a[i] = text[f + i]
                BY <1>1, <4>1, SubIs
            <4>3. 1 \in 1..(p - f) /\ f + 1 = p
                BY <2>1, <4>1
            <4>. QED  BY <2>1, <4>1, <4>2, <4>3
        <3>2. b \in Seq(Bytes) /\ Len(b) = 1 /\ b[1] = Messages[k]
            BY <1>1, MessagesAre
        <3>. HIDE DEF a, b
        <3>3. a = b
            BY <3>1, <3>2, SeqEqual
        <3>. QED  BY <3>3 DEF a, b
    <2>7. /\ next[p] \in Line /\ next[p].line = <<Messages[k]>>
          /\ next[p].position = IF k = 1 THEN 0 ELSE 2 * k - 3
        BY <2>1, <2>2, <2>3, <2>5, <2>6 DEF IsLine
    <2>. QED  BY <2>7 DEF EventLine, Line, p
<1>. QED  BY <1>3, <1>4 DEF next

(* Blocks of lines, and how they are put together.                         *)
LEMMA BlockIs ==
    ASSUME NEW k \in 0..Len(Messages), NEW c \in 0..k
    PROVE  /\ Block(k, c) \in Seq(Line) /\ Len(Block(k, c)) = c /\ DOMAIN Block(k, c) = 1..c
           /\ \A i \in 1..c : Block(k, c)[i] = EventLine(k + 1 - i)
<1>1. c \in Nat /\ \A i \in 1..c : k + 1 - i \in 1..Len(Messages)
    BY MessagesAre
<1>2. \A i \in 1..c : EventLine(k + 1 - i) \in Line
    BY <1>1, MessagesAre
<1>3. Block(k, c) \in [1..c -> Line]
    BY <1>2 DEF Block
<1>4. Block(k, c) \in Seq(Line) /\ Len(Block(k, c)) = c
    BY <1>1, <1>3
<1>. QED  BY <1>4 DEF Block

LEMMA BlocksJoin ==
    ASSUME NEW k \in 0..Len(Messages), NEW c \in 0..k, NEW d \in 0..(k - c)
    PROVE  Block(k, c) \o Block(k - c, d) = Block(k, c + d)
<1>. DEFINE a == Block(k, c)
            b == Block(k - c, d)
            w == Block(k, c + d)
<1>0. Len(Messages) \in Nat /\ k \in Nat /\ c \in Nat /\ d \in Nat
    BY MessagesAre
<1>1. /\ a \in Seq(Line) /\ Len(a) = c /\ \A i \in 1..c : a[i] = EventLine(k + 1 - i)
    BY BlockIs
<1>2. /\ b \in Seq(Line) /\ Len(b) = d /\ \A i \in 1..d : b[i] = EventLine(k - c + 1 - i)
    <2>1. k - c \in 0..Len(Messages)
        BY <1>0
    <2>. HIDE DEF b
    <2>. QED  BY <2>1, BlockIs DEF b
<1>3. /\ w \in Seq(Line) /\ Len(w) = c + d /\ \A i \in 1..c + d : w[i] = EventLine(k + 1 - i)
    <2>1. c + d \in 0..k
        BY <1>0
    <2>. QED  BY <2>1, BlockIs
<1>. HIDE DEF a, b, w
<1>4. /\ a \o b \in Seq(Line) /\ Len(a \o b) = c + d
      /\ \A i \in 1..c + d : (a \o b)[i] = IF i <= c THEN a[i] ELSE b[i - c]
    BY <1>1, <1>2, ConcatProperties
<1>5. ASSUME NEW i \in 1..c + d PROVE (a \o b)[i] = w[i]
    <2>1. CASE i <= c
        BY <1>0, <1>1, <1>3, <1>4, <2>1
    <2>2. CASE ~(i <= c)
        <3>1. i - c \in 1..d /\ k - c + 1 - (i - c) = k + 1 - i
            BY <1>0, <2>2
        <3>. QED  BY <1>2, <1>3, <1>4, <2>2, <3>1
    <2>. QED  BY <2>1, <2>2
<1>. QED  BY <1>3, <1>4, <1>5, SeqEqual DEF a, b, w

LEMMA BlockCut ==
    ASSUME NEW k \in 0..Len(Messages), NEW c \in 0..k, NEW m \in 0..c
    PROVE  /\ SubSeq(Block(k, c), 1, m) = Block(k, m)
           /\ SubSeq(Block(k, c), m + 1, c) = Block(k - m, c - m)
<1>. DEFINE w == Block(k, c)
            a == Block(k, m)
            b == Block(k - m, c - m)
<1>0. Len(Messages) \in Nat /\ k \in Nat /\ c \in Nat /\ m \in Nat
    BY MessagesAre
<1>1. /\ a \in Seq(Line) /\ Len(a) = m /\ \A i \in 1..m : a[i] = EventLine(k + 1 - i)
    <2>1. m \in 0..k
        BY <1>0
    <2>. QED  BY <2>1, BlockIs
<1>2. /\ b \in Seq(Line) /\ Len(b) = c - m /\ \A i \in 1..c - m : b[i] = EventLine(k - m + 1 - i)
    <2>1. k - m \in 0..Len(Messages) /\ c - m \in 0..(k - m)
        BY <1>0
    <2>. HIDE DEF b
    <2>. QED  BY <2>1, BlockIs DEF b
<1>3. /\ w \in Seq(Line) /\ Len(w) = c /\ \A i \in 1..c : w[i] = EventLine(k + 1 - i)
    BY BlockIs
<1>. HIDE DEF a, b, w
<1>4. SubSeq(w, 1, m) = a
    <2>1. /\ SubSeq(w, 1, m) \in Seq(Line) /\ Len(SubSeq(w, 1, m)) = m
          /\ \A i \in 1..m : SubSeq(w, 1, m)[i] = w[i]
        BY <1>0, <1>3
    <2>. QED  BY <1>0, <1>1, <1>3, <2>1, SeqEqual
<1>5. SubSeq(w, m + 1, c) = b
    <2>1. /\ SubSeq(w, m + 1, c) \in Seq(Line) /\ Len(SubSeq(w, m + 1, c)) = c - m
          /\ \A i \in 1..c - m : SubSeq(w, m + 1, c)[i] = w[m + i]
        BY <1>0, <1>3
    <2>2. ASSUME NEW i \in 1..c - m PROVE SubSeq(w, m + 1, c)[i] = b[i]
        <3>1. m + i \in 1..c /\ k + 1 - (m + i) = k - m + 1 - i
            BY <1>0
        <3>. QED  BY <1>2, <1>3, <2>1, <3>1
    <2>. QED  BY <1>2, <2>1, <2>2, SeqEqual
<1>. QED  BY <1>4, <1>5 DEF a, b, w

LEMMA OneLine ==
    ASSUME NEW k \in 1..Len(Messages)
    PROVE  Block(k, 1) = <<EventLine(k)>> /\ Block(k, 0) = <<>> /\ EventLine(k).line # <<>>
<1>1. k \in 0..Len(Messages) /\ 1 \in 0..k /\ 0 \in 0..k /\ k + 1 - 1 = k
    BY MessagesAre
<1>2. Block(k, 1) = <<EventLine(k)>>
    <2>. DEFINE a == Block(k, 1)
                b == <<EventLine(k)>>
    <2>1. a \in Seq(Line) /\ Len(a) = 1 /\ a[1] = EventLine(k)
        <3>1. /\ a \in Seq(Line) /\ Len(a) = 1
              /\ \A i \in 1..1 : a[i] = EventLine(k + 1 - i)
            BY <1>1, BlockIs, Zenon
        <3>. HIDE DEF a
        <3>. QED  BY <1>1, <3>1
    <2>2. b \in Seq(Line) /\ Len(b) = 1 /\ b[1] = EventLine(k)
        BY MessagesAre
    <2>. HIDE DEF a, b
    <2>3. a = b
        BY <2>1, <2>2, SeqEqual
    <2>. QED  BY <2>3 DEF a, b
<1>3. Block(k, 0) = <<>>
    BY <1>1, BlockIs
<1>. QED  BY <1>2, <1>3 DEF EventLine

LEMMA NoBlock == Block(0, 0) = <<>>
<1>1. 0 \in 0..Len(Messages) /\ 0 \in 0..0
    BY MessagesAre
<1>2. Block(0, 0) \in Seq(Line) /\ Len(Block(0, 0)) = 0
    BY <1>1, BlockIs
<1>. QED  BY <1>2

Lines(k) == Block(k, k)

LEMMA LinesGrow ==
    ASSUME NEW k \in 1..Len(Messages)
    PROVE  <<EventLine(k)>> \o Lines(k - 1) = Lines(k)
<1>1. k \in 0..Len(Messages) /\ 1 \in 0..k /\ k - 1 \in 0..(k - 1) /\ 1 + (k - 1) = k
    BY MessagesAre
<1>2. Block(k, 1) \o Block(k - 1, k - 1) = Block(k, 1 + (k - 1))
    BY <1>1, BlocksJoin
<1>. QED  BY <1>1, <1>2, OneLine DEF Lines

(* The lines before a position: those of the events before it.             *)
LEMMA LinesBeforeAre ==
    ASSUME NEW text, NEW n, Log(text, n), NEW cap \in Nat \ {0}
    PROVE  /\ LinesBefore(text, cap, 0) = <<>>
           /\ \A k \in 1..n : /\ LinesBefore(text, cap, 2 * k - 1) = Lines(k)
                              /\ LinesBefore(text, cap, 2 * k) = <<EmptyLine(k)>> \o Lines(k)
<1>. DEFINE next == NextLine(text, cap)
            found(p) == LinesBefore(text, cap, p)
            S == {k \in Nat : k # 0 /\ k <= n => found(2 * k - 1) = Lines(k)}
<1>1. /\ n \in Nat /\ n <= Len(Messages) /\ Len(Messages) \in Nat
      /\ Len(text) = 2 * n /\ text \in Seq(Bytes)
    BY MessagesAre DEF Log
<1>2. /\ found(0) = <<>>
      /\ \A p \in 1..(2 * n) : found(p) = <<next[p]>> \o found(next[p].position)
    BY <1>1, LinesAre
<1>3. \A k \in 1..n : next[2 * k] = EmptyLine(k) /\ next[2 * k - 1] = EventLine(k)
    BY NextLineIs
<1>. HIDE DEF next, found
<1>4. ASSUME NEW k \in 1..n
      PROVE  /\ found(2 * k) = <<EmptyLine(k)>> \o found(2 * k - 1)
             /\ found(2 * k - 1)
                   = <<EventLine(k)>> \o found(IF k = 1 THEN 0 ELSE 2 * (k - 1) - 1)
    <2>1. 2 * k \in 1..(2 * n) /\ 2 * k - 1 \in 1..(2 * n) /\ 2 * (k - 1) - 1 = 2 * k - 3
        BY <1>1
    <2>2. /\ EmptyLine(k).position = 2 * k - 1
          /\ EventLine(k).position = IF k = 1 THEN 0 ELSE 2 * k - 3
        BY DEF EmptyLine, EventLine
    <2>3. found(2 * k) = <<EmptyLine(k)>> \o found(EmptyLine(k).position)
        BY <1>2, <1>3, <2>1
    <2>4. found(2 * k - 1) = <<EventLine(k)>> \o found(EventLine(k).position)
        BY <1>2, <1>3, <2>1
    <2>. QED  BY <2>1, <2>2, <2>3, <2>4
<1>5. ASSUME NEW k \in Nat, \A m \in Nat : m < k => m \in S PROVE k \in S
    <2>. SUFFICES ASSUME k # 0, k <= n PROVE found(2 * k - 1) = Lines(k)
        OBVIOUS
    <2>1. k \in 1..n /\ k \in 1..Len(Messages)
        BY <1>1
    <2>2. found(IF k = 1 THEN 0 ELSE 2 * (k - 1) - 1) = Lines(k - 1)
        <3>1. CASE k = 1
            BY <1>2, <3>1, NoBlock DEF Lines
        <3>2. CASE k # 1
            <4>1. k - 1 \in Nat /\ k - 1 < k /\ k - 1 # 0 /\ k - 1 <= n
                BY <1>1, <3>2
            <4>2. k - 1 \in S
                BY <1>5, <4>1
            <4>. QED  BY <3>2, <4>1, <4>2
        <3>. QED  BY <3>1, <3>2
    <2>. QED  BY <1>4, <2>1, <2>2, LinesGrow
<1>6. \A k \in Nat : k \in S
    <2>. HIDE DEF S
    <2>. QED  BY <1>5, Induction
<1>7. ASSUME NEW k \in 1..n PROVE found(2 * k - 1) = Lines(k)
    <2>1. k \in Nat /\ k # 0 /\ k <= n /\ k \in S
        BY <1>1, <1>6
    <2>. QED  BY <2>1
<1>8. ASSUME NEW k \in 1..n PROVE found(2 * k) = <<EmptyLine(k)>> \o Lines(k)
    BY <1>4, <1>7
<1>. QED  BY <1>2, <1>7, <1>8 DEF found

(* get_trace_log, before an event and at the end of the file.              *)
Fewer(k, max) == IF k < max THEN k ELSE max

LEMMA LogReads ==
    ASSUME NEW n, Log(file, n)
    PROVE  /\ get_log(0) = <<>>
           /\ \A k \in 1..n : get_log(2 * k - 1) = Block(k, Fewer(k, Chunk))
           /\ n # 0 => get_log(2 * n) = <<EmptyLine(n)>> \o Block(n, Fewer(n, Chunk - 1))
<1>1. /\ n \in Nat /\ n \in 0..Len(Messages) /\ Len(Messages) \in Nat
      /\ Cap \in Nat \ {0} /\ Chunk \in Nat /\ Chunk > 1
    BY LogPageAssumption, MessagesAre DEF Log
<1>2. /\ LinesBefore(file, Cap, 0) = <<>>
      /\ \A k \in 1..n : /\ LinesBefore(file, Cap, 2 * k - 1) = Lines(k)
                         /\ LinesBefore(file, Cap, 2 * k) = <<EmptyLine(k)>> \o Lines(k)
    BY <1>1, LinesBeforeAre
<1>. DEFINE Reads(lines) == SubSeq(lines, 1, IF Len(lines) < Chunk THEN Len(lines) ELSE Chunk)
<1>3. \A pos : get_log(pos) = Reads(LinesBefore(file, Cap, pos))
    BY DEF get_log
<1>4. get_log(0) = <<>>
    <2>1. get_log(0) = Reads(<<>>)
        BY <1>2, <1>3
    <2>2. Reads(<<>>) = SubSeq(<<>>, 1, 0)
        BY <1>1
    <2>3. SubSeq(<<>>, 1, 0) = <<>>
        BY SubSeqEmpty
    <2>. HIDE DEF Reads
    <2>. QED  BY <2>1, <2>2, <2>3
<1>5. ASSUME NEW k \in 1..n PROVE get_log(2 * k - 1) = Block(k, Fewer(k, Chunk))
    <2>1. k \in 0..Len(Messages) /\ k \in 0..k /\ Fewer(k, Chunk) \in 0..k
        BY <1>1 DEF Fewer
    <2>2. Len(Block(k, k)) = k
        BY <2>1, BlockIs
    <2>3. Reads(Lines(k)) = SubSeq(Block(k, k), 1, Fewer(k, Chunk))
        BY <2>2 DEF Lines, Fewer
    <2>. HIDE DEF Reads
    <2>. QED  BY <1>2, <1>3, <2>1, <2>3, BlockCut
<1>6. ASSUME n # 0 PROVE get_log(2 * n) = <<EmptyLine(n)>> \o Block(n, Fewer(n, Chunk - 1))
    <2>. DEFINE c == Fewer(n, Chunk - 1)
                e == <<EmptyLine(n)>>
                a == Block(n, n)
                b == Block(n, c)
    <2>1. n \in 0..Len(Messages) /\ n \in 0..n /\ c \in 0..n /\ n \in 1..n
        BY <1>1, <1>6 DEF Fewer
    <2>2. /\ e \in Seq(Line) /\ Len(e) = 1
        <3>1. EmptyLine(n) \in Line
            <4>1. <<>> \in Seq(Bytes) /\ 2 * n - 1 \in Nat
                BY <2>1
            <4>. QED  BY <4>1 DEF EmptyLine, Line
        <3>. QED  BY <3>1
    <2>3. a \in Seq(Line) /\ Len(a) = n
        BY <2>1, BlockIs
    <2>4. b \in Seq(Line) /\ Len(b) = c /\ b = SubSeq(a, 1, c)
        BY <2>1, BlockIs, BlockCut
    <2>5. c + 1 = IF n + 1 < Chunk THEN n + 1 ELSE Chunk
        BY <1>1 DEF Fewer
    <2>6. get_log(2 * n) = Reads(e \o a)
        <3>. HIDE DEF Reads
        <3>. QED  BY <1>2, <1>3, <2>1 DEF Lines
    <2>. HIDE DEF a, b, c, e
    <2>7. /\ e \o a \in Seq(Line) /\ Len(e \o a) = n + 1
          /\ \A i \in 1..n + 1 : (e \o a)[i] = IF i <= 1 THEN e[i] ELSE a[i - 1]
        <3>1. /\ e \o a \in Seq(Line) /\ Len(e \o a) = Len(e) + Len(a)
              /\ \A i \in 1..Len(e) + Len(a) :
                    (e \o a)[i] = IF i <= Len(e) THEN e[i] ELSE a[i - Len(e)]
            BY <2>2, <2>3, ConcatProperties
        <3>2. Len(e) + Len(a) = n + 1
            BY <1>1, <2>2, <2>3
        <3>. QED  BY <2>2, <3>1, <3>2
    <2>8. /\ e \o b \in Seq(Line) /\ Len(e \o b) = c + 1
          /\ \A i \in 1..c + 1 : (e \o b)[i] = IF i <= 1 THEN e[i] ELSE b[i - 1]
        <3>1. /\ e \o b \in Seq(Line) /\ Len(e \o b) = Len(e) + Len(b)
              /\ \A i \in 1..Len(e) + Len(b) :
                    (e \o b)[i] = IF i <= Len(e) THEN e[i] ELSE b[i - Len(e)]
            BY <2>2, <2>4, ConcatProperties
        <3>2. Len(e) + Len(b) = c + 1
            BY <1>1, <2>1, <2>2, <2>4
        <3>. QED  BY <2>2, <3>1, <3>2
    <2>9. Reads(e \o a) = SubSeq(e \o a, 1, c + 1)
        BY <2>5, <2>7
    <2>10. SubSeq(e \o a, 1, c + 1) = e \o b
        <3>. DEFINE s == e \o a
                    t == e \o b
                    u == SubSeq(s, 1, c + 1)
        <3>0. c + 1 \in 0..n + 1 /\ c \in Nat
            BY <1>1, <2>1
        <3>1. u \in Seq(Line) /\ Len(u) = c + 1 /\ \A i \in 1..c + 1 : u[i] = s[i]
            <4>. HIDE DEF s
            <4>. QED  BY <1>1, <2>7, <3>0 DEF s
        <3>2. ASSUME NEW i \in 1..c + 1 PROVE s[i] = t[i]
            <4>1. i \in 1..n + 1
                BY <1>1, <3>0
            <4>2. CASE i <= 1
                BY <2>7, <2>8, <4>1, <4>2
            <4>3. CASE ~(i <= 1)
                <5>1. i - 1 \in 1..c /\ i - 1 \in 1..n /\ 1 + (i - 1) - 1 = i - 1
                    BY <1>1, <2>1, <4>1, <4>3
                <5>2. b[i - 1] = a[i - 1]
                    BY <1>1, <2>1, <2>3, <2>4, <5>1
                <5>. QED  BY <2>7, <2>8, <4>1, <4>3, <5>2
            <4>. QED  BY <4>2, <4>3
        <3>. HIDE DEF s, t, u
        <3>3. u = t
            <4>1. t \in Seq(Line) /\ Len(t) = c + 1
                BY <2>8 DEF t
            <4>. QED  BY <3>1, <3>2, <4>1, SeqEqual
        <3>. QED  BY <3>3 DEF s, t, u
    <2>11. get_log(2 * n) = e \o b
        <3>. HIDE DEF Reads
        <3>. QED  BY <2>6, <2>9, <2>10
    <2>. QED  BY <2>11 DEF e, b, c
<1>. QED  BY <1>4, <1>5, <1>6

(* Of a list that has none of the set, nothing is taken.                   *)
LEMMA WithoutNone ==
    ASSUME NEW S, NEW list \in Seq(S), NEW set, \A i \in 1..Len(list) : list[i] \notin set
    PROVE  Without(list, set) = list
<1>. DEFINE Rest(h, n) == IF n = 0 THEN <<>>
                          ELSE IF list[n] \in set THEN h[n - 1] ELSE Append(h[n - 1], list[n])
            IsKept(h) == h = [n \in 0..Len(list) |-> Rest(h, n)]
            f == CHOOSE h : IsKept(h)
            g == [n \in 0..Len(list) |-> SubSeq(list, 1, n)]
<1>1. Len(list) \in Nat
    OBVIOUS
<1>2. SubSeq(list, 1, 0) = <<>>
    BY SubSeqEmpty
<1>3. ASSUME NEW n \in 1..Len(list)
      PROVE  SubSeq(list, 1, n) = Append(SubSeq(list, 1, n - 1), list[n])
    <2>. DEFINE a == SubSeq(list, 1, n)
                b == SubSeq(list, 1, n - 1)
                e == Append(b, list[n])
    <2>1. a \in Seq(S) /\ Len(a) = n /\ \A i \in 1..n : a[i] = list[i]
        BY <1>1
    <2>2. b \in Seq(S) /\ Len(b) = n - 1 /\ \A i \in 1..n - 1 : b[i] = list[i]
        BY <1>1
    <2>3. list[n] \in S
        BY <1>1
    <2>. HIDE DEF a, b
    <2>4. e \in Seq(S) /\ Len(e) = n /\ \A i \in 1..n : e[i] = list[i]
        BY <1>1, <2>2, <2>3
    <2>. HIDE DEF e
    <2>5. a = e
        BY <2>1, <2>4, SeqEqual
    <2>. QED  BY <2>5 DEF a, b, e
<1>4. g[0] = <<>> /\ \A n \in 1..Len(list) : g[n] = Append(g[n - 1], list[n])
    <2>1. \A n \in 1..Len(list) : n - 1 \in 0..Len(list) /\ n \in 0..Len(list)
        BY <1>1
    <2>. QED  BY <1>1, <1>2, <1>3, <2>1
<1>5. DOMAIN g = 0..Len(list) /\ g = [n \in 0..Len(list) |-> g[n]] /\ g[Len(list)] = list
    BY <1>1, SubSeqFull
<1>. HIDE DEF g
<1>6. ASSUME NEW h
       PROVE  /\ Rest(h, 0) = <<>>
              /\ \A n \in 1..Len(list) : Rest(h, n) = Append(h[n - 1], list[n])
    <2>1. ASSUME NEW n \in 1..Len(list) PROVE Rest(h, n) = Append(h[n - 1], list[n])
        <3>1. n # 0 /\ list[n] \notin set
            BY <1>1
        <3>. QED  BY <3>1, Zenon
    <2>. QED  BY <2>1
<1>7. IsKept(g)
    <2>1. ASSUME NEW n \in 0..Len(list) PROVE g[n] = Rest(g, n)
        <3>1. /\ Rest(g, 0) = <<>>
              /\ \A m \in 1..Len(list) : Rest(g, m) = Append(g[m - 1], list[m])
            BY <1>6, Zenon
        <3>2. n = 0 \/ n \in 1..Len(list)
            BY <1>1
        <3>. QED  BY <1>4, <3>1, <3>2, Zenon
    <2>. HIDE DEF Rest
    <2>. QED  BY <1>5, <2>1
<1>8. IsKept(f)
    <2>. HIDE DEF IsKept
    <2>. QED  BY <1>7, Zenon
<1>9. Without(list, set) = f[Len(list)]
    BY DEF Without
<1>10. \A n \in 0..Len(list) : f[n] = Rest(f, n)
    <2>. HIDE DEF f, Rest
    <2>. QED  BY <1>8
<1>. HIDE DEF f
<1>11. f[0] = <<>> /\ \A n \in 1..Len(list) : f[n] = Append(f[n - 1], list[n])
    <2>1. f[0] = Rest(f, 0) /\ \A n \in 1..Len(list) : f[n] = Rest(f, n)
        <3>1. 0 \in 0..Len(list) /\ \A n \in 1..Len(list) : n \in 0..Len(list)
            BY <1>1
        <3>. QED  BY <1>10, <3>1, Zenon
    <2>2. /\ Rest(f, 0) = <<>>
          /\ \A m \in 1..Len(list) : Rest(f, m) = Append(f[m - 1], list[m])
        BY <1>6, Zenon
    <2>. QED  BY <2>1, <2>2, Zenon
<1>. DEFINE I == {n \in Nat : n <= Len(list) => f[n] = g[n]}
<1>12. ASSUME NEW n \in Nat, \A m \in Nat : m < n => m \in I PROVE n \in I
    <2>1. CASE n = 0
        BY <1>4, <1>11, <2>1
    <2>2. CASE n # 0 /\ n <= Len(list)
        <3>1. n - 1 \in I /\ n - 1 <= Len(list) /\ n \in 1..Len(list)
            BY <1>1, <1>12, <2>2
        <3>2. f[n - 1] = g[n - 1]
            BY <3>1
        <3>3. f[n] = g[n]
            BY <1>4, <1>11, <3>1, <3>2
        <3>. QED  BY <3>3
    <2>. QED  BY <2>1, <2>2
<1>13. \A n \in Nat : n \in I
    <2>. HIDE DEF I
    <2>. QED  BY <1>12, Induction
<1>. QED  BY <1>1, <1>5, <1>9, <1>13

(* What get_log returns at the end of a file of n events.                  *)
LastChunk(n) ==
    IF n = 0 THEN <<>> ELSE <<EmptyLine(n)>> \o Block(n, Fewer(n, Chunk - 1))

LEMMA LastChunkIs ==
    ASSUME NEW n \in 1..Len(Messages), NEW c, c = Fewer(n, Chunk - 1)
    PROVE  /\ c \in 1..n /\ c + 1 <= Chunk /\ (c + 1 < Chunk => c = n)
           /\ Len(LastChunk(n)) = c + 1
           /\ SelectInSeq(LastChunk(n), LAMBDA l : l.line # <<>>) = 2
           /\ SubSeq(LastChunk(n), 2, c + 1) = Block(n, c)
<1>. DEFINE e == <<EmptyLine(n)>>
            b == Block(n, c)
            s == LastChunk(n)
<1>1. /\ c \in 1..n /\ c + 1 <= Chunk /\ (c + 1 < Chunk => c = n) /\ c \in Nat
      /\ n \in Nat /\ n \in 0..Len(Messages) /\ c \in 0..n /\ n # 0
    BY LogPageAssumption, MessagesAre DEF Fewer
<1>2. /\ e \in Seq(Line) /\ Len(e) = 1 /\ e[1] = EmptyLine(n) /\ EmptyLine(n) \in Line
    <2>1. EmptyLine(n) \in Line
        <3>1. <<>> \in Seq(Bytes) /\ 2 * n - 1 \in Nat
            BY <1>1
        <3>. QED  BY <3>1 DEF EmptyLine, Line
    <2>. QED  BY <2>1
<1>3. b \in Seq(Line) /\ Len(b) = c /\ \A i \in 1..c : b[i] = EventLine(n + 1 - i)
    BY <1>1, BlockIs
<1>4. s = e \o b
    BY <1>1 DEF LastChunk
<1>. HIDE DEF e, b, s
<1>5. /\ s \in Seq(Line) /\ Len(s) = c + 1 /\ s[1] = EmptyLine(n)
      /\ \A i \in 1..c : s[i + 1] = b[i]
    <2>1. /\ e \o b \in Seq(Line) /\ Len(e \o b) = Len(e) + Len(b)
          /\ \A i \in 1..Len(e) + Len(b) : (e \o b)[i] = IF i <= Len(e) THEN e[i] ELSE b[i - Len(e)]
        BY <1>2, <1>3, ConcatProperties
    <2>2. /\ Len(e) + Len(b) = c + 1 /\ 1 \in 1..c + 1
          /\ \A i \in 1..c : i + 1 \in 1..c + 1 /\ ~(i + 1 <= 1) /\ i + 1 - 1 = i
        BY <1>1, <1>2, <1>3
    <2>. QED  BY <1>2, <1>4, <2>1, <2>2
<1>6. SelectInSeq(s, LAMBDA l : l.line # <<>>) = 2
    <2>. DEFINE I == {i \in 1..Len(s) : s[i].line # <<>>}
    <2>1. 1 \notin I
        BY <1>5 DEF EmptyLine
    <2>2. 2 \in I
        <3>1. 1 \in 1..c /\ 1 + 1 = 2 /\ 2 \in 1..c + 1 /\ n + 1 - 1 = n
            BY <1>1
        <3>2. s[2] = EventLine(n)
            BY <1>3, <1>5, <3>1
        <3>. QED  BY <1>5, <3>1, <3>2, OneLine
    <2>3. \A i \in I : i \in Nat /\ i # 0
        BY <1>1, <1>5
    <2>4. SelectInSeq(s, LAMBDA l : l.line # <<>>) = IF I # {} THEN Min(I) ELSE 0
        BY DEF SelectInSeq
    <2>. HIDE DEF I
    <2>5. \A i \in I : 2 <= i
        BY <2>1, <2>3
    <2>6. Min(I) \in I /\ \A i \in I : Min(I) <= i
        BY <2>2, <2>5, Zenon DEF Min
    <2>. QED  BY <2>2, <2>3, <2>4, <2>5, <2>6
<1>7. SubSeq(s, 2, c + 1) = b
    <2>. DEFINE u == SubSeq(s, 2, c + 1)
    <2>1. u \in Seq(Line) /\ Len(u) = c /\ \A i \in 1..c : u[i] = s[i + 1]
        BY <1>1, <1>5
    <2>. HIDE DEF u
    <2>2. u = b
        BY <1>3, <1>5, <2>1, SeqEqual
    <2>. QED  BY <2>2 DEF u
<1>. QED  BY <1>1, <1>5, <1>6, <1>7 DEF s, b

Text == Seq(Bytes)

(* What came meanwhile is of two bytes, what the file has of one.          *)
LEMMA EventText ==
    ASSUME NEW k \in 1..Len(Messages)
    PROVE  /\ EventLine(k).line \in Text /\ Len(EventLine(k).line) = 1
           /\ EventLine(k).line # <<>> /\ EventLine(k).line[1] = Messages[k]
<1>1. Messages[k] \in Bytes
    BY MessagesAre
<1>. QED  BY <1>1 DEF EventLine, Text

(* What Merge makes of a chunk: its lines from the first that is not       *)
(* empty, and how many of them are shown.                                  *)
FirstOf(chunk) == SelectInSeq(chunk, LAMBDA l : l.line # <<>>)
MessagesOf(chunk) ==
    IF FirstOf(chunk) = 0 THEN <<>> ELSE SubSeq(chunk, FirstOf(chunk), Len(chunk))
RecentOf(messages, split) == Reverse([i \in 1..split |-> messages[i].line])
SplitOf(chunk) ==
    IF Len(chunk) < Chunk THEN Len(MessagesOf(chunk)) ELSE Len(MessagesOf(chunk)) \div 2

LEMMA MergeSplits ==
    ASSUME NEW n \in 0..Len(Messages)
    PROVE  \E c \in 0..n : /\ MessagesOf(LastChunk(n)) = Block(n, c)
                           /\ SplitOf(LastChunk(n)) \in 0..c
                           /\ SplitOf(LastChunk(n)) = c => n = c
<1>. DEFINE first == FirstOf(LastChunk(n))
            messages == MessagesOf(LastChunk(n))
            split == SplitOf(LastChunk(n))
<1>1. /\ messages = IF first = 0 THEN <<>> ELSE SubSeq(LastChunk(n), first, Len(LastChunk(n)))
      /\ split = IF Len(LastChunk(n)) < Chunk THEN Len(messages) ELSE Len(messages) \div 2
    BY DEF MessagesOf, SplitOf
<1>2. Len(Messages) \in Nat /\ n \in Nat /\ Chunk \in Nat /\ Chunk > 1
    BY LogPageAssumption, MessagesAre
<1>3. CASE n = 0
    <2>1. LastChunk(n) = <<>> /\ Len(LastChunk(n)) = 0
        BY <1>3 DEF LastChunk
    <2>2. first = 0
        BY <2>1 DEF SelectInSeq, FirstOf
    <2>. HIDE DEF first, messages, split
    <2>3. messages = <<>> /\ split = 0
        BY <1>2, <1>1, <2>1, <2>2
    <2>4. messages = Block(n, 0)
        BY <1>3, <2>3, NoBlock, Zenon
    <2>5. 0 \in 0..0
        OBVIOUS
    <2>. QED  BY <1>3, <2>3, <2>4, <2>5, Zenon DEF messages, split
<1>4. CASE n # 0
    <2>. DEFINE c == Fewer(n, Chunk - 1)
    <2>1. n \in 1..Len(Messages)
        BY <1>2, <1>4
    <2>2. /\ c \in 1..n /\ c + 1 <= Chunk /\ (c + 1 < Chunk => c = n)
          /\ Len(LastChunk(n)) = c + 1
          /\ SelectInSeq(LastChunk(n), LAMBDA l : l.line # <<>>) = 2
          /\ SubSeq(LastChunk(n), 2, c + 1) = Block(n, c)
        BY <2>1, LastChunkIs
    <2>. HIDE DEF c
    <2>3. first = 2
        BY <2>2, Zenon DEF FirstOf
    <2>. HIDE DEF first, messages, split
    <2>4. messages = Block(n, c)
        BY <1>1, <2>2, <2>3
    <2>5. n \in 0..Len(Messages) /\ c \in 0..n /\ c \in Nat
        BY <1>2, <2>2
    <2>6. Len(messages) = c
        BY <2>4, <2>5, BlockIs
    <2>7. split = IF c + 1 < Chunk THEN c ELSE c \div 2
        BY <1>1, <2>2, <2>6
    <2>8. split \in 0..c /\ (split = c => n = c)
        <3>1. c \div 2 \in 0..c /\ c \div 2 # c
            BY <2>2, <2>5
        <3>. QED  BY <2>2, <2>5, <2>7, <3>1
    <2>. QED  BY <2>4, <2>5, <2>8 DEF messages, split
<1>. QED  BY <1>3, <1>4

(* Merge puts the younger lines read before what came meanwhile, and keeps *)
(* the others apart: none is lost, and of a file with lines one is kept or *)
(* all are shown.                                                          *)
LEMMA Merges ==
    ASSUME NEW n \in 0..Len(Messages), NEW new \in Seq(Text), \A i \in DOMAIN new : Len(new[i]) = 2,
           NEW c \in 0..n, NEW split \in 0..c, split = c => n = c
    PROVE  /\ split \in 0..n /\ c - split \in 0..(n - split) /\ (c - split = 0 => n - split = 0)
           /\ SubSeq(Block(n, c), split + 1, Len(Block(n, c))) = Block(n - split, c - split)
           /\ Without(RecentOf(Block(n, c), split), ToSet(new)) = RecentOf(Block(n, c), split)
           /\ RecentOf(Block(n, c), split) \in Seq(Text)
           /\ Len(RecentOf(Block(n, c), split)) = split
           /\ \A i \in 1..split : RecentOf(Block(n, c), split)[i] = EventLine(n - split + i).line
<1>. DEFINE messages == Block(n, c)
            recent == RecentOf(messages, split)
<1>1. messages = Block(n, c) /\ recent = RecentOf(messages, split)
    OBVIOUS
<1>. HIDE DEF messages, recent
<1>2. Len(Messages) \in Nat /\ n \in Nat /\ Chunk \in Nat /\ Chunk > 1
    BY LogPageAssumption, MessagesAre
<1>3. c \in Nat /\ split \in Nat /\ split <= c /\ c <= n /\ n \in 0..Len(Messages)
    BY <1>2
<1>4. /\ Len(messages) = c /\ \A i \in 1..c : messages[i] = EventLine(n + 1 - i)
      /\ SubSeq(messages, split + 1, c) = Block(n - split, c - split)
    BY <1>3, <1>1, BlockIs, BlockCut
<1>5. /\ split \in 0..n /\ c - split \in 0..(n - split) /\ (c - split = 0 => n - split = 0)
    BY <1>3, <1>2
<1>6. /\ recent \in Seq(Text) /\ Len(recent) = split
      /\ \A i \in 1..split : recent[i] = EventLine(n - split + i).line
    <2>. DEFINE s == [i \in 1..split |-> messages[i].line]
                r == [i \in 1..split |-> s[split - i + 1]]
    <2>1. Len(s) = split
        BY <1>3
    <2>2. recent = r
        BY <1>1, <2>1 DEF Reverse, RecentOf
    <2>3. ASSUME NEW i \in 1..split PROVE r[i] = EventLine(n - split + i).line /\ r[i] \in Text
        <3>1. /\ split - i + 1 \in 1..split /\ split - i + 1 \in 1..c
              /\ n + 1 - (split - i + 1) = n - split + i /\ n - split + i \in 1..Len(Messages)
            BY <1>2, <1>3
        <3>2. r[i] = messages[split - i + 1].line
            BY <3>1
        <3>3. messages[split - i + 1] = EventLine(n - split + i)
            BY <1>4, <3>1
        <3>. HIDE DEF r
        <3>. QED  BY <3>1, <3>2, <3>3, EventText
    <2>4. r \in Seq(Text) /\ Len(r) = split
        <3>1. r \in [1..split -> Text]
            <4>1. r = [i \in 1..split |-> r[i]]
                OBVIOUS
            <4>. HIDE DEF r
            <4>. QED  BY <2>3, <4>1
        <3>. HIDE DEF r
        <3>. QED  BY <1>3, <3>1
    <2>. HIDE DEF r
    <2>. QED  BY <2>2, <2>3, <2>4
<1>7. Without(recent, ToSet(new)) = recent
    <2>1. ASSUME NEW i \in 1..Len(recent) PROVE recent[i] \notin ToSet(new)
        <3>1. n - split + i \in 1..Len(Messages) /\ recent[i] = EventLine(n - split + i).line
            BY <1>2, <1>3, <1>6
        <3>2. Len(recent[i]) = 1
            BY <3>1, EventText
        <3>. SUFFICES ASSUME NEW j \in DOMAIN new, new[j] = recent[i] PROVE FALSE
            BY Zenon DEF ToSet
        <3>3. Len(new[j]) = 2
            OBVIOUS
        <3>4. Len(new[j]) = Len(recent[i])
            BY Zenon
        <3>5. 1 # 2
            OBVIOUS
        <3>. QED  BY <3>2, <3>3, <3>4, <3>5, Zenon
    <2>. QED  BY <1>6, <2>1, WithoutNone
<1>. QED  BY <1>4, <1>5, <1>6, <1>7 DEF messages, recent

-----------------------------------------------------------------------------
(* The invariant of loading.                                               *)
Fields == {"pc", "open", "id", "logger", "chunk", "new", "old", "end"}

(* Event n is shown by a page, or on its way to it.                        *)
Seen(r, n) == \E i \in DOMAIN r.new : r.new[i] # <<>> /\ r.new[i][1] = Messages[n]
Coming(p, r, n) == Messages[n] \in tasks \/ <<p, Messages[n]>> \in posts \/ Seen(r, n)

Loads(p, r) ==
    /\ r.new \in Seq(Text)
    /\ r.pc # "ready" => ~r.end /\ \A i \in DOMAIN r.new : Len(r.new[i]) = 2
    /\ r.pc = "merge" =>
          \E k \in 0..logged : /\ r.chunk = LastChunk(k)
                               /\ \A n \in (k + 1)..logged : Coming(p, r, n)
    /\ r.pc = "ready" =>
          \E k \in 0..logged : \E c \in 0..k :
             /\ r.old = Block(k, c) /\ (c = 0 => k = 0)
             /\ r.end => k - c < Chunk
             /\ \A n \in (k + 1)..logged : Coming(p, r, n)

Record(r) ==
    /\ Fields \subseteq DOMAIN r
    /\ r.open /\ r.pc \in Loaded => r.logger # NoLogger

Live(r) == r.open \/ r.pc = "unopened"

LoadInv ==
    /\ Log(file, logged)
    /\ \A p \in Pages : Record(page[p]) /\ (~shared /\ Live(page[p]) => Loads(p, page[p]))

LEMMA InitLoad == Init => LoadInv
<1>. SUFFICES ASSUME Init PROVE LoadInv
    OBVIOUS
<1>1. Log(file, logged)
    <2>1. file = <<>> /\ logged = 0
        BY DEF Init
    <2>2. <<>> \in Seq(Bytes) /\ Len(<<>>) = 0
        OBVIOUS
    <2>. QED  BY <2>1, <2>2, MessagesAre DEF Log
<1>2. Record(Unopened) /\ \A p : Loads(p, Unopened)
    <2>1. Fields \subseteq DOMAIN Unopened /\ Unopened.pc = "unopened" /\ Unopened.new = <<>>
          /\ Unopened.open = FALSE /\ Unopened.end = FALSE
        BY DEF Unopened, Fields
    <2>2. <<>> \in Seq(Text) /\ DOMAIN <<>> = {}
        OBVIOUS
    <2>. QED  BY <2>1, <2>2 DEF Record, Loads
<1>3. \A p \in Pages : page[p] = Unopened
    BY DEF Init
<1>. QED  BY <1>1, <1>2, <1>3 DEF LoadInv

(* A page's step that moves no event.                                      *)
LEMMA MovesLoad ==
    ASSUME Inv, LoadInv, NEW p \in Pages, NEW x, page' = [page EXCEPT ![p] = x],
           UNCHANGED <<file, logged, tasks, posts>>, shared => shared',
           Record(x), ~shared /\ Live(x) => Loads(p, x)
    PROVE  LoadInv'
<1>1. /\ DOMAIN page' = Pages /\ page'[p] = x /\ \A q \in Pages \ {p} : page'[q] = page[q]
    BY Becomes, InvFields
<1>2. Log(file, logged)'
    BY DEF LoadInv, Log
<1>3. ASSUME NEW q \in Pages
      PROVE  Record(page[q])' /\ (~shared' /\ Live(page[q])' => Loads(q, page[q])')
    <2>1. CASE q = p
        BY <1>1, <2>1 DEF Record, Live, Loads, Coming
    <2>2. CASE q # p
        <3>1. page'[q] = page[q]
            BY <1>1, <2>2
        <3>2. Record(page[q]) /\ (~shared /\ Live(page[q]) => Loads(q, page[q]))
            BY DEF LoadInv
        <3>. QED  BY <3>1, <3>2 DEF Record, Live, Loads, Coming
    <2>. QED  BY <2>1, <2>2
<1>. QED  BY <1>2, <1>3 DEF LoadInv

LEMMA LoadFields ==
    ASSUME LoadInv, NEW p \in Pages
    PROVE  /\ Fields \subseteq DOMAIN page[p]
           /\ page[p].open /\ page[p].pc \in Loaded => page[p].logger # NoLogger
           /\ ~shared /\ Live(page[p]) => Loads(p, page[p])
BY DEF LoadInv, Record

(* A registration's step, and the end of one.                              *)
LEMMA RegistrationLoad ==
    ASSUME Inv, LoadInv, NEW p \in Pages,
           Open(p) \/ RegisterLoadId(p) \/ RegisterPush(p) \/ RegisterBump(p) \/ Registered(p)
    PROVE  LoadInv'
<1>1. PICK x :
         /\ page' = [page EXCEPT ![p] = x] /\ UNCHANGED <<file, logged, tasks, posts>>
         /\ shared => shared'
         /\ Fields \subseteq DOMAIN x /\ x.new = page[p].new /\ page[p].pc # "ready"
         /\ x.end = page[p].end
         /\ Live(x) => Live(page[p])
         /\ x.pc \notin {"merge", "ready"} /\ (x.pc \in Loaded => x.logger # NoLogger)
    <2>1. CASE Open(p)
        <3>. DEFINE x == [page[p] EXCEPT !.pc = "load id", !.open = TRUE]
        <3>1. /\ page[p].pc = "unopened" /\ page' = [page EXCEPT ![p] = x]
              /\ UNCHANGED <<file, logged, tasks, posts>> /\ (shared => shared')
            BY <2>1, Zenon DEF Open
        <3>2. Fields \subseteq DOMAIN x /\ x.new = page[p].new /\ x.pc = "load id"
              /\ x.end = page[p].end
            BY LoadFields DEF Fields
        <3>. HIDE DEF x
        <3>. QED  BY <3>1, <3>2 DEF Loaded, Live
    <2>2. CASE RegisterLoadId(p)
        <3>. DEFINE x == [page[p] EXCEPT !.pc = "push", !.id = next_id]
        <3>1. /\ page[p].pc = "load id" /\ page' = [page EXCEPT ![p] = x]
              /\ UNCHANGED <<file, logged, tasks, posts, shared>>
            BY <2>2, Zenon DEF RegisterLoadId
        <3>2. /\ Fields \subseteq DOMAIN x /\ x.new = page[p].new /\ x.pc = "push"
              /\ x.open = page[p].open /\ x.end = page[p].end
            BY LoadFields DEF Fields
        <3>. HIDE DEF x
        <3>. QED  BY <3>1, <3>2 DEF Loaded, Live
    <2>3. CASE RegisterPush(p)
        <3>. DEFINE x == [page[p] EXCEPT !.pc = "bump"]
        <3>1. /\ page[p].pc = "push" /\ page' = [page EXCEPT ![p] = x]
              /\ UNCHANGED <<file, logged, tasks, posts, shared>>
            BY <2>3, Zenon DEF RegisterPush
        <3>2. /\ Fields \subseteq DOMAIN x /\ x.new = page[p].new /\ x.pc = "bump"
              /\ x.open = page[p].open /\ x.end = page[p].end
            BY LoadFields DEF Fields
        <3>. HIDE DEF x
        <3>. QED  BY <3>1, <3>2 DEF Loaded, Live
    <2>4. CASE RegisterBump(p)
        <3>. DEFINE x == [page[p] EXCEPT !.pc = "registered"]
        <3>1. /\ page[p].pc = "bump" /\ page' = [page EXCEPT ![p] = x]
              /\ UNCHANGED <<file, logged, tasks, posts, shared>>
            BY <2>4, Zenon DEF RegisterBump
        <3>2. /\ Fields \subseteq DOMAIN x /\ x.new = page[p].new /\ x.pc = "registered"
              /\ x.open = page[p].open /\ x.end = page[p].end
            BY LoadFields DEF Fields
        <3>. HIDE DEF x
        <3>. QED  BY <3>1, <3>2 DEF Loaded, Live
    <2>5. CASE Registered(p)
        <3>. DEFINE x == [page[p] EXCEPT !.pc = "get log", !.logger = page[p].id]
        <3>1. /\ page[p].pc = "registered" /\ page' = [page EXCEPT ![p] = x]
              /\ UNCHANGED <<file, logged, tasks, posts, shared>>
            BY <2>5, Zenon DEF Registered
        <3>2. /\ Fields \subseteq DOMAIN x /\ x.new = page[p].new /\ x.pc = "get log"
              /\ x.logger = page[p].id /\ x.open = page[p].open /\ x.end = page[p].end
            BY LoadFields DEF Fields
        <3>3. page[p].id # NoLogger
            BY <3>1, InvFields DEF Pushed, NoLogger
        <3>. HIDE DEF x
        <3>. QED  BY <3>1, <3>2, <3>3 DEF Loaded, Live
    <2>. QED  BY <2>1, <2>2, <2>3, <2>4, <2>5
<1>2. Record(x) /\ (~shared /\ Live(x) => Loads(p, x))
    BY <1>1, LoadFields DEF Record, Loads
<1>. QED  BY <1>1, <1>2, MovesLoad

LEMMA CloseLoad == ASSUME Inv, LoadInv, NEW p \in Pages, Close(p) PROVE LoadInv'
<1>. DEFINE x == [page[p] EXCEPT !.open = FALSE, !.logger = NoLogger]
<1>1. /\ page' = [page EXCEPT ![p] = x] /\ UNCHANGED <<file, logged, tasks, posts, shared>>
    BY Zenon DEF Close
<1>2. /\ Fields \subseteq DOMAIN x /\ x.new = page[p].new /\ x.pc = page[p].pc /\ x.open = FALSE
      /\ x.end = page[p].end
    BY LoadFields DEF Fields
<1>. HIDE DEF x
<1>3. Record(x) /\ (~shared /\ Live(x) => Loads(p, x))
    BY <1>2, LoadFields DEF Record, Live, Loads
<1>. QED  BY <1>1, <1>2, <1>3, MovesLoad

(* The end of the file is read: later events are still to come.            *)
LEMMA GetLogLoad == ASSUME Inv, LoadInv, NEW p \in Pages, GetLog(p) PROVE LoadInv'
<1>. DEFINE c == get_log(Len(file))
            x == [page[p] EXCEPT !.pc = "merge", !.chunk = c]
<1>1. /\ page[p].pc = "get log" /\ page' = [page EXCEPT ![p] = x]
      /\ UNCHANGED <<file, logged, tasks, posts, shared>>
    BY Zenon DEF GetLog
<1>2. logged \in Nat /\ Log(file, logged) /\ Len(file) = 2 * logged
    BY MessagesAre DEF LoadInv, Log
<1>3. c = LastChunk(logged)
    <2>1. CASE logged = 0
        <3>1. Len(file) = 0
            BY <1>2, <2>1
        <3>. QED  BY <1>2, <2>1, <3>1, LogReads DEF LastChunk
    <2>2. CASE logged # 0
        BY <1>2, <2>2, LogReads DEF LastChunk
    <2>. QED  BY <2>1, <2>2
<1>. HIDE DEF c
<1>4. /\ Fields \subseteq DOMAIN x /\ x.new = page[p].new /\ x.pc = "merge" /\ x.chunk = c
      /\ x.open = page[p].open /\ x.logger = page[p].logger /\ x.end = page[p].end
    BY LoadFields DEF Fields
<1>. HIDE DEF x
<1>5. Record(x)
    BY <1>1, <1>4, LoadFields DEF Record, Loaded
<1>6. ~shared /\ Live(x) => Loads(p, x)
    <2>1. logged \in 0..logged /\ \A n \in (logged + 1)..logged : FALSE
        BY <1>2
    <2>. QED  BY <1>1, <1>3, <1>4, <2>1, LoadFields DEF Loads, Live
<1>. QED  BY <1>1, <1>5, <1>6, MovesLoad

(* What was read and what came meanwhile leave no event out.               *)
LEMMA MergeLoad == ASSUME Inv, LoadInv, NEW p \in Pages, Merge(p) PROVE LoadInv'
<1>. DEFINE messages == MessagesOf(page[p].chunk)
            split == SplitOf(page[p].chunk)
            recent == RecentOf(messages, split)
            old == SubSeq(messages, split + 1, Len(messages))
            new == Without(recent, ToSet(page[p].new)) \o page[p].new
            x == [page[p] EXCEPT !.pc = "ready", !.chunk = <<>>, !.old = old, !.new = new]
<1>1. /\ page[p].pc = "merge" /\ page' = [page EXCEPT ![p] = x]
      /\ UNCHANGED <<file, logged, tasks, posts, shared>>
    BY Zenon DEF Merge, FirstOf, MessagesOf, SplitOf, RecentOf
<1>. HIDE DEF old, new
<1>2. /\ Fields \subseteq DOMAIN x /\ x.new = new /\ x.pc = "ready" /\ x.old = old
      /\ x.open = page[p].open /\ x.logger = page[p].logger /\ x.end = page[p].end
    BY LoadFields DEF Fields
<1>. HIDE DEF x
<1>3. Record(x)
    BY <1>1, <1>2, LoadFields DEF Record, Loaded
<1>4. ASSUME ~shared, Live(x) PROVE Loads(p, x)
    <2>1. Loads(p, page[p])
        BY <1>1, <1>2, <1>4, LoadFields DEF Live
    <2>2. PICK n \in 0..logged : /\ page[p].chunk = LastChunk(n)
                                 /\ \A k \in (n + 1)..logged : Coming(p, page[p], k)
        BY <1>1, <2>1 DEF Loads
    <2>3. /\ page[p].new \in Seq(Text) /\ ~page[p].end
          /\ \A i \in DOMAIN page[p].new : Len(page[p].new[i]) = 2
        BY <1>1, <2>1 DEF Loads
    <2>4. logged \in 0..Len(Messages) /\ Len(Messages) \in Nat /\ n \in 0..Len(Messages)
          /\ logged \in Nat
        BY MessagesAre DEF LoadInv, Log
    <2>5. PICK c \in 0..n : messages = Block(n, c) /\ split \in 0..c /\ (split = c => n = c)
        BY <2>2, <2>4, MergeSplits, Zenon
    <2>. HIDE DEF messages, split
    <2>6. /\ split \in 0..n /\ c - split \in 0..(n - split) /\ (c - split = 0 => n - split = 0)
          /\ old = Block(n - split, c - split)
          /\ Without(recent, ToSet(page[p].new)) = recent
          /\ recent \in Seq(Text) /\ Len(recent) = split
          /\ \A i \in 1..split : recent[i] = EventLine(n - split + i).line
        <3>. DEFINE b == page[p].new
        <3>1. n \in 0..Len(Messages) /\ b \in Seq(Text) /\ \A i \in DOMAIN b : Len(b[i]) = 2
            BY <2>3, <2>4
        <3>. HIDE DEF b
        <3>2. /\ split \in 0..n /\ c - split \in 0..(n - split) /\ (c - split = 0 => n - split = 0)
              /\ SubSeq(Block(n, c), split + 1, Len(Block(n, c))) = Block(n - split, c - split)
              /\ Without(RecentOf(Block(n, c), split), ToSet(b)) = RecentOf(Block(n, c), split)
              /\ RecentOf(Block(n, c), split) \in Seq(Text)
              /\ Len(RecentOf(Block(n, c), split)) = split
              /\ \A i \in 1..split :
                    RecentOf(Block(n, c), split)[i] = EventLine(n - split + i).line
            BY <2>5, <3>1, Merges
        <3>3. messages = Block(n, c)
            BY <2>5
        <3>. QED  BY <3>2, <3>3, Zenon DEF old, b
    <2>. HIDE DEF recent
    <2>7. /\ new \in Seq(Text) /\ DOMAIN new = 1..(split + Len(page[p].new))
          /\ \A i \in 1..split : new[i] = recent[i]
          /\ \A i \in DOMAIN page[p].new : /\ split + i \in DOMAIN new
                                            /\ new[split + i] = page[p].new[i]
        <3>. DEFINE b == page[p].new
        <3>1. b \in Seq(Text)
            BY <2>3
        <3>. HIDE DEF b
        <3>2. /\ recent \o b \in Seq(Text) /\ Len(recent \o b) = Len(recent) + Len(b)
              /\ \A i \in 1..Len(recent) + Len(b) :
                    (recent \o b)[i] = IF i <= Len(recent) THEN recent[i] ELSE b[i - Len(recent)]
            BY <2>6, <3>1, ConcatProperties
        <3>3. new = recent \o b
            BY <2>6 DEF new, b
        <3>4. /\ Len(recent) = split /\ split \in Nat /\ Len(b) \in Nat /\ DOMAIN b = 1..Len(b)
            BY <2>4, <2>6, <3>1
        <3>5. new \in Seq(Text) /\ DOMAIN new = 1..(split + Len(b))
            BY <3>2, <3>3, <3>4
        <3>6. \A i \in 1..split : new[i] = recent[i]
            BY <3>2, <3>3, <3>4
        <3>7. ASSUME NEW i \in DOMAIN b PROVE split + i \in DOMAIN new /\ new[split + i] = b[i]
            <4>1. /\ split + i \in 1..(split + Len(b)) /\ ~(split + i <= split)
                  /\ split + i - split = i
                BY <3>4
            <4>. QED  BY <3>2, <3>3, <3>4, <3>5, <4>1
        <3>. QED  BY <3>5, <3>6, <3>7 DEF b
    <2>8. ASSUME NEW k \in (n - split + 1)..logged PROVE Coming(p, x, k)
        <3>1. CASE k <= n
            <4>. DEFINE i == k - (n - split)
            <4>1. i \in 1..split /\ n - split + i = k /\ k \in 1..Len(Messages)
                BY <2>4, <2>6, <3>1
            <4>. HIDE DEF i
            <4>2. new[i] = EventLine(k).line /\ i \in DOMAIN new
                <5>1. 1..split \subseteq DOMAIN new
                    <6>1. Len(page[p].new) \in Nat
                        BY <2>3
                    <6>2. split \in Nat
                        BY <2>4, <2>6
                    <6>3. 1..split \subseteq 1..(split + Len(page[p].new))
                        BY <6>1, <6>2
                    <6>4. DOMAIN new = 1..(split + Len(page[p].new))
                        BY <2>7
                    <6>. QED  BY <6>3, <6>4, Zenon
                <5>. QED  BY <2>6, <2>7, <4>1, <5>1
            <4>. QED  BY <1>2, <4>1, <4>2, EventText DEF Coming, Seen
        <3>2. CASE ~(k <= n)
            <4>1. Coming(p, page[p], k)
                BY <2>2, <2>4, <2>6, <3>2
            <4>2. CASE Seen(page[p], k)
                <5>1. PICK i \in DOMAIN page[p].new :
                         page[p].new[i] # <<>> /\ page[p].new[i][1] = Messages[k]
                    BY <4>2 DEF Seen
                <5>2. split + i \in DOMAIN new /\ new[split + i] = page[p].new[i]
                    BY <2>7
                <5>. QED  BY <1>2, <5>1, <5>2 DEF Coming, Seen
            <4>3. CASE ~Seen(page[p], k)
                BY <4>1, <4>3 DEF Coming
            <4>. QED  BY <4>2, <4>3
        <3>. QED  BY <3>1, <3>2
    <2>9. n - split \in 0..logged
        BY <2>4, <2>6
    <2>. QED  BY <1>2, <2>3, <2>6, <2>7, <2>8, <2>9 DEF Loads
<1>. QED  BY <1>1, <1>3, <1>4, MovesLoad

(* A full chunk goes on where the lines kept end; less is not kept.        *)
LEMMA LoadMoreLoad == ASSUME Inv, LoadInv, NEW p \in Pages, LoadMore(p) PROVE LoadInv'
<1>. DEFINE lines == get_log(Last(page[p].old).position)
            old == page[p].old \o lines
            x == [page[p] EXCEPT !.end = TRUE]
            y == [page[p] EXCEPT !.old = old]
<1>1. /\ page[p].pc = "ready" /\ page[p].open /\ ~page[p].end /\ page[p].old # <<>>
      /\ page' = (IF Len(lines) < Chunk THEN [page EXCEPT ![p] = x] ELSE [page EXCEPT ![p] = y])
      /\ UNCHANGED <<file, logged, tasks, posts, shared>>
    BY Zenon DEF LoadMore
<1>2. /\ logged \in Nat /\ logged \in 0..Len(Messages) /\ Len(Messages) \in Nat
      /\ Log(file, logged) /\ Chunk \in Nat /\ Chunk > 1
    BY LogPageAssumption, MessagesAre DEF LoadInv, Log
<1>. HIDE DEF lines, old
<1>3. /\ Fields \subseteq DOMAIN x /\ x.new = page[p].new /\ x.pc = page[p].pc
      /\ x.old = page[p].old /\ x.open = page[p].open
      /\ x.logger = page[p].logger /\ x.chunk = page[p].chunk
    BY LoadFields DEF Fields
<1>4. /\ Fields \subseteq DOMAIN y /\ y.new = page[p].new /\ y.pc = page[p].pc /\ y.old = old
      /\ y.open = page[p].open /\ y.logger = page[p].logger /\ y.end = page[p].end
    BY LoadFields DEF Fields
<1>. HIDE DEF x, y
<1>5. Record(x) /\ Record(y)
    BY <1>3, <1>4, LoadFields DEF Record
<1>6. ASSUME ~shared, Live(page[p])
      PROVE  /\ Len(lines) < Chunk => Loads(p, x)
             /\ ~(Len(lines) < Chunk) => Loads(p, y)
    <2>1. Loads(p, page[p])
        BY <1>6, LoadFields
    <2>2. PICK k \in 0..logged : \E c \in 0..k :
             /\ page[p].old = Block(k, c) /\ (c = 0 => k = 0)
             /\ \A n \in (k + 1)..logged : Coming(p, page[p], n)
        BY <1>1, <2>1 DEF Loads
    <2>3. PICK c \in 0..k :
             /\ page[p].old = Block(k, c) /\ (c = 0 => k = 0)
             /\ \A n \in (k + 1)..logged : Coming(p, page[p], n)
        BY <2>2
    <2>4. k \in 0..Len(Messages) /\ k \in Nat /\ c \in Nat
        BY <1>2
    <2>5. c # 0
        BY <1>1, <2>3, <2>4, BlockIs
    <2>6. Last(page[p].old) = EventLine(k + 1 - c)
        <3>1. /\ Len(Block(k, c)) = c /\ \A i \in 1..c : Block(k, c)[i] = EventLine(k + 1 - i)
            BY <2>4, BlockIs
        <3>2. c \in 1..c
            BY <2>4, <2>5
        <3>. QED  BY <2>3, <3>1, <3>2 DEF Last
    <2>. DEFINE d == Fewer(k - c, Chunk)
    <2>7. lines = Block(k - c, d)
        <3>1. CASE k = c
            <4>1. k + 1 - c = 1 /\ k - c = 0 /\ d = 0
                BY <1>2, <2>4, <3>1 DEF Fewer
            <4>. HIDE DEF d
            <4>2. Last(page[p].old).position = 0
                BY <2>6, <4>1 DEF EventLine
            <4>3. lines = <<>>
                BY <1>2, <4>2, LogReads DEF lines
            <4>. QED  BY <4>1, <4>3, NoBlock
        <3>2. CASE k # c
            <4>1. k + 1 - c # 1 /\ 2 * (k + 1 - c) - 3 = 2 * (k - c) - 1 /\ k - c \in 1..logged
                BY <1>2, <2>4, <3>2
            <4>2. Last(page[p].old).position = 2 * (k - c) - 1
                BY <2>6, <4>1 DEF EventLine
            <4>. QED  BY <1>2, <4>1, <4>2, LogReads DEF lines
        <3>. QED  BY <3>1, <3>2
    <2>8. /\ d \in 0..(k - c) /\ k - c \in 0..Len(Messages)
          /\ d < Chunk => k - c < Chunk
        BY <1>2, <2>4 DEF Fewer
    <2>. HIDE DEF d
    <2>9. Len(lines) = d
        BY <2>7, <2>8, BlockIs
    <2>10. ASSUME Len(lines) < Chunk PROVE Loads(p, x)
        <3>1. k - c < Chunk
            BY <2>8, <2>9, <2>10
        <3>2. \A n \in (k + 1)..logged : Coming(p, x, n)
            BY <1>3, <2>3 DEF Coming, Seen
        <3>3. x.pc = "ready" /\ x.new \in Seq(Text)
            BY <1>1, <1>3, <2>1 DEF Loads
        <3>. QED  BY <1>3, <2>3, <3>1, <3>2, <3>3 DEF Loads
    <2>11. ASSUME ~(Len(lines) < Chunk) PROVE Loads(p, y)
        <3>1. old = Block(k, c + d) /\ c + d \in 0..k /\ c + d # 0
            <4>1. Block(k, c) \o Block(k - c, d) = Block(k, c + d)
                BY <2>4, <2>8, BlocksJoin
            <4>2. c + d \in 0..k /\ c + d # 0
                BY <2>4, <2>5, <2>8
            <4>. QED  BY <2>3, <2>7, <4>1, <4>2 DEF old
        <3>2. \A n \in (k + 1)..logged : Coming(p, y, n)
            BY <1>4, <2>3 DEF Coming, Seen
        <3>3. y.pc = "ready" /\ y.new \in Seq(Text) /\ ~y.end
            BY <1>1, <1>4, <2>1 DEF Loads
        <3>. QED  BY <1>4, <3>1, <3>2, <3>3 DEF Loads
    <2>. QED  BY <2>10, <2>11
<1>7. (Live(x) => Live(page[p])) /\ (Live(y) => Live(page[p]))
    BY <1>3, <1>4 DEF Live
<1>8. CASE Len(lines) < Chunk
    BY <1>1, <1>5, <1>6, <1>7, <1>8, MovesLoad
<1>9. CASE ~(Len(lines) < Chunk)
    BY <1>1, <1>5, <1>6, <1>7, <1>9, MovesLoad
<1>. QED  BY <1>8, <1>9

(* An event that reaches the page is one that was on its way.              *)
LEMMA DeliverLoad ==
    ASSUME Inv, LoadInv, NEW p \in Pages, NEW m \in ToSet(Messages), Deliver(p, m)
    PROVE  LoadInv'
<1>. DEFINE new == Append(page[p].new, <<m, LF>>)
            y == [page[p] EXCEPT !.new = new]
<1>1. /\ page' = [page EXCEPT ![p] = y] /\ posts' = posts \ {<<p, m>>}
      /\ UNCHANGED <<file, logged, tasks, shared>>
    BY Zenon DEF Deliver
<1>2. m \in Bytes /\ LF \in Bytes
    <2>1. PICK i \in DOMAIN Messages : m = Messages[i]
        BY Zenon DEF ToSet
    <2>2. m \in Bytes
        BY <2>1, MessagesAre
    <2>3. LF \in Bytes
        BY DEF Bytes
    <2>. QED  BY <2>2, <2>3
<1>. HIDE DEF new
<1>3. PICK x :
      /\ page' = [page EXCEPT ![p] = x]
      /\ Fields \subseteq DOMAIN x /\ x.new = new /\ x.pc = page[p].pc /\ x.old = page[p].old
      /\ x.open = page[p].open /\ x.logger = page[p].logger /\ x.chunk = page[p].chunk
      /\ x.end = page[p].end
    <2>1. /\ Fields \subseteq DOMAIN y /\ y.new = new /\ y.pc = page[p].pc /\ y.old = page[p].old
          /\ y.open = page[p].open /\ y.logger = page[p].logger /\ y.chunk = page[p].chunk
          /\ y.end = page[p].end
        BY LoadFields DEF Fields
    <2>. HIDE DEF y
    <2>. QED  BY <1>1, <2>1
<1>4. /\ DOMAIN page' = Pages /\ page'[p] = x /\ \A q \in Pages \ {p} : page'[q] = page[q]
    BY <1>3, Becomes, InvFields
<1>5. Record(x)
    BY <1>3, LoadFields DEF Record
<1>6. ASSUME ~shared, Live(x) PROVE Loads(p, x)'
    <2>1. Loads(p, page[p])
        BY <1>3, <1>6, LoadFields DEF Live
    <2>2. page[p].new \in Seq(Text)
        BY <2>1 DEF Loads
    <2>. DEFINE b == page[p].new
                e == <<m, LF>>
    <2>3. e \in Text /\ Len(e) = 2 /\ e # <<>> /\ e[1] = m
        <3>1. e \in Seq(Bytes) /\ Len(e) = 2 /\ e[1] = m
            BY <1>2
        <3>2. e # <<>>
            BY <3>1
        <3>. QED  BY <3>1, <3>2 DEF Text
    <2>. HIDE DEF e
    <2>4. /\ new \in Seq(Text) /\ DOMAIN new = 1..(Len(b) + 1) /\ DOMAIN b = 1..Len(b)
          /\ \A i \in DOMAIN b : new[i] = b[i]
          /\ new[Len(b) + 1] = e
        <3>1. new = Append(b, e)
            BY DEF new, e
        <3>. HIDE DEF b
        <3>2. b \in Seq(Text)
            BY <2>2 DEF b
        <3>. QED  BY <2>3, <3>1, <3>2
    <2>5. Len(b) \in Nat
        BY <2>2
    <2>6. DOMAIN b \subseteq DOMAIN new /\ Len(b) + 1 \in DOMAIN new
        BY <2>4, <2>5
    <2>7. page[p].pc # "ready" => \A i \in DOMAIN new : Len(new[i]) = 2
        <3>1. ASSUME page[p].pc # "ready", NEW i \in DOMAIN new PROVE Len(new[i]) = 2
            <4>1. CASE i \in DOMAIN b
                BY <2>1, <2>4, <3>1, <4>1 DEF Loads
            <4>2. CASE i \notin DOMAIN b
                <5>1. i = Len(b) + 1
                    BY <2>4, <2>5, <4>2
                <5>. QED  BY <2>3, <2>4, <5>1
            <4>. QED  BY <4>1, <4>2
        <3>. QED  BY <3>1
    <2>. HIDE DEF b
    <2>8. ASSUME NEW n, Coming(p, page[p], n) PROVE Coming(p, x, n)'
        <3>1. CASE Messages[n] = m
            BY <1>3, <2>3, <2>4, <2>6, <3>1 DEF Coming, Seen
        <3>2. CASE Seen(page[p], n)
            <4>1. PICK i \in DOMAIN b : b[i] # <<>> /\ b[i][1] = Messages[n]
                BY <3>2 DEF Seen, b
            <4>2. i \in DOMAIN new /\ new[i] = b[i]
                BY <2>4, <2>6
            <4>. QED  BY <1>3, <4>1, <4>2 DEF Coming, Seen
        <3>3. CASE Messages[n] # m /\ ~Seen(page[p], n)
            BY <1>1, <2>8, <3>3 DEF Coming
        <3>. QED  BY <3>1, <3>2, <3>3
    <2>9. logged' = logged
        BY <1>1
    <2>. QED  BY <1>3, <2>1, <2>4, <2>7, <2>8, <2>9 DEF Loads
<1>7. ASSUME NEW q \in Pages \ {p}, Loads(q, page[q]) PROVE Loads(q, page[q])'
    <2>1. page'[q] = page[q] /\ logged' = logged
        BY <1>1, <1>4
    <2>2. ASSUME NEW n, Coming(q, page[q], n) PROVE Coming(q, page[q], n)'
        <3>1. <<q, Messages[n]>> # <<p, m>>
            OBVIOUS
        <3>. QED  BY <1>1, <2>1, <2>2, <3>1 DEF Coming, Seen
    <2>. QED  BY <1>7, <2>1, <2>2 DEF Loads
<1>8. Log(file, logged)'
    BY <1>1 DEF LoadInv, Log
<1>9. ASSUME NEW q \in Pages
      PROVE  Record(page[q])' /\ (~shared' /\ Live(page[q])' => Loads(q, page[q])')
    <2>1. CASE q = p
        <3>1. /\ Record(page[q])' /\ (Live(page[q])' <=> Live(x))
              /\ Loads(q, page[q])' <=> Loads(p, x)'
            BY <1>4, <1>5, <2>1 DEF Record, Live, Loads, Coming
        <3>. QED  BY <1>1, <1>6, <3>1
    <2>2. CASE q # p
        <3>1. Record(page[q])' /\ (Live(page[q])' <=> Live(page[q]))
            BY <1>4, <2>2 DEF LoadInv, Record, Live
        <3>. QED  BY <1>1, <1>7, <2>2, <3>1 DEF LoadInv
    <2>. QED  BY <2>1, <2>2
<1>. QED  BY <1>8, <1>9 DEF LoadInv

(* Steps that leave the pages as they are.                                 *)
LEMMA StaysLoad ==
    ASSUME Inv, LoadInv, UNCHANGED <<page, shared>>, Log(file, logged)', logged' \in Nat,
           logged <= logged',
           \A n \in (logged + 1)..logged' : Messages[n] \in tasks',
           \A p \in Pages, n \in 1..logged :
              ~shared /\ page[p].open /\ page[p].pc \in {"merge", "ready"} /\ Coming(p, page[p], n)
                 => Coming(p, page[p], n)'
    PROVE  LoadInv'
<1>1. logged \in Nat /\ \A n \in 1..logged' : n \in 1..logged \/ n \in (logged + 1)..logged'
    BY MessagesAre DEF LoadInv, Log
<1>2. ASSUME NEW p \in Pages, ~shared, Live(page[p]) PROVE Loads(p, page[p])'
    <2>1. Loads(p, page[p]) /\ page'[p] = page[p]
        BY <1>2, LoadFields
    <2>2. ASSUME NEW k \in 0..logged, page[p].pc \in {"merge", "ready"},
                 \A n \in (k + 1)..logged : Coming(p, page[p], n)
          PROVE  k \in 0..logged' /\ \A n \in (k + 1)..logged' : Coming(p, page[p], n)'
        <3>1. k \in 0..logged'
            BY <1>1
        <3>2. ASSUME NEW n \in (k + 1)..logged' PROVE Coming(p, page[p], n)'
            <4>1. n \in 1..logged'
                BY <1>1
            <4>2. CASE n \in 1..logged
                <5>1. n \in (k + 1)..logged
                    BY <1>1, <4>2
                <5>2. page[p].open
                    BY <1>2, <2>2 DEF Live
                <5>. QED  BY <1>2, <2>2, <4>2, <5>1, <5>2
            <4>3. CASE n \in (logged + 1)..logged'
                BY <4>3 DEF Coming
            <4>. QED  BY <1>1, <4>1, <4>2, <4>3
        <3>. QED  BY <3>1, <3>2
    <2>3. CASE page[p].pc = "merge"
        <3>1. PICK k \in 0..logged : /\ page[p].chunk = LastChunk(k)
                                     /\ \A n \in (k + 1)..logged : Coming(p, page[p], n)
            BY <2>1, <2>3 DEF Loads
        <3>2. k \in 0..logged' /\ \A n \in (k + 1)..logged' : Coming(p, page[p], n)'
            BY <2>2, <2>3, <3>1
        <3>. QED  BY <2>1, <2>3, <3>1, <3>2 DEF Loads
    <2>4. CASE page[p].pc = "ready"
        <3>1. PICK k \in 0..logged : \E c \in 0..k :
                 /\ page[p].old = Block(k, c) /\ (c = 0 => k = 0)
                 /\ page[p].end => k - c < Chunk
                 /\ \A n \in (k + 1)..logged : Coming(p, page[p], n)
            BY <2>1, <2>4 DEF Loads
        <3>2. k \in 0..logged' /\ \A n \in (k + 1)..logged' : Coming(p, page[p], n)'
            BY <2>2, <2>4, <3>1
        <3>. QED  BY <2>1, <2>4, <3>1, <3>2 DEF Loads
    <2>5. CASE page[p].pc \notin {"merge", "ready"}
        BY <2>1, <2>5 DEF Loads
    <2>. QED  BY <2>3, <2>4, <2>5
<1>3. ASSUME NEW p \in Pages
      PROVE  Record(page[p])' /\ (~shared' /\ Live(page[p])' => Loads(p, page[p])')
    BY <1>2 DEF LoadInv, Record, Live
<1>. QED  BY <1>3 DEF LoadInv

(* An event is in the file, and its notification spawned.                  *)
LEMMA EventLoad == ASSUME Inv, LoadInv, Event PROVE LoadInv'
<1>. DEFINE l == logged + 1
<1>1. /\ logged < Len(Messages) /\ logged' = l /\ file' = file \o <<Messages[l], LF>>
      /\ tasks' = tasks \cup {Messages[l]} /\ UNCHANGED <<posts, page, shared>>
    BY DEF Event
<1>2. /\ logged \in Nat /\ Len(Messages) \in Nat /\ file \in Seq(Bytes) /\ Len(file) = 2 * logged
      /\ \A k \in 1..logged : file[2 * k - 1] = Messages[k] /\ file[2 * k] = LF
    BY MessagesAre DEF LoadInv, Log
<1>3. l \in 1..Len(Messages) /\ l \in 0..Len(Messages)
    BY <1>1, <1>2
<1>4. Log(file, logged)'
    <2>. DEFINE e == <<Messages[l], LF>>
                t == file \o e
    <2>1. Messages[l] \in Bytes /\ LF \in Bytes
        BY <1>3, MessagesAre DEF Bytes
    <2>2. e \in Seq(Bytes) /\ Len(e) = 2 /\ e[1] = Messages[l] /\ e[2] = LF
        BY <2>1
    <2>. HIDE DEF e
    <2>3. /\ t \in Seq(Bytes) /\ Len(t) = Len(file) + Len(e)
          /\ \A i \in 1..Len(file) + Len(e) :
                t[i] = IF i <= Len(file) THEN file[i] ELSE e[i - Len(file)]
        BY <1>2, <2>2, ConcatProperties
    <2>4. Len(t) = 2 * l
        BY <1>2, <2>2, <2>3
    <2>5. file' = t
        BY <1>1 DEF e
    <2>. HIDE DEF t
    <2>6. ASSUME NEW k \in 1..l PROVE t[2 * k - 1] = Messages[k] /\ t[2 * k] = LF
        <3>1. CASE k = l
            <4>1. /\ 2 * k - 1 \in 1..Len(file) + Len(e) /\ ~(2 * k - 1 <= Len(file))
                  /\ 2 * k - 1 - Len(file) = 1
                  /\ 2 * k \in 1..Len(file) + Len(e) /\ ~(2 * k <= Len(file))
                  /\ 2 * k - Len(file) = 2
                BY <1>2, <2>2, <3>1
            <4>. QED  BY <2>2, <2>3, <3>1, <4>1
        <3>2. CASE k # l
            <4>1. /\ 2 * k - 1 \in 1..Len(file) + Len(e) /\ 2 * k - 1 <= Len(file)
                  /\ 2 * k \in 1..Len(file) + Len(e) /\ 2 * k <= Len(file) /\ k \in 1..logged
                BY <1>2, <2>2, <3>2
            <4>. QED  BY <1>2, <2>3, <4>1
        <3>. QED  BY <3>1, <3>2
    <2>. HIDE DEF l
    <2>7. logged' \in 0..Len(Messages) /\ Len(file') = 2 * logged' /\ file' \in Seq(Bytes)
        BY <1>1, <1>3, <2>3, <2>4, <2>5
    <2>8. \A k \in 1..logged' : file'[2 * k - 1] = Messages[k] /\ file'[2 * k] = LF
        BY <1>1, <2>5, <2>6
    <2>. QED  BY <2>7, <2>8 DEF Log
<1>5. \A n \in (logged + 1)..logged' : Messages[n] \in tasks'
    <2>1. \A n \in (logged + 1)..logged' : n = l
        BY <1>1, <1>2
    <2>. HIDE DEF l
    <2>. QED  BY <1>1, <2>1
<1>6. \A p \in Pages, n \in 1..logged : Coming(p, page[p], n) => Coming(p, page[p], n)'
    BY <1>1 DEF Coming, Seen
<1>7. logged' \in Nat /\ logged <= logged'
    BY <1>1, <1>2
<1>. HIDE DEF l
<1>. QED  BY <1>1, <1>4, <1>5, <1>6, <1>7, StaysLoad

(* Every page that waits for the event has its callback.                   *)
LEMMA NotifyLoad ==
    ASSUME Inv, LoadInv, NEW m \in ToSet(Messages), Notify(m)
    PROVE  LoadInv'
<1>1. /\ tasks' = tasks \ {m}
      /\ posts' = posts \cup {<<callbacks[i].page, m>> : i \in DOMAIN callbacks}
      /\ UNCHANGED <<file, logged, page, shared>>
    BY DEF Notify
<1>2. Log(file, logged)' /\ logged' \in Nat /\ logged' = logged
      /\ \A n \in (logged + 1)..logged' : FALSE
    <2>1. logged \in Nat /\ Log(file, logged)
        BY MessagesAre DEF LoadInv, Log
    <2>. QED  BY <1>1, <2>1 DEF Log
<1>3. ASSUME NEW p \in Pages, NEW n \in 1..logged, ~shared, page[p].open,
             page[p].pc \in {"merge", "ready"}, Coming(p, page[p], n)
      PROVE  Coming(p, page[p], n)'
    <2>1. CASE Messages[n] = m
        <3>1. page[p].logger # NoLogger
            BY <1>3, LoadFields DEF Loaded
        <3>2. PICK i \in DOMAIN callbacks : callbacks[i].page = p
            BY <1>3, <3>1 DEF Inv, Own, Has
        <3>3. <<p, m>> \in posts'
            BY <1>1, <3>2
        <3>. QED  BY <2>1, <3>3 DEF Coming
    <2>2. CASE Messages[n] # m
        BY <1>1, <1>3, <2>2 DEF Coming, Seen
    <2>. QED  BY <2>1, <2>2
<1>. QED  BY <1>1, <1>2, <1>3, StaysLoad

LEMMA OtherLoad ==
    ASSUME Inv, LoadInv, UNCHANGED <<file, logged, tasks, posts, page, shared>>
    PROVE  LoadInv'
<1>1. Log(file, logged)'
    BY DEF LoadInv, Log
<1>2. ASSUME NEW p \in Pages
      PROVE  Record(page[p])' /\ (~shared' /\ Live(page[p])' => Loads(p, page[p])')
    <2>1. Record(page[p])' /\ (Live(page[p])' <=> Live(page[p]))
        BY DEF LoadInv, Record, Live
    <2>2. Loads(p, page[p])' <=> Loads(p, page[p])
        BY DEF Loads, Coming, Seen
    <2>. QED  BY <2>1, <2>2, LoadFields
<1>. QED  BY <1>1, <1>2 DEF LoadInv

LEMMA StepLoad == Inv /\ LoadInv /\ [Next]_vars => LoadInv'
<1>. SUFFICES ASSUME Inv, LoadInv, [Next]_vars PROVE LoadInv'
    OBVIOUS
<1>1. CASE Event
    BY <1>1, EventLoad
<1>2. ASSUME NEW m \in ToSet(Messages), Notify(m) PROVE LoadInv'
    BY <1>2, NotifyLoad
<1>3. ASSUME NEW p \in Pages, PageStep(p) PROVE LoadInv'
    BY <1>3, RegistrationLoad, CloseLoad, GetLogLoad, MergeLoad, LoadMoreLoad, DeliverLoad
       DEF PageStep
<1>4. ASSUME NEW id \in removals, Unregister(id) PROVE LoadInv'
    BY <1>4, OtherLoad DEF Unregister
<1>5. CASE UNCHANGED vars
    BY <1>5, OtherLoad DEF vars
<1>. QED  BY <1>1, <1>2, <1>3, <1>4, <1>5 DEF Next

(* The remainder of a number that is less is the number itself.            *)
LEMMA Remainder ==
    ASSUME NEW a \in Nat, NEW b \in Nat, b > 0
    PROVE  a % b \in Nat /\ (a < b => a % b = a)
<1>1. a % b \in Nat
    OBVIOUS
<1>2. ASSUME a < b PROVE a % b = a
    BY <1>2
<1>. QED  BY <1>1, <1>2

(* rev_lines_ex.rs:36-143, log.rs:41-166 and log.dart:35-106: between the  *)
(* callback, the end of the file that _init read and the older chunks that *)
(* _loadMore reads no line falls through, whenever its event was written.  *)
(* A line that is not shown is in a full chunk that scrolling has yet to   *)
(* read, or among the first of the file, fewer than a chunk, which         *)
(* _loadMore drops.                                                        *)
THEOREM NoLineIsLost == Spec => []NoneMissing
<1>1. Inv /\ LoadInv => NoneMissing
    <2>. SUFFICES ASSUME Inv, LoadInv, tasks = {}, posts = {}, ~shared,
                         NEW p \in Pages, page[p].pc = "ready", page[p].open,
                         NEW n \in 1..logged
                  PROVE  Positions(p, n) # {} \/ ToScrollTo(p, n) \/ NeverKept(p, n)
        BY DEF NoneMissing
    <2>1. /\ logged \in Nat /\ logged \in 0..Len(Messages) /\ Len(Messages) \in Nat
          /\ n \in 1..Len(Messages)
        BY MessagesAre DEF LoadInv, Log
    <2>2. Loads(p, page[p])
        BY LoadFields DEF Live
    <2>3. PICK k \in 0..logged : \E c \in 0..k :
             /\ page[p].old = Block(k, c) /\ (c = 0 => k = 0)
             /\ page[p].end => k - c < Chunk
             /\ \A i \in (k + 1)..logged : Coming(p, page[p], i)
        BY <2>2 DEF Loads
    <2>4. PICK c \in 0..k :
             /\ page[p].old = Block(k, c) /\ (c = 0 => k = 0)
             /\ page[p].end => k - c < Chunk
             /\ \A i \in (k + 1)..logged : Coming(p, page[p], i)
        BY <2>3
    <2>5. k \in 0..Len(Messages) /\ k \in Nat /\ c \in Nat /\ c <= k
        BY <2>1
    <2>. DEFINE new == page[p].new
                kept == [i \in DOMAIN page[p].old |-> page[p].old[i].line]
                older == Reverse(kept)
    <2>6. new \in Seq(Text)
        BY <2>2 DEF Loads
    <2>7. /\ older \in Seq(Text) /\ Len(older) = c
          /\ \A i \in 1..c : older[i] = EventLine(k - c + i).line
        <3>1. /\ DOMAIN page[p].old = 1..c
              /\ \A i \in 1..c : page[p].old[i] = EventLine(k + 1 - i)
            BY <2>4, <2>5, BlockIs
        <3>2. /\ kept = [i \in 1..c |-> EventLine(k + 1 - i).line]
            BY <3>1
        <3>. HIDE DEF kept
        <3>3. Len(kept) = c
            BY <2>5, <3>2
        <3>4. older = [i \in 1..c |-> kept[c - i + 1]]
            BY <3>3 DEF Reverse
        <3>5. ASSUME NEW i \in 1..c
              PROVE  older[i] = EventLine(k - c + i).line /\ older[i] \in Text
            <4>1. /\ c - i + 1 \in 1..c /\ k + 1 - (c - i + 1) = k - c + i
                  /\ k - c + i \in 1..Len(Messages)
                BY <2>1, <2>5
            <4>. HIDE DEF older
            <4>. QED  BY <3>2, <3>4, <4>1, EventText
        <3>. HIDE DEF older
        <3>6. older \in [1..c -> Text]
            BY <3>4, <3>5
        <3>. QED  BY <2>5, <3>5, <3>6
    <2>8. Shown(p) = older \o new
        BY DEF Shown
    <2>. HIDE DEF older, new
    <2>9. /\ Shown(p) \in Seq(Text) /\ DOMAIN Shown(p) = 1..(c + Len(new)) /\ Len(new) \in Nat
          /\ DOMAIN new = 1..Len(new)
          /\ \A i \in 1..c : Shown(p)[i] = older[i]
          /\ \A i \in 1..Len(new) : Shown(p)[c + i] = new[i]
        <3>. DEFINE s == older \o new
        <3>1. /\ s \in Seq(Text) /\ Len(s) = Len(older) + Len(new)
              /\ \A i \in 1..Len(older) + Len(new) :
                    s[i] = IF i <= Len(older) THEN older[i] ELSE new[i - Len(older)]
            BY <2>6, <2>7, ConcatProperties
        <3>2. Len(new) \in Nat /\ DOMAIN new = 1..Len(new)
            BY <2>6
        <3>. HIDE DEF s
        <3>3. DOMAIN s = 1..(c + Len(new)) /\ \A i \in 1..c : s[i] = older[i]
            BY <2>5, <2>7, <3>1, <3>2
        <3>4. ASSUME NEW i \in 1..Len(new) PROVE s[c + i] = new[i]
            <4>1. c + i \in 1..c + Len(new) /\ ~(c + i <= c) /\ c + i - c = i
                BY <2>5, <3>2
            <4>. QED  BY <2>7, <3>1, <4>1
        <3>. QED  BY <2>8, <3>1, <3>2, <3>3, <3>4 DEF s
    <2>10. CASE n > k
        <3>1. Coming(p, page[p], n)
            <4>1. n \in (k + 1)..logged
                BY <2>1, <2>5, <2>10
            <4>. QED  BY <2>4, <4>1
        <3>2. PICK i \in DOMAIN new : new[i] # <<>> /\ new[i][1] = Messages[n]
            BY <3>1 DEF Coming, Seen, new
        <3>3. c + i \in DOMAIN Shown(p) /\ Shown(p)[c + i] = new[i]
            BY <2>5, <2>9
        <3>4. c + i \in Positions(p, n)
            BY <3>2, <3>3 DEF Positions
        <3>. QED  BY <3>4
    <2>11. CASE n <= k /\ n > k - c
        <3>. DEFINE i == n - (k - c)
        <3>1. i \in 1..c /\ k - c + i = n /\ i \in 1..(c + Len(new))
            BY <2>1, <2>5, <2>9, <2>11
        <3>. HIDE DEF i
        <3>2. Shown(p)[i] = EventLine(n).line
            BY <2>7, <2>9, <3>1
        <3>3. Shown(p)[i] # <<>> /\ Shown(p)[i][1] = Messages[n]
            BY <2>1, <3>2, EventText
        <3>4. i \in Positions(p, n)
            BY <2>9, <3>1, <3>3 DEF Positions
        <3>. QED  BY <3>4
    <2>12. CASE n <= k - c
        <3>1. c \in 1..c /\ k + 1 - c # 1
            BY <2>1, <2>4, <2>5, <2>12
        <3>2. Len(Block(k, c)) = c /\ Block(k, c)[c] = EventLine(k + 1 - c)
            BY <2>5, <3>1, BlockIs
        <3>3. page[p].old # <<>> /\ Last(page[p].old).position = 2 * (k + 1 - c) - 3
            BY <2>4, <3>1, <3>2 DEF Last, EventLine
        <3>. DEFINE a == k - c
        <3>4. a \in Nat /\ n \in 1..a /\ Chunk \in Nat /\ Chunk > 1
            BY <2>1, <2>5, <2>12, LogPageAssumption
        <3>5. LinesAbove(p) = a
            <4>1. (2 * (k + 1 - c) - 3 + 1) \div 2 = a
                BY <2>5
            <4>. QED  BY <3>3, <4>1 DEF LinesAbove
        <3>. HIDE DEF a
        <3>6. a % Chunk \in Nat /\ (a < Chunk => a % Chunk = a)
            BY <3>4, Remainder
        <3>7. page[p].end => a < Chunk
            BY <2>4 DEF a
        <3>. QED  BY <3>4, <3>5, <3>6, <3>7 DEF ToScrollTo, NeverKept
    <2>. QED  BY <2>1, <2>5, <2>10, <2>11, <2>12
<1>. QED  BY <1>1, InitInv, InitLoad, StepInv, StepLoad, PTL DEF Spec

-----------------------------------------------------------------------------
(* rev_lines_ex.rs:77-138, RevLines::next_line: whatever the text and      *)
(* wherever the chunks of whatever size cut it, the reader returns its     *)
(* lines, the last one first, none joined, split or left out.  So it does  *)
(* in every state for the texts the model is checked with.                 *)
THEOREM EveryTextIsRead ==
    /\ \A text \in Seq(Bytes), cap \in Nat \ {0} : SameLines(text, cap)
    /\ Spec => []ReadsAllLines
<1>1. ReadsAllLines
    <2>1. ASSUME NEW n \in 0..6 PROVE [1..n -> {LF, CR, "a"}] \subseteq Seq(Bytes)
        <3>1. n \in Nat /\ {LF, CR, "a"} \subseteq Bytes
            BY DEF Bytes
        <3>. QED  BY <3>1
    <2>2. \A text \in Texts : text \in Seq(Bytes)
        BY <2>1, Zenon DEF Texts
    <2>3. \A cap \in 1..4 : cap \in Nat \ {0}
        OBVIOUS
    <2>. QED  BY <2>2, <2>3, SameLinesHold, Zenon DEF ReadsAllLines
<1>2. Spec => []ReadsAllLines
    BY <1>1, PTL
<1>. QED  BY <1>2, SameLinesHold
=============================================================================
