-------------------------- MODULE SystemProxy_proof --------------------------
(***************************************************************************)
(* Proofs about SystemProxy, for any number of callers, services, addresses*)
(* and calls: on macOS nothing that was turned on is forgotten; and on     *)
(* every platform the system uses what the last call alone asked for.      *)
(***************************************************************************)
EXTENDS SystemProxy, TLAPS

-----------------------------------------------------------------------------
(* The inductive invariant, in its parts.                                  *)

Setting == [pac : Addresses \cup {None}, proxy : Addresses \cup {None},
            mode : {"none", "auto", "manual"}]
Task == [pc : {"idle", "list", "set", "swap", "listall", "clear"},
         want : Wants \cup {Off}, at : SUBSET Services, todo : SUBSET Services,
         step : Nat, old : Kinds, alone : BOOLEAN]

Typed ==
    /\ settings \in [Services -> Setting]
    /\ state \in Wants \cup {Off} /\ active \in SUBSET Services
    /\ task \in [Tasks -> Task] /\ failures \in Nat

(* Only a call that sets something lists the services and sets them. *)
Shape == \A t \in Tasks : task[t].pc \in {"list", "set"} => task[t].want \in Wants

(* Task t answers for kind k at service s: it is going to store k, or to   *)
(* turn it off there.                                                      *)
Answers(t, k, s) ==
    \/ task[t].pc \in {"set", "swap"} /\ task[t].want.kind = k
    \/ task[t].pc = "listall" /\ task[t].old = k
    \/ task[t].pc = "clear" /\ task[t].old = k /\ s \in task[t].todo

On(k, s) == settings[s][Field(k)] # None

(* What is on is what the state says, or some task answers for it.         *)
Remembered ==
    \A s \in Services, k \in {"Pac", "Proxy"} :
        On(k, s) => k = state.kind \/ \E t \in Tasks : Answers(t, k, s)

MacInv == Typed /\ Shape /\ (failures = 0 => Remembered)
IInv == platform = "macos" => MacInv

LEMMA InitInv == Init => IInv
<1>. SUFFICES ASSUME Init, platform = "macos" PROVE MacInv
    BY DEF IInv
<1>1. Idle \in Task
    BY DEF Idle, Task, Off, Kinds
<1>2. Typed
    BY <1>1 DEF Init, Typed, Setting
<1>3. Shape
    BY DEF Init, Shape, Idle
<1>4. Remembered
    BY DEF Init, Remembered, On, Field
<1>. QED  BY <1>2, <1>3, <1>4 DEF MacInv

(* A task that begins was idle and answered for nothing; for the others    *)
(* only `alone` changes.                                                   *)
LEMMA StartsInv ==
    ASSUME MacInv, NEW t \in Tasks, NEW want \in Wants \cup {Off}, NEW pc \in {"list", "swap"},
           Starts(t, pc, want), pc = "list" => want \in Wants,
           UNCHANGED <<settings, state, active, failures>>
    PROVE  MacInv'
<1>1. task' \in [Tasks -> Task]
    <2>1. Idle \in Task
        BY DEF Idle, Task, Off, Kinds
    <2>2. ASSUME NEW u \in Tasks PROVE task'[u] \in Task
        <3>1. CASE u = t
            BY <2>1, <3>1 DEF Starts, Task
        <3>2. CASE u # t
            BY <3>2 DEF Starts, MacInv, Typed, Task
        <3>. QED  BY <3>1, <3>2
    <2>. QED  BY <2>2 DEF Starts
<1>2. Typed'
    BY <1>1 DEF MacInv, Typed
<1>3. \A u \in Tasks \ {t} :
          /\ task'[u].pc = task[u].pc /\ task'[u].want = task[u].want
          /\ task'[u].old = task[u].old /\ task'[u].todo = task[u].todo
    BY DEF Starts, MacInv, Typed, Task
<1>4. task'[t].pc = pc /\ task'[t].want = want
    BY DEF Starts, Idle
<1>5. Shape'
    BY <1>3, <1>4 DEF MacInv, Shape
<1>6. \A k, s : ~Answers(t, k, s)
    BY DEF Starts, Answers
<1>7. failures' = 0 => Remembered'
    <2>. SUFFICES ASSUME failures' = 0, NEW s \in Services, NEW k \in {"Pac", "Proxy"},
                         On(k, s)', k # state'.kind
                  PROVE  \E u \in Tasks : Answers(u, k, s)'
        BY DEF Remembered
    <2>1. PICK u \in Tasks : Answers(u, k, s)
        BY DEF MacInv, Remembered, On
    <2>2. Answers(u, k, s)'
        BY <1>3, <1>6, <2>1 DEF Answers
    <2>. QED  BY <2>2
<1>. QED  BY <1>2, <1>5, <1>7 DEF MacInv

(* A task that moves on, the settings and the state as they were, still    *)
(* answers for all it answered for.                                        *)
LEMMA MovesInv ==
    ASSUME MacInv, NEW t \in Tasks, NEW new \in Task,
           task' = [task EXCEPT ![t] = new],
           new.pc \in {"list", "set"} => new.want \in Wants,
           failures = 0 /\ failures' = 0 => \A k \in {"Pac", "Proxy"}, s \in Services :
               Answers(t, k, s) => Answers(t, k, s)',
           UNCHANGED <<settings, state>>, active' \in SUBSET Services, failures' \in Nat,
           failures' = 0 => failures = 0
    PROVE  MacInv'
<1>1. Typed'
    BY DEF MacInv, Typed
<1>2. task'[t] = new /\ \A u \in Tasks \ {t} : task'[u] = task[u]
    BY DEF MacInv, Typed
<1>3. Shape'
    BY <1>2 DEF MacInv, Shape
<1>4. failures' = 0 => Remembered'
    <2>. SUFFICES ASSUME failures' = 0, NEW s \in Services, NEW k \in {"Pac", "Proxy"},
                         On(k, s)', k # state'.kind
                  PROVE  \E u \in Tasks : Answers(u, k, s)'
        BY DEF Remembered
    <2>1. PICK u \in Tasks : Answers(u, k, s)
        BY DEF MacInv, Remembered, On
    <2>2. Answers(u, k, s)'
        BY <1>2, <2>1 DEF Answers
    <2>. QED  BY <2>2
<1>. QED  BY <1>1, <1>3, <1>4 DEF MacInv

-----------------------------------------------------------------------------
(* The steps of a call on macOS.                                           *)

(* get_services(true) *)
LEMMA ListInv == ASSUME MacInv, NEW t \in Tasks, List(t) PROVE MacInv'
<1>. DEFINE new == [task[t] EXCEPT !.pc = "set", !.at = active, !.todo = active]
<1>1. new \in Task /\ new.pc = "set" /\ new.want = task[t].want
    BY DEF MacInv, Typed, Task
<1>2. task' = [task EXCEPT ![t] = new]
    BY DEF List
<1>3. new.want \in Wants
    BY <1>1 DEF List, MacInv, Shape
<1>4. \A k, s : ~Answers(t, k, s)
    BY DEF List, Answers
<1>. HIDE DEF new
<1>. QED  BY <1>1, <1>2, <1>3, <1>4, MovesInv DEF List, bounds, MacInv, Typed

LEMMA SetDoneInv == ASSUME MacInv, NEW t \in Tasks, SetDone(t) PROVE MacInv'
<1>. DEFINE new == [task[t] EXCEPT !.pc = "swap"]
<1>1. new \in Task /\ new.pc = "swap" /\ new.want = task[t].want
    BY DEF MacInv, Typed, Task
<1>2. task' = [task EXCEPT ![t] = new]
    BY DEF SetDone, Goes
<1>3. task'[t] = new
    BY <1>2 DEF MacInv, Typed
<1>4. \A k, s : Answers(t, k, s) => Answers(t, k, s)'
    BY <1>1, <1>3 DEF SetDone, Answers
<1>. HIDE DEF new
<1>. QED  BY <1>1, <1>2, <1>4, MovesInv DEF SetDone, bounds, MacInv, Typed

(* The function restore lists every service. *)
LEMMA ListAllInv == ASSUME MacInv, NEW t \in Tasks, ListAll(t) PROVE MacInv'
<1>. DEFINE new == [task[t] EXCEPT !.pc = "clear",
                        !.todo = IF task[t].old = "Off" THEN {} ELSE Services]
<1>1. new \in Task /\ new.pc = "clear" /\ new.old = task[t].old
      /\ (task[t].old # "Off" => new.todo = Services)
    BY DEF MacInv, Typed, Task
<1>2. task' = [task EXCEPT ![t] = new]
    BY DEF ListAll
<1>3. task'[t] = new
    BY <1>2 DEF MacInv, Typed
<1>4. \A k \in {"Pac", "Proxy"}, s \in Services : Answers(t, k, s) => Answers(t, k, s)'
    BY <1>1, <1>3 DEF ListAll, Answers
<1>. HIDE DEF new
<1>. QED  BY <1>1, <1>2, <1>4, MovesInv DEF ListAll, bounds, MacInv, Typed

(* A call that returns answered for nothing any more, or it failed. *)
LEMMA ReturnsInv ==
    ASSUME MacInv, NEW t \in Tasks, Returns(t), UNCHANGED <<settings, state, active>>,
           \/ failures' = failures /\ \A k \in {"Pac", "Proxy"}, s \in Services : ~Answers(t, k, s)
           \/ failures' = failures + 1
    PROVE  MacInv'
<1>1. Idle \in Task /\ Idle.pc = "idle"
    BY DEF Idle, Task, Off, Kinds
<1>2. task' = [task EXCEPT ![t] = Idle]
    BY DEF Returns
<1>3. /\ failures \in Nat /\ failures' \in Nat /\ (failures' = 0 => failures = 0)
      /\ active' \in SUBSET Services
    BY DEF MacInv, Typed
<1>4. failures = 0 /\ failures' = 0 => \A k \in {"Pac", "Proxy"}, s \in Services :
          Answers(t, k, s) => Answers(t, k, s)'
    BY <1>3
<1>. HIDE DEF Idle
<1>. QED  BY <1>1, <1>2, <1>3, <1>4, MovesInv

LEMMA ClearDoneInv == ASSUME MacInv, NEW t \in Tasks, ClearDone(t) PROVE MacInv'
<1>1. \A k, s : ~Answers(t, k, s)
    BY DEF ClearDone, Answers
<1>. QED  BY <1>1, ReturnsInv DEF ClearDone, Ends, bounds

LEMMA FailsInv == ASSUME MacInv, NEW t \in Tasks, Fails(t) PROVE MacInv'
<1>. QED  BY ReturnsInv DEF Fails

(* A service is set for the kind the task is going to store. *)
LEMMA SetOneInv ==
    ASSUME MacInv, NEW t \in Tasks, NEW r \in Services, SetOne(t, r)
    PROVE  MacInv'
<1>. DEFINE want == task[t].want
<1>1. want \in Wants /\ task[t] \in Task
    BY DEF SetOne, MacInv, Typed, Shape
<1>2. settings' = [settings EXCEPT ![r][Field(want.kind)] = want.address]
    BY DEF SetOne
<1>3. task'[t] = [task[t] EXCEPT !.todo = @ \ {r}] /\ \A u \in Tasks \ {t} : task'[u] = task[u]
    BY DEF SetOne, MacInv, Typed
<1>4. Typed'
    <2>1. settings' \in [Services -> Setting]
        BY <1>1, <1>2 DEF MacInv, Typed, Setting, Field, Wants
    <2>2. task' \in [Tasks -> Task]
        BY DEF SetOne, MacInv, Typed, Task
    <2>. QED  BY <2>1, <2>2 DEF SetOne, MacInv, Typed, bounds
<1>5. Shape'
    BY <1>1, <1>3 DEF MacInv, Shape, Task
<1>6. \A u \in Tasks, k \in {"Pac", "Proxy"}, s \in Services :
          Answers(u, k, s) => Answers(u, k, s)'
    BY <1>1, <1>3 DEF SetOne, Answers, Task
<1>7. Answers(t, want.kind, r)'
    BY <1>1, <1>3 DEF SetOne, Answers, Task
<1>8. \A s \in Services, k \in {"Pac", "Proxy"} :
          On(k, s)' => On(k, s) \/ (s = r /\ k = want.kind)
    BY <1>1, <1>2 DEF MacInv, Typed, Setting, On, Field, Wants
<1>9. failures' = 0 => Remembered'
    BY <1>6, <1>7, <1>8 DEF SetOne, MacInv, Remembered, bounds
<1>. QED  BY <1>4, <1>5, <1>9 DEF MacInv

(* A service is cleared of the kind the task answers for. *)
LEMMA ClearOneInv ==
    ASSUME MacInv, NEW t \in Tasks, NEW r \in Services, ClearOne(t, r)
    PROVE  MacInv'
<1>. DEFINE old == task[t].old
<1>1. old \in Kinds /\ task[t] \in Task /\ task[t].pc = "clear"
    BY DEF ClearOne, MacInv, Typed, Task
<1>2. settings' = [settings EXCEPT ![r][Field(old)] = None]
    BY DEF ClearOne
<1>3. task'[t] = [task[t] EXCEPT !.todo = @ \ {r}] /\ \A u \in Tasks \ {t} : task'[u] = task[u]
    BY DEF ClearOne, MacInv, Typed
<1>4. Typed'
    <2>1. settings' \in [Services -> Setting]
        BY <1>1, <1>2 DEF MacInv, Typed, Setting, Field, Kinds
    <2>2. task' \in [Tasks -> Task]
        BY DEF ClearOne, MacInv, Typed, Task
    <2>. QED  BY <2>1, <2>2 DEF ClearOne, MacInv, Typed, bounds
<1>5. Shape'
    BY <1>1, <1>3 DEF MacInv, Shape, Task
<1>6. \A u \in Tasks, k \in {"Pac", "Proxy"}, s \in Services :
          Answers(u, k, s) => Answers(u, k, s)' \/ (s = r /\ k = old)
    BY <1>1, <1>3 DEF Answers, Task
<1>7. \A s \in Services, k \in {"Pac", "Proxy"} :
          On(k, s)' => On(k, s) /\ ~(s = r /\ k = old)
    BY <1>1, <1>2 DEF MacInv, Typed, Setting, On, Field, Kinds
<1>8. failures' = 0 => Remembered'
    BY <1>6, <1>7 DEF ClearOne, MacInv, Remembered, bounds
<1>. QED  BY <1>4, <1>5, <1>8 DEF MacInv

(* repalce_state: the kind that was stored before becomes the task's to    *)
(* turn off, unless it is the one stored now.                              *)
LEMMA SwapInv == ASSUME MacInv, NEW t \in Tasks, Swap(t) PROVE MacInv'
<1>. DEFINE want == task[t].want
<1>1. want \in Wants \cup {Off} /\ task[t] \in Task /\ task[t].pc = "swap"
    BY DEF Swap, MacInv, Typed, Task
<1>2. state' = want /\ settings' = settings /\ active' = active /\ failures' = failures
    BY DEF Swap, bounds
<1>3. state.kind \in Kinds /\ want.kind \in Kinds
    BY <1>1 DEF MacInv, Typed, Wants, Off, Kinds
<1>4. \/ task' = [task EXCEPT ![t] = Idle] /\ state.kind \in {"Off", want.kind}
      \/ task' = [task EXCEPT ![t].pc = "listall", ![t].old = state.kind]
    BY DEF Swap, Ends, Returns
<1>5. task' \in [Tasks -> Task]
    <2>1. Idle \in Task
        BY DEF Idle, Task, Off, Kinds
    <2>2. [task[t] EXCEPT !.pc = "listall", !.old = state.kind] \in Task
        BY <1>1, <1>3 DEF Task
    <2>. QED  BY <1>4, <2>1, <2>2 DEF MacInv, Typed
<1>6. /\ task'[t].pc \in {"idle", "listall"}
      /\ state.kind \notin {"Off", want.kind} => task'[t].pc = "listall" /\ task'[t].old = state.kind
      /\ \A u \in Tasks \ {t} : task'[u] = task[u]
    BY <1>1, <1>4 DEF MacInv, Typed, Idle, Task
<1>7. Typed'
    BY <1>1, <1>2, <1>5 DEF MacInv, Typed
<1>8. Shape'
    BY <1>6 DEF MacInv, Shape
<1>9. failures' = 0 => Remembered'
    <2>. SUFFICES ASSUME failures = 0, NEW s \in Services, NEW k \in {"Pac", "Proxy"},
                         On(k, s), k # want.kind
                  PROVE  \E u \in Tasks : Answers(u, k, s)'
        BY <1>2 DEF Remembered, On
    <2>1. CASE k = state.kind
        BY <1>6, <2>1 DEF Answers
    <2>2. CASE k # state.kind
        <3>1. PICK u \in Tasks : Answers(u, k, s)
            BY <2>2 DEF MacInv, Remembered
        <3>2. u # t
            BY <1>1, <3>1 DEF Answers
        <3>. QED  BY <1>6, <3>1, <3>2 DEF Answers
    <2>. QED  BY <2>1, <2>2
<1>. QED  BY <1>7, <1>8, <1>9 DEF MacInv

LEMMA StepInv == IInv /\ [Next]_vars => IInv'
<1>. SUFFICES ASSUME IInv, [Next]_vars, platform' = "macos" PROVE MacInv'
    BY DEF IInv
<1>1. platform = "macos" /\ MacInv
    BY ZenonT(20)
       DEF IInv, Next, vars, bounds, Call, Update, Change, MacStep, List, SetOne, SetDone, Swap,
           ListAll, ClearOne, ClearDone, Fails, Command, CommandIgnored
<1>2. ASSUME NEW t \in Callers, NEW want \in Wants \cup {Off}, Call(t, want) PROVE MacInv'
    <2>1. t \in Tasks /\ (want.kind # "Off" => want \in Wants)
        BY DEF Tasks, Off
    <2>2. CASE want.kind = "Off"
        BY <1>1, <1>2, <2>1, <2>2, StartsInv DEF Call
    <2>3. CASE want.kind # "Off"
        BY <1>1, <1>2, <2>1, <2>3, StartsInv DEF Call
    <2>. QED  BY <2>2, <2>3
<1>3. CASE Update
    <2>1. Monitor \in Tasks /\ state \in Wants \cup {Off} /\ (state.kind # "Off" => state \in Wants)
        BY <1>1 DEF Tasks, MacInv, Typed, Off
    <2>2. CASE state.kind # "Off"
        BY <1>1, <1>3, <2>1, <2>2, StartsInv DEF Update, bounds
    <2>3. CASE state.kind = "Off"
        BY <1>1, <1>3, <2>3 DEF Update, bounds, MacInv, Typed, Shape, Remembered, On, Answers
    <2>. QED  BY <2>2, <2>3
<1>4. ASSUME NEW s \in Services, Change(s) PROVE MacInv'
    <2>1. active' \in SUBSET Services
        BY <1>1, <1>4 DEF Change, MacInv, Typed
    <2>. QED  BY <1>1, <1>4, <2>1 DEF Change, MacInv, Typed, Shape, Remembered, On, Answers
<1>5. ASSUME NEW t \in Tasks, MacStep(t) PROVE MacInv'
    BY <1>1, <1>5, ListInv, SetDoneInv, SwapInv, ListAllInv, ClearDoneInv, SetOneInv, ClearOneInv
       DEF MacStep
<1>6. ASSUME NEW t \in Tasks, Fails(t) PROVE MacInv'
    BY <1>1, <1>6, FailsInv
<1>7. ASSUME NEW t \in Tasks, Command(t) \/ CommandIgnored(t) PROVE MacInv'
    BY <1>1, <1>7 DEF Command, CommandIgnored, MacInv, Typed, Task
<1>8. CASE UNCHANGED vars
    BY <1>1, <1>8 DEF vars, bounds, MacInv, Typed, Shape, Remembered, On, Answers
<1>. QED  BY <1>2, <1>3, <1>4, <1>5, <1>6, <1>7, <1>8 DEF Next

(* macos.rs:38-120: whatever calls and the monitor overlap, what is on when*)
(* none of them runs is what the state remembers.                          *)
THEOREM NothingIsForgotten == Spec => []NothingForgotten
<1>1. IInv => NothingForgotten
    <2>. SUFFICES ASSUME IInv, platform = "macos", InFlight = {}, failures = 0,
                         NEW s \in Services, NEW u \in Uses(s)
                  PROVE  u[1] = state.kind
        BY DEF NothingForgotten
    <2>1. u[1] \in {"Pac", "Proxy"} /\ On(u[1], s)
        BY DEF Uses, On, Field
    <2>2. \A t \in Tasks : task[t].pc = "idle"
        BY DEF InFlight
    <2>3. \A t \in Tasks, k \in {"Pac", "Proxy"} : ~Answers(t, k, s)
        BY <2>2 DEF Answers
    <2>. QED  BY <2>1, <2>3 DEF IInv, MacInv, Remembered
<1>. QED  BY <1>1, InitInv, StepInv, PTL DEF Spec

-----------------------------------------------------------------------------
(* What a call alone has set.  While one that began alone is under way no  *)
(* other is; once it has ended well none has begun.                        *)
Alone ==
    /\ \A t \in Tasks : task[t].pc # "idle" /\ task[t].alone =>
          \A u \in Tasks \ {t} : task[u].pc = "idle"
    /\ asked.known => InFlight = {}
    /\ asked \in [want : Wants \cup {Off}, at : SUBSET Services, known : BOOLEAN]

LEMMA AloneMoves ==
    ASSUME Alone, NEW t \in Tasks, task[t].pc # "idle",
           \A u \in Tasks \ {t} : task'[u] = task[u],
           task'[t].pc = "idle" \/ (task'[t].alone => task[t].alone),
           \/ asked' = asked
           \/ task[t].alone /\ task'[t].pc = "idle"
              /\ asked' \in [want : Wants \cup {Off}, at : SUBSET Services, known : BOOLEAN]
    PROVE  Alone' /\ (task[t].alone => \A u \in Tasks \ {t} : task[u].pc = "idle")
<1>1. ~asked.known
    BY DEF Alone, InFlight
<1>2. task[t].alone => \A u \in Tasks \ {t} : task[u].pc = "idle"
    BY DEF Alone
<1>3. ASSUME NEW u \in Tasks, task'[u].pc # "idle", task'[u].alone
      PROVE  \A v \in Tasks \ {u} : task'[v].pc = "idle"
    <2>1. CASE u = t
        BY <1>2, <1>3, <2>1
    <2>2. CASE u # t
        BY <1>3, <2>2 DEF Alone
    <2>. QED  BY <2>1, <2>2
<1>4. asked'.known => InFlight' = {}
    BY <1>1, <1>2 DEF InFlight
<1>. QED  BY <1>2, <1>3, <1>4 DEF Alone

LEMMA AloneStarts ==
    ASSUME NEW t \in Tasks, NEW pc, pc # "idle", NEW want, Starts(t, pc, want),
           \A u \in Tasks : {"pc", "alone"} \subseteq DOMAIN task[u]
    PROVE  /\ Alone' /\ ~asked'.known
           /\ task'[t] = [Idle EXCEPT !.pc = pc, !.want = want, !.alone = (InFlight = {})]
           /\ \A u \in Tasks \ {t} : task'[u] = [task[u] EXCEPT !.alone = FALSE]
                                       /\ ~task'[u].alone
<1>1. /\ task'[t] = [Idle EXCEPT !.pc = pc, !.want = want, !.alone = (InFlight = {})]
      /\ \A u \in Tasks \ {t} : task'[u] = [task[u] EXCEPT !.alone = FALSE]
    BY DEF Starts
<1>2. asked' = Nothing /\ ~Nothing.known
      /\ Nothing \in [want : Wants \cup {Off}, at : SUBSET Services, known : BOOLEAN]
    BY DEF Starts, Nothing
<1>3. task'[t].alone => InFlight = {}
    BY <1>1 DEF Idle
<1>4. \A u \in Tasks \ {t} : ~task'[u].alone /\ task'[u].pc = task[u].pc
    BY <1>1
<1>5. ASSUME NEW u \in Tasks, task'[u].pc # "idle", task'[u].alone
      PROVE  \A v \in Tasks \ {u} : task'[v].pc = "idle"
    <2>1. u = t /\ InFlight = {}
        BY <1>3, <1>4, <1>5
    <2>. QED  BY <1>4, <2>1 DEF InFlight
<1>. QED  BY <1>1, <1>2, <1>4, <1>5 DEF Alone

(* macOS.  A call alone has set the services it listed, but those it has   *)
(* still to set; from `swap` on the state is what it wants, and what it    *)
(* turns off is of another kind.                                           *)
IsSet(f, w, s) == w.kind # "Off" /\ f[s][Field(w.kind)] = w.address
MacDoes(r, f, st) ==
    /\ r.pc = "list" => r.at = {}
    /\ r.pc = "set" => r.todo \subseteq r.at
    /\ \A s \in r.at : (r.pc = "set" /\ s \in r.todo) \/ IsSet(f, r.want, s)
    /\ r.pc \in {"listall", "clear"} => st = r.want /\ (r.old = r.want.kind => r.old = "Off")
    /\ r.pc = "clear" /\ r.old = "Off" => r.todo = {}
MacProgress ==
    /\ \A t \in Tasks : task[t].pc # "idle" /\ task[t].alone => MacDoes(task[t], settings, state)
    /\ asked.known => state = asked.want /\ \A s \in asked.at : IsSet(settings, asked.want, s)
MacAll == platform = "macos" => MacInv /\ Alone /\ MacProgress

LEMMA InitMacAll == Init => MacAll
<1>. SUFFICES ASSUME Init, platform = "macos" PROVE MacInv /\ Alone /\ MacProgress
    BY DEF MacAll
<1>1. MacInv
    BY InitInv DEF IInv
<1>2. \A t \in Tasks : task[t].pc = "idle"
    BY DEF Init, Idle
<1>3. asked = Nothing /\ ~Nothing.known
      /\ Nothing \in [want : Wants \cup {Off}, at : SUBSET Services, known : BOOLEAN]
    BY DEF Init, Nothing
<1>. QED  BY <1>1, <1>2, <1>3 DEF Alone, MacProgress

LEMMA MacMoves ==
    ASSUME Alone, MacProgress, NEW t \in Tasks, task[t].pc # "idle",
           \A u \in Tasks \ {t} : task'[u] = task[u],
           task'[t].pc = "idle" \/ (task'[t].alone => task[t].alone),
           task'[t].pc # "idle" /\ task'[t].alone => MacDoes(task'[t], settings', state'),
           \/ asked' = asked
           \/ /\ task[t].alone /\ task'[t].pc = "idle"
              /\ asked' \in [want : Wants \cup {Off}, at : SUBSET Services, known : BOOLEAN]
              /\ state' = asked'.want /\ \A s \in asked'.at : IsSet(settings', asked'.want, s)
    PROVE  Alone' /\ MacProgress'
<1>1. Alone'
    BY AloneMoves
<1>2. ~asked.known
    BY DEF Alone, InFlight
<1>3. ASSUME NEW u \in Tasks, task'[u].pc # "idle", task'[u].alone
      PROVE  MacDoes(task'[u], settings', state')
    <2>1. u = t
        BY <1>3 DEF Alone
    <2>. QED  BY <1>3, <2>1
<1>. QED  BY <1>1, <1>2, <1>3 DEF MacProgress

LEMMA MacStarts ==
    ASSUME MacInv, NEW t \in Tasks, NEW want, NEW pc \in {"list", "swap"}, Starts(t, pc, want)
    PROVE  Alone' /\ MacProgress'
<1>1. \A u \in Tasks : {"pc", "alone"} \subseteq DOMAIN task[u]
    BY DEF MacInv, Typed, Task
<1>2. /\ Alone' /\ ~asked'.known
      /\ task'[t] = [Idle EXCEPT !.pc = pc, !.want = want, !.alone = (InFlight = {})]
      /\ \A u \in Tasks \ {t} : ~task'[u].alone
    <2>1. pc # "idle"
        OBVIOUS
    <2>2. /\ Alone' /\ ~asked'.known
          /\ task'[t] = [Idle EXCEPT !.pc = pc, !.want = want, !.alone = (InFlight = {})]
          /\ \A u \in Tasks \ {t} : task'[u] = [task[u] EXCEPT !.alone = FALSE]
                                      /\ ~task'[u].alone
        BY <1>1, <2>1, AloneStarts, Zenon
    <2>. QED  BY <2>2, Zenon
<1>3. task'[t].pc = pc /\ task'[t].at = {}
    BY <1>2 DEF Idle
<1>4. MacDoes(task'[t], settings', state')
    BY <1>3 DEF MacDoes
<1>. QED  BY <1>2, <1>4 DEF MacProgress

LEMMA MacReturns ==
    ASSUME MacInv, NEW t \in Tasks, Returns(t)
    PROVE  task'[t].pc = "idle" /\ \A u \in Tasks \ {t} : task'[u] = task[u]
BY DEF Returns, MacInv, Typed, Idle

(* A call ends when it is nothing but set, and stored.                     *)
LEMMA MacEnds ==
    ASSUME MacInv, Alone, MacProgress, NEW t \in Tasks, task[t].pc # "idle", Ends(t),
           task[t].alone => /\ state' = task[t].want
                            /\ \A s \in task[t].at : IsSet(settings', task[t].want, s),
           UNCHANGED settings
    PROVE  Alone' /\ MacProgress'
<1>1. task'[t].pc = "idle" /\ \A u \in Tasks \ {t} : task'[u] = task[u]
    BY MacReturns DEF Ends
<1>2. task[t] \in Task
    BY DEF MacInv, Typed
<1>3. CASE task[t].alone
    <2>1. asked' = [want |-> task[t].want, at |-> task[t].at, known |-> TRUE]
        BY <1>3 DEF Ends
    <2>2. asked' \in [want : Wants \cup {Off}, at : SUBSET Services, known : BOOLEAN]
        BY <1>2, <2>1 DEF Task
    <2>3. state' = asked'.want /\ \A s \in asked'.at : IsSet(settings', asked'.want, s)
        BY <1>3, <2>1 DEF IsSet
    <2>. QED  BY <1>1, <1>3, <2>2, <2>3, MacMoves
<1>4. CASE ~task[t].alone
    BY <1>1, <1>4, MacMoves DEF Ends
<1>. QED  BY <1>3, <1>4

LEMMA MacStepAll ==
    ASSUME MacInv, Alone, MacProgress, NEW t \in Tasks, MacStep(t)
    PROVE  Alone' /\ MacProgress'
<1>1. task[t] \in Task /\ task \in [Tasks -> Task] /\ settings \in [Services -> Setting]
    BY DEF MacInv, Typed
<1>. DEFINE Becomes(x) == task' = [task EXCEPT ![t] = x]
<1>2. ASSUME NEW x \in Task, Becomes(x), x.alone = task[t].alone, UNCHANGED asked,
             task[t].pc # "idle", task[t].alone => MacDoes(x, settings', state')
      PROVE  Alone' /\ MacProgress'
    <2>1. task'[t] = x /\ \A u \in Tasks \ {t} : task'[u] = task[u]
        BY <1>1, <1>2
    <2>2. task'[t].alone => MacDoes(task'[t], settings', state')
        BY <1>2, <2>1 DEF MacDoes, IsSet
    <2>. QED  BY <1>2, <2>1, <2>2, MacMoves
<1>3. task[t].pc # "idle" /\ task[t].alone => MacDoes(task[t], settings, state)
    BY DEF MacProgress
<1>4. CASE List(t)
    <2>. DEFINE x == [task[t] EXCEPT !.pc = "set", !.at = active, !.todo = active]
    <2>1. /\ x \in Task /\ x.alone = task[t].alone /\ x.pc = "set"
          /\ x.at = active /\ x.todo = active
        BY <1>1 DEF MacInv, Typed, Task
    <2>2. Becomes(x) /\ task[t].pc # "idle" /\ UNCHANGED asked
        BY <1>4, Zenon DEF List
    <2>. HIDE DEF x
    <2>3. MacDoes(x, settings', state')
        BY <2>1 DEF MacDoes
    <2>. QED  BY <1>2, <2>1, <2>2, <2>3
<1>5. CASE \E s \in Services : SetOne(t, s)
    <2>1. PICK r \in Services : SetOne(t, r)
        BY <1>5
    <2>. DEFINE x == [task[t] EXCEPT !.todo = task[t].todo \ {r}]
    <2>2. /\ x \in Task /\ x.alone = task[t].alone /\ x.pc = "set" /\ task[t].pc = "set"
          /\ x.at = task[t].at /\ x.todo = task[t].todo \ {r} /\ x.want = task[t].want
        BY <1>1, <2>1 DEF SetOne, Task
    <2>3. Becomes(x) /\ UNCHANGED asked
        BY <2>1, Zenon DEF SetOne
    <2>. HIDE DEF x
    <2>4. x.want \in Wants
        BY <2>2 DEF MacInv, Shape
    <2>5. settings' = [settings EXCEPT ![r][Field(x.want.kind)] = x.want.address]
        BY <2>1, <2>2 DEF SetOne
    <2>6. /\ x.want.kind # "Off" /\ IsSet(settings', x.want, r)
          /\ \A s \in Services : IsSet(settings, x.want, s) => IsSet(settings', x.want, s)
        BY <1>1, <2>4, <2>5 DEF IsSet, Setting, Field, Wants
    <2>7. x.at \subseteq Services
        BY <2>2 DEF Task
    <2>8. task[t].alone => MacDoes(x, settings', state')
        BY <1>3, <2>2, <2>6, <2>7 DEF MacDoes
    <2>. QED  BY <1>2, <2>2, <2>3, <2>8
<1>6. CASE SetDone(t)
    <2>. DEFINE x == [task[t] EXCEPT !.pc = "swap"]
    <2>1. /\ x \in Task /\ x.alone = task[t].alone /\ x.pc = "swap" /\ task[t].pc = "set"
          /\ x.at = task[t].at /\ task[t].todo = {} /\ x.want = task[t].want
        BY <1>1, <1>6 DEF SetDone, Task
    <2>2. Becomes(x) /\ UNCHANGED <<asked, settings>>
        BY <1>6, Zenon DEF SetDone, Goes
    <2>. HIDE DEF x
    <2>3. task[t].alone => MacDoes(x, settings', state')
        BY <1>3, <2>1, <2>2 DEF MacDoes, IsSet
    <2>. QED  BY <1>2, <2>1, <2>2, <2>3
<1>7. CASE Swap(t)
    <2>1. task[t].pc = "swap" /\ state' = task[t].want /\ UNCHANGED settings
        BY <1>7 DEF Swap
    <2>2. task[t].alone => \A s \in task[t].at : IsSet(settings', task[t].want, s)
        BY <1>3, <2>1 DEF MacDoes, IsSet
    <2>3. CASE task[t].want.kind # "Off" /\ state.kind \in {"Off", task[t].want.kind}
        BY <1>7, <2>1, <2>2, <2>3, MacEnds DEF Swap
    <2>4. CASE ~(task[t].want.kind # "Off" /\ state.kind \in {"Off", task[t].want.kind})
        <3>. DEFINE x == [task[t] EXCEPT !.pc = "listall", !.old = state.kind]
        <3>1. state.kind \in Kinds
            BY DEF MacInv, Typed, Wants, Off, Kinds
        <3>2. /\ x \in Task /\ x.alone = task[t].alone /\ x.pc = "listall" /\ x.old = state.kind
              /\ x.at = task[t].at /\ x.want = task[t].want
            BY <1>1, <3>1 DEF Task
        <3>3. Becomes(x) /\ UNCHANGED asked
            BY <1>7, <2>4, Zenon DEF Swap
        <3>. HIDE DEF x
        <3>4. task[t].alone => MacDoes(x, settings', state')
            BY <2>1, <2>2, <2>4, <3>2 DEF MacDoes, IsSet
        <3>. QED  BY <1>2, <2>1, <3>2, <3>3, <3>4
    <2>. QED  BY <2>3, <2>4
<1>8. CASE ListAll(t)
    <2>. DEFINE x == [task[t] EXCEPT !.pc = "clear",
                          !.todo = IF task[t].old = "Off" THEN {} ELSE Services]
    <2>1. /\ x \in Task /\ x.alone = task[t].alone /\ x.pc = "clear" /\ x.old = task[t].old
          /\ x.at = task[t].at /\ x.want = task[t].want
          /\ task[t].old = "Off" => x.todo = {}
        BY <1>1 DEF Task
    <2>2. Becomes(x) /\ UNCHANGED <<asked, settings, state>> /\ task[t].pc = "listall"
        BY <1>8, Zenon DEF ListAll
    <2>. HIDE DEF x
    <2>3. task[t].alone => MacDoes(x, settings', state')
        BY <1>3, <2>1, <2>2 DEF MacDoes, IsSet
    <2>. QED  BY <1>2, <2>1, <2>2, <2>3
<1>9. CASE \E s \in Services : ClearOne(t, s)
    <2>1. PICK r \in Services : ClearOne(t, r)
        BY <1>9
    <2>. DEFINE x == [task[t] EXCEPT !.todo = task[t].todo \ {r}]
    <2>2. /\ x \in Task /\ x.alone = task[t].alone /\ x.pc = "clear" /\ task[t].pc = "clear"
          /\ x.at = task[t].at /\ x.todo = task[t].todo \ {r} /\ x.want = task[t].want
          /\ x.old = task[t].old /\ r \in task[t].todo
        BY <1>1, <2>1 DEF ClearOne, Task
    <2>3. Becomes(x) /\ UNCHANGED <<asked, state>>
        BY <2>1, Zenon DEF ClearOne
    <2>. HIDE DEF x
    <2>4. settings' = [settings EXCEPT ![r][Field(x.old)] = None]
        BY <2>1, <2>2 DEF ClearOne
    <2>5. x.want \in Wants \cup {Off} /\ x.old \in Kinds /\ x.at \subseteq Services
        BY <2>2 DEF Task
    <2>6. ASSUME task[t].alone, NEW s \in x.at PROVE IsSet(settings', x.want, s)
        <3>1. MacDoes(task[t], settings, state)
            BY <1>3, <2>2, <2>6
        <3>2. IsSet(settings, x.want, s) /\ x.want.kind # "Off"
            BY <2>2, <3>1 DEF MacDoes, IsSet
        <3>3. x.old # "Off" /\ x.old # x.want.kind
            BY <2>2, <3>1, <3>2 DEF MacDoes
        <3>4. Field(x.old) # Field(x.want.kind) /\ Field(x.want.kind) \in {"pac", "proxy"}
            BY <2>5, <3>2, <3>3 DEF Field, Kinds, Wants, Off
        <3>5. settings'[s][Field(x.want.kind)] = settings[s][Field(x.want.kind)]
            BY <1>1, <2>4, <2>5, <3>4 DEF Setting, Field
        <3>. QED  BY <3>2, <3>5 DEF IsSet
    <2>7. task[t].alone => MacDoes(x, settings', state')
        BY <1>3, <2>2, <2>3, <2>6 DEF MacDoes
    <2>. QED  BY <1>2, <2>2, <2>3, <2>7
<1>10. CASE ClearDone(t)
    <2>1. task[t].pc = "clear" /\ UNCHANGED <<settings, state>> /\ Ends(t)
        BY <1>10 DEF ClearDone
    <2>2. task[t].alone => state' = task[t].want /\ \A s \in task[t].at : IsSet(settings', task[t].want, s)
        BY <1>3, <2>1 DEF MacDoes, IsSet
    <2>. QED  BY <2>1, <2>2, MacEnds
<1>. QED  BY <1>4, <1>5, <1>6, <1>7, <1>8, <1>9, <1>10 DEF MacStep

LEMMA StepMacAll == MacAll /\ [Next]_vars => MacAll'
<1>. SUFFICES ASSUME MacAll, [Next]_vars, platform' = "macos"
              PROVE  MacInv' /\ Alone' /\ MacProgress'
    BY DEF MacAll
<1>1. platform = "macos"
    BY DEF Next, vars, bounds, Call, Update, Change, MacStep, List, SetOne, SetDone, Swap,
           ListAll, ClearOne, ClearDone, Fails, Command, CommandIgnored
<1>2. MacInv /\ Alone /\ MacProgress
    BY <1>1 DEF MacAll
<1>3. MacInv'
    BY <1>1, <1>2, StepInv DEF IInv
<1>4. ASSUME NEW t \in Callers, NEW want \in Wants \cup {Off}, Call(t, want)
      PROVE  Alone' /\ MacProgress'
    <2>1. t \in Tasks
        BY DEF Tasks
    <2>2. Starts(t, IF want.kind = "Off" THEN "swap" ELSE "list", want)
        BY <1>1, <1>4 DEF Call
    <2>. QED  BY <1>2, <2>1, <2>2, MacStarts
<1>5. CASE UNCHANGED <<task, asked, settings, state>>
    <2>1. Alone'
        BY <1>2, <1>5 DEF Alone, InFlight
    <2>2. MacProgress'
        BY <1>2, <1>5 DEF MacProgress
    <2>. QED  BY <1>3, <2>1, <2>2
<1>6. CASE Update
    <2>1. Monitor \in Tasks
        BY DEF Tasks
    <2>2. CASE state.kind = "Off"
        <3>1. UNCHANGED <<task, asked, settings, state>>
            BY <1>6, <2>2 DEF Update
        <3>. QED  BY <1>5, <3>1
    <2>3. CASE state.kind # "Off"
        <3>1. Starts(Monitor, "list", state)
            BY <1>6, <2>3 DEF Update
        <3>. QED  BY <1>2, <1>3, <2>1, <3>1, MacStarts
    <2>. QED  BY <2>2, <2>3
<1>7. ASSUME NEW t \in Tasks, Fails(t) PROVE Alone' /\ MacProgress'
    <2>1. /\ task'[t].pc = "idle" /\ \A u \in Tasks \ {t} : task'[u] = task[u]
          /\ task[t].pc # "idle" /\ UNCHANGED asked
        BY <1>2, <1>7, MacReturns DEF Fails
    <2>. QED  BY <1>2, <2>1, MacMoves
<1>8. ASSUME NEW t \in Tasks PROVE ~Command(t) /\ ~CommandIgnored(t)
    BY <1>2 DEF Command, CommandIgnored, MacInv, Typed, Task
<1>9. (\E s \in Services : Change(s)) \/ UNCHANGED vars => UNCHANGED <<task, asked, settings, state>>
    BY DEF Change, vars
<1>. QED  BY <1>2, <1>3, <1>4, <1>5, <1>6, <1>7, <1>8, <1>9, MacStepAll DEF Next

LEMMA MacAsked ==
    ASSUME MacAll, platform = "macos" PROVE AsAsked
<1>. SUFFICES ASSUME asked.known, failures = 0, NEW s \in Services
              PROVE  LET wanted == {<<asked.want.kind, asked.want.address>>} \ {<<"Off", None>>}
                     IN  /\ s \in asked.at => wanted \subseteq Uses(s)
                         /\ \A u \in Uses(s) \ wanted : u[1] = asked.want.kind /\ s \notin asked.at
    BY DEF AsAsked, MacAll, MacInv, Typed
<1>1. /\ MacInv /\ InFlight = {} /\ state = asked.want /\ asked.want \in Wants \cup {Off}
      /\ \A r \in asked.at : IsSet(settings, asked.want, r)
    BY DEF MacAll, Alone, MacProgress
<1>2. \A k \in {"Pac", "Proxy"} : On(k, s) => k = asked.want.kind
    BY <1>1 DEF MacInv, Remembered, InFlight, Answers
<1>3. \A u \in Uses(s) : \/ u = <<"Pac", settings[s].pac>> /\ On("Pac", s)
                         \/ u = <<"Proxy", settings[s].proxy>> /\ On("Proxy", s)
    BY DEF Uses, On, Field
<1>4. CASE asked.want.kind = "Off"
    <2>1. asked.want = Off /\ \A r \in asked.at : FALSE
        BY <1>1, <1>4 DEF Wants, IsSet
    <2>2. Uses(s) = {}
        BY <1>2, <1>3, <1>4
    <2>. QED  BY <2>1, <2>2 DEF Off
<1>5. CASE asked.want.kind # "Off"
    <2>1. /\ asked.want.kind \in {"Pac", "Proxy"} /\ asked.want.address \in Addresses
          /\ asked.want.address # None
        BY <1>1, <1>5, SystemProxyAssumption DEF Wants, Off
    <2>2. s \in asked.at => settings[s][Field(asked.want.kind)] = asked.want.address
        BY <1>1 DEF IsSet
    <2>3. s \in asked.at => <<asked.want.kind, asked.want.address>> \in Uses(s)
        BY <2>1, <2>2 DEF Uses, Field
    <2>4. ASSUME NEW u \in Uses(s)
          PROVE  /\ u[1] = asked.want.kind
                 /\ s \in asked.at => u = <<asked.want.kind, asked.want.address>>
        BY <1>2, <1>3, <2>1, <2>2, <2>4 DEF Field
    <2>5. {<<asked.want.kind, asked.want.address>>} \ {<<"Off", None>>}
              = {<<asked.want.kind, asked.want.address>>}
        BY <1>5
    <2>. QED  BY <2>3, <2>4, <2>5
<1>. QED  BY <1>4, <1>5

-----------------------------------------------------------------------------
(* GNOME and Windows.  Command i of want w was carried out on the settings *)
(* f, or is the one whose failure is ignored, n commands having failed.    *)
CommandsOf(p, w) == IF p = "linux" THEN LinuxCommands(w) ELSE WindowsCommands(w)
Took(p, f, n, w, i) ==
    \/ \A s \in Services : f[s][CommandsOf(p, w)[i].field] = CommandsOf(p, w)[i].value
    \/ p = "windows" /\ w.kind = "Proxy" /\ i = 1 /\ n > 0

Calling == [pc : {"idle", "command"}, want : Wants \cup {Off}, at : SUBSET Services,
            todo : SUBSET Services, step : Nat, old : Kinds, alone : BOOLEAN]
CmdTyped ==
    /\ platform \in {"linux", "windows"}
    /\ settings \in [Services -> Setting] /\ state = Off /\ failures \in Nat
    /\ task \in [Tasks -> Calling]
    /\ \A t \in Tasks : /\ 1 <= task[t].step
                         /\ task[t].step <= Len(CommandsOf(platform, task[t].want))

(* A call alone has carried out the commands before its step, and one that *)
(* ended well all of them.                                                 *)
CmdProgress ==
    /\ \A t \in Tasks : task[t].pc # "idle" /\ task[t].alone =>
          \A i \in 1..(task[t].step - 1) : Took(platform, settings, failures, task[t].want, i)
    /\ asked.known => \A i \in 1..Len(CommandsOf(platform, asked.want)) :
          Took(platform, settings, failures, asked.want, i)
CmdAll == platform # "macos" => CmdTyped /\ Alone /\ CmdProgress

(* The commands of a call change different fields, so that a later one     *)
(* undoes none before it.                                                  *)
LEMMA CommandsDiffer ==
    ASSUME NEW p \in {"linux", "windows"}, NEW w \in Wants \cup {Off}
    PROVE  /\ Len(CommandsOf(p, w)) \in Nat /\ 1 <= Len(CommandsOf(p, w))
           /\ \A i \in 1..Len(CommandsOf(p, w)) :
                 \/ /\ CommandsOf(p, w)[i].field \in {"pac", "proxy"}
                    /\ CommandsOf(p, w)[i].value \in Addresses \cup {None}
                 \/ /\ CommandsOf(p, w)[i].field = "mode"
                    /\ CommandsOf(p, w)[i].value \in {"none", "auto", "manual"}
           /\ \A i, j \in 1..Len(CommandsOf(p, w)) :
                 i # j => CommandsOf(p, w)[i].field # CommandsOf(p, w)[j].field
<1>1. CASE w.kind = "Pac"
    <2>1. w.address \in Addresses
        BY <1>1 DEF Wants, Off
    <2>2. CASE p = "linux"
        <3>1. CommandsOf(p, w) = <<Set("pac", w.address), Set("mode", "auto")>>
            BY <1>1, <2>2 DEF CommandsOf, LinuxCommands
        <3>. QED  BY <2>1, <3>1 DEF Set
    <2>3. CASE p = "windows"
        <3>1. CommandsOf(p, w) = <<Set("pac", w.address)>>
            BY <1>1, <2>3 DEF CommandsOf, WindowsCommands
        <3>. QED  BY <2>1, <3>1 DEF Set
    <2>. QED  BY <2>2, <2>3
<1>2. CASE w.kind = "Proxy"
    <2>1. w.address \in Addresses
        BY <1>2 DEF Wants, Off
    <2>2. CASE p = "linux"
        <3>1. CommandsOf(p, w) = <<Set("proxy", w.address), Set("mode", "manual")>>
            BY <1>2, <2>2 DEF CommandsOf, LinuxCommands
        <3>. QED  BY <2>1, <3>1 DEF Set
    <2>3. CASE p = "windows"
        <3>1. CommandsOf(p, w)
                = <<Set("pac", None), Set("mode", "manual"), Set("proxy", w.address)>>
            BY <1>2, <2>3 DEF CommandsOf, WindowsCommands
        <3>. QED  BY <2>1, <3>1 DEF Set
    <2>. QED  BY <2>2, <2>3
<1>3. CASE w.kind = "Off"
    <2>1. CASE p = "linux"
        <3>1. CommandsOf(p, w) = <<Set("mode", "none")>>
            BY <1>3, <2>1 DEF CommandsOf, LinuxCommands
        <3>. QED  BY <3>1 DEF Set
    <2>2. CASE p = "windows"
        <3>1. CommandsOf(p, w) = <<Set("pac", None), Set("mode", "none")>>
            BY <1>3, <2>2 DEF CommandsOf, WindowsCommands
        <3>. QED  BY <3>1 DEF Set
    <2>. QED  BY <2>1, <2>2
<1>. QED  BY <1>1, <1>2, <1>3 DEF Wants, Off

LEMMA InitCmdAll == Init => CmdAll
<1>. SUFFICES ASSUME Init, platform # "macos" PROVE CmdTyped /\ Alone /\ CmdProgress
    BY DEF CmdAll
<1>1. platform \in {"linux", "windows"}
    BY SystemProxyAssumption DEF Init
<1>2. Idle \in Calling /\ Idle.step = 1 /\ Idle.pc = "idle" /\ Idle.want = Off
    BY DEF Idle, Calling, Off, Kinds
<1>3. 1 <= Len(CommandsOf(platform, Off))
    BY <1>1, CommandsDiffer
<1>4. asked = Nothing /\ ~Nothing.known
      /\ Nothing \in [want : Wants \cup {Off}, at : SUBSET Services, known : BOOLEAN]
    BY DEF Init, Nothing
<1>5. settings \in [Services -> Setting]
    BY DEF Init, Setting
<1>. QED  BY <1>1, <1>2, <1>3, <1>4, <1>5 DEF Init, CmdTyped, Alone, CmdProgress

LEMMA CmdMoves ==
    ASSUME Alone, CmdProgress, NEW t \in Tasks, task[t].pc # "idle",
           UNCHANGED platform, \A u \in Tasks \ {t} : task'[u] = task[u],
           task'[t].pc = "idle" \/ (task'[t].alone => task[t].alone),
           task'[t].pc # "idle" /\ task'[t].alone =>
               \A i \in 1..(task'[t].step - 1) :
                   Took(platform, settings', failures', task'[t].want, i),
           \/ asked' = asked
           \/ /\ task[t].alone /\ task'[t].pc = "idle"
              /\ asked' \in [want : Wants \cup {Off}, at : SUBSET Services, known : BOOLEAN]
              /\ \A i \in 1..Len(CommandsOf(platform, asked'.want)) :
                    Took(platform, settings', failures', asked'.want, i)
    PROVE  Alone' /\ CmdProgress'
<1>1. Alone'
    BY AloneMoves
<1>2. ~asked.known
    BY DEF Alone, InFlight
<1>3. ASSUME NEW u \in Tasks, task'[u].pc # "idle", task'[u].alone
      PROVE  u = t
    BY <1>3 DEF Alone
<1>. QED  BY <1>1, <1>2, <1>3 DEF CmdProgress

LEMMA CmdReturns ==
    ASSUME CmdTyped, NEW t \in Tasks, Returns(t), UNCHANGED <<platform, state>>,
           settings' \in [Services -> Setting], failures' \in Nat
    PROVE  /\ task'[t].pc = "idle" /\ \A u \in Tasks \ {t} : task'[u] = task[u]
           /\ CmdTyped'
<1>1. Idle \in Calling /\ Idle.step = 1 /\ Idle.pc = "idle" /\ Idle.want = Off
    BY DEF Idle, Calling, Off, Kinds
<1>2. 1 <= Len(CommandsOf(platform, Off))
    <2>1. platform \in {"linux", "windows"}
        BY DEF CmdTyped
    <2>. QED  BY <2>1, CommandsDiffer
<1>3. /\ task' \in [Tasks -> Calling] /\ task'[t] = Idle
      /\ \A u \in Tasks \ {t} : task'[u] = task[u]
    BY <1>1 DEF CmdTyped, Returns
<1>. QED  BY <1>1, <1>2, <1>3 DEF CmdTyped

(* A command that took its place, or whose failure is ignored.             *)
LEMMA CmdAdvances ==
    ASSUME CmdTyped, Alone, CmdProgress, NEW t \in Tasks, task[t].pc = "command", Advances(t),
           UNCHANGED <<platform, state>>, settings' \in [Services -> Setting], failures' \in Nat,
           task[t].alone => \A i \in 1..task[t].step :
                               Took(platform, settings', failures', task[t].want, i)
    PROVE  CmdTyped' /\ Alone' /\ CmdProgress'
<1>1. /\ task[t] \in Calling /\ task \in [Tasks -> Calling] /\ platform \in {"linux", "windows"}
      /\ task[t].want \in Wants \cup {Off} /\ task[t].step \in Nat /\ task[t].pc # "idle"
      /\ task[t].step <= Len(CommandsOf(platform, task[t].want))
    BY DEF CmdTyped, Calling
<1>2. /\ Len(CommandsOf(platform, task[t].want)) \in Nat /\ 1 <= task[t].step
      /\ Commands(task[t].want) = CommandsOf(platform, task[t].want)
    BY <1>1, CommandsDiffer DEF Commands, CommandsOf, CmdTyped
<1>3. CASE task[t].step = Len(CommandsOf(platform, task[t].want))
    <2>1. Ends(t) /\ Returns(t)
        BY <1>2, <1>3 DEF Advances, Ends
    <2>2. task'[t].pc = "idle" /\ (\A u \in Tasks \ {t} : task'[u] = task[u]) /\ CmdTyped'
        BY <2>1, CmdReturns
    <2>3. CASE task[t].alone
        <3>1. asked' = [want |-> task[t].want, at |-> task[t].at, known |-> TRUE]
            BY <2>1, <2>3 DEF Ends
        <3>2. asked' \in [want : Wants \cup {Off}, at : SUBSET Services, known : BOOLEAN]
            BY <1>1, <3>1 DEF Calling
        <3>3. \A i \in 1..Len(CommandsOf(platform, asked'.want)) :
                 Took(platform, settings', failures', asked'.want, i)
            BY <1>3, <2>3, <3>1
        <3>. QED  BY <1>1, <2>2, <2>3, <3>2, <3>3, CmdMoves
    <2>4. CASE ~task[t].alone
        BY <1>1, <2>1, <2>2, <2>4, CmdMoves DEF Ends
    <2>. QED  BY <2>3, <2>4
<1>4. CASE task[t].step # Len(CommandsOf(platform, task[t].want))
    <2>. DEFINE x == [task[t] EXCEPT !.step = task[t].step + 1]
    <2>1. /\ x \in Calling /\ x.pc = "command" /\ x.alone = task[t].alone /\ x.want = task[t].want
          /\ x.step = task[t].step + 1 /\ 1 <= x.step
          /\ x.step <= Len(CommandsOf(platform, task[t].want))
        <3>1. task[t].step + 1 \in Nat /\ 1 <= task[t].step + 1
              /\ task[t].step + 1 <= Len(CommandsOf(platform, task[t].want))
            BY <1>1, <1>2, <1>4
        <3>2. /\ x \in Calling /\ x.pc = "command" /\ x.alone = task[t].alone
              /\ x.want = task[t].want /\ x.step = task[t].step + 1
            BY <1>1, <3>1 DEF Calling
        <3>. QED  BY <3>1, <3>2
    <2>2. task' = [task EXCEPT ![t] = x] /\ UNCHANGED asked
        BY <1>2, <1>4, Zenon DEF Advances
    <2>. HIDE DEF x
    <2>3. task' \in [Tasks -> Calling] /\ task'[t] = x /\ \A u \in Tasks \ {t} : task'[u] = task[u]
        BY <1>1, <2>1, <2>2
    <2>4. CmdTyped'
        BY <2>1, <2>3 DEF CmdTyped
    <2>5. task[t].alone => \A i \in 1..(task'[t].step - 1) :
             Took(platform, settings', failures', task'[t].want, i)
        BY <1>1, <2>1, <2>3
    <2>. QED  BY <1>1, <2>1, <2>2, <2>3, <2>4, <2>5, CmdMoves
<1>. QED  BY <1>3, <1>4

LEMMA CommandAll ==
    ASSUME CmdTyped, Alone, CmdProgress, NEW t \in Tasks, Command(t)
    PROVE  CmdTyped' /\ Alone' /\ CmdProgress'
<1>. DEFINE w == task[t].want
            k == task[t].step
            c == CommandsOf(platform, w)
<1>1. /\ w \in Wants \cup {Off} /\ k \in Nat /\ k \in 1..Len(c) /\ platform \in {"linux", "windows"}
      /\ settings \in [Services -> Setting] /\ failures \in Nat
    BY CommandsDiffer DEF CmdTyped, Calling
<1>2. /\ task[t].pc = "command" /\ Advances(t) /\ UNCHANGED <<platform, state, failures>>
      /\ settings' = [s \in Services |-> [settings[s] EXCEPT ![c[k].field] = c[k].value]]
    BY DEF Command, Commands, CommandsOf, bounds
<1>3. /\ \/ c[k].field \in {"pac", "proxy"} /\ c[k].value \in Addresses \cup {None}
         \/ c[k].field = "mode" /\ c[k].value \in {"none", "auto", "manual"}
      /\ \A i \in 1..(k - 1) : i \in 1..Len(c) /\ c[i].field # c[k].field
                               /\ c[i].field \in {"pac", "proxy", "mode"}
    BY <1>1, CommandsDiffer
<1>. HIDE DEF c, w
<1>4. /\ settings' \in [Services -> Setting]
      /\ \A s \in Services : /\ settings'[s][c[k].field] = c[k].value
                             /\ \A f \in {"pac", "proxy", "mode"} :
                                   f # c[k].field => settings'[s][f] = settings[s][f]
    <2>. DEFINE set(s) == [settings[s] EXCEPT ![c[k].field] = c[k].value]
    <2>1. settings' = [s \in Services |-> set(s)]
        BY <1>2
    <2>2. ASSUME NEW s \in Services
          PROVE  /\ set(s) \in Setting /\ set(s)[c[k].field] = c[k].value
                 /\ \A f \in {"pac", "proxy", "mode"} : f # c[k].field => set(s)[f] = settings[s][f]
        <3>1. settings[s] \in Setting
            BY <1>1
        <3>2. CASE c[k].field \in {"pac", "proxy"} /\ c[k].value \in Addresses \cup {None}
            BY <3>1, <3>2 DEF Setting
        <3>3. CASE c[k].field = "mode" /\ c[k].value \in {"none", "auto", "manual"}
            BY <3>1, <3>3 DEF Setting
        <3>. QED  BY <1>3, <3>2, <3>3
    <2>. HIDE DEF set
    <2>. QED  BY <2>1, <2>2
<1>5. ASSUME task[t].alone, NEW i \in 1..k PROVE Took(platform, settings', failures', w, i)
    <2>1. CASE i = k
        BY <1>4, <2>1 DEF Took, c
    <2>2. CASE i # k
        <3>1. i \in 1..(k - 1) /\ Took(platform, settings, failures, w, i)
            BY <1>1, <1>2, <1>5, <2>2 DEF CmdProgress, w
        <3>. QED  BY <1>2, <1>3, <1>4, <3>1 DEF Took, c
    <2>. QED  BY <2>1, <2>2
<1>. QED  BY <1>1, <1>2, <1>4, <1>5, CmdAdvances DEF w

LEMMA CommandIgnoredAll ==
    ASSUME CmdTyped, Alone, CmdProgress, NEW t \in Tasks, CommandIgnored(t)
    PROVE  CmdTyped' /\ Alone' /\ CmdProgress'
<1>1. /\ task[t].pc = "command" /\ Advances(t) /\ UNCHANGED <<platform, state, settings>>
      /\ platform = "windows" /\ task[t].want.kind = "Proxy" /\ task[t].step = 1
      /\ failures' = failures + 1
    BY DEF CommandIgnored, Ignored
<1>2. settings' \in [Services -> Setting] /\ failures' \in Nat /\ failures' > 0
    BY <1>1 DEF CmdTyped
<1>3. \A i \in 1..task[t].step : Took(platform, settings', failures', task[t].want, i)
    BY <1>1, <1>2 DEF Took
<1>. QED  BY <1>1, <1>2, <1>3, CmdAdvances

LEMMA CmdStarts ==
    ASSUME CmdTyped, NEW t \in Tasks, NEW want \in Wants \cup {Off}, Starts(t, "command", want),
           UNCHANGED <<platform, settings, state, failures>>
    PROVE  CmdTyped' /\ Alone' /\ CmdProgress'
<1>1. /\ task \in [Tasks -> Calling] /\ platform \in {"linux", "windows"}
      /\ \A u \in Tasks : {"pc", "alone"} \subseteq DOMAIN task[u]
    BY DEF CmdTyped, Calling
<1>2. /\ Alone' /\ ~asked'.known
      /\ task'[t] = [Idle EXCEPT !.pc = "command", !.want = want, !.alone = (InFlight = {})]
      /\ \A u \in Tasks \ {t} : task'[u] = [task[u] EXCEPT !.alone = FALSE] /\ ~task'[u].alone
    <2>1. "command" # "idle"
        OBVIOUS
    <2>. QED  BY <1>1, <2>1, AloneStarts, Zenon
<1>3. /\ task'[t] \in Calling /\ task'[t].step = 1 /\ task'[t].want = want
    <2>1. Idle \in Calling
        BY DEF Idle, Calling, Off, Kinds
    <2>. QED  BY <2>1 DEF Starts, Calling, Idle
<1>4. ASSUME NEW u \in Tasks \ {t}
      PROVE  /\ task'[u] \in Calling /\ task'[u].step = task[u].step
             /\ task'[u].want = task[u].want
    <2>1. task[u] \in Calling /\ task'[u] = [task[u] EXCEPT !.alone = FALSE]
        BY <1>1, <1>2
    <2>. QED  BY <2>1 DEF Calling
<1>5. task' \in [Tasks -> Calling]
    BY <1>3, <1>4 DEF Starts
<1>6. 1 <= Len(CommandsOf(platform, want))
    BY <1>1, CommandsDiffer
<1>7. CmdTyped'
    BY <1>3, <1>4, <1>5, <1>6 DEF CmdTyped
<1>8. CmdProgress'
    <2>1. ASSUME NEW u \in Tasks, task'[u].alone PROVE 1..(task'[u].step - 1) = {}
        <3>1. u = t
            BY <1>2, <2>1
        <3>2. task'[u].step = 1
            BY <1>3, <3>1
        <3>. QED  BY <3>2
    <2>. QED  BY <1>2, <2>1 DEF CmdProgress
<1>. QED  BY <1>2, <1>7, <1>8

LEMMA StepCmdAll == CmdAll /\ [Next]_vars => CmdAll'
<1>. SUFFICES ASSUME CmdAll, [Next]_vars, platform' # "macos"
              PROVE  CmdTyped' /\ Alone' /\ CmdProgress'
    BY DEF CmdAll
<1>1. UNCHANGED platform
    BY DEF Next, vars, bounds, Call, Update, Change, MacStep, List, SetOne, SetDone, Swap,
           ListAll, ClearOne, ClearDone, Fails, Command, CommandIgnored
<1>2. CmdTyped /\ Alone /\ CmdProgress
    BY <1>1 DEF CmdAll
<1>3. ASSUME NEW t \in Callers, NEW want \in Wants \cup {Off}, Call(t, want)
      PROVE  CmdTyped' /\ Alone' /\ CmdProgress'
    <2>1. t \in Tasks /\ Starts(t, "command", want)
          /\ UNCHANGED <<platform, settings, state, failures>>
        BY <1>1, <1>3 DEF Call, Tasks
    <2>. QED  BY <1>2, <2>1, CmdStarts
<1>4. CASE UNCHANGED <<platform, settings, state, failures, task, asked>>
    <2>1. Alone'
        BY <1>2, <1>4 DEF Alone, InFlight
    <2>2. CmdTyped' /\ CmdProgress'
        BY <1>2, <1>4 DEF CmdTyped, CmdProgress
    <2>. QED  BY <2>1, <2>2
<1>5. Update \/ UNCHANGED vars => UNCHANGED <<platform, settings, state, failures, task, asked>>
    BY <1>2 DEF Update, vars, bounds, CmdTyped, Off
<1>6. \A s \in Services : ~Change(s)
    BY <1>1 DEF Change
<1>7. ASSUME NEW t \in Tasks, Fails(t)
      PROVE  CmdTyped' /\ Alone' /\ CmdProgress'
    <2>1. /\ task[t].pc # "idle" /\ Returns(t) /\ UNCHANGED <<platform, settings, state, asked>>
          /\ settings' \in [Services -> Setting] /\ failures' \in Nat
        BY <1>2, <1>7 DEF Fails, CmdTyped
    <2>2. task'[t].pc = "idle" /\ (\A u \in Tasks \ {t} : task'[u] = task[u]) /\ CmdTyped'
        BY <1>2, <2>1, CmdReturns
    <2>. QED  BY <1>2, <2>1, <2>2, CmdMoves
<1>8. \A t \in Tasks : ~MacStep(t)
    BY <1>2 DEF CmdTyped, Calling, MacStep, List, SetOne, SetDone, Swap, ListAll, ClearOne, ClearDone
<1>. QED  BY <1>2, <1>3, <1>4, <1>5, <1>6, <1>7, <1>8, CommandAll, CommandIgnoredAll DEF Next

(* After all the commands of a call the settings are what it wants, but for*)
(* what GNOME and Windows leave of the other kind.                         *)
LEMMA CmdAsked ==
    ASSUME CmdAll, platform # "macos" PROVE AsAsked
<1>. DEFINE w == asked.want
            a == <<asked.want.kind, asked.want.address>>
            wanted == {a} \ {<<"Off", None>>}
            excused == IF platform # "windows" THEN {}
                       ELSE IF w.kind = "Pac" THEN {"Proxy"}
                       ELSE IF failures > 0 THEN {"Pac"} ELSE {}
<1>. SUFFICES ASSUME asked.known, NEW s \in Services
              PROVE  wanted \subseteq Uses(s) /\ \A u \in Uses(s) \ wanted : u[1] \in excused
    BY DEF AsAsked
<1>1. /\ platform \in {"linux", "windows"} /\ w \in Wants \cup {Off} /\ failures \in Nat
      /\ \A i \in 1..Len(CommandsOf(platform, w)) : Took(platform, settings, failures, w, i)
    BY DEF CmdAll, CmdTyped, Alone, CmdProgress
<1>2. \A u \in Uses(s) : \/ u = <<"Pac", settings[s].pac>> /\ settings[s].pac # None
                         \/ u = <<"Proxy", settings[s].proxy>> /\ settings[s].proxy # None
    BY <1>1 DEF Uses
<1>3. CASE w.kind = "Pac"
    <2>1. w.address \in Addresses /\ w.address # None /\ wanted = {<<"Pac", w.address>>}
        BY <1>1, <1>3, SystemProxyAssumption DEF Wants, Off
    <2>2. CASE platform = "linux"
        <3>1. CommandsOf(platform, w) = <<Set("pac", w.address), Set("mode", "auto")>>
            BY <1>3, <2>2 DEF CommandsOf, LinuxCommands
        <3>2. settings[s].pac = w.address /\ settings[s].mode = "auto"
            <4>1. Took("linux", settings, failures, w, 1) /\ Took("linux", settings, failures, w, 2)
                <5>1. Len(CommandsOf(platform, w)) = 2
                    BY <3>1
                <5>2. \A i \in 1..2 : Took(platform, settings, failures, w, i)
                    BY <1>1, <5>1, Zenon
                <5>. QED  BY <2>2, <5>2
            <4>. QED  BY <2>2, <3>1, <4>1 DEF Took, Set
        <3>3. Uses(s) = {<<"Pac", w.address>>}
            BY <2>1, <2>2, <3>2 DEF Uses
        <3>. QED  BY <2>1, <3>3
    <2>3. CASE platform = "windows"
        <3>1. CommandsOf(platform, w) = <<Set("pac", w.address)>>
            BY <1>3, <2>3 DEF CommandsOf, WindowsCommands
        <3>2. settings[s].pac = w.address
            <4>1. Took("windows", settings, failures, w, 1)
                <5>1. Len(CommandsOf(platform, w)) = 1
                    BY <3>1
                <5>2. \A i \in 1..1 : Took(platform, settings, failures, w, i)
                    BY <1>1, <5>1, Zenon
                <5>. QED  BY <2>3, <5>2
            <4>. QED  BY <1>3, <2>3, <3>1, <4>1 DEF Took, Set
        <3>3. <<"Pac", w.address>> \in Uses(s)
            BY <2>1, <2>3, <3>2 DEF Uses
        <3>. QED  BY <1>2, <1>3, <2>1, <2>3, <3>2, <3>3
    <2>. QED  BY <1>1, <2>2, <2>3
<1>4. CASE w.kind = "Proxy"
    <2>1. w.address \in Addresses /\ w.address # None /\ wanted = {<<"Proxy", w.address>>}
        BY <1>1, <1>4, SystemProxyAssumption DEF Wants, Off
    <2>2. CASE platform = "linux"
        <3>1. CommandsOf(platform, w) = <<Set("proxy", w.address), Set("mode", "manual")>>
            BY <1>4, <2>2 DEF CommandsOf, LinuxCommands
        <3>2. settings[s].proxy = w.address /\ settings[s].mode = "manual"
            <4>1. \A i \in 1..2 : Took("linux", settings, failures, w, i)
                <5>1. Len(CommandsOf(platform, w)) = 2
                    BY <3>1
                <5>2. \A i \in 1..2 : Took(platform, settings, failures, w, i)
                    BY <1>1, <5>1, Zenon
                <5>. QED  BY <2>2, <5>2
            <4>2. Took("linux", settings, failures, w, 1) /\ Took("linux", settings, failures, w, 2)
                BY <4>1
            <4>. QED  BY <2>2, <3>1, <4>2 DEF Took, Set
        <3>3. Uses(s) = {<<"Proxy", w.address>>}
            BY <2>1, <2>2, <3>2 DEF Uses
        <3>. QED  BY <2>1, <3>3
    <2>3. CASE platform = "windows"
        <3>1. CommandsOf(platform, w)
                = <<Set("pac", None), Set("mode", "manual"), Set("proxy", w.address)>>
            BY <1>4, <2>3 DEF CommandsOf, WindowsCommands
        <3>2. /\ settings[s].mode = "manual" /\ settings[s].proxy = w.address
              /\ settings[s].pac = None \/ failures > 0
            <4>1. \A i \in 1..3 : Took("windows", settings, failures, w, i)
                <5>1. Len(CommandsOf(platform, w)) = 3
                    BY <3>1
                <5>2. \A i \in 1..3 : Took(platform, settings, failures, w, i)
                    BY <1>1, <5>1, Zenon
                <5>. QED  BY <2>3, <5>2
            <4>2. /\ Took("windows", settings, failures, w, 1)
                  /\ Took("windows", settings, failures, w, 2)
                  /\ Took("windows", settings, failures, w, 3)
                BY <4>1
            <4>. QED  BY <2>3, <3>1, <4>2 DEF Took, Set
        <3>3. <<"Proxy", w.address>> \in Uses(s)
            BY <2>1, <2>3, <3>2 DEF Uses
        <3>. QED  BY <1>2, <1>4, <2>1, <2>3, <3>2, <3>3
    <2>. QED  BY <1>1, <2>2, <2>3
<1>5. CASE w.kind = "Off"
    <2>1. w = Off /\ wanted = {}
        BY <1>1, <1>5 DEF Wants, Off
    <2>2. CASE platform = "linux"
        <3>1. CommandsOf(platform, w) = <<Set("mode", "none")>>
            BY <1>5, <2>2 DEF CommandsOf, LinuxCommands
        <3>2. settings[s].mode = "none"
            <4>1. Took("linux", settings, failures, w, 1)
                BY <1>1, <2>2, <3>1
            <4>. QED  BY <2>2, <3>1, <4>1 DEF Took, Set
        <3>. QED  BY <2>1, <2>2, <3>2 DEF Uses
    <2>3. CASE platform = "windows"
        <3>1. CommandsOf(platform, w) = <<Set("pac", None), Set("mode", "none")>>
            BY <1>5, <2>3 DEF CommandsOf, WindowsCommands
        <3>2. settings[s].mode = "none" /\ settings[s].pac = None
            BY <1>1, <1>5, <2>3, <3>1 DEF Took, Set
        <3>. QED  BY <2>1, <2>3, <3>2 DEF Uses
    <2>. QED  BY <1>1, <2>2, <2>3
<1>. QED  BY <1>1, <1>3, <1>4, <1>5 DEF Wants, Off

(* macos.rs, linux.rs, windows.rs: after a set_pac, set_proxy or restore    *)
(* that ended well and beside which none ran, the system uses what was      *)
(* asked for, whatever calls overlapped or failed half-way before it.       *)
THEOREM SetAsAsked == Spec => []AsAsked
<1>1. Init => MacAll /\ CmdAll
    BY InitMacAll, InitCmdAll
<1>2. MacAll /\ CmdAll /\ [Next]_vars => (MacAll /\ CmdAll)'
    BY StepMacAll, StepCmdAll
<1>3. MacAll /\ CmdAll => AsAsked
    BY MacAsked, CmdAsked
<1>. QED  BY <1>1, <1>2, <1>3, PTL DEF Spec
=============================================================================
