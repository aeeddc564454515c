------------------------------- MODULE LogPage -------------------------------
(***************************************************************************)
(* The application's log: the file and the WriterNotifier that events are  *)
(* written to (the UI's rust/src/api/log.rs), and the pages that show them *)
(* (the UI's lib/src/log/log.dart).  A page registers a callback, reads    *)
(* the end of the file, and reads older lines when the user scrolls.       *)
(*                                                                         *)
(* An event is a message, one byte here; its line in the file is found by  *)
(* RevLines.  Tasks of the runtime and of the user interface interleave;   *)
(* what is spawned runs in any order.                                      *)
(***************************************************************************)
EXTENDS RevLines

CONSTANTS
    Messages,       \* the events in their order, all different
    Pages,          \* pages, each opened at most once, one at a time
    Cap,            \* DEFAULT_SIZE of RevLines
    Chunk           \* kReadChunkSize

NoLogger == 0

ASSUME LogPageAssumption ==
    /\ Messages \in Seq(STRING \ {LF, CR}) /\ IsInjective(Messages)
    /\ Cap \in Nat \ {0}
    /\ Chunk \in Nat /\ Chunk > 1      \* with 1, the line split would leave nothing to read on from

VARIABLES
    file,           \* the log file, a sequence of bytes
    logged,         \* events so far
    tasks,          \* events whose notification was spawned and has not run
    posts,          \* calls of a page's callback that were spawned: <<page, message>>
    next_id,        \* WriterNotifier::next_id, from 1 here
    callbacks,      \* WriterNotifier::callbacks: [id, page]
    removals,       \* calls of unregister_logger under way: ids
    page,           \* per page: [pc, open, id, logger, chunk, new, old, end]
    shared          \* history: two registrations were under way at once

notifier == <<next_id, callbacks, removals>>
vars == <<file, logged, tasks, posts, notifier, page, shared>>

Unopened == [pc |-> "unopened", open |-> FALSE, id |-> 0, logger |-> NoLogger,
             chunk |-> <<>>, new |-> <<>>, old |-> <<>>, end |-> FALSE]
Registering == {p \in Pages : page[p].pc \in {"load id", "push", "bump"}}

Init ==
    /\ file = <<>> /\ logged = 0 /\ tasks = {} /\ posts = {}
    /\ next_id = 1 /\ callbacks = <<>> /\ removals = {}
    /\ page = [p \in Pages |-> Unopened] /\ shared = FALSE
-----------------------------------------------------------------------------
(* The writer.                                                             *)

(* An event goes to the file, and then to the notifier, which spawns.      *)
Event ==
    /\ logged < Len(Messages) /\ logged' = logged + 1
    /\ file' = file \o <<Messages[logged + 1], LF>>
    /\ tasks' = tasks \cup {Messages[logged + 1]}
    /\ UNCHANGED <<posts, notifier, page, shared>>

Notify(m) ==
    /\ m \in tasks /\ tasks' = tasks \ {m}
    /\ posts' = posts \cup {<<callbacks[i].page, m>> : i \in DOMAIN callbacks}
    /\ UNCHANGED <<file, logged, notifier, page, shared>>

(* register_logger: the id is read, the callback pushed under the lock,    *)
(* and only then the next id made.                                         *)
RegisterLoadId(p) ==
    /\ page[p].pc = "load id"
    /\ page' = [page EXCEPT ![p].pc = "push", ![p].id = next_id]
    /\ UNCHANGED <<file, logged, tasks, posts, notifier, shared>>

RegisterPush(p) ==
    /\ page[p].pc = "push"
    /\ callbacks' = Append(callbacks, [id |-> page[p].id, page |-> p])
    /\ page' = [page EXCEPT ![p].pc = "bump"]
    /\ UNCHANGED <<file, logged, tasks, posts, next_id, removals, shared>>

RegisterSameId(p) ==                           \* fault: the next id is not made
    /\ page[p].pc = "bump" /\ page' = [page EXCEPT ![p].pc = "registered"]
    /\ UNCHANGED <<file, logged, tasks, posts, notifier, shared>>
RegisterBump(p) ==
    /\ page[p].pc = "bump" /\ next_id' = next_id + 1
    /\ page' = [page EXCEPT ![p].pc = "registered"]
    /\ UNCHANGED <<file, logged, tasks, posts, callbacks, removals, shared>>

(* unregister_logger: the first callback of that id.                       *)
Unregister(id) ==
    /\ id \in removals /\ removals' = removals \ {id}
    /\ LET i == SelectInSeq(callbacks, LAMBDA c : c.id = id)
       IN callbacks' = IF i = 0 THEN callbacks ELSE RemoveAt(callbacks, i)
    /\ UNCHANGED <<file, logged, tasks, posts, next_id, page, shared>>
-----------------------------------------------------------------------------
(* The page.                                                               *)

Open(p) ==
    /\ page[p].pc = "unopened" /\ \A q \in Pages : ~page[q].open
    /\ page' = [page EXCEPT ![p].pc = "load id", ![p].open = TRUE]
    /\ shared' = (shared \/ Registering # {})
    /\ UNCHANGED <<file, logged, tasks, posts, notifier>>

(* dispose: a registration that has not returned is not undone.            *)
Close(p) ==
    /\ page[p].open
    /\ page' = [page EXCEPT ![p].open = FALSE, ![p].logger = NoLogger]
    /\ removals' = removals \cup ({page[p].logger} \ {NoLogger})
    /\ UNCHANGED <<file, logged, tasks, posts, next_id, callbacks, shared>>

Registered(p) ==
    /\ page[p].pc = "registered"
    /\ page' = [page EXCEPT ![p].pc = "get log", ![p].logger = page[p].id]
    /\ UNCHANGED <<file, logged, tasks, posts, notifier, shared>>

(* get_trace_log. *)
get_log(pos) ==
    LET lines == LinesBefore(file, Cap, pos)
    IN SubSeq(lines, 1, IF Len(lines) < Chunk THEN Len(lines) ELSE Chunk)

GetLog(p) ==
    /\ page[p].pc = "get log"
    /\ page' = [page EXCEPT ![p].pc = "merge", ![p].chunk = get_log(Len(file))]
    /\ UNCHANGED <<file, logged, tasks, posts, notifier, shared>>

(* The lines of a list that are not in a set, in their order.             *)
Without(list, set) ==
    LET kept[n \in 0..Len(list)] ==
          IF n = 0 THEN <<>>
          ELSE IF list[n] \in set THEN kept[n - 1] ELSE Append(kept[n - 1], list[n])
    IN kept[Len(list)]

(* The rest of _init: empty lines at the end go; of a full chunk the older *)
(* half is kept apart; the other goes before what came meanwhile, without  *)
(* the lines that did.                                                     *)
MergeOver(p) ==             \* fault: what came meanwhile is replaced, not kept
    /\ page[p].pc = "merge"
    /\ LET messages == SelectSeq(page[p].chunk, LAMBDA l : l.line # <<>>)
           split == IF Len(page[p].chunk) < Chunk THEN Len(messages) ELSE Len(messages) \div 2
       IN page' = [page EXCEPT
                      ![p].pc = "ready", ![p].chunk = <<>>,
                      ![p].old = SubSeq(messages, split + 1, Len(messages)),
                      ![p].new = [i \in 1..split |-> messages[split + 1 - i].line]]
    /\ UNCHANGED <<file, logged, tasks, posts, notifier, shared>>
Merge(p) ==
    /\ page[p].pc = "merge"
    /\ LET first == SelectInSeq(page[p].chunk, LAMBDA l : l.line # <<>>)
           messages == IF first = 0 THEN <<>>
                       ELSE SubSeq(page[p].chunk, first, Len(page[p].chunk))
           split == IF Len(page[p].chunk) < Chunk THEN Len(messages) ELSE Len(messages) \div 2
           recent == Reverse([i \in 1..split |-> messages[i].line])
       IN page' = [page EXCEPT
                      ![p].pc = "ready", ![p].chunk = <<>>,
                      ![p].old = SubSeq(messages, split + 1, Len(messages)),
                      ![p].new = Without(recent, ToSet(page[p].new)) \o @]
    /\ UNCHANGED <<file, logged, tasks, posts, notifier, shared>>

(* _onLogMessage: the line as it was written, with its line feed.          *)
Deliver(p, m) ==
    /\ <<p, m>> \in posts /\ posts' = posts \ {<<p, m>>}
    /\ page' = [page EXCEPT ![p].new = Append(@, <<m, LF>>)]
    /\ UNCHANGED <<file, logged, tasks, notifier, shared>>

(* _loadMore, when the user scrolls up: a chunk that is not full is the    *)
(* last one, and is dropped.                                               *)
LoadMoreButFull(p) ==       \* fault: a chunk that is just full is taken for the last one
    /\ page[p].pc = "ready" /\ page[p].open /\ ~page[p].end /\ page[p].old # <<>>
    /\ LET lines == get_log(Last(page[p].old).position)
       IN page' = IF Len(lines) <= Chunk THEN [page EXCEPT ![p].end = TRUE]
                  ELSE [page EXCEPT ![p].old = @ \o lines]
    /\ UNCHANGED <<file, logged, tasks, posts, notifier, shared>>
LoadMore(p) ==
    /\ page[p].pc = "ready" /\ page[p].open /\ ~page[p].end /\ page[p].old # <<>>
    /\ LET lines == get_log(Last(page[p].old).position)
       IN page' = IF Len(lines) < Chunk THEN [page EXCEPT ![p].end = TRUE]
                  ELSE [page EXCEPT ![p].old = @ \o lines]
    /\ UNCHANGED <<file, logged, tasks, posts, notifier, shared>>
-----------------------------------------------------------------------------
PageStep(p) ==
    \/ Open(p) \/ Close(p) \/ RegisterLoadId(p) \/ RegisterPush(p) \/ RegisterBump(p)
    \/ Registered(p) \/ GetLog(p) \/ Merge(p) \/ LoadMore(p)
    \/ \E m \in ToSet(Messages) : Deliver(p, m)
Next ==
    \/ Event \/ \E m \in ToSet(Messages) : Notify(m)
    \/ \E p \in Pages : PageStep(p)
    \/ \E id \in removals : Unregister(id)
    \/ UNCHANGED vars

Spec == Init /\ [][Next]_vars
-----------------------------------------------------------------------------
(* The lines a page shows, from the oldest one on, and their messages.     *)
Shown(p) == Reverse([i \in DOMAIN page[p].old |-> page[p].old[i].line]) \o page[p].new
Positions(p, n) == {i \in DOMAIN Shown(p) : Shown(p)[i] # <<>> /\ Shown(p)[i][1] = Messages[n]}
(* How many lines are above the oldest one that was read: LoadMore reads   *)
(* them in chunks, and the last of these is not kept unless it is full.    *)
LinesAbove(p) == IF page[p].old = <<>> THEN 0 ELSE (Last(page[p].old).position + 1) \div 2
NeverKept(p, n) == n <= LinesAbove(p) % Chunk
ToScrollTo(p, n) == ~page[p].end /\ n \in (LinesAbove(p) % Chunk) + 1 .. LinesAbove(p)

(* Of every line, a page that has loaded shows it, or has it in a full     *)
(* chunk above the oldest line and scrolls on to there, or does not show   *)
(* it ever because it is one of the file's first lines, fewer than a chunk,*)
(* which _loadMore drops.  Between the callback, the end of the file that  *)
(* was read and the older chunks no other line falls through, whenever it  *)
(* was written, and scrolling does not end before the last full chunk.  Not*)
(* promised when two registrations shared an id.                           *)
NoneMissing ==
    tasks = {} /\ posts = {} /\ ~shared =>
        \A p \in Pages : page[p].pc = "ready" /\ page[p].open =>
            \A n \in 1..logged :
                Positions(p, n) # {} \/ ToScrollTo(p, n) \/ NeverKept(p, n)

(* The callbacks are those of the pages that have one: a page that closed  *)
(* took its own away and no other's.  A page that closed before it had its *)
(* id stays registered for ever.                                           *)
OwnCallbacks ==
    removals = {} /\ ~shared =>
        {callbacks[i].page : i \in DOMAIN callbacks}
            = {p \in Pages : page[p].logger # NoLogger \/ page[p].pc \in {"bump", "registered"}}

(* log.dart:104: "Remove possible duplicats".                              *)
NoDuplicates ==
    \A p \in Pages : page[p].pc = "ready" =>
        \A n \in 1..logged : Cardinality(Positions(p, n)) <= 1

(* Scrolled to the end, a page shows the whole file.                       *)
EndIsTheEnd == \A p \in Pages : page[p].end => Positions(p, 1) # {}
=============================================================================
