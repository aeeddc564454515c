------------------------------- MODULE RevLines -------------------------------
(***************************************************************************)
(* The reverse reader of the log file (the UI's rust/src/api/              *)
(* rev_lines_ex.rs): the lines of a text from a position backwards, read   *)
(* in chunks of `cap` bytes.  A text is a sequence of bytes, of which only *)
(* LF and CR matter; a position is a number of bytes before it.            *)
(***************************************************************************)
EXTENDS Naturals, SequencesExt

LF == "lf"
CR == "cr"

(* next_line for each position > 0 it may begin at: chunks are read        *)
(* backwards until one has a line feed; what follows the last one is the   *)
(* line, and the carriage return before it belongs to the separator.  The  *)
(* position goes to the start of the chunk plus the offset found.          *)
NextLineSkipping(text, cap) ==         \* fault: the offset is one byte short
    LET line[p \in 0..Len(text)] ==
          LET start == IF p > cap THEN p - cap ELSE 0
              feeds == {i \in (start + 1)..p : text[i] = LF}
              feed == CHOOSE i \in feeds : \A j \in feeds : j <= i
          IN  IF p = 0 THEN [line |-> <<>>, position |-> 0]
              ELSE IF feeds = {}
              THEN [line[start] EXCEPT !.line = @ \o SubSeq(text, start + 1, p)]
              ELSE [line |-> SubSeq(text, feed + 1, p),
                    position |-> IF feed > start + 1 THEN feed - 2 ELSE start]
    IN line
NextLine(text, cap) ==
    LET line[p \in 0..Len(text)] ==
          LET start == IF p > cap THEN p - cap ELSE 0
              feeds == {i \in (start + 1)..p : text[i] = LF}
              feed == CHOOSE i \in feeds : \A j \in feeds : j <= i
              idx == feed - 1 - start
          IN  IF p = 0 THEN [line |-> <<>>, position |-> 0]
              ELSE IF feeds = {}
              THEN [line[start] EXCEPT !.line = @ \o SubSeq(text, start + 1, p)]
              ELSE [line |-> SubSeq(text, feed + 1, p),
                    position |-> start + (IF idx > 1 /\ text[feed - 1] = CR
                                          THEN idx - 1 ELSE idx)]
    IN line

(* The stream of lines from a position: it ends when nothing precedes it,  *)
(* which drops an empty line at the start of the text.                     *)
LinesBefore(text, cap, pos) ==
    LET next == NextLine(text, cap)
        lines[p \in 0..Len(text)] ==
          IF p = 0 THEN <<>> ELSE <<next[p]>> \o lines[next[p].position]
    IN lines[pos]
-----------------------------------------------------------------------------
(* The same lines, found forwards and the latest first: a line feed begins *)
(* one, any other byte goes to the end of the line that was begun.  If the *)
(* text begins with an empty line, that one is not wanted.                 *)
LinesForward(text) ==
    LET lines[n \in 0..Len(text)] ==
          IF n = 0 THEN <<<<>>>>
          ELSE IF text[n] = LF THEN <<<<>>>> \o lines[n - 1]
          ELSE <<Append(Head(lines[n - 1]), text[n])>> \o Tail(lines[n - 1])
        all == lines[Len(text)]
    IN IF Last(all) = <<>> THEN Front(all) ELSE all

NoReturn(line) == IF line # <<>> /\ Last(line) = CR THEN Front(line) ELSE line

(* Whatever the chunks cut, the reader returns every line of the text, the *)
(* last one first, none joined and none split: up to a carriage return at  *)
(* its end, which stays when a chunk begins with it or with its line feed. *)
SameLines(text, cap) ==
    LET found == LinesBefore(text, cap, Len(text))
        wanted == LinesForward(text)
    IN /\ Len(found) = Len(wanted)
       /\ \A i \in DOMAIN found : found[i].line \in {wanted[i], NoReturn(wanted[i])}
=============================================================================
