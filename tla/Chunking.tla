------------------------------ MODULE Chunking ------------------------------
(***************************************************************************)
(* chunk_text of the ingestion service: a window slides over a text, is    *)
(* cut at the last sentence or line boundary in its second half, stripped, *)
(* and kept unless it is blank; the next window overlaps it.  Positions    *)
(* count from 0 as in the code; a chunk is the set of its positions.       *)
(***************************************************************************)
EXTENDS Integers, Sequences

CONSTANTS
  Text,    \* the texts, as sequences of the classes of their characters
  Size,    \* chunk_size
  Overlap  \* chunk_overlap

Classes == {"letter", "blank", "period", "newline"}

ASSUME TextAssumption == Text \subseteq Seq(Classes)
ASSUME SizeAssumption == Size \in Nat \ {0}
ASSUME OverlapAssumption == Overlap \in Nat

VARIABLES
  text,    \* the text
  start,   \* the start of the next window
  chunks,  \* the chunks so far
  done     \* the list has been returned

vars == <<text, start, chunks, done>>

Init == text \in Text /\ start = 0 /\ chunks = <<>> /\ done = FALSE

Ink(p) == text[p + 1] \notin {"blank", "newline"}

(* strip: the positions from the first to the last that is not blank.      *)
Mut_StripLast(from, to) ==
  {p \in from..(to - 1) : \E q, r \in from..(to - 1) : q <= p /\ p < r /\ Ink(q) /\ Ink(r)}
Strip(from, to) ==
  {p \in from..(to - 1) : \E q, r \in from..(to - 1) : q <= p /\ p <= r /\ Ink(q) /\ Ink(r)}

(* The boundaries at which a window may be cut.                            *)
Mut_SplitsAnywhere ==
  {p \in start..(start + Size - 1) : text[p + 1] \in {"period", "newline"}}
Splits ==
  {p \in (start + Size \div 2 + 1)..(start + Size - 1) : text[p + 1] \in {"period", "newline"}}

(* end, after the cut.                                                     *)
IsEnd(end) ==
  \/ start + Size >= Len(text) /\ end = start + Size
  \/ start + Size < Len(text) /\ Splits = {} /\ end = start + Size
  \/ start + Size < Len(text) /\ end - 1 \in Splits /\ \A p \in Splits : p < end

(* The positions a window ending at end has in the text.                   *)
Limit(end) == IF end < Len(text) THEN end ELSE Len(text)

(* A text no longer than a window is one chunk, blank or not.              *)
Whole ==
  /\ ~done /\ Len(text) <= Size
  /\ chunks' = <<[start_char |-> 0, content |-> 0..(Len(text) - 1)]>>
  /\ start' = Len(text)
  /\ done' = TRUE
  /\ UNCHANGED text

(* The next start goes back by the overlap, but not to the last chunk's.   *)
Following(cs, end) ==
  IF cs = <<>> \/ end - Overlap <= cs[Len(cs)].start_char THEN end ELSE end - Overlap

Window(end) ==
  /\ ~done /\ Len(text) > Size /\ start < Len(text)
  /\ IsEnd(end)
  /\ LET content == Strip(start, Limit(end))
     IN  chunks' = IF content = {} THEN chunks
                   ELSE Append(chunks, [start_char |-> start, content |-> content])
  /\ start' = Following(chunks', end)
  /\ UNCHANGED <<text, done>>

Returns ==
  /\ ~done /\ Len(text) > Size /\ start >= Len(text)
  /\ done' = TRUE
  /\ UNCHANGED <<text, start, chunks>>

Next == Whole \/ (\E end \in start..(start + Size) : Window(end)) \/ Returns

Spec == Init /\ [][Next]_vars
-----------------------------------------------------------------------------
(* Properties.                                                             *)

(* Every variable has its type.                                            *)
TypeOK ==
  /\ text \in Text
  /\ start \in Nat
  /\ chunks \in Seq([start_char : Nat, content : SUBSET Nat])
  /\ done \in BOOLEAN

(* No text is lost: every character before the next window that is not     *)
(* blank is in a chunk, however windows are cut, stripped and skipped; and *)
(* a chunk fits in a window and begins after the one before it.            *)
NothingLost ==
  /\ \A p \in 0..(Limit(start) - 1) :
       Ink(p) => \E i \in DOMAIN chunks : p \in chunks[i].content
  /\ \A i \in DOMAIN chunks :
       /\ chunks[i].content \subseteq chunks[i].start_char..(chunks[i].start_char + Size - 1)
       /\ i > 1 => chunks[i - 1].start_char < chunks[i].start_char
  /\ done => start >= Len(text)

(* The overlaps for which every window begins after the one before it: a   *)
(* window that is cut has more than half of Size.  The configuration does  *)
(* not check this; the defaults are 512 and 64.                            *)
SmallOverlap == Overlap < Size /\ Overlap <= Size \div 2 + 1

(* The loop ends, also over blank windows and repeated boundaries: the     *)
(* service chunks on its event loop, where an endless loop stops it whole. *)
(* True of small overlaps only; chunk_text's docstring has "a sliding      *)
(* window approach with configurable size and overlap".                    *)
ChunkingEnds == <>done

(* A loop of synchronous code goes on.                                     *)
FairSpec == Spec /\ WF_vars(Next)
=============================================================================
