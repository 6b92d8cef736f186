--------------------------- MODULE ChunkingProofs ---------------------------
(* Chunking of texts of any length, for every window and overlap; the loop *)
(* is shown to go forward for small overlaps only.                         *)
EXTENDS Chunking, TLAPS

Chunk == [start_char : Nat, content : SUBSET Nat]

(* While the loop runs, every chunk begins before the next window does,    *)
(* also when the window goes back, and none after the last one.            *)
InOrder ==
  ~done => \A i \in DOMAIN chunks : /\ chunks[i].start_char < start
                                    /\ chunks[i].start_char <= chunks[Len(chunks)].start_char

IInv == TypeOK /\ NothingLost /\ InOrder

(* A window has at least one character and at most Size.                   *)
LEMMA EndBounds ==
  ASSUME TypeOK, NEW end \in start..(start + Size), IsEnd(end)
  PROVE  end > start /\ end <= start + Size
<1> USE SizeAssumption DEF TypeOK
<1>1. CASE end = start + Size
  BY <1>1
<1>2. CASE end - 1 \in Splits
  <2>1. end - 1 >= start + Size \div 2 + 1
    BY <1>2 DEF Splits
  <2> QED
    BY <2>1
<1> QED
  BY <1>1, <1>2 DEF IsEnd

(* It does not end before a small overlap is behind it.                    *)
LEMMA EndPastOverlap ==
  ASSUME SmallOverlap, TypeOK, NEW end \in start..(start + Size), IsEnd(end)
  PROVE  end - Overlap > start
<1> USE SizeAssumption, OverlapAssumption DEF TypeOK, SmallOverlap
<1>1. CASE end = start + Size
  <2>1. Size - Overlap > 0
    OBVIOUS
  <2> QED
    BY <1>1, <2>1
<1>2. CASE end - 1 \in Splits
  <2>1. end - 1 >= start + Size \div 2 + 1
    BY <1>2 DEF Splits
  <2> QED
    BY <2>1
<1> QED
  BY <1>1, <1>2 DEF IsEnd

(* What strip keeps is inside the window and has every character in it     *)
(* that is not blank.                                                      *)
LEMMA StripKeeps ==
  ASSUME NEW from \in Nat, NEW to \in Int
  PROVE  /\ Strip(from, to) \subseteq from..(to - 1)
         /\ \A p \in from..(to - 1) : Ink(p) => p \in Strip(from, to)
<1>1. Strip(from, to) \subseteq from..(to - 1)
  BY DEF Strip
<1>2. ASSUME NEW p \in from..(to - 1), Ink(p) PROVE p \in Strip(from, to)
  <2>1. p <= p
    OBVIOUS
  <2> QED
    BY <1>2, <2>1 DEF Strip
<1> QED
  BY <1>1, <1>2

LEMMA TextIsSeq == TypeOK => text \in Seq(Classes) /\ Len(text) \in Nat
BY TextAssumption DEF TypeOK

(* Where the next window starts: after every earlier one, and not after    *)
(* the end of this one.                                                    *)
LEMMA NextStart ==
  ASSUME NEW cs \in Seq(Chunk), NEW end \in Nat,
         \A i \in DOMAIN cs : cs[i].start_char < end
  PROVE  /\ Following(cs, end) \in Nat
         /\ Following(cs, end) <= end
         /\ cs # <<>> => cs[Len(cs)].start_char < Following(cs, end)
<1> USE SizeAssumption, OverlapAssumption
<1>1. Overlap \in Nat
  OBVIOUS
<1>2. CASE cs = <<>>
  BY <1>1, <1>2 DEF Following
<1>3. CASE cs # <<>>
  <2>1. Len(cs) \in DOMAIN cs
    BY <1>3
  <2>2. cs[Len(cs)] \in Chunk
    BY <2>1
  <2>3. cs[Len(cs)].start_char \in Nat /\ cs[Len(cs)].start_char < end
    BY <2>1, <2>2 DEF Chunk
  <2> QED
    BY <1>1, <1>3, <2>3 DEF Following
<1> QED
  BY <1>2, <1>3

LEMMA InitIInv == Init => IInv
<1> SUFFICES ASSUME Init PROVE IInv
  OBVIOUS
<1>1. TypeOK
  <2>1. <<>> \in Seq([start_char : Nat, content : SUBSET Nat])
    OBVIOUS
  <2> QED
    BY <2>1 DEF Init, TypeOK
<1>2. Len(text) \in Nat
  BY <1>1, TextIsSeq
<1>3. NothingLost
  BY <1>2 DEF Init, NothingLost, Limit
<1>4. InOrder
  BY DEF Init, InOrder
<1> QED
  BY <1>1, <1>3, <1>4 DEF IInv

LEMMA WholeIInv == IInv /\ Whole => IInv'
<1> SUFFICES ASSUME IInv, Whole PROVE IInv'
  OBVIOUS
<1>1. TypeOK /\ Len(text) \in Nat
  BY TextIsSeq DEF IInv
<1>2. [start_char |-> 0, content |-> 0..(Len(text) - 1)] \in Chunk
  BY <1>1 DEF Chunk
<1>3. chunks' \in Seq(Chunk) /\ Len(chunks') = 1 /\ DOMAIN chunks' = {1}
  BY <1>2 DEF Whole
<1>4. chunks'[1] = [start_char |-> 0, content |-> 0..(Len(text) - 1)]
  BY DEF Whole
<1>5. TypeOK'
  BY <1>1, <1>3 DEF TypeOK, Whole, Chunk
<1>6. NothingLost'
  <2>1. \A p \in 0..(Limit(start)' - 1) : p \in chunks'[1].content
    BY <1>1, <1>4 DEF Limit, Whole
  <2>2. chunks'[1].content \subseteq chunks'[1].start_char..(chunks'[1].start_char + Size - 1)
    BY <1>1, <1>4, SizeAssumption DEF Whole
  <2>3. start' >= Len(text')
    BY <1>1 DEF Whole
  <2> QED
    BY <1>3, <2>1, <2>2, <2>3 DEF NothingLost
<1>7. InOrder'
  BY DEF InOrder, Whole
<1> QED
  BY <1>5, <1>6, <1>7 DEF IInv

LEMMA WindowIInv ==
  ASSUME IInv, NEW end \in start..(start + Size), Window(end)
  PROVE  IInv'
<1> DEFINE content == Strip(start, Limit(end))
<1> DEFINE new == [start_char |-> start, content |-> content]
<1>1. TypeOK /\ Len(text) \in Nat /\ start \in Nat /\ chunks \in Seq(Chunk)
  BY TextIsSeq DEF IInv, TypeOK, Chunk
<1>2. start < Len(text) /\ ~done /\ IsEnd(end)
  BY DEF Window
<1>3. end \in Nat /\ end > start /\ end <= start + Size
  <2>1. end > start /\ end <= start + Size
    BY <1>1, <1>2, EndBounds
  <2> QED
    BY <1>1, <2>1, SizeAssumption
<1>4. Limit(end) \in Nat /\ Limit(end) <= end /\ Limit(start) = start
  BY <1>1, <1>2, <1>3 DEF Limit
<1>5. /\ content \subseteq start..(Limit(end) - 1)
      /\ \A p \in start..(Limit(end) - 1) : Ink(p) => p \in content
  BY <1>1, <1>4, StripKeeps
<1>6. new \in Chunk /\ content \subseteq start..(start + Size - 1)
  BY <1>1, <1>3, <1>4, <1>5, SizeAssumption DEF Chunk
<1>7. chunks' = IF content = {} THEN chunks ELSE Append(chunks, new)
  BY DEF Window
<1>8. chunks' \in Seq(Chunk) /\ Len(chunks) <= Len(chunks')
  BY <1>1, <1>6, <1>7
<1>9. \A i \in DOMAIN chunks : i \in DOMAIN chunks' /\ chunks'[i] = chunks[i]
  BY <1>1, <1>6, <1>7
<1>10. \A i \in DOMAIN chunks' :
          \/ i \in DOMAIN chunks /\ chunks'[i] = chunks[i]
          \/ i = Len(chunks) + 1 /\ chunks'[i] = new
  BY <1>1, <1>6, <1>7
<1>11. \A i \in DOMAIN chunks : chunks[i].start_char \in Nat /\ chunks[i].start_char < start
  <2>1. \A i \in DOMAIN chunks : chunks[i] \in Chunk
    BY <1>1
  <2>2. \A i \in DOMAIN chunks : chunks[i].start_char < start
    BY <1>2 DEF IInv, InOrder
  <2> QED
    BY <2>1, <2>2 DEF Chunk
<1>12. \A i \in DOMAIN chunks' : chunks'[i].start_char \in Nat /\ chunks'[i].start_char <= start
  BY <1>1, <1>10, <1>11
<1>13. start' = Following(chunks', end)
  BY DEF Window
<1>14. /\ start' \in Nat /\ start' <= end
       /\ chunks' # <<>> => chunks'[Len(chunks')].start_char < start'
  <2>1. \A i \in DOMAIN chunks' : chunks'[i].start_char < end
    BY <1>1, <1>3, <1>12
  <2> QED
    BY <1>3, <1>8, <1>13, <2>1, NextStart
<1>15. TypeOK'
  BY <1>1, <1>8, <1>14 DEF TypeOK, Window, Chunk
<1>16. text' = text /\ done' = done
  BY DEF Window
<1>17. NothingLost'
  <2>1. \A p \in 0..(Limit(start)' - 1) :
          Ink(p)' => \E i \in DOMAIN chunks' : p \in chunks'[i].content
    <3> SUFFICES ASSUME NEW p \in 0..(Limit(start)' - 1), Ink(p)'
                 PROVE  \E i \in DOMAIN chunks' : p \in chunks'[i].content
      OBVIOUS
    <3>1. Ink(p) /\ p \in 0..(Limit(end) - 1)
      BY <1>1, <1>3, <1>4, <1>14, <1>16 DEF Ink, Limit
    <3>2. CASE p < start
      <4>1. p \in 0..(Limit(start) - 1)
        BY <1>1, <1>4, <3>1, <3>2
      <4>2. PICK i \in DOMAIN chunks : p \in chunks[i].content
        BY <3>1, <4>1 DEF IInv, NothingLost
      <4> QED
        BY <1>9, <4>2
    <3>3. CASE p >= start
      <4>1. p \in content
        BY <1>1, <1>4, <1>5, <3>1, <3>3
      <4>2. chunks' = Append(chunks, new)
        BY <1>7, <4>1
      <4>3. Len(chunks) + 1 \in DOMAIN chunks' /\ chunks'[Len(chunks) + 1] = new
        BY <1>1, <1>6, <4>2
      <4> QED
        BY <4>1, <4>3
    <3> QED
      BY <1>1, <3>1, <3>2, <3>3
  <2>2. \A i \in DOMAIN chunks' :
          chunks'[i].content \subseteq chunks'[i].start_char..(chunks'[i].start_char + Size - 1)
    <3>1. \A i \in DOMAIN chunks :
            chunks[i].content \subseteq chunks[i].start_char..(chunks[i].start_char + Size - 1)
      BY DEF IInv, NothingLost
    <3>2. new.content = content /\ new.start_char = start
      OBVIOUS
    <3> HIDE DEF new, content
    <3> QED
      BY <1>6, <1>10, <3>1, <3>2
  <2>3. \A i \in DOMAIN chunks' : i > 1 => chunks'[i - 1].start_char < chunks'[i].start_char
    <3> SUFFICES ASSUME NEW i \in DOMAIN chunks', i > 1
                 PROVE  chunks'[i - 1].start_char < chunks'[i].start_char
      OBVIOUS
    <3>1. i \in Nat /\ i <= Len(chunks')
      BY <1>8
    <3>2. Len(chunks') <= Len(chunks) + 1
      BY <1>1, <1>6, <1>7
    <3>3. i - 1 \in DOMAIN chunks
      BY <1>1, <1>8, <3>1, <3>2
    <3>4. chunks'[i - 1] = chunks[i - 1]
      BY <1>9, <3>3
    <3>5. CASE i \in DOMAIN chunks /\ chunks'[i] = chunks[i]
      BY <3>4, <3>5 DEF IInv, NothingLost
    <3>6. CASE chunks'[i] = new
      BY <1>11, <3>3, <3>4, <3>6
    <3> QED
      BY <1>10, <3>5, <3>6
  <2> QED
    BY <1>2, <1>16, <2>1, <2>2, <2>3 DEF NothingLost
<1>18. InOrder'
  <2> DEFINE last == chunks'[Len(chunks')].start_char
  <2>1. \A i \in DOMAIN chunks' : chunks'[i].start_char <= last
    <3>1. CASE content = {}
      BY <1>2, <1>7, <3>1 DEF IInv, InOrder
    <3>2. CASE content # {}
      <4>1. chunks' = Append(chunks, new) /\ Len(chunks') = Len(chunks) + 1
        BY <1>1, <1>6, <1>7, <3>2
      <4>2. last = start
        BY <1>1, <1>6, <4>1
      <4> QED
        BY <1>12, <4>2
    <3> QED
      BY <3>1, <3>2
  <2>2. chunks' # <<>> => last \in Nat /\ last < start'
    <3>1. chunks' # <<>> => Len(chunks') \in DOMAIN chunks'
      BY <1>8
    <3> QED
      BY <1>12, <1>14, <3>1
  <2>3. \A i \in DOMAIN chunks' : chunks' # <<>> /\ chunks'[i].start_char \in Nat
    BY <1>8, <1>12
  <2> HIDE DEF last
  <2>4. \A i \in DOMAIN chunks' : chunks'[i].start_char < start'
    BY <1>14, <2>1, <2>2, <2>3
  <2> QED
    BY <2>1, <2>4 DEF InOrder, last
<1> QED
  BY <1>15, <1>17, <1>18 DEF IInv

LEMMA ReturnsIInv == IInv /\ Returns => IInv'
BY DEF IInv, Returns, TypeOK, NothingLost, InOrder, Limit, Ink

LEMMA StutterIInv == IInv /\ UNCHANGED vars => IInv'
BY DEF IInv, vars, TypeOK, NothingLost, InOrder, Limit, Ink

LEMMA StepIInv == IInv /\ [Next]_vars => IInv'
BY WholeIInv, WindowIInv, ReturnsIInv, StutterIInv DEF Next

LEMMA InvariantIInv == Spec => []IInv
BY InitIInv, StepIInv, PTL DEF Spec

(* Type correctness of chunk_text's loop.                                  *)
THEOREM TypeCorrect == Spec => []TypeOK
BY InvariantIInv, PTL DEF IInv

(* No character that is not blank is lost between chunks, for texts of any *)
(* length and every window and overlap.                                    *)
THEOREM NothingIsLost == Spec => []NothingLost
BY InvariantIInv, PTL DEF IInv

LEMMA WindowAdvances ==
  ASSUME SmallOverlap, IInv, NEW end \in start..(start + Size), Window(end)
  PROVE  start' > start
<1>1. TypeOK /\ start \in Nat /\ IsEnd(end)
  BY DEF IInv, TypeOK, Window
<1>2. end > start /\ end - Overlap > start
  BY <1>1, EndBounds, EndPastOverlap
<1>3. start' = end \/ start' = end - Overlap
  BY DEF Window, Following
<1> QED
  BY <1>2, <1>3

(* With a small overlap every window begins after the one before it, so    *)
(* the loop over a finite text ends.                                       *)
Advances == [][~done /\ ~done' => start' > start]_vars

THEOREM LoopAdvances == ASSUME SmallOverlap PROVE Spec => Advances
<1>1. IInv /\ [Next]_vars => [~done /\ ~done' => start' > start]_vars
  <2> SUFFICES ASSUME IInv, Next, ~done, ~done' PROVE start' > start
    OBVIOUS
  <2>1. ~Whole /\ ~Returns
    BY DEF Whole, Returns
  <2> QED
    BY <2>1, WindowAdvances DEF Next
<1> QED
  BY <1>1, InvariantIInv, PTL DEF Spec, Advances
=============================================================================
