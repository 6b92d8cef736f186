-------------------------- MODULE TraceStoreProofs --------------------------
(***************************************************************************)
(* The invariants of TraceStore and its refinement of TraceWindow, for any *)
(* cap, any traces and any number of spans and replays.                    *)
(***************************************************************************)
EXTENDS TraceStore, DbFlagProofs, SequenceTheorems, FiniteSetTheorems,
        WellFoundedInduction, NaturalsInduction, TLAPS

(* o is what is left of the creations b: the last MaxTraces of them.       *)
LastOf(o, b) ==
  /\ Len(o) = IF Len(b) < MaxTraces THEN Len(b) ELSE MaxTraces
  /\ \A k \in 1 .. Len(o) : o[k] = b[Len(b) - Len(o) + k]

Distinct(s) == \A j, k \in DOMAIN s : s[j] = s[k] => j = k

(* The store, its log and its history.                                     *)
StoreInv ==
  /\ log \in Seq(Span)
  /\ order \in Seq(Trace) /\ births \in Seq(Trace)
  /\ Distinct(order)
  /\ spans \in [Held -> Seq(DOMAIN log)]
  /\ rows \subseteq DOMAIN log /\ gone \subseteq DOMAIN log
  /\ LastOf(order, births)
  /\ HeldWithoutGap
  /\ Partition

ReplayInv ==
  /\ replay \in [Replay -> [pc : {"idle", "calling", "done"},
                            plan : SUBSET DOMAIN log, called : SUBSET DOMAIN log]]
  /\ \A r \in Replay : replay[r].called \subseteq Queries(replay[r].plan)
  /\ running \in 0 .. MaxRunning
  /\ ReplayIsSnapshot

Inv ==
  /\ DbInv /\ StoreInv /\ ReplayInv
  /\ rest \in Seq(Span) /\ Len(log) + Len(rest) <= MaxSpans

-----------------------------------------------------------------------------
(* Sequences.                                                              *)

LEMMA AppendFacts ==
  ASSUME NEW S, NEW s \in Seq(S), NEW e \in S
  PROVE  /\ Append(s, e) \in Seq(S)
         /\ Len(Append(s, e)) = Len(s) + 1
         /\ DOMAIN Append(s, e) = 1 .. Len(s) + 1
         /\ \A k \in 1 .. Len(s) : Append(s, e)[k] = s[k]
         /\ Append(s, e)[Len(s) + 1] = e
  OBVIOUS

LEMMA Members ==
  ASSUME NEW S, NEW s \in Seq(S), NEW e \in S
  PROVE  PositionsOf(Append(s, e)) = PositionsOf(s) \cup {e}
<1>1. DOMAIN s = 1 .. Len(s) /\ Len(s) \in Nat
  OBVIOUS
<1>2. DOMAIN Append(s, e) = DOMAIN s \cup {Len(s) + 1}
  BY <1>1, AppendFacts
<1> QED
  BY <1>1, <1>2, AppendFacts DEF PositionsOf

(* One creation and, if the store was full, one eviction of the oldest.    *)
LEMMA TrimmedAppend ==
  ASSUME NEW o \in Seq(Trace), NEW b \in Seq(Trace), NEW t \in Trace,
         LastOf(o, b), Distinct(o), \A k \in DOMAIN o : o[k] # t
  PROVE  LET oo == Trimmed(Append(o, t))
         IN  /\ oo \in Seq(Trace)
             /\ LastOf(oo, Append(b, t))
             /\ Distinct(oo)
             /\ Len(oo) > 0 /\ oo[Len(oo)] = t
             /\ \A k \in 1 .. Len(oo) - 1 : \E j \in 1 .. Len(o) : oo[k] = o[j]
<1> DEFINE a == Append(o, t)
           oo == Trimmed(a)
           bb == Append(b, t)
<1>1. /\ a \in Seq(Trace) /\ Len(a) = Len(o) + 1
      /\ \A k \in 1 .. Len(o) : a[k] = o[k]
      /\ a[Len(o) + 1] = t
  BY AppendFacts
<1>2. /\ bb \in Seq(Trace) /\ Len(bb) = Len(b) + 1
      /\ \A k \in 1 .. Len(b) : bb[k] = b[k]
      /\ bb[Len(b) + 1] = t
  BY AppendFacts
<1>3. Len(o) \in Nat /\ Len(b) \in Nat /\ DOMAIN o = 1 .. Len(o)
  OBVIOUS
<1>4. MaxTraces \in Nat /\ MaxTraces > 0
  BY TracesAssumption
<1>5. Distinct(a)
  <2>1. DOMAIN a = 1 .. Len(o) + 1
    BY <1>1
  <2> QED
    BY <2>1, <1>1, <1>3 DEF Distinct
<1> HIDE DEF a, bb
<1>6. CASE Len(b) < MaxTraces
  <2>1. Len(o) = Len(b) /\ ~(Len(a) > MaxTraces)
    BY <1>1, <1>3, <1>4, <1>6 DEF LastOf
  <2>2. oo = a
    BY <2>1 DEF Trimmed
  <2>3. LastOf(oo, bb)
    BY <2>1, <2>2, <1>1, <1>2, <1>3, <1>4, <1>6 DEF LastOf
  <2> QED
    BY <2>1, <2>2, <2>3, <1>1, <1>3, <1>5 DEF a, bb
<1>7. CASE ~(Len(b) < MaxTraces)
  <2>1. Len(o) = MaxTraces /\ Len(a) > MaxTraces /\ a # <<>>
    BY <1>1, <1>3, <1>4, <1>7 DEF LastOf
  <2>2. oo = Tail(a)
    BY <2>1 DEF Trimmed
  <2>3. /\ oo \in Seq(Trace) /\ Len(oo) = Len(o)
        /\ \A k \in 1 .. Len(o) : oo[k] = a[k + 1]
    BY <2>1, <2>2, <1>1, <1>3, HeadTailProperties
  <2>4. Distinct(oo)
    <3>1. DOMAIN oo = 1 .. Len(o) /\ DOMAIN a = 1 .. Len(o) + 1
      BY <2>3, <1>1
    <3>2. ASSUME NEW j \in DOMAIN oo, NEW k \in DOMAIN oo, oo[j] = oo[k]
          PROVE  j = k
      <4>1. a[j + 1] = a[k + 1] /\ j + 1 \in DOMAIN a /\ k + 1 \in DOMAIN a
        BY <3>1, <3>2, <2>3, <1>3
      <4> QED
        BY <4>1, <3>1, <1>3, <1>5 DEF Distinct
    <3> QED
      BY <3>2 DEF Distinct
  <2>5. LastOf(oo, bb)
    <3>1. Len(oo) = IF Len(bb) < MaxTraces THEN Len(bb) ELSE MaxTraces
      BY <2>1, <2>3, <1>2, <1>3, <1>4, <1>7
    <3>2. ASSUME NEW k \in 1 .. Len(oo)
          PROVE  oo[k] = bb[Len(bb) - Len(oo) + k]
      <4>1. CASE k < Len(o)
        <5>1. oo[k] = o[k + 1]
          BY <4>1, <3>2, <2>3, <1>1, <1>3
        <5>2. o[k + 1] = b[Len(b) - Len(o) + (k + 1)]
          BY <4>1, <3>2, <2>3, <1>3 DEF LastOf
        <5>3. /\ Len(bb) - Len(oo) + k = Len(b) - Len(o) + (k + 1)
              /\ Len(b) - Len(o) + (k + 1) \in 1 .. Len(b)
          BY <4>1, <3>2, <2>1, <2>3, <1>2, <1>3, <1>7
        <5> QED
          BY <5>1, <5>2, <5>3, <1>2
      <4>2. CASE k = Len(o)
        BY <4>2, <3>2, <2>3, <1>1, <1>2, <1>3
      <4> QED
        BY <4>1, <4>2, <3>2, <2>3, <1>3
    <3> QED
      BY <3>1, <3>2 DEF LastOf
  <2>6. ASSUME NEW k \in 1 .. Len(oo) - 1
        PROVE  \E j \in 1 .. Len(o) : oo[k] = o[j]
    <3>1. k + 1 \in 1 .. Len(o) /\ oo[k] = o[k + 1]
      BY <2>6, <2>3, <1>1, <1>3
    <3> QED
      BY <3>1
  <2>7. Len(oo) > 0 /\ oo[Len(oo)] = t
    BY <2>1, <2>3, <1>1, <1>3, <1>4
  <2> QED
    BY <2>3, <2>4, <2>5, <2>6, <2>7 DEF a, bb
<1> QED
  BY <1>6, <1>7 DEF a, bb

-----------------------------------------------------------------------------
(* The effect of one span.                                                 *)

(* Facts about the log with one more span.                                 *)
LEMMA LogGrows ==
  ASSUME log \in Seq(Span), NEW s \in Span, log' = Append(log, s)
  PROVE  /\ log' \in Seq(Span)
         /\ Len(log) \in Nat /\ DOMAIN log = 1 .. Len(log)
         /\ DOMAIN log' = DOMAIN log \cup {Len(log) + 1}
         /\ Len(log) + 1 \notin DOMAIN log
         /\ \A m \in DOMAIN log : log'[m] = log[m]
         /\ log'[Len(log) + 1] = s
<1>1. Len(log) \in Nat /\ DOMAIN log = 1 .. Len(log)
  OBVIOUS
<1>2. DOMAIN log' = 1 .. Len(log) + 1
  BY AppendFacts
<1> QED
  BY <1>1, <1>2, AppendFacts

(* A trace that does not get the span keeps its part of HeldWithoutGap.    *)
LEMMA OthersWithoutGap ==
  ASSUME StoreInv, NEW s \in Span, log' = Append(log, s),
         NEW x \in Held, x # s.trace, spans'[x] = spans[x]
  PROVE  /\ spans'[x] \in Seq(DOMAIN log')
         /\ spans'[x] # <<>>
         /\ \A j, k \in DOMAIN spans'[x] : j < k => spans'[x][j] < spans'[x][k]
         /\ PositionsOf(spans'[x]) =
              {n \in DOMAIN log' : n >= spans'[x][1] /\ log'[n].trace = x}
<1>1. log \in Seq(Span)
  BY DEF StoreInv
<1>2. spans[x] \in Seq(DOMAIN log)
  BY DEF StoreInv
<1>3. DOMAIN log \subseteq DOMAIN log'
  BY <1>1, LogGrows
<1>4. spans[x] \in Seq(DOMAIN log')
  BY <1>2, <1>3, SeqMonotonic
<1>5. {n \in DOMAIN log' : n >= spans[x][1] /\ log'[n].trace = x}
        = {n \in DOMAIN log : n >= spans[x][1] /\ log[n].trace = x}
  BY <1>1, LogGrows
<1> QED
  BY <1>4, <1>5 DEF StoreInv, HeldWithoutGap

LEMMA ExtendStore ==
  ASSUME StoreInv, NEW s \in Span, log' = Append(log, s),
         s.trace \in Held, Extend(s.trace, Len(log) + 1), rows' \subseteq DOMAIN log'
  PROVE  StoreInv'
<1> DEFINE t == s.trace
           n == Len(log) + 1
<1>1. /\ order' = order /\ births' = births /\ gone' = gone
      /\ spans' = [spans EXCEPT ![t] = Append(spans[t], n)]
  BY DEF Extend
<1>2. log \in Seq(Span) /\ spans \in [Held -> Seq(DOMAIN log)]
  BY DEF StoreInv
<1>3. Held' = Held
  BY <1>1 DEF Held
<1>4. /\ log' \in Seq(Span)
      /\ DOMAIN log = 1 .. Len(log) /\ Len(log) \in Nat
      /\ DOMAIN log' = DOMAIN log \cup {n}
      /\ n \notin DOMAIN log /\ log'[n].trace = t
      /\ \A m \in DOMAIN log : log'[m] = log[m]
  BY <1>2, LogGrows
<1>5. spans[t] \in Seq(DOMAIN log) /\ spans[t] \in Seq(DOMAIN log') /\ n \in DOMAIN log'
  BY <1>2, <1>4, SeqMonotonic
<1>6. spans'[t] = Append(spans[t], n)
  BY <1>1, <1>2
<1>7. \A x \in Held : x # t => spans'[x] = spans[x]
  BY <1>1, <1>2
<1>8. spans'[t] \in Seq(DOMAIN log')
  BY <1>5, <1>6, AppendFacts
<1> HIDE DEF t, n
<1>9. spans' \in [Held' -> Seq(DOMAIN log')]
  <2>1. spans' \in [Held -> Seq(DOMAIN log) \cup {Append(spans[t], n)}]
    BY <1>1, <1>2
  <2>2. ASSUME NEW x \in Held
        PROVE  spans'[x] \in Seq(DOMAIN log')
    BY <2>2, <1>7, <1>8, <1>2, OthersWithoutGap DEF t
  <2> QED
    BY <2>1, <2>2, <1>3
<1>10. HeldWithoutGap'
  <2>1. ASSUME NEW x \in Held, x # t
        PROVE  /\ spans'[x] # <<>>
               /\ \A j, k \in DOMAIN spans'[x] : j < k => spans'[x][j] < spans'[x][k]
               /\ PositionsOf(spans'[x]) =
                    {m \in DOMAIN log' : m >= spans'[x][1] /\ log'[m].trace = x}
    BY <2>1, <1>7, OthersWithoutGap DEF t
  <2>2. /\ spans[t] # <<>> /\ DOMAIN spans[t] = 1 .. Len(spans[t])
        /\ Len(spans[t]) \in Nat /\ Len(spans[t]) > 0
        /\ \A j \in DOMAIN spans[t] : spans[t][j] \in Nat /\ spans[t][j] < n
    <3>1. spans[t] # <<>>
      BY DEF StoreInv, HeldWithoutGap, t
    <3>2. \A j \in 1 .. Len(spans[t]) : spans[t][j] \in 1 .. Len(log)
      BY <1>4, <1>5
    <3> QED
      BY <3>1, <3>2, <1>4, <1>5 DEF n
  <2>3. /\ DOMAIN spans'[t] = 1 .. Len(spans[t]) + 1
        /\ \A k \in 1 .. Len(spans[t]) : spans'[t][k] = spans[t][k]
        /\ spans'[t][Len(spans[t]) + 1] = n
    BY <1>5, <1>6, AppendFacts
  <2>4. spans'[t] # <<>> /\ spans'[t][1] = spans[t][1]
    BY <2>2, <2>3
  <2>5. \A j, k \in DOMAIN spans'[t] : j < k => spans'[t][j] < spans'[t][k]
    <3>1. \A j, k \in 1 .. Len(spans[t]) : j < k => spans[t][j] < spans[t][k]
      BY <2>2 DEF StoreInv, HeldWithoutGap, t
    <3>2. ASSUME NEW j \in DOMAIN spans'[t], NEW k \in DOMAIN spans'[t], j < k
          PROVE  spans'[t][j] < spans'[t][k]
      <4>1. /\ j \in Nat /\ k \in Nat /\ j \in 1 .. Len(spans[t])
            /\ k \in 1 .. Len(spans[t]) \/ k = Len(spans[t]) + 1
        BY <3>2, <2>2, <2>3
      <4>2. spans'[t][j] = spans[t][j]
        BY <4>1, <2>3
      <4>3. CASE k \in 1 .. Len(spans[t])
        <5>1. spans'[t][k] = spans[t][k]
          BY <4>3, <2>3
        <5>2. spans[t][j] < spans[t][k]
          BY <4>1, <4>3, <3>1, <3>2
        <5> QED
          BY <4>2, <5>1, <5>2
      <4>4. CASE k = Len(spans[t]) + 1
        <5>1. spans'[t][k] = n
          BY <4>4, <2>3
        <5>2. spans[t][j] < n
          BY <4>1, <2>2
        <5> QED
          BY <4>2, <5>1, <5>2
      <4> QED
        BY <4>1, <4>3, <4>4
    <3> QED
      BY <3>2
  <2>6. PositionsOf(spans'[t]) =
          {m \in DOMAIN log' : m >= spans'[t][1] /\ log'[m].trace = t}
    <3>1. PositionsOf(spans'[t]) = PositionsOf(spans[t]) \cup {n}
      BY <1>5, <1>6, Members
    <3>2. PositionsOf(spans[t]) =
            {m \in DOMAIN log : m >= spans[t][1] /\ log[m].trace = t}
      BY DEF StoreInv, HeldWithoutGap, t
    <3>3. n >= spans[t][1]
      BY <2>2, <1>4 DEF n
    <3> QED
      BY <3>1, <3>2, <3>3, <2>4, <1>4
  <2> QED
    BY <2>1, <2>4, <2>5, <2>6, <1>3 DEF HeldWithoutGap
<1>11. Partition'
  <2>1. SpansOf(Held)' = SpansOf(Held) \cup {n}
    <3>1. PositionsOf(spans'[t]) = PositionsOf(spans[t]) \cup {n}
      BY <1>5, <1>6, Members
    <3>2. \A x \in Held : x # t => PositionsOf(spans'[x]) = PositionsOf(spans[x])
      BY <1>7
    <3>3. SpansOf(Held)' = UNION {PositionsOf(spans'[x]) : x \in Held}
      BY <1>3 DEF SpansOf, PositionsOf
    <3>4. t \in Held
      BY DEF t
    <3> QED
      BY <3>1, <3>2, <3>3, <3>4 DEF SpansOf
  <2>2. SpansOf(Held) \cup gone = DOMAIN log /\ SpansOf(Held) \cap gone = {}
    BY DEF StoreInv, Partition
  <2> QED
    BY <2>1, <2>2, <1>1, <1>4 DEF Partition
<1> QED
  BY <1>1, <1>4, <1>9, <1>10, <1>11, <1>3 DEF StoreInv, Distinct, LastOf

LEMMA CreateStore ==
  ASSUME StoreInv, NEW s \in Span, log' = Append(log, s),
         s.trace \notin Held, Create(s.trace, Len(log) + 1), rows' \subseteq DOMAIN log'
  PROVE  StoreInv'
<1> DEFINE t == s.trace
           n == Len(log) + 1
           kept == Held' \ {t}
<1>1. /\ order' = Trimmed(Append(order, t)) /\ births' = Append(births, t)
      /\ gone' = gone \cup SpansOf(Held \ Held')
      /\ spans' = [x \in Held' |-> IF x = t THEN <<n>> ELSE spans[x]]
  BY DEF Create
<1>2. log \in Seq(Span) /\ spans \in [Held -> Seq(DOMAIN log)] /\ t \in Trace
  BY DEF StoreInv, Span
<1>3. /\ log' \in Seq(Span)
      /\ DOMAIN log = 1 .. Len(log) /\ Len(log) \in Nat
      /\ DOMAIN log' = DOMAIN log \cup {n}
      /\ n \notin DOMAIN log /\ log'[n].trace = t
      /\ \A m \in DOMAIN log : log'[m] = log[m]
  BY <1>2, LogGrows
<1>4. /\ order' \in Seq(Trace) /\ births' \in Seq(Trace)
      /\ LastOf(order', births') /\ Distinct(order')
      /\ Len(order') > 0 /\ order'[Len(order')] = t
      /\ \A k \in 1 .. Len(order') - 1 : \E j \in 1 .. Len(order) : order'[k] = order[j]
  <2>1. \A k \in DOMAIN order : order[k] # t
    BY DEF Held
  <2>2. Append(births, t) \in Seq(Trace)
    BY <1>2, AppendFacts DEF StoreInv
  <2>3. /\ order \in Seq(Trace) /\ births \in Seq(Trace)
        /\ LastOf(order, births) /\ Distinct(order)
    BY DEF StoreInv
  <2> DEFINE oo == Trimmed(Append(order, t))
  <2>4. /\ oo \in Seq(Trace)
        /\ LastOf(oo, Append(births, t))
        /\ Distinct(oo)
        /\ Len(oo) > 0 /\ oo[Len(oo)] = t
        /\ \A k \in 1 .. Len(oo) - 1 : \E j \in 1 .. Len(order) : oo[k] = order[j]
    <3> HIDE DEF t
    <3> QED
      BY <2>1, <2>3, <1>2, TrimmedAppend
  <2>5. order' = oo
    BY <1>1
  <2> HIDE DEF oo
  <2> QED
    BY <2>2, <2>4, <2>5, <1>1
<1>5. t \in Held' /\ kept \subseteq Held /\ Held' = kept \cup {t}
  <2>1. Held' = {order'[k] : k \in DOMAIN order'} /\ DOMAIN order' = 1 .. Len(order')
    BY <1>4 DEF Held
  <2>2. Len(order') \in 1 .. Len(order') /\ Len(order') \in Nat
    BY <1>4
  <2>3. ASSUME NEW k \in 1 .. Len(order'), order'[k] # t
        PROVE  order'[k] \in Held
    <3>1. k \in 1 .. Len(order') - 1
      BY <2>2, <2>3, <1>4
    <3>2. PICK j \in 1 .. Len(order) : order'[k] = order[j]
      BY <3>1, <1>4
    <3>3. DOMAIN order = 1 .. Len(order)
      BY DEF StoreInv
    <3> QED
      BY <3>2, <3>3 DEF Held
  <2> QED
    BY <2>1, <2>2, <2>3, <1>4
<1>6. spans'[t] = <<n>> /\ \A x \in kept : spans'[x] = spans[x]
  BY <1>1, <1>5
<1>7. /\ spans'[t] \in Seq(DOMAIN log')
      /\ DOMAIN spans'[t] = {1} /\ spans'[t][1] = n
  BY <1>3, <1>6
<1>8. \A x \in kept :
        /\ spans'[x] \in Seq(DOMAIN log')
        /\ spans'[x] # <<>>
        /\ \A j, k \in DOMAIN spans'[x] : j < k => spans'[x][j] < spans'[x][k]
        /\ PositionsOf(spans'[x]) =
             {m \in DOMAIN log' : m >= spans'[x][1] /\ log'[m].trace = x}
  BY <1>5, <1>6, OthersWithoutGap
<1>9. PositionsOf(spans'[t]) = {n}
  BY <1>7 DEF PositionsOf
<1> HIDE DEF t, n, kept
<1>10. spans' \in [Held' -> Seq(DOMAIN log')]
  <2>1. spans' = [x \in Held' |-> spans'[x]]
    BY <1>1
  <2> QED
    BY <2>1, <1>5, <1>7, <1>8
<1>11. HeldWithoutGap'
  <2>1. spans'[t] # <<>>
    BY <1>7
  <2>2. \A j, k \in DOMAIN spans'[t] : j < k => spans'[t][j] < spans'[t][k]
    BY <1>7
  <2>3. {m \in DOMAIN log' : m >= spans'[t][1] /\ log'[m].trace = t} = {n}
    <3>1. \A m \in DOMAIN log : m < n
      BY <1>3 DEF n
    <3>2. n >= n /\ n \in Nat
      BY <1>3 DEF n
    <3> QED
      BY <3>1, <3>2, <1>3, <1>7
  <2> QED
    BY <2>1, <2>2, <2>3, <1>5, <1>8, <1>9 DEF HeldWithoutGap
<1>12. Partition'
  <2>1. SpansOf(Held)' = UNION {PositionsOf(spans'[x]) : x \in Held'}
    BY DEF SpansOf, PositionsOf
  <2>2. SpansOf(Held)' = SpansOf(kept) \cup {n}
    BY <2>1, <1>5, <1>6, <1>9 DEF SpansOf
  <2>3. SpansOf(Held) = SpansOf(kept) \cup SpansOf(Held \ Held')
    <3>1. Held = kept \cup (Held \ Held')
      BY <1>5 DEF kept, t
    <3> QED
      BY <3>1 DEF SpansOf
  <2>4. \A x \in Held : \A m \in PositionsOf(spans[x]) : m \in DOMAIN log /\ log[m].trace = x
    BY DEF StoreInv, HeldWithoutGap
  <2>5. SpansOf(kept) \cap SpansOf(Held \ Held') = {}
    BY <2>4, <1>5 DEF SpansOf, kept
  <2>6. SpansOf(Held) \cup gone = DOMAIN log /\ SpansOf(Held) \cap gone = {}
    BY DEF StoreInv, Partition
  <2> QED
    BY <2>2, <2>3, <2>5, <2>6, <1>1, <1>3 DEF Partition
<1>13. gone' \subseteq DOMAIN log'
  BY <1>12 DEF Partition
<1> QED
  BY <1>3, <1>4, <1>10, <1>11, <1>12, <1>13 DEF StoreInv, Distinct, LastOf

-----------------------------------------------------------------------------
(* Replays.                                                                *)

(* A longer log changes nothing for the replays in progress.               *)
LEMMA LogGrowsReplays ==
  ASSUME log \in Seq(Span), ReplayInv, NEW s \in Span, log' = Append(log, s),
         UNCHANGED <<replay, running>>
  PROVE  ReplayInv'
<1>1. /\ DOMAIN log' = DOMAIN log \cup {Len(log) + 1}
      /\ DOMAIN log = 1 .. Len(log) /\ Len(log) \in Nat
      /\ \A m \in DOMAIN log : log'[m] = log[m]
  BY LogGrows
<1>2. ASSUME NEW r \in Replay
      PROVE  /\ replay[r].plan \subseteq DOMAIN log
             /\ Queries(replay[r].plan)' = Queries(replay[r].plan)
             /\ Snapshot(replay[r].plan)'
  <2> DEFINE plan == replay[r].plan
  <2>1. plan \subseteq DOMAIN log /\ replay' = replay /\ Snapshot(plan)
    BY DEF ReplayInv, ReplayIsSnapshot
  <2>2. Queries(plan)' = Queries(plan)
    BY <2>1, <1>1 DEF Queries
  <2>3. ASSUME NEW n \in plan, NEW m \in DOMAIN log'
        PROVE  /\ m \in plan => log'[m].trace = log'[n].trace
               /\ m < n /\ log'[m].trace = log'[n].trace /\ (\E k \in plan : k < m)
                    => m \in plan
    <3>1. CASE m \in DOMAIN log
      BY <3>1, <2>1, <2>3, <1>1 DEF Snapshot
    <3>2. CASE m = Len(log) + 1
      <4>1. m \notin plan /\ ~(m < n)
        BY <3>2, <2>1, <2>3, <1>1
      <4> QED
        BY <4>1
    <3> QED
      BY <3>1, <3>2, <1>1
  <2> QED
    BY <2>1, <2>2, <2>3 DEF Snapshot
<1>3. /\ replay' = replay /\ running' = running
      /\ replay \in [Replay -> [pc : {"idle", "calling", "done"},
                            plan : SUBSET DOMAIN log, called : SUBSET DOMAIN log]]
  BY DEF ReplayInv
<1>4. replay' \in [Replay -> [pc : {"idle", "calling", "done"},
                            plan : SUBSET DOMAIN log', called : SUBSET DOMAIN log']]
  <2>1. SUBSET DOMAIN log \subseteq SUBSET DOMAIN log'
    BY <1>1
  <2> QED
    BY <2>1, <1>3
<1> QED
  BY <1>2, <1>3, <1>4 DEF ReplayInv, ReplayIsSnapshot

LEMMA ProceedInv ==
  ASSUME ReplayInv, log' = log, NEW r \in Replay,
         NEW plan \in SUBSET DOMAIN log, Snapshot(plan),
         NEW called \in SUBSET Queries(plan), Proceed(r, plan, called)
  PROVE  ReplayInv'
<1>1. PICK pc \in {"calling", "done"}, c \in SUBSET Queries(plan) :
        replay' = [replay EXCEPT ![r] = [pc |-> pc, plan |-> plan, called |-> c]]
  BY DEF Proceed
<1>2. running' \in 0 .. MaxRunning
  BY DEF Proceed, ReplayInv
<1>3. c \subseteq DOMAIN log
  BY DEF Queries
<1>4. replay' \in [Replay -> [pc : {"idle", "calling", "done"},
                            plan : SUBSET DOMAIN log, called : SUBSET DOMAIN log]]
  BY <1>1, <1>3 DEF ReplayInv
<1>5. ASSUME NEW q \in Replay
      PROVE  replay'[q].called \subseteq Queries(replay'[q].plan) /\ Snapshot(replay'[q].plan)
  <2>1. CASE q = r
    BY <2>1, <1>1 DEF ReplayInv
  <2>2. CASE q # r
    <3>1. replay'[q] = replay[q]
      BY <2>2, <1>1 DEF ReplayInv
    <3> QED
      BY <3>1 DEF ReplayInv, ReplayIsSnapshot
  <2> QED
    BY <2>1, <2>2
<1> QED
  BY <1>2, <1>4, <1>5 DEF ReplayInv, ReplayIsSnapshot, Queries, Snapshot

(* What a trace holds is a snapshot of it.                                 *)
LEMMA HeldSnapshot ==
  ASSUME StoreInv, NEW t \in Held
  PROVE  PositionsOf(spans[t]) \subseteq DOMAIN log /\ Snapshot(PositionsOf(spans[t]))
<1>1. PositionsOf(spans[t]) = {n \in DOMAIN log : n >= spans[t][1] /\ log[n].trace = t}
  BY DEF StoreInv, HeldWithoutGap
<1>2. DOMAIN log = 1 .. Len(log) /\ Len(log) \in Nat
  BY DEF StoreInv
<1>3. spans[t][1] \in Nat
  <2>1. spans[t] \in Seq(DOMAIN log) /\ spans[t] # <<>>
    BY DEF StoreInv, HeldWithoutGap
  <2> QED
    BY <2>1, <1>2
<1> QED
  BY <1>1, <1>2, <1>3 DEF Snapshot

-----------------------------------------------------------------------------
(* The invariant.                                                          *)

LEMMA InitInv ==
  ASSUME Init
  PROVE  Inv
<1>1. DbInv
  BY DbInitInv DEF Init
<1>2. order = <<>> /\ births = <<>> /\ log = <<>> /\ rest = <<>> /\ gone = {} /\ rows = {}
  BY DEF Init
<1>3. Held = {}
  BY <1>2 DEF Held
<1>4. StoreInv
  <2>1. spans \in [Held -> Seq(DOMAIN log)]
    BY <1>3 DEF Init, NoSpans
  <2>2. LastOf(order, births)
    BY <1>2, TracesAssumption DEF LastOf
  <2>3. HeldWithoutGap
    BY <1>3 DEF HeldWithoutGap
  <2>4. Partition
    BY <1>2, <1>3 DEF Partition, SpansOf
  <2> QED
    BY <1>2, <2>1, <2>2, <2>3, <2>4 DEF StoreInv, Distinct
<1>5. ReplayInv
  <2>1. replay = [r \in Replay |-> [pc |-> "idle", plan |-> {}, called |-> {}]]
    BY DEF Init, NoReplay
  <2>2. running \in 0 .. MaxRunning
    BY RunningAssumption DEF Init
  <2> QED
    BY <2>1, <2>2 DEF ReplayInv, ReplayIsSnapshot, Snapshot, Queries
<1> QED
  BY <1>1, <1>2, <1>4, <1>5, SpansAssumption DEF Inv

(* Actions that leave the store and the log alone keep its invariant.      *)
LEMMA StoreSame ==
  ASSUME StoreInv, UNCHANGED <<order, spans, rows, log, births, gone>>
  PROVE  StoreInv'
<1>1. Held' = Held
  BY DEF Held
<1>2. HeldWithoutGap' <=> HeldWithoutGap
  BY <1>1 DEF HeldWithoutGap, PositionsOf
<1>3. SpansOf(Held)' = SpansOf(Held)
  BY <1>1 DEF SpansOf, PositionsOf
<1>4. Partition' <=> Partition
  BY <1>3 DEF Partition
<1> QED
  BY <1>1, <1>2, <1>4 DEF StoreInv, LastOf, Distinct

LEMMA ReplaysSame ==
  ASSUME ReplayInv, UNCHANGED <<replay, running, log>>
  PROVE  ReplayInv'
  BY DEF ReplayInv, ReplayIsSnapshot, Snapshot, Queries

LEMMA IngestInv ==
  ASSUME Inv, IngestNext
  PROVE  Inv'
<1> DEFINE s == Head(rest)
           n == Len(log) + 1
<1>1. log \in Seq(Span) /\ rest \in Seq(Span) /\ rest # <<>>
  BY DEF Inv, StoreInv, IngestNext
<1>2. s \in Span /\ rest' \in Seq(Span) /\ Len(rest') = Len(rest) - 1
  BY <1>1, HeadTailProperties DEF IngestNext
<1>3. log' = Append(log, s)
  BY DEF IngestNext
<1>4. Len(log') + Len(rest') <= MaxSpans
  <2>1. Len(log') = Len(log) + 1 /\ Len(log) \in Nat /\ Len(rest) \in Nat
    BY <1>1, <1>2, <1>3, AppendFacts
  <2> QED
    BY <2>1, <1>2, SpansAssumption DEF Inv
<1>5. rows' \subseteq DOMAIN log'
  <2>1. rows' \subseteq rows \cup {n}
    BY DEF IngestNext
  <2>2. rows \subseteq DOMAIN log
    BY DEF Inv, StoreInv
  <2> QED
    BY <2>1, <2>2, <1>1, <1>2, <1>3, LogGrows
<1>6. StoreInv'
  <2>1. CASE s.trace \in Held
    <3>1. Extend(s.trace, n)
      BY <2>1 DEF IngestNext
    <3> QED
      BY <3>1, <2>1, <1>2, <1>3, <1>5, ExtendStore DEF Inv
  <2>2. CASE s.trace \notin Held
    <3>1. Create(s.trace, n)
      BY <2>2 DEF IngestNext
    <3> QED
      BY <3>1, <2>2, <1>2, <1>3, <1>5, CreateStore DEF Inv
  <2> QED
    BY <2>1, <2>2
<1>7. ReplayInv'
  <2>1. UNCHANGED <<replay, running>>
    BY DEF IngestNext
  <2> QED
    BY <2>1, <1>1, <1>2, <1>3, LogGrowsReplays DEF Inv
<1>8. DbInv'
  BY DbStutterInv DEF IngestNext, Inv
<1> QED
  BY <1>2, <1>4, <1>6, <1>7, <1>8 DEF Inv

LEMMA RestartInv ==
  ASSUME Inv, Restart
  PROVE  Inv'
<1>1. DbInv'
  BY DbRestartInv DEF Inv, Restart
<1>2. /\ order' = <<>> /\ births' = <<>> /\ rest' = <<>> /\ log' = log /\ rows' = rows
      /\ gone' = gone \cup SpansOf(Held) /\ spans' = NoSpans
  BY DEF Restart
<1>3. Held' = {}
  BY <1>2 DEF Held
<1>4. gone' = DOMAIN log
  BY <1>2 DEF Inv, StoreInv, Partition
<1>5. StoreInv'
  <2>1. spans' \in [Held' -> Seq(DOMAIN log)]
    BY <1>2, <1>3 DEF NoSpans
  <2>2. LastOf(order', births')
    BY <1>2, TracesAssumption DEF LastOf
  <2>3. HeldWithoutGap'
    BY <1>3 DEF HeldWithoutGap
  <2>4. SpansOf(Held)' = {}
    BY <1>3 DEF SpansOf
  <2>5. Partition'
    BY <1>2, <1>4, <2>4 DEF Partition
  <2>6. log \in Seq(Span) /\ rows \subseteq DOMAIN log
    BY DEF Inv, StoreInv
  <2>7. Distinct(order')
    BY <1>2 DEF Distinct
  <2> QED
    BY <1>2, <1>4, <2>1, <2>2, <2>3, <2>5, <2>6, <2>7 DEF StoreInv, Distinct, LastOf
<1>6. ReplayInv'
  <2>1. replay' = [r \in Replay |-> [pc |-> "idle", plan |-> {}, called |-> {}]]
    BY DEF Restart, NoReplay
  <2>2. running' \in 0 .. MaxRunning
    BY DEF Inv, ReplayInv, Restart
  <2> QED
    BY <2>1, <2>2 DEF ReplayInv, ReplayIsSnapshot, Snapshot, Queries
<1>7. Len(log') + Len(rest') <= MaxSpans
  <2>1. Len(log) \in Nat /\ Len(rest) \in Nat /\ Len(rest') = 0
    BY <1>2 DEF Inv, StoreInv
  <2> QED
    BY <2>1, <1>2, SpansAssumption DEF Inv
<1> QED
  BY <1>1, <1>2, <1>5, <1>6, <1>7 DEF Inv

LEMMA NextInv ==
  ASSUME Inv, Next
  PROVE  Inv'
<1>1. CASE rest = <<>> /\ DbNext /\ UNCHANGED storeVars
  BY <1>1, DbNextInv, StoreSame, ReplaysSame DEF Inv, storeVars
<1>2. ASSUME NEW batch \in Batch, Receive(batch)
      PROVE  Inv'
  <2>1. batch \in Seq(Span)
    <3>1. PICK k \in 1 .. MaxBatch : batch \in [1 .. k -> ClientSpan]
      BY <1>2 DEF Batch
    <3>2. ClientSpan \subseteq Span
      BY DEF ClientSpan, Span, Op
    <3>3. k \in Nat /\ batch \in [1 .. k -> Span]
      BY <3>1, <3>2, SpansAssumption
    <3> QED
      BY <3>3
  <2>2. rest' = batch /\ Len(log) + Len(batch) <= MaxSpans
    BY <1>2 DEF Receive
  <2>3. UNCHANGED <<dbVars, order, spans, rows, replay, running, log, births, gone>>
    BY <1>2 DEF Receive
  <2> QED
    BY <2>1, <2>2, <2>3, DbStutterInv, StoreSame, ReplaysSame DEF Inv
<1>3. CASE IngestNext
  BY <1>3, IngestInv
<1>4. ASSUME NEW r \in Replay, NEW plan \in SUBSET DOMAIN log, Snapshot(plan),
             NEW called \in SUBSET Queries(plan), Proceed(r, plan, called),
             UNCHANGED <<dbVars, order, spans, rest, rows, log, births, gone>>
      PROVE  Inv'
  BY <1>4, DbStutterInv, StoreSame, ProceedInv DEF Inv
<1>5. ASSUME NEW r \in Replay, CallSettles(r)
      PROVE  Inv'
  <2>1. /\ replay[r].plan \in SUBSET DOMAIN log /\ Snapshot(replay[r].plan)
        /\ replay[r].called \in SUBSET Queries(replay[r].plan)
    BY <1>5 DEF Inv, ReplayInv, ReplayIsSnapshot
  <2> QED
    BY <1>4, <1>5, <2>1 DEF CallSettles
<1>6. ASSUME NEW r \in Replay, NEW t \in Trace, StartReplay(r, t)
      PROVE  Inv'
  <2> DEFINE plan == IF t \in Held THEN PositionsOf(spans[t]) ELSE {}
  <2>1. plan \in SUBSET DOMAIN log /\ Snapshot(plan)
    <3>1. CASE t \in Held
      BY <3>1, HeldSnapshot DEF Inv
    <3>2. CASE t \notin Held
      BY <3>2 DEF Snapshot
    <3> QED
      BY <3>1, <3>2
  <2>2. Proceed(r, plan, {})
    BY <1>6 DEF StartReplay
  <2>3. {} \in SUBSET Queries(plan)
    OBVIOUS
  <2>4. UNCHANGED <<dbVars, order, spans, rest, rows, log, births, gone>>
    BY <1>6 DEF StartReplay
  <2> HIDE DEF plan
  <2> QED
    BY <1>4, <2>1, <2>2, <2>3, <2>4
<1>7. ASSUME NEW t \in Trace, RetrievalReports(t)
      PROVE  Inv'
  <2>1. rest' \in Seq(Span) /\ Len(rest') = 1
    BY <1>7 DEF RetrievalReports, Span, Op
  <2>2. Len(log) \in Nat /\ Len(log) + 1 <= MaxSpans
    BY <1>7, SpansAssumption DEF RetrievalReports, Inv, StoreInv
  <2>3. running - 1 \in 0 .. MaxRunning
    BY <1>7, RunningAssumption DEF RetrievalReports, Inv, ReplayInv
  <2>4. /\ running' = running - 1
        /\ UNCHANGED <<dbVars, order, spans, rows, replay, log, births, gone>>
    BY <1>7 DEF RetrievalReports
  <2>5. ReplayInv'
    BY <2>3, <2>4 DEF Inv, ReplayInv, ReplayIsSnapshot, Snapshot, Queries
  <2> QED
    BY <2>1, <2>2, <2>4, <2>5, DbStutterInv, StoreSame DEF Inv
<1>8. CASE RetrievalEnds
  <2>1. running - 1 \in 0 .. MaxRunning
    BY <1>8, RunningAssumption DEF RetrievalEnds, Inv, ReplayInv
  <2>2. /\ running' = running - 1
        /\ UNCHANGED <<dbVars, order, spans, rest, rows, replay, log, births, gone>>
    BY <1>8 DEF RetrievalEnds
  <2>3. ReplayInv'
    BY <2>1, <2>2 DEF Inv, ReplayInv, ReplayIsSnapshot, Snapshot, Queries
  <2> QED
    BY <2>2, <2>3, DbStutterInv, StoreSame DEF Inv
<1>9. CASE Restart
  BY <1>9, RestartInv
<1> QED
  BY <1>1, <1>2, <1>3, <1>5, <1>6, <1>7, <1>8, <1>9 DEF Next

LEMMA StutterInv ==
  ASSUME Inv, UNCHANGED vars
  PROVE  Inv'
  BY DbStutterInv, StoreSame, ReplaysSame DEF Inv, vars, storeVars

LEMMA Invariance == Spec => []Inv
<1>1. Inv /\ [Next]_vars => Inv'
  BY NextInv, StutterInv
<1> QED
  BY <1>1, InitInv, PTL DEF Spec

(* The keys are distinct and within the cap, and every variable is typed.  *)
THEOREM TypeCorrect == Spec => []TypeOK
<1>1. Inv => TypeOK
  <2> SUFFICES ASSUME Inv PROVE TypeOK
    OBVIOUS
  <2>1. Len(order) <= MaxTraces
    <3>1. Len(births) \in Nat /\ Len(order) \in Nat
      BY DEF Inv, StoreInv
    <3> QED
      BY <3>1, TracesAssumption DEF Inv, StoreInv, LastOf
  <2> QED
    BY <2>1 DEF Inv, DbInv, StoreInv, ReplayInv, Distinct, TypeOK
<1> QED
  BY <1>1, Invariance, PTL

(* A trace that is shown has no gap, through any evictions and restarts.   *)
THEOREM NoGaps == Spec => []HeldWithoutGap
<1>1. Inv => HeldWithoutGap
  BY DEF Inv, StoreInv
<1> QED
  BY <1>1, Invariance, PTL

(* No span is dropped or counted twice.                                    *)
THEOREM SpansPartitioned == Spec => []Partition
<1>1. Inv => Partition
  BY DEF Inv, StoreInv
<1> QED
  BY <1>1, Invariance, PTL

(* A replay works on what its trace held at one moment.                    *)
THEOREM ReplaysAreSnapshots == Spec => []ReplayIsSnapshot
<1>1. Inv => ReplayIsSnapshot
  BY DEF Inv, ReplayInv
<1> QED
  BY <1>1, Invariance, PTL

-----------------------------------------------------------------------------
(* Sums: what is held and what is gone add up to what was spent.           *)

(* The member a fold takes next.                                           *)
Pick(s) == CHOOSE x \in s : TRUE

(* Induction over numbers and over finite sets, of a property that is      *)
(* given as the set of what has it: an operator could not be instantiated. *)
LEMMA NatInd ==
  ASSUME NEW P, 0 \in P, \A n \in Nat : n \in P => n + 1 \in P
  PROVE  \A n \in Nat : n \in P
<1> DEFINE B == {n \in Nat : n \notin P}
<1>1. SUFFICES ASSUME B # {} PROVE FALSE
  OBVIOUS
<1>2. B \subseteq Nat
  OBVIOUS
<1>3. PICK m \in B : \A y \in B : ~ (<<y, m>> \in OpToRel(<, Nat))
  BY <1>1, <1>2, NatLessThanWellFounded, WFMin
<1>4. m \in Nat /\ m \notin P
  OBVIOUS
<1>5. m # 0
  BY <1>4
<1>6. m - 1 \in Nat /\ m - 1 < m
  BY <1>4, <1>5
<1>7. m - 1 \notin P
  <2>1. m - 1 + 1 = m
    BY <1>4
  <2> QED BY <1>4, <1>6, <2>1
<1>8. m - 1 \in B
  BY <1>6, <1>7
<1>9. <<m - 1, m>> \in OpToRel(<, Nat)
  BY <1>4, <1>6 DEF OpToRel
<1> QED BY <1>3, <1>8, <1>9

(* One member of a set at a time.                                          *)
LEMMA SubsetInduction ==
  ASSUME NEW D, IsFiniteSet(D), NEW P,
         \A s \in SUBSET D : (\A y \in s : s \ {y} \in P) => s \in P
  PROVE  \A s \in SUBSET D : s \in P
<1> DEFINE N == {n \in Nat : \A s \in SUBSET D : Cardinality(s) = n => s \in P}
<1>1. \A s \in SUBSET D : IsFiniteSet(s) /\ Cardinality(s) \in Nat
  BY FS_Subset, FS_CardinalityType
<1>2. 0 \in N
  <2> SUFFICES ASSUME NEW s \in SUBSET D, Cardinality(s) = 0 PROVE s \in P
    OBVIOUS
  <2>1. s = {}
    BY <1>1, FS_EmptySet
  <2> QED BY <2>1
<1>3. ASSUME NEW n \in Nat, n \in N PROVE n + 1 \in N
  <2> SUFFICES ASSUME NEW s \in SUBSET D, Cardinality(s) = n + 1 PROVE s \in P
    BY <1>3
  <2>1. ASSUME NEW y \in s PROVE s \ {y} \in P
    <3>1. Cardinality(s \ {y}) = n
      BY <1>1, FS_RemoveElement
    <3> QED BY <1>3, <3>1
  <2> QED BY <2>1
<1> HIDE DEF N
<1>4. \A n \in Nat : n \in N
  BY <1>2, <1>3, NatInd
<1> QED BY <1>1, <1>4 DEF N

(* g is the sum of w over each set of T.                                   *)
Added(g, w, s) == IF s = {} THEN 0 ELSE w[Pick(s)] + g[s \ {Pick(s)}]
IsSum(g, w, T) == g \in [T -> Int] /\ \A s \in T : g[s] = Added(g, w, s)

(* What is taken is a member.                                              *)
LEMMA PickIn ==
  ASSUME NEW s, s # {} PROVE Pick(s) \in s
BY DEF Pick

(* A finite set has a sum over each of its subsets.                        *)
LEMMA SumExists ==
  ASSUME NEW D, IsFiniteSet(D), NEW w \in [D -> Int]
  PROVE  \E g : IsSum(g, w, SUBSET D)
<1> DEFINE Upto(n) == {t \in SUBSET D : Cardinality(t) <= n}
           P == {n \in Nat : \E g : IsSum(g, w, Upto(n))}
<1>1. \A s \in SUBSET D : IsFiniteSet(s) /\ Cardinality(s) \in Nat
  BY FS_Subset, FS_CardinalityType
<1>2. 0 \in P
  <2>1. \A t \in Upto(0) : t = {}
    BY <1>1, FS_EmptySet
  <2> DEFINE g == [t \in Upto(0) |-> 0]
  <2>2. IsSum(g, w, Upto(0))
    BY <2>1 DEF IsSum, Added
  <2> QED BY <2>2
<1>3. ASSUME NEW n \in Nat, n \in P PROVE n + 1 \in P
  <2> DEFINE S == Upto(n)
             T == Upto(n + 1)
  <2>1. PICK g : IsSum(g, w, S)
    BY <1>3
  <2>2. S \subseteq T /\ T \subseteq SUBSET D
    BY <1>1
  <2>3. ASSUME NEW s \in T, s # {}
        PROVE  Pick(s) \in D /\ s \ {Pick(s)} \in S
    <3>1. Pick(s) \in s /\ s \in SUBSET D /\ IsFiniteSet(s) /\ Cardinality(s) \in Nat
          /\ Cardinality(s) <= n + 1
      BY <1>1, <2>3, PickIn
    <3>2. Cardinality(s \ {Pick(s)}) = Cardinality(s) - 1
      BY <3>1, FS_RemoveElement
    <3>3. Cardinality(s \ {Pick(s)}) <= n
      BY <3>1, <3>2
    <3> QED BY <3>1, <3>3
  <2> HIDE DEF S, T, Upto
  <2> DEFINE h == [s \in T |-> Added(g, w, s)]
  <2>4. \A s \in T : s # {} => w[Pick(s)] \in Int /\ g[s \ {Pick(s)}] \in Int
    BY <2>1, <2>3 DEF IsSum
  <2>5. h \in [T -> Int]
    <3>1. \A s \in T : Added(g, w, s) \in Int
      BY <2>4 DEF Added
    <3> QED BY <3>1
  <2>6. \A s \in S : h[s] = g[s]
    BY <2>1, <2>2 DEF IsSum
  <2>7. \A s \in T : h[s] = Added(g, w, s)
    OBVIOUS
  <2> HIDE DEF h
  <2>8. \A s \in T : h[s] = Added(h, w, s)
    BY <2>3, <2>6, <2>7 DEF Added
  <2>9. IsSum(h, w, T)
    BY <2>5, <2>8 DEF IsSum
  <2> QED BY <2>9 DEF T
<1> HIDE DEF P
<1>4. Cardinality(D) \in P
  BY <1>1, <1>2, <1>3, NatInd
<1>5. Upto(Cardinality(D)) = SUBSET D
  BY <1>1, FS_Subset
<1> QED BY <1>4, <1>5 DEF P

(* What /traces/costs adds up, and the weights it adds.                    *)
UsdOf(S) == MapThenSumSet(Usd, S)
Costs(w, D) == w \in [D -> Int] /\ \A n \in D : w[n] = Usd(n)

(* The fold computes it.                                                   *)
LEMMA FoldIsSum ==
  ASSUME NEW D, IsFiniteSet(D), NEW w, Costs(w, D), NEW g, IsSum(g, w, SUBSET D),
         NEW S \in SUBSET D
  PROVE  UsdOf(S) = g[S]
<1> DEFINE Eqn(f) == f = [s \in SUBSET S |-> IF s = {} THEN 0 ELSE Usd(Pick(s)) + f[s \ {Pick(s)}]]
<1>1. PICK f : f = (CHOOSE h : Eqn(h)) /\ UsdOf(S) = f[S]
  BY DEF UsdOf, MapThenSumSet, MapThenFoldSet, Pick
<1>2. \A s \in SUBSET S : s # {} => Pick(s) \in S /\ s \ {Pick(s)} \in SUBSET S
                                    /\ w[Pick(s)] = Usd(Pick(s))
  BY PickIn DEF Costs
<1>3. Eqn([s \in SUBSET S |-> g[s]])
  <2> DEFINE h == [s \in SUBSET S |-> g[s]]
  <2>1. \A s \in SUBSET S : h[s] = g[s]
    OBVIOUS
  <2>2. \A s \in SUBSET S : g[s] = Added(g, w, s)
    BY DEF IsSum
  <2>3. h = [s \in SUBSET S |-> h[s]]
    BY <2>1
  <2> HIDE DEF h
  <2>4. \A s \in SUBSET S : h[s] = IF s = {} THEN 0 ELSE Usd(Pick(s)) + h[s \ {Pick(s)}]
    BY <1>2, <2>1, <2>2 DEF Added
  <2>5. Eqn(h)
    BY <2>3, <2>4
  <2> QED BY <2>5 DEF h
<1>4. Eqn(f)
  BY <1>1, <1>3
<1>5. \A s \in SUBSET S : f[s] = IF s = {} THEN 0 ELSE Usd(Pick(s)) + f[s \ {Pick(s)}]
  BY <1>4
<1> HIDE DEF Eqn
<1> DEFINE P == {s \in SUBSET S : f[s] = g[s]}
<1>6. ASSUME NEW s \in SUBSET S, \A y \in s : s \ {y} \in P
      PROVE  s \in P
  <2>1. g[s] = Added(g, w, s)
    BY DEF IsSum
  <2>2. CASE s = {}
    BY <1>5, <2>1, <2>2 DEF Added
  <2>3. CASE s # {}
    <3>1. f[s \ {Pick(s)}] = g[s \ {Pick(s)}] /\ w[Pick(s)] = Usd(Pick(s))
      BY <1>2, <1>6, <2>3, PickIn
    <3> QED BY <1>5, <2>1, <2>3, <3>1 DEF Added
  <2> QED BY <2>2, <2>3
<1> HIDE DEF P
<1>7. IsFiniteSet(S)
  BY FS_Subset
<1>8. \A s \in SUBSET S : s \in P
  BY <1>6, <1>7, SubsetInduction
<1> QED BY <1>1, <1>8 DEF P

(* The sum is that of the parts, for disjoint parts.                       *)
LEMMA SumInsert ==
  ASSUME NEW D, IsFiniteSet(D), NEW w \in [D -> Int], NEW g, IsSum(g, w, SUBSET D),
         NEW s \in SUBSET D, NEW x \in D \ s
  PROVE  g[s \cup {x}] = w[x] + g[s]
<1> DEFINE P == {t \in SUBSET D : \A z \in D \ t : g[t \cup {z}] = w[z] + g[t]}
<1>1. ASSUME NEW t \in SUBSET D, \A y \in t : t \ {y} \in P
      PROVE  t \in P
  <2> SUFFICES ASSUME NEW z \in D \ t PROVE g[t \cup {z}] = w[z] + g[t]
    OBVIOUS
  <2> DEFINE u == t \cup {z}
             y == Pick(u)
  <2>1. /\ u \in SUBSET D /\ y \in u
        /\ g[u] = w[y] + g[u \ {y}]
    BY PickIn DEF IsSum, Added
  <2> HIDE DEF y
  <2>2. CASE y = z
    <3>1. u \ {y} = t
      BY <2>2
    <3> QED BY <2>1, <2>2, <3>1
  <2>3. CASE y # z
    <3> DEFINE v == t \ {y}
    <3>1. y \in t /\ v \in P /\ y \in D \ v /\ z \in D \ v
      BY <1>1, <2>1, <2>3
    <3>2. u \ {y} = v \cup {z} /\ t = v \cup {y}
      BY <2>3, <3>1
    <3>3. g[v \cup {z}] = w[z] + g[v] /\ g[v \cup {y}] = w[y] + g[v]
      BY <3>1
    <3>4. w[y] \in Int /\ w[z] \in Int /\ g[v] \in Int
      BY <3>1 DEF IsSum
    <3> HIDE DEF u, v, P
    <3>5. g[u] = w[y] + (w[z] + g[v]) /\ g[t] = w[y] + g[v]
      BY <2>1, <3>2, <3>3
    <3>6. g[u] = w[z] + g[t]
      BY <3>4, <3>5
    <3> QED BY <3>6 DEF u
  <2> QED BY <2>2, <2>3
<1> HIDE DEF P
<1>2. \A t \in SUBSET D : t \in P
  BY <1>1, SubsetInduction
<1> QED BY <1>2 DEF P

(* The same for two disjoint sets.                                         *)
LEMMA SumUnion ==
  ASSUME NEW D, IsFiniteSet(D), NEW w \in [D -> Int], NEW g, IsSum(g, w, SUBSET D),
         NEW A \in SUBSET D, NEW B \in SUBSET D, A \cap B = {}
  PROVE  g[A \cup B] = g[A] + g[B]
<1> DEFINE P == {t \in SUBSET B : g[A \cup t] = g[A] + g[t]}
<1>0. \A t \in SUBSET D : g[t] \in Int
  BY DEF IsSum
<1>1. ASSUME NEW t \in SUBSET B, \A y \in t : t \ {y} \in P
      PROVE  t \in P
  <2>1. CASE t = {}
    <3>1. g[{}] = 0 /\ A \cup {} = A
      BY DEF IsSum, Added
    <3> QED BY <1>0, <2>1, <3>1
  <2>2. CASE t # {}
    <3>1. PICK y \in t : TRUE
      BY <2>2
    <3> DEFINE v == t \ {y}
    <3>2. v \in SUBSET D /\ y \in D \ v /\ A \cup v \in SUBSET D /\ y \in D \ (A \cup v)
      OBVIOUS
    <3>3. t = v \cup {y} /\ A \cup t = (A \cup v) \cup {y}
      OBVIOUS
    <3>4. g[A \cup v] = g[A] + g[v]
      BY <1>1
    <3> DEFINE u == A \cup v
    <3>5. u \in SUBSET D /\ y \in D \ u /\ A \cup t = u \cup {y}
      BY <3>2, <3>3
    <3> HIDE DEF v, u
    <3>6. g[t] = w[y] + g[v]
      BY <3>2, <3>3, SumInsert
    <3>7. g[u \cup {y}] = w[y] + g[u]
      BY <3>5, SumInsert
    <3>8. g[A \cup t] = w[y] + g[A \cup v]
      BY <3>5, <3>7 DEF u
    <3>9. w[y] \in Int /\ g[v] \in Int /\ g[A] \in Int
      BY <1>0, <3>2
    <3>10. g[A \cup t] = g[A] + g[t]
      BY <3>4, <3>6, <3>8, <3>9
    <3> QED BY <3>10
  <2> QED BY <2>1, <2>2
<1> HIDE DEF P
<1>2. IsFiniteSet(B)
  BY FS_Subset
<1>3. \A t \in SUBSET B : t \in P
  BY <1>1, <1>2, SubsetInduction
<1> QED BY <1>3 DEF P

(* No weight of A counts.                                                  *)
Zero(w, A) == \A n \in A : w[n] = 0

(* Members without a cost add nothing.                                     *)
LEMMA SumOfZeros ==
  ASSUME NEW D, IsFiniteSet(D), NEW w, NEW g, IsSum(g, w, SUBSET D),
         NEW A \in SUBSET D, Zero(w, A)
  PROVE  g[A] = 0
<1> DEFINE P == {t \in SUBSET A : g[t] = 0}
<1>1. ASSUME NEW t \in SUBSET A, \A y \in t : t \ {y} \in P
      PROVE  t \in P
  <2>1. g[t] = Added(g, w, t)
    BY DEF IsSum
  <2>2. CASE t # {}
    <3>1. g[t \ {Pick(t)}] = 0 /\ w[Pick(t)] = 0
      BY <1>1, <2>2, PickIn DEF Zero
    <3> QED BY <2>1, <2>2, <3>1 DEF Added
  <2> QED BY <2>1, <2>2 DEF Added
<1> HIDE DEF P
<1>2. IsFiniteSet(A)
  BY FS_Subset
<1>3. \A t \in SUBSET A : t \in P
  BY <1>1, <1>2, SubsetInduction
<1> QED BY <1>3 DEF P

(* What is held and not passed over, and what is gone, add up to the log.  *)
LEMMA HeldAndGoneAddUp ==
  ASSUME log \in Seq(Span), Partition
  PROVE  CostsAccounted
<1> DEFINE D == DOMAIN log
           H == SpansOf(Held)
           C == {n \in H : Counted(n)}
           w == [n \in D |-> Usd(n)]
<1>1. IsFiniteSet(D)
  <2>1. D = 1 .. Len(log) /\ Len(log) \in Int
    OBVIOUS
  <2> QED BY <2>1, FS_Interval
<1>2. \A n \in D : Usd(n) \in Nat /\ (Usd(n) # 0 => Counted(n))
  <2> TAKE n \in D
  <2>1. log[n] \in Span
    OBVIOUS
  <2>2. log[n].op \in Op
    BY <2>1 DEF Span
  <2> QED BY <2>2, PriceAssumption DEF Usd, Counted
<1>3. w \in [D -> Int] /\ \A n \in D : w[n] = Usd(n)
  BY <1>2
<1>4. /\ C \in SUBSET D /\ H \ C \in SUBSET D /\ H \in SUBSET D /\ gone \in SUBSET D
      /\ D = H \cup gone /\ H \cap gone = {}
      /\ H = C \cup (H \ C) /\ C \cap (H \ C) = {}
      /\ \A n \in H \ C : ~Counted(n)
  BY DEF Partition
<1> HIDE DEF D, H, C, w
<1>5. PICK g : IsSum(g, w, SUBSET D)
  BY <1>1, <1>3, SumExists
<1> DEFINE U == H \ C
<1>6. /\ U \in SUBSET D /\ H = C \cup U /\ C \cap U = {} /\ \A n \in U : ~Counted(n)
  BY <1>4
<1> HIDE DEF U
<1>7. \A A, B \in SUBSET D : A \cap B = {} => g[A \cup B] = g[A] + g[B]
  BY <1>1, <1>3, <1>5, SumUnion
<1>8. g[D] = g[H] + g[gone] /\ g[H] = g[C] + g[U]
  BY <1>4, <1>6, <1>7
<1>9. g[U] = 0
  <2>1. Zero(w, U)
    BY <1>2, <1>3, <1>6 DEF Zero
  <2> QED BY <1>1, <1>6, <1>5, <2>1, SumOfZeros
<1>10. \A A \in SUBSET D : UsdOf(A) = g[A]
  <2>1. Costs(w, D)
    BY <1>3 DEF Costs
  <2> QED BY <1>1, <1>5, <2>1, FoldIsSum
<1>11. /\ UsdOf(C) = g[C]
      /\ UsdOf(gone) = g[gone]
      /\ UsdOf(D) = g[D]
  BY <1>4, <1>10
<1>12. g[C] \in Int /\ g[gone] \in Int
  BY <1>4, <1>5 DEF IsSum
<1> QED BY <1>8, <1>9, <1>11, <1>12 DEF CostsAccounted, TotalUsd, UsdOf, C, H, D

(* /traces/costs misses exactly what evictions and restarts took away.     *)
THEOREM CostsAddUp == Spec => []CostsAccounted
<1>1. Inv => CostsAccounted
  BY HeldAndGoneAddUp DEF Inv, StoreInv
<1> QED
  BY <1>1, Invariance, PTL

-----------------------------------------------------------------------------
(* The refinement.                                                         *)

(* The keys are the traces of the window.                                  *)
LEMMA WindowHeld ==
  ASSUME order \in Seq(Trace), births \in Seq(Trace), LastOf(order, births)
  PROVE  Window!Window = Held
<1> DEFINE d == Len(births) - Len(order)
<1>0. /\ Len(births) \in Nat /\ Len(order) \in Nat /\ DOMAIN order = 1 .. Len(order)
      /\ MaxTraces \in Nat
  BY TracesAssumption
<1>1. d = (IF Len(births) < MaxTraces THEN 0 ELSE Len(births) - MaxTraces) /\ d \in Nat
  <2>1. Len(order) = IF Len(births) < MaxTraces THEN Len(births) ELSE MaxTraces
    BY DEF LastOf
  <2> QED
    BY <2>1, <1>0
<1>2. {j \in 1 .. Len(births) : j > Len(births) - MaxTraces} = d + 1 .. Len(births)
  <2> HIDE DEF d
  <2>1. ASSUME NEW j \in 1 .. Len(births)
        PROVE  j > Len(births) - MaxTraces <=> j >= d + 1
    BY <1>0, <1>1
  <2>2. d + 1 .. Len(births) \subseteq 1 .. Len(births)
    BY <1>0, <1>1
  <2>3. \A j \in 1 .. Len(births) : j >= d + 1 <=> j \in d + 1 .. Len(births)
    BY <1>0, <1>1
  <2> QED
    BY <2>1, <2>2, <2>3
<1>3. ASSUME NEW k \in 1 .. Len(order)
      PROVE  d + k \in d + 1 .. Len(births) /\ order[k] = births[d + k]
  <2>1. order[k] = births[d + k]
    BY DEF LastOf
  <2>2. d + Len(order) = Len(births)
    BY <1>0
  <2> HIDE DEF d
  <2>3. d + k \in d + 1 .. Len(births)
    BY <2>2, <1>0, <1>1
  <2> QED
    BY <2>1, <2>3
<1>5. d + Len(order) = Len(births)
  BY <1>0
<1>4. ASSUME NEW j \in d + 1 .. Len(births)
      PROVE  j - d \in 1 .. Len(order) /\ births[j] = order[j - d]
  <2> HIDE DEF d
  <2>1. j - d \in 1 .. Len(order) /\ d + (j - d) = j
    BY <1>0, <1>1, <1>5
  <2> QED
    BY <2>1, <1>3
<1>6. Window!Window = {births[j] : j \in {i \in 1 .. Len(births) : i > Len(births) - MaxTraces}}
  BY DEF Window!Window
<1>7. Held = {order[k] : k \in 1 .. Len(order)}
  BY <1>0 DEF Held
<1>8. ASSUME NEW x \in Window!Window
      PROVE  x \in Held
  <2>1. PICK j \in d + 1 .. Len(births) : x = births[j]
    BY <1>2, <1>6
  <2> QED
    BY <2>1, <1>4, <1>7
<1>9. ASSUME NEW x \in Held
      PROVE  x \in Window!Window
  <2>1. PICK k \in 1 .. Len(order) : x = order[k]
    BY <1>7
  <2> QED
    BY <2>1, <1>2, <1>3, <1>6
<1> QED
  BY <1>8, <1>9

LEMMA IngestRefines ==
  ASSUME Inv, Inv', IngestNext
  PROVE  Window!Next
<1> DEFINE s == Head(rest)
           n == Len(log) + 1
<1>1. s \in Span /\ s.trace \in Trace
  <2>1. rest \in Seq(Span) /\ rest # <<>>
    BY DEF Inv, IngestNext
  <2>2. s \in Span
    BY <2>1, HeadTailProperties
  <2> QED
    BY <2>2 DEF Span
<1>2. n \in 1 .. MaxSpans
  <2>1. Len(log) \in Nat /\ Len(rest) \in Nat /\ Len(rest) > 0
    BY DEF Inv, StoreInv, IngestNext
  <2> QED
    BY <2>1, SpansAssumption DEF Inv
<1>3. Window!Window = Held /\ Window!Window' = Held'
  <2>1. Window!Window = Held
    BY WindowHeld DEF Inv, StoreInv
  <2>2. order' \in Seq(Trace) /\ births' \in Seq(Trace) /\ LastOf(order, births)'
    BY DEF Inv, StoreInv
  <2>3. (order \in Seq(Trace) /\ births \in Seq(Trace) /\ LastOf(order, births)
          => Window!Window = Held)'
    BY WindowHeld, PTL
  <2> QED
    BY <2>1, <2>2, <2>3
<1>4. Window!Record(s.trace, n)
  <2>1. CASE s.trace \in Held
    <3>1. /\ order' = order /\ births' = births
          /\ spans' = [spans EXCEPT ![s.trace] = Append(spans[s.trace], n)]
      BY <2>1 DEF IngestNext, Extend
    <3>2. Held' = Held /\ spans \in [Held -> Seq(DOMAIN log)]
      BY <3>1 DEF Held, Inv, StoreInv
    <3>3. spans' = [x \in Held' |-> IF x # s.trace THEN spans[x]
                                     ELSE Append(spans[s.trace], n)]
      BY <3>1, <3>2
    <3> QED
      BY <2>1, <3>1, <3>3, <1>3 DEF Window!Record
  <2>2. CASE s.trace \notin Held
    <3>1. /\ births' = Append(births, s.trace)
          /\ spans' = [x \in Held' |-> IF x = s.trace THEN <<n>> ELSE spans[x]]
      BY <2>2 DEF IngestNext, Create
    <3> QED
      BY <2>2, <3>1, <1>3 DEF Window!Record
  <2> QED
    BY <2>1, <2>2
<1> QED
  BY <1>1, <1>2, <1>4 DEF Window!Next

(* The store is the window over the creations of traces.                   *)
THEOREM WindowRefinement == Spec => ImplementsTraceWindow
<1>1. Init => Window!Init
  BY DEF Init, Window!Init, NoSpans
<1>2. Inv /\ Inv' /\ [Next]_vars => [Window!Next]_<<births, spans>>
  <2> SUFFICES ASSUME Inv, Inv', [Next]_vars
               PROVE  Window!Next \/ UNCHANGED <<births, spans>>
    OBVIOUS
  <2>1. CASE IngestNext
    BY <2>1, IngestRefines
  <2>2. CASE Restart
    BY <2>2 DEF Restart, Window!Next, Window!Restart, NoSpans
  <2>3. CASE UNCHANGED vars
    BY <2>3 DEF vars, storeVars
  <2>4. CASE Next /\ ~IngestNext /\ ~Restart
    BY <2>4 DEF Next, storeVars, Receive, CallSettles, StartReplay, RetrievalReports,
                RetrievalEnds
  <2> QED
    BY <2>1, <2>2, <2>3, <2>4
<1> QED
  BY <1>1, <1>2, Invariance, PTL DEF Spec, ImplementsTraceWindow, Window!Spec
=============================================================================
