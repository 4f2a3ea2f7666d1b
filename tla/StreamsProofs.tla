--------------------------- MODULE StreamsProofs ---------------------------
(***************************************************************************)
(* Theorems about Streams, for streams of any length, any patterns of line *)
(* ends and any bounds that satisfy StreamsAssumption.                     *)
(*                                                                         *)
(* The wire is the concatenation of the bytes of the events sent (OnWire). *)
(* AtEvent(k, p, text) says what a parser p knows that has received a text *)
(* and dispatched k events: its buffer is what follows their bytes, its    *)
(* scan a place between two lines of event k + 1.  A turn of feed()'s loop *)
(* keeps this (FieldStep, BlankStep), as the next line is the one that the *)
(* encoding put there (LineFound); a longer text has the breaks of the     *)
(* shorter one (BreaksStay).  What has been forwarded follows by induction *)
(* over the events of a chunk (RelaysPass).                                *)
(*                                                                         *)
(* What a client of the other API has been told follows from the kinds of  *)
(* the events dispatched and the translator's state (Telling), as each     *)
(* event may follow those before it (Ordered): an event more tells what    *)
(* comes next in the frame (SoFarStep, AnthropicStep), and a chunk's so,   *)
(* one after the other (RelaysTell).                                       *)
(***************************************************************************)
EXTENDS Streams, Sums, SequenceTheorems

-----------------------------------------------------------------------------
(* The recursions have solutions. *)

\* The turns of feed()'s loop, from the state s.
Turns0(s, N, g) == [n \in 0..N |-> IF n = 0 THEN s ELSE TakeLine(g[n - 1])]

LEMMA TurnsSolved ==
    ASSUME NEW s, NEW N \in Nat
    PROVE  \E g : g = Turns0(s, N, g)
<1> DEFINE T == {n \in Nat : \E g : g = Turns0(s, n, g)}
<1>1. 0 \in T
  <2> DEFINE g == [n \in 0..0 |-> s]
  <2>1. g = Turns0(s, 0, g)
    BY DEF Turns0
  <2> QED
    BY <2>1
<1>2. ASSUME NEW n \in T PROVE n + 1 \in T
  <2>1. PICK g : g = Turns0(s, n, g)
    OBVIOUS
  <2> DEFINE h == [i \in 0..(n + 1) |-> IF i = 0 THEN s ELSE TakeLine(g[i - 1])]
  <2>2. \A i \in 0..n : h[i] = g[i]
    <3> SUFFICES ASSUME NEW i \in 0..n PROVE h[i] = g[i]
      OBVIOUS
    <3>1. g[i] = Turns0(s, n, g)[i]
      BY <2>1, Zenon
    <3>2. i \in 0..(n + 1)
      OBVIOUS
    <3> QED
      BY <3>1, <3>2 DEF Turns0
  <2>3. \A i \in 1..(n + 1) : i - 1 \in 0..n
    OBVIOUS
  <2>4. \A i \in 0..(n + 1) : i # 0 => h[i - 1] = g[i - 1]
    <3> HIDE DEF h
    <3> QED
      BY <2>2, <2>3
  <2>5. h = Turns0(s, n + 1, h)
    BY <2>4, Zenon DEF Turns0
  <2> HIDE DEF h
  <2> QED
    BY <2>5
<1> HIDE DEF T
<1>3. T \in SUBSET Nat
  BY DEF T
<1>4. T = Nat
  BY <1>1, <1>2, <1>3, Induct
<1> QED
  BY <1>4 DEF T

LEMMA FeedTurns ==
    ASSUME NEW p, NEW chunk, Len(p.buffer \o chunk) \in Nat
    PROVE  \E g : /\ g = Turns0([parser |-> [p EXCEPT !.buffer = p.buffer \o chunk], events |-> <<>>],
                                Len(p.buffer \o chunk), g)
                  /\ Feed(p, chunk) = g[Len(p.buffer \o chunk)]
<1> DEFINE N == Len(p.buffer \o chunk)
           s == [parser |-> [p EXCEPT !.buffer = p.buffer \o chunk], events |-> <<>>]
           g == CHOOSE g : g = Turns0(s, N, g)
<1>1. \E x : x = Turns0(s, N, x)
  <2> HIDE DEF s, N
  <2> QED
    BY TurnsSolved DEF N
<1>2. g = Turns0(s, N, g)
  <2> HIDE DEF s, N
  <2> QED
    BY <1>1
<1>3. Feed(p, chunk) = g[N]
  BY Zenon DEF Feed, Turns0
<1> QED
  <2> HIDE DEF g
  <2> QED
    BY <1>2, <1>3

\* The loop over events, from the state s.
RelaysTo(s, events, N, g) ==
    [i \in 0..N |-> IF i = 0 THEN s ELSE Relayed(g[i - 1], events[i])]

LEMMA RelaysSolved ==
    ASSUME NEW s, NEW events, NEW N \in Nat
    PROVE  \E g : g = RelaysTo(s, events, N, g)
<1> DEFINE T == {n \in Nat : \E g : g = RelaysTo(s, events, n, g)}
<1>1. 0 \in T
  <2> DEFINE g == [n \in 0..0 |-> s]
  <2>1. g = RelaysTo(s, events, 0, g)
    BY DEF RelaysTo
  <2> QED
    BY <2>1
<1>2. ASSUME NEW n \in T PROVE n + 1 \in T
  <2>1. PICK g : g = RelaysTo(s, events, n, g)
    OBVIOUS
  <2> DEFINE h == [i \in 0..(n + 1) |-> IF i = 0 THEN s ELSE Relayed(g[i - 1], events[i])]
  <2>2. \A i \in 0..n : h[i] = g[i]
    <3> SUFFICES ASSUME NEW i \in 0..n PROVE h[i] = g[i]
      OBVIOUS
    <3>1. g[i] = RelaysTo(s, events, n, g)[i]
      BY <2>1, Zenon
    <3>2. i \in 0..(n + 1)
      OBVIOUS
    <3> QED
      BY <3>1, <3>2 DEF RelaysTo
  <2>3. \A i \in 0..(n + 1) : i # 0 => h[i - 1] = g[i - 1]
    <3> HIDE DEF h
    <3> QED
      BY <2>2
  <2>4. h = RelaysTo(s, events, n + 1, h)
    BY <2>3, Zenon DEF RelaysTo
  <2> HIDE DEF h
  <2> QED
    BY <2>4
<1> HIDE DEF T
<1>3. T \in SUBSET Nat
  BY DEF T
<1>4. T = Nat
  BY <1>1, <1>2, <1>3, Induct
<1> QED
  BY <1>4 DEF T

LEMMA RelayedAllStates ==
    ASSUME NEW s, NEW events, Len(events) \in Nat
    PROVE  \E g : /\ g = RelaysTo(s, events, Len(events), g)
                  /\ RelayedAll(s, events) = g[Len(events)]
<1> DEFINE g == CHOOSE g : g = RelaysTo(s, events, Len(events), g)
<1>1. \E x : x = RelaysTo(s, events, Len(events), x)
  BY RelaysSolved
<1>2. g = RelaysTo(s, events, Len(events), g)
  BY <1>1
<1>3. RelayedAll(s, events) = g[Len(events)]
  BY Zenon DEF RelayedAll, RelaysTo
<1> QED
  <2> HIDE DEF g
  <2> QED
    BY <1>2, <1>3

-----------------------------------------------------------------------------
(* FlattenSeq. *)

Joins(s, N, g) == [i \in 1..N |-> IF i = 1 THEN s[i] ELSE g[i - 1] \o s[i]]

LEMMA JoinsSolved ==
    ASSUME NEW s, NEW N \in Nat
    PROVE  \E g : g = Joins(s, N, g)
<1> DEFINE T == {n \in Nat : \E g : g = Joins(s, n, g)}
<1>1. 0 \in T
  <2> DEFINE g == [n \in 1..0 |-> s]
  <2>1. g = Joins(s, 0, g)
    BY DEF Joins
  <2> QED
    BY <2>1
<1>2. ASSUME NEW n \in T PROVE n + 1 \in T
  <2>1. PICK g : g = Joins(s, n, g)
    OBVIOUS
  <2> DEFINE h == [i \in 1..(n + 1) |-> IF i = 1 THEN s[i] ELSE g[i - 1] \o s[i]]
  <2>2. \A i \in 1..n : h[i] = g[i]
    <3> SUFFICES ASSUME NEW i \in 1..n PROVE h[i] = g[i]
      OBVIOUS
    <3>1. g[i] = Joins(s, n, g)[i]
      BY <2>1, Zenon
    <3>2. i \in 1..(n + 1)
      OBVIOUS
    <3> QED
      BY <3>1, <3>2 DEF Joins
  <2>3. \A i \in 1..(n + 1) : i # 1 => h[i - 1] = g[i - 1]
    <3> HIDE DEF h
    <3> QED
      BY <2>2
  <2>4. h = Joins(s, n + 1, h)
    BY <2>3, Zenon DEF Joins
  <2> HIDE DEF h
  <2> QED
    BY <2>4
<1> HIDE DEF T
<1>3. T \in SUBSET Nat
  BY DEF T
<1>4. T = Nat
  BY <1>1, <1>2, <1>3, Induct
<1> QED
  BY <1>4 DEF T

IsJoins(s, N, g) == g = Joins(s, N, g)
Agree(s, t, N) == \A i \in 1..N : s[i] = t[i]

\* Two solutions agree as far as their sequences do.
LEMMA JoinsAgree ==
    ASSUME NEW s, NEW t, NEW M \in Nat, NEW N \in Nat, NEW g, NEW h,
           M <= N, Agree(s, t, M), IsJoins(s, M, g), IsJoins(t, N, h)
    PROVE  Agree(g, h, M)
<1> DEFINE T == {n \in Nat : n \in 1..M => g[n] = h[n]}
<1>0. /\ \A i \in 1..M : g[i] = IF i = 1 THEN s[i] ELSE g[i - 1] \o s[i]
      /\ \A i \in 1..N : h[i] = IF i = 1 THEN t[i] ELSE h[i - 1] \o t[i]
  BY Zenon DEF Joins, IsJoins
<1>1. 0 \in T
  OBVIOUS
<1>2. ASSUME NEW n \in T PROVE n + 1 \in T
  <2> SUFFICES ASSUME n + 1 \in 1..M PROVE g[n + 1] = h[n + 1]
    OBVIOUS
  <2>1. /\ g[n + 1] = IF n + 1 = 1 THEN s[n + 1] ELSE g[(n + 1) - 1] \o s[n + 1]
        /\ h[n + 1] = IF n + 1 = 1 THEN t[n + 1] ELSE h[(n + 1) - 1] \o t[n + 1]
    <3>1. n + 1 \in 1..N
      OBVIOUS
    <3> QED
      BY <1>0, <3>1, Zenon
  <2>2. s[n + 1] = t[n + 1] /\ (n + 1) - 1 = n
    BY DEF Agree
  <2>3. CASE n = 0
    <3>1. n + 1 = 1
      BY <2>3
    <3> QED
      BY <2>1, <2>2, <3>1, Zenon
  <2>4. CASE n # 0
    <3>1. n \in 1..M /\ n + 1 # 1
      BY <2>4
    <3>2. g[n] = h[n]
      BY <3>1
    <3> QED
      BY <2>1, <2>2, <3>1, <3>2, Zenon
  <2> QED
    BY <2>3, <2>4
<1> HIDE DEF T
<1>3. T \in SUBSET Nat
  BY DEF T
<1>4. T = Nat
  BY <1>1, <1>2, <1>3, Induct
<1> QED
  BY <1>4 DEF T, Agree

LEMMA FlattenJoins ==
    ASSUME NEW s, Len(s) \in Nat
    PROVE  \E g : /\ g = Joins(s, Len(s), g)
                  /\ FlattenSeq(s) = IF Len(s) = 0 THEN s ELSE g[Len(s)]
<1> DEFINE g == CHOOSE g : g = Joins(s, Len(s), g)
<1>1. \E x : x = Joins(s, Len(s), x)
  BY JoinsSolved
<1>2. g = Joins(s, Len(s), g)
  BY <1>1
<1>3. FlattenSeq(s) = IF Len(s) = 0 THEN s ELSE g[Len(s)]
  BY Zenon DEF FlattenSeq, Joins
<1> QED
  <2> HIDE DEF g
  <2> QED
    BY <1>2, <1>3

\* Nothing joined is nothing, and one more sequence goes to the end.
LEMMA FlattenEmpty == FlattenSeq(<<>>) = <<>>
  BY DEF FlattenSeq

LEMMA FlattenAppend ==
    ASSUME NEW V, NEW s \in Seq(Seq(V)), NEW x \in Seq(V)
    PROVE  FlattenSeq(Append(s, x)) = FlattenSeq(s) \o x
<1> DEFINE t == Append(s, x)
<1>1. /\ t \in Seq(Seq(V)) /\ Len(s) \in Nat /\ Len(t) = Len(s) + 1
      /\ t[Len(s) + 1] = x /\ \A i \in 1..Len(s) : s[i] = t[i]
  OBVIOUS
<1> HIDE DEF t
<1>2. PICK g : /\ g = Joins(s, Len(s), g)
               /\ FlattenSeq(s) = IF Len(s) = 0 THEN s ELSE g[Len(s)]
  BY <1>1, FlattenJoins
<1>3. PICK h : /\ h = Joins(t, Len(s) + 1, h)
               /\ FlattenSeq(t) = IF Len(s) + 1 = 0 THEN t ELSE h[Len(s) + 1]
  BY <1>1, FlattenJoins
<1>4. FlattenSeq(t) = h[Len(s) + 1]
  BY <1>1, <1>3
<1>5. h[Len(s) + 1] = IF Len(s) + 1 = 1 THEN x ELSE h[(Len(s) + 1) - 1] \o x
  <2>1. Len(s) + 1 \in 1..(Len(s) + 1)
    BY <1>1
  <2> QED
    BY <1>1, <1>3, <2>1, Zenon DEF Joins
<1>6. CASE Len(s) = 0
  <2>1. s = <<>> /\ Len(s) + 1 = 1
    BY <1>6
  <2>2. FlattenSeq(t) = x
    BY <1>4, <1>5, <2>1, Zenon
  <2>3. FlattenSeq(s) = <<>>
    BY <2>1, FlattenEmpty
  <2>4. <<>> \o x = x
    OBVIOUS
  <2> QED
    BY <2>2, <2>3, <2>4 DEF t
<1>7. CASE Len(s) # 0
  <2>1. Len(s) \in 1..Len(s) /\ (Len(s) + 1) - 1 = Len(s) /\ Len(s) + 1 # 1
        /\ Len(s) + 1 \in Nat /\ Len(s) <= Len(s) + 1
    BY <1>1, <1>7
  <2>2. g[Len(s)] = h[Len(s)]
    <3>1. IsJoins(s, Len(s), g) /\ IsJoins(t, Len(s) + 1, h)
      BY <1>2, <1>3 DEF IsJoins
    <3>2. Len(t) \in Nat /\ Len(s) <= Len(t) /\ IsJoins(t, Len(t), h)
      BY <1>1, <3>1
    <3>3. Len(s) \in Nat /\ Agree(s, t, Len(s))
      BY <1>1 DEF Agree
    <3>4. Agree(g, h, Len(s))
      BY <3>1, <3>2, <3>3, JoinsAgree, Zenon
    <3> QED
      BY <2>1, <3>4 DEF Agree
  <2>3. FlattenSeq(t) = h[Len(s)] \o x
    BY <1>4, <1>5, <2>1, Zenon
  <2>4. FlattenSeq(s) = g[Len(s)]
    BY <1>2, <1>7
  <2> QED
    BY <2>2, <2>3, <2>4, Zenon DEF t
<1> QED
  BY <1>6, <1>7

LEMMA FlattenType ==
    ASSUME NEW V, NEW s \in Seq(Seq(V))
    PROVE  FlattenSeq(s) \in Seq(V)
<1> DEFINE T == {n \in Nat : \A t \in Seq(Seq(V)) : Len(t) = n => FlattenSeq(t) \in Seq(V)}
<1>1. 0 \in T
  <2> SUFFICES ASSUME NEW t \in Seq(Seq(V)), Len(t) = 0 PROVE FlattenSeq(t) \in Seq(V)
    OBVIOUS
  <2>1. t = <<>>
    OBVIOUS
  <2>2. FlattenSeq(t) = <<>>
    BY <2>1, FlattenEmpty, Zenon
  <2> QED
    BY <2>2
<1>2. ASSUME NEW n \in T PROVE n + 1 \in T
  <2> SUFFICES ASSUME NEW t \in Seq(Seq(V)), Len(t) = n + 1 PROVE FlattenSeq(t) \in Seq(V)
    OBVIOUS
  <2> DEFINE u == SubSeq(t, 1, n)
  <2>1. u \in Seq(Seq(V)) /\ Len(u) = n /\ t[n + 1] \in Seq(V)
    OBVIOUS
  <2>2. t = Append(u, t[n + 1])
    OBVIOUS
  <2>3. FlattenSeq(u) \in Seq(V)
    <3> HIDE DEF u
    <3> QED
      BY <2>1
  <2> HIDE DEF u
  <2>4. FlattenSeq(t) = FlattenSeq(u) \o t[n + 1]
    BY <2>1, <2>2, FlattenAppend
  <2> QED
    BY <2>1, <2>3, <2>4
<1> HIDE DEF T
<1>3. T \in SUBSET Nat
  BY DEF T
<1>4. T = Nat
  BY <1>1, <1>2, <1>3, Induct
<1> QED
  BY <1>4 DEF T

-----------------------------------------------------------------------------
(* Lines of a text. *)

LEMMA MinExists ==
    ASSUME NEW S \in SUBSET Nat, S # {}
    PROVE  \E m \in S : \A k \in S : m <= k
<1>1. PICK m \in S : \A k \in S : ~(<<k, m>> \in OpToRel(<, Nat))
  BY NatLessThanWellFounded, WFMin
<1>2. ASSUME NEW k \in S, k < m PROVE FALSE
  <2>1. k \in Nat /\ m \in Nat
    OBVIOUS
  <2>2. <<k, m>> \in OpToRel(<, Nat)
    BY <1>2, <2>1 DEF OpToRel
  <2> QED
    BY <1>1, <2>2
<1>3. \A k \in S : k \in Nat /\ m \in Nat
  OBVIOUS
<1> QED
  BY <1>2, <1>3

\* A parser whose place in its buffer is inside it.
Parsers == [buffer : Seq(Int), scan : Nat, data : Seq(Int)]
IsParser(p) == p \in Parsers /\ p.scan <= Len(p.buffer)

\* What a complete line is: the line ends before the first break, at i, and the next one starts at n.
LineIn(p, i, n) ==
    /\ i \in (p.scan + 1)..Len(p.buffer) /\ n \in i..Len(p.buffer)
    /\ \A j \in (p.scan + 1)..(i - 1) : p.buffer[j] \notin Breaks
    /\ \/ p.buffer[i] = LF /\ n = i
       \/ p.buffer[i] = CR /\ i < Len(p.buffer) /\ p.buffer[i + 1] = LF /\ n = i + 1
       \/ p.buffer[i] = CR /\ i < Len(p.buffer) /\ p.buffer[i + 1] # LF /\ n = i

\* And what none is: no break, or a CR that the next token may continue.
NoLineIn(p) ==
    \A j \in (p.scan + 1)..Len(p.buffer) :
        p.buffer[j] \in Breaks => j = Len(p.buffer) /\ p.buffer[j] = CR

LEMMA NextLineFinds ==
    ASSUME NEW p, IsParser(p)
    PROVE  \/ NextLine(p) = None /\ NoLineIn(p)
           \/ /\ NextLine(p) # None
              /\ \E i \in Nat, n \in Nat :
                    NextLine(p) = [end |-> i - 1, next |-> n] /\ LineIn(p, i, n)
<1> DEFINE breaks == {i \in (p.scan + 1)..Len(p.buffer) : p.buffer[i] \in Breaks}
           i == CHOOSE i \in breaks : \A j \in breaks : i <= j
<1>0. p.scan \in Nat /\ p.buffer \in Seq(Int) /\ Len(p.buffer) \in Nat
  BY DEF IsParser, Parsers
<1>1. CASE breaks = {}
  <2>1. NextLine(p) = None
    BY <1>1, Zenon DEF NextLine
  <2>2. NoLineIn(p)
    BY <1>1 DEF NoLineIn
  <2> QED
    BY <2>1, <2>2
<1>2. CASE breaks # {}
  <2>1. breaks \in SUBSET Nat
    BY <1>0
  <2>2. i \in breaks /\ \A j \in breaks : i <= j
    <3>1. \E m \in breaks : \A k \in breaks : m <= k
      <4> HIDE DEF breaks
      <4> QED
        BY <1>2, <2>1, MinExists
    <3> HIDE DEF breaks
    <3> QED
      BY <3>1
  <2>3. /\ i \in (p.scan + 1)..Len(p.buffer) /\ p.buffer[i] \in Breaks
        /\ \A j \in (p.scan + 1)..(i - 1) : p.buffer[j] \notin Breaks
    <3>1. i \in (p.scan + 1)..Len(p.buffer) /\ p.buffer[i] \in Breaks
      <4> HIDE DEF i
      <4> QED
        BY <2>2
    <3>2. ASSUME NEW j \in (p.scan + 1)..(i - 1) PROVE p.buffer[j] \notin Breaks
      <4> HIDE DEF i
      <4>1. j \in (p.scan + 1)..Len(p.buffer) /\ ~(i <= j)
        BY <1>0, <3>1
      <4>2. j \notin breaks
        <5> HIDE DEF breaks
        <5> QED
          BY <2>2, <4>1
      <4> QED
        BY <4>1, <4>2
    <3> QED
      BY <3>1, <3>2
  <2>4. NextLine(p) = IF p.buffer[i] = LF THEN [end |-> i - 1, next |-> i]
                      ELSE IF i = Len(p.buffer) THEN None
                      ELSE [end |-> i - 1, next |-> IF p.buffer[i + 1] = LF THEN i + 1 ELSE i]
    BY <1>2, Zenon DEF NextLine
  <2> HIDE DEF i, breaks
  <2>5. i \in Nat /\ i + 1 \in Nat /\ i - 1 \in Nat
    BY <1>0, <2>3
  <2>6. \A n \in Nat : [end |-> i - 1, next |-> n] # None
    BY <2>5, StreamsAssumption
  <2>7. CASE p.buffer[i] = LF
    <3>1. NextLine(p) = [end |-> i - 1, next |-> i]
      BY <2>4, <2>7
    <3>2. LineIn(p, i, i)
      BY <1>0, <2>3, <2>7 DEF LineIn
    <3> QED
      BY <2>5, <2>6, <3>1, <3>2
  <2>8. CASE p.buffer[i] # LF /\ i = Len(p.buffer)
    <3>1. NextLine(p) = None
      BY <2>4, <2>8
    <3>2. p.buffer[i] = CR
      BY <2>3, <2>8 DEF Breaks
    <3>3. NoLineIn(p)
      BY <1>0, <2>3, <2>8, <3>2 DEF NoLineIn
    <3> QED
      BY <3>1, <3>3
  <2>9. CASE p.buffer[i] # LF /\ i # Len(p.buffer)
    <3> DEFINE n == IF p.buffer[i + 1] = LF THEN i + 1 ELSE i
    <3>1. NextLine(p) = [end |-> i - 1, next |-> n]
      BY <2>4, <2>9
    <3>2. p.buffer[i] = CR /\ i < Len(p.buffer)
      BY <1>0, <2>3, <2>9 DEF Breaks
    <3>3. LineIn(p, i, n) /\ n \in Nat
      BY <1>0, <2>3, <2>5, <3>2 DEF LineIn
    <3> HIDE DEF n
    <3> QED
      BY <2>5, <2>6, <3>1, <3>3
  <2> QED
    BY <2>7, <2>8, <2>9
<1> QED
  BY <1>1, <1>2

\* The buffer is the text after a cut.
Holds(p, text, cut) ==
    /\ IsParser(p) /\ text \in Seq(Int) /\ cut \in Nat
    /\ Len(p.buffer) + cut = Len(text)
    /\ \A q \in 1..Len(p.buffer) : p.buffer[q] = text[cut + q]

\* A line starts after a place in a text.
Starts(text, a) == a \in Nat /\ (a = 0 \/ a \in BreakEnds(text))

BreakStart(text, b) == IF text[b] = LF /\ b > 1 /\ text[b - 1] = CR THEN b - 1 ELSE b

LEMMA EventEndsAre ==
    ASSUME NEW text, NEW b
    PROVE  b \in EventEnds(text) <=>
              /\ b \in BreakEnds(text)
              /\ BreakStart(text, b) = 1 \/ BreakStart(text, b) - 1 \in BreakEnds(text)
  BY Zenon DEF EventEnds, BreakStart

LEMMA BreakEndsAre ==
    ASSUME NEW text \in Seq(Int), NEW b
    PROVE  b \in BreakEnds(text) <=>
              /\ b \in 1..Len(text)
              /\ text[b] = LF \/ (text[b] = CR /\ b < Len(text) /\ text[b + 1] # LF)
  BY DEF BreakEnds

LEMMA LineBreaks ==
    ASSUME NEW p, NEW text, NEW cut, Holds(p, text, cut), Starts(text, cut + p.scan),
           NEW i \in Nat, NEW n \in Nat, LineIn(p, i, n)
    PROVE  /\ cut + n \in BreakEnds(text)
           /\ \A b \in BreakEnds(text) : b <= cut + p.scan \/ cut + n <= b
           /\ cut + n \in EventEnds(text) <=> i = p.scan + 1
<1>0. /\ p.scan \in Nat /\ Len(p.buffer) \in Nat /\ cut \in Nat /\ Len(text) \in Nat
      /\ text \in Seq(Int) /\ Len(p.buffer) + cut = Len(text)
  BY DEF Holds, IsParser, Parsers
<1>1. \A q \in 1..Len(p.buffer) : p.buffer[q] = text[cut + q]
  BY DEF Holds
<1>2. /\ i \in (p.scan + 1)..Len(p.buffer) /\ n \in i..Len(p.buffer) /\ n <= i + 1
      /\ \A j \in (p.scan + 1)..(i - 1) : text[cut + j] \notin Breaks
      /\ \/ text[cut + i] = LF /\ n = i
         \/ text[cut + i] = CR /\ i < Len(p.buffer) /\ text[cut + (i + 1)] = LF /\ n = i + 1
         \/ text[cut + i] = CR /\ i < Len(p.buffer) /\ text[cut + (i + 1)] # LF /\ n = i
  <2>1. i \in (p.scan + 1)..Len(p.buffer) /\ n \in i..Len(p.buffer)
    BY DEF LineIn
  <2>2. i \in 1..Len(p.buffer) /\ (i < Len(p.buffer) => i + 1 \in 1..Len(p.buffer))
    BY <1>0, <2>1
  <2>3. p.buffer[i] = text[cut + i]
        /\ (i < Len(p.buffer) => p.buffer[i + 1] = text[cut + (i + 1)])
    BY <1>1, <2>2
  <2>4. /\ n <= i + 1
        /\ \/ text[cut + i] = LF /\ n = i
           \/ text[cut + i] = CR /\ i < Len(p.buffer) /\ text[cut + (i + 1)] = LF /\ n = i + 1
           \/ text[cut + i] = CR /\ i < Len(p.buffer) /\ text[cut + (i + 1)] # LF /\ n = i
    BY <2>3 DEF LineIn
  <2>5. ASSUME NEW j \in (p.scan + 1)..(i - 1) PROVE text[cut + j] \notin Breaks
    <3>1. j \in 1..Len(p.buffer)
      BY <1>0, <2>1
    <3> QED
      BY <1>1, <3>1 DEF LineIn
  <2> QED
    BY <2>1, <2>4, <2>5
<1>3. cut + n \in BreakEnds(text)
  <2>1. cut + n \in 1..Len(text) /\ cut + i \in Nat /\ (cut + i) + 1 = cut + (i + 1)
    BY <1>0, <1>2
  <2>2. CASE text[cut + n] = LF
    BY <1>0, <2>1, <2>2, BreakEndsAre
  <2>3. CASE text[cut + n] # LF
    <3>1. n = i /\ text[cut + i] = CR /\ i < Len(p.buffer) /\ text[cut + (i + 1)] # LF
      BY <1>2, <2>3
    <3>2. cut + n < Len(text) /\ text[(cut + n) + 1] # LF
      BY <1>0, <2>1, <3>1
    <3> QED
      BY <1>0, <2>1, <3>1, <3>2, BreakEndsAre
  <2> QED
    BY <2>2, <2>3
<1>4. ASSUME NEW b \in BreakEnds(text), ~(b <= cut + p.scan), ~(cut + n <= b) PROVE FALSE
  <2>1. b \in 1..Len(text) /\ (text[b] = LF \/ (text[b] = CR /\ text[b + 1] # LF))
    BY <1>0, BreakEndsAre
  <2> DEFINE j == b - cut
  <2>2. j \in (p.scan + 1)..(n - 1) /\ b = cut + j /\ b + 1 = cut + (j + 1)
    BY <1>0, <1>2, <1>4, <2>1
  <2> HIDE DEF j
  <2>3. text[cut + j] \in Breaks
    BY <2>1, <2>2 DEF Breaks
  <2>4. j = i /\ n = i + 1
    BY <1>0, <1>2, <2>2, <2>3
  <2> QED
    BY <1>2, <2>1, <2>2, <2>4 DEF CR, LF
<1>5. ASSUME i = p.scan + 1 PROVE BreakStart(text, cut + n) = cut + i
  <2>1. CASE n = i + 1
    <3>1. text[cut + n] = LF /\ text[(cut + n) - 1] = CR /\ cut + n > 1 /\ (cut + n) - 1 = cut + i
      BY <1>0, <1>2, <2>1
    <3> QED
      BY <3>1 DEF BreakStart
  <2>2. CASE n = i
    <3>1. ASSUME text[cut + n] = LF, cut + n > 1, text[(cut + n) - 1] = CR PROVE FALSE
      <4>1. cut + p.scan = (cut + n) - 1 /\ cut + p.scan # 0 /\ (cut + p.scan) + 1 = cut + n
        <5>1. n = p.scan + 1 /\ cut + n > 1
          BY <1>5, <2>2, <3>1
        <5> QED
          BY <1>0, <5>1
      <4>2. cut + p.scan \in BreakEnds(text)
        BY <4>1 DEF Starts
      <4>3. text[(cut + p.scan) + 1] # LF
        BY <1>0, <3>1, <4>1, <4>2, BreakEndsAre DEF CR, LF
      <4> QED
        BY <3>1, <4>1, <4>3
    <3> QED
      BY <2>2, <3>1 DEF BreakStart
  <2> QED
    BY <1>0, <1>2, <2>1, <2>2
<1>6. ASSUME i # p.scan + 1 PROVE BreakStart(text, cut + n) = cut + i
  <2>1. CASE n = i + 1
    <3>1. text[cut + n] = LF /\ text[(cut + n) - 1] = CR /\ cut + n > 1 /\ (cut + n) - 1 = cut + i
      BY <1>0, <1>2, <2>1
    <3> QED
      BY <3>1 DEF BreakStart
  <2>2. CASE n = i
    <3>1. i - 1 \in (p.scan + 1)..(i - 1) /\ cut + (i - 1) = (cut + n) - 1
      BY <1>0, <1>2, <1>6, <2>2, SMTT(20)
    <3>2. text[(cut + n) - 1] \notin Breaks
      BY <1>2, <3>1
    <3> QED
      BY <2>2, <3>2 DEF BreakStart, Breaks
  <2> QED
    BY <1>0, <1>2, <2>1, <2>2
<1>7. BreakStart(text, cut + n) = cut + i
  BY <1>5, <1>6
<1>8. cut + n \in EventEnds(text) <=> (cut + i = 1 \/ (cut + i) - 1 \in BreakEnds(text))
  BY <1>3, <1>7, EventEndsAre, Zenon
<1>9. CASE i = p.scan + 1
  <2>1. cut + i = 1 \/ (cut + i) - 1 \in BreakEnds(text)
    <3>1. (cut + i) - 1 = cut + p.scan
      BY <1>0, <1>9
    <3>2. CASE cut + p.scan = 0
      BY <1>0, <1>9, <3>2
    <3>3. CASE cut + p.scan \in BreakEnds(text)
      BY <3>1, <3>3
    <3> QED
      BY <3>2, <3>3 DEF Starts
  <2> QED
    BY <1>3, <1>4, <1>8, <1>9, <2>1
<1>10. CASE i # p.scan + 1
  <2>1. i - 1 \in (p.scan + 1)..(i - 1) /\ cut + (i - 1) = (cut + i) - 1 /\ cut + i # 1
    BY <1>0, <1>2, <1>10, SMTT(20)
  <2>2. text[(cut + i) - 1] \notin Breaks
    BY <1>2, <2>1
  <2>3. (cut + i) - 1 \notin BreakEnds(text)
    BY <1>0, <2>2, BreakEndsAre DEF Breaks
  <2> QED
    BY <1>3, <1>4, <1>8, <1>10, <2>1, <2>3
<1> QED
  BY <1>9, <1>10

LEMMA NoLineBreaks ==
    ASSUME NEW p, NEW text, NEW cut, Holds(p, text, cut), NoLineIn(p)
    PROVE  \A b \in BreakEnds(text) : b <= cut + p.scan
<1>0. /\ p.scan \in Nat /\ Len(p.buffer) \in Nat /\ cut \in Nat /\ Len(text) \in Nat
      /\ text \in Seq(Int) /\ Len(p.buffer) + cut = Len(text)
  BY DEF Holds, IsParser, Parsers
<1>1. \A q \in 1..Len(p.buffer) : p.buffer[q] = text[cut + q]
  BY DEF Holds
<1> SUFFICES ASSUME NEW b \in BreakEnds(text), ~(b <= cut + p.scan) PROVE FALSE
  OBVIOUS
<1>2. b \in 1..Len(text) /\ (text[b] = LF \/ (text[b] = CR /\ b < Len(text)))
  BY <1>0, BreakEndsAre
<1> DEFINE j == b - cut
<1>3. j \in (p.scan + 1)..Len(p.buffer) /\ b = cut + j /\ j \in 1..Len(p.buffer)
  BY <1>0, <1>2, SMTT(20)
<1> HIDE DEF j
<1>4. p.buffer[j] = text[b]
  BY <1>1, <1>3
<1>5. j = Len(p.buffer) /\ p.buffer[j] = CR
  BY <1>2, <1>3, <1>4 DEF NoLineIn, Breaks
<1> QED
  BY <1>0, <1>2, <1>3, <1>4, <1>5 DEF CR, LF

\* Breaks before the start of a line stay where they are when the text grows.
LEMMA BreaksStay ==
    ASSUME NEW text \in Seq(Int), NEW more \in Seq(Int), NEW a, Starts(text, a),
           Len(text) <= Len(more), \A q \in 1..Len(text) : more[q] = text[q]
    PROVE  /\ Starts(more, a)
           /\ \A b \in 1..a : b \in BreakEnds(more) <=> b \in BreakEnds(text)
           /\ \A b \in 1..a : b \in EventEnds(more) <=> b \in EventEnds(text)
<1>0. Len(text) \in Nat /\ Len(more) \in Nat /\ a \in Nat /\ a <= Len(text)
  BY BreakEndsAre DEF Starts
<1>1. ASSUME NEW b \in 1..a PROVE b \in BreakEnds(more) <=> b \in BreakEnds(text)
  <2>1. b \in 1..Len(text) /\ b \in 1..Len(more) /\ more[b] = text[b] /\ b \in Nat
    BY <1>0, SMTT(20)
  <2>2. CASE b < Len(text)
    <3>1. more[b + 1] = text[b + 1] /\ b < Len(more)
      BY <1>0, <2>1, <2>2
    <3> QED
      BY <2>1, <2>2, <3>1, BreakEndsAre
  <2>3. CASE ~(b < Len(text))
    <3>1. b = a /\ b # 0 /\ b = Len(text)
      BY <1>0, <2>1, <2>3
    <3>2. text[b] = LF
      BY <2>3, <3>1, BreakEndsAre DEF Starts
    <3> QED
      BY <2>1, <3>2, BreakEndsAre
  <2> QED
    BY <2>2, <2>3
<1>2. Starts(more, a)
  <2>1. a = 0 \/ a \in 1..a
    BY <1>0
  <2> QED
    BY <1>1, <2>1 DEF Starts
<1>3. ASSUME NEW b \in 1..a PROVE b \in EventEnds(more) <=> b \in EventEnds(text)
  <2>1. b \in 1..Len(text) /\ more[b] = text[b] /\ b \in Nat
    BY <1>0
  <2>2. BreakStart(more, b) = BreakStart(text, b) /\ BreakStart(text, b) \in Nat
        /\ BreakStart(text, b) \in {b, b - 1}
    <3>1. b > 1 => more[b - 1] = text[b - 1]
      BY <1>0, <2>1
    <3> QED
      BY <2>1, <3>1 DEF BreakStart
  <2> DEFINE c == BreakStart(text, b) - 1
  <2>3. c \in Int /\ c < a
    BY <1>0, <2>1, <2>2, SMTT(20)
  <2>4. c \in BreakEnds(more) <=> c \in BreakEnds(text)
    <3>1. c \in 1..a \/ c < 1
      BY <1>0, <2>3
    <3> HIDE DEF c
    <3>2. CASE c < 1
      <4>1. c \notin 1..Len(text) /\ c \notin 1..Len(more)
        BY <2>3, <3>2
      <4> QED
        BY <4>1, BreakEndsAre
    <3> QED
      BY <1>1, <3>1, <3>2
  <2> QED
    BY <1>1, <2>2, <2>4, EventEndsAre, Zenon
<1> QED
  BY <1>1, <1>2, <1>3

-----------------------------------------------------------------------------
(* The bytes of an event. *)

LEMMA LineEndType ==
    ASSUME ends \in LineEnds, NEW i \in Nat, i > 0
    PROVE  /\ LineEnd(i) \in [field : Endings, blank : Endings]
           /\ LineEnd(i).field = <<CR>> => Head(LineEnd(i).blank) # LF
<1>1. ends \in Seq([field : Endings, blank : Endings]) /\ ends # <<>>
  BY StreamsAssumption
<1>2. Len(ends) \in Nat /\ Len(ends) > 0
  BY <1>1
<1>3. 1 + ((i - 1) % Len(ends)) \in 1..Len(ends)
  <2>1. \A L \in Nat : L > 0 => 1 + ((i - 1) % L) \in 1..L
    OBVIOUS
  <2> QED
    BY <1>2, <2>1
<1>4. 1 + ((i - 1) % Len(ends)) \in DOMAIN ends
  BY <1>1, <1>3
<1> DEFINE j == 1 + ((i - 1) % Len(ends))
<1>5. LineEnd(i) = ends[j] /\ j \in DOMAIN ends
  BY <1>4, Zenon DEF LineEnd
<1> DEFINE R == [field : Endings, blank : Endings]
<1>6. ends[j] \in R
  <2>1. j \in 1..Len(ends) /\ ends \in Seq(R)
    BY <1>1, <1>3
  <2> HIDE DEF j, R
  <2> QED
    BY <2>1
<1> HIDE DEF j
<1>7. ends[j].field = <<CR>> => Head(ends[j].blank) # LF
  BY <1>5, StreamsAssumption, Zenon
<1> QED
  BY <1>5, <1>6, <1>7

LEMMA EndingsAre ==
    ASSUME NEW x \in Endings
    PROVE  /\ x \in Seq(Int) /\ Len(x) \in 1..2 /\ x[1] \in Breaks
           /\ x = <<CR>> => Len(x) = 1
           /\ x # <<CR>> => x[Len(x)] = LF /\ (Len(x) = 2 => x[1] = CR)
           /\ Head(x) = x[1]
<1>1. CASE x = <<CR>>
  BY <1>1 DEF Breaks, CR, LF
<1>2. CASE x = <<LF>>
  BY <1>2 DEF Breaks, CR, LF
<1>3. CASE x = <<CR, LF>>
  BY <1>3 DEF Breaks, CR, LF
<1> QED
  BY <1>1, <1>2, <1>3 DEF Endings

LEMMA TwoParts ==
    ASSUME NEW A \in Seq(Int), NEW B \in Seq(Int)
    PROVE  /\ A \o B \in Seq(Int) /\ Len(A \o B) = Len(A) + Len(B)
           /\ \A q \in 1..Len(A) : (A \o B)[q] = A[q]
           /\ \A q \in 1..Len(B) : (A \o B)[Len(A) + q] = B[q]
  OBVIOUS

\* The four parts of an event's bytes, one after the other.
InParts(e, A, B, C, D) ==
    /\ e \in Seq(Int) /\ Len(e) = Len(A) + Len(B) + Len(C) + Len(D)
    /\ \A q \in 1..Len(A) : e[q] = A[q]
    /\ \A q \in 1..Len(B) : e[Len(A) + q] = B[q]
    /\ \A q \in 1..Len(C) : e[Len(A) + Len(B) + q] = C[q]
    /\ \A q \in 1..Len(D) : e[Len(A) + Len(B) + Len(C) + q] = D[q]

LEMMA FourParts ==
    ASSUME NEW A \in Seq(Int), NEW B \in Seq(Int), NEW C \in Seq(Int), NEW D \in Seq(Int)
    PROVE  InParts(A \o B \o C \o D, A, B, C, D)
<1> DEFINE F == A \o B
           G == F \o C
           e == A \o B \o C \o D
<1>1. /\ F \in Seq(Int) /\ Len(F) = Len(A) + Len(B)
      /\ \A q \in 1..Len(A) : F[q] = A[q]
      /\ \A q \in 1..Len(B) : F[Len(A) + q] = B[q]
  BY TwoParts
<1>2. e = G \o D
  OBVIOUS
<1>a. F \in Seq(Int)
  BY <1>1
<1> HIDE DEF F, e
<1>3. /\ G \in Seq(Int) /\ Len(G) = Len(F) + Len(C)
      /\ \A q \in 1..Len(F) : G[q] = F[q]
      /\ \A q \in 1..Len(C) : G[Len(F) + q] = C[q]
  BY <1>a, TwoParts
<1>b. G \in Seq(Int)
  BY <1>3
<1> HIDE DEF G
<1>4. /\ e \in Seq(Int) /\ Len(e) = Len(G) + Len(D)
      /\ \A q \in 1..Len(G) : e[q] = G[q]
      /\ \A q \in 1..Len(D) : e[Len(G) + q] = D[q]
  BY <1>2, <1>b, TwoParts
<1>5. Len(A) \in Nat /\ Len(B) \in Nat /\ Len(C) \in Nat /\ Len(D) \in Nat
  OBVIOUS
<1>6. \A q \in 1..Len(A) : e[q] = A[q]
  BY <1>1, <1>3, <1>4, <1>5
<1>7. ASSUME NEW q \in 1..Len(B) PROVE e[Len(A) + q] = B[q]
  <2>1. Len(A) + q \in 1..Len(F) /\ Len(A) + q \in 1..Len(G)
    <3>1. Len(F) = Len(A) + Len(B) /\ Len(G) = Len(F) + Len(C)
      BY <1>1, <1>3
    <3> QED
      BY <1>5, <3>1
  <2> QED
    BY <1>1, <1>3, <1>4, <2>1
<1>8. ASSUME NEW q \in 1..Len(C) PROVE e[Len(A) + Len(B) + q] = C[q]
  <2>1. Len(A) + Len(B) + q = Len(F) + q /\ Len(F) + q \in 1..Len(G)
    BY <1>1, <1>3, <1>5
  <2> QED
    BY <1>3, <1>4, <2>1
<1>9. ASSUME NEW q \in 1..Len(D) PROVE e[Len(A) + Len(B) + Len(C) + q] = D[q]
  <2>1. Len(A) + Len(B) + Len(C) + q = Len(G) + q
    BY <1>1, <1>3, <1>5
  <2> QED
    BY <1>4, <2>1
<1>10. Len(e) = Len(A) + Len(B) + Len(C) + Len(D)
  BY <1>1, <1>3, <1>4, <1>5
<1>11. InParts(e, A, B, C, D)
  BY <1>4, <1>6, <1>7, <1>8, <1>9, <1>10 DEF InParts
<1> QED
  BY <1>11 DEF e

LEMMA FieldsAre ==
    /\ Field.comment \in Int /\ Field.event \in Int /\ Field.data \in Int
    /\ Field.comment \notin Breaks /\ Field.event \notin Breaks /\ Field.data \notin Breaks
    /\ Field.comment # Field.data /\ Field.event # Field.data
    /\ LF \notin {Field.comment, Field.event, Field.data}
    /\ \A i \in Nat : i \notin Breaks
  BY DEF Field, Breaks, CR, LF

\* The two or three lines of an event.
LEMMA BytesShape ==
    ASSUME ends \in LineEnds, NEW m \in Nat, m > 0, NEW e,
           NEW f, NEW b, f = LineEnd(m).field, b = LineEnd(m).blank
    PROVE  /\ f \in Endings /\ b \in Endings /\ (f = <<CR>> => Head(b) # LF)
           /\ e.t = "comment" => InParts(Encoded(e, m), <<>>, <<Field.comment>>, f, b)
           /\ e.t # "comment" /\ Provider = "anthropic" =>
                 InParts(Encoded(e, m), <<Field.event>> \o f, <<Field.data, m>>, f, b)
           /\ e.t # "comment" /\ Provider # "anthropic" =>
                 InParts(Encoded(e, m), <<>>, <<Field.data, m>>, f, b)
<1>1. f \in Endings /\ b \in Endings /\ (f = <<CR>> => Head(b) # LF)
  BY LineEndType
<1>2. f \in Seq(Int) /\ b \in Seq(Int)
  <2>1. \A x \in Endings : x \in Seq(Int)
    BY EndingsAre
  <2>2. f \in Endings /\ b \in Endings
    BY <1>1
  <2> QED
    BY <2>1, <2>2
<1>3. /\ <<Field.comment>> \in Seq(Int) /\ <<Field.data, m>> \in Seq(Int)
      /\ <<Field.event>> \in Seq(Int) /\ <<>> \in Seq(Int)
  BY FieldsAre
<1>4. CASE e.t = "comment"
  <2>1. Encoded(e, m) = <<Field.comment>> \o f \o b
    BY <1>4, Zenon DEF Encoded
  <2>2. <<Field.comment>> = <<>> \o <<Field.comment>>
    BY <1>3
  <2>3. Encoded(e, m) = <<>> \o <<Field.comment>> \o f \o b
    BY <2>1, <2>2, Zenon
  <2>4. InParts(Encoded(e, m), <<>>, <<Field.comment>>, f, b)
    BY <1>2, <1>3, <2>3, FourParts, ZenonT(40)
  <2> QED
    BY <1>1, <1>4, <2>4
<1>5. CASE e.t # "comment" /\ Provider = "anthropic"
  <2>1. Encoded(e, m) = (<<Field.event>> \o f) \o <<Field.data, m>> \o f \o b
    BY <1>5, Zenon DEF Encoded
  <2>2. <<Field.event>> \o f \in Seq(Int)
    BY <1>2, <1>3
  <2>3. InParts(Encoded(e, m), <<Field.event>> \o f, <<Field.data, m>>, f, b)
    BY <1>2, <1>3, <2>1, <2>2, FourParts, ZenonT(40)
  <2> QED
    BY <1>1, <1>5, <2>3
<1>6. CASE e.t # "comment" /\ Provider # "anthropic"
  <2>1. Encoded(e, m) = <<>> \o <<Field.data, m>> \o f \o b
    BY <1>6, Zenon DEF Encoded
  <2>2. InParts(Encoded(e, m), <<>>, <<Field.data, m>>, f, b)
    BY <1>2, <1>3, <2>1, FourParts, Zenon
  <2> QED
    BY <1>1, <1>6, <2>2
<1> QED
  BY <1>4, <1>5, <1>6

Bytes(i) == Encoded(sent[i], i)

\* Bytes of an event: they are integers, and start with a field.
LEMMA BytesType ==
    ASSUME ends \in LineEnds, NEW m \in Nat, m > 0, NEW e
    PROVE  Encoded(e, m) \in Seq(Int) /\ Len(Encoded(e, m)) > 0 /\ Encoded(e, m)[1] \notin Breaks
<1> DEFINE f == LineEnd(m).field
           b == LineEnd(m).blank
           E == Encoded(e, m)
<1>1. /\ f \in Endings /\ b \in Endings
      /\ e.t = "comment" => InParts(E, <<>>, <<Field.comment>>, f, b)
      /\ e.t # "comment" /\ Provider = "anthropic" =>
            InParts(E, <<Field.event>> \o f, <<Field.data, m>>, f, b)
      /\ e.t # "comment" /\ Provider # "anthropic" =>
            InParts(E, <<>>, <<Field.data, m>>, f, b)
  BY BytesShape
<1> HIDE DEF f, b, E
<1>2. f \in Seq(Int) /\ b \in Seq(Int) /\ Len(f) \in Nat /\ Len(b) \in Nat
  BY <1>1, EndingsAre
<1>3. CASE e.t = "comment"
  <2>1. /\ E \in Seq(Int) /\ Len(E) = 0 + 1 + Len(f) + Len(b)
        /\ \A q \in 1..1 : E[0 + q] = <<Field.comment>>[q]
    BY <1>1, <1>3 DEF InParts
  <2> QED
    BY <1>2, <2>1, FieldsAre DEF E
<1>4. CASE e.t # "comment" /\ Provider = "anthropic"
  <2>1. /\ <<Field.event>> \o f \in Seq(Int) /\ Len(<<Field.event>> \o f) = 1 + Len(f)
        /\ (<<Field.event>> \o f)[1] = Field.event
    BY <1>2, FieldsAre
  <2>2. /\ E \in Seq(Int) /\ Len(E) = Len(<<Field.event>> \o f) + 2 + Len(f) + Len(b)
        /\ \A q \in 1..Len(<<Field.event>> \o f) : E[q] = (<<Field.event>> \o f)[q]
    BY <1>1, <1>4 DEF InParts
  <2>3. E[1] = Field.event
    <3>1. 1 \in 1..Len(<<Field.event>> \o f)
      BY <1>2, <2>1
    <3> QED
      BY <2>1, <2>2, <3>1
  <2>4. Len(E) > 0
    BY <1>2, <2>1, <2>2
  <2> QED
    BY <2>2, <2>3, <2>4, FieldsAre DEF E
<1>5. CASE e.t # "comment" /\ Provider # "anthropic"
  <2>1. /\ E \in Seq(Int) /\ Len(E) = 0 + 2 + Len(f) + Len(b)
        /\ \A q \in 1..2 : E[0 + q] = <<Field.data, m>>[q]
    BY <1>1, <1>5 DEF InParts
  <2> QED
    BY <1>2, <2>1, FieldsAre DEF E
<1> QED
  BY <1>3, <1>4, <1>5

\* The data lines of an event, once they are read.
Datum(m) == IF sent[m].t = "comment" THEN <<>> ELSE <<m>>

\* Where a line of the m-th event starts, and the data read before.
AtLine(m, scan, data) ==
    \/ scan = 0 /\ data = <<>>
    \/ /\ sent[m].t # "comment" /\ Provider = "anthropic"
       /\ scan = 1 + Len(LineEnd(m).field) /\ data = <<>>
    \/ scan = Len(Bytes(m)) - Len(LineEnd(m).blank) /\ data = Datum(m)

\* There, a line of `a` tokens that ends with x.
Line(m, scan, a, x) ==
    /\ a \in Nat /\ x \in Endings /\ scan \in Nat /\ scan + a + Len(x) <= Len(Bytes(m))
    /\ \A q \in 1..a : Bytes(m)[scan + q] \notin Breaks
    /\ \A q \in 1..Len(x) : Bytes(m)[scan + a + q] = x[q]
    /\ x = <<CR>> /\ scan + a + 1 < Len(Bytes(m)) => Bytes(m)[scan + a + 2] # LF

\* It is the blank line that ends the event, or one that leads to the next.
Leads(m, scan, data, a, x) ==
    \/ a = 0 /\ scan + Len(x) = Len(Bytes(m)) /\ data = Datum(m)
    \/ /\ a > 0
       /\ AtLine(m, scan + a + Len(x), ParseField(data, SubSeq(Bytes(m), scan + 1, scan + a)))

LEMMA OneToken ==
    ASSUME NEW e \in Seq(Int), NEW i \in 1..Len(e)
    PROVE  SubSeq(e, i, i) = <<e[i]>>
<1> DEFINE t == SubSeq(e, i, i)
<1>1. t \in Seq(Int) /\ Len(t) = 1
  OBVIOUS
<1>2. t[1] = e[i]
  OBVIOUS
<1> HIDE DEF t
<1>3. t = <<t[1]>>
  BY <1>1
<1> QED
  BY <1>2, <1>3 DEF t

LEMMA TwoTokens ==
    ASSUME NEW e \in Seq(Int), NEW i \in 1..Len(e), i + 1 <= Len(e)
    PROVE  SubSeq(e, i, i + 1) = <<e[i], e[i + 1]>>
<1> DEFINE t == SubSeq(e, i, i + 1)
<1>1. t \in Seq(Int) /\ Len(t) = 2
  OBVIOUS
<1>2. t[1] = e[i] /\ t[2] = e[i + 1]
  OBVIOUS
<1> HIDE DEF t
<1>3. t = <<t[1], t[2]>>
  BY <1>1
<1> QED
  BY <1>2, <1>3 DEF t

LEMMA LineOfComment ==
    ASSUME ends \in LineEnds, NEW m \in Nat, m > 0, NEW scan, NEW data, AtLine(m, scan, data),
           sent[m].t = "comment"
    PROVE  \E a, x : Line(m, scan, a, x) /\ Leads(m, scan, data, a, x)
<1> DEFINE f == LineEnd(m).field
           b == LineEnd(m).blank
           E == Bytes(m)
<1>1. /\ f \in Endings /\ b \in Endings /\ (f = <<CR>> => Head(b) # LF)
      /\ InParts(E, <<>>, <<Field.comment>>, f, b)
  BY BytesShape DEF Bytes
<1>2. f = LineEnd(m).field /\ b = LineEnd(m).blank /\ E = Bytes(m)
  OBVIOUS
<1> HIDE DEF f, b, E
<1>3. /\ f \in Seq(Int) /\ b \in Seq(Int) /\ Len(f) \in 1..2 /\ Len(b) \in 1..2
      /\ b[1] = Head(b) /\ (f = <<CR>> => Len(f) = 1)
  BY <1>1, EndingsAre
<1>a. Len(f) \in 1..2 /\ Len(b) \in 1..2
  BY <1>3, Zenon
<1>4. /\ E \in Seq(Int) /\ Len(E) = 1 + Len(f) + Len(b) /\ E[1] = Field.comment
      /\ \A q \in 1..Len(f) : E[1 + q] = f[q]
      /\ \A q \in 1..Len(b) : E[1 + Len(f) + q] = b[q]
  <2>1. /\ E \in Seq(Int) /\ Len(E) = 0 + 1 + Len(f) + Len(b)
        /\ \A q \in 1..1 : E[0 + q] = <<Field.comment>>[q]
        /\ \A q \in 1..Len(f) : E[0 + 1 + q] = f[q]
        /\ \A q \in 1..Len(b) : E[0 + 1 + Len(f) + q] = b[q]
    BY <1>1 DEF InParts
  <2> QED
    BY <1>3, <2>1
<1>5. CASE scan = 0 /\ data = <<>>
  <2>1. Line(m, 0, 1, f)
    <3>1. f = <<CR>> => E[3] # LF
      <4>1. 1 \in 1..Len(b)
        BY <1>a
      <4>2. E[1 + Len(f) + 1] = b[1]
        BY <1>4, <4>1
      <4> QED
        BY <1>1, <1>3, <4>2
    <3>2. \A q \in 1..1 : E[0 + q] \notin Breaks
      BY <1>4, FieldsAre
    <3>3. \A q \in 1..Len(f) : E[0 + 1 + q] = f[q]
      BY <1>4
    <3>4. 0 + 1 + Len(f) <= Len(E) /\ 0 \in Nat /\ 1 \in Nat /\ 0 + 1 + 2 = 3
      BY <1>3, <1>4
    <3> QED
      BY <1>1, <1>2, <3>1, <3>2, <3>3, <3>4, Zenon DEF Line
  <2>2. SubSeq(E, 1, 1) = <<Field.comment>>
    BY <1>3, <1>4, OneToken, SMTT(20)
  <2>3. ParseField(<<>>, SubSeq(E, 1, 1)) = <<>>
    BY <2>2, FieldsAre DEF ParseField
  <2>4. AtLine(m, 0 + 1 + Len(f), <<>>)
    BY <1>2, <1>3, <1>4 DEF AtLine, Datum
  <2>5. Leads(m, 0, <<>>, 1, f)
    BY <1>2, <2>3, <2>4 DEF Leads
  <2> QED
    BY <1>5, <2>1, <2>5
<1>6. CASE scan = Len(E) - Len(b) /\ data = Datum(m)
  <2>0. scan = 1 + Len(f)
    BY <1>3, <1>4, <1>6
  <2>1. Line(m, scan, 0, b)
    <3>1. /\ scan \in Nat /\ 0 \in Nat /\ scan + 0 + Len(b) <= Len(E)
          /\ ~(scan + 0 + 1 < Len(E) /\ Len(b) = 1)
      <4>1. Len(E) = 1 + Len(f) + Len(b)
        BY <1>4
      <4>2. scan \in Nat /\ scan + 0 + Len(b) <= Len(E) /\ Len(E) \in Nat
        BY <1>a, <2>0, <4>1
      <4>3. Len(b) = 1 => scan + 0 + 1 = Len(E)
        BY <1>a, <2>0, <4>1
      <4> QED
        BY <4>2, <4>3
    <3>2. \A q \in 1..0 : E[scan + q] \notin Breaks
      OBVIOUS
    <3>3. \A q \in 1..Len(b) : E[scan + 0 + q] = b[q]
      BY <1>3, <1>4, <2>0
    <3>4. b = <<CR>> => Len(b) = 1
      BY <1>1, EndingsAre
    <3> QED
      BY <1>1, <1>2, <3>1, <3>2, <3>3, <3>4, Zenon DEF Line
  <2>2. Leads(m, scan, data, 0, b)
    BY <1>2, <1>3, <1>4, <1>6 DEF Leads
  <2> QED
    BY <2>1, <2>2
<1> QED
  BY <1>2, <1>5, <1>6 DEF AtLine

LEMMA LineOfData ==
    ASSUME ends \in LineEnds, NEW m \in Nat, m > 0, NEW scan, NEW data, AtLine(m, scan, data),
           sent[m].t # "comment"
    PROVE  \E a, x : Line(m, scan, a, x) /\ Leads(m, scan, data, a, x)
<1> DEFINE f == LineEnd(m).field
           b == LineEnd(m).blank
           E == Bytes(m)
           s == IF Provider = "anthropic" THEN 1 + Len(f) ELSE 0
<1>1. /\ f \in Endings /\ b \in Endings /\ (f = <<CR>> => Head(b) # LF)
      /\ Provider = "anthropic" => InParts(E, <<Field.event>> \o f, <<Field.data, m>>, f, b)
      /\ Provider # "anthropic" => InParts(E, <<>>, <<Field.data, m>>, f, b)
  BY BytesShape DEF Bytes
<1>2. f = LineEnd(m).field /\ b = LineEnd(m).blank /\ E = Bytes(m)
  OBVIOUS
<1> HIDE DEF f, b, E
<1>3. /\ f \in Seq(Int) /\ b \in Seq(Int) /\ Len(f) \in 1..2 /\ Len(b) \in 1..2
      /\ b[1] = Head(b) /\ (f = <<CR>> => Len(f) = 1)
  BY <1>1, EndingsAre
<1>a. Len(f) \in 1..2 /\ Len(b) \in 1..2
  BY <1>3, Zenon
<1>4. /\ E \in Seq(Int) /\ Len(E) = s + 2 + Len(f) + Len(b)
      /\ E[s + 1] = Field.data /\ E[s + 2] = m
      /\ \A q \in 1..Len(f) : E[s + 2 + q] = f[q]
      /\ \A q \in 1..Len(b) : E[s + 2 + Len(f) + q] = b[q]
      /\ Provider = "anthropic" => E[1] = Field.event /\ \A q \in 1..Len(f) : E[1 + q] = f[q]
  <2>1. CASE Provider = "anthropic"
    <3> DEFINE A == <<Field.event>> \o f
    <3>1. /\ A \in Seq(Int) /\ Len(A) = 1 + Len(f) /\ A[1] = Field.event
          /\ \A q \in 1..Len(f) : A[1 + q] = f[q]
      BY <1>3, FieldsAre
    <3>2. InParts(E, A, <<Field.data, m>>, f, b)
      BY <1>1, <2>1
    <3> HIDE DEF A
    <3>3. /\ E \in Seq(Int) /\ Len(E) = Len(A) + 2 + Len(f) + Len(b)
          /\ \A q \in 1..Len(A) : E[q] = A[q]
          /\ \A q \in 1..2 : E[Len(A) + q] = <<Field.data, m>>[q]
          /\ \A q \in 1..Len(f) : E[Len(A) + 2 + q] = f[q]
          /\ \A q \in 1..Len(b) : E[Len(A) + 2 + Len(f) + q] = b[q]
      BY <3>2 DEF InParts
    <3>4. s = Len(A)
      BY <2>1, <3>1
    <3>5. E[s + 1] = Field.data /\ E[s + 2] = m
      BY <3>3, <3>4
    <3>6. 1 \in 1..Len(A) /\ \A q \in 1..Len(f) : 1 + q \in 1..Len(A)
      BY <1>3, <3>1
    <3>7. E[1] = Field.event /\ \A q \in 1..Len(f) : E[1 + q] = f[q]
      BY <3>1, <3>3, <3>6
    <3> QED
      BY <3>3, <3>4, <3>5, <3>7
  <2>2. CASE Provider # "anthropic"
    <3>1. /\ E \in Seq(Int) /\ Len(E) = 0 + 2 + Len(f) + Len(b)
          /\ \A q \in 1..2 : E[0 + q] = <<Field.data, m>>[q]
          /\ \A q \in 1..Len(f) : E[0 + 2 + q] = f[q]
          /\ \A q \in 1..Len(b) : E[0 + 2 + Len(f) + q] = b[q]
      BY <1>1, <2>2 DEF InParts
    <3>2. s = 0
      BY <2>2
    <3> QED
      BY <2>2, <3>1, <3>2
  <2> QED
    BY <2>1, <2>2
<1>5. s \in Nat
  BY <1>3
<1>6. Provider = "anthropic" => s = 1 + Len(f)
  OBVIOUS
<1>7. Provider # "anthropic" => s = 0
  OBVIOUS
<1> HIDE DEF s
<1>8. CASE scan = 0 /\ data = <<>> /\ Provider = "anthropic"
  <2>1. Line(m, 0, 1, f)
    <3>1. f = <<CR>> => E[3] # LF
      <4>1. Len(f) = 1 => s + 1 = 3
        BY <1>6, <1>8
      <4>2. Len(f) = 1 => E[3] = Field.data
        BY <1>4, <4>1
      <4> QED
        BY <1>3, <4>2, FieldsAre
    <3>2. \A q \in 1..1 : E[0 + q] \notin Breaks
      BY <1>4, <1>8, FieldsAre
    <3>3. \A q \in 1..Len(f) : E[0 + 1 + q] = f[q]
      BY <1>4, <1>8
    <3>4. 0 + 1 + Len(f) <= Len(E) /\ 0 \in Nat /\ 1 \in Nat /\ 0 + 1 + 2 = 3
      BY <1>3, <1>4, <1>5
    <3> QED
      BY <1>1, <1>2, <3>1, <3>2, <3>3, <3>4, Zenon DEF Line
  <2>2. SubSeq(E, 1, 1) = <<Field.event>>
    <3>1. E \in Seq(Int) /\ 1 \in 1..Len(E) /\ E[1] = Field.event
      BY <1>3, <1>4, <1>5, <1>8
    <3> QED
      BY <3>1, OneToken
  <2>3. ParseField(<<>>, SubSeq(E, 1, 1)) = <<>>
    BY <2>2, FieldsAre DEF ParseField
  <2>4. AtLine(m, 0 + 1 + Len(f), <<>>)
    <3>1. 0 + 1 + Len(f) = 1 + Len(f)
      BY <1>3
    <3> QED
      BY <1>2, <1>8, <3>1, Zenon DEF AtLine
  <2>5. Leads(m, 0, <<>>, 1, f)
    BY <1>2, <2>3, <2>4 DEF Leads
  <2> QED
    BY <1>8, <2>1, <2>5
<1>9. CASE scan = s /\ data = <<>>
  <2>1. Line(m, s, 2, f)
    <3>1. f = <<CR>> => E[s + 4] # LF
      <4>1. 1 \in 1..Len(b)
        BY <1>a, SMTT(20)
      <4>2. E[s + 2 + Len(f) + 1] = b[1]
        BY <1>4, <4>1
      <4>3. Len(f) = 1 => s + 2 + Len(f) + 1 = s + 4
        BY <1>5
      <4> QED
        BY <1>1, <1>3, <4>2, <4>3
    <3>2. /\ 2 \in Nat /\ s + 2 + Len(f) <= Len(E) /\ s + 2 + 2 = s + 4
          /\ \A q \in 1..2 : E[s + q] \notin Breaks
      BY <1>3, <1>4, <1>5, FieldsAre
    <3> QED
      BY <1>1, <1>2, <1>4, <1>5, <3>1, <3>2 DEF Line
  <2>2. SubSeq(E, s + 1, s + 2) = <<Field.data, m>>
    <3>1. s + 1 \in 1..Len(E) /\ (s + 1) + 1 <= Len(E) /\ (s + 1) + 1 = s + 2
      BY <1>3, <1>4, <1>5
    <3>2. SubSeq(E, s + 1, (s + 1) + 1) = <<E[s + 1], E[(s + 1) + 1]>>
      BY <1>4, <3>1, TwoTokens
    <3> QED
      BY <1>4, <3>1, <3>2
  <2>3. ParseField(<<>>, SubSeq(E, s + 1, s + 2)) = <<m>>
    <3>1. Head(<<Field.data, m>>) = Field.data /\ Tail(<<Field.data, m>>) = <<m>>
          /\ <<>> \o <<m>> = <<m>>
      OBVIOUS
    <3> QED
      BY <2>2, <3>1 DEF ParseField
  <2>4. AtLine(m, s + 2 + Len(f), <<m>>)
    <3>1. s + 2 + Len(f) = Len(E) - Len(b)
      BY <1>3, <1>4, <1>5
    <3> QED
      BY <1>2, <3>1 DEF AtLine, Datum
  <2>5. Leads(m, s, <<>>, 2, f)
    BY <1>2, <2>3, <2>4 DEF Leads
  <2> QED
    BY <1>9, <2>1, <2>5
<1>10. CASE scan = Len(E) - Len(b) /\ data = Datum(m)
  <2>1. scan = s + 2 + Len(f)
    BY <1>3, <1>4, <1>5, <1>10
  <2>2. Line(m, scan, 0, b)
    <3>1. /\ scan \in Nat /\ 0 \in Nat /\ scan + 0 + Len(b) <= Len(E)
          /\ ~(scan + 0 + 1 < Len(E) /\ Len(b) = 1)
      <4>1. Len(E) = s + 2 + Len(f) + Len(b)
        BY <1>4
      <4>2. scan \in Nat /\ scan + 0 + Len(b) <= Len(E) /\ Len(E) \in Nat
        BY <1>a, <1>5, <2>1, <4>1
      <4>3. Len(b) = 1 => scan + 0 + 1 = Len(E)
        BY <1>a, <1>5, <2>1, <4>1
      <4> QED
        BY <4>2, <4>3
    <3>2. \A q \in 1..0 : E[scan + q] \notin Breaks
      OBVIOUS
    <3>3. \A q \in 1..Len(b) : E[scan + 0 + q] = b[q]
      BY <1>3, <1>4, <1>5, <2>1
    <3>4. b = <<CR>> => Len(b) = 1
      BY <1>1, EndingsAre
    <3> QED
      BY <1>1, <1>2, <3>1, <3>2, <3>3, <3>4, Zenon DEF Line
  <2>3. Leads(m, scan, data, 0, b)
    BY <1>2, <1>3, <1>4, <1>5, <1>10, <2>1 DEF Leads
  <2> QED
    BY <2>2, <2>3
<1> QED
  BY <1>2, <1>6, <1>7, <1>8, <1>9, <1>10 DEF AtLine

LEMMA LineOf ==
    ASSUME ends \in LineEnds, NEW m \in Nat, m > 0, NEW scan, NEW data, AtLine(m, scan, data)
    PROVE  \E a, x : Line(m, scan, a, x) /\ Leads(m, scan, data, a, x)
<1>1. CASE sent[m].t = "comment"
  BY <1>1, LineOfComment
<1>2. CASE sent[m].t # "comment"
  BY <1>2, LineOfData
<1> QED
  BY <1>1, <1>2

\* The buffer starts with an event, as far as it goes.
BufferOf(p, m) ==
    /\ \A q \in 1..Len(p.buffer) : q <= Len(Bytes(m)) => p.buffer[q] = Bytes(m)[q]
    /\ Len(p.buffer) > Len(Bytes(m)) => p.buffer[Len(Bytes(m)) + 1] \notin Breaks

\* A complete line of the buffer is the event's line.
LEMMA LineFound ==
    ASSUME ends \in LineEnds, NEW m \in Nat, m > 0, NEW p, IsParser(p), BufferOf(p, m),
           NEW a, NEW x, Line(m, p.scan, a, x), NEW i \in Nat, NEW n \in Nat, LineIn(p, i, n)
    PROVE  i = p.scan + a + 1 /\ n = p.scan + a + Len(x)
<1> DEFINE E == Bytes(m)
           c == p.scan
<1>1. E \in Seq(Int) /\ Len(E) \in Nat
  BY BytesType DEF Bytes
<1>2. E = Bytes(m)
  OBVIOUS
<1> HIDE DEF E
<1>3. /\ c \in Nat /\ p.buffer \in Seq(Int) /\ Len(p.buffer) \in Nat
  BY DEF IsParser, Parsers
<1>4. /\ a \in Nat /\ x \in Endings /\ c + a + Len(x) <= Len(E)
      /\ \A q \in 1..a : E[c + q] \notin Breaks
      /\ \A q \in 1..Len(x) : E[c + a + q] = x[q]
      /\ x = <<CR>> /\ c + a + 1 < Len(E) => E[c + a + 2] # LF
  BY <1>2 DEF Line
<1>5. /\ \A q \in 1..Len(p.buffer) : q <= Len(E) => p.buffer[q] = E[q]
      /\ Len(p.buffer) > Len(E) => p.buffer[Len(E) + 1] \notin Breaks
  BY <1>2 DEF BufferOf
<1>6. Len(x) \in 1..2 /\ x[1] \in Breaks
  BY <1>4, EndingsAre
<1>7. /\ i \in (c + 1)..Len(p.buffer) /\ n \in i..Len(p.buffer)
      /\ \A j \in (c + 1)..(i - 1) : p.buffer[j] \notin Breaks
      /\ \/ p.buffer[i] = LF /\ n = i
         \/ p.buffer[i] = CR /\ i < Len(p.buffer) /\ p.buffer[i + 1] = LF /\ n = i + 1
         \/ p.buffer[i] = CR /\ i < Len(p.buffer) /\ p.buffer[i + 1] # LF /\ n = i
  BY DEF LineIn
<1>8. p.buffer[i] \in Breaks
  BY <1>7 DEF Breaks
<1> DEFINE j == c + a + 1
<1>9. j \in Nat /\ j <= Len(E) /\ E[j] = x[1]
  <2>1. 1 \in 1..Len(x)
    BY <1>6
  <2>2. E[c + a + 1] = x[1]
    BY <1>4, <2>1
  <2> QED
    BY <1>1, <1>3, <1>4, <1>6, <2>2, SMTT(20)
<1> HIDE DEF c
<1>10. ~(i < j)
  <2> SUFFICES ASSUME i < j PROVE FALSE
    OBVIOUS
  <2>1. i - c \in 1..a /\ c + (i - c) = i /\ i <= Len(E) /\ i \in 1..Len(p.buffer)
    BY <1>1, <1>3, <1>4, <1>7, <1>9
  <2>2. E[c + (i - c)] \notin Breaks
    BY <1>4, <2>1
  <2>3. p.buffer[i] = E[i]
    BY <1>5, <2>1
  <2> QED
    BY <1>8, <2>1, <2>2, <2>3
<1>11. ~(j < i)
  <2> SUFFICES ASSUME j < i PROVE FALSE
    OBVIOUS
  <2>1. j \in (c + 1)..(i - 1) /\ j \in 1..Len(p.buffer)
    BY <1>3, <1>4, <1>7, <1>9
  <2> HIDE DEF j
  <2>2. p.buffer[j] \notin Breaks
    BY <1>7, <2>1
  <2>3. p.buffer[j] = E[j]
    BY <1>5, <1>9, <2>1
  <2> QED
    BY <1>6, <1>9, <2>2, <2>3
<1>12. i = j
  <2> HIDE DEF j
  <2> QED
    BY <1>9, <1>10, <1>11
<1>13. p.buffer[i] = x[1] /\ i \in 1..Len(p.buffer) /\ i <= Len(E)
  <2> HIDE DEF j
  <2>1. i \in 1..Len(p.buffer) /\ i <= Len(E)
    BY <1>3, <1>7, <1>9, <1>12
  <2> QED
    BY <1>5, <1>9, <1>12, <2>1
<1>14. n = c + a + Len(x)
  <2>1. CASE x = <<LF>>
    <3>1. Len(x) = 1 /\ x[1] = LF
      BY <2>1
    <3>2. n = i
      BY <1>7, <1>13, <3>1 DEF CR, LF
    <3> QED
      BY <1>12, <3>1, <3>2
  <2>2. CASE x = <<CR, LF>>
    <3>1. Len(x) = 2 /\ x[1] = CR /\ x[2] = LF
      BY <2>2
    <3>2. i < Len(p.buffer)
      BY <1>7, <1>13, <3>1 DEF CR, LF
    <3>3. 2 \in 1..Len(x) /\ i + 1 = c + a + 2 /\ i + 1 <= Len(E) /\ i + 1 \in 1..Len(p.buffer)
      BY <1>3, <1>4, <1>12, <3>1, <3>2, SMTT(20)
    <3>4. E[c + a + 2] = LF
      BY <1>4, <3>1, <3>3
    <3>5. p.buffer[i + 1] = LF
      BY <1>5, <3>3, <3>4
    <3>6. n = i + 1
      BY <1>7, <1>13, <3>1, <3>5 DEF CR, LF
    <3> QED
      BY <3>1, <3>3, <3>6
  <2>3. CASE x = <<CR>>
    <3>1. Len(x) = 1 /\ x[1] = CR
      BY <2>3
    <3>2. i < Len(p.buffer)
      BY <1>7, <1>13, <3>1 DEF CR, LF
    <3>3. i + 1 = c + a + 2 /\ i + 1 \in 1..Len(p.buffer)
      BY <1>3, <1>4, <1>12, <3>2
    <3>4. p.buffer[i + 1] # LF
      <4>1. CASE i < Len(E)
        <5>1. c + a + 1 < Len(E) /\ i + 1 <= Len(E)
          BY <1>1, <1>12, <4>1
        <5>2. E[c + a + 2] # LF
          BY <1>4, <2>3, <5>1
        <5> QED
          BY <1>5, <3>3, <5>1, <5>2
      <4>2. CASE ~(i < Len(E))
        <5>1. i = Len(E) /\ Len(p.buffer) > Len(E)
          BY <1>1, <1>3, <1>13, <3>2, <4>2
        <5> QED
          BY <1>5, <5>1 DEF Breaks
      <4> QED
        BY <4>1, <4>2
    <3>5. n = i
      BY <1>7, <1>13, <3>1, <3>4 DEF CR, LF
    <3> QED
      BY <1>12, <3>1, <3>5
  <2> QED
    BY <1>4, <2>1, <2>2, <2>3 DEF Endings
<1> QED
  BY <1>12, <1>14 DEF c

-----------------------------------------------------------------------------
(* The wire. *)

Enc(n) == [i \in 1..n |-> Bytes(i)]
All(n) == FlattenSeq(Enc(n))
Off(n) == Len(All(n))

LEMMA EncStep ==
    ASSUME ends \in LineEnds, NEW n \in Nat
    PROVE  /\ Enc(n) \in Seq(Seq(Int)) /\ Len(Enc(n)) = n /\ Bytes(n + 1) \in Seq(Int)
           /\ Enc(n + 1) = Append(Enc(n), Bytes(n + 1))
<1>1. \A i \in Nat : i > 0 => Bytes(i) \in Seq(Int)
  BY BytesType DEF Bytes
<1>2. Enc(n) \in Seq(Seq(Int)) /\ Len(Enc(n)) = n /\ DOMAIN Enc(n) = 1..n
  BY <1>1 DEF Enc
<1>3. Bytes(n + 1) \in Seq(Int)
  BY <1>1
<1>4. Enc(n + 1) \in Seq(Seq(Int)) /\ Len(Enc(n + 1)) = n + 1 /\ DOMAIN Enc(n + 1) = 1..(n + 1)
  BY <1>1 DEF Enc
<1>5. \A i \in 1..(n + 1) : Enc(n + 1)[i] = Append(Enc(n), Bytes(n + 1))[i]
  <2> SUFFICES ASSUME NEW i \in 1..(n + 1)
               PROVE  Enc(n + 1)[i] = Append(Enc(n), Bytes(n + 1))[i]
    OBVIOUS
  <2>1. Enc(n + 1)[i] = Bytes(i)
    BY DEF Enc
  <2>2. CASE i = n + 1
    <3>1. Append(Enc(n), Bytes(n + 1))[Len(Enc(n)) + 1] = Bytes(n + 1)
      <4> HIDE DEF Enc
      <4>1. \A t \in Seq(Seq(Int)), y \in Seq(Int) : Append(t, y)[Len(t) + 1] = y
        OBVIOUS
      <4> QED
        BY <1>2, <1>3, <4>1
    <3>2. Append(Enc(n), Bytes(n + 1))[n + 1] = Bytes(n + 1) /\ Enc(n + 1)[n + 1] = Bytes(n + 1)
      BY <1>2, <2>1, <2>2, <3>1, Zenon
    <3> QED
      BY <2>2, <3>2, Zenon
  <2>3. CASE i \in 1..n
    <3>1. Enc(n)[i] = Bytes(i)
      BY <2>3 DEF Enc
    <3>2. Append(Enc(n), Bytes(n + 1))[i] = Enc(n)[i]
      BY <1>2, <1>3, <2>3
    <3> QED
      BY <2>1, <3>1, <3>2
  <2>4. i = n + 1 \/ i \in 1..n
    OBVIOUS
  <2> QED
    BY <2>2, <2>3, <2>4, Zenon
<1>6. Append(Enc(n), Bytes(n + 1)) \in Seq(Seq(Int)) /\ Len(Append(Enc(n), Bytes(n + 1))) = n + 1
  BY <1>2, <1>3
<1>7. Enc(n + 1) = Append(Enc(n), Bytes(n + 1))
  BY <1>4, <1>5, <1>6, SeqEqual
<1> QED
  BY <1>2, <1>3, <1>7

LEMMA AllStep ==
    ASSUME ends \in LineEnds, NEW n \in Nat
    PROVE  /\ All(n) \in Seq(Int) /\ Off(n) \in Nat
           /\ All(n + 1) = All(n) \o Bytes(n + 1) /\ All(n + 1) \in Seq(Int)
           /\ Off(n + 1) = Off(n) + Len(Bytes(n + 1)) /\ Off(n) < Off(n + 1)
           /\ \A q \in 1..Off(n) : All(n + 1)[q] = All(n)[q]
           /\ \A q \in 1..Len(Bytes(n + 1)) : All(n + 1)[Off(n) + q] = Bytes(n + 1)[q]
<1>1. /\ Enc(n) \in Seq(Seq(Int)) /\ Bytes(n + 1) \in Seq(Int)
      /\ Enc(n + 1) = Append(Enc(n), Bytes(n + 1))
  BY EncStep
<1>2. All(n) \in Seq(Int)
  BY <1>1, FlattenType DEF All
<1>3. All(n + 1) = All(n) \o Bytes(n + 1)
  BY <1>1, FlattenAppend DEF All
<1>4. Len(Bytes(n + 1)) \in Nat /\ Len(Bytes(n + 1)) > 0
  BY <1>1, BytesType DEF Bytes
<1>5. /\ All(n + 1) \in Seq(Int) /\ Len(All(n + 1)) = Len(All(n)) + Len(Bytes(n + 1))
      /\ \A q \in 1..Len(All(n)) : All(n + 1)[q] = All(n)[q]
      /\ \A q \in 1..Len(Bytes(n + 1)) : All(n + 1)[Len(All(n)) + q] = Bytes(n + 1)[q]
  <2> DEFINE A == All(n)
             B == Bytes(n + 1)
             C == All(n + 1)
  <2>1. A \in Seq(Int) /\ B \in Seq(Int) /\ C = A \o B
    BY <1>1, <1>2, <1>3
  <2> HIDE DEF A, B, C
  <2>2. /\ C \in Seq(Int) /\ Len(C) = Len(A) + Len(B)
        /\ \A q \in 1..Len(A) : C[q] = A[q]
        /\ \A q \in 1..Len(B) : C[Len(A) + q] = B[q]
    BY <2>1, TwoParts
  <2> QED
    BY <2>2 DEF A, B, C
<1>6. Len(All(n)) \in Nat
  BY <1>2
<1> QED
  BY <1>2, <1>3, <1>4, <1>5, <1>6 DEF Off

LEMMA AllZero == All(0) = <<>> /\ Off(0) = 0
<1>1. Enc(0) = <<>>
  BY DEF Enc
<1> QED
  BY <1>1, FlattenEmpty DEF All, Off

\* The wire is the bytes of the events, in order; the first n are a prefix of it.
OnWire ==
    /\ ends \in LineEnds /\ sent \in Seq(Events)
    /\ wire = All(Len(sent))
    /\ \A n \in 0..Len(sent) :
          Off(n) <= Len(wire) /\ \A q \in 1..Off(n) : wire[q] = All(n)[q]

LEMMA WireAt ==
    ASSUME OnWire, NEW m \in 1..Len(sent)
    PROVE  /\ Off(m - 1) \in Nat /\ Off(m) = Off(m - 1) + Len(Bytes(m)) /\ Off(m) <= Len(wire)
           /\ \A q \in 1..Len(Bytes(m)) : wire[Off(m - 1) + q] = Bytes(m)[q]
           /\ Off(m) < Len(wire) => wire[Off(m) + 1] \notin Breaks
<1> DEFINE n == m - 1
<1>1. n \in Nat /\ n + 1 = m /\ m \in 0..Len(sent) /\ m \in Nat /\ ends \in LineEnds
      /\ Len(sent) \in Nat
  BY DEF OnWire
<1> HIDE DEF n
<1>2. /\ Off(n) \in Nat /\ Off(m) = Off(n) + Len(Bytes(m)) /\ All(m) \in Seq(Int)
      /\ \A q \in 1..Len(Bytes(m)) : All(m)[Off(n) + q] = Bytes(m)[q]
  BY <1>1, AllStep
<1>3. Bytes(m) \in Seq(Int) /\ Len(Bytes(m)) \in Nat
  BY <1>1, BytesType DEF Bytes
<1>4. Off(m) <= Len(wire) /\ \A q \in 1..Off(m) : wire[q] = All(m)[q]
  BY <1>1 DEF OnWire
<1>5. ASSUME NEW q \in 1..Len(Bytes(m)) PROVE wire[Off(n) + q] = Bytes(m)[q]
  <2>1. Off(n) + q \in 1..Off(m)
    BY <1>2, <1>3
  <2> QED
    BY <1>2, <1>4, <2>1
<1>6. ASSUME Off(m) < Len(wire) PROVE wire[Off(m) + 1] \notin Breaks
  <2>1. m # Len(sent)
    <3>1. m = Len(sent) => Off(m) = Len(wire) /\ Len(wire) \in Nat
      BY <1>2 DEF OnWire, Off
    <3> QED
      BY <1>6, <3>1
  <2>2. m + 1 \in 0..Len(sent)
    BY <1>1, <2>1
  <2>3. /\ Off(m) \in Nat /\ Off(m + 1) = Off(m) + Len(Bytes(m + 1))
        /\ \A q \in 1..Len(Bytes(m + 1)) : All(m + 1)[Off(m) + q] = Bytes(m + 1)[q]
    BY <1>1, AllStep
  <2>4. /\ Bytes(m + 1) \in Seq(Int) /\ Len(Bytes(m + 1)) > 0 /\ Bytes(m + 1)[1] \notin Breaks
        /\ Len(Bytes(m + 1)) \in Nat
    BY <1>1, BytesType DEF Bytes
  <2>5. \A q \in 1..Off(m + 1) : wire[q] = All(m + 1)[q]
    BY <2>2 DEF OnWire
  <2>6. 1 \in 1..Len(Bytes(m + 1)) /\ Off(m) + 1 \in 1..Off(m + 1)
    BY <2>3, <2>4
  <2> QED
    BY <2>3, <2>4, <2>5, <2>6
<1> QED
  BY <1>2, <1>4, <1>5, <1>6 DEF n

LEMMA OffMono ==
    ASSUME ends \in LineEnds, NEW k \in Nat
    PROVE  \A i \in 0..k : Off(i) \in Nat /\ Off(i) <= Off(k) /\ (i < k => Off(i) < Off(k))
<1> DEFINE T == {n \in Nat : \A i \in 0..n :
                    Off(i) \in Nat /\ Off(i) <= Off(n) /\ (i < n => Off(i) < Off(n))}
<1>1. 0 \in T
  BY AllZero
<1>2. ASSUME NEW n \in T PROVE n + 1 \in T
  <2>1. Off(n) \in Nat /\ Off(n) < Off(n + 1) /\ Off(n + 1) \in Nat
    BY AllStep
  <2>2. \A i \in 0..n : Off(i) \in Nat /\ Off(i) <= Off(n)
    OBVIOUS
  <2>3. \A i \in 0..(n + 1) :
           Off(i) \in Nat /\ Off(i) <= Off(n + 1) /\ (i < n + 1 => Off(i) < Off(n + 1))
    <3> SUFFICES ASSUME NEW i \in 0..(n + 1)
                 PROVE  Off(i) \in Nat /\ Off(i) <= Off(n + 1) /\ (i < n + 1 => Off(i) < Off(n + 1))
      OBVIOUS
    <3>1. CASE i = n + 1
      BY <2>1, <3>1
    <3>2. CASE i \in 0..n
      BY <2>1, <2>2, <3>2
    <3>3. i = n + 1 \/ i \in 0..n
      OBVIOUS
    <3> QED
      BY <3>1, <3>2, <3>3
  <2> QED
    BY <2>3
<1> HIDE DEF T
<1>3. T \in SUBSET Nat
  BY DEF T
<1>4. T = Nat
  BY <1>1, <1>2, <1>3, Induct
<1> QED
  BY <1>4 DEF T

LEMMA OffBefore ==
    ASSUME OnWire, NEW k \in 0..Len(sent)
    PROVE  /\ Off(k) \in Nat /\ Len(wire) \in Nat /\ Off(k) <= Len(wire)
           /\ Off(k) < Len(wire) => k + 1 \in 1..Len(sent)
           /\ \A i \in 1..k : Off(i) \in Nat /\ Off(i) <= Off(k)
<1>1. Len(sent) \in Nat /\ ends \in LineEnds /\ k \in Nat
  BY DEF OnWire
<1>2. /\ Off(Len(sent)) = Len(wire) /\ \A i \in 0..Len(sent) : Off(i) \in Nat
      /\ \A i \in 0..k : Off(i) \in Nat /\ Off(i) <= Off(k)
  BY <1>1, OffMono DEF OnWire, Off
<1>3. Off(k) <= Len(wire)
  BY DEF OnWire
<1>4. Off(Len(sent)) \in Nat /\ Off(k) \in Nat
  BY <1>1, <1>2
<1>5. ASSUME Off(k) < Len(wire) PROVE k + 1 \in 1..Len(sent)
  <2>1. k # Len(sent)
    BY <1>2, <1>4, <1>5
  <2> QED
    BY <1>1, <2>1
<1> QED
  BY <1>2, <1>3, <1>4, <1>5

-----------------------------------------------------------------------------
(* One turn of the parser's loop. *)

\* The i-th event as the parser gives it.
Ev(i) == [raw |-> Bytes(i), data |-> IF sent[i].t = "comment" THEN None ELSE i]

OfWire(text) ==
    /\ text \in Seq(Int) /\ Len(text) <= Len(wire)
    /\ \A q \in 1..Len(text) : text[q] = wire[q]

\* Up to a place, the ends of events in a text are those of the first k sent.
EndsUpTo(text, k, a) == \A b \in 1..a : b \in EventEnds(text) <=> \E i \in 1..k : b = Off(i)

\* A parser that has dispatched the first k events of the text received.
AtEvent(k, p, text) ==
    /\ k \in 0..Len(sent)
    /\ Holds(p, text, Off(k)) /\ OfWire(text)
    /\ Starts(text, Off(k) + p.scan)
    /\ AtLine(k + 1, p.scan, p.data)
    /\ EndsUpTo(text, k, Off(k) + p.scan)

LEMMA AtLineData ==
    ASSUME NEW m \in Nat, NEW scan, NEW data, AtLine(m, scan, data)
    PROVE  data \in Seq(Int)
<1>1. Datum(m) \in Seq(Int)
  BY DEF Datum
<1>2. <<>> \in Seq(Int)
  OBVIOUS
<1> QED
  BY <1>1, <1>2, Zenon DEF AtLine

\* What is known of the line that a parser finds.
LEMMA LineAhead ==
    ASSUME OnWire, NEW k, NEW p, NEW text, AtEvent(k, p, text),
           NEW i \in Nat, NEW n \in Nat, LineIn(p, i, n)
    PROVE  /\ k \in Nat /\ k + 1 \in 1..Len(sent) /\ BufferOf(p, k + 1)
           /\ \E a, x : /\ Line(k + 1, p.scan, a, x) /\ Leads(k + 1, p.scan, p.data, a, x)
                        /\ i = p.scan + a + 1 /\ n = p.scan + a + Len(x)
<1> DEFINE m == k + 1
<1>1. /\ k \in 0..Len(sent) /\ Holds(p, text, Off(k)) /\ OfWire(text) /\ IsParser(p)
      /\ AtLine(m, p.scan, p.data) /\ ends \in LineEnds /\ Len(sent) \in Nat
  BY DEF AtEvent, OnWire, Holds
<1>2. /\ Len(p.buffer) \in Nat /\ Len(text) \in Nat /\ Len(p.buffer) + Off(k) = Len(text)
      /\ \A q \in 1..Len(p.buffer) : p.buffer[q] = text[Off(k) + q]
      /\ Len(text) <= Len(wire) /\ \A q \in 1..Len(text) : text[q] = wire[q]
      /\ p.scan \in Nat
  BY <1>1 DEF Holds, IsParser, Parsers, OfWire
<1>3. Off(k) \in Nat /\ Len(wire) \in Nat /\ (Off(k) < Len(wire) => m \in 1..Len(sent))
  BY <1>1, OffBefore
<1>4. Len(p.buffer) > 0
  BY <1>2 DEF LineIn
<1>5. m \in 1..Len(sent)
  BY <1>2, <1>3, <1>4
<1>6. /\ Off(m) = Off(k) + Len(Bytes(m))
      /\ \A q \in 1..Len(Bytes(m)) : wire[Off(k) + q] = Bytes(m)[q]
      /\ Off(m) < Len(wire) => wire[Off(m) + 1] \notin Breaks
  <2>1. m - 1 = k
    BY <1>1
  <2> QED
    BY <1>5, <2>1, WireAt
<1>7. Len(Bytes(m)) \in Nat
  BY <1>1, <1>5, BytesType DEF Bytes
<1>8. \A q \in 1..Len(p.buffer) : p.buffer[q] = wire[Off(k) + q]
  <2> SUFFICES ASSUME NEW q \in 1..Len(p.buffer) PROVE p.buffer[q] = wire[Off(k) + q]
    OBVIOUS
  <2>1. Off(k) + q \in 1..Len(text)
    BY <1>2, <1>3
  <2> QED
    BY <1>2, <2>1
<1>9. BufferOf(p, m)
  <2>1. ASSUME NEW q \in 1..Len(p.buffer), q <= Len(Bytes(m)) PROVE p.buffer[q] = Bytes(m)[q]
    <3>1. q \in 1..Len(Bytes(m))
      BY <1>7, <2>1
    <3> QED
      BY <1>6, <1>8, <3>1
  <2>2. ASSUME Len(p.buffer) > Len(Bytes(m)) PROVE p.buffer[Len(Bytes(m)) + 1] \notin Breaks
    <3>1. /\ Len(Bytes(m)) + 1 \in 1..Len(p.buffer) /\ Off(m) < Len(wire)
          /\ Off(k) + (Len(Bytes(m)) + 1) = Off(m) + 1
      BY <1>2, <1>3, <1>6, <1>7, <2>2, SMTT(20)
    <3> QED
      BY <1>6, <1>8, <3>1
  <2> QED
    BY <2>1, <2>2 DEF BufferOf
<1>10. m \in Nat /\ m > 0
  BY <1>1
<1>11. PICK a, x : Line(m, p.scan, a, x) /\ Leads(m, p.scan, p.data, a, x)
  BY <1>1, <1>10, LineOf
<1>12. i = p.scan + a + 1 /\ n = p.scan + a + Len(x)
  BY <1>1, <1>9, <1>10, <1>11, LineFound
<1> QED
  BY <1>1, <1>5, <1>9, <1>11, <1>12

\* The line found, and the parser after it.
LineText(p, i) == SubSeq(p.buffer, p.scan + 1, i - 1)
Moved(p, n) == [p EXCEPT !.scan = n]
AfterField(p, i, n) == [Moved(p, n) EXCEPT !.data = ParseField(@, LineText(p, i))]

LEMMA MovedIs ==
    ASSUME NEW p \in Parsers, NEW n
    PROVE  Moved(p, n) = [buffer |-> p.buffer, scan |-> n, data |-> p.data]
  BY SMTT(20) DEF Moved, Parsers

LEMMA AfterFieldIs ==
    ASSUME NEW p \in Parsers, NEW i, NEW n
    PROVE  AfterField(p, i, n) = [buffer |-> p.buffer, scan |-> n,
                                  data |-> ParseField(p.data, LineText(p, i))]
<1>1. Moved(p, n) = [buffer |-> p.buffer, scan |-> n, data |-> p.data]
  BY MovedIs
<1>2. AfterField(p, i, n) = [Moved(p, n) EXCEPT !.data = ParseField(@, LineText(p, i))]
  BY Zenon DEF AfterField
<1>3. [Moved(p, n) EXCEPT !.data = ParseField(@, LineText(p, i))]
      = [buffer |-> p.buffer, scan |-> n, data |-> ParseField(p.data, LineText(p, i))]
  <2> DEFINE r == Moved(p, n)
             line == LineText(p, i)
             b == p.buffer
             d == p.data
  <2>1. r = [buffer |-> b, scan |-> n, data |-> d]
    BY <1>1
  <2> HIDE DEF r, line, b, d
  <2>2. [r EXCEPT !.data = ParseField(@, line)]
        = [buffer |-> b, scan |-> n, data |-> ParseField(d, line)]
    BY <2>1
  <2> QED
    BY <2>2 DEF r, line, b, d
<1> QED
  BY <1>2, <1>3, Zenon

\* A part of a sequence, token by token.
LEMMA PartOf ==
    ASSUME NEW s \in Seq(Int), NEW c \in Nat, NEW a \in Nat, c + a <= Len(s)
    PROVE  /\ SubSeq(s, c + 1, c + a) \in Seq(Int) /\ Len(SubSeq(s, c + 1, c + a)) = a
           /\ \A j \in 1..a : SubSeq(s, c + 1, c + a)[j] = s[c + j]
  OBVIOUS

LEMMA SameParts ==
    ASSUME NEW s \in Seq(Int), NEW t \in Seq(Int), NEW c \in Nat, NEW a \in Nat,
           c + a <= Len(s), c + a <= Len(t), \A j \in 1..Len(s) : j <= Len(t) => s[j] = t[j]
    PROVE  SubSeq(s, c + 1, c + a) = SubSeq(t, c + 1, c + a)
<1> DEFINE u == SubSeq(s, c + 1, c + a)
           v == SubSeq(t, c + 1, c + a)
<1>1. u \in Seq(Int) /\ Len(u) = a /\ \A j \in 1..a : u[j] = s[c + j]
  BY PartOf
<1>2. v \in Seq(Int) /\ Len(v) = a /\ \A j \in 1..a : v[j] = t[c + j]
  BY PartOf
<1> HIDE DEF u, v
<1>3. ASSUME NEW j \in 1..a PROVE u[j] = v[j]
  <2>1. c + j \in 1..Len(s) /\ c + j <= Len(t)
    OBVIOUS
  <2> QED
    BY <1>1, <1>2, <2>1
<1>4. u = v
  BY <1>1, <1>2, <1>3, SeqEqual
<1> QED
  BY <1>4 DEF u, v

\* A line of fields leaves the parser at the same event.
LEMMA FieldStep ==
    ASSUME OnWire, NEW k, NEW p, NEW text, AtEvent(k, p, text),
           NEW i \in Nat, NEW n \in Nat, LineIn(p, i, n), i # p.scan + 1
    PROVE  LineText(p, i) # <<>> /\ AtEvent(k, AfterField(p, i, n), text)
<1> DEFINE line == LineText(p, i)
           r == AfterField(p, i, n)
<1> HIDE DEF line, r
<1>1. /\ k \in 0..Len(sent) /\ Holds(p, text, Off(k)) /\ OfWire(text) /\ IsParser(p)
      /\ Starts(text, Off(k) + p.scan) /\ EndsUpTo(text, k, Off(k) + p.scan)
      /\ k \in Nat /\ k + 1 \in 1..Len(sent) /\ BufferOf(p, k + 1)
  BY LineAhead DEF AtEvent, Holds
<1>2. PICK a, x : /\ Line(k + 1, p.scan, a, x) /\ Leads(k + 1, p.scan, p.data, a, x)
                  /\ i = p.scan + a + 1 /\ n = p.scan + a + Len(x)
  BY LineAhead
<1>3. /\ p.scan \in Nat /\ p.buffer \in Seq(Int) /\ Len(p.buffer) \in Nat /\ p.data \in Seq(Int)
      /\ Len(p.buffer) + Off(k) = Len(text) /\ Off(k) \in Nat
      /\ \A q \in 1..Len(p.buffer) : p.buffer[q] = text[Off(k) + q]
  BY <1>1 DEF Holds, IsParser, Parsers
<1>4. a \in Nat /\ a > 0 /\ p.scan + a + Len(x) <= Len(Bytes(k + 1)) /\ Len(x) \in 1..2
  <2>1. a \in Nat /\ x \in Endings /\ p.scan + a + Len(x) <= Len(Bytes(k + 1))
    BY <1>2 DEF Line
  <2>2. Len(x) \in 1..2
    BY <2>1, EndingsAre
  <2> QED
    BY <1>2, <1>3, <2>1, <2>2
<1>5. i \in (p.scan + 1)..Len(p.buffer) /\ n \in i..Len(p.buffer)
  BY DEF LineIn
<1>6. i - 1 = p.scan + a /\ p.scan + a <= Len(p.buffer)
  <2>1. i = p.scan + a + 1 /\ i <= Len(p.buffer)
    BY <1>2, <1>3, <1>5
  <2>2. p.scan \in Nat /\ a \in Nat /\ Len(p.buffer) \in Nat
    BY <1>3, <1>4
  <2> QED
    BY <2>1, <2>2
<1>b. line = SubSeq(p.buffer, p.scan + 1, p.scan + a)
  BY <1>6, Zenon DEF line, LineText
<1>a. line # <<>>
  <2>1. Len(SubSeq(p.buffer, p.scan + 1, p.scan + a)) = a
    BY <1>3, <1>4, <1>6, PartOf, ZenonT(40)
  <2>2. Len(line) = a
    BY <1>b, <2>1, Zenon
  <2>3. Len(line) # 0
    BY <1>4, <2>2
  <2>4. Len(<<>>) = 0
    OBVIOUS
  <2> QED
    BY <2>3, <2>4, Zenon
<1>7. line = SubSeq(Bytes(k + 1), p.scan + 1, p.scan + a)
  <2> DEFINE E == Bytes(k + 1)
  <2>1. E \in Seq(Int) /\ Len(E) \in Nat /\ E = Bytes(k + 1)
    BY <1>1, BytesType DEF Bytes, OnWire
  <2> HIDE DEF E
  <2>2. p.scan + a <= Len(E)
    BY <1>3, <1>4, <2>1
  <2>3. \A q \in 1..Len(p.buffer) : q <= Len(E) => p.buffer[q] = E[q]
    BY <1>1, <2>1 DEF BufferOf
  <2>4. SubSeq(p.buffer, p.scan + 1, p.scan + a) = SubSeq(E, p.scan + 1, p.scan + a)
    <3>1. p.buffer \in Seq(Int) /\ p.scan \in Nat /\ a \in Nat
      BY <1>3, <1>4
    <3> QED
      BY <1>6, <2>1, <2>2, <2>3, <3>1, SameParts, ZenonT(40)
  <2> QED
    BY <1>b, <2>1, <2>4, Zenon
<1>c. /\ r.buffer = p.buffer /\ r.scan = n /\ r.data = ParseField(p.data, line)
      /\ r = [buffer |-> r.buffer, scan |-> r.scan, data |-> r.data]
  <2>1. p \in Parsers
    BY <1>1 DEF IsParser
  <2>2. r = [buffer |-> p.buffer, scan |-> n, data |-> ParseField(p.data, line)]
    BY <2>1, AfterFieldIs, Zenon DEF r, line
  <2> QED
    BY <2>2
<1>8. AtLine(k + 1, n, r.data)
  <2>1. AtLine(k + 1, p.scan + a + Len(x), ParseField(p.data, SubSeq(Bytes(k + 1), p.scan + 1, p.scan + a)))
    BY <1>2, <1>4 DEF Leads
  <2> QED
    BY <1>2, <1>7, <1>c, <2>1
<1>9. r \in Parsers /\ IsParser(r)
  <2>1. r.data \in Seq(Int)
    BY <1>1, <1>8, AtLineData
  <2> QED
    BY <1>3, <1>5, <1>c, <2>1 DEF Parsers, IsParser
<1>10. Holds(r, text, Off(k))
  BY <1>1, <1>3, <1>9, <1>c DEF Holds
<1>11. /\ Off(k) + n \in BreakEnds(text)
       /\ \A b \in BreakEnds(text) : b <= Off(k) + p.scan \/ Off(k) + n <= b
       /\ ~(Off(k) + n \in EventEnds(text))
  BY <1>1, LineBreaks
<1>12. Starts(text, Off(k) + n)
  BY <1>3, <1>11 DEF Starts
<1>13. EndsUpTo(text, k, Off(k) + n)
  <2> SUFFICES ASSUME NEW b \in 1..(Off(k) + n)
               PROVE  b \in EventEnds(text) <=> \E j \in 1..k : b = Off(j)
    BY DEF EndsUpTo
  <2>1. CASE b \in 1..(Off(k) + p.scan)
    BY <1>1, <2>1 DEF EndsUpTo
  <2>2. CASE b \notin 1..(Off(k) + p.scan)
    <3>1. b \in Nat /\ ~(b <= Off(k) + p.scan)
      BY <1>3, <2>2
    <3>2. b \in EventEnds(text) => b \in BreakEnds(text)
      BY EventEndsAre
    <3>3. b \notin EventEnds(text)
      BY <1>3, <1>11, <3>1, <3>2
    <3>4. \A j \in 1..k : Off(j) \in Nat /\ Off(j) <= Off(k)
      BY <1>1, OffBefore
    <3>5. \A j \in 1..k : b # Off(j)
      <4> SUFFICES ASSUME NEW j \in 1..k, b = Off(j) PROVE FALSE
        OBVIOUS
      <4> QED
        BY <1>3, <3>1, <3>4
    <3> QED
      BY <3>3, <3>5
  <2> QED
    BY <2>1, <2>2
<1>14. AtEvent(k, r, text)
  BY <1>1, <1>8, <1>10, <1>12, <1>13, <1>c, Zenon DEF AtEvent
<1> QED
  BY <1>a, <1>14 DEF line, r

\* A blank line dispatches the event and leaves the parser at the next.
LEMMA BlankStep ==
    ASSUME OnWire, NEW k, NEW p, NEW text, AtEvent(k, p, text),
           NEW i \in Nat, NEW n \in Nat, LineIn(p, i, n), i = p.scan + 1
    PROVE  /\ LineText(p, i) = <<>> /\ Dispatch(Moved(p, n)) = Ev(k + 1)
           /\ AtEvent(k + 1, AfterDispatch(Moved(p, n)), text)
<1> DEFINE q == Moved(p, n)
<1> HIDE DEF q
<1>1. /\ k \in 0..Len(sent) /\ Holds(p, text, Off(k)) /\ OfWire(text) /\ IsParser(p)
      /\ Starts(text, Off(k) + p.scan) /\ EndsUpTo(text, k, Off(k) + p.scan)
      /\ k \in Nat /\ k + 1 \in 1..Len(sent) /\ BufferOf(p, k + 1)
  BY LineAhead DEF AtEvent, Holds
<1>2. PICK a, x : /\ Line(k + 1, p.scan, a, x) /\ Leads(k + 1, p.scan, p.data, a, x)
                  /\ i = p.scan + a + 1 /\ n = p.scan + a + Len(x)
  BY LineAhead
<1>3. /\ p.scan \in Nat /\ p.buffer \in Seq(Int) /\ Len(p.buffer) \in Nat /\ p.data \in Seq(Int)
      /\ Len(p.buffer) + Off(k) = Len(text) /\ Off(k) \in Nat /\ text \in Seq(Int)
      /\ \A j \in 1..Len(p.buffer) : p.buffer[j] = text[Off(k) + j]
  BY <1>1, SMTT(20) DEF Holds, IsParser, Parsers
<1>4. a = 0
  <2>1. a \in Nat
    BY <1>2 DEF Line
  <2> QED
    BY <1>2, <1>3, <2>1
<1>5. n = Len(Bytes(k + 1)) /\ p.data = Datum(k + 1)
  <2>1. p.scan + Len(x) = Len(Bytes(k + 1)) /\ p.data = Datum(k + 1)
    BY <1>2, <1>4 DEF Leads
  <2>2. Len(x) \in Nat
    BY <1>2, EndingsAre DEF Line
  <2> QED
    BY <1>2, <1>3, <1>4, <2>1, <2>2
<1>6. n \in 1..Len(p.buffer)
  BY <1>3 DEF LineIn
<1>7. LineText(p, i) = <<>>
  <2>1. i - 1 = p.scan + 0 /\ p.scan + 0 <= Len(p.buffer) /\ 0 \in Nat
    BY <1>1, <1>3 DEF IsParser
  <2>2. Len(SubSeq(p.buffer, p.scan + 1, p.scan + 0)) = 0
        /\ SubSeq(p.buffer, p.scan + 1, p.scan + 0) \in Seq(Int)
    BY <1>3, <2>1, PartOf
  <2>3. LineText(p, i) = SubSeq(p.buffer, p.scan + 1, p.scan + 0)
    BY <2>1, Zenon DEF LineText
  <2>4. LineText(p, i) \in Seq(Int) /\ Len(LineText(p, i)) = 0
    BY <2>2, <2>3, Zenon
  <2> QED
    BY <2>4
<1>8. SubSeq(p.buffer, 1, n) = Bytes(k + 1)
  <2> DEFINE E == Bytes(k + 1)
  <2>1. E \in Seq(Int) /\ Len(E) = n /\ E = Bytes(k + 1)
    BY <1>1, <1>5, BytesType DEF Bytes, OnWire
  <2> HIDE DEF E
  <2>2. \A j \in 1..Len(p.buffer) : j <= Len(E) => p.buffer[j] = E[j]
    BY <1>1, <2>1 DEF BufferOf
  <2>3. SubSeq(p.buffer, 0 + 1, 0 + n) = SubSeq(E, 0 + 1, 0 + n)
    <3>1. 0 \in Nat /\ n \in Nat /\ 0 + n <= Len(E) /\ 0 + n <= Len(p.buffer)
      BY <1>6, <2>1
    <3> QED
      BY <1>3, <2>1, <2>2, <3>1, SameParts, SMTT(20)
  <2>4. SubSeq(E, 1, n) = E
    BY <2>1
  <2>5. 0 + 1 = 1 /\ 0 + n = n
    OBVIOUS
  <2> QED
    BY <2>1, <2>3, <2>4, <2>5
<1>d. /\ q.buffer = p.buffer /\ q.scan = n /\ q.data = p.data
      /\ q = [buffer |-> p.buffer, scan |-> n, data |-> p.data]
  <2>1. p \in Parsers
    BY <1>1 DEF IsParser
  <2>2. q = [buffer |-> p.buffer, scan |-> n, data |-> p.data]
    BY <2>1, MovedIs, Zenon DEF q
  <2> QED
    BY <2>2
<1>9. Dispatch(q) = Ev(k + 1)
  <2>1. q.buffer = p.buffer /\ q.scan = n /\ q.data = Datum(k + 1)
    BY <1>5, <1>d
  <2>2. (IF Datum(k + 1) = <<>> THEN None ELSE Datum(k + 1)[1])
        = (IF sent[k + 1].t = "comment" THEN None ELSE k + 1)
    BY DEF Datum
  <2> QED
    BY <1>8, <2>1, <2>2, Zenon DEF Dispatch, Ev
<1> DEFINE r == [buffer |-> SubSeq(p.buffer, n + 1, Len(p.buffer)), scan |-> 0, data |-> <<>>]
<1>10. AfterDispatch(q) = r
  BY <1>d, Zenon DEF AfterDispatch
<1>11. /\ Off(k + 1) = Off(k) + n /\ Off(k + 1) \in Nat
  <2>1. Off(k + 1) = Off(k) + Len(Bytes(k + 1))
    BY <1>1, AllStep DEF OnWire
  <2> QED
    BY <1>3, <1>5, <2>1
<1>12. /\ r.buffer \in Seq(Int) /\ Len(r.buffer) = Len(p.buffer) - n
       /\ \A j \in 1..Len(r.buffer) : r.buffer[j] = p.buffer[n + j]
       /\ r.scan = 0 /\ r.data = <<>>
  <2> DEFINE a1 == Len(p.buffer) - n
  <2>1. a1 \in Nat /\ n \in Nat /\ n + a1 = Len(p.buffer)
    BY <1>3, <1>6
  <2> HIDE DEF a1
  <2>2. /\ SubSeq(p.buffer, n + 1, n + a1) \in Seq(Int)
        /\ Len(SubSeq(p.buffer, n + 1, n + a1)) = a1
        /\ \A j \in 1..a1 : SubSeq(p.buffer, n + 1, n + a1)[j] = p.buffer[n + j]
    <3>1. n + a1 <= Len(p.buffer) /\ p.buffer \in Seq(Int)
      BY <1>3, <2>1
    <3>2. n \in Nat /\ a1 \in Nat
      BY <2>1
    <3> QED
      BY <3>1, <3>2, PartOf, Zenon
  <2>3. r.buffer = SubSeq(p.buffer, n + 1, n + a1) /\ r.scan = 0 /\ r.data = <<>>
    BY <2>1
  <2> HIDE DEF r
  <2>4. Len(r.buffer) = a1 /\ r.buffer \in Seq(Int) /\ \A j \in 1..a1 : r.buffer[j] = p.buffer[n + j]
    BY <2>2, <2>3, Zenon
  <2> QED
    BY <2>3, <2>4, Zenon DEF a1
<1>13. IsParser(r)
  <2>1. r \in Parsers
    <3>1. r.buffer \in Seq(Int) /\ 0 \in Nat /\ <<>> \in Seq(Int)
      BY <1>12
    <3>2. r = [buffer |-> r.buffer, scan |-> 0, data |-> <<>>]
      BY <1>12
    <3> QED
      BY <3>1, <3>2 DEF Parsers
  <2> QED
    BY <1>12, <2>1 DEF IsParser
<1> HIDE DEF r
<1>14. Holds(r, text, Off(k + 1))
  <2>1. Len(r.buffer) + Off(k + 1) = Len(text)
    BY <1>3, <1>11, <1>12
  <2>2. ASSUME NEW j \in 1..Len(r.buffer) PROVE r.buffer[j] = text[Off(k + 1) + j]
    <3>1. n + j \in 1..Len(p.buffer) /\ Off(k) + (n + j) = Off(k + 1) + j
      BY <1>3, <1>6, <1>11, <1>12
    <3>2. p.buffer[n + j] = text[Off(k) + (n + j)]
      BY <1>3, <3>1
    <3> QED
      BY <1>12, <3>1, <3>2
  <2> QED
    BY <1>3, <1>11, <1>13, <2>1, <2>2 DEF Holds
<1>15. /\ Off(k) + n \in BreakEnds(text)
       /\ \A b \in BreakEnds(text) : b <= Off(k) + p.scan \/ Off(k) + n <= b
       /\ Off(k) + n \in EventEnds(text)
  BY <1>1, LineBreaks
<1>16. Off(k + 1) + r.scan = Off(k + 1)
  BY <1>11, <1>12
<1>17. Starts(text, Off(k + 1) + r.scan)
  BY <1>11, <1>15, <1>16 DEF Starts
<1>18. EndsUpTo(text, k + 1, Off(k + 1) + r.scan)
  <2> SUFFICES ASSUME NEW b \in 1..Off(k + 1)
               PROVE  b \in EventEnds(text) <=> \E j \in 1..(k + 1) : b = Off(j)
    BY <1>16 DEF EndsUpTo
  <2>0. \A j \in 1..k : Off(j) \in Nat /\ Off(j) <= Off(k)
    BY <1>1, OffBefore
  <2>1. CASE b \in 1..(Off(k) + p.scan)
    <3>1. b \in EventEnds(text) <=> \E j \in 1..k : b = Off(j)
      BY <1>1, <2>1 DEF EndsUpTo
    <3>2. b # Off(k + 1)
      BY <1>2, <1>3, <1>11, <1>15, <2>1 DEF LineIn
    <3> QED
      BY <1>1, <3>1, <3>2
  <2>2. CASE b = Off(k + 1)
    <3>1. b \in EventEnds(text) /\ k + 1 \in 1..(k + 1)
      BY <1>1, <1>11, <1>15, <2>2
    <3> QED
      BY <2>2, <3>1
  <2>3. CASE b \notin 1..(Off(k) + p.scan) /\ b # Off(k + 1)
    <3>0. b \in 1..(Off(k) + n) /\ b # Off(k) + n
      BY <1>11, <2>3, Zenon
    <3>a. Off(k) + p.scan \in Nat /\ Off(k) + n \in Nat
      BY <1>3
    <3>1. b \in Nat /\ ~(b <= Off(k) + p.scan) /\ b < Off(k) + n
      BY <2>3, <3>0, <3>a
    <3>2. b \in EventEnds(text) => b \in BreakEnds(text)
      BY EventEndsAre
    <3>3. b \notin EventEnds(text)
      BY <1>3, <1>6, <1>15, <3>1, <3>2
    <3>4. \A j \in 1..k : b # Off(j)
      <4> SUFFICES ASSUME NEW j \in 1..k, b = Off(j) PROVE FALSE
        OBVIOUS
      <4> QED
        BY <1>3, <2>0, <3>1, SMTT(20)
    <3> QED
      BY <1>1, <2>3, <3>3, <3>4
  <2> QED
    BY <2>1, <2>2, <2>3
<1>19. AtLine(k + 1 + 1, r.scan, r.data)
  BY <1>12 DEF AtLine
<1>20. k + 1 \in 0..Len(sent)
  BY <1>1
<1>21. AtEvent(k + 1, r, text)
  BY <1>1, <1>14, <1>17, <1>18, <1>19, <1>20, Zenon DEF AtEvent
<1> QED
  BY <1>7, <1>9, <1>10, <1>21, Zenon DEF q

-----------------------------------------------------------------------------
(* feed(). *)

Evs == {Ev(i) : i \in Nat}

\* A state of the loop that started with k events dispatched.
TurnInv(k, s, text) ==
    /\ k \in Nat /\ s = [parser |-> s.parser, events |-> s.events]
    /\ s.events \in Seq(Evs) /\ \A j \in 1..Len(s.events) : s.events[j] = Ev(k + j)
    /\ AtEvent(k + Len(s.events), s.parser, text)

\* The tokens still to be scanned.
Rest(s) == Len(s.parser.buffer) - s.parser.scan

LEMMA RestType ==
    ASSUME NEW k, NEW s, NEW text, TurnInv(k, s, text)
    PROVE  Rest(s) \in Nat /\ s.parser \in Parsers /\ IsParser(s.parser)
  BY DEF TurnInv, AtEvent, Holds, IsParser, Parsers, Rest

\* Each turn takes tokens or finds no line.
LEMMA TakeLineKeeps ==
    ASSUME OnWire, NEW k, NEW s, NEW text, TurnInv(k, s, text)
    PROVE  /\ TurnInv(k, TakeLine(s), text)
           /\ \/ NextLine(s.parser) = None /\ TakeLine(s) = s
              \/ NextLine(s.parser) # None /\ Rest(TakeLine(s)) < Rest(s)
<1> DEFINE p == s.parser
           e == k + Len(s.events)
<1>1. /\ k \in Nat /\ s = [parser |-> p, events |-> s.events] /\ s.events \in Seq(Evs)
      /\ \A j \in 1..Len(s.events) : s.events[j] = Ev(k + j)
      /\ AtEvent(e, p, text)
  BY DEF TurnInv
<1>2. IsParser(p) /\ p \in Parsers /\ p.scan \in Nat /\ Len(p.buffer) \in Nat
      /\ p.buffer \in Seq(Int)
  BY RestType DEF IsParser, Parsers
<1>3. e \in Nat /\ Len(s.events) \in Nat
  BY <1>1
<1>4. CASE NextLine(p) = None
  <2>1. TakeLine(s) = s
    BY <1>4, Zenon DEF TakeLine
  <2> QED
    BY <1>4, <2>1
<1>5. CASE NextLine(p) # None
  <2>1. PICK i \in Nat, n \in Nat : NextLine(p) = [end |-> i - 1, next |-> n] /\ LineIn(p, i, n)
    BY <1>2, <1>5, NextLineFinds
  <2> DEFINE b == NextLine(p)
  <2>2. b.end = i - 1 /\ b.next = n /\ b # None
    BY <1>5, <2>1
  <2> HIDE DEF p, e
  <2>3. TakeLine(s) =
           IF LineText(p, i) # <<>> THEN [s EXCEPT !.parser = AfterField(p, i, n)]
           ELSE [parser |-> AfterDispatch(Moved(p, n)),
                 events |-> Append(s.events, Dispatch(Moved(p, n)))]
    <3>1. TakeLine(s) =
             IF b = None THEN s
             ELSE IF SubSeq(p.buffer, p.scan + 1, b.end) # <<>>
                  THEN [s EXCEPT !.parser = [[p EXCEPT !.scan = b.next] EXCEPT
                           !.data = ParseField(@, SubSeq(p.buffer, p.scan + 1, b.end))]]
                  ELSE [parser |-> AfterDispatch([p EXCEPT !.scan = b.next]),
                        events |-> Append(s.events, Dispatch([p EXCEPT !.scan = b.next]))]
      BY Zenon DEF TakeLine, p
    <3> HIDE DEF b
    <3> QED
      BY <2>2, <3>1, Zenon DEF LineText, AfterField, Moved
  <2>4. n > p.scan /\ n <= Len(p.buffer)
    BY <1>2, <2>1 DEF LineIn
  <2>5. CASE i # p.scan + 1
    <3> DEFINE t == [s EXCEPT !.parser = AfterField(p, i, n)]
    <3>1. LineText(p, i) # <<>> /\ AtEvent(e, AfterField(p, i, n), text)
      BY <1>1, <2>1, <2>5, FieldStep
    <3>2. TakeLine(s) = t
      BY <2>3, <3>1, Zenon
    <3>3. t = [parser |-> AfterField(p, i, n), events |-> s.events]
      BY <1>1
    <3> HIDE DEF t
    <3>4. t.parser = AfterField(p, i, n) /\ t.events = s.events
          /\ t = [parser |-> t.parser, events |-> t.events]
      BY <3>3
    <3>5. TurnInv(k, t, text)
      BY <1>1, <3>1, <3>4, Zenon DEF TurnInv, e
    <3>6. t.parser.buffer = p.buffer /\ t.parser.scan = n
      BY <1>2, <3>4, AfterFieldIs
    <3>7. Rest(t) < Rest(s)
      <4>1. Rest(t) = Len(p.buffer) - n /\ Rest(s) = Len(p.buffer) - p.scan
        BY <3>6, Zenon DEF Rest, p
      <4> QED
        BY <1>2, <2>4, <4>1
    <3> QED
      BY <1>5, <3>2, <3>5, <3>7 DEF p
  <2>6. CASE i = p.scan + 1
    <3> DEFINE r == AfterDispatch(Moved(p, n))
               d == Dispatch(Moved(p, n))
               t == [parser |-> r, events |-> Append(s.events, d)]
    <3>1. LineText(p, i) = <<>> /\ d = Ev(e + 1) /\ AtEvent(e + 1, r, text)
      BY <1>1, <2>1, <2>6, BlankStep
    <3>2. TakeLine(s) = t
      BY <2>3, <3>1, Zenon
    <3>3. Len(r.buffer) = Len(p.buffer) - n /\ r.scan = 0
      <4>0. Moved(p, n).buffer = p.buffer /\ Moved(p, n).scan = n
        BY <1>2, <2>1, MovedIs
      <4>1. r = [buffer |-> SubSeq(p.buffer, n + 1, Len(p.buffer)), scan |-> 0, data |-> <<>>]
        BY <4>0, Zenon DEF AfterDispatch
      <4> HIDE DEF r
      <4>2. Len(SubSeq(p.buffer, n + 1, Len(p.buffer))) = Len(p.buffer) - n
        BY <1>2, <2>4
      <4> QED
        BY <4>1, <4>2
    <3> HIDE DEF r, d
    <3>4. t.parser = r /\ t.events = Append(s.events, d)
          /\ t = [parser |-> t.parser, events |-> t.events]
      OBVIOUS
    <3>5. d \in Evs /\ d = Ev(k + (Len(s.events) + 1)) /\ e + 1 = k + (Len(s.events) + 1)
      <4>1. e + 1 = k + (Len(s.events) + 1) /\ e + 1 \in Nat
        BY <1>1, <1>3 DEF e
      <4> QED
        BY <3>1, <4>1 DEF Evs
    <3>6. /\ Append(s.events, d) \in Seq(Evs) /\ Len(Append(s.events, d)) = Len(s.events) + 1
          /\ \A j \in 1..Len(s.events) : Append(s.events, d)[j] = s.events[j]
          /\ Append(s.events, d)[Len(s.events) + 1] = d
      BY <1>1, <3>5
    <3>7. ASSUME NEW j \in 1..(Len(s.events) + 1)
          PROVE  Append(s.events, d)[j] = Ev(k + j)
      <4>1. CASE j = Len(s.events) + 1
        BY <3>5, <3>6, <4>1, Zenon
      <4>2. CASE j \in 1..Len(s.events)
        BY <1>1, <3>6, <4>2
      <4>3. j = Len(s.events) + 1 \/ j \in 1..Len(s.events)
        BY <1>3
      <4> QED
        BY <4>1, <4>2, <4>3
    <3> HIDE DEF t
    <3>8. TurnInv(k, t, text)
      <4>1. AtEvent(k + Len(t.events), t.parser, text)
        BY <3>1, <3>4, <3>5, <3>6, Zenon
      <4>2. t.events \in Seq(Evs) /\ \A j \in 1..Len(t.events) : t.events[j] = Ev(k + j)
        BY <3>4, <3>6, <3>7
      <4> QED
        BY <1>1, <3>4, <4>1, <4>2, Zenon DEF TurnInv
    <3>9. Rest(t) < Rest(s)
      <4>1. Rest(t) = (Len(p.buffer) - n) - 0 /\ Rest(s) = Len(p.buffer) - p.scan
        BY <3>3, <3>4, Zenon DEF Rest, p
      <4> QED
        BY <1>2, <2>4, <4>1
    <3> QED
      BY <1>5, <3>2, <3>8, <3>9 DEF p
  <2> QED
    BY <2>5, <2>6
<1> QED
  BY <1>4, <1>5

\* feed() gives the events of the text and stops where no line is complete.
LEMMA FeedKeeps ==
    ASSUME OnWire, NEW k, NEW p \in Parsers, NEW chunk \in Seq(Int), NEW text,
           AtEvent(k, [p EXCEPT !.buffer = p.buffer \o chunk], text)
    PROVE  /\ TurnInv(k, Feed(p, chunk), text)
           /\ NextLine(Feed(p, chunk).parser) = None
<1> DEFINE B == p.buffer \o chunk
           r == [p EXCEPT !.buffer = B]
           s == [parser |-> r, events |-> <<>>]
           N == Len(B)
<1>1. B \in Seq(Int) /\ N \in Nat
  BY DEF Parsers
<1>2. PICK g : g = Turns0(s, N, g) /\ Feed(p, chunk) = g[N]
  BY <1>1, FeedTurns
<1>3. r.buffer = B /\ r.scan = p.scan /\ p.scan \in Nat
  BY DEF Parsers
<1>4. AtEvent(k, r, text)
  OBVIOUS
<1> HIDE DEF B, r
<1>5. s.parser = r /\ s.events = <<>> /\ s = [parser |-> s.parser, events |-> s.events]
  OBVIOUS
<1> HIDE DEF s
<1>6. TurnInv(k, s, text)
  <2>1. k \in Nat
    BY <1>4 DEF AtEvent
  <2>2. k + Len(s.events) = k /\ s.events \in Seq(Evs) /\ Len(s.events) = 0
    BY <1>5, <2>1
  <2>3. \A j \in 1..Len(s.events) : s.events[j] = Ev(k + j)
    BY <2>2
  <2> QED
    BY <1>4, <1>5, <2>1, <2>2, <2>3, Zenon DEF TurnInv
<1>7. Rest(s) <= N
  BY <1>1, <1>3, <1>5 DEF Rest
<1>n. N \in Nat
  BY <1>1
<1> HIDE DEF N
<1>8. g[0] = s /\ \A n \in 1..N : g[n] = TakeLine(g[n - 1])
  <2>1. \A n \in 0..N : g[n] = IF n = 0 THEN s ELSE TakeLine(g[n - 1])
    BY <1>2, Zenon DEF Turns0
  <2> QED
    BY <1>1, <2>1, SMTT(20)
<1> DEFINE T == {n \in Nat : n <= N =>
                    /\ TurnInv(k, g[n], text)
                    /\ NextLine(g[n].parser) = None \/ Rest(g[n]) <= N - n}
<1>9. 0 \in T
  BY <1>1, <1>6, <1>7, <1>8
<1>10. ASSUME NEW n \in T PROVE n + 1 \in T
  <2> SUFFICES ASSUME n + 1 <= N
               PROVE  /\ TurnInv(k, g[n + 1], text)
                      /\ NextLine(g[n + 1].parser) = None \/ Rest(g[n + 1]) <= N - (n + 1)
    OBVIOUS
  <2>1. /\ n \in Nat /\ TurnInv(k, g[n], text)
        /\ NextLine(g[n].parser) = None \/ Rest(g[n]) <= N - n
    BY <1>1
  <2>2. g[n + 1] = TakeLine(g[n])
    <3>0. n \in Nat /\ N \in Nat
      BY <1>n, <2>1
    <3>1. n + 1 \in 1..N /\ (n + 1) - 1 = n
      BY <3>0
    <3> QED
      BY <1>8, <3>1
  <2> HIDE DEF T
  <2>3. /\ TurnInv(k, g[n + 1], text)
        /\ \/ NextLine(g[n].parser) = None /\ g[n + 1] = g[n]
           \/ NextLine(g[n].parser) # None /\ Rest(g[n + 1]) < Rest(g[n])
    BY <2>1, <2>2, TakeLineKeeps
  <2>4. Rest(g[n + 1]) \in Nat /\ Rest(g[n]) \in Nat
    BY <2>1, <2>3, RestType
  <2>5. CASE NextLine(g[n].parser) = None
    BY <2>3, <2>5
  <2>6. CASE NextLine(g[n].parser) # None
    <3>1. Rest(g[n]) <= N - n /\ Rest(g[n + 1]) < Rest(g[n])
      BY <2>1, <2>3, <2>6
    <3> QED
      BY <1>1, <2>1, <2>3, <2>4, <3>1
  <2> QED
    BY <2>5, <2>6
<1> HIDE DEF T
<1>11. T \in SUBSET Nat
  BY DEF T
<1>12. T = Nat
  BY <1>9, <1>10, <1>11, Induct
<1>13. /\ TurnInv(k, g[N], text)
       /\ NextLine(g[N].parser) = None \/ Rest(g[N]) <= N - N
  <2>1. N \in T /\ N <= N
    BY <1>1, <1>12
  <2> QED
    BY <2>1 DEF T
<1>14. NextLine(g[N].parser) = None
  <2> SUFFICES ASSUME NextLine(g[N].parser) # None PROVE FALSE
    OBVIOUS
  <2>1. Rest(g[N]) <= 0
    BY <1>1, <1>13
  <2>2. IsParser(g[N].parser) /\ g[N].parser \in Parsers
    BY <1>13, RestType
  <2>3. \E i \in Nat, n \in Nat : LineIn(g[N].parser, i, n)
    BY <2>2, NextLineFinds
  <2> QED
    BY <2>1, <2>2, <2>3, SMTT(20) DEF LineIn, Rest, Parsers
<1> QED
  BY <1>2, <1>13, <1>14

-----------------------------------------------------------------------------
(* What stays as events are added. *)

LEMMA BytesKept ==
    ASSUME UNCHANGED <<request, ends>>, NEW i, sent'[i] = sent[i]
    PROVE  Bytes(i)' = Bytes(i) /\ LineEnd(i)' = LineEnd(i) /\ Datum(i)' = Datum(i)
  BY Zenon DEF Bytes, Encoded, LineEnd, Datum, Provider

LEMMA AllKept ==
    ASSUME UNCHANGED <<request, ends>>, NEW n \in Nat, \A i \in 1..n : sent'[i] = sent[i]
    PROVE  Enc(n)' = Enc(n) /\ All(n)' = All(n) /\ Off(n)' = Off(n)
<1>1. \A i \in 1..n : Bytes(i)' = Bytes(i)
  BY BytesKept, Zenon
<1>2. Enc(n)' = Enc(n)
  BY <1>1, Zenon DEF Enc
<1> QED
  BY <1>2, Zenon DEF All, Off

LEMMA AtLineKept ==
    ASSUME UNCHANGED <<request, ends>>, NEW m, NEW scan, NEW data, sent'[m] = sent[m],
           AtLine(m, scan, data)
    PROVE  AtLine(m, scan, data)'
<1>1. Bytes(m)' = Bytes(m) /\ LineEnd(m)' = LineEnd(m) /\ Datum(m)' = Datum(m)
      /\ Provider' = Provider
  BY BytesKept, Zenon DEF Provider
<1> QED
  BY <1>1 DEF AtLine

LEMMA AtEventKept ==
    ASSUME UNCHANGED <<request, ends>>, NEW k \in Nat, NEW p, NEW text, AtEvent(k, p, text),
           \A i \in 1..k : sent'[i] = sent[i], k \in 0..Len(sent'), OfWire(text)',
           AtLine(k + 1, p.scan, p.data)'
    PROVE  AtEvent(k, p, text)'
<1>1. Off(k)' = Off(k)
  BY AllKept, Zenon
<1>2. ASSUME NEW i \in 1..k PROVE Off(i)' = Off(i)
  <2>1. i \in Nat /\ \A j \in 1..i : j \in 1..k
    OBVIOUS
  <2>2. \A j \in 1..i : sent'[j] = sent[j]
    BY <2>1
  <2> QED
    BY <2>1, <2>2, AllKept, Zenon
<1>3. EndsUpTo(text, k, Off(k) + p.scan)
  BY DEF AtEvent
<1>4. EndsUpTo(text, k, Off(k) + p.scan)'
  BY <1>1, <1>2, <1>3, Zenon DEF EndsUpTo
<1>5. Holds(p, text, Off(k)) /\ Starts(text, Off(k) + p.scan)
  BY DEF AtEvent
<1> QED
  BY <1>1, <1>4, <1>5, Zenon DEF AtEvent

\* A parser that has dispatched every event sent starts on the next.
LEMMA AtStart ==
    ASSUME ends \in LineEnds, NEW m \in Nat, m > 0, NEW data, AtLine(m, 0, data)
    PROVE  data = <<>>
<1> DEFINE f == LineEnd(m).field
           b == LineEnd(m).blank
<1>1. /\ f \in Endings /\ b \in Endings
      /\ sent[m].t = "comment" => InParts(Bytes(m), <<>>, <<Field.comment>>, f, b)
      /\ sent[m].t # "comment" /\ Provider = "anthropic" =>
            InParts(Bytes(m), <<Field.event>> \o f, <<Field.data, m>>, f, b)
      /\ sent[m].t # "comment" /\ Provider # "anthropic" =>
            InParts(Bytes(m), <<>>, <<Field.data, m>>, f, b)
  BY BytesShape, Zenon DEF Bytes
<1> HIDE DEF f, b
<1>2. Len(f) \in Nat /\ Len(b) \in Nat /\ f \in Seq(Int)
  BY <1>1, EndingsAre
<1>3. Len(Bytes(m)) - Len(b) # 0
  <2>1. CASE sent[m].t = "comment"
    <3>1. InParts(Bytes(m), <<>>, <<Field.comment>>, f, b)
      BY <1>1, <2>1
    <3> QED
      BY <1>2, <3>1 DEF InParts
  <2>2. CASE sent[m].t # "comment" /\ Provider = "anthropic"
    <3>1. InParts(Bytes(m), <<Field.event>> \o f, <<Field.data, m>>, f, b)
      BY <1>1, <2>2
    <3>2. Len(<<Field.event>> \o f) \in Nat /\ Len(<<Field.data, m>>) = 2
      BY <1>2, TwoParts, FieldsAre
    <3> QED
      BY <1>2, <3>1, <3>2 DEF InParts
  <2>3. CASE sent[m].t # "comment" /\ Provider # "anthropic"
    <3>1. InParts(Bytes(m), <<>>, <<Field.data, m>>, f, b)
      BY <1>1, <2>3
    <3> QED
      BY <1>2, <3>1 DEF InParts
  <2> QED
    BY <2>1, <2>2, <2>3
<1> QED
  BY <1>2, <1>3 DEF AtLine, f, b

-----------------------------------------------------------------------------
(* A chunk arrives. *)

LEMMA WireType ==
    ASSUME OnWire
    PROVE  wire \in Seq(Int) /\ Len(wire) \in Nat /\ Len(sent) \in Nat /\ Len(wire) = Off(Len(sent))
<1>1. ends \in LineEnds /\ Len(sent) \in Nat /\ wire = All(Len(sent))
  BY DEF OnWire
<1>2. All(Len(sent)) \in Seq(Int)
  BY <1>1, AllStep, Zenon
<1> QED
  BY <1>1, <1>2 DEF Off

\* The part of the wire received.
Received(n) == SubSeq(wire, 1, n)

LEMMA ReceivedIs ==
    ASSUME OnWire, NEW n \in 0..Len(wire)
    PROVE  /\ Received(n) \in Seq(Int) /\ Len(Received(n)) = n
           /\ \A q \in 1..n : Received(n)[q] = wire[q]
           /\ OfWire(Received(n))
<1>1. wire \in Seq(Int) /\ Len(wire) \in Nat /\ n \in Nat /\ 0 + n <= Len(wire)
  BY WireType
<1>2. /\ SubSeq(wire, 0 + 1, 0 + n) \in Seq(Int) /\ Len(SubSeq(wire, 0 + 1, 0 + n)) = n
      /\ \A j \in 1..n : SubSeq(wire, 0 + 1, 0 + n)[j] = wire[0 + j]
  BY <1>1, PartOf
<1>3. SubSeq(wire, 0 + 1, 0 + n) = Received(n)
  BY <1>1 DEF Received
<1>4. \A j \in 1..n : 0 + j = j
  BY <1>1
<1>5. /\ Received(n) \in Seq(Int) /\ Len(Received(n)) = n
      /\ \A q \in 1..n : Received(n)[q] = wire[q]
  BY <1>2, <1>3, <1>4
<1> QED
  BY <1>1, <1>5 DEF OfWire

WithChunk(p, chunk) == [p EXCEPT !.buffer = p.buffer \o chunk]

LEMMA WithChunkIs ==
    ASSUME NEW p \in Parsers, NEW chunk \in Seq(Int)
    PROVE  /\ WithChunk(p, chunk) \in Parsers
           /\ WithChunk(p, chunk).buffer = p.buffer \o chunk
           /\ WithChunk(p, chunk).scan = p.scan /\ WithChunk(p, chunk).data = p.data
<1> DEFINE b == p.buffer \o chunk
<1>1. b \in Seq(Int)
  BY DEF Parsers
<1>2. WithChunk(p, chunk) = [p EXCEPT !.buffer = b]
  BY Zenon DEF WithChunk
<1> HIDE DEF b
<1>3. /\ [p EXCEPT !.buffer = b] \in Parsers
      /\ [p EXCEPT !.buffer = b].buffer = b
      /\ [p EXCEPT !.buffer = b].scan = p.scan /\ [p EXCEPT !.buffer = b].data = p.data
  BY <1>1 DEF Parsers
<1> QED
  BY <1>2, <1>3 DEF b

LEMMA ChunkJoins ==
    ASSUME OnWire, pos \in 0..Len(wire), NEW n \in 1..(Len(wire) - pos), NEW k, NEW p,
           AtEvent(k, p, Received(pos))
    PROVE  /\ p \in Parsers /\ SubSeq(wire, pos + 1, pos + n) \in Seq(Int)
           /\ AtEvent(k, WithChunk(p, SubSeq(wire, pos + 1, pos + n)), Received(pos + n))
<1> DEFINE chunk == SubSeq(wire, pos + 1, pos + n)
           r == WithChunk(p, chunk)
           old == Received(pos)
           new == Received(pos + n)
<1>1. wire \in Seq(Int) /\ Len(wire) \in Nat /\ pos \in Nat /\ n \in Nat /\ pos + n <= Len(wire)
      /\ pos + n \in 0..Len(wire)
  BY WireType
<1>2. /\ chunk \in Seq(Int) /\ Len(chunk) = n /\ \A j \in 1..n : chunk[j] = wire[pos + j]
  BY <1>1, PartOf
<1>3. /\ old \in Seq(Int) /\ Len(old) = pos /\ \A q \in 1..pos : old[q] = wire[q]
  BY ReceivedIs
<1>4. /\ new \in Seq(Int) /\ Len(new) = pos + n /\ \A q \in 1..(pos + n) : new[q] = wire[q]
      /\ OfWire(new)
  BY <1>1, ReceivedIs
<1>5. /\ k \in 0..Len(sent) /\ Holds(p, old, Off(k)) /\ Starts(old, Off(k) + p.scan)
      /\ AtLine(k + 1, p.scan, p.data) /\ EndsUpTo(old, k, Off(k) + p.scan)
  BY DEF AtEvent
<1>6. /\ p \in Parsers /\ p.scan <= Len(p.buffer) /\ Off(k) \in Nat /\ Len(p.buffer) + Off(k) = pos
      /\ \A q \in 1..Len(p.buffer) : p.buffer[q] = old[Off(k) + q]
  BY <1>3, <1>5 DEF Holds, IsParser
<1>7. p.buffer \in Seq(Int) /\ p.scan \in Nat /\ Len(p.buffer) \in Nat
  BY <1>6 DEF Parsers
<1>n. /\ pos \in Nat /\ n \in Nat /\ Off(k) \in Nat /\ Len(p.buffer) \in Nat
      /\ Len(p.buffer) + Off(k) = pos
  BY <1>1, <1>6, <1>7
<1> HIDE DEF chunk, r, old, new
<1>8. r \in Parsers /\ r.buffer = p.buffer \o chunk /\ r.scan = p.scan /\ r.data = p.data
  BY <1>2, <1>6, WithChunkIs DEF r
<1>9. /\ Len(p.buffer \o chunk) = Len(p.buffer) + n
      /\ \A q \in 1..Len(p.buffer) : (p.buffer \o chunk)[q] = p.buffer[q]
      /\ \A q \in 1..n : (p.buffer \o chunk)[Len(p.buffer) + q] = chunk[q]
  BY <1>2, <1>7, TwoParts
<1>10. Holds(r, new, Off(k))
  <2>1. Len(r.buffer) + Off(k) = Len(new)
    <3>1. Len(r.buffer) = Len(p.buffer) + n /\ Len(new) = pos + n
      BY <1>4, <1>8, <1>9
    <3>2. (Len(p.buffer) + n) + Off(k) = pos + n
      BY <1>n
    <3> QED
      BY <3>1, <3>2, Zenon
  <2>2. ASSUME NEW q \in 1..Len(r.buffer) PROVE r.buffer[q] = new[Off(k) + q]
    <3>1. CASE q \in 1..Len(p.buffer)
      <4>1. Off(k) + q \in 1..pos /\ Off(k) + q \in 1..(pos + n)
        BY <1>n, <3>1
      <4>2. r.buffer[q] = p.buffer[q] /\ p.buffer[q] = old[Off(k) + q]
        BY <1>6, <1>8, <1>9, <3>1
      <4> QED
        BY <1>3, <1>4, <4>1, <4>2
    <3>2. CASE q \notin 1..Len(p.buffer)
      <4> DEFINE c == q - Len(p.buffer)
      <4>0. q \in Nat /\ q <= Len(p.buffer) + n /\ ~(q <= Len(p.buffer))
        BY <1>1, <1>7, <1>8, <1>9, <3>2
      <4>1. c \in 1..n /\ q = Len(p.buffer) + c
        BY <1>1, <1>7, <4>0
      <4> HIDE DEF c
      <4>2. r.buffer[q] = chunk[c]
        BY <1>8, <1>9, <4>1
      <4>3. chunk[c] = wire[pos + c]
        BY <1>2, <4>1
      <4>4. Off(k) + q = pos + c /\ pos + c \in 1..(pos + n)
        BY <1>n, <4>1, SMTT(20)
      <4> QED
        BY <1>4, <4>2, <4>3, <4>4
    <3> QED
      BY <3>1, <3>2
  <2>3. r.scan <= Len(r.buffer)
    BY <1>1, <1>6, <1>7, <1>8, <1>9
  <2> QED
    BY <1>4, <1>6, <1>8, <2>1, <2>2, <2>3 DEF Holds, IsParser
<1>11. \A q \in 1..Len(old) : new[q] = old[q]
  <2>1. \A q \in 1..pos : q \in 1..(pos + n)
    BY <1>n
  <2> QED
    BY <1>3, <1>4, <2>1, Zenon
<1>12. Len(old) <= Len(new)
  BY <1>1, <1>3, <1>4
<1>13. /\ Starts(new, Off(k) + p.scan)
       /\ \A b \in 1..(Off(k) + p.scan) : b \in EventEnds(new) <=> b \in EventEnds(old)
  BY <1>3, <1>4, <1>5, <1>11, <1>12, BreaksStay
<1>14. EndsUpTo(new, k, Off(k) + p.scan)
  BY <1>5, <1>13, Zenon DEF EndsUpTo
<1>15. AtEvent(k, r, new)
  BY <1>4, <1>5, <1>8, <1>10, <1>13, <1>14, Zenon DEF AtEvent
<1> QED
  BY <1>2, <1>6, <1>15 DEF chunk, r, new

-----------------------------------------------------------------------------
(* What the client of a provider's own API receives. *)

\* A sequence with one more element.
LEMMA OneMore ==
    ASSUME NEW V, NEW s \in Seq(V), NEW t \in Seq(V), Len(t) = Len(s) + 1,
           \A i \in 1..Len(s) : t[i] = s[i]
    PROVE  t = Append(s, t[Len(s) + 1])
<1> DEFINE x == t[Len(s) + 1]
           u == Append(s, x)
<1>1. Len(s) \in Nat /\ x \in V
  OBVIOUS
<1> HIDE DEF x
<1>2. u \in Seq(V) /\ Len(u) = Len(s) + 1
  BY <1>1
<1>3. ASSUME NEW i \in 1..Len(t) PROVE t[i] = u[i]
  <2>1. CASE i = Len(s) + 1
    <3>1. u[Len(s) + 1] = x
      BY <1>1
    <3> QED
      BY <2>1, <3>1 DEF x
  <2>2. CASE i \in 1..Len(s)
    <3>1. u[i] = s[i]
      BY <1>1, <2>2
    <3> QED
      BY <2>2, <3>1
  <2>3. i = Len(s) + 1 \/ i \in 1..Len(s)
    BY <1>1
  <2> QED
    BY <2>1, <2>2, <2>3
<1> HIDE DEF u
<1>4. t = u
  BY <1>2, <1>3, SeqEqual
<1> QED
  BY <1>4 DEF u, x

\* The bytes of the i-th event, but for a usage chunk the client did not ask for.
Hidden(i) == Provider = "openai" /\ ~include /\ sent[i].t = "usage"
Shown(i) == IF Hidden(i) THEN <<>> ELSE Bytes(i)
Shows(n) == [i \in 1..n |-> Shown(i)]
Passed(n) == FlattenSeq(Shows(n))

LEMMA ShowsStep ==
    ASSUME ends \in LineEnds, NEW n \in Nat
    PROVE  /\ Shows(n) \in Seq(Seq(Int)) /\ Shown(n + 1) \in Seq(Int)
           /\ Shows(n + 1) = Append(Shows(n), Shown(n + 1))
<1>1. \A i \in Nat : i > 0 => Shown(i) \in Seq(Int)
  BY BytesType DEF Bytes, Shown
<1>2. \A m \in Nat : Shows(m) \in Seq(Seq(Int)) /\ Len(Shows(m)) = m
                     /\ \A i \in 1..m : Shows(m)[i] = Shown(i)
  BY <1>1 DEF Shows
<1>3. n + 1 \in Nat /\ n + 1 > 0 /\ n + 1 \in 1..(n + 1) /\ \A i \in 1..n : i \in 1..(n + 1)
  OBVIOUS
<1>4. Len(Shows(n + 1)) = Len(Shows(n)) + 1
  BY <1>2, <1>3
<1>5. \A i \in 1..Len(Shows(n)) : Shows(n + 1)[i] = Shows(n)[i]
  BY <1>2, <1>3
<1>6. Shows(n + 1) = Append(Shows(n), Shows(n + 1)[Len(Shows(n)) + 1])
  BY <1>2, <1>3, <1>4, <1>5, OneMore
<1>7. Shows(n + 1)[Len(Shows(n)) + 1] = Shown(n + 1)
  BY <1>2, <1>3
<1> QED
  BY <1>1, <1>2, <1>3, <1>6, <1>7

LEMMA PassedStep ==
    ASSUME ends \in LineEnds, NEW n \in Nat
    PROVE  Passed(n) \in Seq(Int) /\ Passed(n + 1) = Passed(n) \o Shown(n + 1)
<1>1. /\ Shows(n) \in Seq(Seq(Int)) /\ Shown(n + 1) \in Seq(Int)
      /\ Shows(n + 1) = Append(Shows(n), Shown(n + 1))
  BY ShowsStep
<1> QED
  BY <1>1, FlattenType, FlattenAppend DEF Passed

\* OpenAI reports usage with its last choice or in a chunk of its own, and always there.
Reports(e) ==
    Provider = "openai" => /\ e.usage # None => e.t \in {"finish", "usage"}
                           /\ e.t = "usage" => e.usage # None
AllReport == \A i \in 1..Len(sent) : Reports(sent[i])

\* The data of the i-th event, as the relay reads it.
Read(i) == IF Ev(i).data = None THEN None ELSE sent[Ev(i).data]

LEMMA ReadIs ==
    ASSUME NEW i \in Nat
    PROVE  Read(i) = IF sent[i].t = "comment" THEN None ELSE sent[i]
<1>1. i # None
  BY StreamsAssumption
<1> QED
  BY <1>1, Zenon DEF Read, Ev

LEMMA ReadKept ==
    ASSUME OnWire, AllReport, NEW i \in 1..Len(sent)
    PROVE  Keeps(Read(i)) <=> ~Hidden(i)
<1>1. sent[i] \in Events /\ i \in Nat /\ Reports(sent[i])
  BY DEF OnWire, AllReport
<1>2. sent[i] # None
  BY <1>1, StreamsAssumption
<1>3. CASE sent[i].t = "comment"
  <2>1. Read(i) = None
    BY <1>1, <1>3, ReadIs
  <2> QED
    BY <1>3, <2>1 DEF Keeps, IsObject, Hidden
<1>4. CASE sent[i].t # "comment"
  <2>1. Read(i) = sent[i]
    BY <1>1, <1>4, ReadIs
  <2> QED
    BY <1>1, <1>2, <2>1 DEF Keeps, IsObject, Hidden, HasChoices, Reports
<1> QED
  BY <1>3, <1>4

LEMMA RelayedShows ==
    ASSUME OnWire, AllReport, ~Translates, NEW i \in 1..Len(sent), NEW state
    PROVE  Relayed(state, Ev(i)).out = state.out \o Shown(i)
<1>1. Relayed(state, Ev(i)).out = state.out \o (IF Keeps(Read(i)) THEN Ev(i).raw ELSE <<>>)
  BY Zenon DEF Relayed, Read
<1>2. Ev(i).raw = Bytes(i)
  BY DEF Ev
<1> QED
  BY <1>1, <1>2, ReadKept, Zenon DEF Shown

LEMMA RelaysPass ==
    ASSUME OnWire, AllReport, ~Translates, NEW k \in Nat, NEW events \in Seq(Evs), NEW state,
           state.out = Passed(k), \A j \in 1..Len(events) : events[j] = Ev(k + j),
           k + Len(events) <= Len(sent)
    PROVE  RelayedAll(state, events).out = Passed(k + Len(events))
<1> DEFINE N == Len(events)
<1>1. N \in Nat /\ Len(sent) \in Nat
  BY WireType
<1>2. PICK g : g = RelaysTo(state, events, N, g) /\ RelayedAll(state, events) = g[N]
  BY <1>1, RelayedAllStates
<1>3. \A i \in 0..N : g[i] = IF i = 0 THEN state ELSE Relayed(g[i - 1], events[i])
  BY <1>2, Zenon DEF RelaysTo
<1> DEFINE T == {n \in Nat : n <= N => g[n].out = Passed(k + n)}
<1>4. 0 \in T
  BY <1>1, <1>3
<1>5. ASSUME NEW n \in T PROVE n + 1 \in T
  <2> SUFFICES ASSUME n + 1 <= N PROVE g[n + 1].out = Passed(k + (n + 1))
    OBVIOUS
  <2>1. n \in Nat /\ g[n].out = Passed(k + n)
    BY <1>1
  <2> HIDE DEF N
  <2>2. n + 1 \in 0..N /\ n + 1 # 0 /\ (n + 1) - 1 = n /\ n + 1 \in 1..N
    BY <1>1, <2>1
  <2>3. g[n + 1] = Relayed(g[n], events[n + 1])
    BY <1>3, <2>2
  <2>4. events[n + 1] = Ev(k + (n + 1))
    BY <2>2 DEF N
  <2>5. k + (n + 1) \in 1..Len(sent) /\ k + n \in Nat /\ (k + n) + 1 = k + (n + 1)
    <3>1. n + 1 <= N /\ k + N <= Len(sent)
      BY DEF N
    <3> QED
      BY <1>1, <2>1, <3>1
  <2>6. Relayed(g[n], Ev(k + (n + 1))).out = g[n].out \o Shown(k + (n + 1))
    BY <2>5, RelayedShows
  <2>7. ends \in LineEnds
    BY DEF OnWire
  <2>8. Passed((k + n) + 1) = Passed(k + n) \o Shown((k + n) + 1)
    BY <2>5, <2>7, PassedStep
  <2> QED
    BY <2>1, <2>3, <2>4, <2>5, <2>6, <2>8, Zenon
<1> HIDE DEF T
<1>6. T \in SUBSET Nat
  BY DEF T
<1>7. T = Nat
  BY <1>4, <1>5, <1>6, Induct
<1>8. N \in T /\ N <= N
  BY <1>1, <1>7
<1> QED
  BY <1>2, <1>8 DEF T

-----------------------------------------------------------------------------
(* The events a provider sends. *)

KindsOf(provider) ==
    IF provider = "openai" THEN {"role", "text", "finish", "usage", "error", "done"}
    ELSE {"message_start", "content_block_start", "text_delta", "content_block_stop",
          "message_delta", "message_stop", "error"}
OfProvider(t) == t \in Noise \/ t \in KindsOf(Provider)
AllOfProvider == \A i \in 1..Len(sent) : OfProvider(sent[i].t)

LEMMA MaxIn ==
    ASSUME NEW n \in Nat, NEW S \in SUBSET (1..n), S # {}
    PROVE  Max(S) \in S
<1> DEFINE D == {n - i : i \in S}
<1>1. D \in SUBSET Nat /\ D # {}
  <2>1. \A i \in S : n - i \in Nat
    OBVIOUS
  <2>2. \A d \in D : d \in Nat
    BY <2>1
  <2>3. PICK i : i \in S
    OBVIOUS
  <2>4. n - i \in D
    BY <2>3
  <2> QED
    BY <2>2, <2>4
<1>2. PICK m \in D : \A d \in D : m <= d
  BY <1>1, MinExists
<1>3. PICK i \in S : m = n - i
  BY <1>2
<1>4. ASSUME NEW j \in S PROVE i >= j
  <2>1. n - i <= n - j
    BY <1>2, <1>3
  <2>2. i \in Nat /\ j \in Nat
    OBVIOUS
  <2> HIDE DEF D
  <2> QED
    BY <2>1, <2>2
<1> QED
  BY <1>4, Zenon DEF Max

LEMMA StageIs ==
    ASSUME sent \in Seq(Events), AllOfProvider
    PROVE  Stage(sent) = "none" \/ Stage(sent) \in KindsOf(Provider)
<1> DEFINE S == {i \in DOMAIN sent : sent[i].t \notin Noise}
<1>1. Len(sent) \in Nat /\ DOMAIN sent = 1..Len(sent)
  OBVIOUS
<1>2. CASE S = {}
  BY <1>2, Zenon DEF Stage
<1>3. CASE S # {}
  <2>1. Max(S) \in S
    BY <1>1, <1>3, MaxIn
  <2>2. Stage(sent) = sent[Max(S)].t
    BY <1>3, Zenon DEF Stage
  <2> QED
    BY <1>1, <2>1, <2>2 DEF AllOfProvider, OfProvider
<1> QED
  BY <1>2, <1>3

LEMMA FollowsKinds ==
    ASSUME Provider \in Apis, NEW stage, stage = "none" \/ stage \in KindsOf(Provider),
           stage \notin Final
    PROVE  \A t \in Follows[Provider][stage] : t \in KindsOf(Provider)
<1>1. CASE Provider = "openai"
  <2>1. stage \in {"none", "role", "text", "finish", "usage"}
    BY <1>1 DEF KindsOf, Final
  <2> QED
    BY <1>1, <2>1 DEF KindsOf, Follows
<1>2. CASE Provider = "anthropic"
  <2>1. stage \in {"none", "message_start", "content_block_start", "text_delta",
                   "content_block_stop", "message_delta"}
    BY <1>2 DEF KindsOf, Final
  <2> QED
    BY <1>2, <2>1 DEF KindsOf, Follows
<1> QED
  BY <1>1, <1>2 DEF Apis

LEMMA TextsType ==
    ASSUME sent \in Seq(Events)
    PROVE  Len(Texts(sent)) \in Nat
<1> DEFINE Part(i) == IF sent[i].t \in {"text", "text_delta"} THEN <<sent[i]>> ELSE <<>>
           parts == [i \in DOMAIN sent |-> Part(i)]
<1>1. \A i \in DOMAIN sent : Part(i) \in Seq(Events)
  OBVIOUS
<1> HIDE DEF Part
<1>2. parts \in Seq(Seq(Events))
  BY <1>1
<1>3. Texts(sent) = FlattenSeq(parts)
  BY Zenon DEF Texts, Chosen, Part
<1> HIDE DEF parts
<1>4. FlattenSeq(parts) \in Seq(Events)
  BY <1>2, FlattenType
<1> QED
  BY <1>3, <1>4

LEMMA TwoFields ==
    ASSUME NEW t, NEW stop, NEW usage
    PROVE  [Event(t) EXCEPT !.stop = stop, !.usage = usage]
             = [t |-> t, text |-> <<>>, stop |-> stop, usage |-> usage]
<1> DEFINE r == [Event(t) EXCEPT !.stop = stop]
<1>1. r = [t |-> t, text |-> <<>>, stop |-> stop, usage |-> None]
  BY DEF Event
<1> HIDE DEF r
<1>2. [r EXCEPT !.usage = usage] = [t |-> t, text |-> <<>>, stop |-> stop, usage |-> usage]
  BY <1>1
<1> QED
  BY <1>2 DEF r

\* What is known of an event sent.
LEMMA EventOf ==
    ASSUME sent \in Seq(Events), Provider \in Apis, NEW t, OfProvider(t), NEW e \in EventsOf(t)
    PROVE  e \in Events /\ e.t = t /\ Reports(e)
<1>0. Event(t) = [t |-> t, text |-> <<>>, stop |-> None, usage |-> None]
      /\ t \in AnyKind /\ <<>> \in Seq(Nat)
  <2>1. Event(t) = [t |-> t, text |-> <<>>, stop |-> None, usage |-> None]
    BY Zenon DEF Event
  <2>2. t \in AnyKind
    BY DEF AnyKind, OfProvider, Noise, KindsOf, Final
  <2> QED
    BY <2>1, <2>2
<1>1. CASE t \in {"text", "text_delta"}
  <2> DEFINE n == Len(Texts(sent)) + 1
  <2>1. n \in Nat
    BY TextsType
  <2>2. e = [Event(t) EXCEPT !.text = <<n>>]
    BY <1>1 DEF EventsOf
  <2> HIDE DEF n
  <2>3. e = [t |-> t, text |-> <<n>>, stop |-> None, usage |-> None]
    BY <1>0, <2>2
  <2> QED
    BY <1>0, <1>1, <2>1, <2>3 DEF Events, AnyKind, Reports
<1>2. CASE t = "finish"
  <2>1. PICK r \in Finishes : e = [Event(t) EXCEPT !.stop = r.stop, !.usage = r.usage]
    BY <1>2 DEF EventsOf
  <2>2. e = [t |-> t, text |-> <<>>, stop |-> r.stop, usage |-> r.usage]
    BY <2>1, TwoFields, Zenon
  <2> QED
    BY <1>0, <1>2, <2>2 DEF Events, AnyKind, Reports
<1>3. CASE t = "usage"
  <2>1. PICK u \in UsageChunks : e = [Event(t) EXCEPT !.usage = u]
    BY <1>3 DEF EventsOf
  <2>2. e = [t |-> t, text |-> <<>>, stop |-> None, usage |-> u]
    BY <1>0, <2>1
  <2>3. u # None
    BY StreamsAssumption
  <2> QED
    BY <1>0, <1>3, <2>2, <2>3 DEF Events, AnyKind, Reports
<1>4. CASE t = "message_start"
  <2>1. PICK u \in StartUsages : e = [Event(t) EXCEPT !.usage = u]
    BY <1>4 DEF EventsOf
  <2>2. e = [t |-> t, text |-> <<>>, stop |-> None, usage |-> u]
    BY <1>0, <2>1
  <2>3. Provider # "openai"
    BY <1>4 DEF OfProvider, KindsOf, Noise
  <2> QED
    BY <1>0, <1>4, <2>2, <2>3 DEF Events, AnyKind, Reports
<1>5. CASE t = "message_delta"
  <2>1. PICK r \in Deltas : e = [Event(t) EXCEPT !.stop = r.stop, !.usage = r.usage]
    BY <1>5 DEF EventsOf
  <2>2. e = [t |-> t, text |-> <<>>, stop |-> r.stop, usage |-> r.usage]
    BY <2>1, TwoFields, Zenon
  <2>3. Provider # "openai"
    BY <1>5 DEF OfProvider, KindsOf, Noise
  <2> QED
    BY <1>0, <1>5, <2>2, <2>3 DEF Events, AnyKind, Reports
<1>6. CASE t \notin {"text", "text_delta", "finish", "usage", "message_start", "message_delta"}
  <2>1. e = Event(t)
    BY <1>6 DEF EventsOf
  <2> QED
    BY <1>0, <1>6, <2>1 DEF Events, AnyKind, Reports
<1> QED
  BY <1>1, <1>2, <1>3, <1>4, <1>5, <1>6

-----------------------------------------------------------------------------
(* The inductive invariant. *)

\* The request has been made, of either API and to either.
Asked ==
    /\ Client \in Apis /\ Provider \in Apis
    /\ request = [client |-> request.client, provider |-> request.provider,
                  body |-> request.body, send |-> request.send]

\* Nothing has been streamed.
Fresh ==
    /\ sent = <<>> /\ wire = <<>> /\ pos = 0
    /\ parser = NewParser /\ parsed = <<>> /\ out = <<>>

\* The parser has dispatched the first events of what was received, each as it was sent, and has
\* no complete line left.
Parsing ==
    /\ pos \in 0..Len(wire)
    /\ Len(parsed) \in Nat /\ parsed = [j \in 1..Len(parsed) |-> Ev(j)]
    /\ AtEvent(Len(parsed), parser, Received(pos))
    /\ NextLine(parser) = None

\* While the stream lasts.
Relaying ==
    /\ Asked /\ OnWire /\ AllReport /\ AllOfProvider /\ Parsing
    /\ ~Translates => out = Passed(Len(parsed))

StreamsInv ==
    /\ ends \in LineEnds
    /\ phase \in {"new", "sent", "streaming", "ended"}
    /\ phase = "sent" => Asked
    /\ phase \in {"new", "sent"} => Fresh
    /\ phase = "streaming" => Relaying
    /\ phase = "ended" => PassedOn

-----------------------------------------------------------------------------
(* Send. *)

LEMMA EvKept ==
    ASSUME UNCHANGED <<request, ends>>, NEW i, sent'[i] = sent[i]
    PROVE  Ev(i)' = Ev(i)
<1>1. Bytes(i)' = Bytes(i)
  BY BytesKept
<1> QED
  BY <1>1, Zenon DEF Ev

LEMMA PassedKept ==
    ASSUME UNCHANGED <<request, ends, include>>, NEW n \in Nat, \A i \in 1..n : sent'[i] = sent[i]
    PROVE  Passed(n)' = Passed(n)
<1>1. ASSUME NEW i \in 1..n PROVE Shown(i)' = Shown(i)
  <2>1. sent'[i] = sent[i]
    OBVIOUS
  <2>2. Bytes(i)' = Bytes(i)
    BY <2>1, BytesKept
  <2>3. Hidden(i)' <=> Hidden(i)
    BY <2>1 DEF Hidden, Provider
  <2> QED
    BY <2>2, <2>3, Zenon DEF Shown
<1>2. Shows(n)' = Shows(n)
  BY <1>1, Zenon DEF Shows
<1> QED
  BY <1>2, Zenon DEF Passed

LEMMA SendOnWire ==
    ASSUME OnWire, UNCHANGED <<request, ends>>, NEW e \in Events, sent' = Append(sent, e),
           wire' = wire \o Encoded(e, Len(sent) + 1)
    PROVE  /\ OnWire' /\ Len(sent') = Len(sent) + 1 /\ sent'[Len(sent) + 1] = e
           /\ \A i \in 1..Len(sent) : sent'[i] = sent[i]
           /\ Len(wire) <= Len(wire') /\ \A q \in 1..Len(wire) : wire'[q] = wire[q]
<1>a. Len(sent) \in Nat
  BY WireType
<1>b. PICK n \in Nat : n = Len(sent)
  BY <1>a
<1>c. PICK x : x = Encoded(e, n + 1)
  OBVIOUS
<1>d. PICK t : t = [i \in 1..(n + 1) |-> IF i \in 1..n THEN Bytes(i) ELSE x]
  OBVIOUS
<1>1. /\ ends \in LineEnds /\ sent \in Seq(Events) /\ n \in Nat /\ wire = All(n)
      /\ wire \in Seq(Int) /\ Len(wire) = Off(n) /\ Len(wire) \in Nat
  BY <1>b, WireType DEF OnWire
<1>2. sent' \in Seq(Events) /\ Len(sent') = n + 1 /\ sent'[n + 1] = e
      /\ \A i \in 1..n : sent'[i] = sent[i]
  BY <1>1, <1>b
<1>3. x \in Seq(Int) /\ Len(x) \in Nat
  BY <1>1, <1>c, BytesType
<1>4. Enc(n) \in Seq(Seq(Int)) /\ Len(Enc(n)) = n /\ \A i \in 1..n : Enc(n)[i] = Bytes(i)
  BY <1>1, EncStep DEF Enc
<1>5. Bytes(n + 1)' = x
  BY <1>2, <1>c, Zenon DEF Bytes, Encoded, LineEnd, Provider
<1>6. Enc(n + 1)' = t
  <2>1. \A i \in 1..n : Bytes(i)' = Bytes(i)
    BY <1>2, BytesKept, Zenon
  <2>2. \A i \in 1..(n + 1) : i \in 1..n \/ i = n + 1
    BY <1>1
  <2>3. \A i \in 1..(n + 1) : Bytes(i)' = IF i \in 1..n THEN Bytes(i) ELSE x
    BY <1>5, <2>1, <2>2, Zenon
  <2> QED
    BY <1>d, <2>3, Zenon DEF Enc
<1>7. n + 1 \notin 1..n /\ n + 1 \in 1..(n + 1) /\ \A i \in 1..n : i \in 1..(n + 1)
  BY <1>1
<1>8. /\ t \in Seq(Seq(Int)) /\ Len(t) = n + 1 /\ t[n + 1] = x
      /\ \A i \in 1..n : t[i] = Bytes(i)
  <2>1. \A i \in 1..(n + 1) : (IF i \in 1..n THEN Bytes(i) ELSE x) \in Seq(Int)
    <3>1. \A i \in 1..n : Bytes(i) \in Seq(Int)
      BY <1>4
    <3> QED
      BY <1>3, <3>1
  <2> QED
    BY <1>1, <1>7, <1>d, <2>1
<1>9. t = Append(Enc(n), x)
  <2>1. Len(t) = Len(Enc(n)) + 1 /\ \A i \in 1..Len(Enc(n)) : t[i] = Enc(n)[i]
    BY <1>4, <1>8
  <2>2. t = Append(Enc(n), t[Len(Enc(n)) + 1])
    BY <1>4, <1>8, <2>1, OneMore
  <2> QED
    BY <1>4, <1>8, <2>2
<1>10. All(n + 1)' = wire \o x
  <2>1. FlattenSeq(Append(Enc(n), x)) = FlattenSeq(Enc(n)) \o x
    BY <1>3, <1>4, FlattenAppend
  <2>2. All(n + 1)' = FlattenSeq(t) /\ FlattenSeq(Enc(n)) = wire
    BY <1>1, <1>6, Zenon DEF All
  <2> QED
    BY <1>9, <2>1, <2>2, Zenon
<1>11. wire' = wire \o x
  BY <1>b, <1>c
<1>12. /\ wire' \in Seq(Int) /\ Len(wire') = Len(wire) + Len(x)
       /\ \A q \in 1..Len(wire) : wire'[q] = wire[q]
  <2>1. /\ wire \o x \in Seq(Int) /\ Len(wire \o x) = Len(wire) + Len(x)
        /\ \A q \in 1..Len(wire) : (wire \o x)[q] = wire[q]
    BY <1>1, <1>3, TwoParts
  <2> QED
    BY <1>11, <2>1, Zenon
<1>13. Len(wire) <= Len(wire')
  BY <1>1, <1>3, <1>12
<1>14. ASSUME NEW m \in 0..(n + 1)
       PROVE  Off(m)' <= Len(wire') /\ \A q \in 1..Off(m)' : wire'[q] = All(m)'[q]
  <2>1. CASE m = n + 1
    <3>1. All(m)' = wire' /\ Off(m)' = Len(wire')
      BY <1>10, <1>11, <2>1, Zenon DEF Off
    <3>2. Len(wire') \in Nat
      BY <1>1, <1>3, <1>12
    <3> QED
      BY <3>1, <3>2
  <2>2. CASE m \in 0..n
    <3>1. \A i \in 1..m : i \in 1..n
      BY <1>1, <2>2
    <3>2. m \in Nat /\ \A i \in 1..m : sent'[i] = sent[i]
      BY <1>2, <2>2, <3>1
    <3>3. All(m)' = All(m) /\ Off(m)' = Off(m)
      BY <3>2, AllKept
    <3>4. Off(m) <= Len(wire) /\ \A q \in 1..Off(m) : wire[q] = All(m)[q]
      BY <1>b, <2>2 DEF OnWire
    <3>5. Off(m) \in Nat
      BY <1>1, <3>2, AllStep
    <3>6. \A q \in 1..Off(m) : q \in 1..Len(wire)
      BY <1>1, <3>4, <3>5
    <3>7. \A q \in 1..Off(m) : wire'[q] = All(m)[q]
      BY <1>12, <3>4, <3>6, Zenon
    <3>8. Off(m) <= Len(wire')
      BY <1>1, <1>3, <1>12, <3>4, <3>5
    <3> QED
      BY <3>3, <3>7, <3>8, Zenon
  <2>3. m = n + 1 \/ m \in 0..n
    BY <1>1
  <2> QED
    BY <2>1, <2>2, <2>3, Zenon
<1>15. OnWire'
  <2>0. Len(sent)' = n + 1
    BY <1>2
  <2>1. wire' = All(Len(sent))'
    BY <2>0, <1>10, <1>11, Zenon
  <2>2. ends' \in LineEnds
    BY <1>1
  <2> QED
    BY <1>2, <1>14, <2>0, <2>1, <2>2, Zenon DEF OnWire
<1> QED
  BY <1>2, <1>12, <1>13, <1>15, <1>b

LEMMA SendAdds ==
    ASSUME Relaying, Send
    PROVE  \E e \in Events : /\ sent' = Append(sent, e)
                             /\ wire' = wire \o Encoded(e, Len(sent) + 1)
                             /\ OfProvider(e.t) /\ Reports(e)
<1>1. PICK t \in Noise \cup Follows[Provider][Stage(sent)] : \E e \in EventsOf(t) :
          sent' = Append(sent, e) /\ wire' = wire \o Encoded(e, Len(sent) + 1)
  BY Zenon DEF Send
<1>2. PICK e \in EventsOf(t) : sent' = Append(sent, e) /\ wire' = wire \o Encoded(e, Len(sent) + 1)
  BY <1>1
<1>3. sent \in Seq(Events) /\ Provider \in Apis /\ AllOfProvider /\ Stage(sent) \notin Final
  BY DEF Relaying, OnWire, Asked, Send
<1>4. OfProvider(t)
  <2>1. CASE t \in Noise
    BY <2>1 DEF OfProvider
  <2>2. CASE t \in Follows[Provider][Stage(sent)]
    <3>1. Stage(sent) = "none" \/ Stage(sent) \in KindsOf(Provider)
      BY <1>3, StageIs
    <3> QED
      BY <1>3, <2>2, <3>1, FollowsKinds DEF OfProvider
  <2> QED
    BY <2>1, <2>2
<1>5. e \in Events /\ e.t = t /\ Reports(e)
  BY <1>3, <1>4, EventOf
<1> QED
  BY <1>2, <1>4, <1>5

LEMMA SendKeeps ==
    ASSUME Relaying, Send
    PROVE  Relaying'
<1>1. PICK e \in Events : /\ sent' = Append(sent, e)
                          /\ wire' = wire \o Encoded(e, Len(sent) + 1)
                          /\ OfProvider(e.t) /\ Reports(e)
  BY SendAdds
<1>2. UNCHANGED <<request, include, ends, pos, parser, parsed, out>>
  BY DEF Send
<1>3. Asked /\ OnWire /\ AllReport /\ AllOfProvider /\ Parsing /\ ends \in LineEnds
  BY DEF Relaying, OnWire
<1>4. PICK n \in Nat : n = Len(sent)
  BY <1>3, WireType
<1>5. /\ OnWire' /\ Len(sent') = n + 1 /\ sent'[n + 1] = e
      /\ \A i \in 1..n : sent'[i] = sent[i]
      /\ Len(wire) <= Len(wire') /\ \A q \in 1..Len(wire) : wire'[q] = wire[q]
  BY <1>1, <1>2, <1>3, <1>4, SendOnWire
<1>6. Asked' /\ Provider' = Provider
  BY <1>2, <1>3 DEF Asked, Client, Provider
<1>7. \A i \in 1..(n + 1) : i = n + 1 \/ i \in 1..n
  BY <1>4
<1>8. AllReport' /\ AllOfProvider'
  <2>1. \A i \in 1..n : Reports(sent[i]) /\ OfProvider(sent[i].t)
    BY <1>3, <1>4 DEF AllReport, AllOfProvider
  <2>2. ASSUME NEW i \in 1..(n + 1)
        PROVE  Reports(sent'[i]) /\ OfProvider(sent'[i].t)
    BY <1>1, <1>5, <1>7, <2>1, Zenon
  <2>3. ASSUME NEW i \in 1..(n + 1)
        PROVE  Reports(sent[i])' /\ OfProvider(sent[i].t)'
    <3>1. Reports(sent'[i]) /\ OfProvider(sent'[i].t)
      BY <2>2
    <3> QED
      BY <1>6, <3>1 DEF Reports, OfProvider
  <2>4. Len(sent)' = n + 1
    BY <1>5
  <2> QED
    BY <2>3, <2>4, Zenon DEF AllReport, AllOfProvider
<1>len. PICK k \in Nat : k = Len(parsed)
  BY <1>3 DEF Parsing
<1>9. PICK text, p : k = Len(parsed) /\ text = Received(pos) /\ p = parser
  BY <1>len
<1>10. /\ pos \in 0..Len(wire) /\ parsed = [j \in 1..k |-> Ev(j)]
       /\ AtEvent(k, p, text) /\ NextLine(p) = None
  BY <1>3, <1>9 DEF Parsing
<1>11. Len(wire) \in Nat /\ wire \in Seq(Int)
  BY <1>3, WireType
<1>12. text \in Seq(Int) /\ Len(text) = pos /\ \A q \in 1..pos : text[q] = wire[q]
  BY <1>3, <1>9, <1>10, ReceivedIs
<1>13. Len(wire') \in Nat /\ wire' \in Seq(Int)
  <2>1. Encoded(e, n + 1) \in Seq(Int)
    BY <1>3, <1>4, BytesType
  <2> QED
    BY <1>1, <1>4, <1>11, <2>1
<1>14. pos' \in 0..Len(wire')
  BY <1>2, <1>5, <1>10, <1>11, <1>13
<1>15. \A q \in 1..pos : text[q] = wire'[q]
  <2>1. \A q \in 1..pos : q \in 1..Len(wire)
    BY <1>10, <1>11
  <2> QED
    BY <1>5, <1>12, <2>1
<1>16. OfWire(text)'
  <2>1. Len(text) <= Len(wire')
    BY <1>2, <1>12, <1>14
  <2>2. Len(text) <= Len(wire)' /\ \A q \in 1..Len(text) : text[q] = wire'[q]
    BY <1>12, <1>15, <2>1
  <2> QED
    BY <1>12, <2>2, Zenon DEF OfWire
<1>17. Received(pos)' = text
  <2>1. PICK w \in Seq(Int) : w = wire' /\ Len(w) \in Nat
    BY <1>13
  <2>2. 0 + pos <= Len(w) /\ pos \in Nat
    BY <1>2, <1>10, <1>11, <1>14, <2>1
  <2>3. /\ SubSeq(w, 0 + 1, 0 + pos) \in Seq(Int) /\ Len(SubSeq(w, 0 + 1, 0 + pos)) = pos
        /\ \A j \in 1..pos : SubSeq(w, 0 + 1, 0 + pos)[j] = w[0 + j]
    BY <2>2, PartOf
  <2>4. \A j \in 1..pos : w[0 + j] = text[j] /\ 0 + j = j
    BY <1>15, <2>1, <2>2
  <2>5. SubSeq(w, 0 + 1, 0 + pos) = text
    <3>1. PICK u : u = SubSeq(w, 0 + 1, 0 + pos)
      OBVIOUS
    <3>2. u \in Seq(Int) /\ Len(u) = pos /\ \A j \in 1..pos : u[j] = text[j]
      BY <2>3, <2>4, <3>1, Zenon
    <3>3. u = text
      BY <1>12, <3>2, SeqEqual
    <3> QED
      BY <3>1, <3>3
  <2>6. 0 + 1 = 1 /\ 0 + pos = pos
    BY <2>2
  <2> QED
    BY <1>2, <2>1, <2>5, <2>6, Zenon DEF Received
<1>18. k <= n /\ Holds(p, text, Off(k)) /\ AtLine(k + 1, p.scan, p.data) /\ k \in 0..Len(sent)
  BY <1>4, <1>10 DEF AtEvent
<1>19. \A i \in 1..k : sent'[i] = sent[i]
  <2>1. \A i \in 1..k : i \in 1..n
    BY <1>4, <1>9, <1>18
  <2> QED
    BY <1>5, <2>1
<1>20. k \in 0..Len(sent')
  BY <1>4, <1>5, <1>9, <1>18
<1>21. AtLine(k + 1, p.scan, p.data)'
  <2>1. CASE k < n
    <3>1. k + 1 \in 1..n
      BY <1>4, <1>9, <2>1
    <3> QED
      BY <1>2, <1>5, <1>18, <3>1, AtLineKept
  <2>2. CASE k = n
    <3>1. Len(p.buffer) + Off(k) = Len(text) /\ IsParser(p) /\ Off(k) = Len(wire)
      BY <1>3, <1>4, <1>18, <2>2, WireType DEF Holds
    <3>2. p.scan \in Nat /\ p.scan <= Len(p.buffer) /\ Len(p.buffer) \in Nat
      BY <3>1 DEF IsParser, Parsers
    <3>3. Len(text) <= Len(wire) /\ Len(text) \in Nat
      BY <1>10, <1>11, <1>12
    <3>4. p.scan = 0
      BY <1>11, <3>1, <3>2, <3>3
    <3>5. p.data = <<>>
      <4>1. AtLine(k + 1, 0, p.data) /\ k + 1 \in Nat /\ k + 1 > 0
        BY <1>9, <1>18, <3>4
      <4> QED
        BY <1>3, <4>1, AtStart
    <3> QED
      BY <3>4, <3>5, Zenon DEF AtLine
  <2>3. k < n \/ k = n
    BY <1>4, <1>9, <1>18
  <2> QED
    BY <2>1, <2>2, <2>3
<1>22. AtEvent(k, p, text)'
  BY <1>2, <1>10, <1>16, <1>19, <1>20, <1>21, AtEventKept
<1>23. parsed = [j \in 1..k |-> Ev(j)']
  <2>1. \A j \in 1..k : Ev(j)' = Ev(j)
    BY <1>2, <1>19, EvKept
  <2> QED
    BY <1>10, <2>1
<1>24. Parsing'
  <2>1. Len(parsed)' = k /\ parser' = p /\ Len(parsed)' \in Nat
    BY <1>2, <1>9
  <2>2. AtEvent(Len(parsed), parser, Received(pos))'
    BY <1>17, <1>22, <2>1, Zenon
  <2>3. parsed' = [j \in 1..k |-> Ev(j)']
    BY <1>2, <1>23
  <2>4. NextLine(parser)' = None
    BY <1>2, <1>9, <1>10
  <2> QED
    BY <1>14, <2>1, <2>2, <2>3, <2>4, Zenon DEF Parsing
<1>25. ASSUME ~Translates' PROVE out' = Passed(Len(parsed))'
  <2>1. ~Translates
    BY <1>2, <1>25 DEF Translates, Client, Provider
  <2>2. out = Passed(k)
    BY <1>9, <2>1 DEF Relaying
  <2>3. Passed(k)' = Passed(k)
    BY <1>2, <1>19, PassedKept
  <2>4. Len(parsed)' = k
    BY <1>2, <1>9
  <2> QED
    BY <1>2, <2>2, <2>3, <2>4, Zenon
<1> QED
  BY <1>5, <1>6, <1>8, <1>24, <1>25 DEF Relaying

-----------------------------------------------------------------------------
(* Deliver. *)

LEMMA DeliverTakes ==
    ASSUME Deliver
    PROVE  \E n \in 1..(Len(wire) - pos) : \E fed, s :
              /\ fed = Feed(parser, SubSeq(wire, pos + 1, pos + n))
              /\ s.out = out /\ s.translator = translator
              /\ pos' = pos + n /\ parser' = fed.parser /\ parsed' = parsed \o fed.events
              /\ out' = RelayedAll(s, fed.events).out
              /\ translator' = RelayedAll(s, fed.events).translator
<1> DEFINE s == [meter |-> meter, translator |-> translator, out |-> out]
<1>1. PICK n \in 1..(Len(wire) - pos) :
          /\ pos' = pos + n
          /\ parser' = Feed(parser, SubSeq(wire, pos + 1, pos + n)).parser
          /\ parsed' = parsed \o Feed(parser, SubSeq(wire, pos + 1, pos + n)).events
          /\ out' = RelayedAll(s, Feed(parser, SubSeq(wire, pos + 1, pos + n)).events).out
          /\ translator'
               = RelayedAll(s, Feed(parser, SubSeq(wire, pos + 1, pos + n)).events).translator
  BY Zenon DEF Deliver
<1>2. s.out = out /\ s.translator = translator
  OBVIOUS
<1> HIDE DEF s
<1> QED
  BY <1>1, <1>2, Zenon

\* More events after the first k.
LEMMA MoreEvents ==
    ASSUME NEW k \in Nat, NEW events \in Seq(Evs), \A j \in 1..Len(events) : events[j] = Ev(k + j)
    PROVE  [j \in 1..k |-> Ev(j)] \o events = [j \in 1..(k + Len(events)) |-> Ev(j)]
<1> DEFINE s == [j \in 1..k |-> Ev(j)]
           t == [j \in 1..(k + Len(events)) |-> Ev(j)]
<1>1. Len(events) \in Nat
  OBVIOUS
<1>2. \A j \in Nat : Ev(j) \in Evs
  BY DEF Evs
<1>3. s \in Seq(Evs) /\ Len(s) = k /\ \A j \in 1..k : s[j] = Ev(j)
  BY <1>2
<1>4. t \in Seq(Evs) /\ Len(t) = k + Len(events)
      /\ \A j \in 1..(k + Len(events)) : t[j] = Ev(j)
  BY <1>1, <1>2
<1> HIDE DEF s, t
<1>5. s \o events \in Seq(Evs) /\ Len(s \o events) = k + Len(events)
      /\ \A j \in 1..(k + Len(events)) :
            (s \o events)[j] = IF j <= k THEN s[j] ELSE events[j - k]
  BY <1>1, <1>3
<1>6. ASSUME NEW j \in 1..(k + Len(events)) PROVE (s \o events)[j] = t[j]
  <2>1. CASE j <= k
    BY <1>1, <1>3, <1>4, <1>5, <2>1
  <2>2. CASE ~(j <= k)
    <3>1. j - k \in 1..Len(events) /\ k + (j - k) = j
      BY <1>1, <2>2
    <3>2. (s \o events)[j] = events[j - k]
      BY <1>5, <2>2
    <3>3. events[j - k] = Ev(k + (j - k))
      BY <3>1
    <3> QED
      BY <1>4, <3>1, <3>2, <3>3, Zenon
  <2> QED
    BY <2>1, <2>2
<1>7. s \o events = t
  BY <1>4, <1>5, <1>6, SeqEqual
<1> QED
  BY <1>7 DEF s, t

LEMMA WireKept ==
    ASSUME OnWire, UNCHANGED <<request, ends, sent, wire>>
    PROVE  OnWire'
<1>1. PICK l \in Nat : l = Len(sent)
  BY WireType
<1>2. ASSUME NEW i \in 0..l PROVE All(i)' = All(i) /\ Off(i)' = Off(i)
  BY <1>1, AllKept
<1>3. /\ wire = All(l) /\ sent \in Seq(Events) /\ ends \in LineEnds
      /\ \A i \in 0..l : Off(i) <= Len(wire) /\ \A q \in 1..Off(i) : wire[q] = All(i)[q]
  BY <1>1 DEF OnWire
<1>4. l \in 0..l
  OBVIOUS
<1>5. wire' = All(l)'
  BY <1>2, <1>3, <1>4, Zenon
<1>6. \A i \in 0..l : Off(i)' <= Len(wire) /\ \A q \in 1..Off(i)' : wire[q] = All(i)'[q]
  BY <1>2, <1>3, Zenon
<1>7. /\ sent' \in Seq(Events) /\ ends' \in LineEnds /\ Len(sent)' = l
      /\ \A i \in 0..l : Off(i)' <= Len(wire)' /\ \A q \in 1..Off(i)' : wire'[q] = All(i)'[q]
  BY <1>1, <1>3, <1>6
<1> QED
  BY <1>5, <1>7, Zenon DEF OnWire

\* A step that leaves the stream alone.
LEMMA StillStreaming ==
    ASSUME Relaying, UNCHANGED vars
    PROVE  Relaying'
<1>1. UNCHANGED <<request, include, ends, sent, wire, pos, parser, parsed, out>>
  BY DEF vars, streamVars
<1>2. Asked /\ OnWire /\ AllReport /\ AllOfProvider /\ Parsing /\ ends \in LineEnds
  BY DEF Relaying, OnWire
<1>len. PICK k \in Nat : k = Len(parsed)
  BY <1>2 DEF Parsing
<1>3. PICK p, text : k = Len(parsed) /\ p = parser /\ text = Received(pos)
  BY <1>len
<1>4. /\ AtEvent(k, p, text) /\ pos \in 0..Len(wire) /\ parsed = [j \in 1..k |-> Ev(j)]
      /\ NextLine(p) = None
  BY <1>2, <1>3 DEF Parsing
<1>5. k \in 0..Len(sent) /\ OfWire(text) /\ AtLine(k + 1, p.scan, p.data)
  BY <1>4 DEF AtEvent
<1>6. \A i \in 1..k : sent'[i] = sent[i]
  BY <1>1
<1>7. AtEvent(k, p, text)'
  <2>1. k \in 0..Len(sent') /\ OfWire(text)' /\ sent'[k + 1] = sent[k + 1]
    BY <1>1, <1>5 DEF OfWire
  <2>2. AtLine(k + 1, p.scan, p.data)'
    BY <1>1, <1>5, <2>1, AtLineKept
  <2> QED
    BY <1>1, <1>4, <1>6, <2>1, <2>2, AtEventKept
<1>8. Parsing'
  <2>1. Len(parsed)' = k /\ Len(parsed)' \in Nat /\ parser' = p /\ pos' \in 0..Len(wire)'
    BY <1>1, <1>3, <1>4
  <2>2. Received(pos)' = text
    BY <1>1, <1>3 DEF Received
  <2>3. AtEvent(Len(parsed), parser, Received(pos))'
    BY <1>7, <2>1, <2>2, Zenon
  <2>4. \A j \in 1..k : Ev(j)' = Ev(j)
    BY <1>1, <1>6, EvKept
  <2>5. parsed' = [j \in 1..k |-> Ev(j)']
    BY <1>1, <1>4, <2>4
  <2>6. NextLine(parser)' = None
    BY <1>1, <1>3, <1>4
  <2> QED
    BY <2>1, <2>3, <2>5, <2>6, Zenon DEF Parsing
<1>9. Asked' /\ AllReport' /\ AllOfProvider'
  BY <1>1, <1>2 DEF Asked, Client, Provider, AllReport, AllOfProvider, Reports, OfProvider
<1>10. OnWire'
  BY <1>1, <1>2, WireKept
<1>11. ASSUME ~Translates' PROVE out' = Passed(Len(parsed))'
  <2>1. ~Translates
    BY <1>1, <1>11 DEF Translates, Client, Provider
  <2>2. out = Passed(k)
    BY <1>3, <2>1 DEF Relaying
  <2>3. Passed(k)' = Passed(k) /\ Len(parsed)' = k
    BY <1>1, <1>3, <1>6, PassedKept
  <2> QED
    BY <1>1, <2>2, <2>3, Zenon
<1> QED
  BY <1>8, <1>9, <1>10, <1>11 DEF Relaying

LEMMA DeliverKeeps ==
    ASSUME Relaying, Deliver
    PROVE  Relaying'
<1>len. PICK n \in 1..(Len(wire) - pos) : \E fed, s :
          /\ fed = Feed(parser, SubSeq(wire, pos + 1, pos + n))
          /\ s.out = out
          /\ pos' = pos + n /\ parser' = fed.parser /\ parsed' = parsed \o fed.events
          /\ out' = RelayedAll(s, fed.events).out
  BY DeliverTakes
<1>1. PICK fed, s :
          /\ fed = Feed(parser, SubSeq(wire, pos + 1, pos + n))
          /\ s.out = out
          /\ pos' = pos + n /\ parser' = fed.parser /\ parsed' = parsed \o fed.events
          /\ out' = RelayedAll(s, fed.events).out
  BY <1>len
<1>2. UNCHANGED <<request, include, ends, sent, wire>>
  BY DEF Deliver
<1>3. Asked /\ OnWire /\ AllReport /\ AllOfProvider /\ Parsing /\ ends \in LineEnds
  BY DEF Relaying, OnWire
<1>4. PICK k \in Nat : k = Len(parsed)
  BY <1>3 DEF Parsing
<1>5. /\ pos \in 0..Len(wire) /\ parsed = [j \in 1..k |-> Ev(j)]
      /\ AtEvent(k, parser, Received(pos))
  BY <1>3, <1>4 DEF Parsing
<1> DEFINE chunk == SubSeq(wire, pos + 1, pos + n)
           text == Received(pos + n)
<1>6. /\ parser \in Parsers /\ chunk \in Seq(Int)
      /\ AtEvent(k, WithChunk(parser, chunk), text)
  BY <1>3, <1>5, ChunkJoins
<1>7. TurnInv(k, fed, text) /\ NextLine(fed.parser) = None
  <2>1. AtEvent(k, [parser EXCEPT !.buffer = parser.buffer \o chunk], text)
    BY <1>6, Zenon DEF WithChunk
  <2> HIDE DEF chunk, text
  <2>2. TurnInv(k, Feed(parser, chunk), text) /\ NextLine(Feed(parser, chunk).parser) = None
    BY <1>3, <1>6, <2>1, FeedKeeps
  <2> QED
    BY <1>1, <2>2, Zenon DEF chunk
<1>8. /\ fed.events \in Seq(Evs) /\ \A j \in 1..Len(fed.events) : fed.events[j] = Ev(k + j)
      /\ AtEvent(k + Len(fed.events), fed.parser, text)
  BY <1>7 DEF TurnInv
<1>9. PICK m \in Nat : m = k + Len(fed.events)
  BY <1>8
<1>10. PICK received : received = text
  OBVIOUS
<1>11. AtEvent(m, fed.parser, received) /\ m \in 0..Len(sent) /\ OfWire(received)
       /\ AtLine(m + 1, fed.parser.scan, fed.parser.data)
  BY <1>8, <1>9, <1>10, Zenon DEF AtEvent
<1>12. AtEvent(m, fed.parser, received)'
  <2>1. \A i \in 1..m : sent'[i] = sent[i]
    BY <1>2
  <2>2. m \in 0..Len(sent')
    BY <1>2, <1>11
  <2>3. OfWire(received)'
    BY <1>2, <1>11 DEF OfWire
  <2>4. sent'[m + 1] = sent[m + 1]
    BY <1>2
  <2>5. AtLine(m + 1, fed.parser.scan, fed.parser.data)'
    BY <1>2, <1>11, <2>4, AtLineKept
  <2> QED
    BY <1>2, <1>11, <2>1, <2>2, <2>3, <2>5, AtEventKept
<1>13. parsed' = [j \in 1..m |-> Ev(j)] /\ Len(parsed') = m
  <2>1. parsed' = [j \in 1..m |-> Ev(j)]
    BY <1>1, <1>5, <1>8, <1>9, MoreEvents
  <2> QED
    BY <2>1
<1>14. parsed' = [j \in 1..m |-> Ev(j)']
  <2>1. \A j \in 1..m : Ev(j)' = Ev(j)
    BY <1>2, EvKept
  <2> QED
    BY <1>13, <2>1
<1>15. Received(pos)' = received
  BY <1>1, <1>2, <1>10, Zenon DEF Received
<1>16. pos' \in 0..Len(wire')
  <2>1. Len(wire) \in Nat
    BY <1>3, WireType
  <2> QED
    BY <1>1, <1>2, <1>5, <2>1
<1>17. Parsing'
  <2>1. Len(parsed)' = m /\ Len(parsed)' \in Nat
    BY <1>13
  <2>2. AtEvent(Len(parsed), parser, Received(pos))'
    BY <1>1, <1>12, <1>15, <2>1, Zenon
  <2>3. NextLine(parser)' = None
    BY <1>1, <1>7
  <2> QED
    BY <1>14, <1>16, <2>1, <2>2, <2>3, Zenon DEF Parsing
<1>18. Asked' /\ OnWire' /\ AllReport' /\ AllOfProvider'
  <2>1. Asked'
    BY <1>2, <1>3 DEF Asked, Client, Provider
  <2>2. AllReport' /\ AllOfProvider'
    BY <1>2, <1>3 DEF AllReport, AllOfProvider, Reports, OfProvider, Provider
  <2>3. OnWire'
    BY <1>2, <1>3, WireKept
  <2> QED
    BY <2>1, <2>2, <2>3
<1>19. ASSUME ~Translates' PROVE out' = Passed(Len(parsed))'
  <2>1. ~Translates
    BY <1>2, <1>19 DEF Translates, Client, Provider
  <2>2. s.out = Passed(k)
    BY <1>1, <1>4, <2>1 DEF Relaying
  <2>3. k + Len(fed.events) <= Len(sent)
    BY <1>9, <1>11
  <2>4. RelayedAll(s, fed.events).out = Passed(k + Len(fed.events))
    BY <1>3, <1>8, <2>1, <2>2, <2>3, RelaysPass
  <2>5. Passed(m)' = Passed(m)
    BY <1>2, PassedKept
  <2>6. Len(parsed)' = m
    BY <1>13
  <2> QED
    BY <1>1, <1>9, <2>4, <2>5, <2>6, Zenon
<1> QED
  BY <1>17, <1>18, <1>19 DEF Relaying

-----------------------------------------------------------------------------
(* The other actions. *)

LEMMA ConnectStarts ==
    ASSUME ends \in LineEnds, Asked, Fresh, Connect
    PROVE  Relaying'
<1>1. /\ UNCHANGED <<include, ends, sent, wire, pos, parser, parsed, out>>
      /\ request' = [request EXCEPT !.body = None, !.send = None]
  BY DEF Connect, streamVars
<1>2. /\ sent' = <<>> /\ wire' = <<>> /\ pos' = 0 /\ parser' = NewParser /\ parsed' = <<>>
      /\ out' = <<>> /\ ends' \in LineEnds
  BY <1>1 DEF Fresh
<1>3. Asked'
  <2> DEFINE r == [request EXCEPT !.body = None]
  <2>1. request = [client |-> request.client, provider |-> request.provider,
                   body |-> request.body, send |-> request.send]
    BY DEF Asked
  <2>2. r = [client |-> request.client, provider |-> request.provider,
             body |-> None, send |-> request.send]
    BY <2>1
  <2> HIDE DEF r
  <2>3. [r EXCEPT !.send = None] = [client |-> request.client, provider |-> request.provider,
                                    body |-> None, send |-> None]
    BY <2>2
  <2>4. request' = [client |-> request.client, provider |-> request.provider,
                    body |-> None, send |-> None]
    BY <1>1, <2>3 DEF r
  <2>5. request'.client = request.client /\ request'.provider = request.provider
        /\ request'.body = None /\ request'.send = None
    BY <2>4
  <2> QED
    BY <2>4, <2>5, Zenon DEF Asked, Client, Provider
<1>4. Len(sent)' = 0 /\ Len(wire)' = 0 /\ Len(parsed)' = 0
  BY <1>2
<1>5. All(0)' = <<>> /\ Off(0)' = 0
  <2>1. Enc(0)' = <<>>
    BY DEF Enc
  <2> QED
    BY <2>1, FlattenEmpty DEF All, Off
<1>6. OnWire'
  <2>1. wire' = All(Len(sent))' /\ sent' \in Seq(Events)
    BY <1>2, <1>4, <1>5
  <2>2. ASSUME NEW n \in 0..0
        PROVE  Off(n)' <= Len(wire)' /\ \A q \in 1..Off(n)' : wire'[q] = All(n)'[q]
    <3>1. n = 0
      OBVIOUS
    <3> QED
      BY <1>4, <1>5, <3>1
  <2> QED
    BY <1>2, <1>4, <2>1, <2>2, Zenon DEF OnWire
<1>7. AllReport' /\ AllOfProvider'
  BY <1>4 DEF AllReport, AllOfProvider
<1>8. Received(pos)' = <<>>
  <2>1. SubSeq(<<>>, 1, 0) = <<>>
    OBVIOUS
  <2> QED
    BY <1>2, <2>1, Zenon DEF Received
<1>9. AtEvent(0, NewParser, <<>>)'
  <2>0. NewParser.buffer = <<>> /\ NewParser.scan = 0 /\ NewParser.data = <<>>
        /\ NewParser \in Parsers
    BY DEF NewParser, Parsers
  <2>1. 0 \in 0..Len(sent)' /\ Off(0)' + NewParser.scan = 0
    BY <1>4, <1>5, <2>0
  <2>2. Holds(NewParser, <<>>, 0)
    BY <2>0 DEF Holds, IsParser
  <2>3. OfWire(<<>>)'
    BY <1>4 DEF OfWire
  <2>4. Starts(<<>>, 0)
    BY DEF Starts
  <2>5. AtLine(0 + 1, NewParser.scan, NewParser.data)'
    BY <2>0, Zenon DEF AtLine
  <2>6. EndsUpTo(<<>>, 0, 0)'
    BY DEF EndsUpTo
  <2> QED
    BY <1>5, <2>1, <2>2, <2>3, <2>4, <2>5, <2>6, Zenon DEF AtEvent
<1>10. NextLine(NewParser) = None
  <2>1. {i \in (NewParser.scan + 1)..Len(NewParser.buffer) : NewParser.buffer[i] \in Breaks} = {}
    BY DEF NewParser
  <2> QED
    BY <2>1, Zenon DEF NextLine
<1>11. Parsing'
  <2>1. pos' \in 0..Len(wire)' /\ Len(parsed)' \in Nat
    BY <1>2, <1>4
  <2>2. parsed' = [j \in 1..0 |-> Ev(j)']
    BY <1>2
  <2>3. AtEvent(Len(parsed), parser, Received(pos))'
    BY <1>2, <1>4, <1>8, <1>9, Zenon
  <2>4. NextLine(parser)' = None
    BY <1>2, <1>10
  <2> QED
    BY <1>4, <2>1, <2>2, <2>3, <2>4, Zenon DEF Parsing
<1>12. out' = Passed(Len(parsed))'
  <2>1. Shows(0)' = <<>>
    BY DEF Shows
  <2>2. Passed(0)' = <<>>
    BY <2>1, FlattenEmpty DEF Passed
  <2> QED
    BY <1>2, <1>4, <2>2, Zenon
<1> QED
  BY <1>3, <1>6, <1>7, <1>11, <1>12 DEF Relaying

\* The definitions in PassedOn.
LEMMA HeardIs ==
    ASSUME OnWire, Parsing
    PROVE  /\ DOMAIN Heard = 1..Len(parsed)
           /\ \A i \in 1..Len(parsed) : Heard[i] = sent[i]
           /\ FlattenSeq([i \in DOMAIN Heard |-> Encoded(sent[i], i)]) = All(Len(parsed))
           /\ FlattenSeq([i \in DOMAIN Heard |->
                 IF Provider = "openai" /\ ~include /\ sent[i].t = "usage" THEN <<>>
                 ELSE Encoded(sent[i], i)]) = Passed(Len(parsed))
           /\ SubSeq(wire, Off(Len(parsed)) + 1, pos) = parser.buffer
<1>len. PICK k \in Nat : k = Len(parsed)
  BY DEF Parsing
<1>1. PICK p, text : k = Len(parsed) /\ p = parser /\ text = Received(pos)
  BY <1>len
<1>2. AtEvent(k, p, text) /\ pos \in 0..Len(wire)
  BY <1>1 DEF Parsing
<1>3. k \in 0..Len(sent) /\ Holds(p, text, Off(k)) /\ sent \in Seq(Events)
  BY <1>2 DEF AtEvent, OnWire
<1>4. DOMAIN Heard = 1..k /\ \A i \in 1..k : Heard[i] = sent[i]
  BY <1>1, <1>3 DEF Heard
<1>5. [i \in DOMAIN Heard |-> Encoded(sent[i], i)] = Enc(k)
  BY <1>4, Zenon DEF Enc, Bytes
<1>6. [i \in DOMAIN Heard |->
          IF Provider = "openai" /\ ~include /\ sent[i].t = "usage" THEN <<>>
          ELSE Encoded(sent[i], i)] = Shows(k)
  BY <1>4, Zenon DEF Shows, Shown, Hidden, Bytes
<1>7. wire \in Seq(Int) /\ Len(wire) \in Nat
  BY WireType
<1>8. text \in Seq(Int) /\ Len(text) = pos /\ \A q \in 1..pos : text[q] = wire[q]
  BY <1>1, <1>2, ReceivedIs
<1>9. /\ p.buffer \in Seq(Int) /\ Off(k) \in Nat /\ Len(p.buffer) \in Nat
      /\ Len(p.buffer) + Off(k) = pos
      /\ \A q \in 1..Len(p.buffer) : p.buffer[q] = text[Off(k) + q]
  BY <1>3, <1>8 DEF Holds, IsParser, Parsers
<1>10. SubSeq(wire, Off(k) + 1, pos) = p.buffer
  <2>1. PICK a \in Nat, c \in Nat : a = Len(p.buffer) /\ c = Off(k)
    BY <1>9
  <2>2. c + a = pos /\ c + a <= Len(wire)
    BY <1>2, <1>7, <1>9, <2>1
  <2>3. /\ SubSeq(wire, c + 1, c + a) \in Seq(Int) /\ Len(SubSeq(wire, c + 1, c + a)) = a
        /\ \A j \in 1..a : SubSeq(wire, c + 1, c + a)[j] = wire[c + j]
    BY <1>7, <2>2, PartOf
  <2>4. ASSUME NEW j \in 1..a PROVE wire[c + j] = p.buffer[j]
    <3>1. c + j \in 1..pos
      BY <2>1, <2>2
    <3>2. p.buffer[j] = text[c + j]
      BY <1>9, <2>1
    <3> QED
      BY <1>8, <3>1, <3>2
  <2>5. PICK u : u = SubSeq(wire, c + 1, c + a)
    OBVIOUS
  <2>6. u \in Seq(Int) /\ Len(u) = Len(p.buffer) /\ \A j \in 1..Len(p.buffer) : u[j] = p.buffer[j]
    BY <2>1, <2>3, <2>4, <2>5, Zenon
  <2>7. u = p.buffer
    BY <1>9, <2>6, SeqEqual
  <2> QED
    BY <2>1, <2>2, <2>5, <2>7, Zenon
<1> QED
  BY <1>1, <1>4, <1>5, <1>6, <1>10, Zenon DEF All, Passed

\* While the stream lasts its client has the bytes passed on.
LEMMA StreamingPassed ==
    ASSUME Relaying, phase = "streaming"
    PROVE  PassedOn
<1>1. OnWire /\ Parsing
  BY DEF Relaying
<1>2. CASE Translates
  BY <1>2, Zenon DEF PassedOn
<1>3. CASE ~Translates
  <2>1. out = Passed(Len(parsed))
    BY <1>3 DEF Relaying
  <2>2. FlattenSeq([i \in DOMAIN Heard |->
                 IF Provider = "openai" /\ ~include /\ sent[i].t = "usage" THEN <<>>
                 ELSE Encoded(sent[i], i)]) = out
    BY <1>1, <2>1, HeardIs, Zenon
  <2>3. phase # "ended"
    OBVIOUS
  <2> QED
    BY <2>2, <2>3, Zenon DEF PassedOn
<1> QED
  BY <1>2, <1>3

\* When it ends, the rest may follow.
LEMMA EndPasses ==
    ASSUME Relaying, UNCHANGED <<request, include, ends, sent, wire, pos, parsed>>,
           ~Translates => \/ out' = out \o parser.buffer
                          \/ out' = out /\ row'.outcome # "success",
           phase' = "ended"
    PROVE  PassedOn'
<1>1. OnWire /\ Parsing
  BY DEF Relaying
<1> DEFINE passed == FlattenSeq([i \in DOMAIN Heard |->
                         IF Provider = "openai" /\ ~include /\ sent[i].t = "usage" THEN <<>>
                         ELSE Encoded(sent[i], i)])
           all == FlattenSeq([i \in DOMAIN Heard |-> Encoded(sent[i], i)])
           rest == SubSeq(wire, Len(all) + 1, pos)
<1>2. passed = Passed(Len(parsed)) /\ rest = parser.buffer
  BY <1>1, HeardIs, Zenon DEF Off
<1>3. passed' = passed /\ rest' = rest
  BY Zenon DEF Heard, Encoded, LineEnd, Provider
<1>4. ~Translates' =>
          /\ out' \in {passed, passed \o rest}
          /\ row'.outcome = "success" => out' = passed \o rest
  <2> SUFFICES ASSUME ~Translates'
               PROVE  /\ out' \in {passed, passed \o rest}
                      /\ row'.outcome = "success" => out' = passed \o rest
    OBVIOUS
  <2>1. ~Translates
    BY DEF Translates, Client, Provider
  <2>2. out = passed
    BY <1>2, <2>1, Zenon DEF Relaying
  <2> HIDE DEF passed, rest
  <2> QED
    BY <1>2, <2>1, <2>2, Zenon
<1>5. PassedOn' = (phase' \in {"streaming", "ended"} /\ ~Translates' /\ sent' # <<>> =>
                     /\ out' \in {passed', passed' \o rest'}
                     /\ phase' = "streaming" => out' = passed'
                     /\ phase' = "ended" /\ row'.outcome = "success" => out' = passed' \o rest')
  BY Zenon DEF PassedOn
<1> HIDE DEF passed, rest
<1>6. phase' # "streaming"
  OBVIOUS
<1> QED
  BY <1>3, <1>4, <1>5, <1>6, Zenon

\* What the parser has dispatched is the events of the bytes received.
LEMMA StreamingWhole ==
    ASSUME Relaying
    PROVE  EventsAsWhole
<1>1. OnWire /\ Parsing /\ ends \in LineEnds /\ sent \in Seq(Events)
  BY DEF Relaying, OnWire
<1>len. PICK k \in Nat : k = Len(parsed)
  BY <1>1 DEF Parsing
<1>2. PICK p, text : k = Len(parsed) /\ p = parser /\ text = Received(pos)
  BY <1>len
<1>3. /\ AtEvent(k, p, text) /\ pos \in 0..Len(wire) /\ parsed = [j \in 1..k |-> Ev(j)]
      /\ NextLine(p) = None
  BY <1>1, <1>2 DEF Parsing
<1>4. /\ k \in 0..Len(sent) /\ Holds(p, text, Off(k)) /\ AtLine(k + 1, p.scan, p.data)
      /\ EndsUpTo(text, k, Off(k) + p.scan)
  BY <1>3 DEF AtEvent
<1>5. IsParser(p) /\ p \in Parsers /\ p.buffer \in Seq(Int) /\ p.scan \in Nat /\ Len(p.buffer) \in Nat
      /\ p.scan <= Len(p.buffer)
  BY <1>4 DEF Holds, IsParser, Parsers
<1>6. text \in Seq(Int) /\ Len(text) = pos /\ \A q \in 1..pos : text[q] = wire[q]
  BY <1>1, <1>2, <1>3, ReceivedIs
<1> DEFINE raws == [i \in DOMAIN parsed |-> parsed[i].raw]
<1>7. DOMAIN parsed = 1..k
  BY <1>3
<1>8. \A i \in 1..k : parsed[i].raw = Bytes(i)
                      /\ parsed[i].data = IF sent[i].t = "comment" THEN None ELSE i
  BY <1>3 DEF Ev
<1>9. raws = Enc(k)
  BY <1>7, <1>8, Zenon DEF Enc
<1>10. /\ Off(k) \in Nat /\ Len(p.buffer) + Off(k) = pos
       /\ \A q \in 1..Len(p.buffer) : p.buffer[q] = text[Off(k) + q]
  BY <1>1, <1>4, <1>5, <1>6, AllStep DEF Holds
<1>11. /\ All(k) \in Seq(Int) /\ \A q \in 1..Off(k) : wire[q] = All(k)[q]
  BY <1>1, <1>4, AllStep DEF OnWire
<1>12. All(k) \o p.buffer = text
  <2>1. PICK u : u = All(k) \o p.buffer
    OBVIOUS
  <2>2. /\ u \in Seq(Int) /\ Len(u) = Len(All(k)) + Len(p.buffer)
        /\ \A q \in 1..Len(All(k)) : u[q] = All(k)[q]
        /\ \A q \in 1..Len(p.buffer) : u[Len(All(k)) + q] = p.buffer[q]
    BY <1>5, <1>11, <2>1, TwoParts
  <2>3. PICK c \in Nat, a \in Nat : c = Off(k) /\ a = Len(p.buffer) /\ c = Len(All(k))
    BY <1>5, <1>10 DEF Off
  <2>4. c + a = pos
    BY <1>10, <2>3
  <2>5. Len(u) = Len(text)
    BY <1>6, <2>2, <2>3, <2>4
  <2>6. ASSUME NEW q \in 1..Len(text) PROVE u[q] = text[q]
    <3>1. q \in 1..(c + a)
      BY <1>6, <2>4
    <3>2. CASE q <= c
      <4>1. q \in 1..c /\ q \in 1..pos
        BY <2>3, <2>4, <3>1, <3>2
      <4>2. u[q] = All(k)[q] /\ wire[q] = All(k)[q]
        BY <1>11, <2>2, <2>3, <4>1, Zenon
      <4> QED
        BY <1>6, <4>1, <4>2
    <3>3. CASE ~(q <= c)
      <4>1. PICK j \in 1..a : q = c + j
        <5>1. q - c \in 1..a /\ q = c + (q - c)
          BY <2>3, <3>1, <3>3
        <5> QED
          BY <5>1
      <4>2. u[c + j] = p.buffer[j] /\ p.buffer[j] = text[c + j]
        BY <1>10, <2>2, <2>3, <4>1, Zenon
      <4> QED
        BY <4>1, <4>2
    <3> QED
      BY <3>2, <3>3
  <2>7. u = text
    BY <1>6, <2>2, <2>5, <2>6, SeqEqual
  <2> QED
    BY <2>1, <2>7
<1>13. Len(p.data) <= 1
  <2>1. p.data = <<>> \/ p.data = Datum(k + 1)
    BY <1>4 DEF AtLine
  <2>2. Datum(k + 1) = <<>> \/ Datum(k + 1) = <<k + 1>>
    BY DEF Datum
  <2>3. Len(<<>>) = 0 /\ \A x : Len(<<x>>) = 1
    OBVIOUS
  <2>4. Len(p.data) = 0 \/ Len(p.data) = 1
    BY <2>1, <2>2, <2>3, Zenon
  <2>5. 0 <= 1 /\ 1 <= 1
    OBVIOUS
  <2> QED
    BY <2>4, <2>5, Zenon
<1>14. ASSUME NEW i \in 1..k PROVE Len(FlattenSeq(SubSeq(raws, 1, i))) = Off(i)
  <2>1. SubSeq(Enc(k), 1, i) = Enc(i)
    <3>1. i \in Nat /\ i <= k /\ \A j \in 1..i : j \in 1..k
      OBVIOUS
    <3>2. Enc(i) \in Seq(Seq(Int)) /\ Len(Enc(i)) = i /\ Enc(k) \in Seq(Seq(Int)) /\ Len(Enc(k)) = k
      BY <1>1, <3>1, EncStep
    <3>3. \A j \in 1..i : Enc(i)[j] = Bytes(j) /\ Enc(k)[j] = Bytes(j)
      BY <3>1 DEF Enc
    <3>4. PICK u \in Seq(Seq(Int)) : u = Enc(k)
      BY <3>2
    <3>5. Len(u) = k
      BY <3>2, <3>4
    <3>6. SubSeq(u, 1, i) \in Seq(Seq(Int)) /\ Len(SubSeq(u, 1, i)) = i
          /\ \A j \in 1..i : SubSeq(u, 1, i)[j] = u[j]
      BY <3>1, <3>5
    <3>7. PICK v : v = SubSeq(u, 1, i)
      OBVIOUS
    <3>8. v \in Seq(Seq(Int)) /\ Len(v) = Len(Enc(i)) /\ \A j \in 1..Len(v) : v[j] = Enc(i)[j]
      BY <3>2, <3>3, <3>4, <3>6, <3>7, Zenon
    <3>9. v = Enc(i)
      BY <3>2, <3>8, SeqEqual
    <3> QED
      BY <3>4, <3>7, <3>9
  <2> QED
    BY <1>9, <2>1, Zenon DEF Off, All
<1>15. ASSUME NEW b
       PROVE  b \in EventEnds(text) <=> \E i \in 1..k : b = Off(i)
  <2>1. NoLineIn(p)
    BY <1>3, <1>5, NextLineFinds
  <2>2. \A c \in BreakEnds(text) : c <= Off(k) + p.scan
    BY <1>4, <2>1, NoLineBreaks
  <2>3. ASSUME b \in EventEnds(text) PROVE b \in 1..(Off(k) + p.scan)
    <3>1. b \in BreakEnds(text)
      BY <2>3, EventEndsAre
    <3>2. b \in 1..Len(text)
      BY <1>6, <3>1, BreakEndsAre
    <3>3. b <= Off(k) + p.scan
      BY <2>2, <3>1
    <3>4. b \in Nat /\ b > 0 /\ Off(k) + p.scan \in Nat
      BY <1>5, <1>10, <3>2
    <3> QED
      BY <3>3, <3>4
  <2>4. ASSUME NEW i \in 1..k, b = Off(i) PROVE b \in 1..(Off(k) + p.scan)
    <3>1. \A j \in 0..k : Off(j) \in Nat /\ Off(j) <= Off(k) /\ (j < k => Off(j) < Off(k))
      BY <1>1, OffMono
    <3>2. \A j \in 0..i : Off(j) \in Nat /\ Off(j) <= Off(i) /\ (j < i => Off(j) < Off(i))
      BY <1>1, OffMono
    <3>3. i \in 0..k /\ 0 \in 0..i /\ 0 < i
      OBVIOUS
    <3>4. Off(i) \in Nat /\ Off(i) <= Off(k) /\ Off(0) < Off(i) /\ Off(0) \in Nat
      BY <3>1, <3>2, <3>3
    <3> QED
      BY <1>5, <1>10, <2>4, <3>4
  <2> QED
    BY <1>4, <2>3, <2>4 DEF EndsUpTo
<1>16. {Len(FlattenSeq(SubSeq(raws, 1, i))) : i \in DOMAIN raws} = EventEnds(text)
  <2>1. DOMAIN raws = 1..k
    BY <1>7
  <2> HIDE DEF raws
  <2>2. {Len(FlattenSeq(SubSeq(raws, 1, i))) : i \in DOMAIN raws} = {Off(i) : i \in 1..k}
    BY <1>14, <2>1
  <2> QED
    BY <1>15, <2>2
<1>17. FlattenSeq(raws) \o parser.buffer = SubSeq(wire, 1, pos)
  BY <1>2, <1>9, <1>12, Zenon DEF All, Received
<1>18. text = SubSeq(wire, 1, pos)
  BY <1>2, Zenon DEF Received
<1>19. parser.scan \in 0..Len(parser.buffer) /\ Len(parser.data) <= 1
  BY <1>2, <1>5, <1>13
<1>20. {Len(FlattenSeq(SubSeq(raws, 1, i))) : i \in DOMAIN raws} = EventEnds(SubSeq(wire, 1, pos))
  BY <1>16, <1>18, Zenon
<1>21. \A i \in DOMAIN parsed : parsed[i].data = IF sent[i].t = "comment" THEN None ELSE i
  BY <1>7, <1>8
<1> QED
  BY <1>17, <1>19, <1>20, <1>21, Zenon DEF EventsAsWhole

-----------------------------------------------------------------------------
(* The parser's events and the bytes passed on. *)

LEMMA InvInit ==
    ASSUME Init
    PROVE  StreamsInv
  BY DEF Init, StreamsInv, Fresh

LEMMA InvNext ==
    ASSUME StreamsInv, [Next]_vars
    PROVE  StreamsInv'
<1>1. ends \in LineEnds /\ phase \in {"new", "sent", "streaming", "ended"}
  BY DEF StreamsInv
<1>2. CASE Prepare
  <2>1. phase = "new" /\ phase' = "sent" /\ UNCHANGED <<ends, streamVars, row>> /\ Fresh
    BY <1>2 DEF Prepare, StreamsInv
  <2>2. PICK client, provider, body, send :
            /\ client \in Apis /\ provider \in Apis
            /\ request' = [client |-> client, provider |-> provider, body |-> body, send |-> send]
    BY <1>2, Zenon DEF Prepare
  <2>3. Asked'
    BY <2>2 DEF Asked, Client, Provider
  <2>4. Fresh'
    BY <2>1 DEF Fresh, streamVars
  <2> QED
    BY <1>1, <2>1, <2>3, <2>4 DEF StreamsInv
<1>3. CASE Connect
  <2>1. Relaying' /\ phase' = "streaming" /\ ends' = ends
    BY <1>1, <1>3, ConnectStarts DEF Connect, StreamsInv
  <2> QED
    BY <1>1, <2>1 DEF StreamsInv
<1>4. CASE Answer
  <2>1. phase = "sent" /\ phase' = "ended" /\ UNCHANGED <<ends, sent>> /\ Fresh
    BY <1>4 DEF Answer, StreamsInv
  <2>2. sent' = <<>>
    BY <2>1 DEF Fresh
  <2>3. PassedOn'
    BY <2>2, Zenon DEF PassedOn
  <2> QED
    BY <1>1, <2>1, <2>3 DEF StreamsInv
<1>5. CASE Send
  <2>1. phase = "streaming" /\ phase' = "streaming" /\ ends' = ends
    BY <1>5 DEF Send
  <2>2. Relaying'
    BY <1>5, <2>1, SendKeeps DEF StreamsInv
  <2> QED
    BY <1>1, <2>1, <2>2 DEF StreamsInv
<1>6. CASE Deliver
  <2>1. phase = "streaming" /\ phase' = "streaming" /\ ends' = ends
    BY <1>6 DEF Deliver
  <2>2. Relaying'
    BY <1>6, <2>1, DeliverKeeps DEF StreamsInv
  <2> QED
    BY <1>1, <2>1, <2>2 DEF StreamsInv
<1>7. CASE Finish
  <2>1. phase = "streaming" /\ phase' = "ended"
        /\ UNCHANGED <<request, include, ends, sent, wire, pos, parsed>>
    BY <1>7 DEF Finish, Record
  <2>2. ~Translates => out' = out \o parser.buffer
    BY <1>7, Zenon DEF Finish
  <2>3. PassedOn'
    BY <2>1, <2>2, EndPasses DEF StreamsInv
  <2> QED
    BY <1>1, <2>1, <2>3 DEF StreamsInv
<1>8. CASE Interrupted \/ Disconnected
  <2>1. phase = "streaming" /\ phase' = "ended"
        /\ UNCHANGED <<request, include, ends, sent, wire, pos, parsed, out>>
    BY <1>8 DEF Interrupted, Disconnected, Record, streamVars
  <2>2. row'.outcome # "success"
    <3>1. CASE Interrupted
      BY <3>1 DEF Interrupted, Record
    <3>2. CASE Disconnected
      BY <3>2 DEF Disconnected, Record
    <3> QED
      BY <1>8, <3>1, <3>2
  <2>3. PassedOn'
    BY <2>1, <2>2, EndPasses DEF StreamsInv
  <2> QED
    BY <1>1, <2>1, <2>3 DEF StreamsInv
<1>9. CASE UNCHANGED vars
  <2>1. UNCHANGED <<phase, request, include, ends, sent, wire, pos, parser, parsed, out, row>>
    BY <1>9 DEF vars, streamVars
  <2>2. phase = "streaming" => Relaying'
    BY <1>9, StillStreaming DEF StreamsInv
  <2>3. phase = "ended" => PassedOn'
    <3>1. PassedOn => PassedOn'
      BY <2>1, Zenon DEF PassedOn, Heard, Encoded, LineEnd, Translates, Client, Provider
    <3> QED
      BY <3>1 DEF StreamsInv
  <2>4. phase \in {"new", "sent"} => Fresh'
    BY <2>1 DEF StreamsInv, Fresh
  <2>5. phase = "sent" => Asked'
    BY <2>1 DEF StreamsInv, Asked, Client, Provider
  <2> QED
    BY <1>1, <2>1, <2>2, <2>3, <2>4, <2>5 DEF StreamsInv
<1> QED
  BY <1>2, <1>3, <1>4, <1>5, <1>6, <1>7, <1>8, <1>9 DEF Next

LEMMA InvHolds == Spec => []StreamsInv
  BY InvInit, InvNext, PTL DEF Spec

\* However the provider's bytes are cut, and whatever its line ends, its comments and its kinds of
\* events, the parser of sse.py gives each event once, whole and in order, and holds the rest.
THEOREM EventsWhole == Spec => []EventsAsWhole
<1>1. StreamsInv => EventsAsWhole
  BY StreamingWhole, Zenon DEF StreamsInv, EventsAsWhole
<1> QED
  BY <1>1, InvHolds, PTL

\* A client of the provider's own API receives its bytes, but for the usage chunks that it did not
\* ask for, and the rest if the provider closes the stream.
THEOREM BytesPassedOn == Spec => []PassedOn
<1>1. StreamsInv => PassedOn
  <2>1. phase \notin {"streaming", "ended"} => PassedOn
    BY Zenon DEF PassedOn
  <2>2. StreamsInv /\ phase = "streaming" => PassedOn
    BY StreamingPassed DEF StreamsInv
  <2>3. StreamsInv /\ phase = "ended" => PassedOn
    BY DEF StreamsInv
  <2> QED
    BY <2>1, <2>2, <2>3
<1> QED
  BY <1>1, InvHolds, PTL

-----------------------------------------------------------------------------
(* The members of a sequence in a set. *)

Picked(s, D) == FlattenSeq([i \in DOMAIN s |-> IF s[i] \in D THEN <<s[i]>> ELSE <<>>])

LEMMA PickedIs ==
    ASSUME NEW V, NEW s \in Seq(V), NEW x \in V, NEW D
    PROVE  /\ Picked(s, D) \in Seq(V)
           /\ Picked(Append(s, x), D) = IF x \in D THEN Append(Picked(s, D), x) ELSE Picked(s, D)
<1> DEFINE Part(v) == IF v \in D THEN <<v>> ELSE <<>>
           u == Append(s, x)
           p == [i \in DOMAIN s |-> Part(s[i])]
           q == [i \in DOMAIN u |-> Part(u[i])]
<1>1. Picked(s, D) = FlattenSeq(p) /\ Picked(u, D) = FlattenSeq(q)
  BY Zenon DEF Picked
<1>2. PICK n \in Nat : n = Len(s)
  OBVIOUS
<1>3. /\ u \in Seq(V) /\ Len(u) = n + 1 /\ u[n + 1] = x /\ \A i \in 1..n : u[i] = s[i]
      /\ DOMAIN u = 1..(n + 1) /\ DOMAIN s = 1..n
  BY <1>2
<1>4. \A v \in V : Part(v) \in Seq(V)
  OBVIOUS
<1> HIDE DEF Part, u
<1>5. /\ p \in Seq(Seq(V)) /\ Len(p) = n /\ \A i \in 1..n : p[i] = Part(s[i])
  BY <1>2, <1>3, <1>4
<1>6. /\ q \in Seq(Seq(V)) /\ Len(q) = n + 1 /\ \A i \in 1..(n + 1) : q[i] = Part(u[i])
  BY <1>2, <1>3, <1>4
<1> HIDE DEF p, q
<1>7. n + 1 \in 1..(n + 1) /\ \A i \in 1..n : i \in 1..(n + 1)
  BY <1>2
<1>8. Len(q) = Len(p) + 1 /\ \A i \in 1..Len(p) : q[i] = p[i]
  BY <1>3, <1>5, <1>6, <1>7
<1>9. q = Append(p, q[Len(p) + 1])
  BY <1>5, <1>6, <1>8, OneMore
<1>10. q[Len(p) + 1] = Part(x)
  BY <1>3, <1>5, <1>6, <1>7
<1>11. FlattenSeq(q) = FlattenSeq(p) \o Part(x) /\ FlattenSeq(p) \in Seq(V)
  <2>1. Part(x) \in Seq(V)
    BY <1>4
  <2>2. FlattenSeq(Append(p, Part(x))) = FlattenSeq(p) \o Part(x)
    BY <1>5, <2>1, FlattenAppend
  <2>3. FlattenSeq(p) \in Seq(V)
    BY <1>5, FlattenType
  <2> QED
    BY <1>9, <1>10, <2>2, <2>3, Zenon
<1>12. PICK f \in Seq(V) : f = FlattenSeq(p)
  BY <1>11
<1>13. f \o <<x>> = Append(f, x) /\ f \o <<>> = f
  OBVIOUS
<1>14. CASE x \in D
  <2>1. Part(x) = <<x>>
    BY <1>14 DEF Part
  <2> QED
    BY <1>1, <1>11, <1>12, <1>13, <1>14, <2>1, Zenon DEF u
<1>15. CASE x \notin D
  <2>1. Part(x) = <<>>
    BY <1>15 DEF Part
  <2> QED
    BY <1>1, <1>11, <1>12, <1>13, <1>15, <2>1, Zenon DEF u
<1> QED
  BY <1>14, <1>15

LEMMA PickedNone == \A D : Picked(<<>>, D) = <<>>
<1> SUFFICES ASSUME NEW D PROVE Picked(<<>>, D) = <<>>
  OBVIOUS
<1>1. [i \in DOMAIN <<>> |-> IF <<>>[i] \in D THEN <<<<>>[i]>> ELSE <<>>] = <<>>
  OBVIOUS
<1> QED
  BY <1>1, FlattenEmpty, Zenon DEF Picked

\* What was told, without errors; and its frame.
ToldOf(o) == Chosen(o, LAMBDA e : e.t # "error")
Frames(events) == Chosen(events, LAMBDA e : e.text = <<>>)
FrameOf(o) == Kinds(Frames(ToldOf(o)))

LEMMA ToldPicked ==
    ASSUME NEW V, NEW s \in Seq(V)
    PROVE  ToldOf(s) = Picked(s, {v \in V : v.t # "error"})
<1> DEFINE D == {v \in V : v.t # "error"}
<1>1. \A i \in DOMAIN s : s[i].t # "error" <=> s[i] \in D
  OBVIOUS
<1> HIDE DEF D
<1>2. [i \in DOMAIN s |-> IF s[i].t # "error" THEN <<s[i]>> ELSE <<>>]
        = [i \in DOMAIN s |-> IF s[i] \in D THEN <<s[i]>> ELSE <<>>]
  BY <1>1, Zenon
<1>3. ToldOf(s) = FlattenSeq([i \in DOMAIN s |-> IF s[i].t # "error" THEN <<s[i]>> ELSE <<>>])
  BY Zenon DEF ToldOf, Chosen
<1> QED
  BY <1>2, <1>3, Zenon DEF Picked, D

LEMMA FramesPicked ==
    ASSUME NEW V, NEW s \in Seq(V)
    PROVE  Frames(s) = Picked(s, {v \in V : v.text = <<>>})
<1> DEFINE D == {v \in V : v.text = <<>>}
<1>1. \A i \in DOMAIN s : s[i].text = <<>> <=> s[i] \in D
  OBVIOUS
<1> HIDE DEF D
<1>2. [i \in DOMAIN s |-> IF s[i].text = <<>> THEN <<s[i]>> ELSE <<>>]
        = [i \in DOMAIN s |-> IF s[i] \in D THEN <<s[i]>> ELSE <<>>]
  BY <1>1, Zenon
<1>3. Frames(s) = FlattenSeq([i \in DOMAIN s |-> IF s[i].text = <<>> THEN <<s[i]>> ELSE <<>>])
  BY Zenon DEF Frames, Chosen
<1> QED
  BY <1>2, <1>3, Zenon DEF Picked, D

LEMMA CountPicked ==
    ASSUME NEW V, NEW s \in Seq(V), NEW t
    PROVE  Count(s, t) = Len(Picked(s, {v \in V : v.t = t}))
<1> DEFINE D == {v \in V : v.t = t}
<1>1. \A i \in DOMAIN s : s[i].t = t <=> s[i] \in D
  OBVIOUS
<1> HIDE DEF D
<1>2. [i \in DOMAIN s |-> IF s[i].t = t THEN <<s[i]>> ELSE <<>>]
        = [i \in DOMAIN s |-> IF s[i] \in D THEN <<s[i]>> ELSE <<>>]
  BY <1>1, Zenon
<1>3. Count(s, t) = Len(FlattenSeq([i \in DOMAIN s |-> IF s[i].t = t THEN <<s[i]>> ELSE <<>>]))
  BY Zenon DEF Count, Chosen
<1> QED
  BY <1>2, <1>3, Zenon DEF Picked, D

\* The kinds of a sequence of events.
LEMMA KindsAppend ==
    ASSUME NEW V, NEW s \in Seq(V), NEW x \in V
    PROVE  Kinds(Append(s, x)) = Append(Kinds(s), x.t) /\ Len(Kinds(s)) = Len(s)
<1> DEFINE W == {v.t : v \in V}
           u == Append(s, x)
           p == Kinds(s)
           q == Kinds(u)
<1>2. PICK n \in Nat : n = Len(s)
  OBVIOUS
<1>3. /\ u \in Seq(V) /\ Len(u) = n + 1 /\ u[n + 1] = x /\ \A i \in 1..n : u[i] = s[i]
      /\ DOMAIN u = 1..(n + 1) /\ DOMAIN s = 1..n
  BY <1>2
<1>4. \A v \in V : v.t \in W
  OBVIOUS
<1> HIDE DEF u, W
<1>5. /\ p \in Seq(W) /\ Len(p) = n /\ \A i \in 1..n : p[i] = s[i].t
  BY <1>2, <1>3, <1>4 DEF Kinds
<1>6. /\ q \in Seq(W) /\ Len(q) = n + 1 /\ \A i \in 1..(n + 1) : q[i] = u[i].t
  BY <1>2, <1>3, <1>4 DEF Kinds
<1> HIDE DEF p, q
<1>7. n + 1 \in 1..(n + 1) /\ \A i \in 1..n : i \in 1..(n + 1)
  BY <1>2
<1>8. Len(q) = Len(p) + 1 /\ \A i \in 1..Len(p) : q[i] = p[i]
  BY <1>3, <1>5, <1>6, <1>7
<1>9. q = Append(p, q[Len(p) + 1])
  BY <1>5, <1>6, <1>8, OneMore
<1>10. q[Len(p) + 1] = x.t
  BY <1>3, <1>5, <1>6, <1>7
<1> QED
  BY <1>2, <1>5, <1>9, <1>10, Zenon DEF p, q, u

\* One more event told.
LEMMA FramesAppend ==
    ASSUME NEW V, NEW s \in Seq(V), NEW x \in V
    PROVE  /\ Frames(s) \in Seq(V)
           /\ Kinds(Frames(Append(s, x))) = IF x.text = <<>> THEN Append(Kinds(Frames(s)), x.t)
                                            ELSE Kinds(Frames(s))
<1> DEFINE D == {v \in V : v.text = <<>>}
<1>1. Append(s, x) \in Seq(V)
  OBVIOUS
<1>2. Frames(s) = Picked(s, D) /\ Frames(Append(s, x)) = Picked(Append(s, x), D)
  BY <1>1, FramesPicked
<1>3. x \in D <=> x.text = <<>>
  OBVIOUS
<1> HIDE DEF D
<1>4. /\ Picked(s, D) \in Seq(V)
      /\ Picked(Append(s, x), D) = IF x \in D THEN Append(Picked(s, D), x) ELSE Picked(s, D)
  BY PickedIs
<1>5. Kinds(Append(Frames(s), x)) = Append(Kinds(Frames(s)), x.t)
  BY <1>2, <1>4, KindsAppend
<1> QED
  BY <1>2, <1>3, <1>4, <1>5, Zenon

LEMMA ToldAppend ==
    ASSUME NEW V, NEW s \in Seq(V), NEW x \in V
    PROVE  /\ ToldOf(s) \in Seq(V)
           /\ ToldOf(Append(s, x)) = IF x.t # "error" THEN Append(ToldOf(s), x) ELSE ToldOf(s)
<1> DEFINE D == {v \in V : v.t # "error"}
<1>1. Append(s, x) \in Seq(V)
  OBVIOUS
<1>2. ToldOf(s) = Picked(s, D) /\ ToldOf(Append(s, x)) = Picked(Append(s, x), D)
  BY <1>1, ToldPicked
<1>3. x \in D <=> x.t # "error"
  OBVIOUS
<1> HIDE DEF D
<1>4. /\ Picked(s, D) \in Seq(V)
      /\ Picked(Append(s, x), D) = IF x \in D THEN Append(Picked(s, D), x) ELSE Picked(s, D)
  BY PickedIs
<1> QED
  BY <1>2, <1>3, <1>4, Zenon

\* Text comes only where the frame has as many events as open it.
Inside(T, opening) ==
    \A i \in DOMAIN T : T[i].text # <<>> => Len(Kinds(Frames(SubSeq(T, 1, i)))) = opening

LEMMA InsideAppend ==
    ASSUME NEW V, NEW T \in Seq(V), NEW x \in V, NEW c, Inside(T, c),
           x.text # <<>> => Len(Kinds(Frames(T))) = c
    PROVE  Inside(Append(T, x), c)
<1> DEFINE u == Append(T, x)
<1>1. PICK n \in Nat : n = Len(T)
  OBVIOUS
<1>2. /\ u \in Seq(V) /\ Len(u) = n + 1 /\ u[n + 1] = x /\ \A i \in 1..n : u[i] = T[i]
      /\ DOMAIN u = 1..(n + 1) /\ DOMAIN T = 1..n
  BY <1>1
<1>3. Kinds(Frames(u)) = IF x.text = <<>> THEN Append(Kinds(Frames(T)), x.t) ELSE Kinds(Frames(T))
  BY FramesAppend
<1> HIDE DEF u
<1>4. ASSUME NEW i \in 1..n PROVE SubSeq(u, 1, i) = SubSeq(T, 1, i)
  <2>1. /\ SubSeq(u, 1, i) \in Seq(V) /\ Len(SubSeq(u, 1, i)) = i
        /\ \A j \in 1..i : SubSeq(u, 1, i)[j] = u[j]
    BY <1>1, <1>2
  <2>2. /\ SubSeq(T, 1, i) \in Seq(V) /\ Len(SubSeq(T, 1, i)) = i
        /\ \A j \in 1..i : SubSeq(T, 1, i)[j] = T[j]
    BY <1>1
  <2>3. \A j \in 1..i : j \in 1..n
    BY <1>1
  <2>4. \A j \in 1..i : SubSeq(u, 1, i)[j] = SubSeq(T, 1, i)[j]
    BY <1>2, <2>1, <2>2, <2>3, Zenon
  <2>5. PICK a, b : a = SubSeq(u, 1, i) /\ b = SubSeq(T, 1, i)
    OBVIOUS
  <2>6. a \in Seq(V) /\ b \in Seq(V) /\ Len(a) = i /\ Len(b) = i /\ \A j \in 1..i : a[j] = b[j]
    BY <2>1, <2>2, <2>4, <2>5, Zenon
  <2>7. a = b
    BY <2>6, SeqEqual
  <2> QED
    BY <2>5, <2>7
<1>5. SubSeq(u, 1, n + 1) = u
  <2>1. /\ SubSeq(u, 1, n + 1) \in Seq(V) /\ Len(SubSeq(u, 1, n + 1)) = n + 1
        /\ \A j \in 1..(n + 1) : SubSeq(u, 1, n + 1)[j] = u[j]
    BY <1>1, <1>2
  <2>2. PICK a : a = SubSeq(u, 1, n + 1)
    OBVIOUS
  <2>3. a \in Seq(V) /\ Len(a) = n + 1 /\ \A j \in 1..(n + 1) : a[j] = u[j]
    BY <2>1, <2>2, Zenon
  <2>4. a = u
    BY <1>2, <2>3, SeqEqual
  <2> QED
    BY <2>2, <2>4
<1>6. ASSUME NEW i \in 1..(n + 1), u[i].text # <<>>
      PROVE  Len(Kinds(Frames(SubSeq(u, 1, i)))) = c
  <2>1. CASE i = n + 1
    <3>1. Kinds(Frames(u)) = Kinds(Frames(T))
      BY <1>2, <1>3, <1>6, <2>1, Zenon
    <3>2. Len(Kinds(Frames(T))) = c
      BY <1>2, <1>6, <2>1, Zenon
    <3> QED
      BY <1>5, <2>1, <3>1, <3>2, Zenon
  <2>2. CASE i \in 1..n
    <3>1. T[i].text # <<>>
      BY <1>2, <1>6, <2>2, Zenon
    <3> QED
      BY <1>2, <1>4, <2>2, <3>1, Zenon DEF Inside
  <2>3. i = n + 1 \/ i \in 1..n
    BY <1>1
  <2> QED
    BY <2>1, <2>2, <2>3
<1> QED
  BY <1>2, <1>6, Zenon DEF Inside, u

\* What a client has been told so far, with text only inside its frame.
Tells(o, opening) == (\E V : o \in Seq(V)) /\ Inside(ToldOf(o), opening)

LEMMA TellsNothing ==
    ASSUME NEW c
    PROVE  Tells(<<>>, c) /\ FrameOf(<<>>) = <<>>
<1>1. <<>> \in Seq({}) /\ DOMAIN <<>> = {}
  OBVIOUS
<1>2. ToldOf(<<>>) = <<>> /\ Frames(<<>>) = <<>>
  BY <1>1, ToldPicked, FramesPicked, PickedNone
<1>3. Kinds(<<>>) = <<>>
  BY DEF Kinds
<1>4. Inside(<<>>, c)
  BY <1>1, Zenon DEF Inside
<1> QED
  BY <1>1, <1>2, <1>3, <1>4, Zenon DEF Tells, FrameOf

LEMMA Tell ==
    ASSUME NEW o, NEW c, Tells(o, c), NEW x,
           x.t # "error" /\ x.text # <<>> => Len(FrameOf(o)) = c
    PROVE  /\ Tells(Append(o, x), c)
           /\ FrameOf(Append(o, x)) = IF x.t # "error" /\ x.text = <<>>
                                      THEN Append(FrameOf(o), x.t) ELSE FrameOf(o)
<1>1. PICK U : o \in Seq(U)
  BY DEF Tells
<1> DEFINE V == U \cup {x}
<1>2. o \in Seq(V) /\ x \in V
  BY <1>1
<1> HIDE DEF V
<1>3. /\ ToldOf(o) \in Seq(V) /\ Append(o, x) \in Seq(V)
      /\ ToldOf(Append(o, x)) = IF x.t # "error" THEN Append(ToldOf(o), x) ELSE ToldOf(o)
  BY <1>2, ToldAppend
<1>4. PICK T \in Seq(V) : T = ToldOf(o)
  BY <1>3
<1>5. Inside(T, c) /\ FrameOf(o) = Kinds(Frames(T))
  BY <1>4, Zenon DEF Tells, FrameOf
<1>6. CASE x.t = "error"
  <2>1. ToldOf(Append(o, x)) = ToldOf(o)
    BY <1>3, <1>6
  <2> QED
    BY <1>3, <1>4, <1>5, <1>6, <2>1, Zenon DEF Tells, FrameOf
<1>7. CASE x.t # "error"
  <2>1. ToldOf(Append(o, x)) = Append(T, x)
    BY <1>3, <1>4, <1>7
  <2>2. Kinds(Frames(Append(T, x))) = IF x.text = <<>> THEN Append(Kinds(Frames(T)), x.t)
                                      ELSE Kinds(Frames(T))
    BY <1>2, FramesAppend
  <2>3. x.text # <<>> => Len(Kinds(Frames(T))) = c
    BY <1>5, <1>7
  <2>4. Inside(Append(T, x), c)
    BY <1>2, <1>5, <2>3, InsideAppend
  <2> QED
    BY <1>3, <1>5, <1>7, <2>1, <2>2, <2>4, Zenon DEF Tells, FrameOf
<1> QED
  BY <1>6, <1>7

-----------------------------------------------------------------------------
(* The events sent, in order. *)

LEMMA MaxIs ==
    ASSUME NEW n \in Nat, NEW S \in SUBSET (1..n), S # {}
    PROVE  Max(S) \in S /\ \A j \in S : Max(S) >= j
<1>1. Max(S) \in S
  BY MaxIn
<1> DEFINE D == {n - i : i \in S}
<1>2. D \in SUBSET Nat /\ D # {}
  <2>1. \A i \in S : n - i \in Nat
    OBVIOUS
  <2>2. \A d \in D : d \in Nat
    BY <2>1
  <2>3. n - Max(S) \in D
    BY <1>1
  <2> QED
    BY <2>2, <2>3
<1>3. PICK m \in D : \A d \in D : m <= d
  BY <1>2, MinExists
<1>4. PICK i \in S : m = n - i
  BY <1>3
<1>5. ASSUME NEW j \in S PROVE i >= j
  <2>1. n - i <= n - j
    BY <1>3, <1>4
  <2>2. i \in Nat /\ j \in Nat
    OBVIOUS
  <2> HIDE DEF D
  <2> QED
    BY <2>1, <2>2
<1>6. i \in S /\ \A j \in S : i >= j
  BY <1>5
<1> QED
  BY <1>6, Zenon DEF Max

Signals(s) == {i \in DOMAIN s : s[i].t \notin Noise}

LEMMA StageOf ==
    ASSUME NEW s
    PROVE  Stage(s) = IF Signals(s) = {} THEN "none" ELSE s[Max(Signals(s))].t
  BY Zenon DEF Stage, Signals

LEMMA StageAppend ==
    ASSUME NEW s \in Seq(Events), NEW e \in Events
    PROVE  Stage(Append(s, e)) = IF e.t \in Noise THEN Stage(s) ELSE e.t
<1> DEFINE u == Append(s, e)
<1>1. PICK n \in Nat : n = Len(s)
  OBVIOUS
<1>2. /\ u[n + 1] = e /\ \A i \in 1..n : u[i] = s[i]
      /\ DOMAIN u = 1..(n + 1) /\ DOMAIN s = 1..n
  BY <1>1
<1> HIDE DEF u
<1>3. n + 1 \in 1..(n + 1) /\ \A i \in 1..n : i \in 1..(n + 1)
  BY <1>1
<1>4. \A i \in 1..(n + 1) : i \in 1..n \/ i = n + 1
  BY <1>1
<1>5. Stage(u) = IF Signals(u) = {} THEN "none" ELSE u[Max(Signals(u))].t
  BY StageOf
<1>6. CASE e.t \in Noise
  <2>1. Signals(u) = Signals(s)
    <3>1. \A i : i \in Signals(u) <=> i \in Signals(s)
      BY <1>2, <1>3, <1>4, <1>6, Zenon DEF Signals
    <3> QED
      BY <3>1
  <2>2. CASE Signals(s) = {}
    BY <1>5, <1>6, <2>1, <2>2, StageOf, Zenon DEF u
  <2>3. CASE Signals(s) # {}
    <3>1. Signals(s) \in SUBSET (1..n)
      BY <1>2 DEF Signals
    <3>2. Max(Signals(s)) \in 1..n
      BY <2>3, <3>1, MaxIn
    <3>3. u[Max(Signals(s))] = s[Max(Signals(s))]
      BY <1>2, <3>2
    <3> QED
      BY <1>5, <1>6, <2>1, <2>3, <3>3, StageOf, Zenon DEF u
  <2> QED
    BY <2>2, <2>3
<1>7. CASE e.t \notin Noise
  <2>1. n + 1 \in Signals(u) /\ Signals(u) \in SUBSET (1..(n + 1))
    BY <1>2, <1>3, <1>7 DEF Signals
  <2>2. PICK x : x = Max(Signals(u))
    OBVIOUS
  <2>3. Signals(u) # {}
    BY <2>1
  <2>4. x \in Signals(u) /\ x >= n + 1
    <3>1. n + 1 \in Nat
      BY <1>1
    <3> QED
      BY <2>1, <2>2, <2>3, <3>1, MaxIs
  <2>5. x = n + 1
    <3>1. x \in 1..(n + 1)
      BY <2>1, <2>4
    <3> QED
      BY <1>1, <2>4, <3>1
  <2> QED
    BY <1>2, <1>5, <1>7, <2>2, <2>3, <2>5, Zenon DEF u
<1> QED
  BY <1>6, <1>7

\* After the first events sent.
First(m) == SubSeq(sent, 1, m)
StageAt(m) == Stage(First(m))
DeltasAt(m) == Count(First(m), "message_delta")

LEMMA FirstStep ==
    ASSUME sent \in Seq(Events), NEW m \in Nat, m < Len(sent)
    PROVE  /\ First(m) \in Seq(Events) /\ sent[m + 1] \in Events
           /\ First(m + 1) = Append(First(m), sent[m + 1])
<1>1. PICK n \in Nat : n = Len(sent) /\ m < n
  OBVIOUS
<1>2. /\ First(m) \in Seq(Events) /\ Len(First(m)) = m /\ \A i \in 1..m : First(m)[i] = sent[i]
  BY <1>1 DEF First
<1>3. /\ First(m + 1) \in Seq(Events) /\ Len(First(m + 1)) = m + 1
      /\ \A i \in 1..(m + 1) : First(m + 1)[i] = sent[i]
  BY <1>1 DEF First
<1>4. m + 1 \in 1..(m + 1) /\ \A i \in 1..m : i \in 1..(m + 1)
  OBVIOUS
<1>5. Len(First(m + 1)) = Len(First(m)) + 1
      /\ \A i \in 1..Len(First(m)) : First(m + 1)[i] = First(m)[i]
  BY <1>2, <1>3, <1>4
<1>6. First(m + 1) = Append(First(m), First(m + 1)[Len(First(m)) + 1])
  BY <1>2, <1>3, <1>5, OneMore
<1>7. First(m + 1)[Len(First(m)) + 1] = sent[m + 1]
  BY <1>2, <1>3, <1>4
<1>8. sent[m + 1] \in Events
  BY <1>1
<1> QED
  BY <1>2, <1>6, <1>7, <1>8, Zenon

LEMMA AtStep ==
    ASSUME sent \in Seq(Events), NEW m \in Nat, m < Len(sent)
    PROVE  /\ StageAt(m + 1) = IF sent[m + 1].t \in Noise THEN StageAt(m) ELSE sent[m + 1].t
           /\ DeltasAt(m) \in Nat
           /\ DeltasAt(m + 1) = IF sent[m + 1].t = "message_delta" THEN DeltasAt(m) + 1
                                ELSE DeltasAt(m)
<1> DEFINE D == {v \in Events : v.t = "message_delta"}
<1>1. PICK s, e : s = First(m) /\ e = sent[m + 1]
  OBVIOUS
<1>2. s \in Seq(Events) /\ e \in Events /\ First(m + 1) = Append(s, e)
  BY <1>1, FirstStep
<1>3. StageAt(m + 1) = IF e.t \in Noise THEN Stage(s) ELSE e.t
  BY <1>2, StageAppend DEF StageAt
<1>4. Append(s, e) \in Seq(Events)
  BY <1>2
<1>5. Count(s, "message_delta") = Len(Picked(s, D))
      /\ Count(Append(s, e), "message_delta") = Len(Picked(Append(s, e), D))
  BY <1>2, <1>4, CountPicked
<1>6. e \in D <=> e.t = "message_delta"
  BY <1>2
<1> HIDE DEF D
<1>7. /\ Picked(s, D) \in Seq(Events)
      /\ Picked(Append(s, e), D) = IF e \in D THEN Append(Picked(s, D), e) ELSE Picked(s, D)
  BY <1>2, PickedIs
<1>8. Len(Picked(s, D)) \in Nat /\ Len(Append(Picked(s, D), e)) = Len(Picked(s, D)) + 1
  BY <1>2, <1>7
<1> QED
  BY <1>1, <1>2, <1>3, <1>5, <1>6, <1>7, <1>8, Zenon DEF StageAt, DeltasAt

LEMMA AtZero == StageAt(0) = "none" /\ DeltasAt(0) = 0
<1>1. First(0) = <<>>
  BY DEF First
<1>2. Signals(<<>>) = {}
  BY DEF Signals
<1>3. <<>> \in Seq(Events)
  OBVIOUS
<1>4. Count(<<>>, "message_delta") = Len(<<>>)
  <2>1. Count(<<>>, "message_delta") = Len(Picked(<<>>, {v \in Events : v.t = "message_delta"}))
    BY <1>3, CountPicked
  <2> QED
    BY <2>1, PickedNone, Zenon
<1> QED
  BY <1>1, <1>2, <1>4, StageOf DEF StageAt, DeltasAt

\* Each event may follow those before it, and none the last of a stream.
Ordered ==
    \A i \in 1..Len(sent) :
        /\ StageAt(i - 1) \notin Final
        /\ sent[i].t \notin Noise => sent[i].t \in Follows[Provider][StageAt(i - 1)]

LEMMA FinalLast ==
    ASSUME sent \in Seq(Events), Ordered, NEW i \in 1..Len(sent), sent[i].t \in Final
    PROVE  i = Len(sent)
<1> SUFFICES ASSUME i # Len(sent) PROVE FALSE
  OBVIOUS
<1>1. PICK n \in Nat : n = Len(sent)
  OBVIOUS
<1>2. i \in Nat /\ i < n /\ i + 1 \in 1..n /\ (i + 1) - 1 = i
      /\ i - 1 \in Nat /\ i - 1 < n /\ (i - 1) + 1 = i
  BY <1>1
<1>3. StageAt((i - 1) + 1) = IF sent[(i - 1) + 1].t \in Noise THEN StageAt(i - 1)
                             ELSE sent[(i - 1) + 1].t
  BY <1>1, <1>2, AtStep
<1>4. sent[i].t \notin Noise
  BY DEF Noise, Final
<1>5. StageAt(i) = sent[i].t
  BY <1>2, <1>3, <1>4, Zenon
<1>6. StageAt((i + 1) - 1) \notin Final
  BY <1>1, <1>2, Zenon DEF Ordered
<1> QED
  BY <1>2, <1>5, <1>6, Zenon

-----------------------------------------------------------------------------
(* What a translator tells a client, event by event. *)

LEMMA PairOf ==
    ASSUME NEW x, NEW y
    PROVE  <<x>> \o <<y>> = <<x, y>>
<1> DEFINE V == {x, y}
<1>1. <<x>> \in Seq(V) /\ <<y>> \in Seq(V) /\ <<x, y>> \in Seq(V)
  OBVIOUS
<1>2. Len(<<x>>) = 1 /\ Len(<<y>>) = 1 /\ Len(<<x, y>>) = 2
      /\ <<x>>[1] = x /\ <<y>>[1] = y /\ <<x, y>>[1] = x /\ <<x, y>>[2] = y
  OBVIOUS
<1> HIDE DEF V
<1>3. PICK a \in Seq(V), b \in Seq(V), c \in Seq(V) : a = <<x>> /\ b = <<y>> /\ c = <<x, y>>
  BY <1>1
<1>4. /\ Len(a) = 1 /\ Len(b) = 1 /\ Len(c) = 2
      /\ a[1] = x /\ b[1] = y /\ c[1] = x /\ c[2] = y
  BY <1>2, <1>3, Zenon
<1>5. a \o b \in Seq(V) /\ Len(a \o b) = 2 /\ (a \o b)[1] = x /\ (a \o b)[2] = y
  <2>1. a \o b \in Seq(V) /\ Len(a \o b) = Len(a) + Len(b)
        /\ \A i \in 1..(Len(a) + Len(b)) :
              (a \o b)[i] = IF i <= Len(a) THEN a[i] ELSE b[i - Len(a)]
    OBVIOUS
  <2>2. Len(a) + Len(b) = 2 /\ 1 \in 1..2 /\ 2 \in 1..2 /\ 1 <= 1 /\ ~(2 <= 1) /\ 2 - 1 = 1
    BY <1>4
  <2> QED
    BY <1>4, <2>1, <2>2, Zenon
<1>6. PICK d \in Seq(V) : d = a \o b
  BY <1>5
<1>7. Len(d) = Len(c) /\ \A i \in 1..Len(d) : d[i] = c[i]
  BY <1>4, <1>5, <1>6
<1>8. d = c
  BY <1>7, SeqEqual
<1> QED
  BY <1>3, <1>6, <1>8, Zenon

LEMMA Joined2 ==
    ASSUME NEW o, NEW c, Tells(o, c), NEW x, NEW y
    PROVE  /\ o \o <<>> = o /\ o \o <<x>> = Append(o, x)
           /\ o \o <<x, y>> = Append(Append(o, x), y)
<1>1. PICK U : o \in Seq(U)
  BY DEF Tells
<1> DEFINE V == U \cup {x, y}
<1>2. o \in Seq(V) /\ x \in V /\ y \in V
  BY <1>1
<1> HIDE DEF V
<1>3. o \o <<>> = o
  BY <1>2
<1>4. \A s \in Seq(V), v \in V : s \o <<v>> = Append(s, v) /\ Append(s, v) \in Seq(V)
  OBVIOUS
<1>5. <<x, y>> = <<x>> \o <<y>> /\ <<x>> \in Seq(V) /\ <<y>> \in Seq(V)
  <2>1. <<x>> \in Seq(V) /\ <<y>> \in Seq(V)
    BY <1>2
  <2> QED
    BY <2>1, PairOf, Zenon
<1>6. o \o (<<x>> \o <<y>>) = (o \o <<x>>) \o <<y>>
  BY <1>2, <1>5, ConcatAssociative
<1>7. o \o <<x>> = Append(o, x) /\ Append(o, x) \o <<y>> = Append(Append(o, x), y)
  BY <1>2, <1>4
<1> QED
  BY <1>3, <1>5, <1>6, <1>7, Zenon

LEMMA Joined3 ==
    ASSUME NEW o, NEW c, Tells(o, c), NEW x, NEW y, NEW z
    PROVE  /\ o \o <<x, y, z>> = Append(Append(Append(o, x), y), z)
           /\ o \o (<<x, y>> \o <<z>>) = Append(Append(Append(o, x), y), z)
           /\ o \o (<<x, y>> \o <<>>) = Append(Append(o, x), y)
           /\ o \o (<<>> \o <<x>>) = Append(o, x) /\ o \o (<<>> \o <<>>) = o
<1>1. PICK U : o \in Seq(U)
  BY DEF Tells
<1> DEFINE V == U \cup {x, y, z}
<1>2. o \in Seq(V) /\ x \in V /\ y \in V /\ z \in V
  BY <1>1
<1> HIDE DEF V
<1>3. <<x, y>> \in Seq(V) /\ <<z>> \in Seq(V) /\ o \o <<x, y>> \in Seq(V)
  BY <1>2
<1>4. <<x, y, z>> = <<x, y>> \o <<z>> /\ <<x, y>> \o <<>> = <<x, y>>
      /\ <<>> \o <<x>> = <<x>> /\ <<>> \o <<>> = <<>>
  BY <1>2
<1>5. o \o (<<x, y>> \o <<z>>) = (o \o <<x, y>>) \o <<z>>
  BY <1>2, <1>3, ConcatAssociative
<1>6. \A s \in Seq(V) : s \o <<z>> = Append(s, z)
  BY <1>2
<1>7. (o \o <<x, y>>) \o <<z>> = Append(o \o <<x, y>>, z)
  BY <1>3, <1>6
<1>8. o \o <<x, y>> = Append(Append(o, x), y) /\ o \o <<x>> = Append(o, x) /\ o \o <<>> = o
  BY Joined2
<1> QED
  BY <1>4, <1>5, <1>7, <1>8, Zenon

\* The frame of a stream for OpenAI's client with so many finish reasons, before it ends and whole.
Fins(f) == [i \in 1..f |-> "finish"]
Open(f) == <<"role">> \o Fins(f)
Whole(f) == <<"role">> \o Fins(f) \o (IF include THEN <<"usage">> ELSE <<>>) \o <<"done">>

LEMMA OpenIs ==
    ASSUME NEW f \in Nat
    PROVE  /\ Open(f) \in Seq({"role", "finish", "usage", "done"})
           /\ Open(0) = <<"role">> /\ Len(Open(0)) = 1 /\ Append(<<>>, "role") = Open(0)
           /\ Open(f + 1) = Append(Open(f), "finish")
           /\ Whole(f) = IF include THEN Append(Append(Open(f), "usage"), "done")
                         ELSE Append(Open(f), "done")
<1> DEFINE K == {"role", "finish", "usage", "done"}
<1>1. "role" \in K /\ "finish" \in K /\ "usage" \in K /\ "done" \in K
  OBVIOUS
<1> HIDE DEF K
<1>2. \A n \in Nat : Fins(n) \in Seq(K) /\ Len(Fins(n)) = n /\ \A i \in 1..n : Fins(n)[i] = "finish"
  BY <1>1 DEF Fins
<1>3. Fins(f + 1) = Append(Fins(f), "finish")
  <2>1. f + 1 \in Nat /\ f + 1 \in 1..(f + 1) /\ \A i \in 1..f : i \in 1..(f + 1)
    OBVIOUS
  <2>2. PICK s \in Seq(K), t \in Seq(K) : s = Fins(f) /\ t = Fins(f + 1)
    BY <1>2, <2>1
  <2>3. Len(s) = f /\ Len(t) = f + 1 /\ t[f + 1] = "finish"
        /\ \A i \in 1..f : s[i] = "finish" /\ t[i] = "finish"
    BY <1>2, <2>1, <2>2
  <2>4. Len(t) = Len(s) + 1 /\ \A i \in 1..Len(s) : t[i] = s[i]
    BY <2>3
  <2>5. t = Append(s, t[Len(s) + 1])
    BY <2>4, OneMore
  <2> QED
    BY <2>2, <2>3, <2>5, Zenon
<1>4. <<"role">> \in Seq(K) /\ <<"finish">> \in Seq(K) /\ <<"usage">> \in Seq(K)
      /\ <<"done">> \in Seq(K)
  BY <1>1
<1>5. PICK s \in Seq(K) : s = Fins(f)
  BY <1>2
<1>6. Append(s, "finish") = s \o <<"finish">>
  BY <1>1
<1>7. <<"role">> \o s \in Seq(K)
  BY <1>4
<1>8. <<"role">> \o (s \o <<"finish">>) = (<<"role">> \o s) \o <<"finish">>
  BY <1>4, ConcatAssociative
<1>9. \A u \in Seq(K), k \in K :
          u \o <<k>> = Append(u, k) /\ Append(u, k) \in Seq(K) /\ u \o <<>> = u
  OBVIOUS
<1>10. Open(f + 1) = Append(Open(f), "finish")
  BY <1>1, <1>3, <1>5, <1>6, <1>7, <1>8, <1>9, Zenon DEF Open
<1>11. Fins(0) = <<>> /\ <<"role">> \o <<>> = <<"role">> /\ Append(<<>>, "role") = <<"role">>
       /\ Len(<<"role">>) = 1
  BY DEF Fins
<1>12. Open(0) = <<"role">>
  BY <1>11, Zenon DEF Open
<1>13. CASE include
  <2>1. Whole(f) = ((<<"role">> \o s) \o <<"usage">>) \o <<"done">>
    BY <1>5, <1>13, Zenon DEF Whole
  <2>2. (<<"role">> \o s) \o <<"usage">> = Append(<<"role">> \o s, "usage")
        /\ Append(<<"role">> \o s, "usage") \in Seq(K)
    BY <1>1, <1>7, <1>9
  <2>3. Append(<<"role">> \o s, "usage") \o <<"done">>
          = Append(Append(<<"role">> \o s, "usage"), "done")
    BY <1>1, <1>9, <2>2
  <2>4. Whole(f) = Append(Append(Open(f), "usage"), "done")
    BY <1>5, <2>1, <2>2, <2>3, Zenon DEF Open
  <2> QED
    BY <1>5, <1>7, <1>10, <1>11, <1>12, <1>13, <2>4, Zenon DEF Open, K
<1>14. CASE ~include
  <2>1. Whole(f) = ((<<"role">> \o s) \o <<>>) \o <<"done">>
    BY <1>5, <1>14, Zenon DEF Whole
  <2>2. (<<"role">> \o s) \o <<>> = <<"role">> \o s
    BY <1>1, <1>7, <1>9
  <2>3. (<<"role">> \o s) \o <<"done">> = Append(<<"role">> \o s, "done")
    BY <1>1, <1>7, <1>9
  <2>4. Whole(f) = Append(Open(f), "done")
    BY <1>5, <2>1, <2>2, <2>3, Zenon DEF Open
  <2> QED
    BY <1>5, <1>7, <1>10, <1>11, <1>12, <1>14, <2>4, Zenon DEF Open, K
<1> QED
  BY <1>13, <1>14

\* What AnthropicToOpenAIStream returns for an event.
Bare(x, t) == x.t = t /\ x.text = <<>>

LEMMA PlainEvent ==
    ASSUME NEW t, NEW stop, NEW usage
    PROVE  /\ Bare(Event(t), t) /\ Bare([Event(t) EXCEPT !.stop = stop], t)
           /\ Bare([Event(t) EXCEPT !.usage = usage], t)
           /\ Bare([Event(t) EXCEPT !.stop = stop, !.usage = usage], t)
<1>1. Bare(Event(t), t) /\ Bare([Event(t) EXCEPT !.stop = stop], t)
      /\ Bare([Event(t) EXCEPT !.usage = usage], t)
  BY DEF Bare, Event
<1>2. Bare([Event(t) EXCEPT !.stop = stop, !.usage = usage], t)
  BY TwoFields, ZenonT(40) DEF Bare
<1> QED
  BY <1>1, <1>2

LEMMA StopGives ==
    ASSUME NEW tr, NEW data, IsObject(data), data.t = "message_stop"
    PROVE  \E x, y : /\ FeedToOpenAI(tr, data).out = IF include THEN <<x, y>> ELSE <<y>>
                     /\ Bare(x, "usage") /\ Bare(y, "done")
<1> DEFINE o == FeedToOpenAI(tr, data).out
           x == [Event("usage") EXCEPT !.usage = OpenAIUsage(tr.usage)]
           y == Event("done")
<1>1. o = (IF include THEN <<x>> ELSE <<>>) \o <<y>>
  BY DEF FeedToOpenAI
<1>2. Bare(x, "usage") /\ Bare(y, "done")
  BY PlainEvent
<1> HIDE DEF o, x, y
<1>3. <<x>> \o <<y>> = <<x, y>> /\ <<>> \o <<y>> = <<y>>
  <2>1. <<y>> \in Seq({y}) /\ \A s \in Seq({y}) : <<>> \o s = s
    OBVIOUS
  <2> QED
    BY <2>1, PairOf
<1>4. o = IF include THEN <<x, y>> ELSE <<y>>
  BY <1>1, <1>3, Zenon
<1> QED
  BY <1>2, <1>4, Zenon DEF o

LEMMA ToOpenAIGives ==
    ASSUME NEW tr, NEW data
    PROVE  LET o == FeedToOpenAI(tr, data).out
           IN  /\ ~IsObject(data) => o = <<>>
               /\ IsObject(data) /\ data.t = "message_start" =>
                     \E x : o = <<x>> /\ Bare(x, "role")
               /\ IsObject(data) /\ data.t = "text_delta" =>
                     \E x : o = <<x>> /\ x.t = "text" /\ x.text = data.text
               /\ IsObject(data) /\ data.t = "message_delta" =>
                     \E x : o = <<x>> /\ Bare(x, "finish")
               /\ IsObject(data) /\ data.t = "message_stop" =>
                     \E x, y : /\ o = IF include THEN <<x, y>> ELSE <<y>>
                               /\ Bare(x, "usage") /\ Bare(y, "done")
               /\ IsObject(data) /\ data.t = "error" =>
                     \E x : o = <<x>> /\ x.t = "error"
               /\ IsObject(data) /\ data.t \notin {"message_start", "text_delta", "message_delta",
                                                   "message_stop", "error"} => o = <<>>
<1> DEFINE o == FeedToOpenAI(tr, data).out
<1>1. CASE ~IsObject(data)
  <2>1. FeedToOpenAI(tr, data) = [tr |-> tr, out |-> <<>>]
    BY <1>1 DEF FeedToOpenAI
  <2> QED
    BY <1>1, <2>1
<1>2. CASE IsObject(data) /\ data.t = "message_start"
  <2>1. o = <<Event("role")>>
    BY <1>2 DEF FeedToOpenAI
  <2> HIDE DEF o
  <2> QED
    BY <1>2, <2>1, PlainEvent DEF o
<1>3. CASE IsObject(data) /\ data.t = "text_delta"
  <2>1. o = <<[Event("text") EXCEPT !.text = data.text]>>
    BY <1>3 DEF FeedToOpenAI
  <2>2. [Event("text") EXCEPT !.text = data.text].t = "text"
        /\ [Event("text") EXCEPT !.text = data.text].text = data.text
    BY DEF Event
  <2> HIDE DEF o
  <2> QED
    BY <1>3, <2>1, <2>2, Zenon DEF o
<1>4. CASE IsObject(data) /\ data.t = "message_delta"
  <2>1. o = <<[Event("finish") EXCEPT !.stop = ToOpenAIFinish(data.stop)]>>
    BY <1>4 DEF FeedToOpenAI
  <2> HIDE DEF o
  <2> QED
    BY <1>4, <2>1, PlainEvent DEF o
<1>5. CASE IsObject(data) /\ data.t = "message_stop"
  BY <1>5, StopGives, Zenon
<1>6. CASE IsObject(data) /\ data.t = "error"
  <2>1. o = <<Event("error")>>
    BY <1>6 DEF FeedToOpenAI
  <2> HIDE DEF o
  <2> QED
    BY <1>6, <2>1, PlainEvent DEF o, Bare
<1>7. CASE IsObject(data) /\ data.t \notin {"message_start", "text_delta", "message_delta",
                                            "message_stop", "error"}
  <2>1. o = <<>>
    BY <1>7 DEF FeedToOpenAI
  <2> QED
    BY <1>7, <2>1
<1> QED
  BY <1>1, <1>2, <1>3, <1>4, <1>5, <1>6, <1>7

\* What OpenAIToAnthropicStream returns for an event, and when the provider closes.
TrOf(a, b, c, d) == [started |-> a, closed |-> b, stop |-> c, usage |-> d]
IsTranslator(tr) ==
    /\ tr = TrOf(tr.started, tr.closed, tr.stop, tr.usage)
    /\ tr.started \in BOOLEAN /\ tr.closed \in BOOLEAN

LEMMA CloseGives ==
    ASSUME NEW tr, IsTranslator(tr)
    PROVE  LET c == Close(tr)
           IN  /\ ~tr.started \/ tr.closed => c.tr = tr /\ c.out = <<>>
               /\ tr.started /\ ~tr.closed =>
                     /\ IsTranslator(c.tr) /\ c.tr.started /\ c.tr.closed
                     /\ \E x, y, z : /\ c.out = <<x, y, z>> /\ Bare(x, "content_block_stop")
                                     /\ Bare(y, "message_delta") /\ Bare(z, "message_stop")
<1> DEFINE c == Close(tr)
<1>1. CASE ~tr.started \/ tr.closed
  <2>1. c = [tr |-> tr, out |-> <<>>]
    BY <1>1, Zenon DEF Close
  <2> QED
    BY <1>1, <2>1
<1>2. CASE tr.started /\ ~tr.closed
  <2> DEFINE x == Event("content_block_stop")
             y == [Event("message_delta") EXCEPT !.stop = tr.stop,
                                                 !.usage = AnthropicUsage(tr.usage)]
             z == Event("message_stop")
             t == [tr EXCEPT !.closed = TRUE]
  <2>1. c = [tr |-> t, out |-> <<x, y, z>>]
    BY <1>2, Zenon DEF Close
  <2>2. Bare(x, "content_block_stop") /\ Bare(y, "message_delta") /\ Bare(z, "message_stop")
    BY PlainEvent
  <2>3. t = TrOf(tr.started, TRUE, tr.stop, tr.usage)
    <3>1. PICK a, b, c0, d : a = tr.started /\ b = tr.closed /\ c0 = tr.stop /\ d = tr.usage
      OBVIOUS
    <3>2. tr = TrOf(a, b, c0, d)
      BY <3>1, Zenon DEF IsTranslator
    <3>3. t = TrOf(a, TRUE, c0, d)
      <4> DEFINE T == TRUE
      <4> HIDE DEF T
      <4>1. [tr EXCEPT !.closed = T] = TrOf(a, T, c0, d)
        BY <3>2 DEF TrOf
      <4> QED
        BY <4>1, Zenon DEF T
    <3> QED
      BY <3>1, <3>2, <3>3, Zenon
  <2> HIDE DEF x, y, z, t, c
  <2>4. c.tr = t /\ c.out = <<x, y, z>>
    BY <2>1
  <2>5. t.started = tr.started /\ t.closed = TRUE /\ t.stop = tr.stop /\ t.usage = tr.usage
    BY <2>3 DEF TrOf
  <2>6. IsTranslator(t)
    BY <1>2, <2>3, <2>5, Zenon DEF IsTranslator
  <2> QED
    BY <1>2, <2>2, <2>4, <2>5, <2>6, Zenon DEF c
<1> QED
  BY <1>1, <1>2

Says(data) == IsObject(data) /\ data # Event("done") /\ data.t # "error"

\* What is told of it: what opens the message, and the text.
Said(told, tr, data, x, y, z) ==
    /\ Bare(x, "message_start") /\ Bare(y, "content_block_start")
    /\ z.t = "text_delta" /\ z.text = data.text
    /\ told = (IF tr.started THEN <<>> ELSE <<x, y>>)
              \o (IF data.text = <<>> THEN <<>> ELSE <<z>>)

LEMMA SaysTells ==
    ASSUME NEW tr, NEW data, Says(data)
    PROVE  \E x, y, z : Said(FeedToAnthropic(tr, data).out, tr, data, x, y, z)
<1> DEFINE f == FeedToAnthropic(tr, data)
           x == Event("message_start")
           y == Event("content_block_start")
           z == [Event("text_delta") EXCEPT !.text = data.text]
           u == [tr EXCEPT !.started = TRUE,
                           !.usage = IF data.usage = None THEN @ ELSE data.usage,
                           !.stop = IF data.stop = None THEN @ ELSE ToAnthropicStop(data.stop)]
           o == (IF tr.started THEN <<>> ELSE <<x, y>>)
                \o (IF data.text = <<>> THEN <<>> ELSE <<z>>)
<1>1. f = [tr |-> u, out |-> o]
  BY Zenon DEF FeedToAnthropic, Says
<1>2. Bare(x, "message_start") /\ Bare(y, "content_block_start")
      /\ z.t = "text_delta" /\ z.text = data.text
  BY PlainEvent DEF Event
<1> HIDE DEF f, u, o
<1>3. f.out = o
  BY <1>1
<1> HIDE DEF x, y, z
<1>4. f.out = (IF tr.started THEN <<>> ELSE <<x, y>>)
              \o (IF data.text = <<>> THEN <<>> ELSE <<z>>)
  BY <1>3, Zenon DEF o
<1>5. Said(f.out, tr, data, x, y, z)
  BY <1>2, <1>4, Zenon DEF Said
<1> QED
  BY <1>5, Zenon DEF f

LEMMA SaysGives ==
    ASSUME NEW tr, IsTranslator(tr), NEW data, Says(data)
    PROVE  LET f == FeedToAnthropic(tr, data)
           IN  IsTranslator(f.tr) /\ f.tr.started /\ f.tr.closed = tr.closed
<1> DEFINE f == FeedToAnthropic(tr, data)
           x == Event("message_start")
           y == Event("content_block_start")
           z == [Event("text_delta") EXCEPT !.text = data.text]
           usage == IF data.usage = None THEN tr.usage ELSE data.usage
           stop == IF data.stop = None THEN tr.stop ELSE ToAnthropicStop(data.stop)
           t == TrOf(TRUE, tr.closed, stop, usage)
           o == (IF tr.started THEN <<>> ELSE <<x, y>>)
                \o (IF data.text = <<>> THEN <<>> ELSE <<z>>)
<1>1. f = [tr |-> [tr EXCEPT !.started = TRUE,
                             !.usage = IF data.usage = None THEN @ ELSE data.usage,
                             !.stop = IF data.stop = None THEN @ ELSE ToAnthropicStop(data.stop)],
           out |-> o]
  BY Zenon DEF FeedToAnthropic, Says
<1>2. [tr EXCEPT !.started = TRUE,
                 !.usage = IF data.usage = None THEN @ ELSE data.usage,
                 !.stop = IF data.stop = None THEN @ ELSE ToAnthropicStop(data.stop)] = t
  <2>1. PICK a, b, c, d : a = tr.started /\ b = tr.closed /\ c = tr.stop /\ d = tr.usage
    OBVIOUS
  <2>2. tr = TrOf(a, b, c, d)
    BY <2>1, Zenon DEF IsTranslator
  <2>3. [tr EXCEPT !.started = TRUE] = TrOf(TRUE, b, c, d)
    <3> DEFINE T == TRUE
    <3> HIDE DEF T
    <3>1. [tr EXCEPT !.started = T] = TrOf(T, b, c, d)
      BY <2>2 DEF TrOf
    <3> QED
      BY <3>1, Zenon DEF T
  <2>4. PICK u : u = [tr EXCEPT !.started = TRUE]
    OBVIOUS
  <2>5. u = TrOf(TRUE, b, c, d) /\ u.usage = d
    <3>1. u = TrOf(TRUE, b, c, d)
      BY <2>3, <2>4, Zenon
    <3> QED
      BY <3>1 DEF TrOf
  <2>6. (IF data.usage = None THEN u.usage ELSE data.usage) = usage
    BY <2>1, <2>5, Zenon
  <2>7. PICK v : v = [u EXCEPT !.usage = IF data.usage = None THEN @ ELSE data.usage]
    OBVIOUS
  <2>8. v = TrOf(TRUE, b, c, usage) /\ v.stop = c
    <3> HIDE DEF usage
    <3>1. [u EXCEPT !.usage = usage] = TrOf(TRUE, b, c, usage)
      <4> DEFINE T == TRUE
      <4>1. u = TrOf(T, b, c, d)
        BY <2>5, Zenon
      <4> HIDE DEF T
      <4>2. [u EXCEPT !.usage = usage] = TrOf(T, b, c, usage)
        BY <4>1 DEF TrOf
      <4> QED
        BY <4>2, Zenon DEF T
    <3>2. v = [u EXCEPT !.usage = usage]
      BY <2>6, <2>7, Zenon
    <3> QED
      BY <3>1, <3>2 DEF TrOf
  <2>9. (IF data.stop = None THEN v.stop ELSE ToAnthropicStop(data.stop)) = stop
    BY <2>1, <2>8, Zenon
  <2>10. [v EXCEPT !.stop = IF data.stop = None THEN @ ELSE ToAnthropicStop(data.stop)] = t
    <3> HIDE DEF usage, stop
    <3>1. [v EXCEPT !.stop = stop] = TrOf(TRUE, b, stop, usage)
      <4> DEFINE T == TRUE
      <4>1. v = TrOf(T, b, c, usage)
        BY <2>8, Zenon
      <4> HIDE DEF T
      <4>2. [v EXCEPT !.stop = stop] = TrOf(T, b, stop, usage)
        BY <4>1 DEF TrOf
      <4> QED
        BY <4>2, Zenon DEF T
    <3>2. t = TrOf(TRUE, b, stop, usage)
      BY <2>1, Zenon
    <3> QED
      BY <2>9, <3>1, <3>2, Zenon
  <2> QED
    BY <2>4, <2>7, <2>10, Zenon
<1>4. t.started = TRUE /\ t.closed = tr.closed /\ t.stop = stop /\ t.usage = usage
  <2> HIDE DEF stop, usage
  <2> QED
    BY DEF TrOf
<1>5. IsTranslator(t)
  <2>1. tr.closed \in BOOLEAN
    BY DEF IsTranslator
  <2> HIDE DEF stop, usage
  <2> QED
    BY <1>4, <2>1, Zenon DEF IsTranslator
<1> HIDE DEF f, t, o
<1>6. f.tr = t
  BY <1>1, <1>2
<1> QED
  BY <1>4, <1>5, <1>6, Zenon DEF f

LEMMA ToAnthropicGives ==
    ASSUME NEW tr, IsTranslator(tr), NEW data
    PROVE  LET f == FeedToAnthropic(tr, data)
           IN  /\ data = Event("done") => f = Close(tr)
               /\ data # Event("done") /\ ~Says(data) =>
                     /\ f.tr = tr
                     /\ f.out = <<>> \/ \E x : f.out = <<x>> /\ x.t = "error"
<1> DEFINE f == FeedToAnthropic(tr, data)
<1>1. CASE data = Event("done")
  <2>1. f = Close(tr)
    BY <1>1, Zenon DEF FeedToAnthropic
  <2>2. ~Says(data)
    BY <1>1 DEF Says
  <2> QED
    BY <1>1, <2>1, <2>2, Zenon
<1>2. CASE data # Event("done") /\ ~IsObject(data)
  <2>1. f = [tr |-> tr, out |-> <<>>]
    BY <1>2, Zenon DEF FeedToAnthropic
  <2>2. f.tr = tr /\ f.out = <<>> /\ ~Says(data)
    BY <1>2, <2>1 DEF Says
  <2> QED
    BY <1>2, <2>2, Zenon
<1>3. CASE data # Event("done") /\ IsObject(data) /\ data.t = "error"
  <2>1. f = [tr |-> tr, out |-> <<Event("error")>>]
    BY <1>3, Zenon DEF FeedToAnthropic
  <2>2. f.tr = tr /\ f.out = <<Event("error")>> /\ ~Says(data)
    BY <1>3, <2>1 DEF Says
  <2>3. Event("error").t = "error"
    BY DEF Event
  <2> QED
    BY <1>3, <2>2, <2>3, Zenon
<1>4. CASE Says(data)
  BY <1>4 DEF Says
<1> QED
  BY <1>1, <1>2, <1>3, <1>4 DEF Says

-----------------------------------------------------------------------------
(* What a client of OpenAI's API has been told after the first m events of Anthropic's. *)

\* Before the message's end.
Early == {"message_start", "content_block_start", "text_delta", "content_block_stop"}

\* So far, with the last event of this kind, and f message_deltas among them.
SoFar(o, stage, f) ==
    /\ Tells(o, 1)
    /\ f \in Nat
    /\ stage = "none" \/ stage \in KindsOf("anthropic")
    /\ stage \notin {"message_delta", "message_stop"} => f = 0
    /\ stage = "none" => FrameOf(o) = <<>>
    /\ stage \in Early => FrameOf(o) = Open(0)
    /\ stage = "message_delta" => FrameOf(o) = Open(f)
    /\ stage = "message_stop" => FrameOf(o) = Whole(f)
    /\ stage = "error" => FrameOf(o) \in {<<>>, Open(0)}

TellingOpenAI(m, o) == SoFar(o, StageAt(m), DeltasAt(m))

\* Which events come before one of Anthropic's.
LEMMA ComesAfter ==
    ASSUME NEW stage, stage = "none" \/ stage \in KindsOf("anthropic"), stage \notin Final,
           NEW t \in Follows["anthropic"][stage]
    PROVE  /\ t \in KindsOf("anthropic")
           /\ t = "message_start" => stage = "none"
           /\ t = "content_block_start" => stage \in {"message_start", "content_block_stop"}
           /\ t = "text_delta" => stage \in {"content_block_start", "text_delta"}
           /\ t = "content_block_stop" => stage \in {"content_block_start", "text_delta"}
           /\ t = "message_delta" =>
                 stage \in {"message_start", "content_block_stop", "message_delta"}
           /\ t = "message_stop" => stage = "message_delta"
           /\ t = "error" => stage \in {"none", "message_start", "text_delta"}
<1>1. stage \in {"none", "message_start", "content_block_start", "text_delta",
                 "content_block_stop", "message_delta"}
  BY DEF KindsOf, Final
<1>2. CASE stage = "none"
  BY <1>2 DEF Follows, KindsOf
<1>3. CASE stage = "message_start"
  BY <1>3 DEF Follows, KindsOf
<1>4. CASE stage = "content_block_start"
  BY <1>4 DEF Follows, KindsOf
<1>5. CASE stage = "text_delta"
  BY <1>5 DEF Follows, KindsOf
<1>6. CASE stage = "content_block_stop"
  BY <1>6 DEF Follows, KindsOf
<1>7. CASE stage = "message_delta"
  BY <1>7 DEF Follows, KindsOf
<1> QED
  BY <1>1, <1>2, <1>3, <1>4, <1>5, <1>6, <1>7

\* A text event has a text.
Worded == \A i \in 1..Len(sent) : sent[i].t \in {"text", "text_delta"} => sent[i].text # <<>>

\* One event more.
LEMMA SoFarStep ==
    ASSUME NEW o, NEW stage, NEW f, SoFar(o, stage, f), NEW data, NEW tr, IsObject(data),
           stage \notin Final, data.t \in Follows["anthropic"][stage],
           data.t = "text_delta" => data.text # <<>>
    PROVE  SoFar(o \o FeedToOpenAI(tr, data).out, data.t,
                 IF data.t = "message_delta" THEN f + 1 ELSE f)
<1> DEFINE told == FeedToOpenAI(tr, data).out
<1>0. f \in Nat /\ Tells(o, 1) /\ (stage = "none" \/ stage \in KindsOf("anthropic"))
  BY DEF SoFar
<1>1. /\ data.t \in KindsOf("anthropic")
      /\ data.t = "message_start" => stage = "none"
      /\ data.t = "content_block_start" => stage \in {"message_start", "content_block_stop"}
      /\ data.t = "text_delta" => stage \in {"content_block_start", "text_delta"}
      /\ data.t = "content_block_stop" => stage \in {"content_block_start", "text_delta"}
      /\ data.t = "message_delta" =>
            stage \in {"message_start", "content_block_stop", "message_delta"}
      /\ data.t = "message_stop" => stage = "message_delta"
      /\ data.t = "error" => stage \in {"none", "message_start", "text_delta"}
  BY <1>0, ComesAfter
<1>2. CASE data.t = "message_start"
  <2>1. PICK x : told = <<x>> /\ Bare(x, "role")
    BY <1>2, ToOpenAIGives
  <2>2. x.t = "role" /\ x.text = <<>> /\ x.t # "error"
    BY <2>1 DEF Bare
  <2>3. Tells(Append(o, x), 1) /\ FrameOf(Append(o, x)) = Append(FrameOf(o), "role")
    BY <1>0, <2>2, Tell
  <2>4. stage = "none" /\ FrameOf(o) = <<>> /\ f = 0
    BY <1>1, <1>2 DEF SoFar
  <2>5. o \o told = Append(o, x)
    BY <1>0, <2>1, Joined2
  <2>6. Append(<<>>, "role") = Open(0)
    BY OpenIs
  <2>7. data.t \in Early
    BY <1>2 DEF Early
  <2> HIDE DEF told
  <2>8. FrameOf(o \o told) = Open(0)
    BY <2>3, <2>4, <2>5, <2>6, Zenon
  <2>9. Tells(o \o told, 1)
    BY <2>3, <2>5, Zenon
  <2>10. SoFar(o \o told, data.t, f)
    BY <1>0, <1>1, <1>2, <2>4, <2>7, <2>8, <2>9 DEF SoFar
  <2> QED
    BY <1>2, <2>10 DEF told
<1>3. CASE data.t = "text_delta"
  <2>1. PICK x : told = <<x>> /\ x.t = "text" /\ x.text = data.text
    BY <1>3, ToOpenAIGives
  <2>2. FrameOf(o) = Open(0) /\ f = 0
    BY <1>1, <1>3 DEF SoFar, Early
  <2>3. Len(FrameOf(o)) = 1
    BY <2>2, OpenIs
  <2>4. x.t # "error" /\ x.text # <<>>
    BY <1>3, <2>1
  <2>5. Tells(Append(o, x), 1) /\ FrameOf(Append(o, x)) = FrameOf(o)
    BY <1>0, <2>3, <2>4, Tell
  <2>6. o \o told = Append(o, x)
    BY <1>0, <2>1, Joined2
  <2>7. data.t \in Early
    BY <1>3 DEF Early
  <2> HIDE DEF told
  <2>8. FrameOf(o \o told) = Open(0) /\ Tells(o \o told, 1)
    BY <2>2, <2>5, <2>6, Zenon
  <2>9. SoFar(o \o told, data.t, f)
    BY <1>0, <1>1, <1>3, <2>2, <2>7, <2>8 DEF SoFar
  <2> QED
    BY <1>3, <2>9 DEF told
<1>4. CASE data.t = "message_delta"
  <2>1. PICK x : told = <<x>> /\ Bare(x, "finish")
    BY <1>4, ToOpenAIGives
  <2>2. x.t = "finish" /\ x.text = <<>> /\ x.t # "error"
    BY <2>1 DEF Bare
  <2>3. Tells(Append(o, x), 1) /\ FrameOf(Append(o, x)) = Append(FrameOf(o), "finish")
    BY <1>0, <2>2, Tell
  <2>4. FrameOf(o) = Open(f)
    BY <1>1, <1>4 DEF SoFar, Early
  <2>5. o \o told = Append(o, x)
    BY <1>0, <2>1, Joined2
  <2>6. Open(f + 1) = Append(Open(f), "finish")
    BY <1>0, OpenIs
  <2> HIDE DEF told
  <2>7. FrameOf(o \o told) = Open(f + 1) /\ Tells(o \o told, 1)
    BY <2>3, <2>4, <2>5, <2>6, Zenon
  <2>8. f + 1 \in Nat /\ data.t \notin Early
    BY <1>0, <1>4 DEF Early
  <2>9. SoFar(o \o told, data.t, f + 1)
    BY <1>1, <1>4, <2>7, <2>8 DEF SoFar
  <2> QED
    BY <1>4, <2>9 DEF told
<1>5. CASE data.t = "message_stop"
  <2>1. PICK x, y : /\ told = IF include THEN <<x, y>> ELSE <<y>>
                    /\ Bare(x, "usage") /\ Bare(y, "done")
    BY <1>5, StopGives, Zenon
  <2>2. /\ x.t = "usage" /\ x.text = <<>> /\ x.t # "error"
        /\ y.t = "done" /\ y.text = <<>> /\ y.t # "error"
    BY <2>1 DEF Bare
  <2>3. FrameOf(o) = Open(f)
    BY <1>1, <1>5 DEF SoFar
  <2>4. Whole(f) = IF include THEN Append(Append(Open(f), "usage"), "done")
                   ELSE Append(Open(f), "done")
    BY <1>0, OpenIs
  <2> HIDE DEF told
  <2>5. FrameOf(o \o told) = Whole(f) /\ Tells(o \o told, 1)
    <3>1. CASE include
      <4>1. Tells(Append(o, x), 1) /\ FrameOf(Append(o, x)) = Append(FrameOf(o), "usage")
        BY <1>0, <2>2, Tell
      <4>2. /\ Tells(Append(Append(o, x), y), 1)
            /\ FrameOf(Append(Append(o, x), y)) = Append(FrameOf(Append(o, x)), "done")
        BY <2>2, <4>1, Tell
      <4>3. o \o <<x, y>> = Append(Append(o, x), y)
        BY <1>0, Joined2
      <4> QED
        BY <2>1, <2>3, <2>4, <3>1, <4>1, <4>2, <4>3, Zenon
    <3>2. CASE ~include
      <4>1. Tells(Append(o, y), 1) /\ FrameOf(Append(o, y)) = Append(FrameOf(o), "done")
        BY <1>0, <2>2, Tell
      <4>2. o \o <<y>> = Append(o, y)
        BY <1>0, Joined2
      <4> QED
        BY <2>1, <2>3, <2>4, <3>2, <4>1, <4>2, Zenon
    <3> QED
      BY <3>1, <3>2
  <2>6. data.t \notin Early
    BY <1>5 DEF Early
  <2>7. SoFar(o \o told, data.t, f)
    BY <1>0, <1>1, <1>5, <2>5, <2>6 DEF SoFar
  <2> QED
    BY <1>5, <2>7 DEF told
<1>6. CASE data.t = "error"
  <2>1. PICK x : told = <<x>> /\ x.t = "error"
    BY <1>6, ToOpenAIGives
  <2>2. Tells(Append(o, x), 1) /\ FrameOf(Append(o, x)) = FrameOf(o)
    BY <1>0, <2>1, Tell
  <2>3. o \o told = Append(o, x)
    BY <1>0, <2>1, Joined2
  <2>4. f = 0 /\ FrameOf(o) \in {<<>>, Open(0)}
    BY <1>1, <1>6 DEF SoFar, Early
  <2>5. data.t \notin Early
    BY <1>6 DEF Early
  <2> HIDE DEF told
  <2>6. Tells(o \o told, 1) /\ FrameOf(o \o told) = FrameOf(o)
    BY <2>2, <2>3, Zenon
  <2>7. SoFar(o \o told, data.t, f)
    BY <1>0, <1>1, <1>6, <2>4, <2>5, <2>6 DEF SoFar
  <2> QED
    BY <1>6, <2>7 DEF told
<1>7. CASE data.t \in {"content_block_start", "content_block_stop"}
  <2>1. told = <<>>
    BY <1>7, ToOpenAIGives
  <2>2. o \o told = o
    BY <1>0, <2>1, Joined2
  <2>3. f = 0 /\ FrameOf(o) = Open(0)
    BY <1>1, <1>7 DEF SoFar, Early
  <2>4. data.t \in Early
    BY <1>7 DEF Early
  <2> HIDE DEF told
  <2>5. SoFar(o, data.t, f)
    BY <1>0, <1>1, <1>7, <2>3, <2>4 DEF SoFar
  <2> QED
    BY <1>7, <2>2, <2>5 DEF told
<1> QED
  BY <1>1, <1>2, <1>3, <1>4, <1>5, <1>6, <1>7 DEF KindsOf

\* What the translator reads: an event, unless its payload is no object.
LEMMA ReadObject ==
    ASSUME NEW i \in Nat, sent[i] \in Events
    PROVE  /\ IsObject(Read(i)) => Read(i) = sent[i]
           /\ IsObject(Read(i)) <=> sent[i].t \notin {"comment", "done", "garbage"}
<1>1. sent[i] # None
  BY StreamsAssumption
<1>2. Read(i) = IF sent[i].t = "comment" THEN None ELSE sent[i]
  BY ReadIs
<1> QED
  BY <1>1, <1>2 DEF IsObject

LEMMA OpenAIStep ==
    ASSUME sent \in Seq(Events), Provider = "anthropic", Ordered, Worded, NEW m \in Nat,
           m < Len(sent), NEW o, TellingOpenAI(m, o), NEW tr
    PROVE  TellingOpenAI(m + 1, o \o FeedToOpenAI(tr, Read(m + 1)).out)
<1>0. PICK n \in Nat : n = Len(sent) /\ m < n
  OBVIOUS
<1>1. PICK e \in Events : e = sent[m + 1]
  BY FirstStep
<1>2. PICK f, stage : f = DeltasAt(m) /\ stage = StageAt(m)
  OBVIOUS
<1>3. /\ StageAt(m + 1) = IF e.t \in Noise THEN stage ELSE e.t
      /\ DeltasAt(m + 1) = IF e.t = "message_delta" THEN f + 1 ELSE f
  BY <1>1, <1>2, AtStep
<1>4. SoFar(o, stage, f)
  BY <1>2, Zenon DEF TellingOpenAI
<1>5. /\ m + 1 \in 1..n /\ (m + 1) - 1 = m /\ m + 1 \in Nat
  BY <1>0
<1>6. stage \notin Final /\ (e.t \notin Noise => e.t \in Follows["anthropic"][stage])
  BY <1>0, <1>1, <1>2, <1>5, Zenon DEF Ordered
<1>7. e.t = "text_delta" => e.text # <<>>
  BY <1>0, <1>1, <1>5 DEF Worded
<1>8. PICK data : data = Read(m + 1)
  OBVIOUS
<1>9. /\ IsObject(data) => data = e
      /\ IsObject(data) <=> e.t \notin {"comment", "done", "garbage"}
  BY <1>1, <1>5, <1>8, ReadObject
<1>10. CASE e.t \in Noise
  <2>1. FeedToOpenAI(tr, data).out = <<>>
    <3>1. CASE ~IsObject(data)
      BY <3>1, ToOpenAIGives
    <3>2. CASE IsObject(data)
      <4>1. data.t = "ping"
        BY <1>9, <1>10, <3>2 DEF Noise
      <4> QED
        BY <3>2, <4>1, ToOpenAIGives
    <3> QED
      BY <3>1, <3>2
  <2>2. Tells(o, 1)
    BY <1>4 DEF SoFar
  <2>3. o \o <<>> = o
    BY <2>2, Joined2
  <2>4. e.t # "message_delta"
    BY <1>10 DEF Noise
  <2> QED
    BY <1>3, <1>4, <1>8, <1>10, <2>1, <2>3, <2>4, Zenon DEF TellingOpenAI
<1>11. CASE e.t \notin Noise
  <2>1. e.t \in KindsOf("anthropic")
    <3>1. stage = "none" \/ stage \in KindsOf("anthropic")
      BY <1>4 DEF SoFar
    <3> QED
      BY <1>6, <1>11, <3>1, ComesAfter
  <2>2. e.t \notin {"comment", "done", "garbage"}
    BY <2>1 DEF KindsOf
  <2>3. IsObject(e) /\ data = e
    BY <1>9, <2>2
  <2>4. SoFar(o \o FeedToOpenAI(tr, e).out, e.t, IF e.t = "message_delta" THEN f + 1 ELSE f)
    BY <1>4, <1>6, <1>7, <1>11, <2>3, SoFarStep
  <2> QED
    BY <1>3, <1>8, <1>11, <2>3, <2>4, Zenon DEF TellingOpenAI
<1> QED
  BY <1>10, <1>11

-----------------------------------------------------------------------------
(* What a client of Anthropic's API has been told after the first m events of OpenAI's. *)

Opened == <<"message_start", "content_block_start">>
Shut == <<"message_start", "content_block_start", "content_block_stop", "message_delta",
          "message_stop">>

TellingAnthropic(m, tr, o) ==
    /\ Tells(o, 2) /\ IsTranslator(tr)
    /\ tr.closed => tr.started /\ \E i \in 1..m : sent[i].t = "done"
    /\ FrameOf(o) = IF ~tr.started THEN <<>> ELSE IF tr.closed THEN Shut ELSE Opened

LEMMA TwoMore ==
    ASSUME NEW a, NEW b
    PROVE  Append(Append(<<>>, a), b) = <<a, b>> /\ Len(<<a, b>>) = 2
<1>1. <<a>> = Append(<<>>, a)
  OBVIOUS
<1>2. <<a, b>> = Append(<<a>>, b) /\ Len(<<a, b>>) = 2
  OBVIOUS
<1> QED
  BY <1>1, <1>2, Zenon

LEMMA ThreeMore ==
    ASSUME NEW a, NEW b, NEW c, NEW d, NEW e
    PROVE  Append(Append(Append(<<a, b>>, c), d), e) = <<a, b, c, d, e>>
<1>1. <<a, b, c>> = Append(<<a, b>>, c)
  OBVIOUS
<1>2. <<a, b, c, d>> = Append(<<a, b, c>>, d)
  OBVIOUS
<1>3. <<a, b, c, d, e>> = Append(<<a, b, c, d>>, e)
  OBVIOUS
<1> QED
  BY <1>1, <1>2, <1>3, Zenon

LEMMA OpenedIs ==
    /\ Append(Append(<<>>, "message_start"), "content_block_start") = Opened /\ Len(Opened) = 2
    /\ Append(Append(Append(Opened, "content_block_stop"), "message_delta"), "message_stop") = Shut
<1>1. PICK a, b, c, d, e : /\ a = "message_start" /\ b = "content_block_start"
                           /\ c = "content_block_stop" /\ d = "message_delta"
                           /\ e = "message_stop"
  BY Zenon
<1>2. Opened = <<a, b>> /\ Shut = <<a, b, c, d, e>>
  BY <1>1, Zenon DEF Opened, Shut
<1>3. /\ Append(Append(<<>>, a), b) = <<a, b>> /\ Len(<<a, b>>) = 2
      /\ Append(Append(Append(<<a, b>>, c), d), e) = <<a, b, c, d, e>>
  <2>1. Append(Append(<<>>, a), b) = <<a, b>> /\ Len(<<a, b>>) = 2
    BY TwoMore
  <2>2. Append(Append(Append(<<a, b>>, c), d), e) = <<a, b, c, d, e>>
    BY ThreeMore
  <2> QED
    BY <2>1, <2>2, Zenon
<1> QED
  BY <1>1, <1>2, <1>3, Zenon

\* An event without text.
LEMMA TellBare ==
    ASSUME NEW o, NEW c, Tells(o, c), NEW x, NEW t, Bare(x, t), t # "error"
    PROVE  Tells(Append(o, x), c) /\ FrameOf(Append(o, x)) = Append(FrameOf(o), t)
<1>1. x.t = t /\ x.text = <<>> /\ x.t # "error"
  BY DEF Bare
<1> QED
  BY <1>1, Tell

\* The end of the stream, told once.
LEMMA CloseTells ==
    ASSUME NEW o, NEW tr, Tells(o, 2), IsTranslator(tr), tr.closed => tr.started,
           FrameOf(o) = IF ~tr.started THEN <<>> ELSE IF tr.closed THEN Shut ELSE Opened
    PROVE  LET c == Close(tr)
           IN  /\ Tells(o \o c.out, 2) /\ IsTranslator(c.tr)
               /\ c.tr.started = tr.started /\ c.tr.closed = tr.started
               /\ FrameOf(o \o c.out) = IF tr.started THEN Shut ELSE <<>>
<1> DEFINE c == Close(tr)
<1>0. tr.started \in BOOLEAN /\ tr.closed \in BOOLEAN
  BY DEF IsTranslator
<1>1. CASE ~tr.started \/ tr.closed
  <2>1. c.tr = tr /\ c.out = <<>>
    BY <1>1, CloseGives
  <2>2. o \o <<>> = o
    BY Joined2
  <2>3. tr.closed = tr.started
    BY <1>0, <1>1
  <2> HIDE DEF c
  <2> QED
    BY <1>1, <2>1, <2>2, <2>3, Zenon DEF c
<1>2. CASE tr.started /\ ~tr.closed
  <2>1. IsTranslator(c.tr) /\ c.tr.started /\ c.tr.closed
    BY <1>2, CloseGives
  <2>2. PICK x, y, z : /\ c.out = <<x, y, z>> /\ Bare(x, "content_block_stop")
                       /\ Bare(y, "message_delta") /\ Bare(z, "message_stop")
    BY <1>2, CloseGives
  <2> HIDE DEF c
  <2>3. Tells(Append(o, x), 2) /\ FrameOf(Append(o, x)) = Append(FrameOf(o), "content_block_stop")
    BY <2>2, TellBare
  <2>4. /\ Tells(Append(Append(o, x), y), 2)
        /\ FrameOf(Append(Append(o, x), y)) = Append(FrameOf(Append(o, x)), "message_delta")
    BY <2>2, <2>3, TellBare
  <2>5. /\ Tells(Append(Append(Append(o, x), y), z), 2)
        /\ FrameOf(Append(Append(Append(o, x), y), z))
             = Append(FrameOf(Append(Append(o, x), y)), "message_stop")
    BY <2>2, <2>4, TellBare
  <2>6. o \o <<x, y, z>> = Append(Append(Append(o, x), y), z)
    BY Joined3
  <2>7. FrameOf(o) = Opened
    BY <1>2
  <2>8. FrameOf(o \o c.out) = Shut /\ Tells(o \o c.out, 2)
    BY <2>2, <2>3, <2>4, <2>5, <2>6, <2>7, OpenedIs, Zenon
  <2>9. IsTranslator(c.tr) /\ c.tr.started = tr.started /\ c.tr.closed = tr.started
    <3>1. c.tr.started \in BOOLEAN /\ c.tr.closed \in BOOLEAN
      BY <2>1 DEF IsTranslator
    <3> QED
      BY <1>0, <1>2, <2>1, <3>1
  <2> QED
    BY <1>2, <2>8, <2>9, Zenon DEF c
<1> QED
  BY <1>1, <1>2

LEMMA DoneIs == Event("done") \in Events /\ Event("done").t = "done"
<1>1. Event("done") = [t |-> "done", text |-> <<>>, stop |-> None, usage |-> None]
  BY Zenon DEF Event
<1>2. PICK t \in AnyKind : t = "done"
  <2>1. "done" \in AnyKind
    BY DEF AnyKind, Final
  <2> QED
    BY <2>1
<1>s. PICK s \in Seq(Nat) : s = <<>>
  <2>1. <<>> \in Seq(Nat)
    OBVIOUS
  <2> QED
    BY <2>1, Zenon
<1>3. [t |-> t, text |-> s, stop |-> None, usage |-> None] \in Events
  BY DEF Events
<1>4. Event("done") \in Events
  BY <1>1, <1>2, <1>s, <1>3, Zenon
<1>5. Event("done").t = "done"
  BY <1>1
<1> QED
  BY <1>4, <1>5

LEMMA AnthropicStep ==
    ASSUME sent \in Seq(Events), Ordered, NEW m \in Nat, m < Len(sent), NEW o, NEW tr,
           TellingAnthropic(m, tr, o)
    PROVE  LET f == FeedToAnthropic(tr, Read(m + 1))
           IN  TellingAnthropic(m + 1, f.tr, o \o f.out)
<1> DEFINE f == FeedToAnthropic(tr, Read(m + 1))
<1>0. PICK n \in Nat : n = Len(sent) /\ m < n
  OBVIOUS
<1>1. PICK e \in Events : e = sent[m + 1]
  BY FirstStep
<1>2. /\ m + 1 \in 1..n /\ m + 1 \in Nat /\ \A i \in 1..m : i \in 1..(m + 1) /\ i \in 1..n /\ i # n
      /\ m + 1 \in 1..(m + 1)
  BY <1>0
<1>3. PICK data : data = Read(m + 1)
  OBVIOUS
<1>tr. IsTranslator(tr)
  BY DEF TellingAnthropic
<1>4. /\ Tells(o, 2) /\ IsTranslator(tr) /\ (tr.closed => tr.started)
      /\ FrameOf(o) = IF ~tr.started THEN <<>> ELSE IF tr.closed THEN Shut ELSE Opened
  BY DEF TellingAnthropic
<1>5. tr.closed => \E i \in 1..m : sent[i].t = "done"
  BY DEF TellingAnthropic
<1>6. tr.closed => \E i \in 1..(m + 1) : sent[i].t = "done"
  BY <1>2, <1>5
<1>7. ~tr.closed
  <2> SUFFICES ASSUME tr.closed PROVE FALSE
    OBVIOUS
  <2>1. PICK i \in 1..m : sent[i].t = "done"
    BY <1>5
  <2>2. i \in 1..Len(sent) /\ sent[i].t \in Final
    BY <1>0, <1>2, <2>1 DEF Final
  <2>3. i = Len(sent)
    BY <2>2, FinalLast
  <2> QED
    BY <1>0, <1>2, <2>3
<1>8. CASE data = Event("done")
  <2>1. f = Close(tr)
    BY <1>3, <1>4, <1>8, ToAnthropicGives
  <2>2. e.t = "done"
    <3>1. data = IF e.t = "comment" THEN None ELSE e
      BY <1>1, <1>2, <1>3, ReadIs
    <3>2. Event("done") \in Events /\ Event("done").t = "done"
      BY DoneIs
    <3> QED
      BY <1>8, <3>1, <3>2, StreamsAssumption
  <2> HIDE DEF f
  <2>3. /\ Tells(o \o f.out, 2) /\ IsTranslator(f.tr)
        /\ f.tr.started = tr.started /\ f.tr.closed = tr.started
        /\ FrameOf(o \o f.out) = IF tr.started THEN Shut ELSE <<>>
    BY <1>4, <2>1, CloseTells
  <2>4. \E i \in 1..(m + 1) : sent[i].t = "done"
    BY <1>1, <1>2, <2>2
  <2>5. FrameOf(o \o f.out) = IF ~f.tr.started THEN <<>> ELSE IF f.tr.closed THEN Shut ELSE Opened
    BY <2>3, Zenon
  <2>6. f.tr.closed => f.tr.started
    BY <2>3, Zenon
  <2> QED
    BY <2>3, <2>4, <2>5, <2>6, Zenon DEF TellingAnthropic, f
<1>9. CASE data # Event("done") /\ ~Says(data)
  <2>1. f.tr = tr /\ (f.out = <<>> \/ \E x : f.out = <<x>> /\ x.t = "error")
    BY <1>3, <1>4, <1>9, ToAnthropicGives
  <2> HIDE DEF f
  <2>2. Tells(o \o f.out, 2) /\ FrameOf(o \o f.out) = FrameOf(o)
    <3>1. CASE f.out = <<>>
      <4>1. o \o <<>> = o
        BY <1>4, Joined2
      <4> QED
        BY <1>4, <3>1, <4>1, Zenon
    <3>2. CASE \E x : f.out = <<x>> /\ x.t = "error"
      <4>1. PICK x : f.out = <<x>> /\ x.t = "error"
        BY <3>2
      <4>2. o \o <<x>> = Append(o, x)
        BY <1>4, Joined2
      <4>3. Tells(Append(o, x), 2) /\ FrameOf(Append(o, x)) = FrameOf(o)
        BY <1>4, <4>1, Tell
      <4> QED
        BY <4>1, <4>2, <4>3, Zenon
    <3> QED
      BY <2>1, <3>1, <3>2
  <2> QED
    BY <1>4, <1>6, <2>1, <2>2, Zenon DEF TellingAnthropic, f
<1>10. CASE Says(data)
  <2>0. PICK g : g = FeedToAnthropic(tr, data)
    OBVIOUS
  <2>1. IsTranslator(g.tr) /\ g.tr.started /\ g.tr.closed = tr.closed
    BY <1>tr, <1>10, <2>0, SaysGives, Zenon
  <2>b. PICK x, y, z : Said(g.out, tr, data, x, y, z)
    BY <1>10, <2>0, SaysTells, Zenon
  <2>2. /\ Bare(x, "message_start") /\ Bare(y, "content_block_start")
            /\ z.t = "text_delta" /\ z.text = data.text
            /\ g.out = (IF tr.started THEN <<>> ELSE <<x, y>>)
                       \o (IF data.text = <<>> THEN <<>> ELSE <<z>>)
    BY <2>b, Zenon DEF Said
  <2>3. PICK p : /\ p = IF tr.started THEN o ELSE Append(Append(o, x), y)
                 /\ Tells(p, 2) /\ FrameOf(p) = Opened
    <3>1. CASE tr.started
      BY <1>4, <1>7, <3>1, Zenon
    <3>2. CASE ~tr.started
      <4>1. Tells(Append(o, x), 2) /\ FrameOf(Append(o, x)) = Append(FrameOf(o), "message_start")
        BY <1>4, <2>2, TellBare
      <4>2. /\ Tells(Append(Append(o, x), y), 2)
            /\ FrameOf(Append(Append(o, x), y))
                 = Append(FrameOf(Append(o, x)), "content_block_start")
        BY <2>2, <4>1, TellBare
      <4>3. FrameOf(o) = <<>>
        BY <1>4, <3>2
      <4> QED
        BY <3>2, <4>1, <4>2, <4>3, OpenedIs, Zenon
    <3> QED
      BY <3>1, <3>2
  <2>4. o \o g.out = IF data.text = <<>> THEN p ELSE Append(p, z)
    <3>1. /\ o \o (<<x, y>> \o <<z>>) = Append(Append(Append(o, x), y), z)
          /\ o \o (<<x, y>> \o <<>>) = Append(Append(o, x), y)
      BY <1>4, Joined3
    <3>2. o \o (<<>> \o <<z>>) = Append(o, z) /\ o \o (<<>> \o <<>>) = o
      BY <1>4, Joined3
    <3> QED
      BY <2>2, <2>3, <3>1, <3>2, Zenon
  <2>5. Tells(o \o g.out, 2) /\ FrameOf(o \o g.out) = Opened
    <3>1. CASE data.text = <<>>
      BY <2>3, <2>4, <3>1, Zenon
    <3>2. CASE data.text # <<>>
      <4>1. z.t # "error" /\ z.text # <<>> /\ Len(FrameOf(p)) = 2
        BY <2>2, <2>3, <3>2, OpenedIs
      <4>2. Tells(Append(p, z), 2) /\ FrameOf(Append(p, z)) = FrameOf(p)
        BY <2>3, <4>1, Tell
      <4> QED
        BY <2>3, <2>4, <3>2, <4>2, Zenon
    <3> QED
      BY <3>1, <3>2
  <2>6. ~g.tr.closed
    BY <1>7, <2>1, Zenon
  <2> QED
    BY <1>3, <2>0, <2>1, <2>5, <2>6, Zenon DEF TellingAnthropic
<1> QED
  BY <1>8, <1>9, <1>10

-----------------------------------------------------------------------------
(* The relay translates the events that the parser dispatches. *)

Telling(m, tr, o) ==
    IF Client = "openai" THEN TellingOpenAI(m, o) ELSE TellingAnthropic(m, tr, o)

LEMMA RelayedTells ==
    ASSUME Translates, NEW i \in Nat, NEW state
    PROVE  LET r == Relayed(state, Ev(i))
               f == Translate(state.translator, Read(i))
           IN  r.translator = f.tr /\ r.out = state.out \o f.out
<1> DEFINE r == Relayed(state, Ev(i))
           f == Translate(state.translator, Read(i))
           v == Observe(state.meter, Read(i))
           w == state.out \o (CASE Translates -> f.out
                                [] ~Translates /\ Keeps(Read(i)) -> Ev(i).raw
                                [] OTHER -> <<>>)
<1>1. r = [meter |-> v, translator |-> IF Translates THEN f.tr ELSE state.translator, out |-> w]
  BY Zenon DEF Relayed, Read
<1>2. w = state.out \o f.out
  <2> DEFINE c == CASE Translates -> f.out
                    [] ~Translates /\ Keeps(Read(i)) -> Ev(i).raw
                    [] OTHER -> <<>>
  <2>1. c = f.out
    <3> HIDE DEF f
    <3> QED
      OBVIOUS
  <2> QED
    BY <2>1, Zenon
<1> HIDE DEF r, v, w, f
<1>3. r.translator = f.tr /\ r.out = w
  BY <1>1
<1> QED
  BY <1>2, <1>3, Zenon DEF r, f

LEMMA TellStep ==
    ASSUME sent \in Seq(Events), Client \in Apis, Provider \in Apis, Translates, Ordered, Worded,
           NEW m \in Nat, m < Len(sent), NEW state, Telling(m, state.translator, state.out)
    PROVE  LET r == Relayed(state, Ev(m + 1))
           IN  Telling(m + 1, r.translator, r.out)
<1> DEFINE r == Relayed(state, Ev(m + 1))
<1>1. PICK tr, o : tr = state.translator /\ o = state.out
  OBVIOUS
<1>2. PICK f : f = Translate(tr, Read(m + 1))
  OBVIOUS
<1>3. m + 1 \in Nat
  OBVIOUS
<1>4. r.translator = f.tr /\ r.out = o \o f.out
  BY <1>1, <1>2, <1>3, RelayedTells, Zenon
<1> HIDE DEF r
<1>5. CASE Client = "openai"
  <2>1. Provider = "anthropic"
    BY <1>5 DEF Translates, Apis
  <2>2. f = FeedToOpenAI(tr, Read(m + 1))
    BY <1>2, <1>5, Zenon DEF Translate
  <2>3. TellingOpenAI(m, o)
    BY <1>1, <1>5, Zenon DEF Telling
  <2>4. TellingOpenAI(m + 1, o \o FeedToOpenAI(tr, Read(m + 1)).out)
    BY <2>1, <2>3, OpenAIStep
  <2> QED
    BY <1>4, <1>5, <2>2, <2>4, Zenon DEF Telling, r
<1>6. CASE Client # "openai"
  <2>1. f = FeedToAnthropic(tr, Read(m + 1))
    BY <1>2, <1>6, Zenon DEF Translate
  <2>2. TellingAnthropic(m, tr, o)
    BY <1>1, <1>6, Zenon DEF Telling
  <2>3. LET g == FeedToAnthropic(tr, Read(m + 1))
        IN  TellingAnthropic(m + 1, g.tr, o \o g.out)
    BY <2>2, AnthropicStep
  <2> QED
    BY <1>4, <1>6, <2>1, <2>3, Zenon DEF Telling, r
<1> QED
  BY <1>5, <1>6

LEMMA RelaysTell ==
    ASSUME sent \in Seq(Events), Client \in Apis, Provider \in Apis, Translates, Ordered, Worded,
           NEW k \in Nat, NEW events \in Seq(Evs), NEW state,
           Telling(k, state.translator, state.out),
           \A j \in 1..Len(events) : events[j] = Ev(k + j), k + Len(events) <= Len(sent)
    PROVE  LET r == RelayedAll(state, events)
           IN  Telling(k + Len(events), r.translator, r.out)
<1> DEFINE N == Len(events)
<1>1. N \in Nat /\ Len(sent) \in Nat
  OBVIOUS
<1>2. PICK g : g = RelaysTo(state, events, N, g) /\ RelayedAll(state, events) = g[N]
  BY <1>1, RelayedAllStates
<1>3. \A i \in 0..N : g[i] = IF i = 0 THEN state ELSE Relayed(g[i - 1], events[i])
  BY <1>2, Zenon DEF RelaysTo
<1> DEFINE T == {n \in Nat : n <= N => Telling(k + n, g[n].translator, g[n].out)}
<1>4. 0 \in T
  <2>1. g[0] = state /\ k + 0 = k
    BY <1>1, <1>3
  <2> QED
    BY <2>1
<1>5. ASSUME NEW n \in T PROVE n + 1 \in T
  <2> SUFFICES ASSUME n + 1 <= N
               PROVE  Telling(k + (n + 1), g[n + 1].translator, g[n + 1].out)
    OBVIOUS
  <2>1. n \in Nat /\ Telling(k + n, g[n].translator, g[n].out)
    BY <1>1
  <2> HIDE DEF N
  <2>2. n + 1 \in 0..N /\ n + 1 # 0 /\ (n + 1) - 1 = n /\ n + 1 \in 1..N
    BY <1>1, <2>1
  <2>3. g[n + 1] = Relayed(g[n], events[n + 1])
    BY <1>3, <2>2
  <2>4. events[n + 1] = Ev(k + (n + 1))
    BY <2>2 DEF N
  <2>5. k + n \in Nat /\ k + n < Len(sent) /\ (k + n) + 1 = k + (n + 1)
    <3>1. n + 1 <= N /\ k + N <= Len(sent)
      BY DEF N
    <3> QED
      BY <1>1, <2>1, <3>1
  <2>6. LET r == Relayed(g[n], Ev((k + n) + 1))
        IN  Telling((k + n) + 1, r.translator, r.out)
    BY <2>1, <2>5, TellStep
  <2> QED
    BY <2>3, <2>4, <2>5, <2>6, Zenon
<1> HIDE DEF T
<1>6. T \in SUBSET Nat
  BY DEF T
<1>7. T = Nat
  BY <1>4, <1>5, <1>6, Induct
<1>8. N \in T /\ N <= N
  BY <1>1, <1>7
<1> QED
  BY <1>2, <1>8 DEF T

\* Before the first event nothing has been told.
LEMMA TellingNothing == Telling(0, NewTranslator, <<>>)
<1>1. Tells(<<>>, 1) /\ Tells(<<>>, 2) /\ FrameOf(<<>>) = <<>>
  BY TellsNothing
<1>2. TellingOpenAI(0, <<>>)
  <2>1. SoFar(<<>>, "none", 0)
    BY <1>1 DEF SoFar, Early
  <2> QED
    BY <2>1, AtZero, Zenon DEF TellingOpenAI
<1> DEFINE F == FALSE
<1>3. NewTranslator = TrOf(F, F, "end_turn", <<>>)
  BY Zenon DEF NewTranslator, TrOf
<1> HIDE DEF F
<1>4. NewTranslator.started = F /\ NewTranslator.closed = F
      /\ NewTranslator.stop = "end_turn" /\ NewTranslator.usage = <<>>
  BY <1>3 DEF TrOf
<1>f. F = FALSE
  BY Zenon DEF F
<1>5. IsTranslator(NewTranslator)
  BY <1>3, <1>4, <1>f, Zenon DEF IsTranslator
<1>6. TellingAnthropic(0, NewTranslator, <<>>)
  BY <1>1, <1>4, <1>5, <1>f, Zenon DEF TellingAnthropic
<1> QED
  BY <1>2, <1>6, Zenon DEF Telling

-----------------------------------------------------------------------------
(* A well-formed stream. *)

LEMMA PrefixOf ==
    ASSUME NEW V, NEW s \in Seq(V), NEW t \in Seq(V), Len(s) <= Len(t),
           \A i \in 1..Len(s) : s[i] = t[i]
    PROVE  IsPrefix(s, t)
<1>1. PICK n \in Nat : n = Len(s)
  OBVIOUS
<1>2. SubSeq(s, 1, n) \in Seq(V) /\ Len(SubSeq(s, 1, n)) = n
      /\ \A i \in 1..n : SubSeq(s, 1, n)[i] = s[i]
  BY <1>1
<1>3. SubSeq(t, 1, n) \in Seq(V) /\ Len(SubSeq(t, 1, n)) = n
      /\ \A i \in 1..n : SubSeq(t, 1, n)[i] = t[i]
  BY <1>1
<1>4. PICK a, b : a = SubSeq(s, 1, n) /\ b = SubSeq(t, 1, n)
  OBVIOUS
<1>5. a \in Seq(V) /\ b \in Seq(V) /\ Len(a) = Len(b) /\ \A i \in 1..Len(a) : a[i] = b[i]
  BY <1>1, <1>2, <1>3, <1>4, Zenon
<1>6. a = b
  BY <1>5, SeqEqual
<1> QED
  BY <1>1, <1>4, <1>6, Zenon DEF IsPrefix

LEMMA PrefixesOf ==
    ASSUME NEW V, NEW s \in Seq(V), NEW x \in V, NEW y \in V, NEW z \in V
    PROVE  /\ IsPrefix(<<>>, s) /\ IsPrefix(s, s) /\ IsPrefix(s, Append(s, x))
           /\ IsPrefix(s, Append(Append(s, x), y))
           /\ IsPrefix(s, Append(Append(Append(s, x), y), z))
           /\ Append(s, x) \in Seq(V) /\ Append(Append(s, x), y) \in Seq(V)
           /\ Append(Append(Append(s, x), y), z) \in Seq(V)
<1>1. PICK n \in Nat : n = Len(s)
  OBVIOUS
<1>2. \A u \in Seq(V), v \in V :
          /\ Append(u, v) \in Seq(V) /\ Len(Append(u, v)) = Len(u) + 1 /\ Len(u) \in Nat
          /\ \A i \in 1..Len(u) : Append(u, v)[i] = u[i]
  OBVIOUS
<1>3. PICK a \in Seq(V) : a = Append(s, x)
  BY <1>2
<1>4. PICK b \in Seq(V) : b = Append(a, y)
  BY <1>2
<1>5. PICK c \in Seq(V) : c = Append(b, z)
  BY <1>2
<1>6. Len(a) = n + 1 /\ Len(b) = n + 2 /\ Len(c) = n + 3
  BY <1>1, <1>2, <1>3, <1>4, <1>5
<1>7. \A i \in 1..n : a[i] = s[i]
  BY <1>1, <1>2, <1>3
<1>8. \A i \in 1..n : i \in 1..(n + 1) /\ i \in 1..(n + 2)
  BY <1>1
<1>9. \A i \in 1..(n + 1) : b[i] = a[i]
  BY <1>2, <1>4, <1>6
<1>10. \A i \in 1..(n + 2) : c[i] = b[i]
  BY <1>2, <1>5, <1>6
<1>11. \A i \in 1..n : a[i] = s[i] /\ b[i] = s[i] /\ c[i] = s[i]
  BY <1>7, <1>8, <1>9, <1>10, Zenon
<1>12. <<>> \in Seq(V) /\ Len(<<>>) = 0 /\ 1..0 = {} /\ 0 <= n
       /\ n <= n /\ n <= n + 1 /\ n <= n + 2 /\ n <= n + 3
  BY <1>1
<1>13. IsPrefix(<<>>, s)
  <2>1. \A i \in 1..Len(<<>>) : <<>>[i] = s[i]
    BY <1>12
  <2>2. Len(<<>>) <= Len(s)
    BY <1>1, <1>12
  <2> QED
    BY <1>12, <2>1, <2>2, PrefixOf
<1>14. IsPrefix(s, s)
  BY <1>1, <1>12, PrefixOf
<1>15. IsPrefix(s, a)
  BY <1>1, <1>6, <1>11, <1>12, PrefixOf
<1>16. IsPrefix(s, b)
  BY <1>1, <1>6, <1>11, <1>12, PrefixOf
<1>17. IsPrefix(s, c)
  BY <1>1, <1>6, <1>11, <1>12, PrefixOf
<1> QED
  BY <1>3, <1>4, <1>5, <1>13, <1>14, <1>15, <1>16, <1>17, Zenon

\* The definitions in WellFormed.
Well(o) == IsPrefix(FrameOf(o), Frame) /\ Inside(ToldOf(o), Opening)

WellSoFar ==
    phase \in {"streaming", "ended"} /\ Translates /\ sent # <<>> =>
        /\ Well(out)
        /\ phase = "ended" /\ row.outcome = "success" /\ Client = "anthropic" =>
              FrameOf(out) \in {<<>>, Frame}

LEMMA WellFormedIs == WellFormed <=> WellSoFar
  BY Zenon DEF WellFormed, WellSoFar, Well, FrameOf, Frames, ToldOf, Told, Inside

LEMMA ShutIs ==
    IsPrefix(<<>>, Shut) /\ IsPrefix(Opened, Shut) /\ IsPrefix(Shut, Shut)
<1> DEFINE K == {"message_start", "content_block_start", "content_block_stop", "message_delta",
                 "message_stop"}
<1>1. PICK x \in K, y \in K, z \in K :
          x = "content_block_stop" /\ y = "message_delta" /\ z = "message_stop"
  OBVIOUS
<1>2. Opened \in Seq(K)
  BY DEF Opened
<1> HIDE DEF K
<1>3. Shut = Append(Append(Append(Opened, x), y), z)
  BY <1>1, OpenedIs, Zenon
<1>4. IsPrefix(Opened, Shut) /\ Shut \in Seq(K)
  BY <1>2, <1>3, PrefixesOf, Zenon
<1>5. IsPrefix(<<>>, Shut) /\ IsPrefix(Shut, Shut)
  BY <1>1, <1>4, PrefixesOf, Zenon
<1> QED
  BY <1>4, <1>5

LEMMA WholeIs ==
    ASSUME NEW f \in Nat
    PROVE  IsPrefix(<<>>, Whole(f)) /\ IsPrefix(Open(f), Whole(f)) /\ IsPrefix(Whole(f), Whole(f))
<1> DEFINE K == {"role", "finish", "usage", "done"}
<1>1. PICK x \in K, y \in K : x = "usage" /\ y = "done"
  OBVIOUS
<1>2. Open(f) \in Seq(K)
  BY OpenIs
<1> HIDE DEF K
<1>3. Whole(f) = IF include THEN Append(Append(Open(f), x), y) ELSE Append(Open(f), y)
  BY <1>1, OpenIs, Zenon
<1>4. IsPrefix(Open(f), Whole(f)) /\ Whole(f) \in Seq(K)
  <2>1. PICK s \in Seq(K) : s = Open(f)
    BY <1>2
  <2>2. /\ IsPrefix(s, Append(s, y)) /\ Append(s, y) \in Seq(K)
        /\ IsPrefix(s, Append(Append(s, x), y)) /\ Append(Append(s, x), y) \in Seq(K)
    BY <1>1, PrefixesOf
  <2> QED
    BY <1>3, <2>1, <2>2, Zenon
<1>5. IsPrefix(<<>>, Whole(f)) /\ IsPrefix(Whole(f), Whole(f))
  BY <1>1, <1>4, PrefixesOf, Zenon
<1> QED
  BY <1>4, <1>5

LEMMA TellingWell ==
    ASSUME NEW m, Heard = First(m), Client \in Apis, NEW tr, NEW o, Telling(m, tr, o)
    PROVE  Well(o)
<1>1. CASE Client = "openai"
  <2>1. PICK f, stage : f = DeltasAt(m) /\ stage = StageAt(m)
    OBVIOUS
  <2>2. SoFar(o, stage, f)
    BY <1>1, <2>1, Zenon DEF Telling, TellingOpenAI
  <2>3. Tells(o, 1) /\ f \in Nat
    BY <2>2 DEF SoFar
  <2>4. FrameOf(o) \in {<<>>, Open(f), Whole(f)}
    BY <2>2 DEF SoFar, Early, KindsOf
  <2>5. Frame = Whole(f)
    BY <1>1, <2>1, Zenon DEF Frame, DeltasAt, Whole, Fins
  <2>6. Opening = 1
    BY <1>1, Zenon DEF Opening
  <2> QED
    BY <2>3, <2>4, <2>5, <2>6, WholeIs, Zenon DEF Well, Tells
<1>2. CASE Client # "openai"
  <2>1. /\ Tells(o, 2)
        /\ FrameOf(o) = IF ~tr.started THEN <<>> ELSE IF tr.closed THEN Shut ELSE Opened
    BY <1>2, Zenon DEF Telling, TellingAnthropic
  <2>2. FrameOf(o) \in {<<>>, Opened, Shut}
    BY <2>1
  <2>3. Frame = Shut /\ Opening = 2
    BY <1>2, Zenon DEF Frame, Opening, Shut
  <2> QED
    BY <2>1, <2>2, <2>3, ShutIs, Zenon DEF Well, Tells
<1> QED
  BY <1>1, <1>2

-----------------------------------------------------------------------------
(* Steps that leave the first events alone. *)

LEMMA FirstKept ==
    ASSUME sent \in Seq(Events), sent' \in Seq(Events), NEW m \in Nat, m <= Len(sent),
           m <= Len(sent'), \A i \in 1..m : sent'[i] = sent[i]
    PROVE  First(m)' = First(m) /\ StageAt(m)' = StageAt(m) /\ DeltasAt(m)' = DeltasAt(m)
<1>1. SubSeq(sent, 1, m) \in Seq(Events) /\ Len(SubSeq(sent, 1, m)) = m
      /\ \A i \in 1..m : SubSeq(sent, 1, m)[i] = sent[i]
  OBVIOUS
<1>2. SubSeq(sent', 1, m) \in Seq(Events) /\ Len(SubSeq(sent', 1, m)) = m
      /\ \A i \in 1..m : SubSeq(sent', 1, m)[i] = sent'[i]
  OBVIOUS
<1>3. PICK a, b : a = SubSeq(sent, 1, m) /\ b = SubSeq(sent', 1, m)
  OBVIOUS
<1>4. a \in Seq(Events) /\ b \in Seq(Events) /\ Len(b) = Len(a) /\ \A i \in 1..Len(a) : b[i] = a[i]
  BY <1>1, <1>2, <1>3, Zenon
<1>5. b = a
  BY <1>4, SeqEqual
<1>6. First(m)' = First(m)
  BY <1>3, <1>5, Zenon DEF First
<1> QED
  BY <1>6, Zenon DEF StageAt, DeltasAt

LEMMA TellingKept ==
    ASSUME sent \in Seq(Events), sent' \in Seq(Events), NEW m \in Nat, m <= Len(sent),
           m <= Len(sent'), \A i \in 1..m : sent'[i] = sent[i], UNCHANGED <<request, include>>,
           NEW tr, NEW o, Telling(m, tr, o)
    PROVE  Telling(m, tr, o)'
<1>1. Client' = Client
  BY DEF Client
<1>2. CASE Client = "openai"
  <2>1. PICK f, stage : f = DeltasAt(m) /\ stage = StageAt(m)
    OBVIOUS
  <2>2. DeltasAt(m)' = f /\ StageAt(m)' = stage
    BY <2>1, FirstKept
  <2>3. SoFar(o, stage, f)
    BY <1>2, <2>1, Zenon DEF Telling, TellingOpenAI
  <2>4. Open(f)' = Open(f) /\ Open(0)' = Open(0) /\ Whole(f)' = Whole(f)
    BY Zenon DEF Open, Whole, Fins
  <2>5. SoFar(o, stage, f)'
    BY <2>3, <2>4, Zenon DEF SoFar
  <2>6. TellingOpenAI(m, o)'
    BY <2>2, <2>5, Zenon DEF TellingOpenAI
  <2> QED
    BY <1>1, <1>2, <2>6, Zenon DEF Telling
<1>3. CASE Client # "openai"
  <2>1. TellingAnthropic(m, tr, o)
    BY <1>3, Zenon DEF Telling
  <2>2. TellingAnthropic(m, tr, o)'
    BY <2>1, Zenon DEF TellingAnthropic
  <2> QED
    BY <1>1, <1>3, <2>2, Zenon DEF Telling
<1> QED
  BY <1>2, <1>3

LEMMA OrderedKept ==
    ASSUME Ordered, Worded, UNCHANGED <<request, sent>>
    PROVE  Ordered' /\ Worded'
<1>1. Provider' = Provider
  BY DEF Provider
<1>2. \A i : StageAt(i)' = StageAt(i)
  BY DEF StageAt, First
<1>3. Ordered'
  BY <1>1, <1>2, Zenon DEF Ordered
<1>4. Worded'
  BY DEF Worded
<1> QED
  BY <1>3, <1>4

-----------------------------------------------------------------------------
(* Send keeps the order. *)

LEMMA WordedOf ==
    ASSUME NEW t \in {"text", "text_delta"}, NEW e \in EventsOf(t)
    PROVE  e.text # <<>>
<1>1. EventsOf(t) = {[Event(t) EXCEPT !.text = <<Len(Texts(sent)) + 1>>]}
  BY Zenon DEF EventsOf
<1>2. e = [Event(t) EXCEPT !.text = <<Len(Texts(sent)) + 1>>]
  BY <1>1
<1>3. e.text = <<Len(Texts(sent)) + 1>>
  BY <1>2 DEF Event
<1>4. \A x : <<x>> # <<>>
  OBVIOUS
<1> QED
  BY <1>3, <1>4, Zenon

LEMMA SendFollows ==
    ASSUME Relaying, Send
    PROVE  \E e \in Events : /\ sent' = Append(sent, e)
                             /\ e.t \in Noise \cup Follows[Provider][Stage(sent)]
                             /\ e.t \in {"text", "text_delta"} => e.text # <<>>
<1>1. PICK t \in Noise \cup Follows[Provider][Stage(sent)] :
          \E e \in EventsOf(t) : sent' = Append(sent, e)
  BY Zenon DEF Send
<1>2. PICK e \in EventsOf(t) : sent' = Append(sent, e)
  BY <1>1
<1>3. sent \in Seq(Events) /\ Provider \in Apis /\ AllOfProvider /\ Stage(sent) \notin Final
  BY DEF Relaying, OnWire, Asked, Send
<1>4. OfProvider(t)
  <2>1. CASE t \in Noise
    BY <2>1 DEF OfProvider
  <2>2. CASE t \in Follows[Provider][Stage(sent)]
    <3>1. Stage(sent) = "none" \/ Stage(sent) \in KindsOf(Provider)
      BY <1>3, StageIs
    <3> QED
      BY <1>3, <2>2, <3>1, FollowsKinds DEF OfProvider
  <2> QED
    BY <2>1, <2>2
<1>5. e \in Events /\ e.t = t
  BY <1>3, <1>4, EventOf
<1>6. t \in {"text", "text_delta"} => e.text # <<>>
  BY WordedOf
<1> QED
  BY <1>1, <1>2, <1>5, <1>6

LEMMA SendOrders ==
    ASSUME Relaying, Send, Ordered, Worded
    PROVE  /\ Ordered' /\ Worded' /\ sent' \in Seq(Events) /\ Len(sent') = Len(sent) + 1
           /\ \A i \in 1..Len(sent) : sent'[i] = sent[i]
<1>1. PICK e \in Events : /\ sent' = Append(sent, e)
                          /\ e.t \in Noise \cup Follows[Provider][Stage(sent)]
                          /\ e.t \in {"text", "text_delta"} => e.text # <<>>
  BY SendFollows
<1>2. sent \in Seq(Events) /\ Stage(sent) \notin Final
  BY DEF Relaying, OnWire, Send
<1>3. PICK n \in Nat : n = Len(sent)
  BY <1>2
<1>4. /\ sent' \in Seq(Events) /\ Len(sent') = n + 1 /\ sent'[n + 1] = e
      /\ \A i \in 1..n : sent'[i] = sent[i]
  BY <1>1, <1>2, <1>3
<1>5. Provider' = Provider
  BY DEF Send, Provider
<1>6. ASSUME NEW m \in 0..n PROVE StageAt(m)' = StageAt(m)
  <2>1. m \in Nat /\ m <= Len(sent) /\ m <= Len(sent') /\ \A i \in 1..m : i \in 1..n
    BY <1>3, <1>4
  <2>2. \A i \in 1..m : sent'[i] = sent[i]
    BY <1>4, <2>1
  <2> QED
    BY <1>2, <1>4, <2>1, <2>2, FirstKept
<1>7. StageAt(n) = Stage(sent)
  <2>1. SubSeq(sent, 1, n) = sent
    <3>1. SubSeq(sent, 1, n) \in Seq(Events) /\ Len(SubSeq(sent, 1, n)) = n
          /\ \A i \in 1..n : SubSeq(sent, 1, n)[i] = sent[i]
      BY <1>2, <1>3
    <3>2. PICK a, b : a = SubSeq(sent, 1, n) /\ b = sent
      OBVIOUS
    <3>3. /\ a \in Seq(Events) /\ b \in Seq(Events) /\ Len(a) = Len(b)
          /\ \A i \in 1..Len(a) : a[i] = b[i]
      BY <1>2, <1>3, <3>1, <3>2, Zenon
    <3>4. a = b
      BY <3>3, SeqEqual
    <3> QED
      BY <3>2, <3>4
  <2> QED
    BY <2>1, Zenon DEF StageAt, First
<1>8. \A i \in 1..(n + 1) : (i = n + 1 \/ i \in 1..n) /\ i - 1 \in 0..n
  BY <1>3
<1>9. (n + 1) - 1 = n /\ n \in 0..n
  BY <1>3
<1>10. ASSUME NEW i \in 1..(n + 1)
       PROVE  /\ StageAt(i - 1)' \notin Final
              /\ sent'[i].t \notin Noise => sent'[i].t \in Follows[Provider][StageAt(i - 1)']
  <2>1. StageAt(i - 1)' = StageAt(i - 1)
    <3>1. PICK m \in 0..n : m = i - 1
      BY <1>8
    <3>2. StageAt(m)' = StageAt(m)
      BY <1>6
    <3> QED
      BY <3>1, <3>2, Zenon
  <2>2. CASE i = n + 1
    <3>1. StageAt(i - 1) = Stage(sent)
      BY <1>7, <1>9, <2>2, Zenon
    <3> QED
      BY <1>1, <1>2, <1>4, <2>1, <2>2, <3>1
  <2>3. CASE i \in 1..n
    <3>1. /\ StageAt(i - 1) \notin Final
          /\ sent[i].t \notin Noise => sent[i].t \in Follows[Provider][StageAt(i - 1)]
      BY <1>3, <2>3, Zenon DEF Ordered
    <3>2. sent'[i] = sent[i]
      BY <1>4, <2>3
    <3> QED
      BY <2>1, <3>1, <3>2, Zenon
  <2> QED
    BY <1>8, <2>2, <2>3
<1>11. Len(sent)' = n + 1
  BY <1>4
<1>12. Ordered'
  BY <1>5, <1>10, <1>11, Zenon DEF Ordered
<1>13. Worded'
  <2>1. ASSUME NEW i \in 1..(n + 1), sent'[i].t \in {"text", "text_delta"}
        PROVE  sent'[i].text # <<>>
    <3>1. CASE i = n + 1
      BY <1>1, <1>4, <2>1, <3>1
    <3>2. CASE i \in 1..n
      BY <1>3, <1>4, <2>1, <3>2 DEF Worded
    <3> QED
      BY <1>8, <3>1, <3>2
  <2> QED
    BY <1>11, <2>1, Zenon DEF Worded
<1> QED
  BY <1>3, <1>4, <1>12, <1>13

-----------------------------------------------------------------------------
(* Deliver translates the events that the chunk completes. *)

LEMMA DeliverRelays ==
    ASSUME Relaying, Deliver, NEW k \in Nat, k = Len(parsed)
    PROVE  \E events \in Seq(Evs) : \E s :
              /\ s.out = out /\ s.translator = translator
              /\ \A j \in 1..Len(events) : events[j] = Ev(k + j)
              /\ k + Len(events) <= Len(sent)
              /\ Len(parsed') = k + Len(events)
              /\ out' = RelayedAll(s, events).out
              /\ translator' = RelayedAll(s, events).translator
<1>1. PICK n \in 1..(Len(wire) - pos) : \E fed, s :
          /\ fed = Feed(parser, SubSeq(wire, pos + 1, pos + n))
          /\ s.out = out /\ s.translator = translator
          /\ pos' = pos + n /\ parser' = fed.parser /\ parsed' = parsed \o fed.events
          /\ out' = RelayedAll(s, fed.events).out
          /\ translator' = RelayedAll(s, fed.events).translator
  BY DeliverTakes
<1>2. PICK fed, s :
          /\ fed = Feed(parser, SubSeq(wire, pos + 1, pos + n))
          /\ s.out = out /\ s.translator = translator
          /\ pos' = pos + n /\ parser' = fed.parser /\ parsed' = parsed \o fed.events
          /\ out' = RelayedAll(s, fed.events).out
          /\ translator' = RelayedAll(s, fed.events).translator
  BY <1>1
<1>3. OnWire /\ Parsing /\ ends \in LineEnds
  BY DEF Relaying, OnWire
<1>4. /\ pos \in 0..Len(wire) /\ parsed = [j \in 1..k |-> Ev(j)]
      /\ AtEvent(k, parser, Received(pos))
  BY <1>3 DEF Parsing
<1> DEFINE chunk == SubSeq(wire, pos + 1, pos + n)
           text == Received(pos + n)
<1>5. /\ parser \in Parsers /\ chunk \in Seq(Int)
      /\ AtEvent(k, WithChunk(parser, chunk), text)
  BY <1>3, <1>4, ChunkJoins
<1>6. TurnInv(k, fed, text)
  <2>1. AtEvent(k, [parser EXCEPT !.buffer = parser.buffer \o chunk], text)
    BY <1>5, Zenon DEF WithChunk
  <2> HIDE DEF chunk, text
  <2>2. TurnInv(k, Feed(parser, chunk), text)
    BY <1>3, <1>5, <2>1, FeedKeeps
  <2> QED
    BY <1>2, <2>2, Zenon DEF chunk
<1>7. PICK events \in Seq(Evs) : events = fed.events
  BY <1>6 DEF TurnInv
<1>8. /\ \A j \in 1..Len(events) : events[j] = Ev(k + j)
      /\ AtEvent(k + Len(events), fed.parser, text)
  BY <1>6, <1>7 DEF TurnInv
<1>9. k + Len(events) \in 0..Len(sent)
  BY <1>8, Zenon DEF AtEvent
<1>10. k + Len(events) <= Len(sent)
  BY <1>9
<1>11. Len(parsed') = k + Len(events)
  <2>1. parsed' = [j \in 1..(k + Len(events)) |-> Ev(j)]
    BY <1>2, <1>4, <1>7, <1>8, MoreEvents, ZenonT(40)
  <2>2. k + Len(events) \in Nat
    BY <1>7
  <2> QED
    BY <2>1, <2>2
<1> QED
  BY <1>2, <1>7, <1>8, <1>10, <1>11, Zenon

LEMMA DeliverTells ==
    ASSUME Relaying, Deliver, Ordered, Worded, Translates,
           Telling(Len(parsed), translator, out)
    PROVE  Telling(Len(parsed), translator, out)'
<1>1. Parsing /\ sent \in Seq(Events) /\ Client \in Apis /\ Provider \in Apis
  BY DEF Relaying, OnWire, Asked
<1>2. PICK k \in Nat : k = Len(parsed)
  BY <1>1 DEF Parsing
<1>3. PICK events \in Seq(Evs) : \E s :
          /\ s.out = out /\ s.translator = translator
          /\ \A j \in 1..Len(events) : events[j] = Ev(k + j)
          /\ k + Len(events) <= Len(sent)
          /\ Len(parsed') = k + Len(events)
          /\ out' = RelayedAll(s, events).out
          /\ translator' = RelayedAll(s, events).translator
  BY <1>2, DeliverRelays
<1>4. PICK s :
          /\ s.out = out /\ s.translator = translator
          /\ \A j \in 1..Len(events) : events[j] = Ev(k + j)
          /\ k + Len(events) <= Len(sent)
          /\ Len(parsed') = k + Len(events)
          /\ out' = RelayedAll(s, events).out
          /\ translator' = RelayedAll(s, events).translator
  BY <1>3
<1>5. Telling(k, s.translator, s.out)
  BY <1>2, <1>4, Zenon
<1>6. LET r == RelayedAll(s, events)
      IN  Telling(k + Len(events), r.translator, r.out)
  BY <1>1, <1>4, <1>5, RelaysTell
<1>7. PICK m \in Nat : m = k + Len(events)
  OBVIOUS
<1>8. PICK tr, o : tr = translator' /\ o = out'
  OBVIOUS
<1>9. Telling(m, tr, o)
  BY <1>4, <1>6, <1>7, <1>8, Zenon
<1>10. UNCHANGED <<request, include, sent>>
  BY DEF Deliver
<1>11. m <= Len(sent) /\ m <= Len(sent') /\ sent' \in Seq(Events)
       /\ \A i \in 1..m : sent'[i] = sent[i]
  BY <1>1, <1>4, <1>7, <1>10
<1>12. Telling(m, tr, o)'
  BY <1>1, <1>9, <1>10, <1>11, TellingKept
<1>13. Len(parsed)' = m
  BY <1>4, <1>7
<1> QED
  BY <1>8, <1>12, <1>13, Zenon

-----------------------------------------------------------------------------
(* The other actions, and the theorem. *)

\* However a translated stream ends, what was told is well formed.
LEMMA EndsWell ==
    ASSUME UNCHANGED <<request, include, sent, parsed>>, phase' = "ended",
           NEW o, o = out', Translates => Well(o),
           Translates /\ row'.outcome = "success" /\ Client = "anthropic" =>
              FrameOf(o) \in {<<>>, Frame}
    PROVE  WellFormed'
<1>1. Client' = Client /\ Translates' = Translates
  BY DEF Client, Provider, Translates
<1>2. Frame' = Frame /\ Opening' = Opening
  BY <1>1, Zenon DEF Frame, Opening, Heard
<1>3. WellFormed' <=> WellSoFar'
  BY WellFormedIs, PTL
<1>4. WellSoFar'
  BY <1>1, <1>2, Zenon DEF WellSoFar, Well
<1> QED
  BY <1>3, <1>4

\* While the stream lasts.
RelayingWell ==
    Ordered /\ Worded /\ (Translates => Telling(Len(parsed), translator, out))

LEMMA StreamingWell ==
    ASSUME Relaying, RelayingWell
    PROVE  Translates => Well(out)
<1> SUFFICES ASSUME Translates PROVE Well(out)
  OBVIOUS
<1>1. PICK m, tr, o : m = Len(parsed) /\ tr = translator /\ o = out
  OBVIOUS
<1>2. Heard = First(m) /\ Client \in Apis
  BY <1>1, Zenon DEF Heard, First, Relaying, Asked
<1>3. Telling(m, tr, o)
  BY <1>1, Zenon DEF RelayingWell
<1>4. Well(o)
  BY <1>2, <1>3, TellingWell
<1> QED
  BY <1>1, <1>4, Zenon

LEMMA FinishWell ==
    ASSUME Relaying, RelayingWell, Finish
    PROVE  WellFormed'
<1>1. UNCHANGED <<request, include, sent, parsed>> /\ phase' = "ended"
  BY DEF Finish, Record
<1>2. PICK m, tr, o, p : m = Len(parsed) /\ tr = translator /\ o = out /\ p = out'
  OBVIOUS
<1>3. Heard = First(m) /\ Client \in Apis
  BY <1>2, Zenon DEF Heard, First, Relaying, Asked
<1>4. Translates => Telling(m, tr, o)
  BY <1>2, Zenon DEF RelayingWell
<1>5. CASE ~Translates
  BY <1>1, <1>2, <1>5, EndsWell
<1>6. CASE Translates /\ Client = "openai"
  <2>1. p = o \o <<>>
    <3>1. out' = out \o (IF Translates
                         THEN (IF Client = "anthropic" THEN Close(translator)
                               ELSE [tr |-> translator, out |-> <<>>]).out
                         ELSE parser.buffer)
      BY Zenon DEF Finish
    <3>2. Client # "anthropic" /\ [tr |-> translator, out |-> <<>>].out = <<>>
      BY <1>6
    <3>3. out' = out \o <<>>
      BY <1>6, <3>1, <3>2, Zenon
    <3> QED
      BY <1>2, <3>3, Zenon
  <2>2. TellingOpenAI(m, o)
    BY <1>4, <1>6, Zenon DEF Telling
  <2>3. Tells(o, 1)
    BY <2>2, Zenon DEF TellingOpenAI, SoFar
  <2>4. p = o
    BY <2>1, <2>3, Joined2, Zenon
  <2>5. Well(p)
    BY <1>3, <1>4, <1>6, <2>4, TellingWell
  <2>6. Client # "anthropic"
    BY <1>6
  <2> QED
    BY <1>1, <1>2, <2>5, <2>6, EndsWell
<1>7. CASE Translates /\ Client = "anthropic"
  <2>1. p = o \o Close(tr).out
    <3>1. out' = out \o Close(translator).out
      BY <1>7, Zenon DEF Finish
    <3> QED
      BY <1>2, <3>1, Zenon
  <2>2. TellingAnthropic(m, tr, o)
    <3>1. Client # "openai"
      BY <1>7
    <3> QED
      BY <1>4, <1>7, <3>1, Zenon DEF Telling
  <2>3. /\ Tells(o, 2) /\ IsTranslator(tr) /\ (tr.closed => tr.started)
        /\ FrameOf(o) = IF ~tr.started THEN <<>> ELSE IF tr.closed THEN Shut ELSE Opened
    BY <2>2, Zenon DEF TellingAnthropic
  <2>4. LET c == Close(tr)
        IN  Tells(o \o c.out, 2) /\ FrameOf(o \o c.out) = IF tr.started THEN Shut ELSE <<>>
    BY <2>3, CloseTells
  <2>5. Tells(p, 2) /\ FrameOf(p) = IF tr.started THEN Shut ELSE <<>>
    BY <2>1, <2>4, Zenon
  <2>6. Frame = Shut /\ Opening = 2
    <3>1. Client # "openai"
      BY <1>7
    <3> QED
      BY <3>1, Zenon DEF Frame, Opening, Shut
  <2>7. FrameOf(p) \in {<<>>, Shut}
    BY <2>5
  <2>8. Well(p)
    BY <2>5, <2>6, <2>7, ShutIs, Zenon DEF Well, Tells
  <2> QED
    BY <1>1, <1>2, <2>6, <2>7, <2>8, EndsWell
<1>8. Client = "openai" \/ Client = "anthropic"
  BY <1>3 DEF Apis
<1> QED
  BY <1>5, <1>6, <1>7, <1>8

\* A broken connection adds nothing.
LEMMA BreakWell ==
    ASSUME Relaying, RelayingWell, Interrupted \/ Disconnected
    PROVE  WellFormed'
<1>1. UNCHANGED <<request, include, sent, parsed, out>> /\ phase' = "ended"
  BY DEF Interrupted, Disconnected, Record, streamVars
<1>2. row'.outcome # "success"
  <2>1. CASE Interrupted
    BY <2>1 DEF Interrupted, Record
  <2>2. CASE Disconnected
    BY <2>2 DEF Disconnected, Record
  <2> QED
    BY <2>1, <2>2
<1>3. PICK o : o = out /\ o = out'
  BY <1>1
<1>4. Translates => Well(o)
  BY <1>3, StreamingWell
<1> QED
  BY <1>1, <1>2, <1>3, <1>4, EndsWell

LEMMA ConnectWell ==
    ASSUME Fresh, translator = NewTranslator, Connect
    PROVE  RelayingWell'
<1>1. UNCHANGED <<sent, parsed, translator, out>>
  BY DEF Connect, streamVars
<1>2. sent' = <<>> /\ parsed' = <<>> /\ translator' = NewTranslator /\ out' = <<>>
  BY <1>1 DEF Fresh
<1>3. Len(sent)' = 0 /\ Len(parsed)' = 0 /\ 1..0 = {}
  BY <1>2
<1>4. Ordered' /\ Worded'
  BY <1>3 DEF Ordered, Worded
<1>5. Telling(0, NewTranslator, <<>>)'
  BY TellingNothing, PTL
<1>6. Telling(Len(parsed), translator, out)'
  BY <1>2, <1>3, <1>5, Zenon
<1> QED
  BY <1>4, <1>6 DEF RelayingWell

LEMMA SendWell ==
    ASSUME Relaying, RelayingWell, Send
    PROVE  RelayingWell'
<1>1. /\ Ordered' /\ Worded' /\ sent' \in Seq(Events) /\ Len(sent') = Len(sent) + 1
      /\ \A i \in 1..Len(sent) : sent'[i] = sent[i]
  BY SendOrders DEF RelayingWell
<1>2. UNCHANGED <<request, include, parsed, translator, out>>
  BY DEF Send
<1>3. PICK tr, o : tr = translator /\ o = out
  OBVIOUS
<1>4. Parsing /\ sent \in Seq(Events)
  BY DEF Relaying, OnWire
<1>5. PICK m \in Nat : m = Len(parsed)
  BY <1>4 DEF Parsing
<1>6. m \in 0..Len(sent)
  BY <1>4, <1>5, Zenon DEF Parsing, AtEvent
<1>7. PICK n \in Nat : n = Len(sent)
  BY <1>4
<1>8. m <= Len(sent) /\ m <= Len(sent') /\ \A i \in 1..m : i \in 1..n
  BY <1>1, <1>6, <1>7
<1>9. \A i \in 1..m : sent'[i] = sent[i]
  BY <1>1, <1>7, <1>8
<1>10. ASSUME Translates' PROVE Telling(Len(parsed), translator, out)'
  <2>1. Translates
    BY <1>2, <1>10 DEF Translates, Client, Provider
  <2>2. Telling(m, tr, o)
    BY <1>3, <1>5, <2>1, Zenon DEF RelayingWell
  <2>3. Telling(m, tr, o)'
    BY <1>1, <1>2, <1>4, <1>8, <1>9, <2>2, TellingKept
  <2>4. Len(parsed)' = m /\ translator' = tr /\ out' = o
    BY <1>2, <1>3, <1>5
  <2> QED
    BY <2>3, <2>4, Zenon
<1> QED
  BY <1>1, <1>10 DEF RelayingWell

LEMMA DeliverWell ==
    ASSUME Relaying, RelayingWell, Deliver
    PROVE  RelayingWell'
<1>1. UNCHANGED <<request, sent>>
  BY DEF Deliver
<1>2. Ordered' /\ Worded'
  BY <1>1, OrderedKept DEF RelayingWell
<1>3. ASSUME Translates' PROVE Telling(Len(parsed), translator, out)'
  <2>1. Translates
    BY <1>1, <1>3 DEF Translates, Client, Provider
  <2> QED
    BY <2>1, DeliverTells DEF RelayingWell
<1> QED
  BY <1>2, <1>3 DEF RelayingWell

LEMMA StillWell ==
    ASSUME Relaying, RelayingWell, UNCHANGED vars
    PROVE  RelayingWell'
<1>1. UNCHANGED <<request, include, sent, parsed, translator, out>>
  BY DEF vars, streamVars
<1>2. Ordered' /\ Worded'
  BY <1>1, OrderedKept DEF RelayingWell
<1>3. PICK tr, o : tr = translator /\ o = out
  OBVIOUS
<1>4. Parsing /\ sent \in Seq(Events)
  BY DEF Relaying, OnWire
<1>5. PICK m \in Nat : m = Len(parsed)
  BY <1>4 DEF Parsing
<1>6. m \in 0..Len(sent)
  BY <1>4, <1>5, Zenon DEF Parsing, AtEvent
<1>7. m <= Len(sent) /\ m <= Len(sent') /\ sent' \in Seq(Events)
      /\ \A i \in 1..m : sent'[i] = sent[i]
  BY <1>1, <1>4, <1>6
<1>8. ASSUME Translates' PROVE Telling(Len(parsed), translator, out)'
  <2>1. Translates
    BY <1>1, <1>8 DEF Translates, Client, Provider
  <2>2. Telling(m, tr, o)
    BY <1>3, <1>5, <2>1, Zenon DEF RelayingWell
  <2>3. Telling(m, tr, o)'
    BY <1>1, <1>4, <1>7, <2>2, TellingKept
  <2>4. Len(parsed)' = m /\ translator' = tr /\ out' = o
    BY <1>1, <1>3, <1>5
  <2> QED
    BY <2>3, <2>4, Zenon
<1> QED
  BY <1>2, <1>8 DEF RelayingWell

\* What a translator has told, throughout.
WellInv ==
    /\ StreamsInv
    /\ phase \in {"new", "sent"} => translator = NewTranslator
    /\ phase = "streaming" => RelayingWell
    /\ phase = "ended" => WellFormed

LEMMA WellInit ==
    ASSUME Init
    PROVE  WellInv
  BY InvInit DEF Init, WellInv

LEMMA WellNext ==
    ASSUME WellInv, [Next]_vars
    PROVE  WellInv'
<1>0. StreamsInv /\ StreamsInv'
  BY InvNext DEF WellInv
<1>1. CASE Prepare
  <2>1. phase = "new" /\ phase' = "sent" /\ UNCHANGED translator
    BY <1>1 DEF Prepare, streamVars
  <2> QED
    BY <1>0, <2>1 DEF WellInv
<1>2. CASE Connect
  <2>1. phase = "sent" /\ phase' = "streaming"
    BY <1>2 DEF Connect
  <2>2. Fresh /\ translator = NewTranslator
    BY <1>0, <2>1 DEF WellInv, StreamsInv
  <2>3. RelayingWell'
    BY <1>2, <2>2, ConnectWell
  <2> QED
    BY <1>0, <2>1, <2>3 DEF WellInv
<1>3. CASE Answer
  <2>1. phase = "sent" /\ phase' = "ended" /\ UNCHANGED sent
    BY <1>3 DEF Answer
  <2>2. sent' = <<>>
    BY <1>0, <2>1 DEF StreamsInv, Fresh
  <2>3. WellFormed'
    BY <2>2, Zenon DEF WellFormed
  <2> QED
    BY <1>0, <2>1, <2>3 DEF WellInv
<1>4. CASE Send
  <2>1. phase = "streaming" /\ phase' = "streaming"
    BY <1>4 DEF Send
  <2>2. RelayingWell'
    BY <1>0, <1>4, <2>1, SendWell DEF WellInv, StreamsInv
  <2> QED
    BY <1>0, <2>1, <2>2 DEF WellInv
<1>5. CASE Deliver
  <2>1. phase = "streaming" /\ phase' = "streaming"
    BY <1>5 DEF Deliver
  <2>2. RelayingWell'
    BY <1>0, <1>5, <2>1, DeliverWell DEF WellInv, StreamsInv
  <2> QED
    BY <1>0, <2>1, <2>2 DEF WellInv
<1>6. CASE Finish
  <2>1. phase = "streaming" /\ phase' = "ended"
    BY <1>6 DEF Finish, Record
  <2>2. WellFormed'
    BY <1>0, <1>6, <2>1, FinishWell DEF WellInv, StreamsInv
  <2> QED
    BY <1>0, <2>1, <2>2 DEF WellInv
<1>7. CASE Interrupted \/ Disconnected
  <2>1. phase = "streaming" /\ phase' = "ended"
    BY <1>7 DEF Interrupted, Disconnected, Record
  <2>2. WellFormed'
    BY <1>0, <1>7, <2>1, BreakWell DEF WellInv, StreamsInv
  <2> QED
    BY <1>0, <2>1, <2>2 DEF WellInv
<1>8. CASE UNCHANGED vars
  <2>1. UNCHANGED <<phase, request, include, sent, parsed, translator, out, row>>
    BY <1>8 DEF vars, streamVars
  <2>2. phase = "streaming" => RelayingWell'
    BY <1>0, <1>8, StillWell DEF WellInv, StreamsInv
  <2>3. WellFormed => WellFormed'
    <3>1. WellFormed <=> WellSoFar
      BY WellFormedIs
    <3>2. WellFormed' <=> WellSoFar'
      BY WellFormedIs, PTL
    <3>3. Client' = Client /\ Translates' = Translates
      BY <2>1 DEF Client, Provider, Translates
    <3>4. Frame' = Frame /\ Opening' = Opening
      BY <2>1, <3>3, Zenon DEF Frame, Opening, Heard
    <3>5. WellSoFar => WellSoFar'
      BY <2>1, <3>3, <3>4, Zenon DEF WellSoFar, Well
    <3> QED
      BY <3>1, <3>2, <3>5
  <2> QED
    BY <1>0, <2>1, <2>2, <2>3 DEF WellInv
<1> QED
  BY <1>1, <1>2, <1>3, <1>4, <1>5, <1>6, <1>7, <1>8 DEF Next

\* A client of the other API is told its own kind of stream: the frame in order and once, text only
\* inside it, and an Anthropic client's frame is whole when the provider closes.
THEOREM StreamsWellFormed == Spec => []WellFormed
<1>1. WellInv => WellFormed
  <2>1. phase \notin {"streaming", "ended"} => WellFormed
    BY Zenon DEF WellFormed
  <2>2. WellInv /\ phase = "streaming" => WellFormed
    <3> SUFFICES ASSUME WellInv, phase = "streaming" PROVE WellFormed
      OBVIOUS
    <3>1. Relaying /\ RelayingWell
      BY DEF WellInv, StreamsInv
    <3>2. Translates => Well(out)
      BY <3>1, StreamingWell
    <3>3. phase # "ended"
      OBVIOUS
    <3> QED
      BY <3>2, <3>3, WellFormedIs, Zenon DEF WellSoFar
  <2>3. WellInv /\ phase = "ended" => WellFormed
    BY DEF WellInv
  <2> QED
    BY <2>1, <2>2, <2>3
<1>2. Spec => []WellInv
  BY WellInit, WellNext, PTL DEF Spec
<1> QED
  BY <1>1, <1>2, PTL
=============================================================================
