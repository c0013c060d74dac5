----------------------------- MODULE LayoutProofs -----------------------------
(***************************************************************************)
(* Proofs about DashboardLayout for every dashboard.  The layout of a      *)
(* dashboard is computed by recursion over the panels of a list and over   *)
(* the rows within rows; what it computes is proved by induction over      *)
(* both.  No induction theorem that takes a predicate is used: induction   *)
(* is a minimal counterexample, taken from a well-founded order.           *)
(***************************************************************************)
EXTENDS DashboardLayout, SequenceTheorems, WellFoundedInduction, TLAPS

\* A set that holds 0 and the successor of each of its numbers up to a limit has
\* all the numbers up to that limit.
LEMMA InductionTo ==
  ASSUME NEW M \in Nat, NEW S, 0 \in S, \A n \in 1..M : n - 1 \in S => n \in S
  PROVE  0..M \subseteq S
<1> SUFFICES ASSUME (0..M) \ S # {} PROVE FALSE
  OBVIOUS
<1> DEFINE R == {pair \in Nat \X Nat : pair[1] < pair[2]}
<1>1. IsWellFoundedOn(R, Nat)
  BY NatLessThanWellFounded DEF OpToRel
<1>2. \A x, y \in Nat : x < y => <<x, y>> \in R
  OBVIOUS
<1>3. (0..M) \ S \subseteq Nat
  OBVIOUS
<1> HIDE DEF R
<1>4. PICK x \in (0..M) \ S : \A y \in (0..M) \ S : <<y, x>> \notin R
  BY <1>1, <1>3, WFMin
<1>5. x \in 1..M /\ x - 1 \in 0..M /\ x - 1 < x
  BY <1>4
<1>6. x - 1 \in S
  BY <1>2, <1>3, <1>4, <1>5
<1> QED
  BY <1>4, <1>5, <1>6

\* A function on 0..M is defined by its first value and by its steps.
Iterates(f, M, first, step) == f[0] = first /\ \A n \in 1..M : f[n] = step[n][f[n - 1]]

LEMMA RecursionTo ==
  ASSUME NEW M \in Nat, NEW V, NEW first \in V, NEW step \in [1..M -> [V -> V]]
  PROVE  \E f \in [0..M -> V] : Iterates(f, M, first, step)
<1> DEFINE Upto(n) == \E f \in [0..M -> V] :
                        f[0] = first /\ \A i \in 1..n : f[i] = step[i][f[i - 1]]
           S == {n \in 0..M : Upto(n)}
<1>1. 0 \in S
  <2> DEFINE f == [i \in 0..M |-> first]
  <2>1. f \in [0..M -> V] /\ f[0] = first
    OBVIOUS
  <2>2. \A i \in 1..0 : f[i] = step[i][f[i - 1]]
    OBVIOUS
  <2> HIDE DEF f
  <2>3. Upto(0)
    BY <2>1, <2>2
  <2> QED
    BY <2>3
<1>2. ASSUME NEW n \in 1..M, n - 1 \in S PROVE n \in S
  <2>1. PICK f \in [0..M -> V] :
               f[0] = first /\ \A i \in 1..(n - 1) : f[i] = step[i][f[i - 1]]
    BY <1>2
  <2> DEFINE g == [f EXCEPT ![n] = step[n][f[n - 1]]]
  <2>2. g \in [0..M -> V]
    OBVIOUS
  <2>3. g[0] = first /\ \A i \in 1..n : g[i] = step[i][g[i - 1]]
    BY <2>1
  <2> HIDE DEF g
  <2>4. Upto(n)
    BY <2>2, <2>3
  <2> QED
    BY <2>4
<1> HIDE DEF S
<1>3. 0..M \subseteq S
  BY <1>1, <1>2, InductionTo
<1>4. M \in S
  BY <1>3
<1> QED
  BY <1>4 DEF S, Iterates

-----------------------------------------------------------------------------
\* The sequences that the concatenation of a sequence of sequences goes through.
Concatenates(f, s, T) ==
  /\ f \in [0..Len(s) -> Seq(T)]
  /\ f[0] = << >>
  /\ \A i \in 1..Len(s) : f[i] = f[i - 1] \o s[i]

LEMMA FlattenSteps ==
  ASSUME NEW T, NEW s \in Seq(Seq(T))
  PROVE  \E f : Concatenates(f, s, T) /\ FlattenSeq(s) = f[Len(s)]
<1> DEFINE M == Len(s)
           V == Seq(T)
           step == [i \in 1..M |-> [x \in V |-> x \o s[i]]]
<1>1. M \in Nat /\ \A i \in 1..M : s[i] \in V
  BY ElementOfSeq, LenProperties
<1>2. << >> \in V /\ \A x \in V : << >> \o x = x
  BY ConcatEmptySeq
<1>3. \A i \in 1..M : \A x \in V : x \o s[i] \in V
  BY <1>1, ConcatProperties
<1>4. FlattenSeq(s) = IF M = 0 THEN s
                      ELSE (CHOOSE g : g = [i \in 1..M |->
                                              IF i = 1 THEN s[i] ELSE g[i - 1] \o s[i]])[M]
  BY DEF FlattenSeq
<1>5. M = 0 => s = << >>
  BY EmptySeq
<1> HIDE DEF M, V
<1>6. step \in [1..M -> [V -> V]] /\ \A n \in 1..M : \A x \in V : step[n][x] = x \o s[n]
  BY <1>3
<1> HIDE DEF step
<1>7. PICK f \in [0..M -> V] : Iterates(f, M, << >>, step)
  BY <1>1, <1>2, <1>6, RecursionTo
<1>8. ASSUME NEW n \in 1..M
      PROVE  f[n] = f[n - 1] \o s[n] /\ (n = 1 => f[n] = s[n])
  <2>1. n - 1 \in 0..M /\ f[n - 1] \in V
    BY <1>1
  <2>2. f[n] = f[n - 1] \o s[n]
    BY <1>6, <1>7, <2>1 DEF Iterates
  <2>3. n = 1 => f[n - 1] = << >>
    BY <1>7 DEF Iterates
  <2>4. << >> \o s[n] = s[n]
    BY <1>1, <1>2, Zenon
  <2> QED
    BY <2>2, <2>3, <2>4, Zenon
<1>9. Concatenates(f, s, T)
  BY <1>7, <1>8 DEF Iterates, Concatenates, M, V
<1>10. ASSUME M # 0
       PROVE  FlattenSeq(s) = f[M]
  <2> DEFINE flat == CHOOSE g : g = [i \in 1..M |-> IF i = 1 THEN s[i] ELSE g[i - 1] \o s[i]]
  <2>1. FlattenSeq(s) = flat[M]
    BY <1>4, <1>10
  <2>2. flat = [i \in 1..M |-> IF i = 1 THEN s[i] ELSE flat[i - 1] \o s[i]]
    <3> DEFINE h == [i \in 1..M |-> f[i]]
    <3>1. ASSUME NEW i \in 1..M PROVE f[i] = IF i = 1 THEN s[i] ELSE h[i - 1] \o s[i]
      <4>1. i # 1 => i - 1 \in 1..M
        BY <1>1
      <4> QED
        BY <1>8, <4>1
    <3>2. h = [i \in 1..M |-> IF i = 1 THEN s[i] ELSE h[i - 1] \o s[i]]
      BY <3>1, Zenon
    <3> HIDE DEF h
    <3> QED
      BY <3>2
  <2> HIDE DEF flat
  <2> DEFINE S == {n \in 0..M : n # 0 => flat[n] = f[n]}
  <2>3. 0 \in S
    BY <1>1
  <2>4. ASSUME NEW n \in 1..M, n - 1 \in S PROVE n \in S
    <3>1. flat[n] = IF n = 1 THEN s[n] ELSE flat[n - 1] \o s[n]
      BY <2>2, Zenon
    <3>2. n # 1 => flat[n - 1] = f[n - 1]
      BY <1>1, <2>4
    <3>3. n \in 0..M
      BY <1>1
    <3>4. flat[n] = f[n]
      BY <1>8, <3>1, <3>2
    <3> QED
      BY <3>3, <3>4
  <2> HIDE DEF S
  <2>5. 0..M \subseteq S
    BY <1>1, <2>3, <2>4, InductionTo
  <2>6. M \in S
    BY <1>1, <2>5
  <2> QED
    BY <1>10, <2>1, <2>6 DEF S
<1>11. FlattenSeq(s) = f[M]
  BY <1>4, <1>5, <1>7, <1>10 DEF Iterates
<1> QED
  BY <1>9, <1>11 DEF M

LEMMA FlattenEmpty == FlattenSeq(<< >>) = << >>
  BY DEF FlattenSeq

LEMMA FlattenAppend ==
  ASSUME NEW T, NEW s \in Seq(Seq(T)), NEW x \in Seq(T)
  PROVE  FlattenSeq(s) \in Seq(T) /\ FlattenSeq(Append(s, x)) = FlattenSeq(s) \o x
<1> DEFINE M == Len(s)
           V == Seq(T)
           longer == Append(s, x)
<1>1. /\ M \in Nat /\ longer \in Seq(V) /\ Len(longer) = M + 1 /\ longer[M + 1] = x
      /\ \A n \in 1..M : longer[n] = s[n]
  BY AppendProperties, LenProperties
<1>2. PICK f : Concatenates(f, s, T) /\ FlattenSeq(s) = f[M]
  BY FlattenSteps
<1>3. PICK g : Concatenates(g, longer, T) /\ FlattenSeq(longer) = g[M + 1]
  BY <1>1, FlattenSteps
<1>4. f \in [0..M -> V] /\ f[0] = << >> /\ \A n \in 1..M : f[n] = f[n - 1] \o s[n]
  BY <1>2 DEF Concatenates
<1>5. g[0] = << >> /\ \A n \in 1..(M + 1) : g[n] = g[n - 1] \o longer[n]
  BY <1>1, <1>3 DEF Concatenates
<1> HIDE DEF M, V, longer
<1> DEFINE S == {n \in 0..M : f[n] = g[n]}
<1>6. 0 \in S
  BY <1>1, <1>4, <1>5
<1>7. ASSUME NEW n \in 1..M, n - 1 \in S PROVE n \in S
  <2>1. n \in 0..M /\ n \in 1..(M + 1) /\ f[n - 1] = g[n - 1] /\ longer[n] = s[n]
    BY <1>1, <1>7
  <2>2. f[n] = f[n - 1] \o s[n] /\ g[n] = g[n - 1] \o longer[n]
    BY <1>4, <1>5, <2>1
  <2> QED
    BY <2>1, <2>2
<1> HIDE DEF S
<1>8. 0..M \subseteq S
  BY <1>1, <1>6, <1>7, InductionTo
<1>9. f[M] = g[M] /\ f[M] \in V
  BY <1>1, <1>4, <1>8 DEF S
<1>10. g[M + 1] = g[M] \o x
  <2>1. M + 1 \in 1..(M + 1) /\ (M + 1) - 1 = M
    BY <1>1
  <2> QED
    BY <1>1, <1>5, <2>1
<1> QED
  BY <1>2, <1>3, <1>9, <1>10 DEF V, longer

\* A statement about all the sequences of a set holds when it holds of the empty
\* one and is kept by appending; P is the set of the sequences it holds of.
LEMMA InductionOnSequences ==
  ASSUME NEW T, NEW P, << >> \in P,
         \A s \in Seq(T) : \A x \in T : s \in P => Append(s, x) \in P
  PROVE  Seq(T) \subseteq P
<1> SUFFICES ASSUME NEW s \in Seq(T) PROVE s \in P
  OBVIOUS
<1> DEFINE M == Len(s)
           prefix == [n \in 0..M |-> SubSeq(s, 1, n)]
           Q == {n \in 0..M : prefix[n] \in P}
<1>1. M \in Nat
  BY LenProperties
<1>2. prefix[0] = << >> /\ prefix[M] = s
  BY <1>1, SubSeqEmpty, SubSeqFull
<1>3. ASSUME NEW n \in 1..M
      PROVE  /\ prefix[n - 1] \in Seq(T) /\ s[n] \in T
             /\ prefix[n] = Append(prefix[n - 1], s[n])
  <2>1. n \in 0..M /\ n - 1 \in 0..M /\ s[n] \in T
    BY <1>1, ElementOfSeq
  <2>2. /\ SubSeq(s, 1, n - 1) \in Seq(T)
        /\ SubSeq(s, 1, n) = Append(SubSeq(s, 1, n - 1), s[n])
    BY <1>1, SubSeqProperties, SubSeqRecursiveSecond
  <2> QED
    BY <2>1, <2>2
<1> HIDE DEF prefix, M
<1>4. 0 \in Q
  BY <1>1, <1>2
<1>5. ASSUME NEW n \in 1..M, n - 1 \in Q PROVE n \in Q
  <2>1. prefix[n - 1] \in P /\ n \in 0..M
    BY <1>1, <1>5
  <2>2. Append(prefix[n - 1], s[n]) \in P
    BY <1>3, <2>1, Zenon
  <2> QED
    BY <1>3, <2>1, <2>2
<1> HIDE DEF Q
<1>6. 0..M \subseteq Q
  BY <1>1, <1>4, <1>5, InductionTo
<1>7. M \in Q
  BY <1>1, <1>6
<1> QED
  BY <1>2, <1>7 DEF Q

\* The elements of a sequence, each put through a function.
IsMap(h, T, U) == h \in [T -> U]
Mapped(h, s) == [i \in DOMAIN s |-> h[s[i]]]

LEMMA MappedIsSequence ==
  ASSUME NEW T, NEW U, NEW h, IsMap(h, T, U), NEW s \in Seq(T)
  PROVE  Mapped(h, s) \in Seq(U) /\ Len(Mapped(h, s)) = Len(s)
<1>1. Len(s) \in Nat /\ DOMAIN s = 1..Len(s) /\ \A i \in 1..Len(s) : s[i] \in T
  BY ElementOfSeq, LenProperties
<1>2. Mapped(h, s) = [i \in 1..Len(s) |-> h[s[i]]]
  BY <1>1 DEF Mapped
<1> QED
  BY <1>1, <1>2 DEF IsMap

LEMMA MappedAppend ==
  ASSUME NEW T, NEW U, NEW h, IsMap(h, T, U), NEW s \in Seq(T), NEW x \in T
  PROVE  Mapped(h, Append(s, x)) = Append(Mapped(h, s), h[x])
<1>1. /\ Append(s, x) \in Seq(T) /\ Len(Append(s, x)) = Len(s) + 1 /\ Len(s) \in Nat
      /\ \A i \in 1..Len(s) : Append(s, x)[i] = s[i]
      /\ Append(s, x)[Len(s) + 1] = x
      /\ \A i \in 1..Len(s) : s[i] \in T
      /\ DOMAIN s = 1..Len(s) /\ DOMAIN Append(s, x) = 1..(Len(s) + 1)
  BY AppendProperties, ElementOfSeq, LenProperties
<1>2. /\ Mapped(h, s) = [i \in 1..Len(s) |-> h[s[i]]]
      /\ Mapped(h, Append(s, x)) = [i \in 1..(Len(s) + 1) |-> h[Append(s, x)[i]]]
  BY <1>1 DEF Mapped
<1>3. Mapped(h, s) \in Seq(U) /\ Len(Mapped(h, s)) = Len(s)
  BY MappedIsSequence
<1>4. /\ Append(Mapped(h, s), h[x]) \in Seq(U)
      /\ Len(Append(Mapped(h, s), h[x])) = Len(s) + 1
      /\ \A i \in 1..Len(s) : Append(Mapped(h, s), h[x])[i] = h[s[i]]
      /\ Append(Mapped(h, s), h[x])[Len(s) + 1] = h[x]
  BY <1>1, <1>2, <1>3, AppendProperties DEF IsMap
<1>5. /\ Mapped(h, Append(s, x)) \in Seq(U)
      /\ Len(Mapped(h, Append(s, x))) = Len(s) + 1
      /\ \A i \in 1..(Len(s) + 1) : Mapped(h, Append(s, x))[i] = h[Append(s, x)[i]]
  BY <1>1, <1>2 DEF IsMap
<1>6. \A i \in 1..(Len(s) + 1) :
        Mapped(h, Append(s, x))[i] = Append(Mapped(h, s), h[x])[i]
  <2> SUFFICES ASSUME NEW i \in 1..(Len(s) + 1)
               PROVE  Mapped(h, Append(s, x))[i] = Append(Mapped(h, s), h[x])[i]
    OBVIOUS
  <2>1. CASE i \in 1..Len(s)
    <3>1. Append(s, x)[i] = s[i]
      BY <1>1, <2>1
    <3> QED
      BY <1>4, <1>5, <2>1, <3>1
  <2>2. CASE i = Len(s) + 1
    BY <1>1, <1>4, <1>5, <2>2
  <2>3. i \in 1..Len(s) \/ i = Len(s) + 1
    BY <1>1
  <2> QED
    BY <2>1, <2>2, <2>3
<1> QED
  BY <1>3, <1>4, <1>5, <1>6, SeqEqual

LEMMA ConcatAppend ==
  ASSUME NEW T, NEW s \in Seq(T), NEW t \in Seq(T), NEW x \in T
  PROVE  s \o Append(t, x) = Append(s \o t, x)
<1> DEFINE u == <<x>>
<1>1. s \o t \in Seq(T) /\ u \in Seq(T)
  BY ConcatProperties
<1>2. Append(t, x) = t \o u /\ Append(s \o t, x) = (s \o t) \o u
  BY <1>1, AppendIsConcat
<1> HIDE DEF u
<1>3. (s \o t) \o u = s \o (t \o u)
  BY <1>1, ConcatAssociative
<1> QED
  BY <1>2, <1>3

LEMMA MappedConcat ==
  ASSUME NEW T, NEW U, NEW h, IsMap(h, T, U), NEW s \in Seq(T), NEW t \in Seq(T)
  PROVE  Mapped(h, s \o t) = Mapped(h, s) \o Mapped(h, t)
<1>0. ASSUME NEW q \in Seq(T), NEW x \in T
      PROVE  Mapped(h, q) \in Seq(U) /\ Mapped(h, Append(q, x)) = Append(Mapped(h, q), h[x])
  BY MappedAppend, MappedIsSequence
<1> DEFINE P == {q \in Seq(T) : Mapped(h, s \o q) = Mapped(h, s) \o Mapped(h, q)}
<1>1. Mapped(h, s) \in Seq(U) /\ Mapped(h, << >>) = << >>
  BY MappedIsSequence DEF Mapped
<1>2. << >> \in P
  <2>1. << >> \in Seq(T) /\ s \o << >> = s
    BY ConcatEmptySeq
  <2>2. Mapped(h, s) \o << >> = Mapped(h, s)
    BY <1>1, ConcatEmptySeq
  <2> QED
    BY <1>1, <2>1, <2>2
<1>3. ASSUME NEW q \in Seq(T), NEW x \in T, q \in P PROVE Append(q, x) \in P
  <2>1. Append(q, x) \in Seq(T) /\ s \o q \in Seq(T) /\ h[x] \in U
    BY AppendProperties, ConcatProperties DEF IsMap
  <2>2. s \o Append(q, x) = Append(s \o q, x)
    BY ConcatAppend
  <2>3. Mapped(h, Append(s \o q, x)) = Append(Mapped(h, s \o q), h[x])
    BY <1>0, <2>1
  <2>4. Mapped(h, q) \in Seq(U) /\ Mapped(h, Append(q, x)) = Append(Mapped(h, q), h[x])
    BY <1>0
  <2>5. Mapped(h, s) \o Append(Mapped(h, q), h[x]) = Append(Mapped(h, s) \o Mapped(h, q), h[x])
    BY <1>1, <2>1, <2>4, ConcatAppend
  <2> QED
    BY <1>3, <2>1, <2>2, <2>3, <2>4, <2>5
<1> HIDE DEF P
<1>4. Seq(T) \subseteq P
  BY <1>2, <1>3, InductionOnSequences
<1> QED
  BY <1>4 DEF P

Lifted(h, T) == [q \in Seq(T) |-> Mapped(h, q)]

LEMMA MappedFlatten ==
  ASSUME NEW T, NEW U, NEW h, IsMap(h, T, U), NEW s \in Seq(Seq(T))
  PROVE  FlattenSeq(Mapped(Lifted(h, T), s)) = Mapped(h, FlattenSeq(s))
<1> DEFINE V == Seq(T)
           W == Seq(U)
           lift == Lifted(h, T)
           P == {q \in Seq(V) : FlattenSeq(Mapped(lift, q)) = Mapped(h, FlattenSeq(q))}
<1>1. IsMap(lift, V, W) /\ \A x \in V : lift[x] = Mapped(h, x) /\ lift[x] \in W
  <2>1. \A x \in V : Mapped(h, x) \in W
    BY MappedIsSequence
  <2> QED
    BY <2>1 DEF IsMap, Lifted
<1>2. << >> \in P
  <2>1. << >> \in Seq(V) /\ Mapped(lift, << >>) = << >> /\ Mapped(h, << >>) = << >>
    BY DEF Mapped
  <2> QED
    BY <2>1, FlattenEmpty
<1>3. ASSUME NEW q \in Seq(V), NEW x \in V, q \in P PROVE Append(q, x) \in P
  <2>1. Append(q, x) \in Seq(V) /\ FlattenSeq(q) \in V
        /\ FlattenSeq(Append(q, x)) = FlattenSeq(q) \o x
    BY AppendProperties, FlattenAppend
  <2>2. Mapped(lift, q) \in Seq(W) /\ Mapped(lift, Append(q, x)) = Append(Mapped(lift, q), lift[x])
    <3> HIDE DEF lift, V, W
    <3> QED
      BY <1>1, MappedIsSequence, MappedAppend
  <2>3. FlattenSeq(Append(Mapped(lift, q), lift[x])) = FlattenSeq(Mapped(lift, q)) \o lift[x]
    BY <1>1, <2>2, FlattenAppend
  <2>4. Mapped(h, FlattenSeq(q) \o x) = Mapped(h, FlattenSeq(q)) \o Mapped(h, x)
    BY <2>1, MappedConcat
  <2> QED
    BY <1>1, <1>3, <2>1, <2>2, <2>3, <2>4
<1> HIDE DEF P
<1>4. Seq(V) \subseteq P
  BY <1>2, <1>3, InductionOnSequences
<1> QED
  BY <1>4 DEF P

-----------------------------------------------------------------------------
\* Induction and recursion over the rows within rows.
LEMMA InductionOnLists ==
  ASSUME NEW P, \A list \in PanelLists : RowLists(list) \subseteq P => list \in P
  PROVE  PanelLists \subseteq P
<1> SUFFICES ASSUME PanelLists \ P # {} PROVE FALSE
  OBVIOUS
<1>1. PICK list \in PanelLists \ P : RowLists(list) \cap (PanelLists \ P) = {}
  BY LayoutAssumption
<1>2. RowLists(list) \subseteq P
  BY <1>1, LayoutAssumption
<1> QED
  BY <1>1, <1>2

\* A function on the lists is defined by what it is for a list, in terms of what
\* it is for the lists of its rows.
RowStep(step, V) ==
  /\ step \in [PanelLists -> [[PanelLists -> V] -> V]]
  /\ \A list \in PanelLists : \A f, g \in [PanelLists -> V] :
       (\A row \in RowLists(list) : f[row] = g[row]) => step[list][f] = step[list][g]

\* A part of the function: it is right on the lists of a set that is closed.
Part(D, f, step, V) ==
  /\ D \subseteq PanelLists /\ \A list \in D : RowLists(list) \subseteq D
  /\ f \in [PanelLists -> V] /\ \A list \in D : f[list] = step[list][f]

LEMMA PartsAgree ==
  ASSUME NEW V, NEW step, RowStep(step, V), NEW D, NEW f, Part(D, f, step, V),
         NEW E, NEW g, Part(E, g, step, V), NEW list \in D \cap E
  PROVE  f[list] = g[list]
<1> DEFINE P == {l \in PanelLists : l \in D \cap E => f[l] = g[l]}
<1>1. ASSUME NEW l \in PanelLists, RowLists(l) \subseteq P PROVE l \in P
  <2> SUFFICES ASSUME l \in D \cap E PROVE f[l] = g[l]
    OBVIOUS
  <2>1. \A row \in RowLists(l) : f[row] = g[row]
    BY <1>1 DEF Part
  <2>2. f \in [PanelLists -> V] /\ g \in [PanelLists -> V]
    BY DEF Part
  <2>3. step[l][f] = step[l][g]
    BY <2>1, <2>2 DEF RowStep
  <2>4. f[l] = step[l][f] /\ g[l] = step[l][g]
    BY DEF Part
  <2> QED
    BY <2>3, <2>4
<1> HIDE DEF P
<1>2. list \in PanelLists
  BY DEF Part
<1>3. list \in P
  BY <1>1, <1>2, InductionOnLists
<1> QED
  BY <1>3 DEF P

IsFixed(f, step) == \A list \in PanelLists : f[list] = step[list][f]

LEMMA RecursionOnLists ==
  ASSUME NEW V, V # {}, NEW step, RowStep(step, V)
  PROVE  \E f \in [PanelLists -> V] : IsFixed(f, step)
<1> DEFINE D == {list \in PanelLists : \E E, g : Part(E, g, step, V) /\ list \in E}
           Value(list) == CHOOSE v \in V : list \in D =>
                            \E E, g : Part(E, g, step, V) /\ list \in E /\ v = g[list]
           f == [list \in PanelLists |-> Value(list)]
<1>1. ASSUME NEW list \in PanelLists
      PROVE  /\ f[list] \in V
             /\ list \in D => \E E, g : Part(E, g, step, V) /\ list \in E /\ f[list] = g[list]
  <2>1. \E v \in V : list \in D => \E E, g : Part(E, g, step, V) /\ list \in E /\ v = g[list]
    <3>1. CASE list \in D
      <4>1. PICK E, g : Part(E, g, step, V) /\ list \in E
        BY <3>1
      <4>2. g[list] \in V
        BY <4>1 DEF Part
      <4> QED
        BY <4>1, <4>2
    <3>2. CASE list \notin D
      BY <3>2
    <3> QED
      BY <3>1, <3>2
  <2>2. Value(list) \in V /\ (list \in D => \E E, g : Part(E, g, step, V) /\ list \in E /\ Value(list) = g[list])
    BY <2>1
  <2> QED
    BY <2>2
<1>2. f \in [PanelLists -> V]
  BY <1>1
<1> HIDE DEF f
<1>3. ASSUME NEW E, NEW g, Part(E, g, step, V), NEW list \in E
      PROVE  list \in D /\ f[list] = g[list]
  <2>1. list \in PanelLists /\ list \in D
    BY <1>3 DEF Part
  <2>2. PICK E2, g2 : Part(E2, g2, step, V) /\ list \in E2 /\ f[list] = g2[list]
    BY <1>1, <2>1
  <2>3. g[list] = g2[list]
    BY <1>3, <2>2, PartsAgree
  <2> QED
    BY <2>1, <2>2, <2>3
<1>4. ASSUME NEW list \in D
      PROVE  RowLists(list) \subseteq D /\ f[list] = step[list][f]
  <2>1. PICK E, g : Part(E, g, step, V) /\ list \in E
    BY <1>4
  <2>2. RowLists(list) \subseteq E /\ g \in [PanelLists -> V] /\ g[list] = step[list][g]
    BY <2>1 DEF Part
  <2>3. \A row \in RowLists(list) : row \in D /\ f[row] = g[row]
    BY <1>3, <2>1, <2>2
  <2>4. step[list][f] = step[list][g]
    BY <1>2, <2>2, <2>3 DEF RowStep
  <2> QED
    BY <1>3, <2>1, <2>2, <2>3, <2>4
<1>5. D \subseteq PanelLists
  OBVIOUS
<1>6. ASSUME NEW list \in PanelLists, RowLists(list) \subseteq D PROVE list \in D
  <2> SUFFICES ASSUME list \notin D PROVE FALSE
    OBVIOUS
  <2> DEFINE E == D \cup {list}
             g == [f EXCEPT ![list] = step[list][f]]
  <2>1. g \in [PanelLists -> V] /\ \A l \in D : g[l] = f[l]
    BY <1>2, <1>5 DEF RowStep
  <2>2. g[list] = step[list][f]
    BY <1>2
  <2>3. \A l \in E : RowLists(l) \subseteq D
    BY <1>4, <1>6
  <2> HIDE DEF g
  <2>4. ASSUME NEW l \in E PROVE step[l][f] = step[l][g]
    <3>1. l \in PanelLists /\ \A row \in RowLists(l) : f[row] = g[row]
      BY <1>5, <2>1, <2>3
    <3> QED
      BY <1>2, <2>1, <3>1 DEF RowStep
  <2>5. \A l \in E : g[l] = step[l][g]
    BY <1>4, <2>1, <2>2, <2>4
  <2>6. Part(E, g, step, V)
    BY <1>5, <2>1, <2>3, <2>5 DEF Part
  <2> QED
    BY <1>3, <2>6
<1> HIDE DEF D
<1>7. PanelLists \subseteq D
  BY <1>6, InductionOnLists
<1> QED
  BY <1>2, <1>4, <1>7 DEF IsFixed

-----------------------------------------------------------------------------
\* The layout.
ItemType == [kind : {"panel", "row"}, panels : Seq(Panels)]

\* What a panel adds to the panels of the layout.
Contribution(panel, nested) ==
  IF panel.type = "row" THEN nested ELSE IF IsVisual(panel) THEN <<panel>> ELSE << >>

PanelsField == [item \in ItemType |-> item.panels]

LEMMA PanelsFieldIsMap == IsMap(PanelsField, ItemType, Seq(Panels))
  BY DEF IsMap, PanelsField, ItemType

LEMMA PanelsOfItemsMapped ==
  ASSUME NEW items \in Seq(ItemType)
  PROVE  PanelsOfItems(items) = FlattenSeq(Mapped(PanelsField, items))
<1>1. \A i \in DOMAIN items : items[i] \in ItemType
  BY ElementOfSeq, LenProperties
<1>2. Mapped(PanelsField, items) = [i \in DOMAIN items |-> items[i].panels]
  BY <1>1 DEF Mapped, PanelsField
<1> QED
  BY <1>2 DEF PanelsOfItems

LEMMA PanelsOfAppend ==
  ASSUME NEW items \in Seq(ItemType), NEW item \in ItemType
  PROVE  /\ PanelsOfItems(items) \in Seq(Panels)
         /\ Append(items, item) \in Seq(ItemType)
         /\ PanelsOfItems(Append(items, item)) = PanelsOfItems(items) \o item.panels
<1> DEFINE mapped == Mapped(PanelsField, items)
<1>1. PanelsField[item] = item.panels /\ item.panels \in Seq(Panels)
  BY DEF PanelsField, ItemType
<1>2. mapped \in Seq(Seq(Panels))
  BY PanelsFieldIsMap, MappedIsSequence
<1>3. Mapped(PanelsField, Append(items, item)) = Append(mapped, item.panels)
  BY <1>1, PanelsFieldIsMap, MappedAppend
<1>4. Append(items, item) \in Seq(ItemType)
  BY AppendProperties
<1> HIDE DEF mapped
<1>5. FlattenSeq(mapped) \in Seq(Panels)
      /\ FlattenSeq(Append(mapped, item.panels)) = FlattenSeq(mapped) \o item.panels
  BY <1>1, <1>2, FlattenAppend
<1> QED
  BY <1>3, <1>4, <1>5, PanelsOfItemsMapped DEF mapped

LEMMA AddPanelAdds ==
  ASSUME NEW output \in Seq(ItemType), NEW panel \in Panels, NEW nested \in Seq(Panels)
  PROVE  /\ AddPanel(output, panel, nested) \in Seq(ItemType)
         /\ PanelsOfItems(AddPanel(output, panel, nested)) =
              PanelsOfItems(output) \o Contribution(panel, nested)
<1>1. CASE panel.type = "row"
  <2>1. RowItem(nested) \in ItemType /\ RowItem(nested).panels = nested
    BY DEF RowItem, ItemType
  <2>2. AddPanel(output, panel, nested) = Append(output, RowItem(nested))
    BY <1>1 DEF AddPanel
  <2> QED
    BY <1>1, <2>1, <2>2, PanelsOfAppend DEF Contribution
<1>2. CASE panel.type # "row" /\ ~IsVisual(panel)
  <2>1. AddPanel(output, panel, nested) = output /\ Contribution(panel, nested) = << >>
    BY <1>2 DEF AddPanel, Contribution
  <2>2. PanelsOfItems(output) \in Seq(Panels)
    <3>1. [kind |-> "row", panels |-> nested] \in ItemType
      BY DEF ItemType
    <3> QED
      BY <3>1, PanelsOfAppend
  <2> QED
    BY <2>1, <2>2, ConcatEmptySeq
<1>3. CASE /\ panel.type # "row" /\ IsVisual(panel)
           /\ ~(output # << >> /\ Last(output).kind = "row")
  <2>1. AloneItem(panel) \in ItemType /\ AloneItem(panel).panels = <<panel>>
    BY DEF AloneItem, ItemType
  <2>2. AddPanel(output, panel, nested) = Append(output, AloneItem(panel))
    BY <1>3 DEF AddPanel
  <2> QED
    BY <1>3, <2>1, <2>2, PanelsOfAppend DEF Contribution
<1>4. CASE /\ panel.type # "row" /\ IsVisual(panel)
           /\ output # << >> /\ Last(output).kind = "row"
  <2>1. PICK front \in Seq(ItemType), last \in ItemType : output = Append(front, last)
    BY <1>4, SequenceEmptyOrAppend
  <2> DEFINE after == [last EXCEPT !.panels = Append(@, panel)]
             added == [output EXCEPT ![Len(output)].panels = Append(@, panel)]
  <2>2. AddPanel(output, panel, nested) = added
    BY <1>4 DEF AddPanel
  <2>3. last.panels \in Seq(Panels) /\ after \in ItemType /\ after.panels = Append(last.panels, panel)
    <3>1. last.panels \in Seq(Panels)
      BY DEF ItemType
    <3>2. Append(last.panels, panel) \in Seq(Panels)
      BY <3>1, AppendProperties
    <3> QED
      BY <3>1, <3>2 DEF ItemType
  <2>4. /\ Len(output) = Len(front) + 1 /\ Len(front) \in Nat
        /\ output[Len(output)] = last /\ \A i \in 1..Len(front) : output[i] = front[i]
    BY <2>1, AppendProperties, LenProperties
  <2>5. /\ Append(front, after) \in Seq(ItemType)
        /\ Len(Append(front, after)) = Len(front) + 1
        /\ Append(front, after)[Len(front) + 1] = after
        /\ \A i \in 1..Len(front) : Append(front, after)[i] = front[i]
    BY <2>3, AppendProperties
  <2>6. added = [output EXCEPT ![Len(output)] = after]
    BY <2>4
  <2>7. /\ added \in Seq(ItemType) /\ Len(added) = Len(front) + 1
        /\ \A i \in 1..(Len(front) + 1) :
             added[i] = IF i = Len(front) + 1 THEN after ELSE output[i]
    BY <2>3, <2>4, <2>6, ExceptSeq
  <2> HIDE DEF added, after
  <2>8. added = Append(front, after)
    <3>1. ASSUME NEW i \in 1..(Len(front) + 1) PROVE added[i] = Append(front, after)[i]
      <4>1. CASE i = Len(front) + 1
        BY <2>5, <2>7, <4>1
      <4>2. CASE i # Len(front) + 1
        <5>1. i \in 1..Len(front)
          BY <2>4, <4>2
        <5> QED
          BY <2>4, <2>5, <2>7, <4>2, <5>1
      <4> QED
        BY <4>1, <4>2
    <3> QED
      BY <2>5, <2>7, <3>1, SeqEqual
  <2>9. /\ PanelsOfItems(front) \in Seq(Panels)
        /\ PanelsOfItems(output) = PanelsOfItems(front) \o last.panels
        /\ PanelsOfItems(added) = PanelsOfItems(front) \o Append(last.panels, panel)
    BY <2>1, <2>3, <2>8, PanelsOfAppend
  <2>10. PanelsOfItems(front) \o Append(last.panels, panel) = PanelsOfItems(output) \o <<panel>>
    <3>1. PanelsOfItems(front) \o Append(last.panels, panel) = Append(PanelsOfItems(output), panel)
      BY <2>3, <2>9, ConcatAppend
    <3>2. PanelsOfItems(output) \in Seq(Panels)
      BY <2>3, <2>9, ConcatProperties
    <3> QED
      BY <3>1, <3>2, AppendIsConcat
  <2> QED
    BY <1>4, <2>2, <2>7, <2>9, <2>10 DEF Contribution
<1> QED
  BY <1>1, <1>2, <1>3, <1>4

\* Iterating an operator that is given as a function.
Contributions(list, nested) == [n \in DOMAIN list |-> Contribution(list[n], nested[n])]

LEMMA OutputHolds ==
  ASSUME NEW list \in Seq(Panels), NEW nested, IsMap(nested, 1..Len(list), Seq(Panels))
  PROVE  LET output == OutputAfter(list, nested)[Len(list)]
         IN  /\ output \in Seq(ItemType)
             /\ PanelsOfItems(output) = FlattenSeq(Contributions(list, nested))
             /\ PanelsOfItems(output) \in Seq(Panels)
<1> DEFINE M == Len(list)
           V == Seq(ItemType)
           step == [n \in 1..M |-> [o \in V |-> AddPanel(o, list[n], nested[n])]]
           output == OutputAfter(list, nested)
           added == Contributions(list, nested)
<1>1. M \in Nat /\ DOMAIN list = 1..M /\ \A n \in 1..M : list[n] \in Panels
  BY ElementOfSeq, LenProperties
<1>2. \A n \in 1..M : nested[n] \in Seq(Panels)
  BY DEF IsMap
<1>3. ASSUME NEW n \in 1..M, NEW o \in V
      PROVE  /\ AddPanel(o, list[n], nested[n]) \in V
             /\ PanelsOfItems(AddPanel(o, list[n], nested[n])) = PanelsOfItems(o) \o added[n]
             /\ added[n] \in Seq(Panels)
  <2>1. added[n] = Contribution(list[n], nested[n])
    BY <1>1 DEF Contributions
  <2>2. Contribution(list[n], nested[n]) \in Seq(Panels)
    BY <1>1, <1>2 DEF Contribution
  <2> QED
    BY <1>1, <1>2, <2>1, <2>2, AddPanelAdds
<1>4. Len(added) = M /\ added \in Seq(Seq(Panels))
  <2>1. << >> \in V
    OBVIOUS
  <2>2. \A n \in 1..M : added[n] \in Seq(Panels)
    BY <1>3, <2>1
  <2>3. added = [n \in 1..M |-> added[n]]
    BY <1>1 DEF Contributions
  <2> HIDE DEF added, M
  <2> QED
    BY <1>1, <2>2, <2>3
<1>5. output = CHOOSE f : f = [n \in 0..M |-> IF n = 0 THEN << >>
                                              ELSE AddPanel(f[n - 1], list[n], nested[n])]
  BY DEF OutputAfter
<1>6. << >> \in V /\ PanelsOfItems(<< >>) = << >>
  BY FlattenEmpty DEF PanelsOfItems
<1> HIDE DEF M, V, output, added
<1>7. step \in [1..M -> [V -> V]]
      /\ \A n \in 1..M : \A o \in V : step[n][o] = AddPanel(o, list[n], nested[n])
  BY <1>3
<1> HIDE DEF step
<1>8. PICK f \in [0..M -> V] : Iterates(f, M, << >>, step)
  BY <1>1, <1>6, <1>7, RecursionTo
<1>9. output = [n \in 0..M |-> IF n = 0 THEN << >>
                               ELSE AddPanel(output[n - 1], list[n], nested[n])]
  <2>1. ASSUME NEW n \in 0..M
        PROVE  f[n] = IF n = 0 THEN << >> ELSE AddPanel(f[n - 1], list[n], nested[n])
    <3>1. n # 0 => n \in 1..M /\ n - 1 \in 0..M
      BY <1>1
    <3> QED
      BY <1>7, <1>8, <3>1 DEF Iterates
  <2>2. f = [n \in 0..M |-> IF n = 0 THEN << >> ELSE AddPanel(f[n - 1], list[n], nested[n])]
    BY <2>1
  <2> QED
    BY <1>5, <2>2
<1>10. PICK g : Concatenates(g, added, Panels) /\ FlattenSeq(added) = g[M]
  BY <1>4, FlattenSteps
<1>11. g \in [0..M -> Seq(Panels)] /\ g[0] = << >> /\ \A n \in 1..M : g[n] = g[n - 1] \o added[n]
  BY <1>4, <1>10 DEF Concatenates
<1> DEFINE S == {n \in 0..M : output[n] \in V /\ PanelsOfItems(output[n]) = g[n]}
<1>12. 0 \in S
  BY <1>1, <1>6, <1>9, <1>11
<1>13. ASSUME NEW n \in 1..M, n - 1 \in S PROVE n \in S
  <2>1. n \in 0..M /\ n # 0
    BY <1>1
  <2>2. output[n] = AddPanel(output[n - 1], list[n], nested[n])
    BY <1>9, <2>1
  <2>3. output[n - 1] \in V /\ PanelsOfItems(output[n - 1]) = g[n - 1]
    BY <1>13
  <2>4. output[n] \in V /\ PanelsOfItems(output[n]) = g[n - 1] \o added[n]
    BY <1>3, <2>2, <2>3
  <2> QED
    BY <1>11, <2>1, <2>4
<1> HIDE DEF S
<1>14. 0..M \subseteq S
  BY <1>1, <1>12, <1>13, InductionTo
<1>15. M \in S /\ g[M] \in Seq(Panels)
  BY <1>1, <1>11, <1>14
<1> QED
  BY <1>10, <1>15 DEF S, V, M, output, added

-----------------------------------------------------------------------------
\* The panels that are found when those of the rows are known.
Found(list, panelsOf) == PanelsOfItems(OutputAfter(list, RowPanels(list, panelsOf))[Len(list)])

Listed(list, panelsOf) ==
  FlattenSeq([n \in DOMAIN list |->
                IF list[n].type = "row" THEN panelsOf[list[n].panels]
                ELSE IF IsVisual(list[n]) THEN <<list[n]>>
                ELSE << >>])

\* For one list: the layout finds the panels that a reader of the document finds.
LEMMA FoundIsListed ==
  ASSUME NEW list \in PanelLists, NEW panelsOf,
         \A row \in RowLists(list) : panelsOf[row] \in Seq(Panels)
  PROVE  /\ OutputAfter(list, RowPanels(list, panelsOf))[Len(list)] \in Seq(ItemType)
         /\ Found(list, panelsOf) = Listed(list, panelsOf)
         /\ Found(list, panelsOf) \in Seq(Panels)
<1> DEFINE nested == RowPanels(list, panelsOf)
<1>1. list \in Seq(Panels) /\ DOMAIN list = 1..Len(list)
  BY LayoutAssumption, LenProperties
<1>2. IsMap(nested, 1..Len(list), Seq(Panels))
  <2>1. ASSUME NEW n \in DOMAIN list
        PROVE  (IF list[n].type = "row" THEN panelsOf[list[n].panels] ELSE << >>) \in Seq(Panels)
    BY DEF RowLists
  <2> QED
    BY <1>1, <2>1 DEF RowPanels, IsMap
<1>3. Contributions(list, nested) =
        [n \in DOMAIN list |-> IF list[n].type = "row" THEN panelsOf[list[n].panels]
                               ELSE IF IsVisual(list[n]) THEN <<list[n]>>
                               ELSE << >>]
  BY DEF Contributions, Contribution, RowPanels
<1> QED
  BY <1>1, <1>2, <1>3, OutputHolds DEF Found, Listed

\* It depends on those of its own rows only.
LEMMA FoundInRows ==
  ASSUME NEW list \in PanelLists, NEW f, NEW g, \A row \in RowLists(list) : f[row] = g[row]
  PROVE  Found(list, f) = Found(list, g)
<1>1. RowPanels(list, f) = RowPanels(list, g)
  BY DEF RowPanels, RowLists
<1> QED
  BY <1>1 DEF Found

\* Both recursive definitions are what they say they are.
LEMMA VisualPanelsUnfold == \A list \in PanelLists : VisualPanels[list] = Found(list, VisualPanels)
<1> DEFINE V == Seq(Panels)
           step == [list \in PanelLists |-> [f \in [PanelLists -> V] |-> Found(list, f)]]
<1>1. RowStep(step, V)
  <2>1. ASSUME NEW list \in PanelLists, NEW f \in [PanelLists -> V] PROVE Found(list, f) \in V
    <3>1. \A row \in RowLists(list) : f[row] \in Seq(Panels)
      BY LayoutAssumption
    <3> QED
      BY <3>1, FoundIsListed
  <2>2. ASSUME NEW list \in PanelLists, NEW f \in [PanelLists -> V], NEW g \in [PanelLists -> V],
               \A row \in RowLists(list) : f[row] = g[row]
        PROVE  step[list][f] = step[list][g]
    BY <2>2, FoundInRows
  <2> QED
    BY <2>1, <2>2 DEF RowStep
<1>2. << >> \in V /\ \A list \in PanelLists : \A f \in [PanelLists -> V] : step[list][f] = Found(list, f)
  OBVIOUS
<1> HIDE DEF step, V
<1>3. PICK f \in [PanelLists -> V] : IsFixed(f, step)
  BY <1>1, <1>2, RecursionOnLists
<1>4. f = [list \in PanelLists |-> Found(list, f)]
  BY <1>2, <1>3 DEF IsFixed
<1>5. VisualPanels = CHOOSE h : h = [list \in PanelLists |-> Found(list, h)]
  BY DEF VisualPanels, Found
<1>6. VisualPanels = [list \in PanelLists |-> Found(list, VisualPanels)]
  BY <1>4, <1>5
<1> QED
  BY <1>6, Zenon

LEMMA ListedInRows ==
  ASSUME NEW list \in PanelLists, NEW f, NEW g, \A row \in RowLists(list) : f[row] = g[row]
  PROVE  Listed(list, f) = Listed(list, g)
  BY DEF Listed, RowLists

LEMMA InDocumentOrderUnfold ==
  \A list \in PanelLists : InDocumentOrder[list] = Listed(list, InDocumentOrder)
<1> DEFINE V == Seq(Panels)
           step == [list \in PanelLists |-> [f \in [PanelLists -> V] |-> Listed(list, f)]]
<1>1. RowStep(step, V)
  <2>1. ASSUME NEW list \in PanelLists, NEW f \in [PanelLists -> V] PROVE Listed(list, f) \in V
    <3>1. \A row \in RowLists(list) : f[row] \in Seq(Panels)
      BY LayoutAssumption
    <3> QED
      BY <3>1, FoundIsListed
  <2>2. ASSUME NEW list \in PanelLists, NEW f \in [PanelLists -> V], NEW g \in [PanelLists -> V],
               \A row \in RowLists(list) : f[row] = g[row]
        PROVE  step[list][f] = step[list][g]
    BY <2>2, ListedInRows
  <2> QED
    BY <2>1, <2>2 DEF RowStep
<1>2. << >> \in V /\ \A list \in PanelLists : \A f \in [PanelLists -> V] : step[list][f] = Listed(list, f)
  OBVIOUS
<1> HIDE DEF step, V
<1>3. PICK f \in [PanelLists -> V] : IsFixed(f, step)
  BY <1>1, <1>2, RecursionOnLists
<1>4. f = [list \in PanelLists |-> Listed(list, f)]
  BY <1>2, <1>3 DEF IsFixed
<1>5. InDocumentOrder = CHOOSE h : h = [list \in PanelLists |-> Listed(list, h)]
  BY DEF InDocumentOrder, Listed
<1>6. InDocumentOrder = [list \in PanelLists |-> Listed(list, InDocumentOrder)]
  BY <1>4, <1>5
<1> QED
  BY <1>6, Zenon

\* visualPanels() finds, at any depth of rows, what a reader of the document finds.
LEMMA RowsAreOpened ==
  \A list \in PanelLists :
    VisualPanels[list] = InDocumentOrder[list] /\ VisualPanels[list] \in Seq(Panels)
<1> DEFINE P == {list \in PanelLists : /\ VisualPanels[list] = InDocumentOrder[list]
                                       /\ VisualPanels[list] \in Seq(Panels)}
<1>1. ASSUME NEW list \in PanelLists, RowLists(list) \subseteq P PROVE list \in P
  <2>1. \A row \in RowLists(list) : VisualPanels[row] = InDocumentOrder[row]
    BY <1>1
  <2>2. \A row \in RowLists(list) : VisualPanels[row] \in Seq(Panels)
    BY <1>1
  <2>3. Listed(list, VisualPanels) = Listed(list, InDocumentOrder)
    BY <2>1, ListedInRows
  <2>4. /\ Found(list, VisualPanels) = Listed(list, VisualPanels)
        /\ Found(list, VisualPanels) \in Seq(Panels)
    BY <2>2, FoundIsListed
  <2> QED
    BY <2>3, <2>4, VisualPanelsUnfold, InDocumentOrderUnfold
<1> HIDE DEF P
<1>2. PanelLists \subseteq P
  BY <1>1, InductionOnLists
<1> QED
  BY <1>2 DEF P

\* The layout has every visual panel of the dashboard once, at any depth of rows, in
\* the order of the document (dashboard.ts:27-53).
THEOREM LayoutShowsTheDocument ==
  \A list \in PanelLists :
    /\ PanelsOfItems(Layout(list)) = InDocumentOrder[list]
    /\ InDocumentOrder[list] \in Seq(Panels)
    /\ Layout(list) \in Seq(ItemType)
<1> SUFFICES ASSUME NEW list \in PanelLists
             PROVE  /\ PanelsOfItems(Layout(list)) = InDocumentOrder[list]
                    /\ InDocumentOrder[list] \in Seq(Panels)
                    /\ Layout(list) \in Seq(ItemType)
  OBVIOUS
<1>1. \A row \in RowLists(list) : VisualPanels[row] \in Seq(Panels)
  BY RowsAreOpened, LayoutAssumption
<1>2. Layout(list) \in Seq(ItemType)
  BY <1>1, FoundIsListed DEF Layout
<1>3. PanelsOfItems(Layout(list)) = VisualPanels[list]
  BY VisualPanelsUnfold DEF Found, Layout
<1> QED
  BY <1>2, <1>3, RowsAreOpened

\* A scene shows each of those panels, built for its group, and nothing else
\* (scene.ts:33-84).
THEOREM SceneShowsTheDocument ==
  ASSUME NEW list \in PanelLists, NEW group
  PROVE  /\ FlattenSeq(BuildGroupScene(list, group).children) =
              [i \in DOMAIN InDocumentOrder[list] |-> BuildPanel(InDocumentOrder[list][i], group)]
         /\ \A i \in DOMAIN InDocumentOrder[list] : InDocumentOrder[list][i] \in Panels
<1> DEFINE U == {BuildPanel(panel, group) : panel \in Panels}
           h == [panel \in Panels |-> BuildPanel(panel, group)]
           s == Mapped(PanelsField, Layout(list))
<1>1. IsMap(h, Panels, U) /\ \A panel \in Panels : h[panel] = BuildPanel(panel, group)
  BY DEF IsMap
<1>2. s \in Seq(Seq(Panels)) /\ Layout(list) \in Seq(ItemType)
  BY LayoutShowsTheDocument, PanelsFieldIsMap, MappedIsSequence
<1>3. \A i \in DOMAIN Layout(list) : Layout(list)[i] \in ItemType
  BY <1>2, ElementOfSeq, LenProperties
<1>4. DOMAIN s = DOMAIN Layout(list)
      /\ \A i \in DOMAIN Layout(list) : s[i] = Layout(list)[i].panels /\ s[i] \in Seq(Panels)
  BY <1>3 DEF Mapped, PanelsField, ItemType
<1>5. \A q \in Seq(Panels) : Mapped(h, q) = [j \in DOMAIN q |-> BuildPanel(q[j], group)]
  <2> SUFFICES ASSUME NEW q \in Seq(Panels)
               PROVE  Mapped(h, q) = [j \in DOMAIN q |-> BuildPanel(q[j], group)]
    OBVIOUS
  <2>1. \A j \in DOMAIN q : q[j] \in Panels
    BY ElementOfSeq, LenProperties
  <2> QED
    BY <1>1, <2>1 DEF Mapped
<1> HIDE DEF h, U, s
<1>6. BuildGroupScene(list, group).children = Mapped(Lifted(h, Panels), s)
  <2>1. Mapped(Lifted(h, Panels), s) = [i \in DOMAIN s |-> Mapped(h, s[i])]
    BY <1>4 DEF Mapped, Lifted
  <2>2. BuildGroupScene(list, group).children =
          [i \in DOMAIN Layout(list) |-> [j \in DOMAIN Layout(list)[i].panels |->
                                            BuildPanel(Layout(list)[i].panels[j], group)]]
    BY DEF BuildGroupScene
  <2> QED
    BY <1>4, <1>5, <2>1, <2>2
<1>7. FlattenSeq(Mapped(Lifted(h, Panels), s)) = Mapped(h, FlattenSeq(s))
  BY <1>1, <1>2, MappedFlatten
<1>8. FlattenSeq(s) = InDocumentOrder[list] /\ InDocumentOrder[list] \in Seq(Panels)
  BY <1>2, PanelsOfItemsMapped, LayoutShowsTheDocument DEF s
<1>9. \A i \in DOMAIN InDocumentOrder[list] : InDocumentOrder[list][i] \in Panels
  BY <1>8, ElementOfSeq, LenProperties
<1> QED
  BY <1>5, <1>6, <1>7, <1>8, <1>9
=============================================================================
