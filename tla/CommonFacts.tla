---------------------------- MODULE CommonFacts ----------------------------
(***************************************************************************)
(* Facts the proofs share: induction over the naturals, stated with a set  *)
(* in place of a predicate, primitive recursion, and what the operators of *)
(* Selection return.                                                       *)
(***************************************************************************)
EXTENDS Selection, Integers, SequenceTheorems, WellFoundedInduction, TLAPS

\* A set of naturals that is not empty has a least element.
THEOREM LeastElement ==
    ASSUME NEW T \in SUBSET Nat, T # {}
    PROVE  \E x \in T : \A y \in T : x <= y
<1>1. IsWellFoundedOn(OpToRel(<, Nat), Nat)
  BY NatLessThanWellFounded
<1>2. PICK x \in T : \A y \in T : ~(<<y, x>> \in OpToRel(<, Nat))
  BY <1>1, WFMin
<1>3. ASSUME NEW y \in T PROVE x <= y
  <2>1. <<y, x>> \notin OpToRel(<, Nat)
    BY <1>2
  <2>2. ~(y < x)
    BY <2>1 DEF OpToRel
  <2>3. QED BY <2>2
<1>4. QED BY <1>3

\* A set that has 0, and with every natural the next one, has all of them.
THEOREM SetInduction ==
    ASSUME NEW T, 0 \in T, \A n \in Nat : n \in T => n + 1 \in T
    PROVE  Nat \subseteq T
<1> SUFFICES ASSUME Nat \ T # {} PROVE FALSE
  OBVIOUS
<1>1. PICK x \in Nat \ T : \A y \in Nat \ T : x <= y
  BY LeastElement
<1>2. x # 0 /\ x - 1 \in Nat /\ x - 1 \in T
  BY <1>1
<1>3. QED BY <1>1, <1>2

-----------------------------------------------------------------------------

\* What is kept of the first n elements, for each n up to m.
KeptTo(seq, set, m, kept) ==
    \A n \in 0..m :
        kept[n] = IF n = 0 THEN <<>>
                  ELSE IF seq[n] \in set THEN Append(kept[n - 1], seq[n]) ELSE kept[n - 1]

\* The recursive function in Keep is one that satisfies its equation.
LEMMA KeepDef ==
    ASSUME NEW seq, NEW set, Len(seq) \in Nat
    PROVE  \E kept : KeptTo(seq, set, Len(seq), kept) /\ Keep(seq, set) = kept[Len(seq)]
<1> DEFINE F(g) == [n \in 0..Len(seq) |->
          IF n = 0 THEN <<>>
          ELSE IF seq[n] \in set THEN Append(g[n - 1], seq[n]) ELSE g[n - 1]]
<1>1. \E g : g = F(g)
  <2> DEFINE T == {m \in Nat : m <= Len(seq) => \E g : DOMAIN g = 0..Len(seq) /\ KeptTo(seq, set, m, g)}
  <2>1. 0 \in T
    <3>1. KeptTo(seq, set, 0, [n \in 0..Len(seq) |-> <<>>])
      BY DEF KeptTo
    <3>2. DOMAIN [n \in 0..Len(seq) |-> <<>>] = 0..Len(seq)
      OBVIOUS
    <3>3. QED BY <3>1, <3>2
  <2>2. ASSUME NEW m \in Nat, m \in T PROVE m + 1 \in T
    <3> SUFFICES ASSUME m + 1 <= Len(seq) PROVE \E g : DOMAIN g = 0..Len(seq) /\ KeptTo(seq, set, m + 1, g)
      OBVIOUS
    <3>1. PICK g : DOMAIN g = 0..Len(seq) /\ KeptTo(seq, set, m, g)
      BY <2>2
    <3> DEFINE h == [n \in 0..Len(seq) |-> IF n = m + 1 THEN
            IF seq[n] \in set THEN Append(g[n - 1], seq[n]) ELSE g[n - 1] ELSE g[n]]
    <3>2. \A n \in 0..Len(seq) : h[n] = IF n = m + 1 THEN
            IF seq[n] \in set THEN Append(g[n - 1], seq[n]) ELSE g[n - 1] ELSE g[n]
      OBVIOUS
    <3>3. DOMAIN h = 0..Len(seq)
      OBVIOUS
    <3> HIDE DEF h
    <3>4. h[m] = g[m]
      BY <3>2
    <3>5. ASSUME NEW n \in 0..m+1 PROVE h[n] = IF n = 0 THEN <<>>
          ELSE IF seq[n] \in set THEN Append(h[n - 1], seq[n]) ELSE h[n - 1]
      <4>1. CASE n = m + 1
        BY <3>2, <3>4, <4>1
      <4>2. CASE n \in 0..m
        <5>1. h[n] = g[n] /\ (n # 0 => h[n - 1] = g[n - 1])
          BY <3>2, <4>2
        <5>2. QED BY <5>1, <3>1, <4>2 DEF KeptTo
      <4>3. QED BY <4>1, <4>2
    <3>6. KeptTo(seq, set, m + 1, h)
      BY <3>5 DEF KeptTo
    <3>7. QED BY <3>3, <3>6
  <2>3. Nat \subseteq T
    <3> HIDE DEF T
    <3> QED BY <2>1, <2>2, SetInduction
  <2>4. PICK g : DOMAIN g = 0..Len(seq) /\ KeptTo(seq, set, Len(seq), g)
    BY <2>3
  <2> DEFINE h == [n \in 0..Len(seq) |-> g[n]]
  <2>5. h = F(h)
    <3>1. \A n \in 0..Len(seq) : h[n] = g[n]
      OBVIOUS
    <3>2. \A n \in 0..Len(seq) : n # 0 => n - 1 \in 0..Len(seq)
      OBVIOUS
    <3>3. \A n \in 0..Len(seq) : g[n] = F(h)[n]
      BY <3>1, <3>2, <2>4 DEF KeptTo
    <3>4. QED BY <3>3
  <2>6. QED BY <2>5
<1> DEFINE c == CHOOSE g : g = F(g)
<1>2. c = F(c)
  BY <1>1
<1>3. Keep(seq, set) = c[Len(seq)]
  BY DEF Keep
<1>4. KeptTo(seq, set, Len(seq), c)
  <2> HIDE DEF c
  <2> SUFFICES ASSUME NEW n \in 0..Len(seq)
               PROVE  c[n] = IF n = 0 THEN <<>>
                             ELSE IF seq[n] \in set THEN Append(c[n - 1], seq[n]) ELSE c[n - 1]
    BY DEF KeptTo
  <2> QED BY <1>2
<1>5. QED BY <1>3, <1>4

\* k is what is kept of the first n elements of a sequence over S.
KeptOf(S, seq, set, n, k) ==
    /\ k \in Seq(S) /\ Len(k) <= n
    /\ Len(k) = n => \A j \in 1..n : k[j] = seq[j]
    /\ \A i \in 1..n : seq[i] \in set => \E j \in 1..Len(k) : k[j] = seq[i]
    /\ \A j \in 1..Len(k) : \E i \in 1..n : k[j] = seq[i] /\ seq[i] \in set

LEMMA KeptOneMore ==
    ASSUME NEW S, NEW seq \in Seq(S), NEW set, NEW n \in Nat, n + 1 <= Len(seq),
           NEW k, KeptOf(S, seq, set, n, k)
    PROVE  KeptOf(S, seq, set, n + 1,
                  IF seq[n + 1] \in set THEN Append(k, seq[n + 1]) ELSE k)
<1>0. /\ k \in Seq(S) /\ Len(k) \in Nat /\ Len(k) <= n /\ seq[n + 1] \in S
      /\ \A i \in 1..n + 1 : i = n + 1 \/ i \in 1..n
  <2>1. k \in Seq(S) /\ Len(k) <= n
    BY DEF KeptOf
  <2>2. Len(k) \in Nat
    BY <2>1
  <2>3. n + 1 \in 1..Len(seq)
    OBVIOUS
  <2>4. seq[n + 1] \in S
    BY <2>3
  <2>5. \A i \in 1..n + 1 : i = n + 1 \/ i \in 1..n
    OBVIOUS
  <2>6. QED BY <2>1, <2>2, <2>4, <2>5
<1>1. CASE seq[n + 1] \notin set
  <2>1. \A i \in 1..n + 1 : seq[i] \in set => \E j \in 1..Len(k) : k[j] = seq[i]
    BY <1>0, <1>1 DEF KeptOf
  <2>2. \A j \in 1..Len(k) : \E i \in 1..n + 1 : k[j] = seq[i] /\ seq[i] \in set
    <3> TAKE j \in 1..Len(k)
    <3>1. PICK i \in 1..n : k[j] = seq[i] /\ seq[i] \in set
      BY DEF KeptOf
    <3>2. i \in 1..n + 1
      OBVIOUS
    <3>3. QED BY <3>1, <3>2
  <2>3. Len(k) # n + 1 /\ Len(k) <= n + 1
    BY <1>0
  <2>4. QED BY <1>0, <1>1, <2>1, <2>2, <2>3 DEF KeptOf
<1>2. CASE seq[n + 1] \in set
  <2> DEFINE m == Append(k, seq[n + 1])
  <2>1. /\ m \in Seq(S) /\ Len(m) = Len(k) + 1 /\ m[Len(k) + 1] = seq[n + 1]
        /\ \A j \in 1..Len(k) : m[j] = k[j]
    <3>1. k \in Seq(S) /\ seq[n + 1] \in S
      BY <1>0
    <3>2. QED BY <3>1, AppendProperties
  <2> HIDE DEF m
  <2>2. ASSUME Len(m) = n + 1 PROVE \A j \in 1..n + 1 : m[j] = seq[j]
    <3>1. Len(k) = n
      BY <1>0, <2>1, <2>2
    <3>2. \A j \in 1..n : k[j] = seq[j]
      BY <3>1 DEF KeptOf
    <3>3. QED BY <1>0, <2>1, <3>1, <3>2
  <2>3. ASSUME NEW i \in 1..n + 1, seq[i] \in set PROVE \E j \in 1..Len(m) : m[j] = seq[i]
    <3>1. CASE i = n + 1
      <4>1. Len(k) + 1 \in 1..Len(m)
        BY <1>0, <2>1
      <4>2. QED BY <2>1, <3>1, <4>1
    <3>2. CASE i \in 1..n
      <4>1. PICK j \in 1..Len(k) : k[j] = seq[i]
        BY <2>3, <3>2 DEF KeptOf
      <4>2. j \in 1..Len(m)
        BY <1>0, <2>1
      <4>3. QED BY <2>1, <4>1, <4>2
    <3>3. QED BY <1>0, <3>1, <3>2
  <2>4. ASSUME NEW j \in 1..Len(m)
        PROVE  \E i \in 1..n + 1 : m[j] = seq[i] /\ seq[i] \in set
    <3>1. CASE j = Len(k) + 1
      BY <1>2, <2>1, <3>1
    <3>2. CASE j \in 1..Len(k)
      <4>1. PICK i \in 1..n : k[j] = seq[i] /\ seq[i] \in set
        BY <3>2 DEF KeptOf
      <4>2. i \in 1..n + 1
        OBVIOUS
      <4>3. QED BY <2>1, <3>2, <4>1, <4>2
    <3>3. QED BY <1>0, <2>1, <3>1, <3>2
  <2>5. Len(m) <= n + 1
    BY <1>0, <2>1
  <2>6. KeptOf(S, seq, set, n + 1, m)
    BY <2>1, <2>2, <2>3, <2>4, <2>5 DEF KeptOf
  <2>7. QED BY <1>2, <2>6 DEF m
<1>3. QED BY <1>1, <1>2

\* Keep returns the elements of the sequence that are in the set, and them only;
\* what is as long as before is the same.
THEOREM KeepFacts ==
    ASSUME NEW S, NEW seq \in Seq(S), NEW set
    PROVE  /\ Keep(seq, set) \in Seq(S)
           /\ Len(Keep(seq, set)) <= Len(seq)
           /\ Len(Keep(seq, set)) = Len(seq) => Keep(seq, set) = seq
           /\ \A i \in 1..Len(seq) : seq[i] \in set =>
                 \E j \in 1..Len(Keep(seq, set)) : Keep(seq, set)[j] = seq[i]
           /\ \A j \in 1..Len(Keep(seq, set)) :
                 \E i \in 1..Len(seq) : Keep(seq, set)[j] = seq[i] /\ seq[i] \in set
<1>0. Len(seq) \in Nat
  OBVIOUS
<1>1. PICK kept : KeptTo(seq, set, Len(seq), kept) /\ Keep(seq, set) = kept[Len(seq)]
  BY <1>0, KeepDef
<1> DEFINE T == {n \in Nat : n <= Len(seq) => KeptOf(S, seq, set, n, kept[n])}
<1>2. 0 \in T
  <2>1. kept[0] = <<>>
    BY <1>0, <1>1 DEF KeptTo
  <2>2. KeptOf(S, seq, set, 0, <<>>)
    BY DEF KeptOf
  <2>3. QED BY <2>1, <2>2
<1>3. ASSUME NEW n \in Nat, n \in T PROVE n + 1 \in T
  <2> SUFFICES ASSUME n + 1 <= Len(seq) PROVE KeptOf(S, seq, set, n + 1, kept[n + 1])
    OBVIOUS
  <2>1. KeptOf(S, seq, set, n, kept[n])
    BY <1>0, <1>3
  <2>2. kept[n + 1] = IF seq[n + 1] \in set THEN Append(kept[n], seq[n + 1]) ELSE kept[n]
    BY <1>0, <1>1 DEF KeptTo
  <2>3. QED BY <2>1, <2>2, KeptOneMore
<1>4. Nat \subseteq T
  <2> HIDE DEF T
  <2> QED BY <1>2, <1>3, SetInduction
<1>5. KeptOf(S, seq, set, Len(seq), Keep(seq, set))
  BY <1>0, <1>1, <1>4
<1> DEFINE k == Keep(seq, set)
<1>6. k \in Seq(S) /\ (Len(k) = Len(seq) => \A j \in 1..Len(seq) : k[j] = seq[j])
  BY <1>5 DEF KeptOf
<1> HIDE DEF k
<1>7. Len(k) = Len(seq) => k = seq
  BY <1>6
<1>8. QED BY <1>5, <1>7 DEF KeptOf, k

\* Keep makes no repetition.
Distinct(seq) == \A i, j \in 1..Len(seq) : seq[i] = seq[j] => i = j

THEOREM KeepDistinct ==
    ASSUME NEW S, NEW seq \in Seq(S), NEW set, Distinct(seq)
    PROVE  Distinct(Keep(seq, set))
<1>0. Len(seq) \in Nat
  OBVIOUS
<1>1. PICK kept : KeptTo(seq, set, Len(seq), kept) /\ Keep(seq, set) = kept[Len(seq)]
  BY <1>0, KeepDef
<1> DEFINE T == {n \in Nat : n <= Len(seq) => KeptOf(S, seq, set, n, kept[n]) /\ Distinct(kept[n])}
<1>2. 0 \in T
  <2>1. kept[0] = <<>>
    BY <1>0, <1>1 DEF KeptTo
  <2>2. KeptOf(S, seq, set, 0, <<>>) /\ Distinct(<<>>)
    BY DEF KeptOf, Distinct
  <2>3. QED BY <2>1, <2>2
<1>3. ASSUME NEW n \in Nat, n \in T PROVE n + 1 \in T
  <2> SUFFICES ASSUME n + 1 <= Len(seq)
               PROVE  KeptOf(S, seq, set, n + 1, kept[n + 1]) /\ Distinct(kept[n + 1])
    OBVIOUS
  <2> DEFINE k == kept[n]
             e == seq[n + 1]
  <2>1. KeptOf(S, seq, set, n, k) /\ Distinct(k)
    BY <1>0, <1>3
  <2>2. kept[n + 1] = IF e \in set THEN Append(k, e) ELSE k
    BY <1>0, <1>1 DEF KeptTo
  <2>3. KeptOf(S, seq, set, n + 1, kept[n + 1])
    BY <2>1, <2>2, KeptOneMore
  <2>4. ASSUME NEW j \in 1..Len(k) PROVE k[j] # e
    <3>1. PICK i \in 1..n : k[j] = seq[i]
      BY <2>1 DEF KeptOf
    <3>2. i \in 1..Len(seq) /\ n + 1 \in 1..Len(seq) /\ i # n + 1
      BY <1>0
    <3>3. QED BY <3>1, <3>2 DEF Distinct
  <2>5. ASSUME e \in set PROVE Distinct(Append(k, e))
    <3>1. k \in Seq(S) /\ e \in S /\ Len(k) \in Nat
      BY <1>0, <2>1 DEF KeptOf
    <3> DEFINE m == Append(k, e)
    <3>2. /\ Len(m) = Len(k) + 1 /\ m[Len(k) + 1] = e
          /\ \A j \in 1..Len(k) : m[j] = k[j]
      BY <3>1, AppendProperties
    <3> HIDE DEF m, e, k
    <3>3. \A j \in 1..Len(m) : j = Len(k) + 1 \/ j \in 1..Len(k)
      BY <3>1, <3>2
    <3>4. ASSUME NEW i \in 1..Len(m), NEW j \in 1..Len(m), m[i] = m[j] PROVE i = j
      <4>1. CASE i \in 1..Len(k) /\ j \in 1..Len(k)
        BY <2>1, <3>2, <3>4, <4>1 DEF Distinct
      <4>2. CASE i = Len(k) + 1 \/ j = Len(k) + 1
        BY <2>4, <3>2, <3>3, <3>4, <4>2
      <4>3. QED BY <3>3, <4>1, <4>2
    <3>5. QED BY <3>4 DEF Distinct, m
  <2>6. QED BY <2>1, <2>2, <2>3, <2>5
<1>4. Nat \subseteq T
  <2> HIDE DEF T
  <2> QED BY <1>2, <1>3, SetInduction
<1>5. QED BY <1>0, <1>1, <1>4

-----------------------------------------------------------------------------

\* A primitive recursion over V: where it begins, and what it does at each n.
Recursive(V, first, G) == first \in V /\ G \in [Nat \X V -> V]
\* Its values up to m.
Solution(g, V, first, G, m) ==
    /\ g \in [0..m -> V]
    /\ \A n \in 0..m : g[n] = IF n = 0 THEN first ELSE G[<<n, g[n - 1]>>]

\* It has a solution.
THEOREM Recursion ==
    ASSUME NEW V, NEW first, NEW G, Recursive(V, first, G), NEW m \in Nat
    PROVE  \E g : Solution(g, V, first, G, m)
<1> USE DEF Recursive
<1> DEFINE Solves(g, k) == \A n \in 0..k : g[n] = IF n = 0 THEN first ELSE G[<<n, g[n - 1]>>]
           T == {k \in Nat : \E g \in [0..k -> V] : Solves(g, k)}
<1>1. 0 \in T
  <2>1. [n \in 0..0 |-> first] \in [0..0 -> V] /\ Solves([n \in 0..0 |-> first], 0)
    OBVIOUS
  <2>2. QED BY <2>1
<1>2. ASSUME NEW k \in Nat, k \in T PROVE k + 1 \in T
  <2>1. PICK g \in [0..k -> V] : Solves(g, k)
    BY <1>2
  <2> DEFINE next == G[<<k + 1, g[k]>>]
             h    == [n \in 0..k + 1 |-> IF n = k + 1 THEN next ELSE g[n]]
  <2>2. next \in V
    OBVIOUS
  <2> HIDE DEF next
  <2>3. h \in [0..k + 1 -> V]
    BY <2>2
  <2>4. /\ h[k + 1] = next
        /\ \A n \in 0..k : h[n] = g[n]
    OBVIOUS
  <2> HIDE DEF h
  <2>5. ASSUME NEW n \in 0..k + 1 PROVE h[n] = IF n = 0 THEN first ELSE G[<<n, h[n - 1]>>]
    <3>1. CASE n = k + 1
      <4>1. n - 1 = k /\ h[n - 1] = g[k] /\ n # 0
        BY <2>4, <3>1
      <4>2. h[n] = G[<<n, h[n - 1]>>]
        BY <2>4, <3>1, <4>1 DEF next
      <4>3. QED BY <4>1, <4>2
    <3>2. CASE n \in 0..k
      <4>1. h[n] = g[n] /\ (n # 0 => h[n - 1] = g[n - 1])
        BY <2>4, <3>2
      <4>2. QED BY <2>1, <3>2, <4>1
    <3>3. QED BY <3>1, <3>2
  <2>6. QED BY <2>3, <2>5
<1>3. Nat \subseteq T
  <2> HIDE DEF T
  <2> QED BY <1>1, <1>2, SetInduction
<1>4. QED BY <1>3 DEF Solution

-----------------------------------------------------------------------------

\* The recursive function in InChunks.
LEMMA InChunksDef ==
    ASSUME NEW S, NEW seq \in Seq(S), NEW fitting
    PROVE  \E c : /\ InChunks(seq, fitting) = c[Len(seq)]
                  /\ \A n \in 0..Len(seq) :
                        c[n] = IF n = 0 THEN <<>> ELSE AddToChunks(c[n - 1], seq[n], fitting)
<1> DEFINE V == Seq(Seq(S))
           F(g) == [n \in 0..Len(seq) |->
                      IF n = 0 THEN <<>> ELSE AddToChunks(g[n - 1], seq[n], fitting)]
           G == [p \in Nat \X V |-> IF p[1] \in 1..Len(seq) THEN AddToChunks(p[2], seq[p[1]], fitting) ELSE p[2]]
<1>1. ASSUME NEW v \in V, NEW e \in S PROVE AddToChunks(v, e, fitting) \in V
  <2>1. <<e>> \in Seq(S)
    OBVIOUS
  <2>2. Append(v, <<e>>) \in V
    BY <2>1
  <2>3. CASE Len(v) > 0
    <3>1. Len(v) \in 1..Len(v) /\ v[Len(v)] \in Seq(S)
      BY <2>3
    <3>2. Append(v[Len(v)], e) \in Seq(S)
      BY <3>1
    <3>3. [v EXCEPT ![Len(v)] = Append(v[Len(v)], e)] \in V
      BY <3>1, <3>2
    <3>4. QED BY <2>2, <3>3 DEF AddToChunks
  <2>4. CASE ~(Len(v) > 0)
    BY <2>2, <2>4 DEF AddToChunks
  <2>5. QED BY <2>3, <2>4
<1>2. G \in [Nat \X V -> V]
  <2> SUFFICES ASSUME NEW p \in Nat \X V PROVE G[p] \in V
    OBVIOUS
  <2>1. p[1] \in Nat /\ p[2] \in V
    OBVIOUS
  <2>2. p[1] \in 1..Len(seq) => seq[p[1]] \in S
    OBVIOUS
  <2>3. G[p] = IF p[1] \in 1..Len(seq) THEN AddToChunks(p[2], seq[p[1]], fitting) ELSE p[2]
    OBVIOUS
  <2> HIDE DEF G
  <2>4. QED BY <1>1, <2>1, <2>2, <2>3
<1>3. <<>> \in V /\ Len(seq) \in Nat
  OBVIOUS
<1>4. PICK g \in [0..Len(seq) -> V] :
         \A n \in 0..Len(seq) : g[n] = IF n = 0 THEN <<>> ELSE G[<<n, g[n - 1]>>]
  <2>1. Recursive(V, <<>>, G)
    <3> HIDE DEF G, V
    <3> QED BY <1>2, <1>3 DEF Recursive
  <2>2. PICK g : Solution(g, V, <<>>, G, Len(seq))
    <3> HIDE DEF G, V
    <3> QED BY <1>3, <2>1, Recursion
  <2>3. QED
    <3> HIDE DEF G, V
    <3> QED BY <2>2 DEF Solution
<1>5. g = F(g)
  <2>1. ASSUME NEW n \in 0..Len(seq), n # 0
        PROVE  G[<<n, g[n - 1]>>] = AddToChunks(g[n - 1], seq[n], fitting)
    <3>1. n \in 1..Len(seq) /\ g[n - 1] \in V
      BY <1>3, <2>1
    <3>2. QED BY <3>1
  <2>2. \A n \in 0..Len(seq) : g[n] = F(g)[n]
    BY <1>4, <2>1
  <2>3. QED BY <2>2
<1> DEFINE c == CHOOSE h : h = F(h)
<1>6. c = F(c)
  BY <1>5
<1>7. InChunks(seq, fitting) = c[Len(seq)]
  BY DEF InChunks
<1>8. \A n \in 0..Len(seq) : c[n] = IF n = 0 THEN <<>> ELSE AddToChunks(c[n - 1], seq[n], fitting)
  <2> HIDE DEF c
  <2> TAKE n \in 0..Len(seq)
  <2> QED BY <1>6
<1>9. QED BY <1>7, <1>8

\* c is the first n elements of a sequence over S, in chunks.
Place(c, a, p) == a \in 1..Len(c) /\ p \in 1..Len(c[a])
ChunksOf(S, seq, fitting, n, c) ==
    /\ c \in Seq(Seq(S))
    /\ \A a \in 1..Len(c) : c[a] # <<>> /\ (Len(c[a]) > 1 => c[a] \in fitting)
    /\ \A i \in 1..n : \E a, p : Place(c, a, p) /\ c[a][p] = seq[i]
    /\ \A a, p : Place(c, a, p) => \E i \in 1..n : c[a][p] = seq[i]
    /\ \A a, p, b, q : Place(c, a, p) /\ Place(c, b, q) /\ c[a][p] = c[b][q] => a = b /\ p = q

\* d has one place more than c, for e, and the old ones as they were.
OneMore(S, fitting, c, e, d) ==
    /\ d \in Seq(Seq(S))
    /\ \A a \in 1..Len(d) : d[a] # <<>> /\ (Len(d[a]) > 1 => d[a] \in fitting)
    /\ \A a, p : Place(c, a, p) => Place(d, a, p) /\ d[a][p] = c[a][p]
    /\ \E x, y : /\ Place(d, x, y) /\ d[x][y] = e
                 /\ \A a, p : Place(d, a, p) => (a = x /\ p = y) \/ Place(c, a, p)

LEMMA ChunkPlaces ==
    ASSUME NEW S, NEW c \in Seq(Seq(S)), NEW e \in S, NEW fitting,
           \A a \in 1..Len(c) : c[a] # <<>> /\ (Len(c[a]) > 1 => c[a] \in fitting)
    PROVE  OneMore(S, fitting, c, e, AddToChunks(c, e, fitting))
<1> DEFINE d == AddToChunks(c, e, fitting)
           last == Len(c)
<1>0. last \in Nat /\ \A a \in 1..last : c[a] \in Seq(S) /\ Len(c[a]) \in Nat
  OBVIOUS
<1>1. CASE last > 0 /\ Append(c[last], e) \in fitting
  <2>1. last \in 1..last /\ c[last] \in Seq(S) /\ Len(c[last]) \in Nat
    BY <1>0, <1>1
  <2> DEFINE new == Append(c[last], e)
  <2>2. /\ new \in Seq(S) /\ Len(new) = Len(c[last]) + 1 /\ new[Len(c[last]) + 1] = e
        /\ \A p \in 1..Len(c[last]) : new[p] = c[last][p]
    BY <2>1, AppendProperties
  <2>3. new \in fitting
    BY <1>1
  <2>4. d = [c EXCEPT ![last] = new]
    BY <1>1 DEF AddToChunks
  <2> HIDE DEF new, d
  <2>5. /\ d \in Seq(Seq(S)) /\ Len(d) = last /\ d[last] = new
        /\ \A a \in 1..last : a # last => d[a] = c[a]
    BY <2>1, <2>2, <2>4
  <2>6. \A a \in 1..Len(d) : d[a] # <<>> /\ (Len(d[a]) > 1 => d[a] \in fitting)
    <3> TAKE a \in 1..Len(d)
    <3>1. CASE a = last
      BY <2>1, <2>2, <2>3, <2>5, <3>1
    <3>2. CASE a # last
      BY <2>5, <3>2
    <3>3. QED BY <3>1, <3>2
  <2>7. ASSUME NEW a, NEW p, Place(c, a, p) PROVE Place(d, a, p) /\ d[a][p] = c[a][p]
    <3>1. CASE a = last
      <4>1. p \in 1..Len(c[last]) /\ p \in 1..Len(new)
        BY <2>1, <2>2, <2>7, <3>1 DEF Place
      <4>2. QED BY <2>1, <2>2, <2>5, <3>1, <4>1 DEF Place
    <3>2. CASE a # last
      BY <2>5, <2>7, <3>2 DEF Place
    <3>3. QED BY <3>1, <3>2
  <2> DEFINE y == Len(c[last]) + 1
  <2>8. Place(d, last, y) /\ d[last][y] = e
    BY <2>1, <2>2, <2>5 DEF Place
  <2>9. ASSUME NEW a, NEW p, Place(d, a, p) PROVE (a = last /\ p = y) \/ Place(c, a, p)
    <3>1. CASE a = last
      <4>1. p \in 1..Len(c[last]) + 1
        BY <2>2, <2>5, <2>9, <3>1 DEF Place
      <4>2. p = y \/ p \in 1..Len(c[last])
        BY <2>1, <4>1
      <4>3. QED BY <2>1, <3>1, <4>2 DEF Place
    <3>2. CASE a # last
      BY <2>5, <2>9, <3>2 DEF Place
    <3>3. QED BY <3>1, <3>2
  <2>10. QED BY <2>5, <2>6, <2>7, <2>8, <2>9 DEF d, OneMore
<1>2. CASE ~(last > 0 /\ Append(c[last], e) \in fitting)
  <2> DEFINE new == <<e>>
  <2>1. new \in Seq(S) /\ Len(new) = 1 /\ new[1] = e /\ new # <<>>
    OBVIOUS
  <2>2. d = Append(c, new)
    BY <1>2 DEF AddToChunks
  <2> HIDE DEF new, d
  <2>3. /\ d \in Seq(Seq(S)) /\ Len(d) = last + 1 /\ d[last + 1] = new
        /\ \A a \in 1..last : d[a] = c[a]
    BY <2>1, <2>2, AppendProperties
  <2>4. \A a \in 1..Len(d) : a = last + 1 \/ a \in 1..last
    BY <1>0, <2>3
  <2>5. \A a \in 1..Len(d) : d[a] # <<>> /\ (Len(d[a]) > 1 => d[a] \in fitting)
    <3> TAKE a \in 1..Len(d)
    <3>1. CASE a = last + 1
      <4>1. d[a] = new
        BY <2>3, <3>1
      <4>2. ~(Len(new) > 1)
        BY <2>1
      <4>3. QED BY <2>1, <4>1, <4>2, Zenon
    <3>2. CASE a \in 1..last
      BY <2>3, <3>2
    <3>3. QED BY <2>4, <3>1, <3>2
  <2>6. ASSUME NEW a, NEW p, Place(c, a, p) PROVE Place(d, a, p) /\ d[a][p] = c[a][p]
    BY <1>0, <2>3, <2>6 DEF Place
  <2>7. Place(d, last + 1, 1) /\ d[last + 1][1] = e
    <3>1. last + 1 \in 1..Len(d) /\ 1 \in 1..Len(d[last + 1])
      BY <1>0, <2>1, <2>3
    <3>2. QED BY <2>1, <2>3, <3>1 DEF Place
  <2>8. ASSUME NEW a, NEW p, Place(d, a, p) PROVE (a = last + 1 /\ p = 1) \/ Place(c, a, p)
    <3>1. CASE a = last + 1
      <4>1. p \in 1..1
        BY <2>1, <2>3, <2>8, <3>1 DEF Place
      <4>2. QED BY <3>1, <4>1
    <3>2. CASE a \in 1..last
      BY <2>3, <2>8, <3>2 DEF Place
    <3>3. QED BY <2>4, <2>8, <3>1, <3>2 DEF Place
  <2>9. QED BY <2>3, <2>5, <2>6, <2>7, <2>8 DEF d, OneMore
<1>3. QED BY <1>1, <1>2

LEMMA ChunkOneMore ==
    ASSUME NEW S, NEW seq \in Seq(S), NEW fitting, NEW n \in Nat, n + 1 <= Len(seq),
           Distinct(seq),
           NEW c, ChunksOf(S, seq, fitting, n, c)
    PROVE  ChunksOf(S, seq, fitting, n + 1, AddToChunks(c, seq[n + 1], fitting))
<1> DEFINE e == seq[n + 1]
           d == AddToChunks(c, e, fitting)
<1>1. /\ n + 1 \in 1..Len(seq) /\ e \in S
      /\ \A i \in 1..n + 1 : i = n + 1 \/ i \in 1..n
      /\ \A i \in 1..n : i \in 1..Len(seq) /\ i \in 1..n + 1 /\ i # n + 1
  OBVIOUS
<1>2. /\ c \in Seq(Seq(S))
      /\ \A a \in 1..Len(c) : c[a] # <<>> /\ (Len(c[a]) > 1 => c[a] \in fitting)
  BY DEF ChunksOf
<1> HIDE DEF e
<1>3. OneMore(S, fitting, c, e, d)
  BY <1>1, <1>2, ChunkPlaces
<1> HIDE DEF d
<1>4. PICK x, y : /\ Place(d, x, y) /\ d[x][y] = e
                  /\ \A a, p : Place(d, a, p) => (a = x /\ p = y) \/ Place(c, a, p)
  BY <1>3 DEF OneMore
<1>5. ASSUME NEW i \in 1..n + 1 PROVE \E a, p : Place(d, a, p) /\ d[a][p] = seq[i]
  <2>1. CASE i = n + 1
    BY <1>4, <2>1 DEF e
  <2>2. CASE i \in 1..n
    <3>1. PICK a, p : Place(c, a, p) /\ c[a][p] = seq[i]
      BY <2>2 DEF ChunksOf
    <3>2. QED BY <1>3, <3>1 DEF OneMore
  <2>3. QED BY <1>1, <2>1, <2>2
<1>6. ASSUME NEW a, NEW p, Place(c, a, p) PROVE \E i \in 1..n : d[a][p] = seq[i]
  BY <1>3, <1>6 DEF ChunksOf, OneMore
<1>7. ASSUME NEW a, NEW p, Place(d, a, p) PROVE \E i \in 1..n + 1 : d[a][p] = seq[i]
  BY <1>1, <1>4, <1>6, <1>7 DEF e
<1>8. ASSUME NEW a, NEW p, Place(c, a, p) PROVE d[a][p] # e
  <2>1. PICK i \in 1..n : d[a][p] = seq[i]
    BY <1>6, <1>8
  <2>2. QED BY <1>1, <2>1 DEF e, Distinct
<1>9. ASSUME NEW a, NEW p, NEW b, NEW q, Place(d, a, p), Place(d, b, q), d[a][p] = d[b][q]
      PROVE  a = b /\ p = q
  <2>1. CASE Place(c, a, p) /\ Place(c, b, q)
    <3>1. c[a][p] = c[b][q]
      BY <1>3, <1>9, <2>1 DEF OneMore
    <3>2. QED BY <2>1, <3>1 DEF ChunksOf
  <2>2. CASE ~Place(c, a, p) \/ ~Place(c, b, q)
    BY <1>4, <1>8, <1>9, <2>2
  <2>3. QED BY <2>1, <2>2
<1>10. QED BY <1>3, <1>5, <1>7, <1>9 DEF ChunksOf, OneMore, d, e

\* The elements of a sequence without repetition are in one chunk each, at one
\* place, and a chunk of several is fitting.
THEOREM InChunksFacts ==
    ASSUME NEW S, NEW seq \in Seq(S), NEW fitting,
           Distinct(seq)
    PROVE  ChunksOf(S, seq, fitting, Len(seq), InChunks(seq, fitting))
<1>0. Len(seq) \in Nat
  OBVIOUS
<1>1. PICK c : /\ InChunks(seq, fitting) = c[Len(seq)]
               /\ \A n \in 0..Len(seq) :
                     c[n] = IF n = 0 THEN <<>> ELSE AddToChunks(c[n - 1], seq[n], fitting)
  BY InChunksDef
<1> DEFINE T == {n \in Nat : n <= Len(seq) => ChunksOf(S, seq, fitting, n, c[n])}
<1>2. 0 \in T
  <2>1. c[0] = <<>>
    BY <1>0, <1>1
  <2>2. ChunksOf(S, seq, fitting, 0, <<>>)
    BY DEF ChunksOf, Place
  <2>3. QED BY <2>1, <2>2
<1>3. ASSUME NEW n \in Nat, n \in T PROVE n + 1 \in T
  <2> SUFFICES ASSUME n + 1 <= Len(seq) PROVE ChunksOf(S, seq, fitting, n + 1, c[n + 1])
    OBVIOUS
  <2>1. ChunksOf(S, seq, fitting, n, c[n])
    BY <1>0, <1>3
  <2>2. c[n + 1] = AddToChunks(c[n], seq[n + 1], fitting)
    BY <1>0, <1>1
  <2>3. QED BY <2>1, <2>2, ChunkOneMore
<1>4. Nat \subseteq T
  <2> HIDE DEF T
  <2> QED BY <1>2, <1>3, SetInduction
<1>5. QED BY <1>0, <1>1, <1>4
-----------------------------------------------------------------------------

\* What is joined of the first n chunks, for each n.
JoinedTo(S, c, j) ==
    /\ j[0] = <<>>
    /\ \A n \in 0..Len(c) : j[n] \in Seq(S)
    /\ \A n \in Nat : n < Len(c) => j[n + 1] = j[n] \o c[n + 1]

\* The recursive function in Joined.
LEMMA JoinedDef ==
    ASSUME NEW S, NEW c \in Seq(Seq(S))
    PROVE  \E j : Joined(c) = j[Len(c)] /\ JoinedTo(S, c, j)
<1> DEFINE V == Seq(S)
           F(g) == [n \in 0..Len(c) |-> IF n = 0 THEN <<>> ELSE g[n - 1] \o c[n]]
           G == [p \in Nat \X V |-> IF p[1] \in 1..Len(c) THEN p[2] \o c[p[1]] ELSE p[2]]
<1>1. G \in [Nat \X V -> V]
  <2> SUFFICES ASSUME NEW p \in Nat \X V PROVE G[p] \in V
    OBVIOUS
  <2>1. p[1] \in Nat /\ p[2] \in Seq(S) /\ (p[1] \in 1..Len(c) => c[p[1]] \in Seq(S))
    OBVIOUS
  <2>2. p[1] \in 1..Len(c) => p[2] \o c[p[1]] \in Seq(S)
    BY <2>1, ConcatProperties
  <2>3. QED BY <2>1, <2>2
<1>2. <<>> \in V /\ Len(c) \in Nat
  OBVIOUS
<1>3. PICK g \in [0..Len(c) -> V] :
         \A n \in 0..Len(c) : g[n] = IF n = 0 THEN <<>> ELSE G[<<n, g[n - 1]>>]
  <2>1. Recursive(V, <<>>, G)
    <3> HIDE DEF G, V
    <3> QED BY <1>1, <1>2 DEF Recursive
  <2>2. PICK g : Solution(g, V, <<>>, G, Len(c))
    <3> HIDE DEF G, V
    <3> QED BY <1>2, <2>1, Recursion
  <2>3. QED
    <3> HIDE DEF G, V
    <3> QED BY <2>2 DEF Solution
<1>4. g = F(g)
  <2>1. ASSUME NEW n \in 0..Len(c), n # 0 PROVE G[<<n, g[n - 1]>>] = g[n - 1] \o c[n]
    <3>1. n \in 1..Len(c) /\ n \in Nat /\ n - 1 \in 0..Len(c)
      BY <1>2, <2>1
    <3>2. g[n - 1] \in V
      <4> HIDE DEF V
      <4> QED BY <3>1
    <3>3. ASSUME NEW v \in V PROVE G[<<n, v>>] = v \o c[n]
      <4>1. <<n, v>> \in Nat \X V
        BY <3>1
      <4>2. QED BY <3>1, <4>1
    <3> HIDE DEF G, V
    <3>4. QED BY <3>2, <3>3
  <2>2. \A n \in 0..Len(c) : g[n] = F(g)[n]
    BY <1>3, <2>1
  <2>3. QED BY <2>2
<1> DEFINE j == CHOOSE h : h = F(h)
<1>5. j = F(j)
  BY <1>4
<1>6. Joined(c) = j[Len(c)]
  BY DEF Joined
<1> HIDE DEF j
<1>7. /\ j[0] = <<>>
      /\ \A n \in Nat : n < Len(c) => j[n + 1] = j[n] \o c[n + 1]
  <2>1. \A n \in 0..Len(c) : j[n] = F(j)[n]
    BY <1>5
  <2>2. j[0] = <<>>
    <3>1. 0 \in 0..Len(c)
      BY <1>2
    <3>2. QED BY <2>1, <3>1
  <2>3. ASSUME NEW n \in Nat, n < Len(c) PROVE j[n + 1] = j[n] \o c[n + 1]
    <3>1. n + 1 \in 0..Len(c) /\ n + 1 # 0 /\ (n + 1) - 1 = n
      BY <1>2, <2>3
    <3>2. j[n + 1] = j[(n + 1) - 1] \o c[n + 1]
      BY <2>1, <3>1
    <3>3. QED BY <3>1, <3>2
  <2>4. QED BY <2>2, <2>3
<1> DEFINE T == {n \in Nat : n <= Len(c) => j[n] \in Seq(S)}
<1>8. Nat \subseteq T
  <2>1. 0 \in T
    <3>1. j[0] \in Seq(S)
      <4>1. <<>> \in Seq(S)
        OBVIOUS
      <4>2. QED BY <1>7, <4>1
    <3>2. QED BY <3>1
  <2>2. ASSUME NEW n \in Nat, n \in T PROVE n + 1 \in T
    <3> SUFFICES ASSUME n + 1 <= Len(c) PROVE j[n + 1] \in Seq(S)
      OBVIOUS
    <3>1. n < Len(c) /\ n + 1 \in 1..Len(c)
      BY <1>2
    <3>2. j[n] \in Seq(S)
      BY <1>2, <2>2
    <3>3. c[n + 1] \in Seq(S)
      BY <3>1
    <3>4. j[n + 1] = j[n] \o c[n + 1]
      BY <1>7, <3>1
    <3>5. QED BY <3>2, <3>3, <3>4, ConcatProperties
  <2> HIDE DEF T
  <2>3. QED BY <2>1, <2>2, SetInduction
<1>9. \A n \in 0..Len(c) : j[n] \in Seq(S)
  BY <1>2, <1>8
<1>10. QED BY <1>6, <1>7, <1>9 DEF JoinedTo

\* One chunk more is joined at the end.
LEMMA JoinedMore ==
    ASSUME NEW S, NEW c \in Seq(Seq(S)), NEW s \in Seq(S)
    PROVE  /\ Joined(c) \in Seq(S)
           /\ Joined(Append(c, s)) = Joined(c) \o s
<1> DEFINE d == Append(c, s)
<1>1. /\ d \in Seq(Seq(S)) /\ Len(d) = Len(c) + 1 /\ d[Len(c) + 1] = s /\ Len(c) \in Nat
      /\ \A n \in 1..Len(c) : d[n] = c[n]
  BY AppendProperties
<1>2. PICK j : Joined(c) = j[Len(c)] /\ JoinedTo(S, c, j)
  BY JoinedDef
<1> HIDE DEF d
<1>3. PICK k : Joined(d) = k[Len(d)] /\ JoinedTo(S, d, k)
  BY <1>1, JoinedDef
<1> DEFINE T == {n \in Nat : n <= Len(c) => k[n] = j[n]}
<1>4. 0 \in T
  <2>1. j[0] = <<>> /\ k[0] = <<>>
    BY <1>1, <1>2, <1>3 DEF JoinedTo
  <2>2. QED BY <2>1
<1>5. ASSUME NEW n \in Nat, n \in T PROVE n + 1 \in T
  <2> SUFFICES ASSUME n + 1 <= Len(c) PROVE k[n + 1] = j[n + 1]
    OBVIOUS
  <2>1. k[n] = j[n] /\ d[n + 1] = c[n + 1]
    BY <1>1, <1>5
  <2>2. n < Len(c) /\ n < Len(d)
    BY <1>1
  <2>4. j[n + 1] = j[n] \o c[n + 1] /\ k[n + 1] = k[n] \o d[n + 1]
    BY <1>2, <1>3, <2>2 DEF JoinedTo
  <2>5. QED BY <2>1, <2>4
<1>6. Nat \subseteq T
  <2> HIDE DEF T
  <2> QED BY <1>4, <1>5, SetInduction
<1>7. k[Len(c)] = j[Len(c)]
  BY <1>1, <1>6
<1>8. k[Len(c) + 1] = k[Len(c)] \o s
  <2>1. Len(c) < Len(d)
    BY <1>1
  <2>2. k[Len(c) + 1] = k[Len(c)] \o d[Len(c) + 1]
    BY <1>1, <1>3, <2>1 DEF JoinedTo
  <2>3. QED BY <1>1, <2>2
<1>9. Joined(c) \in Seq(S)
  BY <1>1, <1>2 DEF JoinedTo
<1>10. Joined(d) = Joined(c) \o s
  BY <1>1, <1>2, <1>3, <1>7, <1>8
<1>11. QED BY <1>9, <1>10 DEF d

\* Nothing at all, joined.
LEMMA JoinedNone == Joined(<<>>) = <<>>
<1>1. <<>> \in Seq(Seq({})) /\ Len(<<>>) = 0
  OBVIOUS
<1>2. PICK j : Joined(<<>>) = j[0] /\ JoinedTo({}, <<>>, j)
  BY <1>1, JoinedDef
<1>3. j[0] = <<>>
  BY <1>1, <1>2 DEF JoinedTo
<1>4. QED BY <1>2, <1>3

\* What is added to chunks is last when they are joined.
LEMMA JoinedAdds ==
    ASSUME NEW S, NEW c \in Seq(Seq(S)), NEW e \in S, NEW fitting
    PROVE  /\ AddToChunks(c, e, fitting) \in Seq(Seq(S))
           /\ Joined(AddToChunks(c, e, fitting)) = Append(Joined(c), e)
<1> DEFINE d == AddToChunks(c, e, fitting)
<1>0. Joined(c) \in Seq(S) /\ <<e>> \in Seq(S)
  BY JoinedMore
<1>1. CASE Len(c) > 0 /\ Append(c[Len(c)], e) \in fitting
  <2>1. PICK b \in Seq(Seq(S)), x \in Seq(S) : c = Append(b, x)
    <3>1. c # <<>>
      BY <1>1
    <3>2. QED BY <3>1, SequenceEmptyOrAppend
  <2>2. /\ Len(c) = Len(b) + 1 /\ c[Len(b) + 1] = x /\ Len(b) \in Nat
        /\ \A i \in 1..Len(b) : c[i] = b[i]
    BY <2>1, AppendProperties
  <2> DEFINE new == Append(x, e)
             a   == Append(b, new)
  <2>3. new \in Seq(S) /\ new = x \o <<e>>
    BY <2>1, AppendProperties, AppendIsConcat
  <2> HIDE DEF new
  <2>4. a \in Seq(Seq(S)) /\ Len(a) = Len(b) + 1 /\ a[Len(b) + 1] = new /\ \A i \in 1..Len(b) : a[i] = b[i]
    BY <2>3, AppendProperties
  <2>5. d = [c EXCEPT ![Len(c)] = new]
    BY <1>1, <2>2 DEF AddToChunks, new
  <2> HIDE DEF a, d
  <2>6. /\ d \in Seq(Seq(S)) /\ Len(d) = Len(c) /\ d[Len(c)] = new
        /\ \A i \in 1..Len(c) : i # Len(c) => d[i] = c[i]
    BY <2>2, <2>3, <2>5
  <2>7. ASSUME NEW i \in 1..Len(d) PROVE d[i] = a[i]
    <3>1. CASE i = Len(c)
      BY <2>2, <2>4, <2>6, <3>1
    <3>2. CASE i # Len(c)
      <4>1. i \in 1..Len(b) /\ i \in 1..Len(c)
        BY <2>2, <2>6, <3>2
      <4>2. d[i] = c[i] /\ c[i] = b[i] /\ a[i] = b[i]
        BY <2>2, <2>4, <2>6, <3>2, <4>1
      <4>3. QED BY <4>2
    <3>3. QED BY <3>1, <3>2
  <2>8. d = a
    <3>1. Len(d) = Len(a) /\ d \in Seq(Seq(S)) /\ a \in Seq(Seq(S))
      BY <2>2, <2>4, <2>6
    <3>2. QED BY <2>7, <3>1, SeqEqual
  <2>9. Joined(a) = Joined(b) \o new /\ Joined(b) \in Seq(S)
    BY <2>3, JoinedMore DEF a
  <2>10. Joined(c) = Joined(b) \o x
    BY <2>1, JoinedMore
  <2>11. (Joined(b) \o x) \o <<e>> = Joined(b) \o (x \o <<e>>)
    BY <1>0, <2>1, <2>9, ConcatAssociative
  <2>12. Joined(d) = Joined(c) \o <<e>>
    BY <2>3, <2>8, <2>9, <2>10, <2>11
  <2>13. Joined(d) = Append(Joined(c), e)
    BY <1>0, <2>12, AppendIsConcat
  <2>14. QED BY <2>6, <2>13 DEF d
<1>2. CASE ~(Len(c) > 0 /\ Append(c[Len(c)], e) \in fitting)
  <2>1. d = Append(c, <<e>>)
    BY <1>2 DEF AddToChunks
  <2> DEFINE new == <<e>>
  <2>2. new \in Seq(S) /\ d = Append(c, new)
    BY <1>0, <2>1
  <2> HIDE DEF new, d
  <2>3. d \in Seq(Seq(S))
    BY <2>2, AppendProperties
  <2>4. Joined(d) = Joined(c) \o new
    BY <2>2, JoinedMore
  <2>5. Append(Joined(c), e) = Joined(c) \o new
    BY <1>0, AppendIsConcat DEF new
  <2>6. QED BY <2>3, <2>4, <2>5 DEF d
<1>3. QED BY <1>1, <1>2

\* Chunks joined again are what was cut.
THEOREM ChunksJoined ==
    ASSUME NEW S, NEW seq \in Seq(S), NEW fitting
    PROVE  Joined(InChunks(seq, fitting)) = seq
<1>0. Len(seq) \in Nat
  OBVIOUS
<1>1. PICK c : /\ InChunks(seq, fitting) = c[Len(seq)]
               /\ \A n \in 0..Len(seq) :
                     c[n] = IF n = 0 THEN <<>> ELSE AddToChunks(c[n - 1], seq[n], fitting)
  BY InChunksDef
<1> DEFINE Good(n, j) == j \in Seq(S) /\ Len(j) = n /\ \A i \in 1..n : j[i] = seq[i]
           T == {n \in Nat : n <= Len(seq) => c[n] \in Seq(Seq(S)) /\ Good(n, Joined(c[n]))}
<1>2. 0 \in T
  <2>1. c[0] = <<>>
    BY <1>0, <1>1
  <2>2. <<>> \in Seq(Seq(S)) /\ Good(0, <<>>)
    OBVIOUS
  <2>3. QED BY <2>1, <2>2, JoinedNone
<1>3. ASSUME NEW n \in Nat, n \in T PROVE n + 1 \in T
  <2> SUFFICES ASSUME n + 1 <= Len(seq)
               PROVE  c[n + 1] \in Seq(Seq(S)) /\ Good(n + 1, Joined(c[n + 1]))
    OBVIOUS
  <2> DEFINE j == Joined(c[n])
             e == seq[n + 1]
  <2>1. c[n] \in Seq(Seq(S)) /\ Good(n, j)
    BY <1>0, <1>3
  <2>2. c[n + 1] = AddToChunks(c[n], e, fitting) /\ n + 1 \in 1..Len(seq) /\ e \in S
    BY <1>0, <1>1
  <2>3. c[n + 1] \in Seq(Seq(S)) /\ Joined(c[n + 1]) = Append(j, e)
    BY <2>1, <2>2, JoinedAdds
  <2>4. Good(n + 1, Append(j, e))
    <3> HIDE DEF j
    <3>0. j \in Seq(S) /\ Len(j) = n /\ e \in S
      BY <2>1, <2>2
    <3> DEFINE a == Append(j, e)
    <3>1. /\ a \in Seq(S) /\ Len(a) = n + 1 /\ a[n + 1] = e
          /\ \A i \in 1..n : a[i] = j[i]
      <4> HIDE DEF e
      <4> QED BY <3>0, AppendProperties
    <3>2. \A i \in 1..n + 1 : i = n + 1 \/ i \in 1..n
      OBVIOUS
    <3> HIDE DEF a
    <3>3. \A i \in 1..n + 1 : a[i] = seq[i]
      BY <2>1, <3>1, <3>2
    <3>4. QED BY <3>1, <3>3 DEF a
  <2>5. QED BY <2>3, <2>4
<1>4. Nat \subseteq T
  <2> HIDE DEF T
  <2> QED BY <1>2, <1>3, SetInduction
<1> DEFINE all == Joined(InChunks(seq, fitting))
<1>5. Good(Len(seq), all)
  BY <1>0, <1>1, <1>4
<1> HIDE DEF all
<1>6. all = seq
  BY <1>0, <1>5, SeqEqual
<1>7. QED BY <1>6 DEF all

\* What is kept of one element: that element, if the sequence has it.
LEMMA KeepOne ==
    ASSUME NEW S, NEW seq \in Seq(S), Distinct(seq), NEW e \in S
    PROVE  Keep(seq, {e}) = IF \E i \in 1..Len(seq) : seq[i] = e THEN <<e>> ELSE <<>>
<1> DEFINE one == {e}
           k   == Keep(seq, one)
           has == \E i \in 1..Len(seq) : seq[i] = e
<1>1. k \in Seq(S) /\ Distinct(k) /\ (\A j \in 1..Len(k) : k[j] = e) /\ (has <=> 1 \in 1..Len(k))
  <2>0. \A x : x \in one <=> x = e
    OBVIOUS
  <2> HIDE DEF one
  <2>1. /\ k \in Seq(S)
        /\ \A i \in 1..Len(seq) : seq[i] \in one => \E j \in 1..Len(k) : k[j] = seq[i]
        /\ \A j \in 1..Len(k) : \E i \in 1..Len(seq) : k[j] = seq[i] /\ seq[i] \in one
    BY KeepFacts
  <2>2. Distinct(k)
    BY KeepDistinct
  <2> HIDE DEF k
  <2>3. Len(k) \in Nat
    BY <2>1
  <2>4. has => \E j \in 1..Len(k) : TRUE
    BY <2>0, <2>1
  <2>5. (\E j \in 1..Len(k) : TRUE) => 1 \in 1..Len(k)
    BY <2>3
  <2>6. 1 \in 1..Len(k) => has
    BY <2>0, <2>1
  <2>7. \A j \in 1..Len(k) : k[j] = e
    BY <2>0, <2>1
  <2>8. QED BY <2>1, <2>2, <2>4, <2>5, <2>6, <2>7
<1> HIDE DEF k, one
<1>2. Len(k) \in Nat /\ Len(k) <= 1
  <2>1. Len(k) \in Nat
    BY <1>1
  <2>2. ASSUME Len(k) > 1 PROVE FALSE
    <3>1. 1 \in 1..Len(k) /\ 2 \in 1..Len(k)
      BY <2>1, <2>2
    <3>2. QED BY <1>1, <3>1 DEF Distinct
  <2>3. QED BY <2>1, <2>2
<1>3. k = IF has THEN <<e>> ELSE <<>>
  <2> HIDE DEF has
  <2>1. CASE Len(k) = 0
    <3>1. k = <<>> /\ ~has
      BY <1>1, <2>1
    <3>2. QED BY <3>1
  <2>2. CASE Len(k) = 1
    <3>1. k[1] = e /\ has
      BY <1>1, <2>2
    <3>2. k = <<e>>
      BY <1>1, <2>2, <3>1
    <3>3. QED BY <3>1, <3>2
  <2>3. Len(k) = 0 \/ Len(k) = 1
    <3> DEFINE n == Len(k)
    <3>1. n \in Nat /\ n <= 1
      BY <1>2
    <3> HIDE DEF n
    <3>2. n = 0 \/ n = 1
      BY <3>1
    <3>3. QED BY <3>2 DEF n
  <2>4. QED BY <2>1, <2>2, <2>3
<1>4. QED BY <1>3 DEF k, one

\* The elements of a sequence without repetition, put into the order of another
\* one, are what that one has of them.
THEOREM InOrderKeeps ==
    ASSUME NEW S, NEW seq \in Seq(S), Distinct(seq), NEW order \in Seq(S)
    PROVE  InOrder(seq, order) = Keep(order, {seq[i] : i \in 1..Len(seq)})
<1> DEFINE set == {seq[i] : i \in 1..Len(seq)}
           c == [n \in 1..Len(order) |-> Keep(seq, {order[n]})]
<1>0. Len(order) \in Nat
  OBVIOUS
<1>1. /\ c \in Seq(Seq(S)) /\ Len(c) = Len(order)
      /\ \A n \in 1..Len(order) : c[n] = Keep(seq, {order[n]})
  <2>1. ASSUME NEW n \in 1..Len(order) PROVE Keep(seq, {order[n]}) \in Seq(S)
    BY KeepFacts
  <2>2. QED BY <2>1
<1>2. InOrder(seq, order) = Joined(c)
  BY DEF InOrder
<1> HIDE DEF c
<1>3. PICK j : Joined(c) = j[Len(c)] /\ JoinedTo(S, c, j)
  BY <1>1, JoinedDef
<1>4. PICK kept : KeptTo(order, set, Len(order), kept) /\ Keep(order, set) = kept[Len(order)]
  BY <1>0, KeepDef
<1> DEFINE T == {n \in Nat : n <= Len(order) => j[n] = kept[n]}
<1>5. 0 \in T
  <2>1. 0 \in 0..Len(order)
    BY <1>0
  <2>2. kept[0] = <<>>
    BY <1>4, <2>1 DEF KeptTo
  <2>3. j[0] = <<>>
    BY <1>3 DEF JoinedTo
  <2>4. QED BY <2>2, <2>3
<1>6. ASSUME NEW n \in Nat, n \in T PROVE n + 1 \in T
  <2> SUFFICES ASSUME n + 1 <= Len(order) PROVE j[n + 1] = kept[n + 1]
    OBVIOUS
  <2> DEFINE e == order[n + 1]
  <2>1. /\ n < Len(order) /\ n + 1 \in 0..Len(order) /\ n + 1 \in 1..Len(order) /\ n + 1 # 0
        /\ (n + 1) - 1 = n /\ n \in 0..Len(c)
    BY <1>0, <1>1
  <2>2. e \in S
    BY <2>1
  <2>3. j[n] = kept[n]
    BY <1>0, <1>6
  <2>4. j[n] \in Seq(S) /\ j[n + 1] = j[n] \o c[n + 1]
    BY <1>1, <1>3, <2>1 DEF JoinedTo
  <2>5. kept[n + 1] = IF e \in set THEN Append(kept[n], e) ELSE kept[n]
    BY <1>4, <2>1 DEF KeptTo
  <2>6. c[n + 1] = IF e \in set THEN <<e>> ELSE <<>>
    <3>1. c[n + 1] = Keep(seq, {e})
      BY <1>1, <2>1
    <3>2. e \in set <=> \E i \in 1..Len(seq) : seq[i] = e
      OBVIOUS
    <3> HIDE DEF e, set
    <3>3. QED BY <2>2, <3>1, <3>2, KeepOne
  <2> HIDE DEF e, set, T
  <2>7. CASE e \in set
    BY <2>2, <2>3, <2>4, <2>5, <2>6, <2>7, AppendIsConcat
  <2>8. CASE e \notin set
    <3>1. j[n] \o <<>> = j[n]
      BY <2>4, ConcatEmptySeq
    <3>2. QED BY <2>3, <2>4, <2>5, <2>6, <2>8, <3>1
  <2>9. QED BY <2>7, <2>8
<1>7. Nat \subseteq T
  <2> HIDE DEF T
  <2> QED BY <1>5, <1>6, SetInduction
<1>8. j[Len(order)] = kept[Len(order)]
  BY <1>0, <1>7
<1>9. QED BY <1>1, <1>2, <1>3, <1>4, <1>8

=============================================================================
