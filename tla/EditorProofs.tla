---------------------------- MODULE EditorProofs -----------------------------
(***************************************************************************)
(* The editor keeps its identifiers, its indices and its handles in order  *)
(* over every session.                                                     *)
(*                                                                         *)
(* A context is a forest (Forest).  The depth-first sequence of a subtree  *)
(* lists each component of it once (DepthFirstFacts), so that the three    *)
(* things a step does with a subtree, which are to give its indices back,  *)
(* to free its serial identifiers and to count its handles, are about the  *)
(* same set.  Attach and Prune keep a forest a forest (AttachFacts,        *)
(* PruneFacts), and what they need of numbers and sequences comes first.   *)
(*                                                                         *)
(* The invariant is EditorInv.  Its conjunct SceneOK would be inductive on *)
(* its own if the editor called the scene with anything in reach; the      *)
(* others say what the editor keeps for later and calls it with: commands, *)
(* files, and a backup while the copy plays.                               *)
(***************************************************************************)
EXTENDS EditorProps, FiniteSetTheorems, WellFoundedInduction, TLAPS

-----------------------------------------------------------------------------
(* Numbers and sequences                                                   *)

\* A set of natural numbers has a least one.
LEMMA LeastNumber ==
    ASSUME NEW S, S \subseteq Nat, S # {}
    PROVE  \E p \in S : \A q \in S : p <= q
<1>1. PICK x \in S : \A y \in S : ~(<<y, x>> \in OpToRel(<, Nat))
  BY NatLessThanWellFounded, WFMin
<1>2. \A y \in S : ~(y < x)
  BY <1>1 DEF OpToRel
<1> QED
  BY <1>2

Lower(G, w, s) == {t \in G : w[t] < w[s]}

\* Of finitely many things with different numbers there is, for each k up to
\* how many they are, one with k - 1 below it.
LEMMA RankExists ==
    ASSUME NEW G, IsFiniteSet(G), NEW w \in [G -> Nat],
           \A s, t \in G : w[s] = w[t] => s = t,
           NEW k \in 1 .. Cardinality(G)
    PROVE  \E s \in G : Cardinality(Lower(G, w, s)) = k - 1
<1> DEFINE n == Cardinality(G)
           Before(s) == {t \in G : w[t] < w[s]}
           Ranked(j) == \E s \in G : Cardinality(Before(s)) = j - 1
           Missing == {j \in 1 .. n : ~Ranked(j)}
<1>1. n \in Nat
  BY FS_CardinalityType
<1>2. \A s \in G : w[s] \in Nat
  OBVIOUS
<1>3. \A s : IsFiniteSet(Before(s)) /\ Cardinality(Before(s)) \in Nat
  BY FS_Subset, FS_CardinalityType
<1>4. ASSUME NEW H \in SUBSET G, H # {}
      PROVE  \E s \in H : \A t \in H : w[s] <= w[t]
  <2>1. {w[s] : s \in H} \subseteq Nat /\ {w[s] : s \in H} # {}
    BY <1>2, <1>4
  <2>2. PICK v \in {w[s] : s \in H} : \A u \in {w[s] : s \in H} : v <= u
    BY <2>1, LeastNumber
  <2> QED
    BY <2>2
<1>5. Missing = {}
  <2> SUFFICES ASSUME Missing # {} PROVE FALSE
    OBVIOUS
  <2>0. Missing \subseteq Nat
    BY <1>1
  <2>1. PICK j \in Missing : \A i \in Missing : j <= i
    <3> HIDE DEF Missing
    <3> QED
      BY <2>0, LeastNumber
  <2>2. j \in 1 .. n /\ ~Ranked(j)
    OBVIOUS
  <2>3. CASE j = 1
    <3>1. G # {}
      BY <1>1, <2>2, FS_EmptySet
    <3>2. PICK s \in G : \A t \in G : w[s] <= w[t]
      BY <1>4, <3>1
    <3>3. Before(s) = {}
      BY <1>2, <3>2
    <3>4. Cardinality(Before(s)) = 0
      BY <3>3, FS_EmptySet
    <3> HIDE DEF Before
    <3> QED
      BY <2>2, <2>3, <3>4
  <2>4. CASE j # 1
    <3>1. j - 1 \in 1 .. n /\ Ranked(j - 1)
      <4>1. j - 1 \in 1 .. n /\ ~(j <= j - 1)
        BY <1>1, <2>2, <2>4
      <4> QED
        BY <2>1, <4>1
    <3>2. PICK s \in G : Cardinality(Before(s)) = j - 2
      <4> HIDE DEF Before
      <4>1. (j - 1) - 1 = j - 2
        BY <2>2
      <4> QED
        BY <3>1, <4>1
    <3> DEFINE Later == {t \in G : w[s] < w[t]}
    <3>3. Before(s) \cup {s} = G \ Later /\ s \notin Before(s)
      BY <1>2
    <3>4. Cardinality(Before(s) \cup {s}) = j - 1
      <4>1. Cardinality(Before(s) \cup {s}) = Cardinality(Before(s)) + 1
        BY <1>3, <3>3, FS_AddElement
      <4>2. (j - 2) + 1 = j - 1
        BY <1>1, <2>2
      <4> QED
        BY <3>2, <4>1, <4>2
    <3>5. Later # {}
      <4> SUFFICES ASSUME Later = {} PROVE FALSE
        OBVIOUS
      <4>1. G \ Later = G
        OBVIOUS
      <4>2. n = j - 1
        <5> HIDE DEF Later
        <5> QED
          BY <3>3, <3>4, <4>1
      <4> HIDE DEF n
      <4> QED
        BY <1>1, <2>2, <4>2
    <3>6. PICK t \in Later : \A u \in Later : w[t] <= w[u]
      BY <1>4, <3>5
    <3>7. Before(t) = Before(s) \cup {s}
      BY <1>2, <3>6
    <3> QED
      BY <2>2, <3>4, <3>6, <3>7
  <2> QED
    BY <2>3, <2>4
<1> QED
  BY <1>5 DEF Lower

NoRepeat(s) == \A j, k \in DOMAIN s : s[j] = s[k] => j = k

\* Ascending goes through the numbers of a set, each once.
LEMMA AscendingFacts ==
    ASSUME NEW S, IsFiniteSet(S), S \subseteq Nat
    PROVE  /\ Ascending(S) \in Seq(S)
           /\ NoRepeat(Ascending(S))
           /\ Range(Ascending(S)) = S
<1> DEFINE Below(x) == {y \in S : y < x}
           a == Ascending(S)
<1>1. Cardinality(S) \in Nat
  BY FS_CardinalityType
<1>2. \A x : IsFiniteSet(Below(x)) /\ Cardinality(Below(x)) \in Nat
  BY FS_Subset, FS_CardinalityType
<1>3. DOMAIN a = 1 .. Cardinality(S)
  BY DEF Ascending
<1>4. ASSUME NEW n \in 1 .. Cardinality(S)
      PROVE  a[n] \in S /\ Cardinality(Below(a[n])) = n - 1
  <2> DEFINE w == [x \in S |-> x]
  <2>1. w \in [S -> Nat] /\ \A s, t \in S : w[s] = w[t] => s = t
    OBVIOUS
  <2>2. \E s \in S : Cardinality(Lower(S, w, s)) = n - 1
    <3> HIDE DEF w
    <3> QED
      BY <2>1, RankExists
  <2>3. PICK s \in S : Cardinality(Lower(S, w, s)) = n - 1
    BY <2>2
  <2>4. Lower(S, w, s) = Below(s)
    BY DEF Lower
  <2>5. \E x \in S : Cardinality(Below(x)) = n - 1
    BY <2>3, <2>4
  <2>6. a[n] = CHOOSE x \in S : Cardinality(Below(x)) = n - 1
    BY DEF Ascending
  <2> QED
    BY <2>5, <2>6
<1>5. \A n \in 1 .. Cardinality(S) : a[n] \in S
  BY <1>4
<1>6. a \in Seq(S)
  <2> DEFINE F(n) == CHOOSE x \in S : Cardinality({y \in S : y < x}) = n - 1
  <2>0. a = [n \in 1 .. Cardinality(S) |-> F(n)]
    BY DEF Ascending
  <2> HIDE DEF a, F, Below
  <2>1. a = [n \in 1 .. Cardinality(S) |-> a[n]]
    BY <2>0
  <2> QED
    BY <1>1, <1>5, <2>1
<1>7. NoRepeat(a)
  <2> SUFFICES ASSUME NEW j \in 1 .. Cardinality(S), NEW k \in 1 .. Cardinality(S), a[j] = a[k]
               PROVE  j = k
    BY <1>3 DEF NoRepeat
  <2>1. Cardinality(Below(a[j])) = j - 1 /\ Cardinality(Below(a[k])) = k - 1
    BY <1>4
  <2>2. j - 1 = k - 1
    BY <2>1
  <2> QED
    BY <1>1, <2>2
<1>8. ASSUME NEW x \in S PROVE \E n \in DOMAIN a : a[n] = x
  <2> DEFINE n == Cardinality(Below(x)) + 1
  <2>0. Cardinality(Below(x)) \in Nat /\ IsFiniteSet(Below(x))
    BY <1>2
  <2>1. Cardinality(Below(x) \cup {x}) = n
    <3>1. x \notin Below(x)
      OBVIOUS
    <3> QED
      BY <2>0, <3>1, FS_AddElement
  <2>2. n <= Cardinality(S)
    <3>1. Below(x) \cup {x} \subseteq S
      OBVIOUS
    <3> QED
      BY <2>1, <3>1, FS_Subset
  <2>3. n \in 1 .. Cardinality(S) /\ n - 1 = Cardinality(Below(x))
    BY <1>1, <2>0, <2>2
  <2>4. a[n] \in S /\ Cardinality(Below(a[n])) = Cardinality(Below(x))
    BY <1>4, <2>3
  <2>5. ASSUME NEW u \in S, NEW v \in S, u < v PROVE Cardinality(Below(u)) # Cardinality(Below(v))
    <3>1. Below(u) \cup {u} \subseteq Below(v)
      <4>1. u \in Nat /\ v \in Nat /\ \A y \in S : y \in Nat
        OBVIOUS
      <4> SUFFICES ASSUME NEW y \in Below(u) \cup {u} PROVE y \in S /\ y < v
        OBVIOUS
      <4>2. y \in S /\ (y < u \/ y = u)
        OBVIOUS
      <4> QED
        BY <2>5, <4>1, <4>2
    <3>2. Cardinality(Below(u) \cup {u}) = Cardinality(Below(u)) + 1
      <4>1. u \notin Below(u)
        OBVIOUS
      <4> QED
        BY <1>2, <4>1, FS_AddElement
    <3>3. Cardinality(Below(u)) + 1 <= Cardinality(Below(v))
      BY <1>2, <3>1, <3>2, FS_Subset
    <3>4. Cardinality(Below(u)) \in Nat /\ Cardinality(Below(v)) \in Nat
      BY <1>2
    <3> QED
      BY <3>3, <3>4
  <2>6. a[n] = x
    <3>1. a[n] \in Nat /\ x \in Nat
      BY <2>4
    <3>2. ~(a[n] < x) /\ ~(x < a[n])
      BY <2>4, <2>5
    <3> HIDE DEF a, n
    <3> QED
      BY <3>1, <3>2
  <2> QED
    BY <1>3, <2>3, <2>6
<1> QED
  BY <1>3, <1>5, <1>6, <1>7, <1>8 DEF Range

\* Whatever s holds is followed in s by its children.
Onward(kids, s) ==
    \A b \in DOMAIN s : \A k \in DOMAIN kids[s[b]] :
        \E a \in DOMAIN s : b < a /\ s[a] = kids[s[b]][k]

\* Two sequences put together.
LEMMA JoinFacts ==
    ASSUME NEW T, NEW u \in Seq(T), NEW v \in Seq(T)
    PROVE  /\ u \o v \in Seq(T) /\ Range(u \o v) = Range(u) \cup Range(v)
           /\ Len(u \o v) = Len(u) + Len(v)
           /\ NoRepeat(u) /\ NoRepeat(v) /\ Range(u) \cap Range(v) = {} => NoRepeat(u \o v)
           /\ \A kids : Onward(kids, u) /\ Onward(kids, v) => Onward(kids, u \o v)
<1> DEFINE w == u \o v
<1>0. /\ Len(u) \in Nat /\ DOMAIN u = 1 .. Len(u)
      /\ Len(v) \in Nat /\ DOMAIN v = 1 .. Len(v)
      /\ \A i \in DOMAIN u : u[i] \in T
      /\ \A i \in DOMAIN v : v[i] \in T
  OBVIOUS
<1>1. /\ w \in Seq(T) /\ Len(w) = Len(u) + Len(v) /\ DOMAIN w = 1 .. Len(u) + Len(v)
      /\ \A i \in 1 .. Len(u) + Len(v) : w[i] = IF i <= Len(u) THEN u[i] ELSE v[i - Len(u)]
  OBVIOUS
<1> HIDE DEF w
<1>2. \A i \in DOMAIN u : i \in DOMAIN w /\ w[i] = u[i]
  BY <1>0, <1>1
<1>3. \A i \in DOMAIN v : i + Len(u) \in DOMAIN w /\ w[i + Len(u)] = v[i]
  BY <1>0, <1>1
<1>4. ASSUME NEW i \in DOMAIN w
      PROVE  (i \in DOMAIN u /\ w[i] = u[i])
             \/ (i - Len(u) \in DOMAIN v /\ w[i] = v[i - Len(u)] /\ i > Len(u))
  BY <1>0, <1>1
<1>5. Range(w) = Range(u) \cup Range(v)
  <2>1. ASSUME NEW x \in Range(w) PROVE x \in Range(u) \cup Range(v)
    <3>1. PICK i \in DOMAIN w : x = w[i]
      BY DEF Range
    <3> QED
      BY <3>1, <1>4 DEF Range
  <2>2. ASSUME NEW x \in Range(u) PROVE x \in Range(w)
    <3>1. PICK i \in DOMAIN u : x = u[i]
      BY DEF Range
    <3> QED
      BY <3>1, <1>2 DEF Range
  <2>3. ASSUME NEW x \in Range(v) PROVE x \in Range(w)
    <3>1. PICK i \in DOMAIN v : x = v[i]
      BY DEF Range
    <3> QED
      BY <3>1, <1>3 DEF Range
  <2> QED
    BY <2>1, <2>2, <2>3
<1>6. ASSUME NoRepeat(u), NoRepeat(v), Range(u) \cap Range(v) = {} PROVE NoRepeat(w)
  <2> SUFFICES ASSUME NEW i \in DOMAIN w, NEW j \in DOMAIN w, w[i] = w[j] PROVE i = j
    BY DEF NoRepeat
  <2>1. CASE i \in DOMAIN u /\ j \in DOMAIN u /\ w[i] = u[i] /\ w[j] = u[j]
    BY <1>6, <2>1 DEF NoRepeat
  <2>2. CASE i - Len(u) \in DOMAIN v /\ w[i] = v[i - Len(u)]
             /\ j - Len(u) \in DOMAIN v /\ w[j] = v[j - Len(u)]
    <3>1. i - Len(u) = j - Len(u)
      BY <1>6, <2>2 DEF NoRepeat
    <3> QED
      BY <1>0, <1>1, <3>1
  <2>3. ASSUME NEW a \in DOMAIN w, NEW b \in DOMAIN w, a \in DOMAIN u, w[a] = u[a],
               b - Len(u) \in DOMAIN v, w[b] = v[b - Len(u)]
        PROVE  w[a] # w[b]
    <3>1. w[a] \in Range(u) /\ w[b] \in Range(v)
      BY <2>3 DEF Range
    <3> QED
      BY <1>6, <3>1
  <2> QED
    BY <1>4, <2>1, <2>2, <2>3
<1>7. ASSUME NEW kids, Onward(kids, u), Onward(kids, v) PROVE Onward(kids, w)
  <2> SUFFICES ASSUME NEW b \in DOMAIN w, NEW k \in DOMAIN kids[w[b]]
               PROVE  \E a \in DOMAIN w : b < a /\ w[a] = kids[w[b]][k]
    BY DEF Onward
  <2>1. CASE b \in DOMAIN u /\ w[b] = u[b]
    <3>1. PICK a \in DOMAIN u : b < a /\ u[a] = kids[u[b]][k]
      BY <1>7, <2>1 DEF Onward
    <3> QED
      BY <1>2, <2>1, <3>1
  <2>2. CASE b - Len(u) \in DOMAIN v /\ w[b] = v[b - Len(u)]
    <3>1. PICK a \in DOMAIN v : b - Len(u) < a /\ v[a] = kids[v[b - Len(u)]][k]
      BY <1>7, <2>2 DEF Onward
    <3>2. b < a + Len(u)
      BY <1>0, <1>1, <3>1
    <3> QED
      BY <1>3, <2>2, <3>1, <3>2
  <2> QED
    BY <1>4, <2>1, <2>2
<1> QED
  BY <1>1, <1>5, <1>6, <1>7 DEF w

\* What FlattenSeq computes goes from one sequence to the next.
LEMMA FlattenEquation ==
    ASSUME NEW T, NEW ss \in Seq(T), Len(ss) # 0
    PROVE  \E f : /\ f = [i \in 1 .. Len(ss) |-> IF i = 1 THEN ss[i] ELSE f[i - 1] \o ss[i]]
                  /\ FlattenSeq(ss) = f[Len(ss)]
<1> DEFINE Upto(m, f) == f = [i \in 1 .. m |-> IF i = 1 THEN ss[i] ELSE f[i - 1] \o ss[i]]
           Missing == {m \in Nat : ~\E f : Upto(m, f)}
<1>1. Missing = {}
  <2> SUFFICES ASSUME Missing # {} PROVE FALSE
    OBVIOUS
  <2>1. PICK m \in Missing : \A j \in Missing : m <= j
    <3>1. Missing \subseteq Nat
      OBVIOUS
    <3> HIDE DEF Missing
    <3> QED
      BY <3>1, LeastNumber
  <2>2. m \in Nat /\ ~\E f : Upto(m, f)
    OBVIOUS
  <2>3. CASE m = 0
    <3>1. Upto(0, [i \in 1 .. 0 |-> ss])
      OBVIOUS
    <3> QED
      BY <2>2, <2>3, <3>1
  <2>4. CASE m # 0
    <3>1. m - 1 \in Nat /\ m - 1 \notin Missing
      <4> HIDE DEF Missing
      <4> QED
        BY <2>1, <2>2, <2>4
    <3>2. PICK f : Upto(m - 1, f)
      BY <3>1
    <3> DEFINE g == [i \in 1 .. m |-> IF i = 1 THEN ss[i] ELSE f[i - 1] \o ss[i]]
    <3>3. \A i \in 1 .. m - 1 : f[i] = IF i = 1 THEN ss[i] ELSE f[i - 1] \o ss[i]
      BY <3>2
    <3>4. \A i \in 1 .. m - 1 : g[i] = f[i]
      BY <2>2, <3>3
    <3>5. \A i \in 1 .. m : i # 1 => i - 1 \in 1 .. m - 1
      BY <2>2
    <3>6. \A i \in 1 .. m : i # 1 => g[i - 1] = f[i - 1]
      BY <3>4, <3>5
    <3>7. Upto(m, g)
      BY <3>6
    <3> QED
      BY <2>2, <3>7
  <2> QED
    BY <2>3, <2>4
<1>2. \E f : Upto(Len(ss), f)
  <2>1. Len(ss) \in Nat
    OBVIOUS
  <2> QED
    BY <1>1, <2>1
<1>3. FlattenSeq(ss) = (CHOOSE f : Upto(Len(ss), f))[Len(ss)]
  BY DEF FlattenSeq
<1> HIDE DEF Upto
<1>4. PICK f : f = (CHOOSE g : Upto(Len(ss), g))
  OBVIOUS
<1>5. Upto(Len(ss), f)
  BY <1>2, <1>4
<1>6. FlattenSeq(ss) = f[Len(ss)]
  BY <1>3, <1>4
<1> QED
  BY <1>5, <1>6 DEF Upto

\* FlattenSeq puts sequences together.
LEMMA FlattenFacts ==
    ASSUME NEW T, NEW kids, NEW ss \in Seq(Seq(T))
    PROVE  /\ FlattenSeq(ss) \in Seq(T)
           /\ Range(FlattenSeq(ss)) = UNION {Range(ss[i]) : i \in DOMAIN ss}
           /\ (/\ \A i \in DOMAIN ss : NoRepeat(ss[i])
               /\ \A i, j \in DOMAIN ss : i # j => Range(ss[i]) \cap Range(ss[j]) = {})
              => NoRepeat(FlattenSeq(ss))
           /\ (\A i \in DOMAIN ss : Onward(kids, ss[i])) => Onward(kids, FlattenSeq(ss))
<1>0. Len(ss) \in Nat /\ DOMAIN ss = 1 .. Len(ss) /\ \A i \in DOMAIN ss : ss[i] \in Seq(T)
  OBVIOUS
<1>1. CASE Len(ss) = 0
  <2>1. FlattenSeq(ss) = <<>>
    BY <1>1 DEF FlattenSeq
  <2>2. <<>> \in Seq(T) /\ DOMAIN <<>> = {} /\ DOMAIN ss = {}
    BY <1>0, <1>1
  <2> QED
    BY <2>1, <2>2 DEF Range, NoRepeat, Onward
<1>2. CASE Len(ss) # 0
  <2>1. PICK f : /\ f = [i \in 1 .. Len(ss) |-> IF i = 1 THEN ss[i] ELSE f[i - 1] \o ss[i]]
                 /\ FlattenSeq(ss) = f[Len(ss)]
    BY <1>2, FlattenEquation
  <2> DEFINE Apart(n) ==
               /\ \A i \in 1 .. n : NoRepeat(ss[i])
               /\ \A i, j \in 1 .. n : i # j => Range(ss[i]) \cap Range(ss[j]) = {}
             Good(n) ==
               /\ f[n] \in Seq(T)
               /\ Range(f[n]) = UNION {Range(ss[i]) : i \in 1 .. n}
               /\ Apart(n) => NoRepeat(f[n])
               /\ (\A i \in 1 .. n : Onward(kids, ss[i])) => Onward(kids, f[n])
             Bad == {n \in 1 .. Len(ss) : ~Good(n)}
  <2>2. Bad = {}
    <3> SUFFICES ASSUME Bad # {} PROVE FALSE
      OBVIOUS
    <3>1. PICK n \in Bad : \A j \in Bad : n <= j
      <4>1. Bad \subseteq Nat
        OBVIOUS
      <4> HIDE DEF Bad
      <4> QED
        BY <4>1, LeastNumber
    <3>2. n \in 1 .. Len(ss) /\ ~Good(n)
      OBVIOUS
    <3>3. CASE n = 1
      <4>1. f[1] = ss[1] /\ 1 \in 1 .. 1 /\ \A i \in 1 .. 1 : i = 1
        BY <2>1, <3>2, <3>3
      <4>2. UNION {Range(ss[i]) : i \in 1 .. 1} = Range(ss[1])
        BY <4>1
      <4>3. ss[1] \in Seq(T)
        BY <1>0, <3>2, <3>3
      <4>4. Good(1)
        BY <4>1, <4>2, <4>3
      <4> QED
        BY <3>2, <3>3, <4>4
    <3>4. CASE n # 1
      <4>1. n - 1 \in 1 .. Len(ss) /\ n - 1 \notin Bad
        <5> HIDE DEF Bad
        <5> QED
          BY <1>0, <3>1, <3>2, <3>4
      <4>2. Good(n - 1)
        BY <4>1
      <4>3. f[n] = f[n - 1] \o ss[n] /\ ss[n] \in Seq(T)
        BY <1>0, <2>1, <3>2, <3>4
      <4>4. n \in Nat /\ 1 .. n = (1 .. n - 1) \cup {n} /\ n \notin 1 .. n - 1
        BY <1>0, <3>2, <3>4
      <4>5. f[n - 1] \in Seq(T)
        BY <4>2
      <4> DEFINE u == f[n - 1]
                 v == ss[n]
      <4>6. /\ u \o v \in Seq(T) /\ Range(u \o v) = Range(u) \cup Range(v)
            /\ NoRepeat(u) /\ NoRepeat(v) /\ Range(u) \cap Range(v) = {} => NoRepeat(u \o v)
            /\ \A down : Onward(down, u) /\ Onward(down, v) => Onward(down, u \o v)
        <5>1. u \in Seq(T) /\ v \in Seq(T)
          BY <4>3, <4>5
        <5> HIDE DEF u, v
        <5> QED
          BY <5>1, JoinFacts
      <4>7. Range(f[n]) = UNION {Range(ss[i]) : i \in 1 .. n}
        <5>1. Range(f[n]) = (UNION {Range(ss[i]) : i \in 1 .. n - 1}) \cup Range(ss[n])
          BY <4>2, <4>3, <4>6
        <5> QED
          BY <4>4, <5>1
      <4>8. Apart(n) => NoRepeat(f[n])
        <5> SUFFICES ASSUME Apart(n) PROVE NoRepeat(f[n])
          OBVIOUS
        <5>1. Apart(n - 1) /\ NoRepeat(ss[n])
          BY <4>4
        <5>2. \A i \in 1 .. n - 1 : Range(ss[i]) \cap Range(ss[n]) = {}
          BY <4>4
        <5>3. Range(u) \cap Range(v) = {}
          BY <4>2, <5>2
        <5> HIDE DEF Apart
        <5> QED
          BY <4>2, <4>3, <4>6, <5>1, <5>3
      <4>9. (\A i \in 1 .. n : Onward(kids, ss[i])) => Onward(kids, f[n])
        BY <4>2, <4>3, <4>4, <4>6
      <4>10. f[n] \in Seq(T)
        BY <4>3, <4>6
      <4> QED
        BY <3>2, <4>7, <4>8, <4>9, <4>10
    <3> QED
      BY <3>3, <3>4
  <2>3. Good(Len(ss))
    <3>1. Len(ss) \in 1 .. Len(ss)
      BY <1>0, <1>2
    <3> QED
      BY <2>2, <3>1
  <2>4. Apart(Len(ss)) <=> /\ \A i \in DOMAIN ss : NoRepeat(ss[i])
                           /\ \A i, j \in DOMAIN ss : i # j => Range(ss[i]) \cap Range(ss[j]) = {}
    BY <1>0
  <2> HIDE DEF Apart
  <2> QED
    BY <1>0, <2>1, <2>3, <2>4
<1> QED
  BY <1>1, <1>2

-----------------------------------------------------------------------------
(* Forests                                                                 *)

Nodes(c) == Components(c) \cup {Root}
ComponentData == [suid : SUID \cup {NoSUID}, data : Data]

\* Every component of c is once in one list, and the lists lead downwards.
Forest(c) ==
    /\ c = [node |-> c.node, kids |-> c.kids, suids |-> c.suids]
    /\ IsFiniteSet(Components(c)) /\ Components(c) \subseteq Nat
    /\ c.node \in [Components(c) -> ComponentData]
    /\ c.kids \in [Nodes(c) -> Seq(Components(c))]
    /\ \A p, q \in Nodes(c) : \A j \in DOMAIN c.kids[p], k \in DOMAIN c.kids[q] :
          c.kids[p][j] = c.kids[q][k] => p = q /\ j = k
    /\ \A i \in Components(c) : \E p \in Nodes(c) : \E k \in DOMAIN c.kids[p] : c.kids[p][k] = i
    /\ \E depth \in [Nodes(c) -> Nat] :
          \A p \in Nodes(c) : \A k \in DOMAIN c.kids[p] : depth[p] < depth[c.kids[p][k]]

\* Of finitely many things one has the highest number.
LEMMA HighestExists ==
    ASSUME NEW G, IsFiniteSet(G), G # {}, NEW w \in [G -> Nat]
    PROVE  \E s \in G : \A t \in G : w[t] <= w[s]
<1> DEFINE Above(s) == {t \in G : w[s] < w[t]}
           Counts == {Cardinality(Above(s)) : s \in G}
<1>1. \A s \in G : IsFiniteSet(Above(s)) /\ Cardinality(Above(s)) \in Nat /\ w[s] \in Nat
  BY FS_Subset, FS_CardinalityType
<1>2. PICK n \in Counts : \A m \in Counts : n <= m
  <2>1. Counts \subseteq Nat /\ Counts # {}
    BY <1>1
  <2> HIDE DEF Counts
  <2> QED
    BY <2>1, LeastNumber
<1>3. PICK s \in G : n = Cardinality(Above(s))
  OBVIOUS
<1>4. ASSUME NEW t \in G, w[s] < w[t] PROVE FALSE
  <2>1. Above(t) \subseteq Above(s) \ {t} /\ t \in Above(s)
    BY <1>1, <1>4
  <2>2. IsFiniteSet(Above(s) \ {t}) /\ Cardinality(Above(s) \ {t}) = Cardinality(Above(s)) - 1
    BY <1>1, <2>1, FS_RemoveElement
  <2>3. Cardinality(Above(t)) <= Cardinality(Above(s)) - 1
    BY <2>1, <2>2, FS_Subset
  <2>4. Cardinality(Above(t)) \in Counts
    OBVIOUS
  <2>5. Cardinality(Above(s)) <= Cardinality(Above(t))
    BY <1>2, <1>3, <2>4
  <2>6. Cardinality(Above(s)) \in Nat /\ Cardinality(Above(t)) \in Nat
    BY <1>1
  <2> HIDE DEF Above
  <2> QED
    BY <2>3, <2>5, <2>6
<1> QED
  BY <1>1, <1>4

\* What holds above whatever it holds for all children of holds everywhere.
LEMMA ForestInduction ==
    ASSUME NEW c, Forest(c), NEW S \in SUBSET Nodes(c),
           \A n \in Nodes(c) : (\A k \in DOMAIN c.kids[n] : c.kids[n][k] \in S) => n \in S
    PROVE  S = Nodes(c)
<1> SUFFICES ASSUME Nodes(c) \ S # {} PROVE FALSE
  OBVIOUS
<1>1. PICK depth \in [Nodes(c) -> Nat] :
         \A p \in Nodes(c) : \A k \in DOMAIN c.kids[p] : depth[p] < depth[c.kids[p][k]]
  BY DEF Forest
<1> DEFINE G == Nodes(c) \ S
           w == [n \in G |-> depth[n]]
<1>2. IsFiniteSet(G)
  <2>1. IsFiniteSet(Nodes(c))
    BY FS_AddElement DEF Nodes, Forest
  <2> QED
    BY <2>1, FS_Difference
<1>3. w \in [G -> Nat]
  OBVIOUS
<1>4. PICK s \in G : \A t \in G : w[t] <= w[s]
  <2> HIDE DEF G, w
  <2> QED
    BY <1>2, <1>3, HighestExists DEF G
<1>5. ASSUME NEW k \in DOMAIN c.kids[s] PROVE c.kids[s][k] \in S
  <2>1. c.kids[s] \in Seq(Components(c))
    BY DEF Forest
  <2>2. c.kids[s][k] \in Nodes(c)
    BY <2>1 DEF Nodes
  <2>3. depth[s] < depth[c.kids[s][k]] /\ depth[s] \in Nat /\ depth[c.kids[s][k]] \in Nat
    BY <1>1, <2>2
  <2>4. c.kids[s][k] \notin G
    BY <1>4, <2>3
  <2> QED
    BY <2>2, <2>4
<1> QED
  BY <1>5

\* What holds of the root and of the children of whatever it holds of holds
\* everywhere.
LEMMA ForestDescent ==
    ASSUME NEW c, Forest(c), NEW S \in SUBSET Nodes(c), Root \in S,
           \A n \in S : \A k \in DOMAIN c.kids[n] : c.kids[n][k] \in S
    PROVE  S = Nodes(c)
<1> SUFFICES ASSUME Nodes(c) \ S # {} PROVE FALSE
  OBVIOUS
<1>1. PICK depth \in [Nodes(c) -> Nat] :
         \A p \in Nodes(c) : \A k \in DOMAIN c.kids[p] : depth[p] < depth[c.kids[p][k]]
  BY DEF Forest
<1> DEFINE D == {depth[n] : n \in Nodes(c) \ S}
<1>2. PICK d \in D : \A e \in D : d <= e
  <2>1. D \subseteq Nat /\ D # {}
    OBVIOUS
  <2> HIDE DEF D
  <2> QED
    BY <2>1, LeastNumber
<1>3. PICK n \in Nodes(c) \ S : d = depth[n]
  OBVIOUS
<1>4. n \in Components(c)
  BY DEF Nodes
<1>5. PICK p \in Nodes(c) : \E k \in DOMAIN c.kids[p] : c.kids[p][k] = n
  BY <1>4 DEF Forest
<1>6. PICK k \in DOMAIN c.kids[p] : c.kids[p][k] = n
  BY <1>5
<1>7. p \notin S
  BY <1>6
<1>8. depth[p] < depth[n] /\ depth[p] \in Nat /\ depth[n] \in Nat
  BY <1>1, <1>6
<1>9. d <= depth[p]
  BY <1>2, <1>7
<1> QED
  BY <1>3, <1>8, <1>9

\* What DepthFirst computes at n when it is f at the children of n.
OrderAt(c, f, n, parentsFirst) ==
    LET below == FlattenSeq([k \in DOMAIN c.kids[n] |-> f[c.kids[n][k]]])
    IN  IF parentsFirst THEN <<n>> \o below ELSE Append(below, n)

\* What DepthFirst computes at a component follows from its children.
LEMMA DepthFirstEquation ==
    ASSUME NEW c, Forest(c), NEW parentsFirst
    PROVE  \E f : /\ f = [n \in DOMAIN c.kids |-> OrderAt(c, f, n, parentsFirst)]
                  /\ \A i : DepthFirst(c, i, parentsFirst) = f[i]
<1> DEFINE At(f, n) == LET below == FlattenSeq([k \in DOMAIN c.kids[n] |-> f[c.kids[n][k]]])
                       IN  IF parentsFirst THEN <<n>> \o below ELSE Append(below, n)
           Orders(S, f) == f = [n \in S |-> At(f, n)]
<1>1. PICK depth \in [Nodes(c) -> Nat] :
         \A p \in Nodes(c) : \A k \in DOMAIN c.kids[p] : depth[p] < depth[c.kids[p][k]]
  BY DEF Forest
<1>2. DOMAIN c.kids = Nodes(c) /\ \A n \in Nodes(c) : c.kids[n] \in Seq(Components(c))
  BY DEF Forest
<1>3. \A n \in Nodes(c) : \A k \in DOMAIN c.kids[n] : c.kids[n][k] \in Nodes(c)
  BY <1>2 DEF Nodes
<1>4. PICK last \in Nodes(c) : \A n \in Nodes(c) : depth[n] <= depth[last]
  <2>1. IsFiniteSet(Nodes(c)) /\ Nodes(c) # {}
    BY FS_AddElement DEF Nodes, Forest
  <2> QED
    BY <2>1, HighestExists
<1> DEFINE Layer(m) == {n \in Nodes(c) : depth[last] < depth[n] + m}
           Missing == {m \in Nat : ~\E f : Orders(Layer(m), f)}
<1>5. Missing = {}
  <2> SUFFICES ASSUME Missing # {} PROVE FALSE
    OBVIOUS
  <2>1. PICK m \in Missing : \A j \in Missing : m <= j
    <3>1. Missing \subseteq Nat
      OBVIOUS
    <3> HIDE DEF Missing
    <3> QED
      BY <3>1, LeastNumber
  <2>2. m \in Nat /\ ~\E f : Orders(Layer(m), f)
    OBVIOUS
  <2>3. CASE m = 0
    <3>1. Layer(0) = {}
      <4>1. ASSUME NEW n \in Nodes(c) PROVE ~(depth[last] < depth[n] + 0)
        <5>1. depth[n] \in Nat /\ depth[last] \in Nat /\ depth[n] <= depth[last]
          BY <1>4
        <5> HIDE DEF Missing
        <5> QED
          BY <5>1
      <4> QED
        BY <4>1
    <3> DEFINE g == [n \in {} |-> n]
    <3>2. g = [n \in {} |-> At(g, n)]
      OBVIOUS
    <3>3. Orders(Layer(0), g)
      BY <3>1, <3>2
    <3> HIDE DEF Orders, Layer
    <3> QED
      BY <2>2, <2>3, <3>3
  <2>4. CASE m # 0
    <3>1. m - 1 \in Nat /\ m - 1 \notin Missing
      <4> HIDE DEF Missing
      <4> QED
        BY <2>1, <2>2, <2>4
    <3>2. PICK f : Orders(Layer(m - 1), f)
      BY <3>1
    <3> DEFINE g == [n \in Layer(m) |-> At(f, n)]
    <3>3. ASSUME NEW n \in Layer(m), NEW k \in DOMAIN c.kids[n] PROVE c.kids[n][k] \in Layer(m - 1)
      <4>1. c.kids[n][k] \in Nodes(c) /\ depth[n] < depth[c.kids[n][k]]
        BY <1>1, <1>3
      <4> DEFINE x == c.kids[n][k]
      <4>2. /\ depth[n] \in Nat /\ depth[x] \in Nat /\ depth[last] \in Nat
            /\ depth[last] < depth[n] + m /\ depth[n] < depth[x]
        BY <4>1
      <4>3. depth[last] < depth[x] + (m - 1)
        <5> HIDE DEF x, Missing
        <5> QED
          BY <2>2, <4>2
      <4> QED
        BY <4>1, <4>3
    <3>4. ASSUME NEW n \in Layer(m - 1) PROVE n \in Layer(m) /\ g[n] = f[n]
      <4>1. n \in Layer(m)
        <5>1. depth[n] \in Nat /\ depth[last] \in Nat /\ depth[last] < depth[n] + (m - 1) /\ m \in Nat
          OBVIOUS
        <5>2. depth[last] < depth[n] + m
          <6> HIDE DEF At, Orders, Layer, Missing, g
          <6> QED
            BY <5>1
        <5> QED
          BY <5>2
      <4>2. f[n] = At(f, n)
        BY <3>2
      <4> HIDE DEF At, Layer
      <4> QED
        BY <4>1, <4>2
    <3>5. ASSUME NEW n \in Layer(m) PROVE At(f, n) = At(g, n)
      <4>1. \A k \in DOMAIN c.kids[n] : f[c.kids[n][k]] = g[c.kids[n][k]]
        <5> HIDE DEF Layer, g
        <5> QED
          BY <3>3, <3>4
      <4> HIDE DEF g
      <4>2. [k \in DOMAIN c.kids[n] |-> f[c.kids[n][k]]] = [k \in DOMAIN c.kids[n] |-> g[c.kids[n][k]]]
        BY <4>1
      <4> QED
        BY <4>2
    <3>6. Orders(Layer(m), g)
      <4> HIDE DEF At, Layer
      <4> QED
        BY <3>5
    <3> HIDE DEF Orders, Layer
    <3> QED
      BY <2>2, <3>6
  <2> QED
    BY <2>3, <2>4
<1>6. Layer(depth[last] + 1) = Nodes(c)
  BY <1>4
<1>7. \E f : Orders(Nodes(c), f)
  <2>1. depth[last] + 1 \notin Missing
    BY <1>5
  <2>2. depth[last] + 1 \in Nat
    OBVIOUS
  <2>3. \E f : Orders(Layer(depth[last] + 1), f)
    <3> HIDE DEF Orders, Layer
    <3> QED
      BY <2>1, <2>2
  <2> HIDE DEF Orders, Layer
  <2> QED
    BY <1>6, <2>3
<1>8. \A i : DepthFirst(c, i, parentsFirst) = (CHOOSE f : Orders(DOMAIN c.kids, f))[i]
  BY DEF DepthFirst
<1> DEFINE f == CHOOSE f : Orders(DOMAIN c.kids, f)
<1>9. Orders(DOMAIN c.kids, f)
  <2> HIDE DEF Orders
  <2> QED
    BY <1>2, <1>7
<1>10. \A i : DepthFirst(c, i, parentsFirst) = f[i]
  BY <1>8
<1> HIDE DEF f
<1> QED
  BY <1>9, <1>10 DEF OrderAt

\* X is i and everything below it.
IsSubtree(c, i, X) ==
    /\ X \subseteq Nodes(c) /\ i \in X
    /\ \A x \in X : \A k \in DOMAIN c.kids[x] : c.kids[x][k] \in X
    /\ \A x \in X : x = i \/ \E y \in X : \E k \in DOMAIN c.kids[y] : c.kids[y][k] = x

\* There is only one such set.
LEMMA SubtreeUnique ==
    ASSUME NEW c, Forest(c), NEW i, NEW X, NEW Y, IsSubtree(c, i, X), IsSubtree(c, i, Y)
    PROVE  X = Y
<1>1. PICK depth \in [Nodes(c) -> Nat] :
         \A p \in Nodes(c) : \A k \in DOMAIN c.kids[p] : depth[p] < depth[c.kids[p][k]]
  BY DEF Forest
<1>2. ASSUME NEW U, NEW V, IsSubtree(c, i, U), IsSubtree(c, i, V), U \ V # {} PROVE FALSE
  <2> DEFINE D == {depth[n] : n \in U \ V}
  <2>0. U \subseteq Nodes(c)
    BY <1>2 DEF IsSubtree
  <2>1. PICK d \in D : \A e \in D : d <= e
    <3>1. D \subseteq Nat /\ D # {}
      BY <1>2, <2>0
    <3> HIDE DEF D
    <3> QED
      BY <3>1, LeastNumber
  <2>2. PICK x \in U \ V : d = depth[x]
    OBVIOUS
  <2>3. x # i
    BY <1>2 DEF IsSubtree
  <2>4. PICK y \in U : \E k \in DOMAIN c.kids[y] : c.kids[y][k] = x
    BY <1>2, <2>3 DEF IsSubtree
  <2>5. y \notin V
    BY <1>2, <2>4 DEF IsSubtree
  <2>6. depth[y] < depth[x] /\ depth[y] \in Nat /\ depth[x] \in Nat
    BY <1>1, <2>0, <2>4
  <2>7. d <= depth[y]
    BY <2>1, <2>5
  <2> QED
    BY <2>2, <2>6, <2>7
<1> QED
  BY <1>2

\* The subtree of the root is everything.
LEMMA RootSubtree == ASSUME NEW c, Forest(c) PROVE IsSubtree(c, Root, Nodes(c))
<1>1. Root \in Nodes(c) /\ \A n \in Nodes(c) : c.kids[n] \in Seq(Components(c))
  BY DEF Nodes, Forest
<1>2. \A n \in Nodes(c) : \A k \in DOMAIN c.kids[n] : c.kids[n][k] \in Nodes(c)
  BY <1>1 DEF Nodes
<1>3. \A x \in Nodes(c) : x = Root \/ \E y \in Nodes(c) : \E k \in DOMAIN c.kids[y] : c.kids[y][k] = x
  BY DEF Nodes, Forest
<1> QED
  BY <1>1, <1>2, <1>3 DEF IsSubtree

\* Only the subtree of the root has the root.
LEMMA RootOnTop ==
    ASSUME NEW c, Forest(c), NEW i, NEW X, IsSubtree(c, i, X), Root \in X PROVE i = Root
<1> SUFFICES ASSUME i # Root PROVE FALSE
  OBVIOUS
<1>1. PICK y \in X : \E k \in DOMAIN c.kids[y] : c.kids[y][k] = Root
  BY DEF IsSubtree
<1>2. y \in Nodes(c) /\ Components(c) \subseteq Nat
  BY DEF IsSubtree, Forest
<1>3. c.kids[y] \in Seq(Components(c))
  BY <1>2 DEF Forest
<1>4. Root \in Components(c)
  BY <1>1, <1>3
<1> QED
  BY <1>2, <1>4 DEF Root

\* DepthFirst goes through i and everything below it once, parents before or
\* after their children.
LEMMA DepthFirstFacts ==
    ASSUME NEW c, Forest(c), NEW i \in Nodes(c), NEW parentsFirst \in BOOLEAN
    PROVE  /\ DepthFirst(c, i, parentsFirst) \in Seq(Nodes(c))
           /\ NoRepeat(DepthFirst(c, i, parentsFirst))
           /\ IsSubtree(c, i, Range(DepthFirst(c, i, parentsFirst)))
           /\ parentsFirst => /\ Onward(c.kids, DepthFirst(c, i, parentsFirst))
                              /\ Len(DepthFirst(c, i, parentsFirst)) # 0
                              /\ DepthFirst(c, i, parentsFirst)[1] = i
<1> DEFINE N == Nodes(c)
           kids == c.kids
<1>1. PICK f : /\ f = [n \in DOMAIN c.kids |-> OrderAt(c, f, n, parentsFirst)]
               /\ \A n : DepthFirst(c, n, parentsFirst) = f[n]
  BY DepthFirstEquation
<1>2. PICK depth \in [N -> Nat] :
         \A p \in N : \A k \in DOMAIN kids[p] : depth[p] < depth[kids[p][k]]
  BY DEF Forest
<1>3. DOMAIN kids = N /\ \A n \in N : kids[n] \in Seq(Components(c))
  BY DEF Forest
<1>4. \A n \in N : \A k \in DOMAIN kids[n] : kids[n][k] \in N
  BY <1>3 DEF Nodes
<1>5. \A p, q \in N : \A j \in DOMAIN kids[p], k \in DOMAIN kids[q] :
         kids[p][j] = kids[q][k] => p = q /\ j = k
  BY DEF Forest
<1> DEFINE R(n) == Range(f[n])
           ss(n) == [k \in DOMAIN kids[n] |-> f[kids[n][k]]]
           Shape(n) == f[n] \in Seq(N) /\ IsSubtree(c, n, R(n)) /\ \A x \in R(n) : depth[n] <= depth[x]
           Good(n) == Shape(n) /\ NoRepeat(f[n]) /\ (parentsFirst => Onward(kids, f[n]))
<1>6. ASSUME NEW n \in N
      PROVE  f[n] = IF parentsFirst THEN <<n>> \o FlattenSeq(ss(n)) ELSE Append(FlattenSeq(ss(n)), n)
  <2>1. f[n] = OrderAt(c, f, n, parentsFirst)
    BY <1>1, <1>3
  <2> QED
    BY <2>1 DEF OrderAt
<1> HIDE DEF N, kids
\* The subtrees of two children have nothing in common.
<1>7. ASSUME NEW n \in N, NEW j \in DOMAIN kids[n], NEW k \in DOMAIN kids[n], j # k,
             Shape(kids[n][j]), Shape(kids[n][k])
      PROVE  R(kids[n][j]) \cap R(kids[n][k]) = {}
  <2> DEFINE a == kids[n][j]
             b == kids[n][k]
             X == R(a) \cap R(b)
             D == {depth[x] : x \in X}
  <2> SUFFICES ASSUME X # {} PROVE FALSE
    OBVIOUS
  <2>0. X \subseteq N /\ a \in N /\ b \in N
    BY <1>4, <1>7 DEF IsSubtree, N
  <2>1. PICK d \in D : \A e \in D : d <= e
    <3>1. D \subseteq Nat /\ D # {}
      BY <2>0
    <3> HIDE DEF D
    <3> QED
      BY <3>1, LeastNumber
  <2>2. PICK x \in X : d = depth[x]
    OBVIOUS
  <2>3. ASSUME NEW u \in DOMAIN kids[n], NEW v \in DOMAIN kids[n], u # v,
               Shape(kids[n][v]), kids[n][u] \in R(kids[n][v])
        PROVE  FALSE
    <3>1. kids[n][u] # kids[n][v]
      BY <1>5, <2>3
    <3>2. PICK y \in R(kids[n][v]) : \E m \in DOMAIN kids[y] : kids[y][m] = kids[n][u]
      BY <2>3, <3>1 DEF IsSubtree, kids
    <3>3. y \in N
      BY <2>3, <3>2 DEF IsSubtree, N
    <3>4. y = n
      BY <1>5, <3>2, <3>3
    <3>5. depth[kids[n][v]] <= depth[n]
      BY <2>3, <3>2, <3>4
    <3>6. depth[n] < depth[kids[n][v]] /\ depth[n] \in Nat /\ depth[kids[n][v]] \in Nat
      BY <1>2, <1>4
    <3> QED
      BY <3>5, <3>6
  <2>4. x # a /\ x # b
    BY <1>7, <2>2, <2>3
  <2>5. PICK y \in R(a) : \E m \in DOMAIN kids[y] : kids[y][m] = x
    BY <1>7, <2>2, <2>4 DEF IsSubtree, kids
  <2>6. PICK z \in R(b) : \E m \in DOMAIN kids[z] : kids[z][m] = x
    BY <1>7, <2>2, <2>4 DEF IsSubtree, kids
  <2>7. y \in N /\ z \in N
    BY <1>7, <2>5, <2>6 DEF IsSubtree, N
  <2>8. y = z
    BY <1>5, <2>5, <2>6, <2>7
  <2>9. depth[y] < depth[x] /\ depth[y] \in Nat /\ depth[x] \in Nat
    BY <1>2, <2>0, <2>5, <2>7
  <2>10. d <= depth[y]
    BY <2>1, <2>5, <2>6, <2>8
  <2> QED
    BY <2>2, <2>9, <2>10
<1>8. ASSUME NEW n \in N, \A k \in DOMAIN kids[n] : Good(kids[n][k]) PROVE Good(n)
  <2> DEFINE below == FlattenSeq(ss(n))
  <2>1. ss(n) \in Seq(Seq(N)) /\ DOMAIN ss(n) = DOMAIN kids[n]
        /\ \A k \in DOMAIN kids[n] : ss(n)[k] = f[kids[n][k]]
    BY <1>3, <1>8
  <2>2. /\ below \in Seq(N)
        /\ Range(below) = UNION {R(kids[n][k]) : k \in DOMAIN kids[n]}
        /\ NoRepeat(below)
        /\ parentsFirst => Onward(kids, below)
    <3>1. \A k \in DOMAIN ss(n) : NoRepeat(ss(n)[k]) /\ (parentsFirst => Onward(kids, ss(n)[k]))
      BY <1>8, <2>1
    <3>2. \A j, k \in DOMAIN ss(n) : j # k => Range(ss(n)[j]) \cap Range(ss(n)[k]) = {}
      BY <1>7, <1>8, <2>1
    <3>3. UNION {Range(ss(n)[k]) : k \in DOMAIN ss(n)} = UNION {R(kids[n][k]) : k \in DOMAIN kids[n]}
      BY <2>1
    <3> HIDE DEF ss
    <3> QED
      BY <2>1, <3>1, <3>2, <3>3, FlattenFacts
  <2> HIDE DEF below
  <2>3. ASSUME NEW x \in Range(below)
        PROVE  /\ x \in N /\ depth[n] < depth[x]
               /\ \A k \in DOMAIN kids[x] : kids[x][k] \in Range(below)
               /\ \/ \E k \in DOMAIN kids[n] : kids[n][k] = x
                  \/ \E y \in Range(below) : \E k \in DOMAIN kids[y] : kids[y][k] = x
    <3>1. PICK k \in DOMAIN kids[n] : x \in R(kids[n][k])
      BY <2>2
    <3>2. Shape(kids[n][k])
      BY <1>8
    <3>3. R(kids[n][k]) \subseteq Range(below)
      BY <2>2
    <3>4. x \in N /\ \A m \in DOMAIN kids[x] : kids[x][m] \in R(kids[n][k])
      BY <3>1, <3>2 DEF IsSubtree, N, kids
    <3>5. depth[kids[n][k]] <= depth[x] /\ depth[n] < depth[kids[n][k]]
          /\ depth[n] \in Nat /\ depth[x] \in Nat /\ depth[kids[n][k]] \in Nat
      BY <1>2, <1>4, <3>1, <3>2, <3>4
    <3>6. x = kids[n][k] \/ \E y \in R(kids[n][k]) : \E m \in DOMAIN kids[y] : kids[y][m] = x
      BY <3>1, <3>2 DEF IsSubtree, kids
    <3>7. depth[n] < depth[x]
      BY <3>5
    <3> QED
      BY <3>3, <3>4, <3>6, <3>7
  <2>4. ASSUME NEW k \in DOMAIN kids[n] PROVE kids[n][k] \in Range(below)
    <3>1. kids[n][k] \in R(kids[n][k])
      BY <1>8 DEF IsSubtree
    <3> QED
      BY <2>2, <3>1
  <2>5. n \notin Range(below)
    <3>1. ~(depth[n] < depth[n])
      BY <1>2
    <3> QED
      BY <2>3, <3>1
  <2>6. <<n>> \in Seq(N) /\ Range(<<n>>) = {n} /\ NoRepeat(<<n>>)
    BY DEF Range, NoRepeat
  <2>7. /\ f[n] \in Seq(N) /\ R(n) = {n} \cup Range(below) /\ NoRepeat(f[n])
        /\ parentsFirst => f[n] = <<n>> \o below
    <3>1. CASE parentsFirst
      <4>1. f[n] = <<n>> \o below
        BY <1>6, <3>1 DEF below
      <4>2. /\ <<n>> \o below \in Seq(N) /\ Range(<<n>> \o below) = Range(<<n>>) \cup Range(below)
            /\ NoRepeat(<<n>>) /\ NoRepeat(below) /\ Range(<<n>>) \cap Range(below) = {}
               => NoRepeat(<<n>> \o below)
        <5> DEFINE u == <<n>>
        <5>1. u \in Seq(N)
          BY <2>6
        <5> HIDE DEF u
        <5>2. /\ u \o below \in Seq(N) /\ Range(u \o below) = Range(u) \cup Range(below)
              /\ NoRepeat(u) /\ NoRepeat(below) /\ Range(u) \cap Range(below) = {}
                 => NoRepeat(u \o below)
          BY <2>2, <5>1, JoinFacts
        <5> QED
          BY <5>2 DEF u
      <4> QED
        BY <2>2, <2>5, <2>6, <4>1, <4>2
    <3>2. CASE ~parentsFirst
      <4>1. f[n] = below \o <<n>>
        <5>1. Append(below, n) = below \o <<n>>
          BY <2>2
        <5> QED
          BY <1>6, <3>2, <5>1 DEF below
      <4>2. /\ below \o <<n>> \in Seq(N) /\ Range(below \o <<n>>) = Range(below) \cup Range(<<n>>)
            /\ NoRepeat(below) /\ NoRepeat(<<n>>) /\ Range(below) \cap Range(<<n>>) = {}
               => NoRepeat(below \o <<n>>)
        <5> DEFINE u == <<n>>
        <5>1. u \in Seq(N)
          BY <2>6
        <5> HIDE DEF u
        <5>2. /\ below \o u \in Seq(N) /\ Range(below \o u) = Range(below) \cup Range(u)
              /\ NoRepeat(below) /\ NoRepeat(u) /\ Range(below) \cap Range(u) = {}
                 => NoRepeat(below \o u)
          <6>1. below \in Seq(N)
            BY <2>2
          <6> QED
            BY <5>1, <6>1, JoinFacts
        <5> QED
          BY <5>2 DEF u
      <4> QED
        BY <2>2, <2>5, <2>6, <3>2, <4>1, <4>2
    <3> QED
      BY <3>1, <3>2
  <2>8. IsSubtree(c, n, R(n))
    <3>1. R(n) \subseteq N /\ n \in R(n)
      BY <2>3, <2>7
    <3>2. \A x \in R(n) : \A k \in DOMAIN kids[x] : kids[x][k] \in R(n)
      BY <2>3, <2>4, <2>7
    <3>3. \A x \in R(n) : x = n \/ \E y \in R(n) : \E k \in DOMAIN kids[y] : kids[y][k] = x
      BY <2>3, <2>7
    <3> QED
      BY <3>1, <3>2, <3>3 DEF IsSubtree, N, kids
  <2>9. \A x \in R(n) : depth[n] <= depth[x]
    <3>1. \A x \in N : depth[x] \in Nat
      OBVIOUS
    <3>2. ASSUME NEW x \in R(n) PROVE depth[n] <= depth[x]
      <4>1. CASE x = n
        BY <3>1, <4>1
      <4>2. CASE x \in Range(below)
        BY <2>3, <3>1, <4>2
      <4> QED
        BY <2>7, <4>1, <4>2
    <3> QED
      BY <3>2
  <2>10. ASSUME parentsFirst PROVE Onward(kids, f[n])
    <3>1. f[n] = <<n>> \o below /\ Len(below) \in Nat /\ DOMAIN below = 1 .. Len(below)
      BY <2>2, <2>7, <2>10
    <3>2. DOMAIN f[n] = 1 .. Len(below) + 1 /\ f[n][1] = n
          /\ \A a \in 1 .. Len(below) : f[n][a + 1] = below[a]
      BY <2>2, <3>1
    <3> SUFFICES ASSUME NEW b \in DOMAIN f[n], NEW k \in DOMAIN kids[f[n][b]]
                 PROVE  \E a \in DOMAIN f[n] : b < a /\ f[n][a] = kids[f[n][b]][k]
      BY DEF Onward
    <3>3. CASE b = 1
      <4>1. kids[n][k] \in Range(below)
        BY <2>4, <3>2, <3>3
      <4>2. PICK a \in DOMAIN below : below[a] = kids[n][k]
        BY <4>1 DEF Range
      <4>3. a + 1 \in DOMAIN f[n] /\ 1 < a + 1 /\ f[n][a + 1] = kids[n][k]
        BY <3>1, <3>2, <4>2
      <4> QED
        BY <3>2, <3>3, <4>3
    <3>4. CASE b # 1
      <4>1. b - 1 \in DOMAIN below /\ f[n][b] = below[b - 1]
        <5>1. b - 1 \in 1 .. Len(below) /\ (b - 1) + 1 = b
          BY <3>1, <3>2, <3>4
        <5> QED
          BY <3>1, <3>2, <5>1
      <4>2. PICK a \in DOMAIN below : b - 1 < a /\ below[a] = kids[below[b - 1]][k]
        BY <2>2, <2>10, <4>1 DEF Onward
      <4>3. a + 1 \in DOMAIN f[n] /\ b < a + 1 /\ f[n][a + 1] = below[a]
        BY <3>1, <3>2, <4>2
      <4> QED
        BY <4>1, <4>2, <4>3
    <3> QED
      BY <3>3, <3>4
  <2> QED
    BY <2>7, <2>8, <2>9, <2>10
<1>9. \A n \in N : Good(n)
  <2> DEFINE S == {n \in N : Good(n)}
  <2>1. S \in SUBSET Nodes(c)
    BY DEF N
  <2>2. \A n \in Nodes(c) : (\A k \in DOMAIN c.kids[n] : c.kids[n][k] \in S) => n \in S
    <3>1. ASSUME NEW n \in N, \A k \in DOMAIN kids[n] : kids[n][k] \in S PROVE n \in S
      BY <1>8, <3>1
    <3> HIDE DEF S
    <3> QED
      BY <3>1 DEF N, kids
  <2>3. S = Nodes(c)
    <3> HIDE DEF S
    <3> QED
      BY <2>1, <2>2, ForestInduction
  <2> QED
    BY <2>3 DEF N
<1>10. Good(i)
  BY <1>9 DEF N
<1>11. DepthFirst(c, i, parentsFirst) = f[i]
  BY <1>1
<1>12. ASSUME parentsFirst PROVE Len(f[i]) # 0 /\ f[i][1] = i
  <2>1. i \in N /\ ss(i) \in Seq(Seq(N))
    <3>1. i \in N /\ kids[i] \in Seq(Components(c))
      BY <1>3 DEF N
    <3>2. \A k \in DOMAIN kids[i] : f[kids[i][k]] \in Seq(N)
      BY <1>4, <1>9, <3>1
    <3> QED
      BY <3>1, <3>2
  <2>2. FlattenSeq(ss(i)) \in Seq(N)
    <3> HIDE DEF ss
    <3> QED
      BY <2>1, FlattenFacts
  <2>3. f[i] = <<i>> \o FlattenSeq(ss(i))
    BY <1>6, <1>12, <2>1
  <2> HIDE DEF ss
  <2> QED
    BY <2>1, <2>2, <2>3
<1> QED
  BY <1>10, <1>11, <1>12 DEF N, kids

\* Subtree(c, i) is i and everything below it; PreOrder and PostOrder go
\* through it.
LEMMA SubtreeFacts ==
    ASSUME NEW c, Forest(c), NEW i \in Nodes(c)
    PROVE  /\ IsSubtree(c, i, Subtree(c, i))
           /\ PreOrder(c, i) \in Seq(Nodes(c)) /\ NoRepeat(PreOrder(c, i))
           /\ Range(PreOrder(c, i)) = Subtree(c, i)
           /\ Onward(c.kids, PreOrder(c, i))
           /\ Len(PreOrder(c, i)) # 0 /\ PreOrder(c, i)[1] = i
           /\ PostOrder(c, i) \in Seq(Nodes(c)) /\ NoRepeat(PostOrder(c, i))
           /\ Range(PostOrder(c, i)) = Subtree(c, i)
           /\ i # Root => Root \notin Subtree(c, i)
<1> DEFINE s == DepthFirst(c, i, TRUE)
           t == DepthFirst(c, i, FALSE)
<1>1. /\ s \in Seq(Nodes(c)) /\ NoRepeat(s) /\ IsSubtree(c, i, Range(s))
      /\ Onward(c.kids, s) /\ Len(s) # 0 /\ s[1] = i
  BY DepthFirstFacts
<1>2. t \in Seq(Nodes(c)) /\ NoRepeat(t) /\ IsSubtree(c, i, Range(t))
  BY DepthFirstFacts
<1>3. Subtree(c, i) = Range(s)
  BY DEF Subtree, PreOrder, ToSet, Range
<1>4. Range(t) = Range(s)
  BY <1>1, <1>2, SubtreeUnique
<1>5. i # Root => Root \notin Range(s)
  BY <1>1, RootOnTop
<1> QED
  BY <1>1, <1>2, <1>3, <1>4, <1>5 DEF PreOrder, PostOrder

\* All goes through the components, each once and parents first.
LEMMA AllFacts ==
    ASSUME NEW c, Forest(c)
    PROVE  /\ All(c) \in Seq(Components(c)) /\ NoRepeat(All(c))
           /\ Range(All(c)) = Components(c)
           /\ Onward(c.kids, All(c))
<1> DEFINE s == PreOrder(c, Root)
           t == Tail(s)
<1>0. Root \in Nodes(c) /\ Components(c) = Nodes(c) \ {Root}
  BY DEF Nodes, Forest, Root
<1>1. /\ s \in Seq(Nodes(c)) /\ NoRepeat(s) /\ Range(s) = Subtree(c, Root)
      /\ Onward(c.kids, s) /\ Len(s) # 0 /\ s[1] = Root /\ IsSubtree(c, Root, Subtree(c, Root))
  BY <1>0, SubtreeFacts
<1>2. Range(s) = Nodes(c)
  BY <1>1, RootSubtree, SubtreeUnique
<1> HIDE DEF s
<1>3. /\ Len(s) \in Nat /\ DOMAIN s = 1 .. Len(s)
      /\ DOMAIN t = 1 .. Len(s) - 1 /\ t \in Seq(Nodes(c)) /\ Len(t) = Len(s) - 1
      /\ \A k \in 1 .. Len(s) - 1 : t[k] = s[k + 1]
  BY <1>1
<1> HIDE DEF t
<1>4. NoRepeat(t)
  <2> SUFFICES ASSUME NEW j \in DOMAIN t, NEW k \in DOMAIN t, t[j] = t[k] PROVE j = k
    BY DEF NoRepeat
  <2>1. j + 1 \in DOMAIN s /\ k + 1 \in DOMAIN s /\ s[j + 1] = s[k + 1]
    BY <1>3
  <2>2. j + 1 = k + 1
    BY <1>1, <2>1 DEF NoRepeat
  <2> QED
    BY <1>3, <2>2
<1>5. ASSUME NEW x PROVE x \in Range(t) <=> x \in Components(c)
  <2>1. ASSUME x \in Range(t) PROVE x \in Components(c)
    <3>1. PICK k \in DOMAIN t : x = t[k]
      BY <2>1 DEF Range
    <3>2. k + 1 \in DOMAIN s /\ 1 \in DOMAIN s /\ k + 1 # 1 /\ x = s[k + 1]
      BY <1>3, <3>1
    <3>3. x # Root
      BY <1>1, <3>2 DEF NoRepeat
    <3> QED
      BY <1>0, <1>2, <3>2, <3>3 DEF Range
  <2>2. ASSUME x \in Components(c) PROVE x \in Range(t)
    <3>1. x \in Range(s) /\ x # Root
      BY <1>0, <1>2, <2>2
    <3>2. PICK k \in DOMAIN s : x = s[k]
      BY <3>1 DEF Range
    <3>3. k - 1 \in DOMAIN t /\ (k - 1) + 1 = k
      BY <1>1, <1>3, <3>1, <3>2
    <3>4. t[k - 1] = x
      BY <1>3, <3>2, <3>3
    <3> QED
      BY <3>3, <3>4 DEF Range
  <2> QED
    BY <2>1, <2>2
<1>6. t \in Seq(Components(c))
  <2>1. \A k \in 1 .. Len(t) : t[k] \in Components(c)
    BY <1>3, <1>5 DEF Range
  <2>2. Len(t) \in Nat /\ t = [k \in 1 .. Len(t) |-> t[k]]
    BY <1>3
  <2> QED
    BY <2>1, <2>2
<1>7. Onward(c.kids, t)
  <2> SUFFICES ASSUME NEW b \in DOMAIN t, NEW k \in DOMAIN c.kids[t[b]]
               PROVE  \E a \in DOMAIN t : b < a /\ t[a] = c.kids[t[b]][k]
    BY DEF Onward
  <2>1. b + 1 \in DOMAIN s /\ t[b] = s[b + 1]
    BY <1>3
  <2>2. PICK a \in DOMAIN s : b + 1 < a /\ s[a] = c.kids[s[b + 1]][k]
    BY <1>1, <2>1 DEF Onward
  <2>3. a - 1 \in DOMAIN t /\ b < a - 1 /\ (a - 1) + 1 = a
    BY <1>3, <2>2
  <2>4. t[a - 1] = s[a]
    BY <1>3, <2>3
  <2> QED
    BY <2>1, <2>2, <2>3, <2>4
<1> QED
  BY <1>4, <1>5, <1>6, <1>7 DEF All, s, t

-----------------------------------------------------------------------------
(* Subtrees outside of a context                                           *)

Entry == [suid : SUID \cup {NoSUID}, data : Data, parent : Nat]

\* Parents come first.
EntriesOK(es) == es \in Seq(Entry) /\ \A k \in DOMAIN es : es[k].parent < k

\* No two have one serial identifier.
EntriesApart(es) ==
    \A j, k \in DOMAIN es : es[j].suid = es[k].suid => j = k \/ es[j].suid = NoSUID

SUIDsApart(c) ==
    \A i, j \in Components(c) : c.node[i].suid = c.node[j].suid => i = j \/ c.node[i].suid = NoSUID

\* The entries of components that are followed by their children.
LEMMA EntriesFacts ==
    ASSUME NEW c, Forest(c), NEW s \in Seq(Components(c)), NoRepeat(s), Onward(c.kids, s)
    PROVE  /\ EntriesOK(Entries(c, s)) /\ Len(Entries(c, s)) = Len(s)
           /\ SUIDsApart(c) => EntriesApart(Entries(c, s))
           /\ EntrySUIDs(Entries(c, s)) = SUIDsOf(c, Range(s))
           /\ \A k \in DOMAIN s : /\ Entries(c, s)[k].suid = c.node[s[k]].suid
                                  /\ Entries(c, s)[k].data = c.node[s[k]].data
           /\ \A k \in DOMAIN s : \/ /\ Entries(c, s)[k].parent = 0
                                     /\ \A j \in DOMAIN s : s[k] \notin Range(c.kids[s[j]])
                                  \/ /\ Entries(c, s)[k].parent \in DOMAIN s
                                     /\ s[k] \in Range(c.kids[s[Entries(c, s)[k].parent]])
<1> DEFINE es == Entries(c, s)
           Above(k) == {j \in DOMAIN s : s[k] \in Range(c.kids[s[j]])}
           up(k) == IF Above(k) = {} THEN 0 ELSE CHOOSE j \in Above(k) : TRUE
<1>0. Len(s) \in Nat /\ DOMAIN s = 1 .. Len(s) /\ \A k \in DOMAIN s : s[k] \in Components(c)
  OBVIOUS
<1>1. es = [k \in DOMAIN s |-> [suid |-> c.node[s[k]].suid, data |-> c.node[s[k]].data, parent |-> up(k)]]
  BY DEF Entries
<1>2. ASSUME NEW k \in DOMAIN s
      PROVE  /\ up(k) \in Nat /\ up(k) < k
             /\ \/ up(k) = 0 /\ \A j \in DOMAIN s : s[k] \notin Range(c.kids[s[j]])
                \/ up(k) \in DOMAIN s /\ s[k] \in Range(c.kids[s[up(k)]])
  <2>1. CASE Above(k) = {}
    BY <1>0, <2>1
  <2>2. CASE Above(k) # {}
    <3>1. up(k) \in Above(k)
      BY <2>2
    <3>2. PICK j \in DOMAIN s : up(k) = j /\ s[k] \in Range(c.kids[s[j]])
      BY <3>1
    <3>3. PICK m \in DOMAIN c.kids[s[j]] : c.kids[s[j]][m] = s[k]
      BY <3>2 DEF Range
    <3>4. PICK a \in DOMAIN s : j < a /\ s[a] = s[k]
      BY <3>3 DEF Onward
    <3>5. a = k
      BY <3>4 DEF NoRepeat
    <3> HIDE DEF up
    <3> QED
      BY <1>0, <3>2, <3>4, <3>5
  <2> QED
    BY <2>1, <2>2
<1> HIDE DEF up
<1>3. ASSUME NEW k \in DOMAIN s
      PROVE  /\ es[k] \in Entry /\ es[k].parent < k
             /\ es[k].suid = c.node[s[k]].suid /\ es[k].data = c.node[s[k]].data
             /\ es[k].parent = up(k)
  <2>1. c.node[s[k]] \in ComponentData
    BY <1>0 DEF Forest
  <2>2. es[k] = [suid |-> c.node[s[k]].suid, data |-> c.node[s[k]].data, parent |-> up(k)]
    BY <1>1
  <2> HIDE DEF es
  <2> QED
    BY <1>2, <2>1, <2>2 DEF Entry, ComponentData
<1>4. DOMAIN es = DOMAIN s /\ es = [k \in 1 .. Len(s) |-> es[k]]
  BY <1>0, <1>1
<1> HIDE DEF es
<1>5. es \in Seq(Entry) /\ Len(es) = Len(s)
  BY <1>0, <1>3, <1>4
<1>6. EntriesOK(es)
  BY <1>3, <1>4, <1>5 DEF EntriesOK
<1>7. SUIDsApart(c) => EntriesApart(es)
  BY <1>0, <1>3, <1>4 DEF SUIDsApart, EntriesApart, NoRepeat
<1>8. EntrySUIDs(es) = SUIDsOf(c, Range(s))
  <2>1. {es[k].suid : k \in DOMAIN es} = {c.node[i].suid : i \in Range(s)}
    <3>1. ASSUME NEW k \in DOMAIN es PROVE \E i \in Range(s) : es[k].suid = c.node[i].suid
      <4>1. k \in DOMAIN s /\ es[k].suid = c.node[s[k]].suid
        BY <1>3, <1>4
      <4> QED
        BY <4>1 DEF Range
    <3>2. ASSUME NEW i \in Range(s) PROVE \E k \in DOMAIN es : es[k].suid = c.node[i].suid
      <4>1. PICK k \in DOMAIN s : i = s[k]
        BY DEF Range
      <4> QED
        BY <1>3, <1>4, <4>1
    <3> QED
      BY <3>1, <3>2
  <2> QED
    BY <2>1 DEF EntrySUIDs, SUIDsOf
<1> QED
  BY <1>2, <1>3, <1>5, <1>6, <1>7, <1>8 DEF es

\* The same in terms of who is in which list.
ByLists(d) ==
    /\ \A n \in Nodes(d) : NoRepeat(d.kids[n])
    /\ \A m, n \in Nodes(d) : \A x \in Range(d.kids[m]) : x \in Range(d.kids[n]) => m = n
    /\ \A i \in Components(d) : \E n \in Nodes(d) : i \in Range(d.kids[n])
    /\ \E depth \in [Nodes(d) -> Nat] :
          \A n \in Nodes(d) : \A x \in Range(d.kids[n]) : depth[n] < depth[x]

Shaped(d) ==
    /\ d = [node |-> d.node, kids |-> d.kids, suids |-> d.suids]
    /\ IsFiniteSet(Components(d)) /\ Components(d) \subseteq Nat
    /\ d.node \in [Components(d) -> ComponentData]
    /\ d.kids \in [Nodes(d) -> Seq(Components(d))]

\* A forest is one in those terms, and the other way round.
LEMMA ForestByLists == ASSUME NEW c PROVE Forest(c) <=> Shaped(c) /\ ByLists(c)
<1>1. ASSUME Forest(c) PROVE Shaped(c) /\ ByLists(c)
  <2>1. Shaped(c)
    BY <1>1 DEF Forest, Shaped
  <2>2. \A n \in Nodes(c) : NoRepeat(c.kids[n])
    BY <1>1 DEF Forest, NoRepeat
  <2>3. ASSUME NEW m \in Nodes(c), NEW n \in Nodes(c), NEW x \in Range(c.kids[m]), x \in Range(c.kids[n])
        PROVE  m = n
    <3>1. PICK j \in DOMAIN c.kids[m] : c.kids[m][j] = x
      BY DEF Range
    <3>2. PICK k \in DOMAIN c.kids[n] : c.kids[n][k] = x
      BY <2>3 DEF Range
    <3> QED
      BY <1>1, <3>1, <3>2 DEF Forest
  <2>4. ASSUME NEW i \in Components(c) PROVE \E n \in Nodes(c) : i \in Range(c.kids[n])
    <3>1. PICK p \in Nodes(c) : \E k \in DOMAIN c.kids[p] : c.kids[p][k] = i
      BY <1>1 DEF Forest
    <3> QED
      BY <3>1 DEF Range
  <2>5. \E depth \in [Nodes(c) -> Nat] :
          \A n \in Nodes(c) : \A x \in Range(c.kids[n]) : depth[n] < depth[x]
    <3>1. PICK depth \in [Nodes(c) -> Nat] :
            \A p \in Nodes(c) : \A k \in DOMAIN c.kids[p] : depth[p] < depth[c.kids[p][k]]
      BY <1>1 DEF Forest
    <3>2. ASSUME NEW n \in Nodes(c), NEW x \in Range(c.kids[n]) PROVE depth[n] < depth[x]
      <4>1. PICK k \in DOMAIN c.kids[n] : c.kids[n][k] = x
        BY DEF Range
      <4> QED
        BY <3>1, <4>1
    <3> QED
      BY <3>2
  <2> QED
    BY <2>1, <2>2, <2>3, <2>4, <2>5 DEF ByLists
<1>2. ASSUME Shaped(c), ByLists(c) PROVE Forest(c)
  <2>1. ASSUME NEW p \in Nodes(c), NEW q \in Nodes(c), NEW j \in DOMAIN c.kids[p],
               NEW k \in DOMAIN c.kids[q], c.kids[p][j] = c.kids[q][k]
        PROVE  p = q /\ j = k
    <3>1. c.kids[p][j] \in Range(c.kids[p]) /\ c.kids[p][j] \in Range(c.kids[q])
      BY <2>1 DEF Range
    <3>2. p = q
      BY <1>2, <3>1 DEF ByLists
    <3> QED
      BY <1>2, <2>1, <3>2 DEF ByLists, NoRepeat
  <2>2. ASSUME NEW i \in Components(c) PROVE \E p \in Nodes(c) : \E k \in DOMAIN c.kids[p] : c.kids[p][k] = i
    BY <1>2 DEF ByLists, Range
  <2>3. \E depth \in [Nodes(c) -> Nat] :
          \A p \in Nodes(c) : \A k \in DOMAIN c.kids[p] : depth[p] < depth[c.kids[p][k]]
    <3>1. PICK depth \in [Nodes(c) -> Nat] :
            \A n \in Nodes(c) : \A x \in Range(c.kids[n]) : depth[n] < depth[x]
      BY <1>2 DEF ByLists
    <3>2. ASSUME NEW p \in Nodes(c), NEW k \in DOMAIN c.kids[p] PROVE depth[p] < depth[c.kids[p][k]]
      BY <3>1 DEF Range
    <3> QED
      BY <3>2
  <2> QED
    BY <1>2, <2>1, <2>2, <2>3 DEF Shaped, Forest
<1> QED
  BY <1>1, <1>2

\* The node of which i is a child.
LEMMA ParentFacts ==
    ASSUME NEW c, Forest(c), NEW i \in Components(c)
    PROVE  Parent(c, i) \in Nodes(c) /\ i \in Range(c.kids[Parent(c, i)])
<1>1. PICK p \in Nodes(c) : i \in Range(c.kids[p])
  BY ForestByLists DEF ByLists
<1>2. DOMAIN c.kids = Nodes(c)
  BY DEF Forest
<1> QED
  BY <1>1, <1>2 DEF Parent

\* The children of an entry are the entries that call it their parent.
LEMMA KidsOfFacts ==
    ASSUME NEW es, EntriesOK(es), NEW at \in Seq(Nat), Len(at) = Len(es), NoRepeat(at), NEW k
    PROVE  /\ KidsOf(es, at, k) \in Seq(Range(at)) /\ NoRepeat(KidsOf(es, at, k))
           /\ \A x : x \in Range(KidsOf(es, at, k)) <=>
                        \E j \in DOMAIN es : es[j].parent = k /\ at[j] = x
<1> DEFINE J == {j \in DOMAIN es : es[j].parent = k}
           js == Ascending(J)
           K == KidsOf(es, at, k)
<1>1. /\ Len(es) \in Nat /\ DOMAIN es = 1 .. Len(es) /\ DOMAIN at = 1 .. Len(es)
  BY DEF EntriesOK
<1>2. IsFiniteSet(J) /\ J \subseteq Nat
  <2>1. IsFiniteSet(1 .. Len(es))
    BY <1>1, FS_Interval
  <2> QED
    BY <1>1, <2>1, FS_Subset
<1>3. js \in Seq(J) /\ NoRepeat(js) /\ Range(js) = J
  <2> HIDE DEF J
  <2> QED
    BY <1>2, AscendingFacts
<1>4. K = [n \in DOMAIN js |-> at[js[n]]]
  BY DEF KidsOf
<1>5. Len(js) \in Nat /\ DOMAIN js = 1 .. Len(js) /\ \A n \in DOMAIN js : js[n] \in J
  <2> HIDE DEF J, js
  <2> QED
    BY <1>3
<1>6. \A j \in J : j \in DOMAIN at /\ j \in DOMAIN es /\ es[j].parent = k
  BY <1>1
<1>7. \A j \in DOMAIN es : es[j].parent = k => j \in J
  OBVIOUS
<1> HIDE DEF J, js
<1>8. K \in Seq(Range(at))
  <2>1. \A n \in 1 .. Len(js) : at[js[n]] \in Range(at)
    BY <1>5, <1>6 DEF Range
  <2> QED
    BY <1>4, <1>5, <2>1
<1> HIDE DEF K
<1>9. NoRepeat(K)
  <2> SUFFICES ASSUME NEW a \in DOMAIN K, NEW b \in DOMAIN K, K[a] = K[b] PROVE a = b
    BY DEF NoRepeat
  <2>1. a \in DOMAIN js /\ b \in DOMAIN js /\ at[js[a]] = at[js[b]]
    BY <1>4
  <2>2. js[a] = js[b]
    BY <1>5, <1>6, <2>1 DEF NoRepeat
  <2> QED
    BY <1>3, <2>1, <2>2 DEF NoRepeat
<1>10. ASSUME NEW x PROVE x \in Range(K) <=> \E j \in DOMAIN es : es[j].parent = k /\ at[j] = x
  <2>1. ASSUME x \in Range(K) PROVE \E j \in DOMAIN es : es[j].parent = k /\ at[j] = x
    <3>1. PICK n \in DOMAIN K : x = K[n]
      BY <2>1 DEF Range
    <3>2. n \in DOMAIN js /\ x = at[js[n]]
      BY <1>4, <3>1
    <3> QED
      BY <1>5, <1>6, <3>2
  <2>2. ASSUME NEW j \in DOMAIN es, es[j].parent = k, at[j] = x PROVE x \in Range(K)
    <3>1. PICK n \in DOMAIN js : js[n] = j
      BY <1>3, <1>7, <2>2 DEF Range
    <3>2. n \in DOMAIN K /\ K[n] = x
      BY <1>4, <2>2, <3>1
    <3> QED
      BY <3>2 DEF Range
  <2> QED
    BY <2>1, <2>2
<1> QED
  BY <1>8, <1>9, <1>10 DEF K

\* A sequence without repetition has as many things as its length says.
LEMMA RangeSize ==
    ASSUME NEW S, NEW s \in Seq(S)
    PROVE  /\ IsFiniteSet(Range(s)) /\ Range(s) \subseteq S
           /\ NoRepeat(s) => Cardinality(Range(s)) = Len(s)
<1>1. Len(s) \in Nat /\ DOMAIN s = 1 .. Len(s) /\ s \in [1 .. Len(s) -> S]
  OBVIOUS
<1>2. IsFiniteSet(1 .. Len(s)) /\ Cardinality(1 .. Len(s)) = Len(s)
  BY <1>1, FS_Interval
<1>3. Range(s) \subseteq S
  BY <1>1 DEF Range
<1>4. s \in Surjection(1 .. Len(s), Range(s))
  BY <1>1 DEF Surjection, Range
<1>5. NoRepeat(s) => s \in Injection(1 .. Len(s), Range(s))
  BY <1>1, <1>4 DEF Injection, IsInjective, Surjection, NoRepeat
<1> HIDE DEF Range
<1> QED
  BY <1>2, <1>3, <1>4, <1>5, FS_Surjection

\* The new components in d have the data of their entries, and the children are
\* those in c and the entries below their parents.
Shown(c, es, p, at, d) ==
    /\ \A k \in DOMAIN es : d.node[at[k]].data = es[k].data
    /\ \A n \in Nodes(d) : \A x \in Range(d.kids[n]) :
          \/ \E j \in DOMAIN es : x = at[j] /\ n = IF es[j].parent = 0 THEN p ELSE at[es[j].parent]
          \/ n \in Nodes(c) /\ x \in Range(c.kids[n])

\* What Attach adds to a forest makes a forest: the new components are those
\* that at names, each with the data of its entry, and the old ones are as
\* they were.
LEMMA AttachFacts ==
    ASSUME NEW c, Forest(c), NEW es, EntriesOK(es), NEW p \in Nodes(c),
           NEW at \in Seq(Nat), Len(at) = Len(es), NoRepeat(at),
           Range(at) \cap Components(c) = {}
    PROVE  LET d == Attach(c, es, p, at)
           IN  /\ Forest(d)
               /\ Components(d) = Range(at) \cup Components(c)
               /\ \A i \in Components(c) : d.node[i] = c.node[i]
               /\ \A k \in DOMAIN es : d.node[at[k]].suid = es[k].suid
               /\ d.kids[p] = c.kids[p] \o KidsOf(es, at, 0)
               /\ DOMAIN d.suids = EntrySUIDs(es) \cup DOMAIN c.suids
               /\ \A s \in EntrySUIDs(es) : \E k \in DOMAIN es : es[k].suid = s /\ d.suids[s] = at[k]
               /\ \A s \in DOMAIN c.suids \ EntrySUIDs(es) : d.suids[s] = c.suids[s]
               /\ Shown(c, es, p, at, d)
<1> DEFINE d == Attach(c, es, p, at)
           K(x) == KidsOf(es, at, x)
           entry == [i \in Range(at) |-> CHOOSE k \in DOMAIN es : at[k] = i]
           N == [i \in Range(at) |-> [suid |-> es[entry[i]].suid, data |-> es[entry[i]].data]]
           G == [i \in Range(at) |-> K(entry[i])]
           H == [c.kids EXCEPT ![p] = @ \o K(0)]
           At(s) == at[CHOOSE m \in {k \in DOMAIN es : es[k].suid = s} :
                           \A j \in {k \in DOMAIN es : es[k].suid = s} : j <= m]
           M == [s \in EntrySUIDs(es) |-> At(s)]
<1>0. d = [node |-> Over(N, c.node), kids |-> Over(G, H), suids |-> Over(M, c.suids)]
  BY DEF Attach
<1>1. /\ Len(es) \in Nat /\ DOMAIN es = 1 .. Len(es) /\ DOMAIN at = 1 .. Len(es)
      /\ \A k \in DOMAIN es : at[k] \in Nat /\ at[k] \in Range(at) /\ es[k] \in Entry
      /\ Range(at) \subseteq Nat
  BY DEF EntriesOK, Range
<1>2. /\ c.node \in [Components(c) -> ComponentData] /\ c.kids \in [Nodes(c) -> Seq(Components(c))]
      /\ IsFiniteSet(Components(c)) /\ Components(c) \subseteq Nat /\ Root \notin Nat
      /\ Nodes(c) = Components(c) \cup {Root} /\ Shaped(c) /\ ByLists(c)
      /\ DOMAIN c.node = Components(c) /\ DOMAIN c.kids = Nodes(c)
      /\ Range(at) \cap Nodes(c) = {}
  <2>1. /\ c.node \in [Components(c) -> ComponentData] /\ c.kids \in [Nodes(c) -> Seq(Components(c))]
        /\ IsFiniteSet(Components(c)) /\ Components(c) \subseteq Nat
    BY DEF Forest
  <2>2. Root \notin Nat /\ Nodes(c) = Components(c) \cup {Root}
    BY DEF Root, Nodes
  <2>3. Range(at) \cap Nodes(c) = {}
    BY <1>1, <2>2
  <2> QED
    BY <2>1, <2>2, <2>3, ForestByLists
<1>3. ASSUME NEW i \in Range(at) PROVE entry[i] \in DOMAIN es /\ at[entry[i]] = i
  <2>1. \E k \in DOMAIN es : at[k] = i
    BY <1>1 DEF Range
  <2> QED
    BY <2>1
<1>4. ASSUME NEW k \in DOMAIN es PROVE at[k] \in Range(at) /\ entry[at[k]] = k
  <2>1. entry[at[k]] \in DOMAIN es /\ at[entry[at[k]]] = at[k]
    BY <1>1, <1>3
  <2> HIDE DEF entry
  <2> QED
    BY <1>1, <2>1 DEF NoRepeat
<1> HIDE DEF entry
<1>5. /\ DOMAIN N = Range(at) /\ N \in [Range(at) -> ComponentData]
      /\ \A k \in DOMAIN es : N[at[k]].suid = es[k].suid /\ N[at[k]].data = es[k].data
  <2>1. ASSUME NEW i \in Range(at) PROVE N[i] \in ComponentData
    <3>1. es[entry[i]] \in Entry
      BY <1>1, <1>3
    <3> QED
      BY <3>1 DEF Entry, ComponentData
  <2> QED
    BY <1>4, <2>1
<1>6. \A k : /\ K(k) \in Seq(Range(at)) /\ NoRepeat(K(k))
             /\ \A x : x \in Range(K(k)) <=> \E j \in DOMAIN es : es[j].parent = k /\ at[j] = x
  BY KidsOfFacts
<1> DEFINE R0 == c.kids[p] \o K(0)
<1> HIDE DEF N, M, K
<1>7. /\ DOMAIN G = Range(at) /\ DOMAIN H = Nodes(c) /\ H[p] = R0
      /\ \A k \in DOMAIN es : G[at[k]] = K(k)
      /\ \A n \in Nodes(c) \ {p} : H[n] = c.kids[n]
  BY <1>2, <1>4
<1> DEFINE C == Range(at) \cup Components(c)
<1>8. c.kids[p] \in Seq(C) /\ K(0) \in Seq(C)
  BY <1>2, <1>6
<1>9. R0 \in Seq(C) /\ Range(R0) = Range(c.kids[p]) \cup Range(K(0)) /\ NoRepeat(R0)
  <2>1. Range(c.kids[p]) \subseteq Components(c) /\ Range(K(0)) \subseteq Range(at)
    <3>1. c.kids[p] \in Seq(Components(c))
      BY <1>2
    <3>2. K(0) \in Seq(Range(at))
      BY <1>6
    <3> QED
      BY <3>1, <3>2, RangeSize
  <2>2. NoRepeat(c.kids[p]) /\ NoRepeat(K(0))
    BY <1>2, <1>6 DEF ByLists
  <2>3. Range(c.kids[p]) \cap Range(K(0)) = {}
    BY <2>1
  <2> HIDE DEF C
  <2> QED
    BY <1>8, <2>2, <2>3, JoinFacts
<1> HIDE DEF G, H, R0
<1>10. /\ Components(d) = C /\ Nodes(d) = Range(at) \cup Nodes(c)
       /\ d = [node |-> d.node, kids |-> d.kids, suids |-> d.suids]
       /\ d.node = Over(N, c.node) /\ d.kids = Over(G, H) /\ d.suids = Over(M, c.suids)
  <2>1. Components(d) = C
    BY <1>0, <1>2, <1>5 DEF Over, Components
  <2> QED
    BY <1>0, <1>2, <2>1 DEF Nodes
<1> HIDE DEF d
<1>11. /\ DOMAIN d.node = C
       /\ \A i \in Range(at) : d.node[i] = N[i]
       /\ \A i \in Components(c) : d.node[i] = c.node[i]
  BY <1>2, <1>5, <1>10 DEF Over
<1>12. /\ d.kids = [n \in Nodes(d) |-> d.kids[n]]
       /\ \A k \in DOMAIN es : d.kids[at[k]] = K(k)
       /\ d.kids[p] = R0
       /\ \A n \in Nodes(c) \ {p} : d.kids[n] = c.kids[n]
  BY <1>1, <1>2, <1>7, <1>10 DEF Over
\* Who is whose child.
<1>13. ASSUME NEW n \in Nodes(d), NEW x \in Range(d.kids[n])
       PROVE  \/ \E j \in DOMAIN es : /\ x = at[j]
                                      /\ n = IF es[j].parent = 0 THEN p ELSE at[es[j].parent]
              \/ n \in Nodes(c) /\ x \in Range(c.kids[n])
  <2>1. CASE n \in Range(at)
    <3>1. PICK k \in DOMAIN es : n = at[k]
      BY <1>1, <2>1 DEF Range
    <3>0. d.kids[n] = K(k)
      BY <1>12, <3>1
    <3>2. PICK j \in DOMAIN es : es[j].parent = k /\ at[j] = x
      BY <1>6, <3>0
    <3>3. k # 0
      BY <1>1
    <3> QED
      BY <3>1, <3>2, <3>3
  <2>2. CASE n = p
    <3>1. x \in Range(c.kids[p]) \/ x \in Range(K(0))
      BY <1>9, <1>12, <2>2
    <3> QED
      BY <1>6, <2>2, <3>1
  <2>3. CASE n \in Nodes(c) /\ n # p
    BY <1>12, <2>3
  <2> QED
    BY <1>10, <2>1, <2>2, <2>3
<1>14. \A n \in Nodes(c) : \A x \in Range(c.kids[n]) : x \in Components(c)
  BY <1>2 DEF Range
<1>15. \A j \in DOMAIN es : es[j].parent \in Nat /\ es[j].parent < j
  BY <1>1 DEF EntriesOK, Entry
<1>16. \A n \in Nodes(d) : d.kids[n] \in Seq(C) /\ NoRepeat(d.kids[n])
  <2> SUFFICES ASSUME NEW n \in Nodes(d) PROVE d.kids[n] \in Seq(C) /\ NoRepeat(d.kids[n])
    OBVIOUS
  <2>1. CASE n \in Range(at)
    <3>1. PICK k \in DOMAIN es : n = at[k]
      BY <1>1, <2>1 DEF Range
    <3>2. d.kids[n] = K(k) /\ K(k) \in Seq(Range(at)) /\ NoRepeat(K(k))
      BY <1>6, <1>12, <3>1
    <3> QED
      BY <3>2
  <2>2. CASE n = p
    BY <1>9, <1>12, <2>2
  <2>3. CASE n \in Nodes(c) /\ n # p
    <3>1. d.kids[n] = c.kids[n] /\ c.kids[n] \in Seq(Components(c)) /\ NoRepeat(c.kids[n])
      BY <1>2, <1>12, <2>3 DEF ByLists
    <3> QED
      BY <3>1
  <2> QED
    BY <1>10, <2>1, <2>2, <2>3
<1>17. Shaped(d)
  <2>1. IsFiniteSet(Range(at))
    BY RangeSize
  <2>2. IsFiniteSet(C) /\ C \subseteq Nat
    BY <1>1, <1>2, <2>1, FS_Union
  <2>3. d.node \in [C -> ComponentData]
    <3>1. \A i \in C : d.node[i] \in ComponentData
      BY <1>2, <1>5, <1>11
    <3>2. d.node = [i \in C |-> d.node[i]]
      BY <1>10, <1>11 DEF Over
    <3> QED
      BY <3>1, <3>2
  <2>4. d.kids \in [Nodes(d) -> Seq(C)]
    BY <1>12, <1>16
  <2> HIDE DEF C
  <2> QED
    BY <1>10, <2>2, <2>3, <2>4 DEF Shaped
<1>18. ASSUME NEW m \in Nodes(d), NEW n \in Nodes(d), NEW x \in Range(d.kids[m]), x \in Range(d.kids[n])
       PROVE  m = n
  <2>1. CASE x \in Range(at)
    <3>1. ~(x \in Components(c))
      BY <1>2, <2>1
    <3>2. PICK j \in DOMAIN es : x = at[j] /\ m = IF es[j].parent = 0 THEN p ELSE at[es[j].parent]
      BY <1>13, <1>14, <3>1
    <3>3. PICK k \in DOMAIN es : x = at[k] /\ n = IF es[k].parent = 0 THEN p ELSE at[es[k].parent]
      BY <1>13, <1>14, <1>18, <3>1
    <3>4. j = k
      BY <1>1, <3>2, <3>3 DEF NoRepeat
    <3> QED
      BY <3>2, <3>3, <3>4
  <2>2. CASE x \notin Range(at)
    <3>0. \A j \in DOMAIN es : x # at[j]
      BY <1>1, <2>2
    <3>1. m \in Nodes(c) /\ x \in Range(c.kids[m])
      BY <1>13, <3>0
    <3>2. n \in Nodes(c) /\ x \in Range(c.kids[n])
      BY <1>13, <1>18, <3>0
    <3> QED
      BY <1>2, <3>1, <3>2 DEF ByLists
  <2> QED
    BY <2>1, <2>2
<1>19. ASSUME NEW i \in Components(d) PROVE \E n \in Nodes(d) : i \in Range(d.kids[n])
  <2>1. CASE i \in Range(at)
    <3>1. PICK j \in DOMAIN es : i = at[j]
      BY <1>1, <2>1 DEF Range
    <3>2. CASE es[j].parent = 0
      BY <1>6, <1>9, <1>10, <1>12, <3>1, <3>2
    <3>3. CASE es[j].parent # 0
      <4>1. es[j].parent \in DOMAIN es
        BY <1>1, <1>15, <3>3
      <4>2. i \in Range(K(es[j].parent))
        BY <1>6, <3>1
      <4> QED
        BY <1>1, <1>10, <1>12, <4>1, <4>2
    <3> QED
      BY <3>2, <3>3
  <2>2. CASE i \in Components(c)
    <3>1. PICK n \in Nodes(c) : i \in Range(c.kids[n])
      BY <1>2, <2>2 DEF ByLists
    <3>2. i \in Range(d.kids[n])
      BY <1>9, <1>12, <3>1
    <3> QED
      BY <1>10, <3>1, <3>2
  <2> QED
    BY <1>10, <2>1, <2>2
<1>20. \E depth \in [Nodes(d) -> Nat] :
          \A n \in Nodes(d) : \A x \in Range(d.kids[n]) : depth[n] < depth[x]
  <2>1. PICK old \in [Nodes(c) -> Nat] : \A n \in Nodes(c) : \A x \in Range(c.kids[n]) : old[n] < old[x]
    BY <1>2 DEF ByLists
  <2> DEFINE depth == [n \in Nodes(d) |-> IF n \in Range(at) THEN old[p] + entry[n] ELSE old[n]]
  <2>2. \A k \in DOMAIN es : depth[at[k]] = old[p] + k
    BY <1>4, <1>10
  <2>3. \A n \in Nodes(c) : depth[n] = old[n] /\ old[n] \in Nat
    BY <1>2, <1>10, <2>1
  <2>4. depth \in [Nodes(d) -> Nat]
    <3> SUFFICES ASSUME NEW n \in Nodes(d) PROVE depth[n] \in Nat
      OBVIOUS
    <3>1. CASE n \in Range(at)
      <4>1. entry[n] \in Nat /\ old[p] \in Nat
        BY <1>1, <1>3, <2>3, <3>1
      <4> QED
        BY <3>1, <4>1
    <3>2. CASE n \in Nodes(c)
      BY <2>3, <3>2
    <3> QED
      BY <1>10, <3>1, <3>2
  <2> HIDE DEF depth
  <2>5. ASSUME NEW n \in Nodes(d), NEW x \in Range(d.kids[n]) PROVE depth[n] < depth[x]
    <3>1. ASSUME NEW j \in DOMAIN es, x = at[j], n = IF es[j].parent = 0 THEN p ELSE at[es[j].parent]
          PROVE  depth[n] < depth[x]
      <4>1. depth[x] = old[p] + j /\ old[p] \in Nat /\ j \in Nat /\ j > 0
        <5>1. j \in Nat /\ j > 0
          BY <1>1
        <5> QED
          BY <2>2, <2>3, <3>1, <5>1
      <4>2. depth[n] = old[p] + es[j].parent
        <5>1. CASE es[j].parent = 0
          <6>1. n = p /\ old[p] \in Nat
            BY <2>3, <3>1, <5>1
          <6> QED
            BY <2>3, <5>1, <6>1
        <5>2. CASE es[j].parent # 0
          <6>1. es[j].parent \in DOMAIN es
            BY <1>1, <1>15, <5>2
          <6> QED
            BY <2>2, <3>1, <5>2, <6>1
        <5> QED
          BY <5>1, <5>2
      <4> QED
        BY <1>15, <4>1, <4>2
    <3>2. ASSUME n \in Nodes(c), x \in Range(c.kids[n]) PROVE depth[n] < depth[x]
      <4>1. x \in Nodes(c)
        BY <1>2, <1>14, <3>2
      <4> QED
        BY <2>1, <2>3, <3>2, <4>1
    <3> QED
      BY <1>13, <3>1, <3>2
  <2> QED
    BY <2>4, <2>5
<1>21. Forest(d)
  <2>1. ByLists(d)
    BY <1>16, <1>18, <1>19, <1>20 DEF ByLists
  <2> QED
    BY <1>17, <2>1, ForestByLists
<1>22. /\ \A k \in DOMAIN es : d.node[at[k]].suid = es[k].suid
       /\ \A k \in DOMAIN es : d.node[at[k]].data = es[k].data
  BY <1>1, <1>5, <1>11
<1>23. /\ DOMAIN d.suids = EntrySUIDs(es) \cup DOMAIN c.suids
       /\ \A s \in EntrySUIDs(es) : d.suids[s] = At(s)
       /\ \A s \in DOMAIN c.suids \ EntrySUIDs(es) : d.suids[s] = c.suids[s]
  BY <1>10 DEF Over, M
<1>24. ASSUME NEW s \in EntrySUIDs(es) PROVE \E k \in DOMAIN es : es[k].suid = s /\ At(s) = at[k]
  <2> DEFINE S == {k \in DOMAIN es : es[k].suid = s}
  <2>1. S \subseteq Nat /\ IsFiniteSet(S) /\ S # {}
    <3>1. IsFiniteSet(DOMAIN es)
      BY <1>1, FS_Interval
    <3> QED
      BY <1>1, <3>1, FS_Subset DEF EntrySUIDs
  <2>2. \E k \in S : \A j \in S : j <= k
    <3> DEFINE w == [k \in S |-> k]
    <3>1. w \in [S -> Nat] /\ \A k \in S : w[k] = k
      BY <2>1
    <3> HIDE DEF w, S
    <3>2. PICK k \in S : \A j \in S : w[j] <= w[k]
      BY <2>1, <3>1, HighestExists
    <3> QED
      BY <3>1, <3>2
  <2>3. PICK k \in S : k = CHOOSE m \in S : \A j \in S : j <= m
    BY <2>2
  <2>4. At(s) = at[k]
    BY <2>3
  <2> QED
    BY <2>4
<1> HIDE DEF At
<1>25. Shown(c, es, p, at, d)
  BY <1>13, <1>22 DEF Shown
<1> QED
  BY <1>10, <1>11, <1>12, <1>25, <1>21, <1>22, <1>23, <1>24 DEF d, R0, K

\* Without takes x out of a sequence.
LEMMA WithoutFacts ==
    ASSUME NEW T, NEW s \in Seq(T), NEW x
    PROVE  /\ Without(s, x) \in Seq(Range(s) \ {x})
           /\ Range(Without(s, x)) = Range(s) \ {x}
           /\ NoRepeat(s) => NoRepeat(Without(s, x))
<1> DEFINE J == {j \in DOMAIN s : s[j] # x}
           js == Ascending(J)
           w == Without(s, x)
<1>1. Len(s) \in Nat /\ DOMAIN s = 1 .. Len(s)
  OBVIOUS
<1>2. IsFiniteSet(J) /\ J \subseteq Nat
  <2>1. IsFiniteSet(1 .. Len(s))
    BY <1>1, FS_Interval
  <2> QED
    BY <1>1, <2>1, FS_Subset
<1>3. js \in Seq(J) /\ NoRepeat(js) /\ Range(js) = J
  <2> HIDE DEF J
  <2> QED
    BY <1>2, AscendingFacts
<1>4. w = [n \in DOMAIN js |-> s[js[n]]]
  BY DEF Without
<1>5. Len(js) \in Nat /\ DOMAIN js = 1 .. Len(js) /\ \A n \in DOMAIN js : js[n] \in J
  <2> HIDE DEF J, js
  <2> QED
    BY <1>3
<1>6. \A j \in J : j \in DOMAIN s /\ s[j] # x /\ s[j] \in Range(s) \ {x}
  BY DEF Range
<1>7. \A j \in DOMAIN s : s[j] # x => j \in J
  OBVIOUS
<1> HIDE DEF J, js
<1>8. w \in Seq(Range(s) \ {x})
  <2>1. \A n \in 1 .. Len(js) : s[js[n]] \in Range(s) \ {x}
    BY <1>5, <1>6
  <2> QED
    BY <1>4, <1>5, <2>1
<1> HIDE DEF w
<1>9. Range(s) \ {x} \subseteq Range(w)
  <2> SUFFICES ASSUME NEW y \in Range(s), y # x PROVE y \in Range(w)
    OBVIOUS
  <2>1. PICK j \in DOMAIN s : s[j] = y
    BY DEF Range
  <2>2. PICK n \in DOMAIN js : js[n] = j
    BY <1>3, <1>7, <2>1 DEF Range
  <2>3. n \in DOMAIN w /\ w[n] = y
    BY <1>4, <2>1, <2>2
  <2> QED
    BY <2>3 DEF Range
<1>10. ASSUME NoRepeat(s) PROVE NoRepeat(w)
  <2> SUFFICES ASSUME NEW a \in DOMAIN w, NEW b \in DOMAIN w, w[a] = w[b] PROVE a = b
    BY DEF NoRepeat
  <2>1. a \in DOMAIN js /\ b \in DOMAIN js /\ s[js[a]] = s[js[b]]
    BY <1>4
  <2>2. js[a] = js[b]
    BY <1>5, <1>6, <1>10, <2>1 DEF NoRepeat
  <2> QED
    BY <1>3, <2>1, <2>2 DEF NoRepeat
<1>11. Range(w) \subseteq Range(s) \ {x}
  BY <1>8, RangeSize
<1> QED
  BY <1>8, <1>9, <1>10, <1>11 DEF w

\* Prune takes a component and everything below it out of a forest and leaves
\* the rest as it was.
LEMMA PruneFacts ==
    ASSUME NEW c, Forest(c), NEW i \in Components(c)
    PROVE  LET d == Prune(c, i)
           IN  /\ Forest(d)
               /\ Components(d) = Components(c) \ Subtree(c, i)
               /\ Subtree(c, i) \subseteq Components(c)
               /\ \A x \in Components(d) : d.node[x] = c.node[x]
               /\ \A n \in Nodes(d) : n \in Nodes(c) /\ Range(d.kids[n]) = Range(c.kids[n]) \ {i}
               /\ DOMAIN d.suids = DOMAIN c.suids \ SUIDsOf(c, Subtree(c, i))
               /\ \A s \in DOMAIN d.suids : d.suids[s] = c.suids[s]
<1> DEFINE d == Prune(c, i)
           X == Subtree(c, i)
<1>1. i \in Nodes(c) /\ i # Root /\ Root \notin Nat
  BY DEF Nodes, Forest, Root
<1>2. IsSubtree(c, i, X) /\ Root \notin X
  BY <1>1, SubtreeFacts
<1>3. /\ Shaped(c) /\ ByLists(c) /\ Nodes(c) = Components(c) \cup {Root}
      /\ X \subseteq Components(c) /\ Root \notin Components(c)
  <2>1. Shaped(c) /\ ByLists(c) /\ Nodes(c) = Components(c) \cup {Root}
    BY ForestByLists DEF Nodes
  <2>2. X \subseteq Components(c)
    BY <1>2, <2>1 DEF IsSubtree
  <2> QED
    BY <1>1, <2>1, <2>2 DEF Shaped
<1> HIDE DEF X
<1>4. /\ DOMAIN c.node = Components(c) /\ DOMAIN c.kids = Nodes(c)
      /\ \A n \in Nodes(c) : c.kids[n] \in Seq(Components(c)) /\ Range(c.kids[n]) \subseteq Components(c)
  <2>1. DOMAIN c.node = Components(c) /\ DOMAIN c.kids = Nodes(c)
        /\ \A n \in Nodes(c) : c.kids[n] \in Seq(Components(c))
    BY <1>3 DEF Shaped
  <2> QED
    BY <2>1, RangeSize
<1>5. d = [node |-> [x \in Components(c) \ X |-> c.node[x]],
           kids |-> [n \in Nodes(c) \ X |-> Without(c.kids[n], i)],
           suids |-> [s \in DOMAIN c.suids \ SUIDsOf(c, X) |-> c.suids[s]]]
  BY <1>4 DEF Prune, Restrict, X
<1> HIDE DEF d
<1>6. Components(d) = Components(c) \ X /\ Nodes(d) = Nodes(c) \ X
  <2>1. Components(d) = Components(c) \ X
    BY <1>5 DEF Components
  <2> QED
    BY <1>2, <1>3, <2>1 DEF Nodes
\* Nothing of the subtree is listed elsewhere but i.
<1>7. ASSUME NEW n \in Nodes(d), NEW x \in Range(c.kids[n]), x # i PROVE x \in Components(d)
  <2> SUFFICES ASSUME x \in X PROVE FALSE
    BY <1>4, <1>6
  <2>1. PICK y \in X : \E k \in DOMAIN c.kids[y] : c.kids[y][k] = x
    BY <1>2, <1>7 DEF IsSubtree
  <2>2. x \in Range(c.kids[y]) /\ y \in Nodes(c)
    BY <1>2, <2>1 DEF Range, IsSubtree
  <2>3. y = n
    BY <1>3, <1>6, <1>7, <2>2 DEF ByLists
  <2> QED
    BY <1>6, <2>3
<1>8. ASSUME NEW n \in Nodes(d)
      PROVE  /\ d.kids[n] \in Seq(Components(d)) /\ NoRepeat(d.kids[n])
             /\ Range(d.kids[n]) = Range(c.kids[n]) \ {i}
  <2>1. d.kids[n] = Without(c.kids[n], i) /\ n \in Nodes(c)
    BY <1>5, <1>6
  <2> DEFINE old == c.kids[n]
  <2>a. old \in Seq(Components(c)) /\ NoRepeat(old)
    BY <1>3, <1>4, <2>1 DEF ByLists
  <2> HIDE DEF old
  <2>b. /\ Without(old, i) \in Seq(Range(old) \ {i}) /\ NoRepeat(Without(old, i))
        /\ Range(Without(old, i)) = Range(old) \ {i}
    BY <2>a, WithoutFacts
  <2>2. /\ d.kids[n] \in Seq(Range(c.kids[n]) \ {i}) /\ NoRepeat(d.kids[n])
        /\ Range(d.kids[n]) = Range(c.kids[n]) \ {i}
    BY <2>1, <2>b DEF old
  <2>3. Range(c.kids[n]) \ {i} \subseteq Components(d)
    BY <1>7
  <2> QED
    BY <2>2, <2>3
<1>9. Shaped(d)
  <2>1. d = [node |-> d.node, kids |-> d.kids, suids |-> d.suids]
    BY <1>5
  <2>2. IsFiniteSet(Components(d)) /\ Components(d) \subseteq Nat
    BY <1>3, <1>6, FS_Subset DEF Shaped
  <2>3. d.node \in [Components(d) -> ComponentData]
    BY <1>3, <1>5, <1>6 DEF Shaped
  <2>4. d.kids = [n \in Nodes(d) |-> d.kids[n]]
    BY <1>5, <1>6
  <2>5. d.kids \in [Nodes(d) -> Seq(Components(d))]
    BY <1>8, <2>4
  <2> QED
    BY <2>1, <2>2, <2>3, <2>5 DEF Shaped
<1>10. ByLists(d)
  <2>1. ASSUME NEW m \in Nodes(d), NEW n \in Nodes(d), NEW x \in Range(d.kids[m]), x \in Range(d.kids[n])
        PROVE  m = n
    <3>1. m \in Nodes(c) /\ n \in Nodes(c)
      BY <1>6
    <3>2. x \in Range(c.kids[m]) /\ x \in Range(c.kids[n])
      BY <1>8, <2>1
    <3> QED
      BY <1>3, <3>1, <3>2 DEF ByLists
  <2>2. ASSUME NEW x \in Components(d) PROVE \E n \in Nodes(d) : x \in Range(d.kids[n])
    <3>1. PICK n \in Nodes(c) : x \in Range(c.kids[n])
      BY <1>3, <1>6 DEF ByLists
    <3>2. n \notin X
      <4> SUFFICES ASSUME n \in X PROVE FALSE
        OBVIOUS
      <4>1. PICK k \in DOMAIN c.kids[n] : x = c.kids[n][k]
        BY <3>1 DEF Range
      <4> QED
        BY <1>2, <1>6, <4>1 DEF IsSubtree
    <3>3. n \in Nodes(d) /\ x # i
      BY <1>2, <1>6, <3>2 DEF IsSubtree
    <3> QED
      BY <1>8, <3>1, <3>3
  <2>3. \E depth \in [Nodes(d) -> Nat] :
          \A n \in Nodes(d) : \A x \in Range(d.kids[n]) : depth[n] < depth[x]
    <3>1. PICK old \in [Nodes(c) -> Nat] : \A n \in Nodes(c) : \A x \in Range(c.kids[n]) : old[n] < old[x]
      BY <1>3 DEF ByLists
    <3> DEFINE depth == [n \in Nodes(d) |-> old[n]]
    <3>2. depth \in [Nodes(d) -> Nat]
      BY <1>6
    <3>3. ASSUME NEW n \in Nodes(d), NEW x \in Range(d.kids[n]) PROVE depth[n] < depth[x]
      <4>1. x \in Range(c.kids[n]) /\ x \in Nodes(d) /\ n \in Nodes(c)
        <5>1. x \in Range(c.kids[n]) /\ x # i
          BY <1>8
        <5>2. x \in Components(d)
          BY <1>7, <5>1
        <5> QED
          BY <1>6, <5>1, <5>2 DEF Nodes
      <4>2. depth[n] = old[n] /\ depth[x] = old[x]
        BY <4>1
      <4> HIDE DEF depth
      <4> QED
        BY <3>1, <4>1, <4>2
    <3> QED
      BY <3>2, <3>3
  <2> QED
    BY <1>8, <2>1, <2>2, <2>3 DEF ByLists
<1>11. Forest(d)
  BY <1>9, <1>10, ForestByLists
<1>12. /\ \A x \in Components(d) : d.node[x] = c.node[x]
       /\ DOMAIN d.suids = DOMAIN c.suids \ SUIDsOf(c, X)
       /\ \A s \in DOMAIN d.suids : d.suids[s] = c.suids[s]
  BY <1>5, <1>6
<1>13. \A n \in Nodes(d) : n \in Nodes(c) /\ Range(d.kids[n]) = Range(c.kids[n]) \ {i}
  BY <1>6, <1>8
<1> QED
  BY <1>3, <1>6, <1>11, <1>12, <1>13 DEF d, X

\* The order of the children of a node does not matter.
LEMMA PermuteKids ==
    ASSUME NEW c, Forest(c), NEW p \in Nodes(c), NEW s \in Seq(Components(c)),
           NoRepeat(s), Range(s) = Range(c.kids[p])
    PROVE  Forest([c EXCEPT !.kids[p] = s])
<1> DEFINE d == [c EXCEPT !.kids[p] = s]
<1>1. Shaped(c) /\ ByLists(c)
  BY ForestByLists
<1>2. /\ d = [node |-> d.node, kids |-> d.kids, suids |-> d.suids]
      /\ d.node = c.node /\ d.kids = [c.kids EXCEPT ![p] = s]
  <2>1. c = [node |-> c.node, kids |-> c.kids, suids |-> c.suids]
    BY <1>1 DEF Shaped
  <2>2. d = [node |-> c.node, kids |-> [c.kids EXCEPT ![p] = s], suids |-> c.suids]
    BY <2>1
  <2> HIDE DEF d
  <2> QED
    BY <2>2
<1> HIDE DEF d
<1>3. Components(d) = Components(c) /\ Nodes(d) = Nodes(c)
  BY <1>2 DEF Components, Nodes
<1>4. d.kids[p] = s /\ \A n \in Nodes(c) \ {p} : d.kids[n] = c.kids[n]
  BY <1>1, <1>2 DEF Shaped
<1>5. Shaped(d)
  BY <1>1, <1>2, <1>3 DEF Shaped
<1>6. \A n \in Nodes(d) : Range(d.kids[n]) = Range(c.kids[n]) /\ NoRepeat(d.kids[n])
  BY <1>1, <1>3, <1>4 DEF ByLists
<1>7. ByLists(d)
  BY <1>1, <1>3, <1>6 DEF ByLists
<1> QED
  BY <1>5, <1>7, ForestByLists DEF d

\* PlaceAfter only changes the order of children.
LEMMA PlaceAfterFacts ==
    ASSUME NEW c, Forest(c), NEW p \in Nodes(c), NEW i,
           \E k \in DOMAIN c.kids[p] : k < Len(c.kids[p]) /\ c.kids[p][k] = i
    PROVE  LET d == PlaceAfter(c, p, i)
           IN  /\ Forest(d) /\ d.node = c.node /\ d.suids = c.suids
               /\ \A n \in Nodes(c) : Range(d.kids[n]) = Range(c.kids[n])
<1> DEFINE old == c.kids[p]
           rest == Front(old)
           k == CHOOSE k \in DOMAIN rest : rest[k] = i
           new == InsertAt(rest, k + 1, Last(old))
<1>1. PlaceAfter(c, p, i) = [c EXCEPT !.kids[p] = new]
  <2>1. p \in DOMAIN c.kids /\ c = [node |-> c.node, kids |-> c.kids, suids |-> c.suids]
    BY DEF Forest
  <2> QED
    BY <2>1 DEF PlaceAfter
<1>2. old \in Seq(Components(c)) /\ NoRepeat(old)
  BY ForestByLists DEF Shaped, ByLists
<1>3. PICK a \in DOMAIN old : a < Len(old) /\ old[a] = i
  OBVIOUS
<1> HIDE DEF old
<1>4. /\ Len(old) \in Nat /\ Len(old) > 0 /\ DOMAIN old = 1 .. Len(old)
      /\ rest \in Seq(Components(c)) /\ Len(rest) = Len(old) - 1 /\ DOMAIN rest = 1 .. Len(old) - 1
      /\ \A j \in 1 .. Len(old) - 1 : rest[j] = old[j]
  <2>1. Len(old) \in Nat /\ Len(old) > 0 /\ DOMAIN old = 1 .. Len(old)
    BY <1>2, <1>3
  <2> QED
    BY <1>2, <2>1 DEF Front
<1> HIDE DEF rest
<1>5. k \in 1 .. Len(old) - 1
  <2>1. a \in DOMAIN rest /\ rest[a] = i
    BY <1>3, <1>4
  <2>2. k \in DOMAIN rest
    BY <2>1
  <2> QED
    BY <1>4, <2>2
<1> HIDE DEF k
<1> DEFINE n == Len(old)
<1>n. n \in Nat /\ k \in Nat /\ 1 <= k /\ k < n
  BY <1>4, <1>5
<1>6. /\ new \in Seq(Components(c)) /\ Len(new) = n
      /\ \A j \in 1 .. n : new[j] = IF j <= k THEN old[j]
                                     ELSE IF j = k + 1 THEN old[n] ELSE old[j - 1]
  <2> DEFINE u == SubSeq(rest, 1, (k + 1) - 1)
             v == <<Last(old)>>
             w == SubSeq(rest, k + 1, Len(rest))
  <2>1. u \in Seq(Components(c)) /\ Len(u) = k /\ \A j \in 1 .. k : u[j] = old[j]
    BY <1>4, <1>5
  <2>2. v \in Seq(Components(c)) /\ Len(v) = 1 /\ v[1] = old[n]
    BY <1>2, <1>4 DEF Last
  <2>3. w \in Seq(Components(c)) /\ Len(w) = n - 1 - k
        /\ \A j \in 1 .. n - 1 - k : w[j] = old[j + k]
    <3>1. Len(rest) = n - 1
      BY <1>4
    <3> HIDE DEF n
    <3>2. w \in Seq(Components(c)) /\ Len(w) = n - 1 - k
      <4>1. k + 1 \in 1 .. Len(rest) + 1 /\ Len(rest) \in Nat /\ rest \in Seq(Components(c))
        BY <1>4, <1>n, <3>1
      <4>2. \A j \in k + 1 .. Len(rest) : rest[j] \in Components(c)
        BY <4>1
      <4>3. w \in Seq(Components(c))
        BY <4>1, <4>2
      <4>4. Len(w) = IF k + 1 <= Len(rest) THEN Len(rest) - (k + 1) + 1 ELSE 0
        BY <4>1
      <4> HIDE DEF w
      <4> QED
        BY <1>n, <3>1, <4>3, <4>4
    <3>3. ASSUME NEW j \in 1 .. n - 1 - k PROVE w[j] = old[j + k]
      <4>1. w[j] = rest[k + 1 + j - 1]
        BY <1>4, <1>n, <3>1
      <4>2. k + 1 + j - 1 = j + k /\ j + k \in 1 .. n - 1
        BY <1>n
      <4> QED
        BY <1>4, <4>1, <4>2 DEF n
    <3> QED
      BY <3>2, <3>3
  <2>4. new = u \o v \o w
    BY DEF InsertAt
  <2> HIDE DEF u, v, w, new, n
  <2> DEFINE x == u \o v
  <2>5. /\ x \in Seq(Components(c)) /\ Len(x) = k + 1
        /\ \A j \in 1 .. k : x[j] = u[j]
        /\ x[k + 1] = v[1]
    <3>1. x \in Seq(Components(c)) /\ Len(x) = Len(u) + Len(v)
      <4> HIDE DEF Components, x
      <4>1. u \in Seq(Components(c)) /\ v \in Seq(Components(c))
        BY <2>1, <2>2
      <4> QED
        BY <4>1, JoinFacts DEF x
    <3>2. \A j \in 1 .. k : x[j] = u[j]
      BY <1>n, <2>1, <2>2
    <3>3. x[k + 1] = v[(k + 1) - k]
      <4>0. u \in Seq(Components(c)) /\ v \in Seq(Components(c)) /\ Len(u) \in Nat /\ Len(v) \in Nat
        BY <1>n, <2>1, <2>2
      <4>1. \A j \in 1 .. Len(u) + Len(v) : x[j] = IF j <= Len(u) THEN u[j] ELSE v[j - Len(u)]
        BY <4>0
      <4>2. Len(u) = k /\ Len(v) = 1 /\ k + 1 \in 1 .. k + 1 /\ ~(k + 1 <= k)
        BY <1>n, <2>1, <2>2
      <4> HIDE DEF x
      <4> QED
        BY <4>1, <4>2
    <3> HIDE DEF x
    <3>4. (k + 1) - k = 1
      BY <1>n
    <3> QED
      BY <2>1, <2>2, <3>1, <3>2, <3>3, <3>4
  <2>a. new = x \o w
    BY <2>4
  <2> HIDE DEF x
  <2>6. /\ new \in Seq(Components(c)) /\ Len(new) = n
        /\ \A j \in 1 .. k + 1 : new[j] = x[j]
        /\ \A j \in k + 2 .. n : new[j] = w[j - (k + 1)]
    <3>1. new \in Seq(Components(c)) /\ Len(new) = Len(x) + Len(w)
      <4>1. w \in Seq(Components(c)) /\ x \in Seq(Components(c))
        BY <2>3, <2>5
      <4> QED
        BY <2>a, <4>1, JoinFacts
    <3>2. ASSUME NEW j \in 1 .. Len(x) + Len(w)
          PROVE  new[j] = IF j <= Len(x) THEN x[j] ELSE w[j - Len(x)]
      BY <2>3, <2>5, <2>a
    <3>3. Len(x) + Len(w) = n
      BY <1>n, <2>3, <2>5
    <3>4. ASSUME NEW j \in 1 .. k + 1 PROVE new[j] = x[j]
      <4>1. j \in 1 .. Len(x) + Len(w) /\ j <= Len(x)
        BY <1>n, <2>5, <3>3
      <4> QED
        BY <3>2, <4>1
    <3>5. ASSUME NEW j \in k + 2 .. n PROVE new[j] = w[j - (k + 1)]
      <4>1. j \in 1 .. Len(x) + Len(w) /\ ~(j <= Len(x)) /\ Len(x) = k + 1
        BY <1>n, <2>5, <3>3
      <4> QED
        BY <3>2, <4>1
    <3> QED
      BY <3>1, <3>3, <3>4, <3>5
  <2>7. ASSUME NEW j \in 1 .. n
        PROVE  new[j] = IF j <= k THEN old[j] ELSE IF j = k + 1 THEN old[n] ELSE old[j - 1]
    <3>1. CASE j <= k
      <4>1. j \in 1 .. k /\ j \in 1 .. k + 1
        BY <1>n, <3>1
      <4> QED
        BY <2>1, <2>5, <2>6, <3>1, <4>1
    <3>2. CASE j = k + 1
      <4>1. k + 1 \in 1 .. k + 1 /\ ~(k + 1 <= k)
        BY <1>n
      <4> QED
        BY <2>2, <2>5, <2>6, <3>2, <4>1
    <3>3. CASE j > k + 1
      <4>1. j - (k + 1) \in 1 .. n - 1 - k /\ (j - (k + 1)) + k = j - 1 /\ j \in k + 2 .. n
        BY <1>n, <3>3
      <4>2. new[j] = old[j - 1]
        BY <2>3, <2>6, <4>1
      <4> QED
        BY <1>n, <3>3, <4>2
    <3> QED
      BY <1>n, <3>1, <3>2, <3>3
  <2> QED
    BY <2>6, <2>7
<1> HIDE DEF new
<1> DEFINE from(j) == IF j <= k THEN j ELSE IF j = k + 1 THEN n ELSE j - 1
<1>d. DOMAIN old = 1 .. n
  BY <1>4
<1> HIDE DEF n
<1>7. \A j \in 1 .. n : from(j) \in 1 .. n /\ new[j] = old[from(j)]
  BY <1>n, <1>6
<1>8. \A j, m \in 1 .. n : from(j) = from(m) => j = m
  BY <1>n
<1>9. \A m \in 1 .. n : \E j \in 1 .. n : from(j) = m
  <2> SUFFICES ASSUME NEW m \in 1 .. n PROVE \E j \in 1 .. n : from(j) = m
    OBVIOUS
  <2>1. CASE m <= k
    BY <2>1
  <2>2. CASE m = n
    <3>1. k + 1 \in 1 .. n /\ ~(k + 1 <= k)
      BY <1>n
    <3>2. from(k + 1) = m
      BY <2>2, <3>1
    <3> QED
      BY <3>1, <3>2
  <2>3. CASE m > k /\ m # n
    <3>1. m + 1 \in 1 .. n /\ ~(m + 1 <= k) /\ m + 1 # k + 1 /\ (m + 1) - 1 = m
      BY <1>n, <2>3
    <3>2. from(m + 1) = m
      BY <3>1
    <3> QED
      BY <3>1, <3>2
  <2>4. m <= k \/ m = n \/ (m > k /\ m # n)
    BY <1>n
  <2> QED
    BY <2>1, <2>2, <2>3, <2>4
<1> HIDE DEF from
<1>10. DOMAIN new = 1 .. n
  BY <1>6
<1>11. NoRepeat(new)
  BY <1>2, <1>d, <1>7, <1>8, <1>10 DEF NoRepeat
<1>12. Range(new) = Range(old)
  <2>1. \A x \in Range(new) : x \in Range(old)
    BY <1>d, <1>7, <1>10 DEF Range
  <2>2. ASSUME NEW x \in Range(old) PROVE x \in Range(new)
    <3>1. PICK m \in 1 .. n : x = old[m]
      BY <1>d DEF Range
    <3>2. PICK j \in 1 .. n : from(j) = m
      BY <1>9
    <3> QED
      BY <1>7, <1>10, <3>1, <3>2 DEF Range
  <2> QED
    BY <2>1, <2>2
<1>13. Forest([c EXCEPT !.kids[p] = new])
  <2>1. Range(new) = Range(c.kids[p])
    BY <1>12 DEF old
  <2> QED
    BY <1>6, <1>11, <2>1, PermuteKids
<1>14. [c EXCEPT !.kids[p] = new].node = c.node /\ [c EXCEPT !.kids[p] = new].suids = c.suids
  <2>1. c = [node |-> c.node, kids |-> c.kids, suids |-> c.suids]
    BY DEF Forest
  <2> QED
    BY <2>1
<1>15. \A x \in Nodes(c) : Range([c EXCEPT !.kids[p] = new].kids[x]) = Range(c.kids[x])
  <2>1. /\ c = [node |-> c.node, kids |-> c.kids, suids |-> c.suids]
        /\ DOMAIN c.kids = Nodes(c)
    BY DEF Forest
  <2>2. \A x \in Nodes(c) : [c EXCEPT !.kids[p] = new].kids[x] = IF x = p THEN new ELSE c.kids[x]
    BY <2>1
  <2> QED
    BY <1>12, <2>2 DEF old
<1> QED
  BY <1>1, <1>13, <1>14, <1>15

-----------------------------------------------------------------------------
(* Contexts and their maps of serial identifiers                           *)

\* What the map finds is there and has the identifier.
Live(c) ==
    \A s \in DOMAIN c.suids :
        s # NoSUID /\ c.suids[s] \in Components(c) /\ c.node[c.suids[s]].suid = s

\* The map finds every component that has an identifier.
Found(c) ==
    \A i \in Components(c) :
        c.node[i].suid # NoSUID => /\ c.node[i].suid \in DOMAIN c.suids
                                   /\ c.suids[c.node[i].suid] = i

ContextSUIDs(c) == SUIDsOf(c, Components(c))

\* No identifier is found twice.
LEMMA FoundApart == ASSUME NEW c, Found(c) PROVE SUIDsApart(c)
  BY DEF Found, SUIDsApart

\* A component is under the identifier that the map has for it.
LEMMA InContextSUIDs ==
    ASSUME NEW c
    PROVE  \A s : s \in ContextSUIDs(c) <=>
                    s # NoSUID /\ \E i \in Components(c) : c.node[i].suid = s
  BY DEF ContextSUIDs, SUIDsOf

\* Attach keeps the map true to the components.
LEMMA AttachSUIDs ==
    ASSUME NEW c, Forest(c), Live(c), NEW es, EntriesOK(es), NEW p \in Nodes(c),
           NEW at \in Seq(Nat), Len(at) = Len(es), NoRepeat(at),
           Range(at) \cap Components(c) = {}
    PROVE  LET d == Attach(c, es, p, at)
           IN  /\ Live(d)
               /\ ContextSUIDs(d) = ContextSUIDs(c) \cup EntrySUIDs(es)
               /\ (/\ Found(c) /\ EntriesApart(es)
                   /\ EntrySUIDs(es) \cap ContextSUIDs(c) = {})
                  => Found(d)
<1> DEFINE d == Attach(c, es, p, at)
<1>1. /\ Forest(d)
      /\ Components(d) = Range(at) \cup Components(c)
      /\ \A i \in Components(c) : d.node[i] = c.node[i]
      /\ \A k \in DOMAIN es : d.node[at[k]].suid = es[k].suid
      /\ d.kids[p] = c.kids[p] \o KidsOf(es, at, 0)
      /\ DOMAIN d.suids = EntrySUIDs(es) \cup DOMAIN c.suids
      /\ \A s \in EntrySUIDs(es) : \E k \in DOMAIN es : es[k].suid = s /\ d.suids[s] = at[k]
      /\ \A s \in DOMAIN c.suids \ EntrySUIDs(es) : d.suids[s] = c.suids[s]
      /\ Shown(c, es, p, at, d)
  BY AttachFacts
<1> HIDE DEF d
<1>2. DOMAIN at = DOMAIN es /\ \A k \in DOMAIN es : at[k] \in Range(at)
  BY DEF EntriesOK, Range
<1>3. \A s : s \in EntrySUIDs(es) <=> s # NoSUID /\ \E k \in DOMAIN es : es[k].suid = s
  BY DEF EntrySUIDs
<1>4. Live(d)
  <2> SUFFICES ASSUME NEW s \in DOMAIN d.suids
               PROVE  s # NoSUID /\ d.suids[s] \in Components(d) /\ d.node[d.suids[s]].suid = s
    BY DEF Live
  <2>1. CASE s \in EntrySUIDs(es)
    <3>1. PICK k \in DOMAIN es : es[k].suid = s /\ d.suids[s] = at[k]
      BY <1>1, <2>1
    <3> QED
      BY <1>1, <1>2, <1>3, <2>1, <3>1
  <2>2. CASE s \notin EntrySUIDs(es)
    <3>1. s \in DOMAIN c.suids /\ d.suids[s] = c.suids[s]
      BY <1>1, <2>2
    <3>2. s # NoSUID /\ c.suids[s] \in Components(c) /\ c.node[c.suids[s]].suid = s
      BY <3>1 DEF Live
    <3> QED
      BY <1>1, <3>1, <3>2
  <2> QED
    BY <2>1, <2>2
<1>5. ASSUME NEW s PROVE s \in ContextSUIDs(d) <=> s \in ContextSUIDs(c) \cup EntrySUIDs(es)
  <2>1. ASSUME s \in ContextSUIDs(d) PROVE s \in ContextSUIDs(c) \cup EntrySUIDs(es)
    <3>1. PICK i \in Components(d) : d.node[i].suid = s /\ s # NoSUID
      BY <2>1, InContextSUIDs
    <3>2. CASE i \in Components(c)
      BY <1>1, <3>1, <3>2, InContextSUIDs
    <3>3. CASE i \in Range(at)
      <4>1. PICK k \in DOMAIN es : i = at[k]
        BY <1>2, <3>3 DEF Range
      <4> QED
        BY <1>1, <1>3, <3>1, <4>1
    <3> QED
      BY <1>1, <3>2, <3>3
  <2>2. ASSUME s \in ContextSUIDs(c) PROVE s \in ContextSUIDs(d)
    BY <1>1, <2>2, InContextSUIDs
  <2>3. ASSUME s \in EntrySUIDs(es) PROVE s \in ContextSUIDs(d)
    BY <1>1, <1>2, <1>3, <2>3, InContextSUIDs
  <2> QED
    BY <2>1, <2>2, <2>3
<1>6. ASSUME Found(c), EntriesApart(es), EntrySUIDs(es) \cap ContextSUIDs(c) = {} PROVE Found(d)
  <2> SUFFICES ASSUME NEW i \in Components(d), d.node[i].suid # NoSUID
               PROVE  d.node[i].suid \in DOMAIN d.suids /\ d.suids[d.node[i].suid] = i
    BY DEF Found
  <2>1. CASE i \in Components(c)
    <3> DEFINE s == c.node[i].suid
    <3>1. d.node[i].suid = s /\ s \in ContextSUIDs(c)
      BY <1>1, <2>1, InContextSUIDs
    <3>2. s \notin EntrySUIDs(es) /\ s \in DOMAIN c.suids /\ c.suids[s] = i
      BY <1>6, <2>1, <3>1 DEF Found
    <3> HIDE DEF s
    <3> QED
      BY <1>1, <3>1, <3>2
  <2>2. CASE i \in Range(at)
    <3>1. PICK k \in DOMAIN es : i = at[k]
      BY <1>2, <2>2 DEF Range
    <3>2. d.node[i].suid = es[k].suid /\ es[k].suid \in EntrySUIDs(es)
      BY <1>1, <1>3, <3>1
    <3>3. PICK j \in DOMAIN es : es[j].suid = es[k].suid /\ d.suids[es[k].suid] = at[j]
      BY <1>1, <3>2
    <3>4. j = k
      BY <1>3, <1>6, <3>2, <3>3 DEF EntriesApart
    <3> QED
      BY <1>1, <3>1, <3>2, <3>3, <3>4
  <2> QED
    BY <1>1, <2>1, <2>2
<1> QED
  BY <1>4, <1>5, <1>6 DEF d

\* So does Prune.
LEMMA PruneSUIDs ==
    ASSUME NEW c, Forest(c), Live(c), NEW i \in Components(c)
    PROVE  LET d == Prune(c, i)
           IN  /\ Live(d)
               /\ Found(c) => Found(d)
               /\ ContextSUIDs(c) \ SUIDsOf(c, Subtree(c, i)) \subseteq ContextSUIDs(d)
<1> DEFINE d == Prune(c, i)
           X == Subtree(c, i)
<1>1. /\ Components(d) = Components(c) \ X
      /\ \A x \in Components(d) : d.node[x] = c.node[x]
      /\ DOMAIN d.suids = DOMAIN c.suids \ SUIDsOf(c, X)
      /\ \A s \in DOMAIN d.suids : d.suids[s] = c.suids[s]
  BY PruneFacts
<1> HIDE DEF d, X
<1>2. \A s : s \in SUIDsOf(c, X) <=> s # NoSUID /\ \E x \in X : c.node[x].suid = s
  BY DEF SUIDsOf
<1>3. Live(d)
  <2> SUFFICES ASSUME NEW s \in DOMAIN d.suids
               PROVE  s # NoSUID /\ d.suids[s] \in Components(d) /\ d.node[d.suids[s]].suid = s
    BY DEF Live
  <2>1. d.suids[s] = c.suids[s] /\ s \in DOMAIN c.suids /\ s \notin SUIDsOf(c, X)
    BY <1>1
  <2>2. s # NoSUID /\ c.suids[s] \in Components(c) /\ c.node[c.suids[s]].suid = s
    BY <2>1 DEF Live
  <2>3. c.suids[s] \notin X
    BY <1>2, <2>1, <2>2
  <2> QED
    BY <1>1, <2>1, <2>2, <2>3
<1>4. ASSUME Found(c) PROVE Found(d)
  <2> SUFFICES ASSUME NEW x \in Components(d), d.node[x].suid # NoSUID
               PROVE  d.node[x].suid \in DOMAIN d.suids /\ d.suids[d.node[x].suid] = x
    BY DEF Found
  <2> DEFINE s == c.node[x].suid
  <2>1. x \in Components(c) /\ x \notin X /\ d.node[x].suid = s /\ s # NoSUID
    BY <1>1
  <2>2. s \in DOMAIN c.suids /\ c.suids[s] = x
    BY <1>4, <2>1 DEF Found
  <2>3. s \notin SUIDsOf(c, X)
    <3> SUFFICES ASSUME NEW y \in X, c.node[y].suid = s PROVE FALSE
      BY <1>2
    <3>1. y \in Components(c)
      BY PruneFacts DEF X
    <3>2. c.suids[c.node[y].suid] = y
      BY <1>4, <2>1, <3>1 DEF Found
    <3> QED
      BY <2>1, <2>2, <3>2
  <2> HIDE DEF s
  <2> QED
    BY <1>1, <2>1, <2>2, <2>3
<1>5. ASSUME NEW s \in ContextSUIDs(c), s \notin SUIDsOf(c, X) PROVE s \in ContextSUIDs(d)
  <2>1. PICK x \in Components(c) : c.node[x].suid = s /\ s # NoSUID
    BY InContextSUIDs
  <2>2. x \in Components(d)
    BY <1>1, <1>2, <1>5, <2>1
  <2> QED
    BY <1>1, <2>1, <2>2, InContextSUIDs
<1> QED
  BY <1>3, <1>4, <1>5 DEF d, X

\* A context without components.
LEMMA EmptyFacts ==
    /\ Forest(EmptyContext) /\ Live(EmptyContext) /\ Found(EmptyContext)
    /\ Components(EmptyContext) = {} /\ ContextSUIDs(EmptyContext) = {}
    /\ Live(NoContext) /\ Found(NoContext)
    /\ Components(NoContext) = {} /\ ContextSUIDs(NoContext) = {}
<1>1. DOMAIN <<>> = {}
  OBVIOUS
<1>2. \A S : <<>> \in [{} -> S]
  OBVIOUS
<1>3. /\ Components(EmptyContext) = {} /\ Nodes(EmptyContext) = {Root}
      /\ Components(NoContext) = {}
  BY <1>1 DEF EmptyContext, NoContext, Components, Nodes
<1>4. ContextSUIDs(EmptyContext) = {} /\ ContextSUIDs(NoContext) = {}
  BY <1>3 DEF ContextSUIDs, SUIDsOf
<1>5. Found(EmptyContext) /\ Found(NoContext)
  BY <1>3 DEF Found
<1>6. Live(EmptyContext) /\ Live(NoContext)
  <2>1. EmptyContext.suids = <<>> /\ NoContext.suids = <<>>
    BY DEF EmptyContext, NoContext
  <2> QED
    BY <1>1, <2>1 DEF Live
<1>7. Shaped(EmptyContext)
  <2>1. EmptyContext.node \in [Components(EmptyContext) -> ComponentData]
    <3>1. EmptyContext.node = <<>>
      BY DEF EmptyContext
    <3> QED
      BY <1>2, <1>3, <3>1
  <2>2. /\ EmptyContext.kids \in [Nodes(EmptyContext) -> Seq(Components(EmptyContext))]
        /\ EmptyContext = [node |-> EmptyContext.node, kids |-> EmptyContext.kids,
                           suids |-> EmptyContext.suids]
    <3>1. \A S : <<>> \in Seq(S)
      OBVIOUS
    <3>2. EmptyContext.kids = [p \in {Root} |-> <<>>]
      BY DEF EmptyContext
    <3>3. EmptyContext = [node |-> EmptyContext.node, kids |-> EmptyContext.kids,
                           suids |-> EmptyContext.suids]
      BY DEF EmptyContext
    <3> QED
      BY <1>3, <3>1, <3>2, <3>3
  <2> QED
    BY <1>3, <2>1, <2>2, FS_EmptySet DEF Shaped
<1>8. ByLists(EmptyContext)
  <2>1. EmptyContext.kids[Root] = <<>>
    BY DEF EmptyContext
  <2>2. Range(<<>>) = {} /\ NoRepeat(<<>>)
    BY <1>1 DEF Range, NoRepeat
  <2>3. [n \in {Root} |-> 0] \in [{Root} -> Nat]
    OBVIOUS
  <2> QED
    BY <1>3, <2>1, <2>2, <2>3 DEF ByLists
<1> QED
  BY <1>3, <1>4, <1>5, <1>6, <1>7, <1>8, ForestByLists

-----------------------------------------------------------------------------
(* Indices                                                                 *)

\* ind hands out no index of L, and none twice.
IndicesOK(ind, L) ==
    /\ ind = [used |-> ind.used, free |-> ind.free]
    /\ ind.used \in Nat /\ ind.free \in Seq(Nat)
    /\ NoRepeat(ind.free)
    /\ \A x \in Range(ind.free) \cup L : x \in Nat /\ x < ind.used
    /\ Range(ind.free) \cap L = {}

\* What a context loses is not in use any more.
LEMMA IndicesShrink ==
    ASSUME NEW ind, NEW L, NEW M \in SUBSET L, IndicesOK(ind, L) PROVE IndicesOK(ind, M)
  BY DEF IndicesOK

NextIndices(n) == [k \in 1 .. n |-> NthIndex(k)]

\* The indices that IDRegistry::create hands out belong to nothing else.
LEMMA TakeIndicesFacts ==
    ASSUME NEW L, IndicesOK(indices, L), NEW n \in Nat, TakeIndices(n)
    PROVE  /\ NextIndices(n) \in Seq(Nat) /\ Len(NextIndices(n)) = n
           /\ NoRepeat(NextIndices(n)) /\ Range(NextIndices(n)) \cap L = {}
           /\ IndicesOK(indices', L \cup Range(NextIndices(n)))
<1> DEFINE at == NextIndices(n)
           free == indices.free
           used == indices.used
           len == Len(free)
           NewFree == indices'.free
           NewUsed == indices'.used
<1>1. /\ used \in Nat /\ free \in Seq(Nat) /\ NoRepeat(free)
      /\ indices = [used |-> used, free |-> free]
      /\ \A x \in Range(free) \cup L : x \in Nat /\ x < used
      /\ Range(free) \cap L = {}
  BY DEF IndicesOK
<1>2. len \in Nat /\ DOMAIN free = 1 .. len /\ \A j \in 1 .. len : free[j] \in Range(free)
  BY <1>1 DEF Range
<1>3. at = [k \in 1 .. n |-> NthIndex(k)]
  BY DEF NextIndices
<1>4. /\ \A k \in 1 .. n : k <= len => NthIndex(k) = free[len + 1 - k]
      /\ \A k \in 1 .. n : ~(k <= len) => NthIndex(k) = used + k - 1 - len
  BY DEF NthIndex
<1>5. /\ indices' = [used |-> NewUsed, free |-> NewFree]
      /\ n <= len => NewUsed = used /\ NewFree = SubSeq(free, 1, len - n)
      /\ ~(n <= len) => NewUsed = used + (n - len) /\ NewFree = <<>>
  <2>1. CASE n <= len
    <3>1. len - n >= 0
      BY <1>2, <2>1
    <3>2. indices' = [used |-> used, free |-> SubSeq(free, 1, len - n)]
      BY <1>1, <3>1 DEF TakeIndices
    <3> QED
      BY <2>1, <3>2
  <2>2. CASE ~(n <= len)
    <3>1. ~(len - n >= 0) /\ used - (len - n) = used + (n - len)
      BY <1>1, <1>2, <2>2
    <3>2. indices' = [used |-> used - (len - n), free |-> <<>>]
      BY <3>1 DEF TakeIndices
    <3> QED
      BY <2>2, <3>1, <3>2
  <2> QED
    BY <2>1, <2>2
<1> HIDE DEF at, free, used, len, NewFree, NewUsed
\* From the free list or never used before.
<1>6. ASSUME NEW k \in 1 .. n
      PROVE  \/ /\ k <= len /\ len + 1 - k \in 1 .. len /\ at[k] = free[len + 1 - k]
                /\ at[k] \in Range(free)
             \/ /\ ~(k <= len) /\ at[k] = used + k - 1 - len /\ at[k] >= used
                /\ at[k] \in Nat /\ at[k] < used + (n - len) /\ ~(n <= len)
  <2>1. CASE k <= len
    <3>1. len + 1 - k \in 1 .. len
      BY <1>2, <2>1
    <3> QED
      BY <1>2, <1>3, <1>4, <2>1, <3>1
  <2>2. CASE ~(k <= len)
    <3>1. at[k] = used + k - 1 - len
      BY <1>3, <1>4, <2>2
    <3> QED
      BY <1>1, <1>2, <2>2, <3>1
  <2> QED
    BY <2>1, <2>2
<1>7. \A k \in 1 .. n : at[k] \in Nat
  BY <1>1, <1>6
<1>8. at \in Seq(Nat) /\ Len(at) = n /\ DOMAIN at = 1 .. n
  <2>1. at = [k \in 1 .. n |-> at[k]]
    BY <1>3
  <2> QED
    BY <1>7, <2>1
<1>9. NoRepeat(at)
  <2> SUFFICES ASSUME NEW j \in 1 .. n, NEW k \in 1 .. n, at[j] = at[k] PROVE j = k
    BY <1>8 DEF NoRepeat
  <2>1. CASE j <= len /\ k <= len
    <3>1. len + 1 - j = len + 1 - k
      BY <1>1, <1>2, <1>6, <2>1 DEF NoRepeat
    <3> QED
      BY <1>2, <3>1
  <2>2. CASE ~(j <= len) /\ ~(k <= len)
    <3>1. used + j - 1 - len = used + k - 1 - len
      BY <1>6, <2>2
    <3> QED
      BY <1>1, <1>2, <3>1
  <2>3. ASSUME NEW a \in 1 .. n, NEW b \in 1 .. n, a <= len, ~(b <= len) PROVE at[a] # at[b]
    <3>1. at[a] \in Nat /\ at[a] < used /\ at[b] \in Nat /\ at[b] >= used
      BY <1>1, <1>6, <2>3
    <3> QED
      BY <1>1, <3>1
  <2> QED
    BY <2>1, <2>2, <2>3
<1>10. ASSUME NEW x \in Range(at)
       PROVE  x \in Nat /\ x < NewUsed /\ x \notin L /\ x \notin Range(NewFree)
  <2>1. PICK k \in 1 .. n : x = at[k]
    BY <1>8 DEF Range
  <2>2. CASE k <= len
    <3>1. x = free[len + 1 - k] /\ x \in Range(free) /\ len + 1 - k \in 1 .. len
      BY <1>6, <2>1, <2>2
    <3>2. x \in Nat /\ x < used /\ x \notin L
      BY <1>1, <3>1
    <3>3. NewUsed \in Nat /\ used <= NewUsed
      BY <1>1, <1>2, <1>5
    <3>4. x \notin Range(NewFree)
      <4>1. CASE n <= len
        <5> SUFFICES ASSUME NEW j \in DOMAIN NewFree, NewFree[j] = x PROVE FALSE
          BY DEF Range
        <5>1. NewFree = SubSeq(free, 1, len - n) /\ len - n \in Nat
          BY <1>2, <1>5, <4>1
        <5>2. DOMAIN NewFree = 1 .. len - n
          BY <1>1, <1>2, <5>1
        <5>3. NewFree[j] = free[j] /\ j \in 1 .. len
          BY <1>1, <1>2, <5>1, <5>2
        <5>4. j = len + 1 - k
          BY <1>1, <1>2, <3>1, <5>3 DEF NoRepeat
        <5> QED
          BY <1>2, <5>2, <5>4
      <4>2. CASE ~(n <= len)
        BY <1>5, <4>2 DEF Range
      <4> QED
        BY <4>1, <4>2
    <3> QED
      BY <1>1, <3>2, <3>3, <3>4
  <2>3. CASE ~(k <= len)
    <3>1. x >= used /\ x \in Nat /\ x < used + (n - len) /\ ~(n <= len)
      BY <1>6, <2>1, <2>3
    <3>2. NewUsed = used + (n - len) /\ NewFree = <<>>
      BY <1>5, <3>1
    <3>3. x \notin L
      BY <1>1, <3>1
    <3>4. Range(NewFree) = {}
      BY <3>2 DEF Range
    <3> QED
      BY <3>1, <3>2, <3>3, <3>4
  <2> QED
    BY <2>2, <2>3
<1>11. /\ NewUsed \in Nat /\ used <= NewUsed /\ NewFree \in Seq(Nat) /\ NoRepeat(NewFree)
       /\ Range(NewFree) \subseteq Range(free)
  <2>1. CASE n <= len
    <3>1. NewFree = SubSeq(free, 1, len - n) /\ len - n \in Nat /\ len - n <= len
      BY <1>2, <1>5, <2>1
    <3>2. NewFree \in Seq(Nat) /\ DOMAIN NewFree = 1 .. len - n
      BY <1>1, <1>2, <3>1
    <3>3. \A j \in DOMAIN NewFree : NewFree[j] = free[j] /\ j \in 1 .. len
      BY <1>1, <1>2, <3>1, <3>2
    <3>4. NoRepeat(NewFree)
      BY <1>1, <1>2, <3>3 DEF NoRepeat
    <3>5. Range(NewFree) \subseteq Range(free)
      BY <1>2, <3>3 DEF Range
    <3>6. NewUsed = used
      BY <1>5, <2>1
    <3> QED
      BY <1>1, <3>2, <3>4, <3>5, <3>6
  <2>2. CASE ~(n <= len)
    <3>1. NewFree = <<>> /\ DOMAIN <<>> = {}
      BY <1>5, <2>2
    <3>2. NewFree \in Seq(Nat) /\ NoRepeat(NewFree) /\ Range(NewFree) = {}
      BY <3>1 DEF NoRepeat, Range
    <3>3. NewUsed \in Nat /\ used <= NewUsed
      BY <1>1, <1>2, <1>5, <2>2
    <3> QED
      BY <3>2, <3>3
  <2> QED
    BY <2>1, <2>2
<1>12. IndicesOK(indices', L \cup Range(at))
  <2>1. \A x \in Range(NewFree) \cup L \cup Range(at) : x \in Nat /\ x < NewUsed
    <3>1. \A x \in Range(free) \cup L : x \in Nat /\ x < NewUsed
      BY <1>1, <1>11
    <3> QED
      BY <1>10, <1>11, <3>1
  <2>2. Range(NewFree) \cap (L \cup Range(at)) = {}
    BY <1>1, <1>10, <1>11
  <2>3. indices' = [used |-> indices'.used, free |-> indices'.free]
    BY <1>5 DEF NewUsed, NewFree
  <2> HIDE DEF at
  <2> QED
    BY <1>11, <2>1, <2>2, <2>3 DEF IndicesOK, NewUsed, NewFree
<1> QED
  BY <1>8, <1>9, <1>10, <1>12 DEF at

\* Indices that are given back are free, each once.
LEMMA GiveBackFacts ==
    ASSUME NEW L, NEW ind, IndicesOK(ind, L), NEW s \in Seq(L), NoRepeat(s)
    PROVE  IndicesOK([ind EXCEPT !.free = @ \o s], L \ Range(s))
<1> DEFINE free == ind.free
           new == free \o s
<1>1. /\ ind = [used |-> ind.used, free |-> free] /\ ind.used \in Nat
      /\ free \in Seq(Nat) /\ NoRepeat(free) /\ Range(free) \cap L = {}
      /\ \A x \in Range(free) \cup L : x \in Nat /\ x < ind.used
  BY DEF IndicesOK
<1>2. [ind EXCEPT !.free = @ \o s] = [used |-> ind.used, free |-> new]
  <2>1. [ind EXCEPT !.free = @ \o s] = [ind EXCEPT !.free = new]
    OBVIOUS
  <2> HIDE DEF new
  <2>2. PICK u, f : ind = [used |-> u, free |-> f]
    BY <1>1
  <2>3. [ind EXCEPT !.free = new] = [used |-> u, free |-> new]
    BY <2>2
  <2> QED
    BY <2>1, <2>2, <2>3
<1>3. Range(s) \subseteq L
  BY RangeSize
<1>4. s \in Seq(Nat)
  <2>1. L \subseteq Nat
    BY <1>1
  <2>2. Len(s) \in Nat /\ s = [k \in 1 .. Len(s) |-> s[k]] /\ \A k \in 1 .. Len(s) : s[k] \in L
    OBVIOUS
  <2> QED
    BY <2>1, <2>2
<1> HIDE DEF free
<1>5. new \in Seq(Nat) /\ NoRepeat(new) /\ Range(new) = Range(free) \cup Range(s)
  <2>1. Range(free) \cap Range(s) = {}
    BY <1>1, <1>3
  <2> QED
    BY <1>1, <1>4, <2>1, JoinFacts
<1> HIDE DEF new
<1>6. /\ \A x \in Range(new) \cup (L \ Range(s)) : x \in Nat /\ x < ind.used
      /\ Range(new) \cap (L \ Range(s)) = {}
  BY <1>1, <1>3, <1>5
<1> QED
  BY <1>1, <1>2, <1>5, <1>6 DEF IndicesOK

-----------------------------------------------------------------------------
(* Serial identifiers                                                      *)

\* The next n identifiers are free and all different.
LEMMA FreeNthSUIDs ==
    ASSUME counter \in SUID, NEW n \in Nat, n <= Cardinality(FreeSUIDs)
    PROVE  /\ \A k \in 1 .. n : NthSUID(k) \in SUID \ registered
           /\ \A k, l \in 1 .. n : NthSUID(k) = NthSUID(l) => k = l
<1> DEFINE G == FreeSUIDs
           w == [s \in G |-> WalkTo(s)]
<1>1. G \subseteq SUID /\ IsFiniteSet(G)
  <2>1. IsFiniteSet(SUID)
    BY SUIDConstants, FS_Interval DEF SUID
  <2> QED
    BY <2>1, FS_Subset DEF FreeSUIDs
<1>2. \A s, t \in SUID : WalkTo(s) \in Nat /\ (WalkTo(s) = WalkTo(t) => s = t)
  <2>1. \A s \in SUID : WalkTo(s) = IF counter <= s THEN s - counter ELSE s - counter + IdentityMask
    BY SUIDConstants DEF WalkTo, SUID
  <2> QED
    BY <2>1, SUIDConstants DEF SUID
<1>3. Cardinality(G) \in Nat /\ Cardinality(G) >= n
  BY <1>1, FS_CardinalityType
<1>4. ASSUME NEW k \in 1 .. n
      PROVE  NthSUID(k) \in G /\ Cardinality(Lower(G, w, NthSUID(k))) = k - 1
  <2>1. k \in 1 .. Cardinality(G)
    BY <1>3
  <2>2. w \in [G -> Nat] /\ \A s, t \in G : w[s] = w[t] => s = t
    BY <1>1, <1>2
  <2>3. \A s \in G : Lower(G, w, s) = {t \in G : WalkTo(t) < WalkTo(s)}
    BY DEF Lower
  <2>4. \E s \in G : Cardinality(Lower(G, w, s)) = k - 1
    <3> HIDE DEF G, w
    <3> QED
      BY <1>1, <2>1, <2>2, RankExists
  <2>5. NthSUID(k) = CHOOSE s \in G : Cardinality({t \in G : WalkTo(t) < WalkTo(s)}) = k - 1
    BY DEF NthSUID
  <2> HIDE DEF G, w
  <2>6. \E s \in G : Cardinality({t \in G : WalkTo(t) < WalkTo(s)}) = k - 1
    BY <2>3, <2>4
  <2>7. NthSUID(k) \in G /\ Cardinality({t \in G : WalkTo(t) < WalkTo(NthSUID(k))}) = k - 1
    BY <2>5, <2>6
  <2> QED
    BY <2>3, <2>7
<1>5. ASSUME NEW k \in 1 .. n, NEW l \in 1 .. n, NthSUID(k) = NthSUID(l) PROVE k = l
  <2>1. k - 1 = l - 1
    BY <1>4, <1>5
  <2> QED
    BY <2>1
<1>6. \A k \in 1 .. n : NthSUID(k) \in SUID \ registered
  BY <1>4 DEF FreeSUIDs
<1> QED
  BY <1>5, <1>6

\* The identifiers that n calls of get_suid hand out are free and all different.
LEMMA NthSUIDs ==
    ASSUME counter \in SUID, NEW n \in Nat, GetSUIDs(n)
    PROVE  /\ counter' \in SUID
           /\ registered' = registered \cup {NthSUID(k) : k \in 1 .. n}
           /\ \A k \in 1 .. n : NthSUID(k) \in SUID \ registered
           /\ \A k, l \in 1 .. n : NthSUID(k) = NthSUID(l) => k = l
<1>5. \A k, l \in 1 .. n : NthSUID(k) = NthSUID(l) => k = l
  BY FreeNthSUIDs DEF GetSUIDs
<1>6. /\ registered' = registered \cup {NthSUID(k) : k \in 1 .. n}
      /\ counter' = IF n = 0 THEN counter ELSE (NthSUID(n) + 1) % IdentityMask
  BY DEF GetSUIDs
<1>7. \A k \in 1 .. n : NthSUID(k) \in SUID \ registered
  BY FreeNthSUIDs DEF GetSUIDs
<1>8. counter' \in SUID
  <2>1. \A s \in SUID : (s + 1) % IdentityMask \in SUID
    BY SUIDConstants DEF SUID
  <2> QED
    BY <1>6, <1>7, <2>1
<1> QED
  BY <1>5, <1>6, <1>7, <1>8

-----------------------------------------------------------------------------
(* The scene                                                               *)

ContextOK(c) == Forest(c) /\ Live(c)
Size(c) == Cardinality(Components(c))
Used == Components(active) \cup Components(backup)

SceneOK ==
    /\ counter \in SUID
    /\ ContextOK(active)
    /\ backup = NoContext \/ ContextOK(backup)
    /\ Components(active) \cap Components(backup) = {}
    /\ IndicesOK(indices, Used)
    /\ handles \in Int /\ orphans \in Nat
    /\ HandlesAccounted

\* What an edit of the active context keeps, unless it hands out an identifier
\* that is in use.
EditKeeps ==
    /\ SceneOK'
    /\ UNCHANGED <<state, backup>>
    /\ Found(active) /\ "reissued" \notin excuse => Reissued \/ Found(active')
    /\ registered \subseteq ContextSUIDs(active) => registered' \subseteq ContextSUIDs(active')

\* The contexts have finitely many components.
LEMMA SizeFacts ==
    ASSUME SceneOK
    PROVE  /\ IsFiniteSet(Components(active)) /\ Size(active) \in Nat
           /\ IsFiniteSet(Components(backup)) /\ Size(backup) \in Nat
           /\ handles = Size(active) + Size(backup) + orphans
<1>1. IsFiniteSet(Components(active))
  BY DEF SceneOK, ContextOK, Forest
<1>2. IsFiniteSet(Components(backup))
  <2>1. IsFiniteSet(Components(NoContext))
    BY EmptyFacts, FS_EmptySet
  <2> QED
    BY <2>1 DEF SceneOK, ContextOK, Forest
<1> QED
  BY <1>1, <1>2, FS_CardinalityType DEF Size, SceneOK, HandlesAccounted

\* New components under indices that nothing else has.
LEMMA GraftStep ==
    ASSUME SceneOK, NEW c, ContextOK(c), Components(c) \subseteq Used, NEW p \in Nodes(c),
           NEW es, EntriesOK(es), TakeIndices(Len(es))
    PROVE  LET d == Graft(c, es, p)
           IN  /\ ContextOK(d)
               /\ Components(d) \cap Used = Components(c)
               /\ Size(d) = Size(c) + Len(es)
               /\ IndicesOK(indices', Used \cup Components(d))
               /\ ContextSUIDs(d) = ContextSUIDs(c) \cup EntrySUIDs(es)
               /\ (/\ Found(c) /\ EntriesApart(es)
                   /\ EntrySUIDs(es) \cap ContextSUIDs(c) = {})
                  => Found(d)
               /\ \A k \in DOMAIN c.kids[p] : d.kids[p][k] = c.kids[p][k] /\ k \in DOMAIN d.kids[p]
               /\ DOMAIN es # {} => Len(d.kids[p]) > Len(c.kids[p])
<1> DEFINE at == NextIndices(Len(es))
           d == Graft(c, es, p)
<1>1. Len(es) \in Nat /\ DOMAIN es = 1 .. Len(es)
  BY DEF EntriesOK
<1>2. IndicesOK(indices, Used)
  BY DEF SceneOK
<1>3. /\ at \in Seq(Nat) /\ Len(at) = Len(es) /\ NoRepeat(at) /\ Range(at) \cap Used = {}
      /\ IndicesOK(indices', Used \cup Range(at))
  <2> HIDE DEF Used
  <2> QED
    BY <1>1, <1>2, TakeIndicesFacts
<1>4. d = Attach(c, es, p, at)
  BY <1>1 DEF Graft, NextIndices
<1> HIDE DEF at
<1>5. Range(at) \cap Components(c) = {} /\ Forest(c) /\ Live(c)
  BY <1>3 DEF ContextOK
<1>6. /\ Forest(d) /\ Components(d) = Range(at) \cup Components(c)
      /\ d.kids[p] = c.kids[p] \o KidsOf(es, at, 0)
  BY <1>3, <1>4, <1>5, AttachFacts
<1>7. /\ Live(d) /\ ContextSUIDs(d) = ContextSUIDs(c) \cup EntrySUIDs(es)
      /\ (/\ Found(c) /\ EntriesApart(es)
          /\ EntrySUIDs(es) \cap ContextSUIDs(c) = {})
         => Found(d)
  BY <1>3, <1>4, <1>5, AttachSUIDs
<1> HIDE DEF d
<1>8. Components(d) \cap Used = Components(c)
  BY <1>3, <1>6
<1>9. Size(d) = Size(c) + Len(es)
  <2>1. IsFiniteSet(Range(at)) /\ Cardinality(Range(at)) = Len(es)
    BY <1>3, RangeSize
  <2>2. IsFiniteSet(Components(c)) /\ Cardinality(Components(c)) \in Nat
    BY <1>5, FS_CardinalityType DEF Forest
  <2>3. Cardinality(Range(at) \cup Components(c))
          = Cardinality(Range(at)) + Cardinality(Components(c)) - Cardinality(Range(at) \cap Components(c))
    BY <2>1, <2>2, FS_Union
  <2>4. Cardinality(Range(at) \cap Components(c)) = 0
    BY <1>5, FS_EmptySet
  <2> QED
    BY <1>1, <1>6, <2>1, <2>2, <2>3, <2>4 DEF Size
<1>10. IndicesOK(indices', Used \cup Components(d))
  <2>1. Used \cup Components(d) = Used \cup Range(at)
    BY <1>6
  <2> QED
    BY <1>3, <2>1
<1> DEFINE old == c.kids[p]
           more == KidsOf(es, at, 0)
<1>11. old \in Seq(Components(c)) /\ more \in Seq(Range(at))
  <2>1. old \in Seq(Components(c))
    BY <1>5 DEF Forest
  <2>2. more \in Seq(Range(at))
    BY <1>3, KidsOfFacts
  <2> QED
    BY <2>1, <2>2
<1>12. DOMAIN es # {} => Len(more) > 0
  <2> SUFFICES ASSUME DOMAIN es # {} PROVE Len(more) > 0
    OBVIOUS
  <2>1. 1 \in DOMAIN es /\ es[1].parent = 0
    <3>1. 1 \in DOMAIN es
      BY <1>1
    <3>2. es[1] \in Entry /\ es[1].parent < 1
      BY <3>1 DEF EntriesOK
    <3>3. es[1].parent \in Nat
      BY <3>2 DEF Entry
    <3> QED
      BY <3>1, <3>2, <3>3
  <2>2. at[1] \in Range(more)
    BY <1>3, <2>1, KidsOfFacts
  <2>3. Len(more) \in Nat /\ DOMAIN more = 1 .. Len(more)
    BY <1>11
  <2>4. DOMAIN more # {}
    BY <2>2 DEF Range
  <2> HIDE DEF more
  <2> QED
    BY <2>3, <2>4
<1> HIDE DEF old, more
<1>13. /\ \A k \in DOMAIN old : (old \o more)[k] = old[k] /\ k \in DOMAIN (old \o more)
       /\ Len(old \o more) = Len(old) + Len(more)
  <2>1. Len(old) \in Nat /\ DOMAIN old = 1 .. Len(old) /\ Len(more) \in Nat
        /\ DOMAIN more = 1 .. Len(more)
    BY <1>11
  <2>2. /\ Len(old \o more) = Len(old) + Len(more)
        /\ DOMAIN (old \o more) = 1 .. Len(old) + Len(more)
        /\ \A k \in 1 .. Len(old) + Len(more) :
              (old \o more)[k] = IF k <= Len(old) THEN old[k] ELSE more[k - Len(old)]
    BY <1>11, <2>1
  <2> QED
    BY <2>1, <2>2
<1>14. Len(old) \in Nat /\ Len(more) \in Nat
  BY <1>11
<1>15. DOMAIN es # {} => Len(old \o more) > Len(old)
  BY <1>12, <1>13, <1>14
<1>16. d.kids[p] = old \o more
  BY <1>6 DEF old, more
<1> QED
  BY <1>6, <1>7, <1>8, <1>9, <1>10, <1>13, <1>15, <1>16 DEF ContextOK, d, old

\* The active context with the new components.
LEMMA GraftActive ==
    ASSUME SceneOK, NEW p \in Nodes(active), NEW es, EntriesOK(es), TakeIndices(Len(es)),
           NEW d, ContextOK(d), Components(d) = Components(Graft(active, es, p)),
           active' = d, counter' \in SUID,
           handles' = handles + Len(es), UNCHANGED <<backup, orphans>>
    PROVE  SceneOK'
<1> DEFINE c == Graft(active, es, p)
<1>1. ContextOK(active) /\ Components(active) \subseteq Used
  BY DEF SceneOK, Used
<1>2. /\ Components(c) \cap Used = Components(active) /\ Size(c) = Size(active) + Len(es)
      /\ IndicesOK(indices', Used \cup Components(c))
  BY <1>1, GraftStep
<1> HIDE DEF c
<1>3. Components(d) = Components(c)
  BY DEF c
<1>4. Components(active) \cap Components(backup) = {} /\ (backup = NoContext \/ ContextOK(backup))
  BY DEF SceneOK
<1>5. Components(d) \cap Components(backup) = {}
  BY <1>2, <1>3, <1>4 DEF Used
<1>6. IndicesOK(indices', Components(d) \cup Components(backup))
  <2>1. Components(d) \cup Components(backup) \subseteq Used \cup Components(c)
    BY <1>3 DEF Used
  <2> HIDE DEF Used
  <2> QED
    BY <1>2, <2>1, IndicesShrink
<1>7. Size(d) = Size(active) + Len(es)
  BY <1>2, <1>3 DEF Size
<1>8. Len(es) \in Nat
  BY DEF EntriesOK
<1>9. /\ Size(active) \in Nat /\ Size(backup) \in Nat /\ orphans \in Nat /\ handles \in Int
      /\ handles = Size(active) + Size(backup) + orphans
  BY SizeFacts DEF SceneOK
<1>10. handles' \in Int /\ handles' = Size(d) + Size(backup) + orphans
  BY <1>7, <1>8, <1>9
<1> QED
  BY <1>4, <1>5, <1>6, <1>9, <1>10 DEF SceneOK, HandlesAccounted, Size, Used

\* A component is created below another one or the root.
LEMMA CreateStep ==
    ASSUME SceneOK, NEW p \in Nodes(active), CreateComponentSerial(p)
    PROVE  EditKeeps
<1> DEFINE s == NthSUID(1)
           e == [suid |-> s, data |-> Fresh, parent |-> 0]
           es == <<e>>
<1>1. /\ TakeIndices(1) /\ GetSUIDs(1) /\ active' = Graft(active, es, p)
      /\ handles' = handles + 1 /\ UNCHANGED <<state, backup, orphans>>
  BY DEF CreateComponentSerial
<1>2. /\ counter' \in SUID /\ s \in SUID \ registered
      /\ registered' = registered \cup {s}
  <2>1. counter \in SUID
    BY DEF SceneOK
  <2>2. /\ counter' \in SUID /\ registered' = registered \cup {NthSUID(k) : k \in 1 .. 1}
        /\ \A k \in 1 .. 1 : NthSUID(k) \in SUID \ registered
    BY <1>1, <2>1, NthSUIDs
  <2>3. {NthSUID(k) : k \in 1 .. 1} = {s}
    OBVIOUS
  <2> QED
    BY <2>2, <2>3
<1> HIDE DEF s
<1>3. e \in Entry
  BY <1>2, SceneConstants DEF Entry
<1>4. s # NoSUID
  BY <1>2, SUIDConstants DEF SUID, NoSUID
<1>5. /\ es \in Seq(Entry) /\ Len(es) = 1 /\ DOMAIN es = {1} /\ es[1] = e
  <2> HIDE DEF e
  <2> QED
    BY <1>3
<1>6. EntriesOK(es) /\ EntriesApart(es) /\ EntrySUIDs(es) = {s}
  <2>1. es[1].suid = s /\ es[1].parent = 0
    BY <1>5
  <2> HIDE DEF es
  <2> QED
    BY <1>4, <1>5, <2>1 DEF EntriesOK, EntriesApart, EntrySUIDs
<1> HIDE DEF es
<1>7. ContextOK(active) /\ Components(active) \subseteq Used
  BY DEF SceneOK, Used
<1>8. /\ ContextOK(active') /\ ContextSUIDs(active') = ContextSUIDs(active) \cup {s}
      /\ (Found(active) /\ s \notin ContextSUIDs(active)) => Found(active')
  <2> DEFINE d == Graft(active, es, p)
  <2>1. TakeIndices(Len(es))
    BY <1>1, <1>5
  <2>2. /\ ContextOK(d) /\ ContextSUIDs(d) = ContextSUIDs(active) \cup EntrySUIDs(es)
        /\ (/\ Found(active) /\ EntriesApart(es)
            /\ EntrySUIDs(es) \cap ContextSUIDs(active) = {})
           => Found(d)
    BY <1>6, <1>7, <2>1, GraftStep
  <2> HIDE DEF d
  <2> QED
    BY <1>1, <1>6, <2>2 DEF d
<1>9. SceneOK'
  BY <1>1, <1>2, <1>5, <1>6, <1>8, GraftActive
<1>10. s \in ContextSUIDs(active) => Reissued
  BY <1>2 DEF Reissued, SUIDsInUse, ContextSUIDs
<1> QED
  BY <1>1, <1>2, <1>8, <1>9, <1>10 DEF EditKeeps

\* A subtree is created again.
LEMMA RecreateStep ==
    ASSUME SceneOK, NEW p \in Nodes(active), NEW es, EntriesOK(es),
           \A s \in EntrySUIDs(es) : CanTry(s), CreateComponentSubtree(es, p),
           "reissued" \in excuse \/ EntriesApart(es)
    PROVE  EditKeeps
<1>1. /\ TakeIndices(Len(es)) /\ active' = Graft(active, es, p)
      /\ registered' = registered \cup EntrySUIDs(es) /\ counter' = counter
      /\ handles' = handles + Len(es) /\ UNCHANGED <<state, backup, orphans>>
  BY DEF CreateComponentSubtree, TrySUIDs
<1>2. ContextOK(active) /\ Components(active) \subseteq Used /\ counter \in SUID
  BY DEF SceneOK, Used
<1> DEFINE d == Graft(active, es, p)
<1>3. /\ ContextOK(d) /\ ContextSUIDs(d) = ContextSUIDs(active) \cup EntrySUIDs(es)
      /\ (/\ Found(active) /\ EntriesApart(es)
          /\ EntrySUIDs(es) \cap ContextSUIDs(active) = {})
         => Found(d)
  BY <1>1, <1>2, GraftStep
<1> HIDE DEF d
<1>4. active' = d
  BY <1>1 DEF d
<1>5. SceneOK'
  BY <1>1, <1>2, <1>3, GraftActive DEF d
<1>6. ASSUME NEW s \in EntrySUIDs(es), s \in ContextSUIDs(active) PROVE Reissued
  BY <1>1, <1>6 DEF Reissued, SUIDsInUse, ContextSUIDs, CanTry
<1> QED
  BY <1>1, <1>3, <1>4, <1>5, <1>6 DEF EditKeeps

\* What is taken out of the active context gives back what it had.
LEMMA PruneStep ==
    ASSUME SceneOK, NEW i \in Components(active)
    PROVE  LET d == Prune(active, i)
               gone == PostOrder(active, i)
           IN  /\ ContextOK(d) /\ (Found(active) => Found(d))
               /\ Components(d) \subseteq Components(active)
               /\ Size(d) = Size(active) - Len(gone) /\ Len(gone) \in Nat
               /\ IndicesOK([indices EXCEPT !.free = @ \o gone], Components(d) \cup Components(backup))
               /\ ContextSUIDs(active) \ SUIDsOf(active, ToSet(gone)) \subseteq ContextSUIDs(d)
<1> DEFINE d == Prune(active, i)
           gone == PostOrder(active, i)
           X == Subtree(active, i)
           ind == [indices EXCEPT !.free = @ \o gone]
<1>1. /\ Forest(active) /\ Live(active) /\ Components(active) \cap Components(backup) = {}
      /\ IndicesOK(indices, Used)
  BY DEF SceneOK, ContextOK
<1>2. /\ Forest(d) /\ Components(d) = Components(active) \ X /\ X \subseteq Components(active)
  BY <1>1, PruneFacts
<1>3. /\ Live(d) /\ (Found(active) => Found(d))
      /\ ContextSUIDs(active) \ SUIDsOf(active, X) \subseteq ContextSUIDs(d)
  BY <1>1, PruneSUIDs
<1>4. gone \in Seq(Nodes(active)) /\ NoRepeat(gone) /\ Range(gone) = X
  <2>1. i \in Nodes(active)
    BY DEF Nodes
  <2> QED
    BY <1>1, <2>1, SubtreeFacts
<1> HIDE DEF d, gone, X
<1>5. gone \in Seq(Used) /\ Len(gone) \in Nat
  <2>1. Len(gone) \in Nat /\ gone = [k \in 1 .. Len(gone) |-> gone[k]] /\ DOMAIN gone = 1 .. Len(gone)
    BY <1>4
  <2>2. \A k \in 1 .. Len(gone) : gone[k] \in Used
    BY <1>2, <1>4, <2>1 DEF Range, Used
  <2> QED
    BY <2>1, <2>2
<1>6. IndicesOK(ind, Components(d) \cup Components(backup))
  <2>1. Components(d) \cup Components(backup) = Used \ Range(gone)
    BY <1>1, <1>2, <1>4 DEF Used
  <2>2. IndicesOK(ind, Used \ Range(gone))
    <3> HIDE DEF Used
    <3> QED
      BY <1>1, <1>4, <1>5, GiveBackFacts
  <2> HIDE DEF ind
  <2> QED
    BY <2>1, <2>2
<1>7. Size(d) = Size(active) - Len(gone)
  <2>1. IsFiniteSet(X) /\ Cardinality(X) = Len(gone)
    BY <1>4, RangeSize
  <2>2. IsFiniteSet(Components(active))
    BY SizeFacts
  <2>3. Cardinality(Components(active) \ X)
          = Cardinality(Components(active)) - Cardinality(Components(active) \cap X)
    BY <2>1, <2>2, FS_Difference
  <2>4. Components(active) \cap X = X
    BY <1>2
  <2> QED
    BY <1>2, <2>1, <2>3, <2>4 DEF Size
<1>8. ToSet(gone) = X
  BY <1>4 DEF ToSet, Range
<1> HIDE DEF ind
<1> QED
  BY <1>2, <1>3, <1>5, <1>6, <1>7, <1>8 DEF ContextOK, d, gone, ind

\* A component is destroyed with everything below it.
LEMMA DestroyStep ==
    ASSUME SceneOK, NEW i \in Components(active), DestroyComponentSubtree(i)
    PROVE  EditKeeps
<1> DEFINE d == Prune(active, i)
           gone == PostOrder(active, i)
<1>1. /\ registered' = registered \ SUIDsOf(active, ToSet(gone)) /\ counter' = counter
      /\ indices' = [indices EXCEPT !.free = @ \o gone]
      /\ active' = d /\ handles' = handles - Len(gone)
      /\ UNCHANGED <<state, backup, orphans>>
  BY DEF DestroyComponentSubtree, FreeSUIDsOf
<1>2. /\ ContextOK(d) /\ (Found(active) => Found(d))
      /\ Components(d) \subseteq Components(active)
      /\ Size(d) = Size(active) - Len(gone) /\ Len(gone) \in Nat
      /\ IndicesOK([indices EXCEPT !.free = @ \o gone], Components(d) \cup Components(backup))
      /\ ContextSUIDs(active) \ SUIDsOf(active, ToSet(gone)) \subseteq ContextSUIDs(d)
  BY PruneStep
<1> HIDE DEF d, gone
<1>3. /\ Size(active) \in Nat /\ Size(backup) \in Nat /\ orphans \in Nat /\ handles \in Int
      /\ handles = Size(active) + Size(backup) + orphans
  BY SizeFacts DEF SceneOK
<1>4. handles' \in Int /\ handles' = Size(d) + Size(backup) + orphans
  BY <1>1, <1>2, <1>3
<1>5. SceneOK'
  <2>1. Components(d) \cap Components(backup) = {}
    BY <1>2 DEF SceneOK
  <2> QED
    BY <1>1, <1>2, <1>3, <1>4, <2>1 DEF SceneOK, HandlesAccounted, Size, Used
<1>6. registered \subseteq ContextSUIDs(active) => registered' \subseteq ContextSUIDs(active')
  BY <1>1, <1>2
<1> QED
  BY <1>1, <1>2, <1>5, <1>6 DEF EditKeeps

\* What is copied, and the copy.
OldEntries(i) == Entries(active, PreOrder(active, i))
CopyEntries(i, z) ==
    [k \in DOMAIN OldEntries(i) |->
        [OldEntries(i)[k] EXCEPT !.suid = NthSUID(k), !.data = IF k = 1 THEN z ELSE @]]

\* The copy of a subtree has the entries of it, under identifiers that were free.
LEMMA CopyFacts ==
    ASSUME SceneOK, NEW i \in Components(active), NEW z \in Data, CloneComponentSubtree(i, z)
    PROVE  LET s == PreOrder(active, i)
               old == OldEntries(i)
               es == CopyEntries(i, z)
               p == Parent(active, i)
               c == Graft(active, es, p)
           IN  /\ s \in Seq(Components(active)) /\ NoRepeat(s) /\ Onward(active.kids, s)
               /\ Range(s) = Subtree(active, i) /\ 1 \in DOMAIN s /\ s[1] = i
               /\ EntriesOK(old) /\ DOMAIN old = DOMAIN s
               /\ EntriesOK(es) /\ DOMAIN es = DOMAIN s /\ Len(es) = Len(s) /\ EntriesApart(es)
               /\ \A k \in DOMAIN es :
                     /\ es[k].suid \in SUID \ registered /\ es[k].suid \in registered'
                     /\ es[k].suid = NthSUID(k)
                     /\ es[k].data = IF k = 1 THEN z ELSE old[k].data
                     /\ es[k].parent = old[k].parent
               /\ EntrySUIDs(es) = {NthSUID(k) : k \in DOMAIN s}
               /\ counter' \in SUID /\ registered' = registered \cup EntrySUIDs(es)
               /\ TakeIndices(Len(es)) /\ handles' = handles + Len(es)
               /\ active' = PlaceAfter(c, p, i) /\ UNCHANGED <<state, backup, orphans>>
               /\ p \in Nodes(active) /\ i \in Range(active.kids[p])
<1> DEFINE s == PreOrder(active, i)
           n == Len(s)
           old == OldEntries(i)
           es == CopyEntries(i, z)
           p == Parent(active, i)
           c == Graft(active, es, p)
           New == {NthSUID(k) : k \in 1 .. n}
<1>1. /\ TakeIndices(n) /\ GetSUIDs(n) /\ active' = PlaceAfter(c, p, i)
      /\ handles' = handles + n /\ UNCHANGED <<state, backup, orphans>>
  BY DEF CloneComponentSubtree, CopyEntries, OldEntries
<1>2. /\ Forest(active) /\ Live(active) /\ ContextOK(active) /\ Components(active) \subseteq Used
      /\ i \in Nodes(active) /\ i # Root /\ counter \in SUID
  <2>1. ContextOK(active) /\ Components(active) \subseteq Used /\ counter \in SUID
    BY DEF SceneOK, Used
  <2>2. Forest(active) /\ Live(active) /\ i \in Nodes(active)
    BY <2>1 DEF ContextOK, Nodes
  <2>3. i # Root
    BY <2>2 DEF Forest, Root
  <2> QED
    BY <2>1, <2>2, <2>3
<1>3. s \in Seq(Components(active)) /\ NoRepeat(s) /\ Onward(active.kids, s) /\ n # 0
  <2>1. /\ s \in Seq(Nodes(active)) /\ NoRepeat(s) /\ Range(s) = Subtree(active, i)
        /\ Onward(active.kids, s) /\ n # 0
    BY <1>2, SubtreeFacts
  <2>2. Subtree(active, i) \subseteq Components(active)
    BY <1>2, PruneFacts
  <2> HIDE DEF s
  <2>3. Len(s) \in Nat /\ s = [k \in 1 .. Len(s) |-> s[k]] /\ DOMAIN s = 1 .. Len(s)
    BY <2>1
  <2>4. \A k \in 1 .. Len(s) : s[k] \in Components(active)
    BY <2>1, <2>2, <2>3 DEF Range
  <2>5. s \in Seq(Components(active))
    BY <2>3, <2>4
  <2> QED
    BY <2>1, <2>5
<1>4. EntriesOK(old) /\ Len(old) = n /\ n \in Nat
  <2>0. old = Entries(active, s)
    BY DEF OldEntries
  <2>1. EntriesOK(old) /\ Len(old) = Len(s)
    <3> HIDE DEF s, old
    <3> QED
      BY <1>2, <1>3, <2>0, EntriesFacts
  <2> QED
    BY <2>1 DEF EntriesOK
<1>5. p \in Nodes(active) /\ i \in Range(active.kids[p])
  BY <1>2, ParentFacts
<1> HIDE DEF s, old, p
<1>6. /\ counter' \in SUID /\ registered' = registered \cup New
      /\ \A k \in 1 .. n : NthSUID(k) \in SUID \ registered
      /\ \A k, l \in 1 .. n : NthSUID(k) = NthSUID(l) => k = l
  <2> HIDE DEF n
  <2> QED
    BY <1>1, <1>2, <1>4, NthSUIDs
<1>7. DOMAIN old = 1 .. n /\ \A k \in 1 .. n : old[k] \in Entry /\ old[k].parent < k
  <2> HIDE DEF n
  <2> QED
    BY <1>4 DEF EntriesOK
<1> HIDE DEF n
<1>8. ASSUME NEW k \in 1 .. n
      PROVE  /\ es[k] \in Entry /\ es[k].suid = NthSUID(k) /\ es[k].parent < k
             /\ es[k].data = IF k = 1 THEN z ELSE old[k].data
             /\ es[k].parent = old[k].parent
  <2> DEFINE x == old[k]
             u == NthSUID(k)
  <2>1. x \in Entry /\ x.parent < k /\ u \in SUID
    BY <1>6, <1>7
  <2>2. es[k] = [x EXCEPT !.suid = u, !.data = IF k = 1 THEN z ELSE @]
    BY <1>7 DEF CopyEntries, old
  <2> HIDE DEF x, u, es
  <2>3. PICK a, b, e : x = [suid |-> a, data |-> b, parent |-> e] /\ b \in Data /\ e \in Nat
    BY <2>1 DEF Entry
  <2> DEFINE v == IF k = 1 THEN z ELSE b
  <2>4. es[k] = [suid |-> u, data |-> v, parent |-> e]
    BY <2>2, <2>3
  <2>5. v \in Data
    BY <2>3
  <2>6. e < k
    BY <2>1, <2>3
  <2> HIDE DEF v
  <2> QED
    BY <2>1, <2>3, <2>4, <2>5, <2>6 DEF Entry, u, v, x
<1>9. es \in Seq(Entry) /\ Len(es) = n /\ DOMAIN es = 1 .. n
  <2>1. es = [k \in 1 .. n |-> es[k]]
    BY <1>7 DEF CopyEntries, old
  <2> HIDE DEF es
  <2> QED
    BY <1>4, <1>8, <2>1
<1> HIDE DEF es
<1>10. EntriesOK(es) /\ EntriesApart(es) /\ EntrySUIDs(es) = New
  <2>1. EntriesOK(es) /\ EntriesApart(es)
    BY <1>6, <1>8, <1>9 DEF EntriesOK, EntriesApart
  <2>2. {es[k].suid : k \in DOMAIN es} = New
    BY <1>8, <1>9
  <2>3. NoSUID \notin New
    BY <1>6, SUIDConstants DEF SUID, NoSUID
  <2> QED
    BY <2>1, <2>2, <2>3 DEF EntrySUIDs
<1> HIDE DEF New
<1>11. 1 \in DOMAIN s /\ s[1] = i /\ Range(s) = Subtree(active, i) /\ DOMAIN s = 1 .. n
  <2>1. Range(s) = Subtree(active, i) /\ s[1] = i
    BY <1>2, SubtreeFacts DEF s
  <2>2. 1 \in 1 .. n /\ DOMAIN s = 1 .. n
    BY <1>3, <1>4 DEF n
  <2> QED
    BY <2>1, <2>2
<1> QED
  BY <1>1, <1>3, <1>4, <1>5, <1>6, <1>7, <1>8, <1>9, <1>10, <1>11 DEF s, old, es, p, n, New

\* The copy is grafted below the parent of what is copied, and then placed
\* behind it.
LEMMA CopyPlaced ==
    ASSUME SceneOK, NEW i \in Components(active), NEW z \in Data, CloneComponentSubtree(i, z)
    PROVE  LET p == Parent(active, i)
               c == Graft(active, CopyEntries(i, z), p)
               New == EntrySUIDs(CopyEntries(i, z))
           IN  /\ ContextOK(c) /\ ContextSUIDs(c) = ContextSUIDs(active) \cup New
               /\ Found(active) /\ New \cap ContextSUIDs(active) = {} => Found(c)
               /\ Forest(active') /\ active'.node = c.node /\ active'.suids = c.suids
               /\ \A n \in Nodes(c) : Range(active'.kids[n]) = Range(c.kids[n])
<1> DEFINE es == CopyEntries(i, z)
           p == Parent(active, i)
           c == Graft(active, es, p)
           New == EntrySUIDs(es)
<1>1. /\ TakeIndices(Len(es)) /\ active' = PlaceAfter(c, p, i) /\ handles' = handles + Len(es)
      /\ UNCHANGED <<state, backup, orphans>>
      /\ counter' \in SUID /\ registered' = registered \cup New
      /\ EntriesOK(es) /\ EntriesApart(es) /\ DOMAIN es # {}
      /\ p \in Nodes(active) /\ i \in Range(active.kids[p])
  BY CopyFacts
<1>2. ContextOK(active) /\ Components(active) \subseteq Used /\ Forest(active)
  BY DEF SceneOK, Used, ContextOK
<1>3. p \in Nodes(active) /\ i \in Range(active.kids[p])
  BY <1>1
<1> HIDE DEF es, p, New
<1>4. /\ ContextOK(c) /\ ContextSUIDs(c) = ContextSUIDs(active) \cup New
      /\ Found(active) /\ New \cap ContextSUIDs(active) = {} => Found(c)
      /\ \A k \in DOMAIN active.kids[p] : c.kids[p][k] = active.kids[p][k] /\ k \in DOMAIN c.kids[p]
      /\ Len(c.kids[p]) > Len(active.kids[p])
      /\ Components(active) \subseteq Components(c)
  <2>3. /\ ContextOK(c) /\ ContextSUIDs(c) = ContextSUIDs(active) \cup New
        /\ (/\ Found(active) /\ EntriesApart(es)
            /\ New \cap ContextSUIDs(active) = {})
           => Found(c)
        /\ Components(c) \cap Used = Components(active)
        /\ \A k \in DOMAIN active.kids[p] : c.kids[p][k] = active.kids[p][k] /\ k \in DOMAIN c.kids[p]
        /\ DOMAIN es # {} => Len(c.kids[p]) > Len(active.kids[p])
    BY <1>1, <1>2, <1>3, GraftStep DEF New
  <2> HIDE DEF c
  <2> QED
    BY <1>1, <2>3
<1> HIDE DEF c
<1>5. /\ Forest(active') /\ active'.node = c.node /\ active'.suids = c.suids
      /\ \A n \in Nodes(c) : Range(active'.kids[n]) = Range(c.kids[n])
  <2>1. PICK k \in DOMAIN active.kids[p] : active.kids[p][k] = i
    BY <1>3 DEF Range
  <2>2. active.kids[p] \in Seq(Components(active))
    BY <1>2, <1>3 DEF Forest
  <2>3. p \in Nodes(c) /\ c.kids \in [Nodes(c) -> Seq(Components(c))]
    <3>1. Components(active) \subseteq Components(c)
      BY <1>4
    <3> QED
      BY <1>4, <1>3, <3>1 DEF Nodes, ContextOK, Forest
  <2>4. k < Len(c.kids[p])
    <3>1. Len(active.kids[p]) \in Nat /\ k \in 1 .. Len(active.kids[p]) /\ Len(c.kids[p]) \in Nat
      BY <2>1, <2>2, <2>3
    <3> QED
      BY <1>4, <3>1
  <2>5. k \in DOMAIN c.kids[p] /\ c.kids[p][k] = i
    BY <1>4, <2>1
  <2> QED
    BY <1>1, <1>4, <2>3, <2>4, <2>5, PlaceAfterFacts DEF ContextOK
<1> QED
  BY <1>4, <1>5 DEF New, c, es, p

\* A component is copied next to itself with everything below it.
LEMMA CloneStep ==
    ASSUME SceneOK, NEW i \in Components(active), NEW z \in Data, CloneComponentSubtree(i, z)
    PROVE  EditKeeps
<1> DEFINE es == CopyEntries(i, z)
           p == Parent(active, i)
           c == Graft(active, es, p)
           New == EntrySUIDs(es)
<1>1. /\ TakeIndices(Len(es)) /\ active' = PlaceAfter(c, p, i) /\ handles' = handles + Len(es)
      /\ UNCHANGED <<state, backup, orphans>>
      /\ counter' \in SUID /\ registered' = registered \cup New
      /\ EntriesOK(es) /\ EntriesApart(es) /\ DOMAIN es # {}
      /\ p \in Nodes(active) /\ i \in Range(active.kids[p])
  BY CopyFacts
<1>2. ContextOK(active) /\ Components(active) \subseteq Used /\ Forest(active)
  BY DEF SceneOK, Used, ContextOK
<1>3. \A x \in New : x \notin registered /\ x \in registered'
  <2>1. \A k \in DOMAIN es : es[k].suid \in SUID \ registered /\ es[k].suid \in registered'
    BY CopyFacts
  <2> QED
    BY <2>1 DEF EntrySUIDs
<1> HIDE DEF es, p, New
<1>4. /\ ContextOK(c) /\ ContextSUIDs(c) = ContextSUIDs(active) \cup New
      /\ Found(active) /\ New \cap ContextSUIDs(active) = {} => Found(c)
      /\ Forest(active') /\ active'.node = c.node /\ active'.suids = c.suids
  BY CopyPlaced DEF New, es, p
<1> HIDE DEF c
<1>5. /\ ContextOK(active') /\ ContextSUIDs(active') = ContextSUIDs(c)
      /\ Components(active') = Components(c) /\ (Found(c) => Found(active'))
  <2>1. Components(active') = Components(c)
    BY <1>4 DEF Components
  <2> QED
    BY <1>4, <2>1 DEF ContextOK, Live, Found, ContextSUIDs, SUIDsOf
<1>6. SceneOK'
  BY <1>1, <1>5, GraftActive DEF c
<1>7. ASSUME NEW x \in New, x \in ContextSUIDs(active) PROVE Reissued
  BY <1>3, <1>7 DEF Reissued, SUIDsInUse, ContextSUIDs
<1> QED
  BY <1>1, <1>4, <1>5, <1>6, <1>7 DEF EditKeeps

\* A component shows something else.
LEMMA SetDataStep ==
    ASSUME SceneOK, NEW s, Known(s), NEW z \in Data, SetData(s, z)
    PROVE  EditKeeps
<1> DEFINE b == BySUID(s)
           d == [active EXCEPT !.node[b].data = z]
<1>1. /\ active' = d
      /\ UNCHANGED <<registered, counter, state, backup, indices, handles, orphans>>
  BY DEF SetData, suidVars
<1>2. /\ Forest(active) /\ Live(active) /\ b \in Components(active)
  BY DEF SceneOK, ContextOK, Known, Live, BySUID
<1>3. /\ Shaped(active) /\ ByLists(active)
  BY <1>2, ForestByLists
<1> HIDE DEF b
<1>4. PICK N, K, M : active = [node |-> N, kids |-> K, suids |-> M]
  BY <1>3 DEF Shaped
<1>5. N = active.node /\ K = active.kids /\ M = active.suids
  BY <1>4
<1>6. N \in [Components(active) -> ComponentData]
  BY <1>3, <1>5 DEF Shaped
<1>7. PICK u, x : N[b] = [suid |-> u, data |-> x] /\ u \in SUID \cup {NoSUID}
  BY <1>2, <1>6 DEF ComponentData
<1> DEFINE e == [suid |-> u, data |-> z]
<1>8. d = [node |-> [N EXCEPT ![b] = e], kids |-> K, suids |-> M]
  <2>1. d = [active EXCEPT !.node = [active.node EXCEPT ![b] = [active.node[b] EXCEPT !.data = z]]]
    OBVIOUS
  <2>2. [active.node[b] EXCEPT !.data = z] = e
    BY <1>5, <1>7
  <2> HIDE DEF e, d
  <2>3. d = [active EXCEPT !.node = [N EXCEPT ![b] = e]]
    BY <1>5, <2>1, <2>2
  <2> QED
    BY <1>4, <2>3
<1>9. e \in ComponentData
  BY <1>7 DEF ComponentData
<1> HIDE DEF e, d
<1>10. /\ d.kids = active.kids /\ d.suids = active.suids /\ d.node = [N EXCEPT ![b] = e]
       /\ d = [node |-> d.node, kids |-> d.kids, suids |-> d.suids]
  BY <1>5, <1>8
<1>11. Components(d) = Components(active) /\ Nodes(d) = Nodes(active)
  <2>1. Components(d) = Components(active)
    BY <1>5, <1>10 DEF Components
  <2> QED
    BY <2>1 DEF Nodes
<1>12. \A i \in Components(d) : d.node[i].suid = active.node[i].suid
  <2> SUFFICES ASSUME NEW i \in Components(d) PROVE d.node[i].suid = active.node[i].suid
    OBVIOUS
  <2>1. CASE i = b
    BY <1>5, <1>6, <1>7, <1>10, <1>11, <2>1 DEF e
  <2>2. CASE i # b
    BY <1>5, <1>6, <1>10, <1>11, <2>2
  <2> QED
    BY <2>1, <2>2
<1>13. Forest(d)
  <2>1. d.node \in [Components(d) -> ComponentData]
    BY <1>6, <1>9, <1>10, <1>11
  <2>2. Shaped(d)
    BY <1>3, <1>10, <1>11, <2>1 DEF Shaped
  <2>3. ByLists(d)
    BY <1>3, <1>10, <1>11 DEF ByLists
  <2> QED
    BY <2>2, <2>3, ForestByLists
<1>14. Live(d) /\ (Found(active) => Found(d))
  BY <1>2, <1>10, <1>11, <1>12 DEF Live, Found
<1>15. ContextSUIDs(d) = ContextSUIDs(active)
  <2>1. {d.node[i].suid : i \in Components(d)} = {active.node[i].suid : i \in Components(active)}
    BY <1>11, <1>12
  <2> QED
    BY <2>1 DEF ContextSUIDs, SUIDsOf
<1>16. SceneOK'
  <2>1. Components(active') = Components(active) /\ Components(backup') = Components(backup)
    BY <1>1, <1>11
  <2> QED
    BY <1>1, <1>13, <1>14, <2>1 DEF SceneOK, ContextOK, HandlesAccounted, Used
<1> QED
  BY <1>1, <1>14, <1>15, <1>16 DEF EditKeeps

\* A context that is made from entries alone.
LEMMA FreshContext ==
    ASSUME SceneOK, NEW es, EntriesOK(es), TakeIndices(Len(es))
    PROVE  LET d == Graft(EmptyContext, es, Root)
           IN  /\ ContextOK(d) /\ Components(d) \cap Used = {}
               /\ Size(d) = Len(es) /\ Len(es) \in Nat
               /\ IndicesOK(indices', Used \cup Components(d))
               /\ ContextSUIDs(d) = EntrySUIDs(es)
               /\ EntriesApart(es) => Found(d)
<1> DEFINE d == Graft(EmptyContext, es, Root)
<1>1. /\ ContextOK(EmptyContext) /\ Components(EmptyContext) = {} /\ Found(EmptyContext)
      /\ ContextSUIDs(EmptyContext) = {} /\ Root \in Nodes(EmptyContext)
  BY EmptyFacts DEF ContextOK, Nodes
<1>2. Components(EmptyContext) \subseteq Used
  BY <1>1
<1>3. /\ ContextOK(d)
      /\ Components(d) \cap Used = Components(EmptyContext)
      /\ Size(d) = Size(EmptyContext) + Len(es)
      /\ IndicesOK(indices', Used \cup Components(d))
      /\ ContextSUIDs(d) = ContextSUIDs(EmptyContext) \cup EntrySUIDs(es)
      /\ (/\ Found(EmptyContext) /\ EntriesApart(es)
          /\ EntrySUIDs(es) \cap ContextSUIDs(EmptyContext) = {})
         => Found(d)
  BY <1>1, <1>2, GraftStep
<1>4. Size(EmptyContext) = 0 /\ Len(es) \in Nat
  BY <1>1, FS_EmptySet DEF Size, EntriesOK
<1> HIDE DEF d
<1>5. Size(d) = Len(es)
  BY <1>3, <1>4
<1> QED
  BY <1>1, <1>3, <1>4, <1>5 DEF d

\* The active context takes the place of the one before.
LEMMA ReplaceActive ==
    ASSUME SceneOK, NEW es, EntriesOK(es), TakeIndices(Len(es)),
           active' = Graft(EmptyContext, es, Root), counter' \in SUID,
           UNCHANGED backup, orphans' \in Nat, handles' \in Int,
           handles' - orphans' = Len(es) + Size(backup)
    PROVE  SceneOK'
<1> DEFINE d == Graft(EmptyContext, es, Root)
<1>1. /\ ContextOK(d) /\ Components(d) \cap Used = {} /\ Size(d) = Len(es) /\ Len(es) \in Nat
      /\ IndicesOK(indices', Used \cup Components(d))
  BY FreshContext
<1> HIDE DEF d
<1>2. active' = d
  BY DEF d
<1>3. Components(d) \cap Components(backup) = {}
  BY <1>1 DEF Used
<1>4. IndicesOK(indices', Components(d) \cup Components(backup))
  <2>1. Components(d) \cup Components(backup) \subseteq Used \cup Components(d)
    BY DEF Used
  <2> HIDE DEF Used
  <2> QED
    BY <1>1, <2>1, IndicesShrink
<1>5. Size(backup) \in Nat /\ (backup = NoContext \/ ContextOK(backup))
  BY SizeFacts DEF SceneOK
<1>6. handles' = Size(d) + Size(backup) + orphans'
  BY <1>1, <1>5
<1> QED
  BY <1>1, <1>2, <1>3, <1>4, <1>5, <1>6 DEF SceneOK, HandlesAccounted, Size, Used

\* Another scene is loaded.
LEMMA ReloadStep ==
    ASSUME SceneOK, NEW es, EntriesOK(es), Reload(es)
    PROVE  /\ SceneOK' /\ UNCHANGED backup /\ state' = "loaded"
           /\ EntriesApart(es) => Found(active')
           /\ registered' \subseteq (registered \ ContextSUIDs(active)) \cup ContextSUIDs(active')
<1>1. /\ TakeIndices(Len(es)) /\ registered' = Unload \cup EntrySUIDs(es)
      /\ active' = Graft(EmptyContext, es, Root)
      /\ handles' = handles - Size(active) + Len(es) /\ state' = "loaded"
      /\ UNCHANGED <<counter, backup, orphans>>
  BY DEF Reload, Size
<1>2. /\ ContextSUIDs(active') = EntrySUIDs(es) /\ (EntriesApart(es) => Found(active'))
      /\ Len(es) \in Nat
  <2> DEFINE d == Graft(EmptyContext, es, Root)
  <2>1. /\ ContextSUIDs(d) = EntrySUIDs(es) /\ (EntriesApart(es) => Found(d))
        /\ Len(es) \in Nat
    BY <1>1, FreshContext
  <2> HIDE DEF d
  <2>2. active' = d
    BY <1>1 DEF d
  <2> QED
    BY <2>1, <2>2
<1>3. /\ Size(active) \in Nat /\ Size(backup) \in Nat /\ orphans \in Nat /\ handles \in Int
      /\ handles = Size(active) + Size(backup) + orphans /\ counter \in SUID
  BY SizeFacts DEF SceneOK
<1>4. handles' \in Int /\ handles' - orphans' = Len(es) + Size(backup) /\ orphans' \in Nat
  BY <1>1, <1>2, <1>3
<1>5. SceneOK'
  BY <1>1, <1>3, <1>4, ReplaceActive
<1>6. Unload = registered \ ContextSUIDs(active)
  BY DEF Unload, ContextSUIDs
<1> QED
  BY <1>1, <1>2, <1>5, <1>6

\* The entries of the active context.
LEMMA ActiveEntries ==
    ASSUME SceneOK
    PROVE  LET es == Entries(active, All(active))
           IN  /\ EntriesOK(es) /\ Len(es) = Size(active) /\ Len(es) = Len(All(active))
               /\ EntrySUIDs(es) = ContextSUIDs(active)
               /\ Found(active) => EntriesApart(es)
<1> DEFINE s == All(active)
           es == Entries(active, s)
<1>1. Forest(active)
  BY DEF SceneOK, ContextOK
<1>2. s \in Seq(Components(active)) /\ NoRepeat(s) /\ Range(s) = Components(active)
      /\ Onward(active.kids, s)
  BY <1>1, AllFacts
<1> HIDE DEF s
<1>3. /\ EntriesOK(es) /\ Len(es) = Len(s) /\ (SUIDsApart(active) => EntriesApart(es))
      /\ EntrySUIDs(es) = SUIDsOf(active, Range(s))
  BY <1>1, <1>2, EntriesFacts
<1>4. Cardinality(Range(s)) = Len(s)
  BY <1>2, RangeSize
<1> HIDE DEF es
<1> QED
  BY <1>2, <1>3, <1>4, FoundApart DEF Size, ContextSUIDs, es, s

\* The scene starts to play: a copy of it is active.
LEMMA PlayStep ==
    ASSUME SceneOK, PlayStarts
    PROVE  /\ SceneOK' /\ backup' = active /\ backup' # NoContext /\ state' = "running"
           /\ registered' = registered
           /\ Found(active) => Found(active')
<1> DEFINE es == Entries(active, All(active))
           d == Graft(EmptyContext, es, Root)
<1>1. /\ EntriesOK(es) /\ Len(es) = Size(active) /\ Len(es) = Len(All(active))
      /\ Found(active) => EntriesApart(es)
  BY ActiveEntries
<1>2. /\ TakeIndices(Len(All(active))) /\ active' = d
      /\ backup' = active /\ state' = "running" /\ handles' = handles + Len(All(active))
      /\ orphans' = orphans + Size(backup) /\ UNCHANGED <<registered, counter>>
  BY DEF PlayStarts, suidVars, Size
<1> HIDE DEF es
<1>3. /\ ContextOK(d) /\ Components(d) \cap Used = {} /\ Size(d) = Len(es) /\ Len(es) \in Nat
      /\ IndicesOK(indices', Used \cup Components(d)) /\ (EntriesApart(es) => Found(d))
  BY <1>1, <1>2, FreshContext
<1> HIDE DEF d
<1>4. ContextOK(active) /\ counter \in SUID
  BY DEF SceneOK
<1>5. Components(d) \cap Components(active) = {}
  BY <1>3 DEF Used
<1>6. IndicesOK(indices', Components(d) \cup Components(active))
  <2>1. Components(d) \cup Components(active) \subseteq Used \cup Components(d)
    BY DEF Used
  <2> HIDE DEF Used
  <2> QED
    BY <1>3, <2>1, IndicesShrink
<1>7. /\ Size(active) \in Nat /\ Size(backup) \in Nat /\ orphans \in Nat /\ handles \in Int
      /\ handles = Size(active) + Size(backup) + orphans
  BY SizeFacts DEF SceneOK
<1>8. handles' \in Int /\ orphans' \in Nat /\ handles' = Size(d) + Size(active) + orphans'
  <2>1. handles' = handles + Size(active) /\ Size(d) = Size(active)
    BY <1>1, <1>2, <1>3
  <2>2. orphans' = orphans + Size(backup)
    BY <1>2
  <2> QED
    BY <1>7, <2>1, <2>2
<1>9. SceneOK'
  BY <1>2, <1>3, <1>4, <1>5, <1>6, <1>8 DEF SceneOK, HandlesAccounted, Size, Used
<1>10. active # NoContext
  <2>1. Root \in DOMAIN active.kids
    BY <1>4 DEF ContextOK, Forest, Nodes
  <2>2. DOMAIN NoContext.kids = {}
    <3>1. NoContext.kids = <<>> /\ DOMAIN <<>> = {}
      BY DEF NoContext
    <3> QED
      BY <3>1
  <2> QED
    BY <2>1, <2>2
<1> QED
  BY <1>1, <1>2, <1>3, <1>9, <1>10

\* The scene does not start: the copy and its indices are gone.
LEMMA PlayFailsStep ==
    ASSUME SceneOK, PlayFails
    PROVE  /\ SceneOK' /\ UNCHANGED <<active, state>> /\ backup' = NoContext
           /\ registered' \subseteq registered
<1>1. /\ TakeIndices(Len(All(active))) /\ backup' = NoContext
      /\ registered' = registered \ ContextSUIDs(active) /\ counter' = counter
      /\ orphans' = orphans + Size(backup) /\ UNCHANGED <<state, active, handles>>
  BY DEF PlayFails, FreeSUIDsOf, Size, ContextSUIDs
<1>2. ContextOK(active) /\ counter \in SUID /\ IndicesOK(indices, Used)
  BY DEF SceneOK
<1>3. Len(All(active)) \in Nat
  <2>1. EntriesOK(Entries(active, All(active)))
        /\ Len(Entries(active, All(active))) = Len(All(active))
    BY ActiveEntries
  <2> QED
    BY <2>1 DEF EntriesOK
<1> DEFINE R == Range(NextIndices(Len(All(active))))
<1>4. IndicesOK(indices', Used \cup R)
  <2> HIDE DEF Used
  <2> QED
    BY <1>1, <1>2, <1>3, TakeIndicesFacts
<1>5. Components(NoContext) = {}
  BY EmptyFacts
<1> HIDE DEF R
<1>6. IndicesOK(indices', Components(active) \cup {})
  <2>1. Components(active) \cup {} \subseteq Used \cup R
    BY DEF Used
  <2> HIDE DEF Used
  <2> QED
    BY <1>4, <2>1, IndicesShrink
<1>7. /\ Size(active) \in Nat /\ Size(backup) \in Nat /\ orphans \in Nat /\ handles \in Int
      /\ handles = Size(active) + Size(backup) + orphans
  BY SizeFacts DEF SceneOK
<1>8. Size(NoContext) = 0
  BY <1>5, FS_EmptySet DEF Size
<1>9. orphans' \in Nat /\ handles' \in Int /\ handles' = Size(active) + Size(NoContext) + orphans'
  BY <1>1, <1>7, <1>8
<1>10. SceneOK'
  BY <1>1, <1>2, <1>5, <1>6, <1>9 DEF SceneOK, HandlesAccounted, Size, Used
<1> QED
  BY <1>1, <1>10

\* The scene stops: what was edited is active again.
LEMMA CleanupStep ==
    ASSUME SceneOK, backup # NoContext, Cleanup
    PROVE  /\ SceneOK' /\ active' = backup /\ backup' = NoContext /\ state' = "loaded"
           /\ registered' \subseteq registered
<1>1. /\ active' = backup /\ backup' = NoContext /\ state' = "loaded"
      /\ registered' = registered \ ContextSUIDs(active) /\ counter' = counter
      /\ handles' = handles - Size(active) /\ UNCHANGED <<indices, orphans>>
  BY DEF Cleanup, FreeSUIDsOf, Size, ContextSUIDs
<1>2. ContextOK(backup) /\ counter \in SUID /\ IndicesOK(indices, Used)
  BY DEF SceneOK
<1>3. Components(NoContext) = {} /\ Size(NoContext) = 0
  BY EmptyFacts, FS_EmptySet DEF Size
<1>4. IndicesOK(indices, Components(backup) \cup {})
  <2>1. Components(backup) \cup {} \subseteq Used
    BY DEF Used
  <2> HIDE DEF Used
  <2> QED
    BY <1>2, <2>1, IndicesShrink
<1>5. /\ Size(active) \in Nat /\ Size(backup) \in Nat /\ orphans \in Nat /\ handles \in Int
      /\ handles = Size(active) + Size(backup) + orphans
  BY SizeFacts DEF SceneOK
<1>6. handles' \in Int /\ handles' = Size(backup) + Size(NoContext) + orphans
  BY <1>1, <1>3, <1>5
<1>7. SceneOK'
  BY <1>1, <1>2, <1>3, <1>4, <1>5, <1>6 DEF SceneOK, HandlesAccounted, Size, Used
<1> QED
  BY <1>1, <1>7

\* What scripts do to the active context.
ScriptKeeps ==
    /\ SceneOK'
    /\ UNCHANGED <<registered, state, backup>>
    /\ Found(active) => Found(active')

\* What a script creates is one component without a serial identifier.
LEMMA RuntimeFacts ==
    /\ EntriesOK(Runtime) /\ EntriesApart(Runtime) /\ EntrySUIDs(Runtime) = {}
    /\ Len(Runtime) = 1
<1> DEFINE e == [suid |-> NoSUID, data |-> Fresh, parent |-> 0]
<1>1. e \in Entry
  BY SceneConstants DEF Entry
<1>2. Runtime = <<e>>
  BY DEF Runtime
<1>3. e.suid = NoSUID /\ e.parent = 0
  OBVIOUS
<1> HIDE DEF e
<1>4. Runtime \in Seq(Entry) /\ Len(Runtime) = 1 /\ DOMAIN Runtime = {1} /\ Runtime[1] = e
  BY <1>1, <1>2
<1> QED
  BY <1>3, <1>4 DEF EntriesOK, EntriesApart, EntrySUIDs

\* A script creates a component.
LEMMA CreateChildStep ==
    ASSUME SceneOK, NEW i \in Components(active), CreateChild(i) PROVE ScriptKeeps
<1> DEFINE d == Graft(active, Runtime, i)
<1>1. /\ TakeIndices(1) /\ active' = d /\ handles' = handles + 1
      /\ UNCHANGED <<registered, counter, state, backup, orphans>>
  BY DEF CreateChild, suidVars
<1>2. TakeIndices(Len(Runtime)) /\ handles' = handles + Len(Runtime) /\ EntriesOK(Runtime)
      /\ EntriesApart(Runtime) /\ EntrySUIDs(Runtime) = {}
  BY <1>1, RuntimeFacts
<1>3. ContextOK(active) /\ Components(active) \subseteq Used /\ i \in Nodes(active) /\ counter \in SUID
  BY DEF SceneOK, Used, Nodes
<1>4. ContextOK(d) /\ (Found(active) => Found(d))
  BY <1>2, <1>3, GraftStep
<1>5. SceneOK'
  BY <1>1, <1>2, <1>3, <1>4, GraftActive
<1> HIDE DEF d
<1> QED
  BY <1>1, <1>4, <1>5 DEF ScriptKeeps

\* A script destroys a component with everything below it.
LEMMA DestroyAtRuntimeStep ==
    ASSUME SceneOK, NEW i \in Components(active), DestroyAtRuntime(i) PROVE ScriptKeeps
<1> DEFINE d == Prune(active, i)
           gone == PostOrder(active, i)
<1>1. /\ indices' = [indices EXCEPT !.free = @ \o gone] /\ active' = d
      /\ orphans' = orphans + Len(gone)
      /\ UNCHANGED <<registered, counter, state, backup, handles>>
  BY DEF DestroyAtRuntime, suidVars
<1>2. /\ ContextOK(d) /\ (Found(active) => Found(d))
      /\ Components(d) \subseteq Components(active)
      /\ Size(d) = Size(active) - Len(gone) /\ Len(gone) \in Nat
      /\ IndicesOK([indices EXCEPT !.free = @ \o gone], Components(d) \cup Components(backup))
  BY PruneStep
<1> HIDE DEF d, gone
<1>3. /\ Size(active) \in Nat /\ Size(backup) \in Nat /\ orphans \in Nat /\ handles \in Int
      /\ handles = Size(active) + Size(backup) + orphans
  BY SizeFacts DEF SceneOK
<1>4. handles' \in Int /\ orphans' \in Nat /\ handles' = Size(d) + Size(backup) + orphans'
  BY <1>1, <1>2, <1>3
<1>5. SceneOK'
  <2>1. Components(d) \cap Components(backup) = {}
    BY <1>2 DEF SceneOK
  <2> QED
    BY <1>1, <1>2, <1>3, <1>4, <2>1 DEF SceneOK, HandlesAccounted, Size, Used
<1> QED
  BY <1>1, <1>2, <1>5 DEF ScriptKeeps

\* A script asks for another scene, which takes the place of the copy.
LEMMA TransitionStep == ASSUME SceneOK, Transition PROVE ScriptKeeps
<1>1. /\ TakeIndices(1) /\ active' = Graft(EmptyContext, Runtime, Root) /\ handles' = handles + 1
      /\ orphans' = orphans + Size(active)
      /\ UNCHANGED <<registered, counter, state, backup>>
  BY DEF Transition, suidVars, Size
<1>2. TakeIndices(Len(Runtime)) /\ Len(Runtime) = 1 /\ EntriesOK(Runtime) /\ EntriesApart(Runtime)
  BY <1>1, RuntimeFacts
<1>3. Found(active')
  <2> DEFINE d == Graft(EmptyContext, Runtime, Root)
  <2>1. Found(d)
    BY <1>2, FreshContext
  <2> HIDE DEF d
  <2>2. active' = d
    BY <1>1 DEF d
  <2> QED
    BY <2>1, <2>2
<1>4. /\ Size(active) \in Nat /\ Size(backup) \in Nat /\ orphans \in Nat /\ handles \in Int
      /\ handles = Size(active) + Size(backup) + orphans /\ counter \in SUID
  BY SizeFacts DEF SceneOK
<1>5. handles' \in Int /\ orphans' \in Nat /\ handles' - orphans' = Len(Runtime) + Size(backup)
  BY <1>1, <1>2, <1>4
<1>6. SceneOK'
  BY <1>1, <1>2, <1>4, <1>5, ReplaceActive
<1> QED
  BY <1>1, <1>3, <1>6 DEF ScriptKeeps

-----------------------------------------------------------------------------
(* The editor                                                              *)

\* A command has what its undo and redo take from it.
CommandOK(cmd) ==
    /\ "type" \in DOMAIN cmd
    /\ cmd.type = "set" => cmd.old \in Data /\ cmd.new \in Data
    /\ cmd.type = "delete" => EntriesOK(cmd.subtree)

\* The identifiers in a deleted subtree are not repeated.
CommandApart(cmd) == cmd.type = "delete" => EntriesApart(cmd.subtree)

\* The stack and the place in it.
CommandsOK ==
    /\ \E S : commands \in Seq(S)
    /\ index \in 0 .. Len(commands)
    /\ \A k \in DOMAIN commands : CommandOK(commands[k])

\* The scenes on disk can be loaded without leaving their bounds.
FilesOK ==
    /\ activeSceneID \in SceneIDs
    /\ DOMAIN files = SceneIDs
    /\ \A s \in SceneIDs : EntriesOK(files[s])

\* The scene that plays has a backup to go back to.
PlayOK ==
    /\ isPlaying \in BOOLEAN
    /\ Running => isPlaying /\ backup # NoContext

\* The maps are exact until an identifier is handed out while it is in use.
AllFound ==
    "reissued" \notin excuse =>
        /\ Found(active) /\ Found(backup)
        /\ \A k \in DOMAIN commands : CommandApart(commands[k])

\* An identifier in use belongs to the scene that is edited.
AllRegistered ==
    "played" \notin excuse =>
        IF isPlaying THEN Running /\ registered \subseteq ContextSUIDs(backup)
        ELSE backup = NoContext /\ registered \subseteq ContextSUIDs(active)

\* What holds in every session and is kept by every step.
EditorInv ==
    /\ SceneOK
    /\ CommandsOK
    /\ FilesOK
    /\ PlayOK
    /\ AllFound
    /\ AllRegistered

\* The invariant says what the runs check.
LEMMA EditorInvSays ==
    ASSUME EditorInv PROVE SUIDsAccounted /\ IndexOwnedOnce /\ HandlesAccounted
<1>1. HandlesAccounted
  BY DEF EditorInv, SceneOK
<1>2. IndexOwnedOnce
  <2>1. /\ IndicesOK(indices, Used) /\ Components(active) \cap Components(backup) = {}
    BY DEF EditorInv, SceneOK
  <2>2. /\ indices.free \in Seq(Nat) /\ NoRepeat(indices.free) /\ Range(indices.free) \cap Used = {}
    BY <2>1 DEF IndicesOK
  <2> DEFINE F == Range(indices.free)
             A == Components(active)
             B == Components(backup)
  <2>3. IsFiniteSet(F) /\ Cardinality(F) = Len(indices.free) /\ Len(indices.free) \in Nat
    BY <2>2, RangeSize
  <2>4. IsFiniteSet(A) /\ IsFiniteSet(B)
    BY SizeFacts DEF EditorInv
  <2>5. F \cap A = {} /\ F \cap B = {} /\ A \cap B = {}
    BY <2>1, <2>2 DEF Used
  <2>6. IsInjective(indices.free)
    BY <2>2 DEF IsInjective, NoRepeat
  <2> HIDE DEF F, A, B
  <2>7. Cardinality(F \cup A) = Cardinality(F) + Cardinality(A) - Cardinality({}) /\ IsFiniteSet(F \cup A)
    BY <2>3, <2>4, <2>5, FS_Union
  <2>8. (F \cup A) \cap B = {}
    BY <2>5
  <2>9. Cardinality((F \cup A) \cup B) = Cardinality(F \cup A) + Cardinality(B) - Cardinality({})
    BY <2>4, <2>7, <2>8, FS_Union
  <2>10. Cardinality({}) = 0 /\ Cardinality(A) \in Nat /\ Cardinality(B) \in Nat
    BY <2>4, FS_EmptySet, FS_CardinalityType
  <2>11. UNION {F, A, B} = (F \cup A) \cup B
    OBVIOUS
  <2>12. Cardinality(UNION {F, A, B}) = Len(indices.free) + Cardinality(A) + Cardinality(B)
    <3>1. Cardinality(F \cup A) = Len(indices.free) + Cardinality(A)
      BY <2>3, <2>7, <2>10
    <3>2. Cardinality((F \cup A) \cup B) = Len(indices.free) + Cardinality(A) + Cardinality(B)
      BY <2>3, <2>9, <2>10, <3>1
    <3> QED
      BY <2>11, <3>2
  <2> QED
    BY <2>6, <2>12 DEF IndexOwnedOnce, F, A, B
<1>3. SUIDsAccounted
  <2>1. Live(active) /\ Live(backup)
    BY EmptyFacts DEF EditorInv, SceneOK, ContextOK
  <2>2. ASSUME NEW c, Live(c), Found(c)
        PROVE  {<<c.node[i].suid, i>> : i \in {j \in Components(c) : c.node[j].suid # NoSUID}}
                  = {<<s, c.suids[s]>> : s \in DOMAIN c.suids}
    <3> DEFINE L == {<<c.node[i].suid, i>> : i \in {j \in Components(c) : c.node[j].suid # NoSUID}}
               R == {<<s, c.suids[s]>> : s \in DOMAIN c.suids}
    <3>1. ASSUME NEW x \in L PROVE x \in R
      <4>1. PICK i \in Components(c) : c.node[i].suid # NoSUID /\ x = <<c.node[i].suid, i>>
        OBVIOUS
      <4>2. c.node[i].suid \in DOMAIN c.suids /\ c.suids[c.node[i].suid] = i
        BY <2>2, <4>1 DEF Found
      <4> QED
        BY <4>1, <4>2
    <3>2. ASSUME NEW x \in R PROVE x \in L
      <4>1. PICK s \in DOMAIN c.suids : x = <<s, c.suids[s]>>
        OBVIOUS
      <4>2. s # NoSUID /\ c.suids[s] \in Components(c) /\ c.node[c.suids[s]].suid = s
        BY <2>2 DEF Live
      <4> QED
        BY <4>1, <4>2
    <3> QED
      BY <3>1, <3>2
  <2>3. "reissued" \notin excuse => Found(active) /\ Found(backup)
    BY DEF EditorInv, AllFound
  <2>4. \/ Excused({"reissued"})
        \/ \A c \in Contexts :
              {<<c.node[i].suid, i>> : i \in {j \in Components(c) : c.node[j].suid # NoSUID}}
                  = {<<s, c.suids[s]>> : s \in DOMAIN c.suids}
    <3>1. CASE "reissued" \in excuse
      BY <3>1 DEF Excused
    <3>2. CASE "reissued" \notin excuse
      <4> SUFFICES ASSUME NEW c \in Contexts
                   PROVE {<<c.node[i].suid, i>> : i \in {j \in Components(c) : c.node[j].suid # NoSUID}}
                           = {<<s, c.suids[s]>> : s \in DOMAIN c.suids}
        OBVIOUS
      <4>1. Live(c) /\ Found(c)
        BY <2>1, <2>3, <3>2 DEF Contexts
      <4> QED
        BY <2>2, <4>1
    <3> QED
      BY <3>1, <3>2
  <2>5. \/ Excused({"played"})
        \/ registered \subseteq UNION {SUIDsOf(c, Components(c)) : c \in Contexts}
    <3>1. CASE "played" \in excuse
      BY <3>1 DEF Excused
    <3>2. CASE "played" \notin excuse
      <4>1. registered \subseteq ContextSUIDs(active) \/ registered \subseteq ContextSUIDs(backup)
        BY <3>2 DEF EditorInv, AllRegistered
      <4>2. /\ ContextSUIDs(active) \in {SUIDsOf(c, Components(c)) : c \in Contexts}
            /\ ContextSUIDs(backup) \in {SUIDsOf(c, Components(c)) : c \in Contexts}
        BY DEF Contexts, ContextSUIDs
      <4> QED
        BY <4>1, <4>2
    <3> QED
      BY <3>1, <3>2
  <2> QED
    BY <2>4, <2>5 DEF SUIDsAccounted
<1> QED
  BY <1>1, <1>2, <1>3

\* The first scene can be loaded, its components under the first indices.
LEMMA FirstEntries ==
    LET at == [k \in DOMAIN FirstScene |-> k - 1]
    IN  /\ EntriesOK(FirstScene) /\ EntriesApart(FirstScene)
        /\ \A k \in DOMAIN FirstScene : FirstScene[k].suid \in SUID
        /\ Len(FirstScene) \in Nat /\ DOMAIN FirstScene = 1 .. Len(FirstScene)
        /\ at \in Seq(Nat) /\ Len(at) = Len(FirstScene) /\ NoRepeat(at)
        /\ DOMAIN at = 1 .. Len(FirstScene) /\ \A k \in DOMAIN FirstScene : at[k] = k - 1
<1> DEFINE n == Len(FirstScene)
           at == [k \in DOMAIN FirstScene |-> k - 1]
<1>1. n \in Nat /\ DOMAIN FirstScene = 1 .. n
  BY EditorConstants
<1>2. \A k \in 1 .. n : FirstScene[k] \in [suid : SUID, data : Data, parent : Nat]
  <2> DEFINE T == [suid : SUID, data : Data, parent : Nat]
  <2>1. FirstScene \in Seq(T)
    BY EditorConstants
  <2> HIDE DEF T
  <2>2. \A k \in 1 .. n : FirstScene[k] \in T
    BY <2>1
  <2> QED
    BY <2>2 DEF T
<1>3. \A k \in 1 .. n : FirstScene[k] \in Entry /\ FirstScene[k].suid \in SUID
  BY <1>2 DEF Entry
<1>4. FirstScene = [k \in 1 .. n |-> FirstScene[k]]
  BY <1>1, EditorConstants
<1>5. FirstScene \in Seq(Entry)
  BY <1>1, <1>3, <1>4
<1>6. EntriesOK(FirstScene) /\ EntriesApart(FirstScene)
  BY <1>5, EditorConstants DEF EntriesOK, EntriesApart
<1> HIDE DEF n
<1>7. at = [k \in 1 .. n |-> k - 1]
  BY <1>1
<1>8. at \in Seq(Nat) /\ Len(at) = n
  BY <1>1, <1>7
<1>9. NoRepeat(at)
  BY <1>1 DEF NoRepeat
<1> QED
  BY <1>1, <1>3, <1>6, <1>7, <1>8, <1>9 DEF n

\* The first scene is open.
LEMMA EditorInvInit == ASSUME Init PROVE EditorInv
<1> DEFINE n == Len(FirstScene)
           at == [k \in DOMAIN FirstScene |-> k - 1]
           d == Attach(EmptyContext, FirstScene, Root, at)
<1>1. n \in Nat /\ DOMAIN FirstScene = 1 .. n
  BY FirstEntries
<1>2. EntriesOK(FirstScene) /\ EntriesApart(FirstScene)
  BY FirstEntries
<1>3. /\ at \in Seq(Nat) /\ Len(at) = Len(FirstScene) /\ NoRepeat(at) /\ DOMAIN at = 1 .. n
      /\ \A k \in 1 .. n : at[k] = k - 1
  BY FirstEntries
<1> HIDE DEF n, at
<1>4. /\ Forest(EmptyContext) /\ Live(EmptyContext) /\ Found(EmptyContext)
      /\ Components(EmptyContext) = {} /\ ContextSUIDs(EmptyContext) = {}
      /\ Root \in Nodes(EmptyContext) /\ Components(NoContext) = {} /\ Found(NoContext)
  BY EmptyFacts DEF Nodes
<1>5. /\ Forest(d) /\ Components(d) = Range(at) \cup Components(EmptyContext)
  <2>1. Range(at) \cap Components(EmptyContext) = {}
    BY <1>4
  <2>2. Forest(EmptyContext) /\ Root \in Nodes(EmptyContext) /\ EntriesOK(FirstScene)
    BY <1>2, <1>4
  <2>3. at \in Seq(Nat) /\ Len(at) = Len(FirstScene) /\ NoRepeat(at)
    BY <1>3
  <2>4. Forest(Attach(EmptyContext, FirstScene, Root, at))
    BY <2>1, <2>2, <2>3, AttachFacts
  <2>5. Components(Attach(EmptyContext, FirstScene, Root, at)) = Range(at) \cup Components(EmptyContext)
    BY <2>1, <2>2, <2>3, AttachFacts
  <2> QED
    BY <2>4, <2>5
<1>6. /\ Live(d) /\ ContextSUIDs(d) = ContextSUIDs(EmptyContext) \cup EntrySUIDs(FirstScene)
      /\ (/\ Found(EmptyContext) /\ EntriesApart(FirstScene)
          /\ EntrySUIDs(FirstScene) \cap ContextSUIDs(EmptyContext) = {})
         => Found(d)
  BY <1>2, <1>3, <1>4, AttachSUIDs
<1> HIDE DEF d
<1>7. Components(d) = Range(at) /\ ContextSUIDs(d) = EntrySUIDs(FirstScene) /\ Found(d)
  BY <1>2, <1>4, <1>5, <1>6
<1>8. Cardinality(Components(d)) = n /\ \A x \in Components(d) : x \in Nat /\ x < n
  <2>1. Cardinality(Range(at)) = n
    BY <1>3, RangeSize DEF n
  <2>2. \A x \in Range(at) : x \in Nat /\ x < n
    BY <1>1, <1>3 DEF Range
  <2> QED
    BY <1>7, <2>1, <2>2
<1>9. /\ active = d /\ backup = NoContext /\ registered = EntrySUIDs(FirstScene) /\ counter = 0
      /\ indices = [used |-> n, free |-> <<>>] /\ handles = n /\ orphans = 0 /\ state = "loaded"
      /\ isPlaying = FALSE /\ commands = <<>> /\ index = 0 /\ files = <<FirstScene, <<>>>>
      /\ activeSceneID = 1 /\ excuse = {}
  BY DEF Init, d, at, n
<1>10. SceneOK
  <2>1. IndicesOK(indices, Used)
    <3>1. Used = Components(d)
      BY <1>4, <1>9 DEF Used
    <3>2. indices.free = <<>> /\ indices.used = n /\ DOMAIN <<>> = {}
      BY <1>9
    <3>3. Range(indices.free) = {} /\ NoRepeat(indices.free) /\ indices.free \in Seq(Nat)
      BY <3>2 DEF Range, NoRepeat
    <3> QED
      BY <1>1, <1>8, <1>9, <3>1, <3>2, <3>3 DEF IndicesOK
  <2>2. HandlesAccounted
    <3>1. Cardinality(Components(backup)) = 0
      BY <1>4, <1>9, FS_EmptySet
    <3> QED
      BY <1>1, <1>8, <1>9, <3>1 DEF HandlesAccounted
  <2>3. counter \in SUID
    BY <1>9, SUIDConstants DEF SUID
  <2> QED
    BY <1>1, <1>4, <1>5, <1>6, <1>9, <2>1, <2>2, <2>3 DEF SceneOK, ContextOK
<1>11. CommandsOK
  <2>1. commands \in Seq({}) /\ Len(commands) = 0 /\ DOMAIN commands = {}
    BY <1>9
  <2> QED
    BY <1>9, <2>1 DEF CommandsOK
<1>12. FilesOK
  <2>1. EntriesOK(<<>>)
    BY DEF EntriesOK
  <2>2. DOMAIN files = 1 .. 2 /\ files[1] = FirstScene /\ files[2] = <<>>
    BY <1>9
  <2>3. \A s \in 1 .. 2 : s = 1 \/ s = 2
    OBVIOUS
  <2> QED
    BY <1>2, <1>9, <2>1, <2>2, <2>3 DEF FilesOK, SceneIDs
<1>13. PlayOK
  BY <1>9 DEF PlayOK, Running
<1>14. AllFound
  <2>1. DOMAIN commands = {}
    BY <1>9
  <2> QED
    BY <1>4, <1>7, <1>9, <2>1 DEF AllFound
<1>15. AllRegistered
  BY <1>7, <1>9 DEF AllRegistered
<1> QED
  BY <1>10, <1>11, <1>12, <1>13, <1>14, <1>15 DEF EditorInv

\* The components that commands name.
LEMMA KnownComponents ==
    ASSUME SceneOK
    PROVE  /\ \A s : Known(s) => BySUID(s) \in Components(active)
           /\ \A s : KnownParent(s) => ParentIndex(s) \in Nodes(active)
           /\ \A path : AtPath(path) # None => AtPath(path) \in Components(active)
           /\ \A i \in Components(active) : Moved[active.node[i].data] \in Data
           /\ \A i \in Components(active) : active.node[i].data \in Data
<1>1. Forest(active) /\ Live(active)
  BY DEF SceneOK, ContextOK
<1>2. \A s : Known(s) => BySUID(s) \in Components(active)
  BY <1>1 DEF Known, BySUID, Live
<1>3. \A s : KnownParent(s) => ParentIndex(s) \in Nodes(active)
  BY <1>2 DEF KnownParent, ParentIndex, Nodes
<1>4. \A path : AtPath(path) # None => AtPath(path) \in Components(active)
  <2> SUFFICES ASSUME NEW path, AtPath(path) # None PROVE AtPath(path) \in Components(active)
    OBVIOUS
  <2>1. CASE \E i \in Components(active) : PathTo(i) = path
    BY <2>1 DEF AtPath
  <2>2. CASE ~\E i \in Components(active) : PathTo(i) = path
    BY <2>2 DEF AtPath
  <2> QED
    BY <2>1, <2>2
<1>5. \A i \in Components(active) : active.node[i].data \in Data
  <2> SUFFICES ASSUME NEW i \in Components(active) PROVE active.node[i].data \in Data
    OBVIOUS
  <2>1. active.node[i] \in ComponentData
    BY <1>1 DEF Forest
  <2> QED
    BY <2>1 DEF ComponentData
<1>6. \A i \in Components(active) : Moved[active.node[i].data] \in Data
  BY <1>5, EditorConstants
<1> QED
  BY <1>2, <1>3, <1>4, <1>5, <1>6

\* What a command does when it is executed or redone.
LEMMA RedoKeeps ==
    ASSUME SceneOK, NEW cmd, CommandOK(cmd), RedoAsserts(cmd), RedoEffect(cmd)
    PROVE  EditKeeps
<1>1. CASE cmd.type = "set" /\ SetData(cmd.suid, cmd.new)
  <2>1. Known(cmd.suid) /\ cmd.new \in Data
    BY <1>1 DEF RedoAsserts, CommandOK
  <2> QED
    BY <1>1, <2>1, SetDataStep
<1>2. CASE cmd.type = "add" /\ CreateComponentSerial(ParentIndex(cmd.parent))
  <2>1. ParentIndex(cmd.parent) \in Nodes(active)
    BY <1>2, KnownComponents DEF RedoAsserts
  <2> QED
    BY <1>2, <2>1, CreateStep
<1>3. CASE cmd.type = "clone" /\ LET i == AtPath(cmd.path)
                                 IN  CloneComponentSubtree(i, Moved[active.node[i].data])
  <2>1. /\ AtPath(cmd.path) \in Components(active)
        /\ Moved[active.node[AtPath(cmd.path)].data] \in Data
    BY <1>3, KnownComponents DEF RedoAsserts
  <2> QED
    BY <1>3, <2>1, CloneStep
<1>4. CASE cmd.type = "delete" /\ DestroyComponentSubtree(BySUID(cmd.suid))
  <2>1. BySUID(cmd.suid) \in Components(active)
    BY <1>4, KnownComponents DEF RedoAsserts
  <2> QED
    BY <1>4, <2>1, DestroyStep
<1> QED
  BY <1>1, <1>2, <1>3, <1>4 DEF RedoEffect

\* What a command does when it is undone.
LEMMA UndoKeeps ==
    ASSUME SceneOK, NEW cmd, CommandOK(cmd), "reissued" \in excuse \/ CommandApart(cmd),
           UndoAsserts(cmd), UndoEffect(cmd)
    PROVE  EditKeeps
<1>1. CASE cmd.type = "set" /\ SetData(cmd.suid, cmd.old)
  <2>1. Known(cmd.suid) /\ cmd.old \in Data
    BY <1>1 DEF UndoAsserts, CommandOK
  <2> QED
    BY <1>1, <2>1, SetDataStep
<1>2. CASE cmd.type = "add" /\ DestroyComponentSubtree(BySUID(cmd.suid))
  <2>1. BySUID(cmd.suid) \in Components(active)
    BY <1>2, KnownComponents DEF UndoAsserts
  <2> QED
    BY <1>2, <2>1, DestroyStep
<1>3. CASE cmd.type = "clone" /\ IF cmd.dst \in Components(active)
                                 THEN DestroyComponentSubtree(cmd.dst)
                                 ELSE UNCHANGED sceneVars
  <2>1. CASE cmd.dst \in Components(active)
    BY <1>3, <2>1, DestroyStep
  <2>2. CASE cmd.dst \notin Components(active)
    <3>1. UNCHANGED <<registered, counter, state, active, backup, indices, handles, orphans>>
      BY <1>3, <2>2 DEF sceneVars, suidVars
    <3>2. SceneOK'
      BY <3>1 DEF SceneOK, HandlesAccounted, Used
    <3> QED
      BY <3>1, <3>2 DEF EditKeeps
  <2> QED
    BY <2>1, <2>2
<1>4. CASE cmd.type = "delete" /\ CreateComponentSubtree(cmd.subtree,
                                    IF Known(cmd.parent) THEN BySUID(cmd.parent) ELSE Root)
  <2> DEFINE p == IF Known(cmd.parent) THEN BySUID(cmd.parent) ELSE Root
  <2>1. p \in Nodes(active)
    BY KnownComponents DEF Nodes
  <2>2. EntriesOK(cmd.subtree) /\ \A s \in EntrySUIDs(cmd.subtree) : CanTry(s)
    BY <1>4 DEF CommandOK, UndoAsserts
  <2>3. "reissued" \in excuse \/ EntriesApart(cmd.subtree)
    BY <1>4 DEF CommandApart
  <2> QED
    BY <1>4, <2>1, <2>2, <2>3, RecreateStep
<1> QED
  BY <1>1, <1>2, <1>3, <1>4 DEF UndoEffect

\* What an edit does to the rest of the invariant.
LEMMA EditStep ==
    ASSUME EditorInv, EditKeeps, UNCHANGED isPlaying, Excuses \subseteq excuse'
    PROVE  /\ SceneOK' /\ PlayOK' /\ AllRegistered'
           /\ "reissued" \notin excuse' => Found(active') /\ Found(backup')
           /\ excuse \subseteq excuse'
<1>1. /\ SceneOK' /\ state' = state /\ backup' = backup /\ isPlaying' = isPlaying
      /\ Found(active) /\ "reissued" \notin excuse => Reissued \/ Found(active')
      /\ registered \subseteq ContextSUIDs(active) => registered' \subseteq ContextSUIDs(active')
  BY DEF EditKeeps
<1>2. /\ excuse \subseteq excuse'
      /\ isPlaying => "played" \in excuse'
      /\ Reissued => "reissued" \in excuse'
  BY DEF Excuses, Excuse
<1>3. PlayOK'
  BY <1>1 DEF EditorInv, PlayOK, Running
<1>4. AllRegistered'
  <2> SUFFICES ASSUME "played" \notin excuse'
               PROVE  ~isPlaying /\ backup' = NoContext /\ registered' \subseteq ContextSUIDs(active')
    BY <1>1 DEF AllRegistered
  <2>1. "played" \notin excuse /\ ~isPlaying
    BY <1>2
  <2>2. backup = NoContext /\ registered \subseteq ContextSUIDs(active)
    BY <2>1 DEF EditorInv, AllRegistered
  <2> QED
    BY <1>1, <2>1, <2>2
<1>5. "reissued" \notin excuse' => Found(active') /\ Found(backup')
  <2> SUFFICES ASSUME "reissued" \notin excuse' PROVE Found(active') /\ Found(backup')
    OBVIOUS
  <2>1. "reissued" \notin excuse /\ ~Reissued
    BY <1>2
  <2>2. Found(active) /\ Found(backup)
    BY <2>1 DEF EditorInv, AllFound
  <2> QED
    BY <1>1, <2>1, <2>2
<1> QED
  BY <1>1, <1>2, <1>3, <1>4, <1>5

\* What undo and redo leave in a command keeps what they need.
LEMMA KeptCommands ==
    ASSUME NEW cmd, CommandOK(cmd)
    PROVE  /\ CommandOK(Redone(cmd)) /\ (CommandApart(cmd) => CommandApart(Redone(cmd)))
           /\ CommandOK(Undone(cmd)) /\ (CommandApart(cmd) => CommandApart(Undone(cmd)))
<1>0. "type" \in DOMAIN cmd
  BY DEF CommandOK
<1>1. CASE cmd.type = "add"
  <2>1. /\ "type" \in DOMAIN [cmd EXCEPT !.suid = NthSUID(1)]
        /\ [cmd EXCEPT !.suid = NthSUID(1)].type = "add"
        /\ "type" \in DOMAIN [cmd EXCEPT !.suid = NoSUID]
        /\ [cmd EXCEPT !.suid = NoSUID].type = "add"
    BY <1>0, <1>1
  <2>2. Redone(cmd) = [cmd EXCEPT !.suid = NthSUID(1)] /\ Undone(cmd) = [cmd EXCEPT !.suid = NoSUID]
    BY <1>1 DEF Redone, Undone
  <2> QED
    BY <2>1, <2>2 DEF CommandOK, CommandApart
<1>2. CASE cmd.type = "clone"
  <2> DEFINE a == [cmd EXCEPT !.dst = NthIndex(1), !.made = NthSUID(1)]
             b == [cmd EXCEPT !.dst = None, !.made = NoSUID]
  <2>1. /\ "type" \in DOMAIN a /\ a.type = "clone" /\ "type" \in DOMAIN b /\ b.type = "clone"
    BY <1>0, <1>2
  <2>2. Redone(cmd) = a /\ Undone(cmd) = b
    BY <1>2 DEF Redone, Undone
  <2> HIDE DEF a, b
  <2> QED
    BY <2>1, <2>2 DEF CommandOK, CommandApart
<1>3. CASE cmd.type # "add" /\ cmd.type # "clone"
  BY <1>3 DEF Redone, Undone
<1> QED
  BY <1>1, <1>2, <1>3

\* A command takes the place of those that were undone.
LEMMA PushCommand ==
    ASSUME CommandsOK, NEW x, CommandOK(x),
           commands' = Append(SubSeq(commands, 1, index), x), index' = index + 1
    PROVE  /\ CommandsOK'
           /\ \A k \in DOMAIN commands' : commands'[k] = x \/ \E j \in DOMAIN commands : commands'[k] = commands[j]
<1>1. PICK S : commands \in Seq(S)
  BY DEF CommandsOK
<1>2. Len(commands) \in Nat /\ DOMAIN commands = 1 .. Len(commands) /\ index \in 0 .. Len(commands)
  BY <1>1 DEF CommandsOK
<1> DEFINE kept == SubSeq(commands, 1, index)
<1>3. /\ kept \in Seq(S) /\ Len(kept) = index /\ \A k \in 1 .. index : kept[k] = commands[k]
  BY <1>1, <1>2
<1> HIDE DEF kept
<1>4. /\ commands' \in Seq(S \cup {x}) /\ Len(commands') = index + 1 /\ DOMAIN commands' = 1 .. index + 1
      /\ \A k \in 1 .. index : commands'[k] = kept[k]
      /\ commands'[index + 1] = x
  <2>1. commands' = Append(kept, x) /\ kept \in Seq(S \cup {x}) /\ index \in Nat
    BY <1>2, <1>3 DEF kept
  <2> QED
    BY <1>3, <2>1
<1>5. ASSUME NEW k \in DOMAIN commands'
      PROVE  commands'[k] = x \/ \E j \in DOMAIN commands : commands'[k] = commands[j]
  <2>1. CASE k = index + 1
    BY <1>4, <2>1
  <2>2. CASE k # index + 1
    <3>1. k \in 1 .. index /\ k \in DOMAIN commands
      BY <1>2, <1>4, <2>2
    <3>2. commands'[k] = commands[k]
      BY <1>3, <1>4, <3>1
    <3> QED
      BY <3>1, <3>2
  <2> QED
    BY <2>1, <2>2
<1>6. \A k \in DOMAIN commands' : CommandOK(commands'[k])
  BY <1>5 DEF CommandsOK
<1>7. index' \in 0 .. Len(commands')
  BY <1>2, <1>4
<1> QED
  BY <1>4, <1>5, <1>6, <1>7 DEF CommandsOK

\* A command is replaced by what undo or redo leave of it.
LEMMA ReplaceCommand ==
    ASSUME CommandsOK, NEW j \in DOMAIN commands, NEW x, CommandOK(x),
           commands' = [commands EXCEPT ![j] = x], index' \in 0 .. Len(commands)
    PROVE  /\ CommandsOK'
           /\ DOMAIN commands' = DOMAIN commands
           /\ \A k \in DOMAIN commands : commands'[k] = IF k = j THEN x ELSE commands[k]
<1>1. PICK S : commands \in Seq(S)
  BY DEF CommandsOK
<1>2. commands' \in Seq(S \cup {x}) /\ Len(commands') = Len(commands) /\ DOMAIN commands' = DOMAIN commands
  <2>1. commands \in Seq(S \cup {x})
    BY <1>1
  <2> QED
    BY <2>1
<1>3. \A k \in DOMAIN commands : commands'[k] = IF k = j THEN x ELSE commands[k]
  BY <1>1
<1>4. \A k \in DOMAIN commands' : CommandOK(commands'[k])
  BY <1>2, <1>3 DEF CommandsOK
<1> QED
  BY <1>2, <1>3, <1>4 DEF CommandsOK

\* A failed assertion changes nothing but what is known of it.
LEMMA CrashStep == ASSUME EditorInv, NEW reasons, Crash(reasons) PROVE EditorInv'
<1>1. /\ UNCHANGED <<registered, counter, state, active, backup, indices, handles, orphans,
                     isPlaying, commands, index, files, activeSceneID>>
      /\ excuse \subseteq excuse'
  BY DEF Crash, sceneVars, suidVars, stackVars, fileVars
<1> QED
  BY <1>1 DEF EditorInv, SceneOK, CommandsOK, FilesOK, PlayOK, AllFound, AllRegistered,
              Running, HandlesAccounted, Used

\* A new command.
LEMMA ExecuteStep ==
    ASSUME EditorInv, NEW cmd, CommandOK(cmd), "reissued" \in excuse \/ CommandApart(cmd),
           Execute(cmd)
    PROVE  EditorInv'
<1>1. CASE ~RedoAsserts(cmd)
  BY <1>1, CrashStep DEF Execute
<1>2. CASE RedoAsserts(cmd)
  <2>1. /\ RedoEffect(cmd)
        /\ UNCHANGED <<isPlaying, files, activeSceneID>>
        /\ commands' = Append(SubSeq(commands, 1, index), Redone(cmd)) /\ index' = index + 1
        /\ excuse' = Excuses
    BY <1>2 DEF Execute, fileVars
  <2>2. EditKeeps
    BY <1>2, <2>1, RedoKeeps DEF EditorInv
  <2>3. /\ SceneOK' /\ PlayOK' /\ AllRegistered' /\ excuse \subseteq excuse'
        /\ "reissued" \notin excuse' => Found(active') /\ Found(backup')
    BY <2>1, <2>2, EditStep
  <2>4. CommandOK(Redone(cmd)) /\ ("reissued" \in excuse \/ CommandApart(Redone(cmd)))
    BY KeptCommands
  <2>5. /\ CommandsOK'
        /\ \A k \in DOMAIN commands' : \/ commands'[k] = Redone(cmd)
                                       \/ \E j \in DOMAIN commands : commands'[k] = commands[j]
    BY <2>1, <2>4, PushCommand DEF EditorInv
  <2>6. "reissued" \notin excuse' => \A k \in DOMAIN commands' : CommandApart(commands'[k])
    <3> SUFFICES ASSUME "reissued" \notin excuse', NEW k \in DOMAIN commands'
                 PROVE  CommandApart(commands'[k])
      OBVIOUS
    <3>1. "reissued" \notin excuse
      BY <2>3
    <3>2. \A j \in DOMAIN commands : CommandApart(commands[j])
      BY <3>1 DEF EditorInv, AllFound
    <3> QED
      BY <2>4, <2>5, <3>1, <3>2
  <2>7. FilesOK'
    BY <2>1 DEF EditorInv, FilesOK
  <2> QED
    BY <2>3, <2>5, <2>6, <2>7 DEF EditorInv, AllFound
<1> QED
  BY <1>1, <1>2

\* The user's edits.
LEMMA EditsStep == ASSUME EditorInv, Edit PROVE EditorInv'
<1>0. SceneOK /\ Forest(active) /\ Live(active)
  BY DEF EditorInv, SceneOK, ContextOK
<1>1. ASSUME NEW s \in DOMAIN active.suids, NEW d \in Data, Execute(SetCommand(s, d)) PROVE EditorInv'
  <2> DEFINE cmd == SetCommand(s, d)
  <2>1. BySUID(s) \in Components(active)
    BY <1>0, KnownComponents DEF Known
  <2>2. active.node[BySUID(s)].data \in Data
    BY <1>0, <2>1, KnownComponents
  <2>3. CommandOK(cmd) /\ CommandApart(cmd)
    BY <2>2 DEF SetCommand, CommandOK, CommandApart
  <2> HIDE DEF cmd
  <2> QED
    BY <1>1, <2>3, ExecuteStep DEF cmd
<1>2. ASSUME NEW s, Execute(CloneCommand(s)) PROVE EditorInv'
  <2> DEFINE cmd == CloneCommand(s)
  <2>1. CommandOK(cmd) /\ CommandApart(cmd)
    BY DEF CloneCommand, CommandOK, CommandApart
  <2> HIDE DEF cmd
  <2> QED
    BY <1>2, <2>1, ExecuteStep DEF cmd
<1>3. ASSUME NEW s, Execute(AddCommand(s)) PROVE EditorInv'
  <2> DEFINE cmd == AddCommand(s)
  <2>1. CommandOK(cmd) /\ CommandApart(cmd)
    BY DEF AddCommand, CommandOK, CommandApart
  <2> HIDE DEF cmd
  <2> QED
    BY <1>3, <2>1, ExecuteStep DEF cmd
<1>4. ASSUME NEW s \in DOMAIN active.suids, Execute(DeleteCommand(s)) PROVE EditorInv'
  <2> DEFINE cmd == DeleteCommand(s)
             i == BySUID(s)
             t == PreOrder(active, i)
             es == Entries(active, t)
  <2>1. i \in Components(active)
    BY <1>0, KnownComponents DEF Known
  <2> HIDE DEF i
  <2>2. t \in Seq(Components(active)) /\ NoRepeat(t) /\ Onward(active.kids, t)
    <3>1. i \in Nodes(active)
      BY <2>1 DEF Nodes
    <3>2. /\ t \in Seq(Nodes(active)) /\ NoRepeat(t) /\ Range(t) = Subtree(active, i)
          /\ Onward(active.kids, t)
      BY <1>0, <3>1, SubtreeFacts
    <3>3. Subtree(active, i) \subseteq Components(active)
      BY <1>0, <2>1, PruneFacts
    <3> HIDE DEF t
    <3>4. Len(t) \in Nat /\ t = [k \in 1 .. Len(t) |-> t[k]] /\ DOMAIN t = 1 .. Len(t)
      BY <3>2
    <3>5. \A k \in 1 .. Len(t) : t[k] \in Components(active)
      BY <3>2, <3>3, <3>4 DEF Range
    <3>6. t \in Seq(Components(active))
      BY <3>4, <3>5
    <3> QED
      BY <3>2, <3>6
  <2> HIDE DEF t
  <2>3. EntriesOK(es) /\ (Found(active) => EntriesApart(es))
    BY <1>0, <2>2, EntriesFacts, FoundApart
  <2>4. "reissued" \in excuse \/ EntriesApart(es)
    BY <2>3 DEF EditorInv, AllFound
  <2> HIDE DEF es
  <2>5. cmd = [type |-> "delete", suid |-> s, parent |-> ParentSUID(i), subtree |-> es]
    BY DEF DeleteCommand, es, t, i
  <2>6. CommandOK(cmd) /\ ("reissued" \in excuse \/ CommandApart(cmd))
    BY <2>3, <2>4, <2>5 DEF CommandOK, CommandApart
  <2> HIDE DEF cmd
  <2> QED
    BY <1>4, <2>6, ExecuteStep DEF cmd
<1> QED
  BY <1>1, <1>2, <1>3, <1>4 DEF Edit

\* What undo and redo have in common.
LEMMA WalkStep ==
    ASSUME EditorInv, EditKeeps, UNCHANGED <<isPlaying, files, activeSceneID>>,
           Excuses \subseteq excuse',
           NEW j \in DOMAIN commands, NEW x, CommandOK(x),
           CommandApart(commands[j]) => CommandApart(x),
           commands' = [commands EXCEPT ![j] = x], index' \in 0 .. Len(commands)
    PROVE  EditorInv'
<1>1. /\ SceneOK' /\ PlayOK' /\ AllRegistered' /\ excuse \subseteq excuse'
      /\ "reissued" \notin excuse' => Found(active') /\ Found(backup')
  BY EditStep
<1>2. /\ CommandsOK' /\ DOMAIN commands' = DOMAIN commands
      /\ \A k \in DOMAIN commands : commands'[k] = IF k = j THEN x ELSE commands[k]
  BY ReplaceCommand DEF EditorInv
<1>3. "reissued" \notin excuse' => \A k \in DOMAIN commands' : CommandApart(commands'[k])
  <2> SUFFICES ASSUME "reissued" \notin excuse', NEW k \in DOMAIN commands'
               PROVE  CommandApart(commands'[k])
    OBVIOUS
  <2>1. \A m \in DOMAIN commands : CommandApart(commands[m])
    BY <1>1 DEF EditorInv, AllFound
  <2> QED
    BY <1>2, <2>1
<1>4. FilesOK'
  BY DEF EditorInv, FilesOK
<1> QED
  BY <1>1, <1>2, <1>3, <1>4 DEF EditorInv, AllFound

\* The command that undo and redo take is on the stack.
LEMMA OnStack ==
    ASSUME CommandsOK
    PROVE  /\ Len(commands) \in Nat /\ index \in 0 .. Len(commands)
           /\ index > 0 => index \in DOMAIN commands /\ index - 1 \in 0 .. Len(commands)
           /\ index < Len(commands) => index + 1 \in DOMAIN commands /\ index + 1 \in 0 .. Len(commands)
<1>1. PICK S : commands \in Seq(S)
  BY DEF CommandsOK
<1>2. Len(commands) \in Nat /\ DOMAIN commands = 1 .. Len(commands)
  BY <1>1
<1> QED
  BY <1>2 DEF CommandsOK

\* The last command is undone.
LEMMA UndoStep == ASSUME EditorInv, Undo PROVE EditorInv'
<1> DEFINE cmd == commands[index]
<1>0. SceneOK /\ CommandsOK /\ index > 0
  BY DEF EditorInv, Undo
<1>1. index \in DOMAIN commands /\ index - 1 \in 0 .. Len(commands)
  BY <1>0, OnStack
<1>2. CommandOK(cmd) /\ ("reissued" \in excuse \/ CommandApart(cmd))
  BY <1>1 DEF EditorInv, CommandsOK, AllFound
<1>3. CASE ~UndoAsserts(cmd)
  BY <1>3, CrashStep DEF Undo
<1>4. CASE UndoAsserts(cmd)
  <2>1. /\ UndoEffect(cmd) /\ UNCHANGED <<isPlaying, files, activeSceneID>>
        /\ commands' = [commands EXCEPT ![index] = Undone(cmd)] /\ index' = index - 1
        /\ Excuses \subseteq excuse'
    BY <1>4 DEF Undo, fileVars
  <2> HIDE DEF cmd
  <2>2. EditKeeps
    BY <1>0, <1>2, <1>4, <2>1, UndoKeeps
  <2>3. CommandOK(Undone(cmd)) /\ (CommandApart(cmd) => CommandApart(Undone(cmd)))
    BY <1>2, KeptCommands
  <2> QED
    BY <1>1, <2>1, <2>2, <2>3, WalkStep DEF cmd
<1> QED
  BY <1>3, <1>4

\* The next command is done again.
LEMMA RedoStep == ASSUME EditorInv, Redo PROVE EditorInv'
<1> DEFINE cmd == commands[index + 1]
<1>0. SceneOK /\ CommandsOK /\ index < Len(commands)
  BY DEF EditorInv, Redo
<1>1. index + 1 \in DOMAIN commands /\ index + 1 \in 0 .. Len(commands)
  BY <1>0, OnStack
<1>2. CommandOK(cmd)
  BY <1>1 DEF EditorInv, CommandsOK
<1>3. CASE ~RedoAsserts(cmd)
  BY <1>3, CrashStep DEF Redo
<1>4. CASE RedoAsserts(cmd)
  <2>1. /\ RedoEffect(cmd) /\ UNCHANGED <<isPlaying, files, activeSceneID>>
        /\ commands' = [commands EXCEPT ![index + 1] = Redone(cmd)] /\ index' = index + 1
        /\ Excuses \subseteq excuse'
    BY <1>4 DEF Redo, fileVars
  <2> HIDE DEF cmd
  <2>2. EditKeeps
    BY <1>0, <1>2, <1>4, <2>1, RedoKeeps
  <2>3. CommandOK(Redone(cmd)) /\ (CommandApart(cmd) => CommandApart(Redone(cmd)))
    BY <1>2, KeptCommands
  <2> QED
    BY <1>1, <2>1, <2>2, <2>3, WalkStep DEF cmd
<1> QED
  BY <1>3, <1>4

\* The scene is written to disk.
LEMMA SaveStep == ASSUME EditorInv, Save PROVE EditorInv'
<1>1. /\ UNCHANGED <<registered, counter, state, active, backup, indices, handles, orphans,
                     isPlaying, commands, index, activeSceneID>>
      /\ files' = [files EXCEPT ![activeSceneID] = Entries(active, All(active))]
      /\ excuse \subseteq excuse'
  BY DEF Save, sceneVars, suidVars
<1>2. EntriesOK(Entries(active, All(active)))
  BY ActiveEntries DEF EditorInv
<1>3. FilesOK'
  <2> DEFINE es == Entries(active, All(active))
  <2> HIDE DEF es
  <2>1. files' = [files EXCEPT ![activeSceneID] = es] /\ EntriesOK(es)
    BY <1>1, <1>2 DEF es
  <2>2. /\ activeSceneID \in SceneIDs /\ DOMAIN files = SceneIDs
        /\ \A s \in SceneIDs : EntriesOK(files[s])
    BY DEF EditorInv, FilesOK
  <2>3. DOMAIN files' = SceneIDs
    BY <2>1, <2>2
  <2>4. ASSUME NEW s \in SceneIDs PROVE EntriesOK(files'[s])
    <3>1. files'[s] = es \/ files'[s] = files[s]
      BY <2>1, <2>2
    <3> QED
      BY <2>1, <2>2, <3>1
  <2> QED
    BY <1>1, <2>2, <2>3, <2>4 DEF FilesOK
<1> QED
  BY <1>1, <1>3 DEF EditorInv, SceneOK, CommandsOK, PlayOK, AllFound, AllRegistered,
                    Running, HandlesAccounted, Used

\* Another scene takes the place of the active one, and the stack is empty.
LEMMA LoadStep ==
    ASSUME EditorInv, NEW s, NEW es, EntriesOK(es), EntriesApart(es), LoadScene(s, es),
           ResetAsserts, s \in SceneIDs, excuse' = ExcuseOfLoad,
           DOMAIN files' = SceneIDs, \A t \in SceneIDs : EntriesOK(files'[t])
    PROVE  EditorInv'
<1>1. /\ Reload(es) /\ activeSceneID' = s /\ commands' = <<>> /\ index' = 0
      /\ UNCHANGED isPlaying
  BY DEF LoadScene
<1>2. /\ SceneOK' /\ UNCHANGED backup /\ state' = "loaded" /\ Found(active')
      /\ registered' \subseteq (registered \ ContextSUIDs(active)) \cup ContextSUIDs(active')
  BY <1>1, ReloadStep DEF EditorInv
<1>3. /\ "reissued" \in excuse => "reissued" \in excuse'
      /\ "played" \in excuse => "played" \in excuse'
  BY DEF ExcuseOfLoad
<1>4. DOMAIN commands' = {} /\ commands' \in Seq({}) /\ Len(commands') = 0
  BY <1>1
<1>5. CommandsOK'
  BY <1>1, <1>4 DEF CommandsOK
<1>6. FilesOK'
  BY <1>1 DEF FilesOK
<1>7. PlayOK'
  BY <1>1, <1>2 DEF EditorInv, PlayOK, Running
<1>8. AllFound'
  BY <1>2, <1>3, <1>4 DEF EditorInv, AllFound
<1>9. AllRegistered'
  <2> SUFFICES ASSUME "played" \notin excuse'
               PROVE  ~isPlaying /\ backup' = NoContext /\ registered' \subseteq ContextSUIDs(active')
    BY <1>1 DEF AllRegistered
  <2>1. "played" \notin excuse /\ backup = NoContext
    BY <1>3 DEF ResetAsserts
  <2>2. ~isPlaying /\ backup = NoContext /\ registered \subseteq ContextSUIDs(active)
    BY <2>1 DEF EditorInv, AllRegistered, PlayOK
  <2> QED
    BY <1>2, <2>2
<1> QED
  BY <1>2, <1>5, <1>6, <1>7, <1>8, <1>9 DEF EditorInv

\* A scene is opened from disk, or the open one again.
LEMMA OpenSceneStep == ASSUME EditorInv, NEW s \in SceneIDs, OpenScene(s) PROVE EditorInv'
<1>1. CASE s = activeSceneID
  <2>1. /\ commands' = <<>> /\ index' = 0
        /\ UNCHANGED <<registered, counter, state, active, backup, indices, handles, orphans,
                       isPlaying, files, activeSceneID, excuse>>
    BY <1>1 DEF OpenScene, sceneVars, suidVars, fileVars
  <2>2. DOMAIN commands' = {} /\ commands' \in Seq({}) /\ Len(commands') = 0
    BY <2>1
  <2>3. CommandsOK'
    BY <2>1, <2>2 DEF CommandsOK
  <2> QED
    BY <2>1, <2>2, <2>3 DEF EditorInv, SceneOK, FilesOK, PlayOK, AllFound, AllRegistered,
                            Running, HandlesAccounted, Used
<1>2. CASE s # activeSceneID /\ (~ResetAsserts \/ ~Loadable(files[s]))
  BY <1>2, CrashStep DEF OpenScene
<1>3. CASE s # activeSceneID /\ ResetAsserts /\ Loadable(files[s])
  <2>1. LoadScene(s, files[s]) /\ excuse' = ExcuseOfLoad /\ files' = files
    BY <1>3 DEF OpenScene
  <2>2. /\ EntriesOK(files[s]) /\ DOMAIN files' = SceneIDs
        /\ \A t \in SceneIDs : EntriesOK(files'[t])
    BY <2>1 DEF EditorInv, FilesOK
  <2>3. EntriesApart(files[s])
    BY <1>3 DEF Loadable, EntriesApart
  <2> QED
    BY <1>3, <2>1, <2>2, <2>3, LoadStep
<1> QED
  BY <1>1, <1>2, <1>3

\* An empty scene is created and opened.
LEMMA CreateSceneStep == ASSUME EditorInv, CreateScene PROVE EditorInv'
<1> SUFFICES ASSUME ResetAsserts PROVE EditorInv'
  BY CrashStep DEF CreateScene
<1> DEFINE es == <<>>
<1>1. LoadScene(2, es) /\ files' = [files EXCEPT ![2] = es] /\ excuse' = ExcuseOfLoad
  BY DEF CreateScene
<1>2. EntriesOK(es) /\ EntriesApart(es)
  BY DEF EntriesOK, EntriesApart
<1>3. DOMAIN files = SceneIDs /\ \A t \in SceneIDs : EntriesOK(files[t])
  BY DEF EditorInv, FilesOK
<1>4. 2 \in SceneIDs
  BY DEF SceneIDs
<1> HIDE DEF es
<1>5. DOMAIN files' = SceneIDs
  BY <1>1, <1>3
<1>6. ASSUME NEW t \in SceneIDs PROVE EntriesOK(files'[t])
  <2>1. files'[t] = es \/ files'[t] = files[t]
    BY <1>1, <1>3
  <2> QED
    BY <1>2, <1>3, <2>1
<1> QED
  BY <1>1, <1>2, <1>4, <1>5, <1>6, LoadStep

\* What play, stop and scripts leave alone.
LEMMA PlayLeaves ==
    ASSUME EditorInv, UnchangedByPlay, SceneOK', PlayOK', AllRegistered',
           Found(active) /\ Found(backup) => Found(active') /\ Found(backup')
    PROVE  EditorInv'
<1>1. UNCHANGED <<commands, index, files, activeSceneID, excuse>>
  BY DEF UnchangedByPlay, stackVars, fileVars
<1>2. CommandsOK' /\ FilesOK'
  BY <1>1 DEF EditorInv, CommandsOK, FilesOK
<1>3. AllFound'
  BY <1>1 DEF EditorInv, AllFound
<1> QED
  BY <1>2, <1>3 DEF EditorInv

\* A copy of the scene plays, or its startup fails.
LEMMA PlaySceneStep == ASSUME EditorInv, PlayScene PROVE EditorInv'
<1>0. /\ SceneOK /\ PlayOK /\ AllRegistered /\ ~isPlaying /\ UnchangedByPlay
      /\ excuse' = excuse
  BY DEF EditorInv, PlayScene, UnchangedByPlay
<1>1. CASE PlayStarts /\ isPlaying' = TRUE
  <2>1. /\ SceneOK' /\ backup' = active /\ backup' # NoContext /\ state' = "running"
        /\ registered' = registered /\ (Found(active) => Found(active'))
    BY <1>0, <1>1, PlayStep
  <2>2. PlayOK'
    BY <1>1, <2>1 DEF PlayOK, Running
  <2>3. AllRegistered'
    BY <1>0, <1>1, <2>1 DEF AllRegistered, Running
  <2> QED
    BY <1>0, <2>1, <2>2, <2>3, PlayLeaves
<1>2. CASE PlayFails /\ UNCHANGED isPlaying
  <2>1. /\ SceneOK' /\ UNCHANGED <<active, state>> /\ backup' = NoContext
        /\ registered' \subseteq registered
    BY <1>0, <1>2, PlayFailsStep
  <2>2. PlayOK'
    BY <1>0, <1>2, <2>1 DEF PlayOK, Running
  <2>3. AllRegistered'
    BY <1>0, <1>2, <2>1 DEF AllRegistered, Running
  <2>4. Found(backup')
    BY <2>1, EmptyFacts
  <2> QED
    BY <1>0, <2>1, <2>2, <2>3, <2>4, PlayLeaves
<1> QED
  BY <1>1, <1>2 DEF PlayScene

\* The copy is thrown away.
LEMMA StopSceneStep == ASSUME EditorInv, StopScene PROVE EditorInv'
<1>0. /\ SceneOK /\ PlayOK /\ AllRegistered /\ isPlaying /\ isPlaying' = FALSE /\ UnchangedByPlay
      /\ excuse' = excuse
  BY DEF EditorInv, StopScene, UnchangedByPlay
<1>1. CASE Running
  <2>1. Cleanup /\ backup # NoContext
    BY <1>0, <1>1 DEF StopScene, PlayOK
  <2>2. /\ SceneOK' /\ active' = backup /\ backup' = NoContext /\ state' = "loaded"
        /\ registered' \subseteq registered
    BY <1>0, <2>1, CleanupStep
  <2>3. PlayOK'
    BY <1>0, <2>2 DEF PlayOK, Running
  <2>4. AllRegistered'
    BY <1>0, <2>2 DEF AllRegistered
  <2>5. Found(backup')
    BY <2>2, EmptyFacts
  <2> QED
    BY <1>0, <2>2, <2>3, <2>4, <2>5, PlayLeaves
<1>2. CASE ~Running
  <2>1. UNCHANGED <<registered, counter, state, active, backup, indices, handles, orphans>>
    BY <1>2 DEF StopScene, sceneVars, suidVars
  <2>2. SceneOK'
    BY <1>0, <2>1 DEF SceneOK, HandlesAccounted, Used
  <2>3. PlayOK'
    BY <1>0, <1>2, <2>1 DEF PlayOK, Running
  <2>4. AllRegistered'
    BY <1>0, <1>2 DEF AllRegistered
  <2> QED
    BY <1>0, <2>1, <2>2, <2>3, <2>4, PlayLeaves
<1> QED
  BY <1>1, <1>2

\* The scripts of the running copy do something.
LEMMA ScriptsStep == ASSUME EditorInv, ScriptStep PROVE EditorInv'
<1>0. /\ SceneOK /\ PlayOK /\ AllRegistered /\ Running /\ isPlaying' = isPlaying /\ UnchangedByPlay
      /\ excuse' = excuse
  BY DEF EditorInv, ScriptStep, UnchangedByPlay
<1>1. ScriptKeeps
  BY <1>0, CreateChildStep, DestroyAtRuntimeStep, TransitionStep DEF ScriptStep
<1>2. /\ SceneOK' /\ registered' = registered /\ state' = state /\ backup' = backup
      /\ Found(active) => Found(active')
  BY <1>1 DEF ScriptKeeps
<1>3. PlayOK'
  BY <1>0, <1>2 DEF PlayOK, Running
<1>4. AllRegistered'
  BY <1>0, <1>2 DEF AllRegistered, PlayOK, Running
<1> QED
  BY <1>0, <1>2, <1>3, <1>4, PlayLeaves

\* Every step of the editor keeps the invariant.
LEMMA EditorInvNext == EditorInv /\ [Next]_vars => EditorInv'
<1> SUFFICES ASSUME EditorInv, [Next]_vars PROVE EditorInv'
  OBVIOUS
<1>1. CASE UNCHANGED vars
  <2>1. UNCHANGED <<registered, counter, state, active, backup, indices, handles, orphans,
                    isPlaying, commands, index, files, activeSceneID, excuse>>
    BY <1>1 DEF vars, sceneVars, suidVars, stackVars, fileVars
  <2> QED
    BY <2>1 DEF EditorInv, SceneOK, CommandsOK, FilesOK, PlayOK, AllFound, AllRegistered,
                Running, HandlesAccounted, Used
<1>2. CASE Next
  BY <1>2, EditsStep, UndoStep, RedoStep, SaveStep, OpenSceneStep, CreateSceneStep,
     PlaySceneStep, StopSceneStep, ScriptsStep DEF Next
<1> QED
  BY <1>1, <1>2

\* The invariant holds in every session.
LEMMA EditorInvariant == Spec => []EditorInv
<1>1. Init => EditorInv
  BY EditorInvInit
<1> QED
  BY <1>1, EditorInvNext, PTL DEF Spec

\* In every session each context finds its components under their own serial
\* identifiers and under no other until one is handed out while it is in use
\* (DataRegistry.cpp:505-566), and no identifier is in use that belongs to no
\* component, until the user edits or saves while the scene plays.
THEOREM SUIDsAccountedAlways == Spec => []SUIDsAccounted
<1>1. EditorInv => SUIDsAccounted
  BY EditorInvSays
<1> QED
  BY <1>1, EditorInvariant, PTL

\* In every session a runtime identifier is free once or names one component
\* of one context: what plays never shares one with what is kept
\* (Scene.cpp:668-684).
THEOREM IndexOwnedOnceAlways == Spec => []IndexOwnedOnce
<1>1. EditorInv => IndexOwnedOnce
  BY EditorInvSays
<1> QED
  BY <1>1, EditorInvariant, PTL

\* In every session the draws, playbacks and cameras that exist are those of the
\* components of both contexts and those that scripts and transitions dropped
\* without unload (Scene.cpp:228-242, 765-766).
THEOREM HandlesAccountedAlways == Spec => []HandlesAccounted
<1>1. EditorInv => HandlesAccounted
  BY EditorInvSays
<1> QED
  BY <1>1, EditorInvariant, PTL
=============================================================================
