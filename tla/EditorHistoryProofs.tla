------------------------ MODULE EditorHistoryProofs -------------------------
(***************************************************************************)
(* The editor implements the history of documents that EditHistory         *)
(* promises, in every session, until something happens that its commands   *)
(* do not survive.                                                         *)
(*                                                                         *)
(* A document does not say by which identifiers and indices a scene has    *)
(* its components, and a command is done and undone by identifiers.  In    *)
(* between is the shape of a scene, which is a function from identifiers:  *)
(* what a component shows and which one is above it (ContextShape).  A     *)
(* shape has one document (Pictures, PicturedOnce); what each command says *)
(* of the shapes before and after it is Relates, and Names when it also    *)
(* knows the component that it made.  ShapedInv says that there are shapes *)
(* for the versions on the stack which the commands relate; a command done *)
(* again makes another shape, of the same document (RelatesOnce).          *)
(*                                                                         *)
(* That a scene has a shape needs an identifier for every component, and   *)
(* that a file can be loaded needs one for every entry, which is NamedInv. *)
(***************************************************************************)
EXTENDS EditorProofs

-----------------------------------------------------------------------------
(* Documents                                                               *)

\* The path to an entry is the path to its parent and its own data.
PathAt(es, P, k) == IF k = 0 THEN <<>> ELSE Append(P[es[k].parent], es[k].data)

\* P has the paths, and es is the document in which each occurs so many times.
PathsOf(es, P) == \A k \in 0 .. Len(es) : P[k] = PathAt(es, P, k)
Counted(es, P) == [p \in {P[k] : k \in DOMAIN es} |-> Cardinality({k \in DOMAIN es : P[k] = p})]

\* What Document counts: the paths exist, since parents come first.
LEMMA DocumentPaths ==
    ASSUME NEW es, EntriesOK(es)
    PROVE  \E P : PathsOf(es, P) /\ Document(es) = Counted(es, P)
<1> DEFINE At(P, k) == IF k = 0 THEN <<>> ELSE Append(P[es[k].parent], es[k].data)
           Paths(m, P) == P = [k \in 0 .. m |-> At(P, k)]
           Missing == {m \in Nat : m <= Len(es) /\ ~\E P : Paths(m, P)}
<1>1. /\ Len(es) \in Nat /\ DOMAIN es = 1 .. Len(es)
      /\ \A k \in 1 .. Len(es) : es[k].parent \in Nat /\ es[k].parent < k
  <2>1. Len(es) \in Nat /\ DOMAIN es = 1 .. Len(es) /\ \A k \in 1 .. Len(es) : es[k] \in Entry
    BY DEF EntriesOK
  <2>2. \A k \in 1 .. Len(es) : es[k].parent \in Nat
    BY <2>1 DEF Entry
  <2> QED
    BY <2>1, <2>2 DEF EntriesOK
<1>2. Missing = {}
  <2> SUFFICES ASSUME Missing # {} PROVE FALSE
    OBVIOUS
  <2>1. PICK m \in Missing : \A j \in Missing : m <= j
    <3>1. Missing \subseteq Nat
      OBVIOUS
    <3> HIDE DEF Missing
    <3> QED
      BY <3>1, LeastNumber
  <2>2. m \in Nat /\ m <= Len(es) /\ ~\E P : Paths(m, P)
    OBVIOUS
  <2>3. CASE m = 0
    <3> DEFINE g == [k \in 0 .. 0 |-> <<>>]
    <3>1. \A k \in 0 .. 0 : At(g, k) = <<>>
      OBVIOUS
    <3>2. g = [k \in 0 .. 0 |-> At(g, k)]
      <4> HIDE DEF At
      <4> QED
        BY <3>1
    <3> HIDE DEF At
    <3> QED
      BY <2>2, <2>3, <3>2
  <2>4. CASE m # 0
    <3>1. m - 1 \in Nat /\ m - 1 \notin Missing /\ m - 1 <= Len(es)
      <4> HIDE DEF Missing
      <4> QED
        BY <1>1, <2>1, <2>2, <2>4
    <3>2. PICK f : Paths(m - 1, f)
      BY <3>1
    <3> DEFINE g == [k \in 0 .. m |-> At(f, k)]
    <3>3. ASSUME NEW k \in 0 .. m - 1 PROVE k \in 0 .. m /\ g[k] = f[k]
      <4>1. k \in 0 .. m
        BY <2>2
      <4>2. f[k] = At(f, k)
        BY <3>2
      <4> HIDE DEF At
      <4> QED
        BY <4>1, <4>2
    <3>4. ASSUME NEW k \in 0 .. m PROVE At(f, k) = At(g, k)
      <4>1. CASE k = 0
        BY <4>1
      <4>2. CASE k # 0
        <5>1. es[k].parent \in 0 .. m - 1
          BY <1>1, <2>2, <4>2
        <5>2. g[es[k].parent] = f[es[k].parent]
          <6> HIDE DEF g
          <6> QED
            BY <3>3, <5>1
        <5> HIDE DEF g
        <5> QED
          BY <4>2, <5>2
      <4> QED
        BY <4>1, <4>2
    <3>5. Paths(m, g)
      <4> HIDE DEF At
      <4> QED
        BY <3>4
    <3> HIDE DEF Paths
    <3> QED
      BY <2>2, <3>5
  <2> QED
    BY <2>3, <2>4
<1>3. \E P : Paths(Len(es), P)
  <2>1. Len(es) \notin Missing /\ Len(es) <= Len(es)
    <3> HIDE DEF Missing
    <3> QED
      BY <1>1, <1>2
  <2> HIDE DEF Paths
  <2> QED
    BY <1>1, <2>1
<1> DEFINE P == CHOOSE P : Paths(Len(es), P)
           paths == [k \in DOMAIN es |-> P[k]]
<1>4. Paths(Len(es), P)
  <2> HIDE DEF Paths
  <2> QED
    BY <1>3
<1>5. Document(es) = [p \in Range(paths) |-> Cardinality({k \in DOMAIN es : paths[k] = p})]
  BY DEF Document
<1> HIDE DEF P
<1>6. Range(paths) = {P[k] : k \in DOMAIN es}
  BY DEF Range
<1>7. \A p : {k \in DOMAIN es : paths[k] = p} = {k \in DOMAIN es : P[k] = p}
  OBVIOUS
<1>8. Document(es) = Counted(es, P)
  <2> HIDE DEF paths
  <2>1. [p \in Range(paths) |-> Cardinality({k \in DOMAIN es : paths[k] = p})]
          = [p \in Range(paths) |-> Cardinality({k \in DOMAIN es : P[k] = p})]
    BY <1>7
  <2> QED
    BY <1>5, <1>6, <2>1 DEF Counted
<1>9. PathsOf(es, P)
  BY <1>4 DEF PathsOf, PathAt
<1> QED
  BY <1>8, <1>9

\* Entries that match one to one, and their parents too, are one document.
LEMMA SameDocument ==
    ASSUME NEW es, EntriesOK(es), NEW fs, EntriesOK(fs), NEW F \in [DOMAIN es -> DOMAIN fs],
           \A j, k \in DOMAIN es : F[j] = F[k] => j = k,
           \A m \in DOMAIN fs : \E k \in DOMAIN es : F[k] = m,
           \A k \in DOMAIN es : /\ fs[F[k]].data = es[k].data
                                /\ es[k].parent = 0 => fs[F[k]].parent = 0
                                /\ es[k].parent # 0 => fs[F[k]].parent = F[es[k].parent]
    PROVE  Document(es) = Document(fs)
<1>1. /\ Len(es) \in Nat /\ DOMAIN es = 1 .. Len(es)
      /\ \A k \in 1 .. Len(es) : es[k].parent \in Nat /\ es[k].parent < k
  <2>1. Len(es) \in Nat /\ DOMAIN es = 1 .. Len(es) /\ \A k \in 1 .. Len(es) : es[k] \in Entry
    BY DEF EntriesOK
  <2>2. \A k \in 1 .. Len(es) : es[k].parent \in Nat
    BY <2>1 DEF Entry
  <2> QED
    BY <2>1, <2>2 DEF EntriesOK
<1>2. Len(fs) \in Nat /\ DOMAIN fs = 1 .. Len(fs)
  BY DEF EntriesOK
<1>3. PICK P : PathsOf(es, P) /\ Document(es) = Counted(es, P)
  BY DocumentPaths
<1>4. PICK Q : PathsOf(fs, Q) /\ Document(fs) = Counted(fs, Q)
  BY DocumentPaths
<1>5. /\ \A k \in 0 .. Len(es) : P[k] = PathAt(es, P, k)
      /\ \A k \in 0 .. Len(fs) : Q[k] = PathAt(fs, Q, k)
  BY <1>3, <1>4 DEF PathsOf
<1>6. \A k \in DOMAIN es : Q[F[k]] = P[k]
  <2> DEFINE Wrong == {k \in DOMAIN es : Q[F[k]] # P[k]}
  <2> SUFFICES ASSUME Wrong # {} PROVE FALSE
    OBVIOUS
  <2>1. PICK k \in Wrong : \A j \in Wrong : k <= j
    <3>1. Wrong \subseteq Nat
      BY <1>1
    <3> HIDE DEF Wrong
    <3> QED
      BY <3>1, LeastNumber
  <2>2. k \in DOMAIN es /\ k \in 1 .. Len(es) /\ F[k] \in 1 .. Len(fs) /\ Q[F[k]] # P[k]
    BY <1>1, <1>2
  <2>3. /\ P[k] = Append(P[es[k].parent], es[k].data)
        /\ Q[F[k]] = Append(Q[fs[F[k]].parent], es[k].data)
    <3>1. P[k] = PathAt(es, P, k) /\ Q[F[k]] = PathAt(fs, Q, F[k]) /\ k # 0 /\ F[k] # 0
      BY <1>1, <1>2, <1>5, <2>2
    <3> QED
      BY <2>2, <3>1 DEF PathAt
  <2>4. CASE es[k].parent = 0
    <3>1. P[0] = <<>> /\ Q[0] = <<>>
      BY <1>1, <1>2, <1>5 DEF PathAt
    <3> QED
      BY <2>2, <2>3, <2>4, <3>1
  <2>5. CASE es[k].parent # 0
    <3> DEFINE j == es[k].parent
    <3>1. j \in DOMAIN es /\ j < k
      BY <1>1, <2>2, <2>5
    <3>2. j \notin Wrong
      <4> HIDE DEF Wrong, j
      <4> QED
        BY <1>1, <2>1, <2>2, <3>1
    <3>3. Q[F[j]] = P[j] /\ fs[F[k]].parent = F[j]
      BY <2>2, <2>5, <3>1, <3>2
    <3> QED
      BY <2>2, <2>3, <3>3
  <2> QED
    BY <2>4, <2>5
<1>7. {P[k] : k \in DOMAIN es} = {Q[k] : k \in DOMAIN fs}
  BY <1>6
<1>8. ASSUME NEW p
      PROVE  Cardinality({k \in DOMAIN es : P[k] = p}) = Cardinality({k \in DOMAIN fs : Q[k] = p})
  <2> DEFINE S == {k \in DOMAIN es : P[k] = p}
             T == {k \in DOMAIN fs : Q[k] = p}
             G == [k \in S |-> F[k]]
  <2>1. G \in [S -> T] /\ \A j, k \in S : G[j] = G[k] => j = k
    BY <1>6
  <2>2. \A t \in T : \E k \in S : G[k] = t
    BY <1>6
  <2>3. IsFiniteSet(S)
    <3>1. IsFiniteSet(DOMAIN es) /\ S \subseteq DOMAIN es
      BY <1>1, FS_Interval
    <3> HIDE DEF S
    <3> QED
      BY <3>1, FS_Subset
  <2> HIDE DEF G
  <2>4. G \in Surjection(S, T) /\ G \in Injection(S, T)
    BY <2>1, <2>2 DEF Surjection, Injection, IsInjective
  <2> HIDE DEF S, T
  <2>5. Cardinality(T) = Cardinality(S)
    BY <2>3, <2>4, FS_Surjection
  <2> QED
    BY <2>5 DEF S, T
<1>9. Counted(es, P) = Counted(fs, Q)
  <2> DEFINE D == {P[k] : k \in DOMAIN es}
             C(p) == Cardinality({k \in DOMAIN es : P[k] = p})
             E(p) == Cardinality({k \in DOMAIN fs : Q[k] = p})
  <2>1. \A p : C(p) = E(p)
    BY <1>8
  <2>2. Counted(es, P) = [p \in D |-> C(p)] /\ Counted(fs, Q) = [p \in D |-> E(p)]
    BY <1>7 DEF Counted
  <2> HIDE DEF D, C, E
  <2> QED
    BY <2>1, <2>2
<1> QED
  BY <1>3, <1>4, <1>9

-----------------------------------------------------------------------------
(* Shapes                                                                  *)

\* A shape says of every serial identifier what the component shows and which
\* one is above it. The order of children and the indices are not in it.
NameOf(c, n) == IF n = Root THEN NoSUID ELSE c.node[n].suid

\* h is the shape of c.
ContextShape(c, h) ==
    /\ DOMAIN h = DOMAIN c.suids
    /\ \A i \in Components(c) :
          c.node[i].suid \in DOMAIN h /\ h[c.node[i].suid].data = c.node[i].data
    /\ \A n \in Nodes(c) : \A x \in Range(c.kids[n]) : h[c.node[x].suid].up = NameOf(c, n)

WellFormed(h) ==
    \A s \in DOMAIN h : /\ s \in SUID /\ h[s].data \in Data
                        /\ h[s].up \in DOMAIN h \cup {NoSUID}

\* The shapes say the same of X.
Agree(g, h, X) == \A x \in X : g[x].data = h[x].data /\ g[x].up = h[x].up

\* The entries are named, and each by its own identifier.
EntriesNamed(es) ==
    /\ \A k \in DOMAIN es : es[k].suid # NoSUID
    /\ \A j, k \in DOMAIN es : es[j].suid = es[k].suid => j = k

\* The entries are what h has of U, below p.
EntriesBelow(es, h, U, p) ==
    /\ EntrySUIDs(es) = U
    /\ EntriesNamed(es)
    /\ \A k \in DOMAIN es :
          /\ h[es[k].suid].data = es[k].data
          /\ h[es[k].suid].up = IF es[k].parent = 0 THEN p ELSE es[es[k].parent].suid

\* U is s and everything below it.
Below(h, s, U) ==
    /\ s \in U /\ U \subseteq DOMAIN h
    /\ \A x \in DOMAIN h : h[x].up \in U => x \in U
    /\ \A x \in U : x = s \/ h[x].up \in U

\* d is the document with the shape h.
Pictures(d, h) ==
    \E es : EntriesOK(es) /\ EntriesBelow(es, h, DOMAIN h, NoSUID) /\ d = Document(es)

\* The map of c is exact, and every component has an identifier.
Sound(c) == ContextOK(c) /\ Found(c)

\* No serial identifier is the one of components without one.
LEMMA NoSUIDApart == NoSUID \notin SUID
  BY SUIDConstants DEF SUID, NoSUID

\* The lists of a context hold its components.
LEMMA KidsFacts ==
    ASSUME NEW c, Forest(c)
    PROVE  /\ \A n \in Nodes(c) : Range(c.kids[n]) \subseteq Components(c)
           /\ \A i \in Components(c) : i \in Nodes(c) /\ i # Root
           /\ \A i \in Components(c) : c.node[i].suid \in SUID \cup {NoSUID} /\ c.node[i].data \in Data
           /\ \A i \in Components(c) : \E n \in Nodes(c) : i \in Range(c.kids[n])
           /\ \A m, n \in Nodes(c) : \A x \in Range(c.kids[m]) : x \in Range(c.kids[n]) => m = n
<1>1. Shaped(c) /\ ByLists(c)
  BY ForestByLists
<1>2. \A n \in Nodes(c) : c.kids[n] \in Seq(Components(c))
  BY <1>1 DEF Shaped
<1>3. \A n \in Nodes(c) : Range(c.kids[n]) \subseteq Components(c)
  BY <1>2, RangeSize
<1>4. \A i \in Components(c) : i \in Nodes(c) /\ i # Root
  BY <1>1 DEF Shaped, Nodes, Root
<1>5. \A i \in Components(c) : c.node[i] \in ComponentData
  BY <1>1 DEF Shaped
<1>6. \A i \in Components(c) : c.node[i].suid \in SUID \cup {NoSUID} /\ c.node[i].data \in Data
  BY <1>5 DEF ComponentData
<1> QED
  BY <1>1, <1>3, <1>4, <1>6 DEF ByLists

\* What the shape of a context says of its components.
LEMMA ShapeFacts ==
    ASSUME NEW c, Sound(c), NEW h, ContextShape(c, h)
    PROVE  /\ \A i \in Components(c) : /\ c.node[i].suid \in DOMAIN h /\ c.node[i].suid # NoSUID
                                       /\ c.suids[c.node[i].suid] = i
           /\ \A s \in DOMAIN h : /\ s # NoSUID /\ c.suids[s] \in Components(c)
                                  /\ c.node[c.suids[s]].suid = s
           /\ ContextSUIDs(c) = DOMAIN h
           /\ WellFormed(h)
           /\ \A n \in Nodes(c) : \A x \in Components(c) :
                 h[c.node[x].suid].up = NameOf(c, n) => x \in Range(c.kids[n])
<1>1. Forest(c) /\ Live(c) /\ Found(c)
  BY DEF Sound, ContextOK
<1>2. DOMAIN h = DOMAIN c.suids /\ \A i \in Components(c) : c.node[i].suid \in DOMAIN h
  BY DEF ContextShape
<1>3. \A s \in DOMAIN h : s # NoSUID /\ c.suids[s] \in Components(c) /\ c.node[c.suids[s]].suid = s
  BY <1>1, <1>2 DEF Live
<1>4. \A i \in Components(c) : c.node[i].suid # NoSUID /\ c.suids[c.node[i].suid] = i
  BY <1>1, <1>2, <1>3 DEF Found
<1>5. ContextSUIDs(c) = DOMAIN h
  <2>1. \A s : s \in ContextSUIDs(c) <=> s # NoSUID /\ \E i \in Components(c) : c.node[i].suid = s
    BY InContextSUIDs
  <2> QED
    BY <1>2, <1>3, <2>1
<1>6. \A m, n \in Nodes(c) : NameOf(c, m) = NameOf(c, n) => m = n
  BY <1>4 DEF NameOf, Nodes
<1>7. ASSUME NEW n \in Nodes(c), NEW x \in Components(c), h[c.node[x].suid].up = NameOf(c, n)
      PROVE  x \in Range(c.kids[n])
  <2>1. PICK m \in Nodes(c) : x \in Range(c.kids[m])
    BY <1>1, KidsFacts
  <2>2. NameOf(c, m) = NameOf(c, n)
    BY <1>7, <2>1 DEF ContextShape
  <2> QED
    BY <1>6, <2>1, <2>2
<1>8. ASSUME NEW s \in DOMAIN h
      PROVE  s \in SUID /\ h[s].data \in Data /\ h[s].up \in DOMAIN h \cup {NoSUID}
  <2> DEFINE i == c.suids[s]
  <2>1. i \in Components(c) /\ c.node[i].suid = s /\ s # NoSUID
    BY <1>3
  <2> HIDE DEF i
  <2>2. s \in SUID /\ h[s].data \in Data
    <3>1. c.node[i].suid \in SUID \cup {NoSUID} /\ c.node[i].data \in Data
      BY <1>1, <2>1, KidsFacts
    <3>2. h[c.node[i].suid].data = c.node[i].data
      BY <2>1 DEF ContextShape
    <3> QED
      BY <2>1, <3>1, <3>2
  <2>3. PICK n \in Nodes(c) : i \in Range(c.kids[n])
    BY <1>1, <2>1, KidsFacts
  <2>4. h[s].up = NameOf(c, n)
    BY <2>1, <2>3 DEF ContextShape
  <2>5. NameOf(c, n) \in DOMAIN h \cup {NoSUID}
    BY <1>2 DEF NameOf, Nodes
  <2> QED
    BY <2>2, <2>4, <2>5
<1>9. WellFormed(h)
  BY <1>8 DEF WellFormed
<1> QED
  BY <1>2, <1>3, <1>4, <1>5, <1>7, <1>9

\* The entries of components that are followed by their children have the
\* shape of the context, those without a parent among them below p.
LEMMA EntriesShape ==
    ASSUME NEW c, Sound(c), NEW h, ContextShape(c, h),
           NEW s \in Seq(Components(c)), NoRepeat(s), Onward(c.kids, s), NEW U, NEW p,
           U = SUIDsOf(c, Range(s)), \A x \in U : h[x].up \in U \/ h[x].up = p
    PROVE  /\ EntriesOK(Entries(c, s)) /\ EntriesBelow(Entries(c, s), h, U, p)
           /\ \A k \in DOMAIN Entries(c, s) :
                 Entries(c, s)[k].parent = 0 => h[Entries(c, s)[k].suid].up \notin U
<1> DEFINE es == Entries(c, s)
<1>1. Forest(c)
  BY DEF Sound, ContextOK
<1>2. /\ EntriesOK(es) /\ Len(es) = Len(s) /\ EntrySUIDs(es) = U
      /\ \A k \in DOMAIN s : es[k].suid = c.node[s[k]].suid /\ es[k].data = c.node[s[k]].data
      /\ \A k \in DOMAIN s : \/ es[k].parent = 0 /\ \A j \in DOMAIN s : s[k] \notin Range(c.kids[s[j]])
                             \/ es[k].parent \in DOMAIN s /\ s[k] \in Range(c.kids[s[es[k].parent]])
  BY <1>1, EntriesFacts
<1> HIDE DEF es
<1>3. DOMAIN es = DOMAIN s /\ 0 \notin DOMAIN s /\ \A k \in DOMAIN s : s[k] \in Components(c)
  <2>1. Len(es) \in Nat /\ DOMAIN es = 1 .. Len(es)
    BY <1>2 DEF EntriesOK
  <2> QED
    BY <1>2, <2>1
<1>4. \A k \in DOMAIN s : es[k].suid \in DOMAIN h /\ es[k].suid # NoSUID /\ es[k].suid \in U
  <2>1. \A k \in DOMAIN s : es[k].suid \in DOMAIN h /\ es[k].suid # NoSUID
    BY <1>2, <1>3, ShapeFacts
  <2> QED
    BY <1>2, <1>3, <2>1 DEF EntrySUIDs
<1>5. EntriesNamed(es)
  <2>1. ASSUME NEW j \in DOMAIN es, NEW k \in DOMAIN es, es[j].suid = es[k].suid PROVE j = k
    <3>1. c.suids[es[j].suid] = s[j] /\ c.suids[es[k].suid] = s[k]
      BY <1>2, <1>3, ShapeFacts
    <3> QED
      BY <1>3, <2>1, <3>1 DEF NoRepeat
  <2> QED
    BY <1>3, <1>4, <2>1 DEF EntriesNamed
<1>6. ASSUME NEW k \in DOMAIN es
      PROVE  /\ es[k].parent = 0 => h[es[k].suid].up \notin U
             /\ h[es[k].suid].data = es[k].data
             /\ h[es[k].suid].up = IF es[k].parent = 0 THEN p ELSE es[es[k].parent].suid
  <2>1. h[es[k].suid].data = es[k].data
    BY <1>2, <1>3 DEF ContextShape
  <2>2. CASE es[k].parent = 0
    <3>1. \A j \in DOMAIN s : s[k] \notin Range(c.kids[s[j]])
      BY <1>2, <1>3, <2>2
    <3> SUFFICES ASSUME h[es[k].suid].up \in U PROVE FALSE
      BY <1>3, <1>4, <2>1, <2>2
    <3>2. PICK j \in DOMAIN s : es[j].suid = h[es[k].suid].up
      BY <1>2, <1>3 DEF EntrySUIDs
    <3>3. s[j] \in Nodes(c) /\ NameOf(c, s[j]) = es[j].suid
      BY <1>1, <1>2, <1>3, KidsFacts DEF NameOf
    <3>4. s[k] \in Range(c.kids[s[j]])
      BY <1>2, <1>3, <3>2, <3>3, ShapeFacts
    <3> QED
      BY <3>1, <3>4
  <2>3. CASE es[k].parent # 0
    <3> DEFINE j == es[k].parent
    <3>1. j \in DOMAIN s /\ s[k] \in Range(c.kids[s[j]])
      BY <1>2, <1>3, <2>3
    <3> HIDE DEF j
    <3>2. s[j] \in Nodes(c) /\ NameOf(c, s[j]) = es[j].suid
      BY <1>1, <1>2, <1>3, <3>1, KidsFacts DEF NameOf
    <3>3. h[es[k].suid].up = es[j].suid
      BY <1>2, <1>3, <3>1, <3>2 DEF ContextShape
    <3> QED
      BY <2>1, <2>3, <3>3 DEF j
  <2> QED
    BY <2>2, <2>3
<1> QED
  BY <1>2, <1>5, <1>6 DEF EntriesBelow, es

\* All of the context.
LEMMA AllShape ==
    ASSUME NEW c, Sound(c), NEW h, ContextShape(c, h)
    PROVE  /\ EntriesOK(Entries(c, All(c)))
           /\ EntriesBelow(Entries(c, All(c)), h, DOMAIN h, NoSUID)
<1> DEFINE s == All(c)
<1>1. Forest(c)
  BY DEF Sound, ContextOK
<1>2. s \in Seq(Components(c)) /\ NoRepeat(s) /\ Range(s) = Components(c) /\ Onward(c.kids, s)
  BY <1>1, AllFacts
<1> HIDE DEF s
<1>3. DOMAIN h = SUIDsOf(c, Range(s))
  BY <1>2, ShapeFacts DEF ContextSUIDs
<1>4. \A x \in DOMAIN h : h[x].up \in DOMAIN h \/ h[x].up = NoSUID
  BY ShapeFacts DEF WellFormed
<1>5. EntriesOK(Entries(c, s)) /\ EntriesBelow(Entries(c, s), h, DOMAIN h, NoSUID)
  BY <1>2, <1>3, <1>4, EntriesShape
<1> QED
  BY <1>5 DEF s

\* A context shows the document with its shape.
LEMMA ContextPictured ==
    ASSUME NEW c, Sound(c), NEW h, ContextShape(c, h)
    PROVE  Pictures(DocumentOf(c), h)
<1>1. DocumentOf(c) = Document(Entries(c, All(c)))
  BY DEF DocumentOf
<1> QED
  BY <1>1, AllShape DEF Pictures

\* The subtree of i, which has the identifier s.
LEMMA SubtreeShape ==
    ASSUME NEW c, Sound(c), NEW h, ContextShape(c, h), NEW i \in Components(c), NEW U,
           U = SUIDsOf(c, Subtree(c, i))
    PROVE  /\ Below(h, c.node[i].suid, U)
           /\ EntriesOK(Entries(c, PreOrder(c, i)))
           /\ EntriesBelow(Entries(c, PreOrder(c, i)), h, U, h[c.node[i].suid].up)
           /\ \A k \in DOMAIN Entries(c, PreOrder(c, i)) :
                 Entries(c, PreOrder(c, i))[k].parent = 0 =>
                    h[Entries(c, PreOrder(c, i))[k].suid].up \notin U
<1> DEFINE X == Subtree(c, i)
           s == PreOrder(c, i)
           u == c.node[i].suid
<1>1. Forest(c) /\ i \in Nodes(c)
  BY DEF Sound, ContextOK, Nodes
<1>2. /\ IsSubtree(c, i, X) /\ s \in Seq(Nodes(c)) /\ NoRepeat(s) /\ Range(s) = X /\ Onward(c.kids, s)
      /\ X \subseteq Components(c)
  BY <1>1, SubtreeFacts, PruneFacts
<1> HIDE DEF X, s
<1>3. s \in Seq(Components(c))
  <2>1. Len(s) \in Nat /\ s = [k \in 1 .. Len(s) |-> s[k]] /\ DOMAIN s = 1 .. Len(s)
    BY <1>2
  <2>2. \A k \in 1 .. Len(s) : s[k] \in Components(c)
    BY <1>2, <2>1 DEF Range
  <2> QED
    BY <2>1, <2>2
<1>4. /\ \A x \in X : c.node[x].suid \in U /\ c.node[x].suid \in DOMAIN h
      /\ \A y \in U : c.suids[y] \in X /\ c.node[c.suids[y]].suid = y /\ y \in DOMAIN h
      /\ U = SUIDsOf(c, X)
  <2>1. \A x \in X : c.node[x].suid \in DOMAIN h /\ c.node[x].suid # NoSUID /\ c.suids[c.node[x].suid] = x
    BY <1>2, ShapeFacts
  <2>2. U = SUIDsOf(c, X)
    BY DEF X
  <2>3. U = {c.node[x].suid : x \in X} \ {NoSUID}
    BY <2>2 DEF SUIDsOf
  <2>4. ASSUME NEW y \in U PROVE c.suids[y] \in X /\ c.node[c.suids[y]].suid = y /\ y \in DOMAIN h
    <3>1. PICK x \in X : y = c.node[x].suid
      BY <2>3
    <3> QED
      BY <2>1, <3>1
  <2>5. \A x \in X : c.node[x].suid \in U /\ c.node[x].suid \in DOMAIN h
    BY <2>1, <2>3
  <2> QED
    BY <2>2, <2>4, <2>5
<1>5. ASSUME NEW y \in DOMAIN h, h[y].up \in U PROVE y \in U
  <2> DEFINE x == c.suids[y]
             n == c.suids[h[y].up]
  <2>1. x \in Components(c) /\ c.node[x].suid = y
    BY ShapeFacts
  <2>2. n \in X /\ c.node[n].suid = h[y].up
    BY <1>4, <1>5
  <2> HIDE DEF x, n
  <2>3. n \in Nodes(c) /\ n # Root
    BY <1>1, <1>2, <2>2, KidsFacts
  <2>a. h[c.node[x].suid].up = NameOf(c, n)
    BY <2>1, <2>2, <2>3 DEF NameOf
  <2>4. x \in Range(c.kids[n])
    BY <2>1, <2>3, <2>a, ShapeFacts
  <2>5. x \in X
    BY <1>2, <2>2, <2>4 DEF IsSubtree, Range
  <2> QED
    BY <1>4, <2>1, <2>5
<1>6. ASSUME NEW y \in U PROVE y = u \/ h[y].up \in U
  <2> DEFINE x == c.suids[y]
  <2>1. x \in X /\ c.node[x].suid = y
    BY <1>4
  <2> HIDE DEF x
  <2>2. SUFFICES ASSUME x # i PROVE h[y].up \in U
    BY <2>1
  <2>3. PICK n \in X : \E k \in DOMAIN c.kids[n] : c.kids[n][k] = x
    BY <1>2, <2>1, <2>2 DEF IsSubtree
  <2>4. x \in Range(c.kids[n]) /\ n \in Nodes(c) /\ n # Root
    BY <1>1, <1>2, <2>3, KidsFacts DEF Range
  <2>5. h[y].up = c.node[n].suid
    BY <2>1, <2>4 DEF ContextShape, NameOf
  <2> QED
    BY <1>4, <2>3, <2>5
<1>7. Below(h, u, U)
  <2>1. u \in U /\ U \subseteq DOMAIN h
    BY <1>2, <1>4 DEF IsSubtree
  <2> QED
    BY <1>5, <1>6, <2>1 DEF Below
<1>8. \A y \in U : h[y].up \in U \/ h[y].up = h[u].up
  BY <1>6
<1>9. /\ EntriesOK(Entries(c, s)) /\ EntriesBelow(Entries(c, s), h, U, h[u].up)
      /\ \A k \in DOMAIN Entries(c, s) :
            Entries(c, s)[k].parent = 0 => h[Entries(c, s)[k].suid].up \notin U
  BY <1>2, <1>3, <1>4, <1>8, EntriesShape
<1> QED
  BY <1>7, <1>9 DEF s

\* There is only one such set.
LEMMA BelowUnique ==
    ASSUME NEW c, Sound(c), NEW h, ContextShape(c, h), NEW s, NEW U, Below(h, s, U)
    PROVE  c.suids[s] \in Components(c) /\ U = SUIDsOf(c, Subtree(c, c.suids[s]))
<1> DEFINE i == c.suids[s]
           X == {c.suids[y] : y \in U}
<1>1. Forest(c)
  BY DEF Sound, ContextOK
<1>2. s \in DOMAIN h /\ U \subseteq DOMAIN h
  BY DEF Below
<1>3. i \in Components(c) /\ i \in Nodes(c) /\ c.node[i].suid = s
  BY <1>1, <1>2, ShapeFacts, KidsFacts
<1>4. \A y \in U : /\ c.suids[y] \in Components(c) /\ c.node[c.suids[y]].suid = y
                   /\ c.suids[y] \in Nodes(c) /\ c.suids[y] # Root /\ y # NoSUID
  BY <1>1, <1>2, ShapeFacts, KidsFacts
<1>5. ASSUME NEW x \in X, NEW k \in DOMAIN c.kids[x] PROVE c.kids[x][k] \in X
  <2> DEFINE z == c.kids[x][k]
  <2>1. PICK y \in U : x = c.suids[y]
    OBVIOUS
  <2>2. x \in Nodes(c) /\ x # Root /\ c.node[x].suid = y
    BY <1>4, <2>1
  <2>3. z \in Range(c.kids[x])
    BY DEF Range
  <2>4. z \in Components(c)
    BY <1>1, <2>2, <2>3, KidsFacts
  <2> HIDE DEF z
  <2>5. h[c.node[z].suid].up = y
    BY <2>2, <2>3 DEF ContextShape, NameOf
  <2>6. c.node[z].suid \in DOMAIN h /\ c.suids[c.node[z].suid] = z
    BY <2>4, ShapeFacts
  <2>7. c.node[z].suid \in U
    BY <2>5, <2>6 DEF Below
  <2> QED
    BY <2>6, <2>7 DEF z
<1>6. ASSUME NEW x \in X, x # i PROVE \E y \in X : \E k \in DOMAIN c.kids[y] : c.kids[y][k] = x
  <2>1. PICK y \in U : x = c.suids[y]
    OBVIOUS
  <2>2. h[y].up \in U
    BY <1>6, <2>1 DEF Below
  <2> DEFINE n == c.suids[h[y].up]
  <2>3. n \in X /\ n \in Nodes(c) /\ NameOf(c, n) = h[y].up
    BY <1>4, <2>2 DEF NameOf
  <2> HIDE DEF n
  <2>4. x \in Components(c) /\ c.node[x].suid = y
    BY <1>4, <2>1
  <2>5. x \in Range(c.kids[n])
    BY <2>3, <2>4, ShapeFacts
  <2> QED
    BY <2>3, <2>5 DEF Range
<1>7. IsSubtree(c, i, X)
  <2>1. i \in X /\ X \subseteq Nodes(c)
    BY <1>4 DEF Below
  <2> QED
    BY <1>5, <1>6, <2>1 DEF IsSubtree
<1>8. IsSubtree(c, i, Subtree(c, i))
  BY <1>1, <1>3, SubtreeFacts
<1>9. X = Subtree(c, i)
  BY <1>1, <1>7, <1>8, SubtreeUnique
<1>10. SUIDsOf(c, X) = U
  <2>1. {c.node[x].suid : x \in X} = U
    BY <1>4
  <2> QED
    BY <1>4, <2>1 DEF SUIDsOf
<1> QED
  BY <1>3, <1>9, <1>10

\* Shapes that are one but for the identifiers are of one document.
LEMMA SameShape ==
    ASSUME NEW d, NEW h, Pictures(d, h), NEW e, NEW g, Pictures(e, g), WellFormed(h),
           NEW f \in [DOMAIN h -> DOMAIN g],
           \A x, y \in DOMAIN h : f[x] = f[y] => x = y,
           \A y \in DOMAIN g : \E x \in DOMAIN h : f[x] = y,
           \A x \in DOMAIN h : /\ g[f[x]].data = h[x].data
                               /\ h[x].up = NoSUID => g[f[x]].up = NoSUID
                               /\ h[x].up # NoSUID => g[f[x]].up = f[h[x].up]
    PROVE  d = e
<1>1. PICK es : EntriesOK(es) /\ EntriesBelow(es, h, DOMAIN h, NoSUID) /\ d = Document(es)
  BY DEF Pictures
<1>2. PICK fs : EntriesOK(fs) /\ EntriesBelow(fs, g, DOMAIN g, NoSUID) /\ e = Document(fs)
  BY DEF Pictures
<1>3. /\ \A k \in DOMAIN es : es[k].suid \in DOMAIN h /\ es[k].suid # NoSUID
      /\ \A x \in DOMAIN h : \E k \in DOMAIN es : es[k].suid = x
      /\ \A j, k \in DOMAIN es : es[j].suid = es[k].suid => j = k
      /\ \A k \in DOMAIN es :
            /\ h[es[k].suid].data = es[k].data
            /\ h[es[k].suid].up = IF es[k].parent = 0 THEN NoSUID ELSE es[es[k].parent].suid
  BY <1>1 DEF EntriesBelow, EntrySUIDs, EntriesNamed
<1>4. /\ \A k \in DOMAIN fs : fs[k].suid \in DOMAIN g /\ fs[k].suid # NoSUID
      /\ \A x \in DOMAIN g : \E k \in DOMAIN fs : fs[k].suid = x
      /\ \A j, k \in DOMAIN fs : fs[j].suid = fs[k].suid => j = k
      /\ \A k \in DOMAIN fs :
            /\ g[fs[k].suid].data = fs[k].data
            /\ g[fs[k].suid].up = IF fs[k].parent = 0 THEN NoSUID ELSE fs[fs[k].parent].suid
  BY <1>2 DEF EntriesBelow, EntrySUIDs, EntriesNamed
<1>5. /\ \A k \in DOMAIN es : es[k].parent = 0 \/ es[k].parent \in DOMAIN es
      /\ \A k \in DOMAIN fs : fs[k].parent = 0 \/ fs[k].parent \in DOMAIN fs
  <2>1. ASSUME NEW ts, EntriesOK(ts), NEW k \in DOMAIN ts PROVE ts[k].parent = 0 \/ ts[k].parent \in DOMAIN ts
    <3>1. Len(ts) \in Nat /\ DOMAIN ts = 1 .. Len(ts) /\ ts[k] \in Entry /\ ts[k].parent < k
      BY <2>1 DEF EntriesOK
    <3>2. ts[k].parent \in Nat
      BY <3>1 DEF Entry
    <3> QED
      BY <3>1, <3>2
  <2> QED
    BY <1>1, <1>2, <2>1
<1> DEFINE F == [k \in DOMAIN es |-> CHOOSE m \in DOMAIN fs : fs[m].suid = f[es[k].suid]]
<1>6. ASSUME NEW k \in DOMAIN es PROVE F[k] \in DOMAIN fs /\ fs[F[k]].suid = f[es[k].suid]
  <2>1. \E m \in DOMAIN fs : fs[m].suid = f[es[k].suid]
    BY <1>3, <1>4
  <2> QED
    BY <2>1
<1>7. F \in [DOMAIN es -> DOMAIN fs]
  BY <1>6
<1> HIDE DEF F
<1>8. ASSUME NEW j \in DOMAIN es, NEW k \in DOMAIN es, F[j] = F[k] PROVE j = k
  BY <1>3, <1>6, <1>8
<1>9. ASSUME NEW m \in DOMAIN fs PROVE \E k \in DOMAIN es : F[k] = m
  <2>1. PICK x \in DOMAIN h : f[x] = fs[m].suid
    BY <1>4
  <2>2. PICK k \in DOMAIN es : es[k].suid = x
    BY <1>3
  <2> QED
    BY <1>4, <1>6, <2>1, <2>2
<1>10. ASSUME NEW k \in DOMAIN es
       PROVE  /\ fs[F[k]].data = es[k].data
              /\ es[k].parent = 0 => fs[F[k]].parent = 0
              /\ es[k].parent # 0 => fs[F[k]].parent = F[es[k].parent]
  <2> DEFINE x == es[k].suid
             m == F[k]
  <2>1. x \in DOMAIN h /\ m \in DOMAIN fs /\ fs[m].suid = f[x] /\ f[x] \in DOMAIN g
    BY <1>3, <1>6
  <2>2. fs[m].data = es[k].data
    BY <1>3, <1>4, <2>1
  <2>3. ASSUME es[k].parent = 0 PROVE fs[m].parent = 0
    <3>1. h[x].up = NoSUID
      BY <1>3, <2>3
    <3>2. g[fs[m].suid].up = NoSUID
      BY <2>1, <3>1
    <3> QED
      BY <1>4, <1>5, <2>1, <3>2
  <2>4. ASSUME es[k].parent # 0 PROVE fs[m].parent = F[es[k].parent]
    <3> DEFINE j == es[k].parent
    <3>1. j \in DOMAIN es /\ h[x].up = es[j].suid /\ es[j].suid # NoSUID
      BY <1>3, <1>5, <2>4
    <3> HIDE DEF j
    <3>2. F[j] \in DOMAIN fs /\ fs[F[j]].suid = f[es[j].suid] /\ g[f[x]].up = f[es[j].suid]
      BY <1>6, <2>1, <3>1
    <3>3. g[fs[m].suid].up = fs[F[j]].suid /\ fs[F[j]].suid # NoSUID
      BY <1>4, <2>1, <3>2
    <3>4. fs[m].parent # 0 /\ fs[fs[m].parent].suid = fs[F[j]].suid
      BY <1>4, <2>1, <3>3
    <3>5. fs[m].parent = F[j]
      BY <1>4, <1>5, <2>1, <3>2, <3>4
    <3> QED
      BY <3>5 DEF j
  <2> QED
    BY <2>2, <2>3, <2>4
<1>11. Document(es) = Document(fs)
  BY <1>1, <1>2, <1>7, <1>8, <1>9, <1>10, SameDocument
<1> QED
  BY <1>1, <1>2, <1>11

\* There is one document with a shape.
LEMMA PicturedOnce ==
    ASSUME NEW d, NEW e, NEW h, NEW g, WellFormed(h), Pictures(d, h), Pictures(e, g),
           DOMAIN g = DOMAIN h, Agree(g, h, DOMAIN h)
    PROVE  d = e
<1> DEFINE f == [x \in DOMAIN h |-> x]
<1>1. /\ f \in [DOMAIN h -> DOMAIN g]
      /\ \A x \in DOMAIN h : f[x] = x
  OBVIOUS
<1> HIDE DEF f
<1>2. \A x \in DOMAIN h : /\ g[f[x]].data = h[x].data
                          /\ h[x].up = NoSUID => g[f[x]].up = NoSUID
                          /\ h[x].up # NoSUID => g[f[x]].up = f[h[x].up]
  BY <1>1 DEF Agree, WellFormed
<1>3. /\ \A x, y \in DOMAIN h : f[x] = f[y] => x = y
      /\ \A y \in DOMAIN g : \E x \in DOMAIN h : f[x] = y
  BY <1>1
<1> QED
  BY <1>1, <1>2, <1>3, SameShape

-----------------------------------------------------------------------------
(* What the operations do to shapes                                        *)

\* A component shows something else.
LEMMA SetShapeStep ==
    ASSUME NEW c, Sound(c), NEW h, ContextShape(c, h), NEW s \in DOMAIN h, NEW z, NEW g,
           DOMAIN g = DOMAIN h, Agree(g, h, DOMAIN h \ {s}), g[s].data = z, g[s].up = h[s].up
    PROVE  ContextShape([c EXCEPT !.node[c.suids[s]].data = z], g)
<1> DEFINE i == c.suids[s]
           d == [c EXCEPT !.node[i].data = z]
<1>1. Forest(c) /\ i \in Components(c) /\ c.node[i].suid = s
  BY ShapeFacts DEF Sound, ContextOK
<1>2. /\ c = [node |-> c.node, kids |-> c.kids, suids |-> c.suids]
      /\ c.node \in [Components(c) -> ComponentData]
      /\ Components(c) = DOMAIN c.node
  BY <1>1 DEF Forest, Components
<1> HIDE DEF i
<1>3. d.kids = c.kids /\ d.suids = c.suids /\ d.node = [c.node EXCEPT ![i].data = z]
  BY <1>2
<1> HIDE DEF d
<1>4. /\ Components(d) = Components(c) /\ Nodes(d) = Nodes(c)
      /\ \A x \in Components(c) : /\ d.node[x].suid = c.node[x].suid
                                  /\ d.node[x].data = IF x = i THEN z ELSE c.node[x].data
  <2>1. Components(d) = Components(c)
    BY <1>2, <1>3 DEF Components
  <2>2. ASSUME NEW x \in Components(c)
        PROVE  /\ d.node[x].suid = c.node[x].suid
               /\ d.node[x].data = IF x = i THEN z ELSE c.node[x].data
    <3>1. c.node[x] \in ComponentData
      BY <1>2
    <3>2. PICK a, b : c.node[x] = [suid |-> a, data |-> b]
      BY <3>1 DEF ComponentData
    <3>3. d.node[x] = IF x = i THEN [c.node[x] EXCEPT !.data = z] ELSE c.node[x]
      BY <1>1, <1>2, <1>3
    <3>4. d.node[x] = IF x = i THEN [suid |-> a, data |-> z] ELSE [suid |-> a, data |-> b]
      BY <3>2, <3>3
    <3> QED
      BY <3>2, <3>4
  <2> QED
    BY <2>1, <2>2 DEF Nodes
<1>5. \A x \in Components(c) : /\ c.node[x].suid \in DOMAIN h
                               /\ h[c.node[x].suid].data = c.node[x].data
                               /\ c.node[x].suid = s => x = i
  BY ShapeFacts DEF ContextShape, i
<1>6. \A x \in Components(c) : g[c.node[x].suid].data = IF x = i THEN z ELSE c.node[x].data
  BY <1>1, <1>5 DEF Agree
<1>7. \A x \in Components(c) : g[c.node[x].suid].up = h[c.node[x].suid].up
  BY <1>5 DEF Agree
<1>8. ASSUME NEW n \in Nodes(d), NEW x \in Range(d.kids[n]) PROVE g[d.node[x].suid].up = NameOf(d, n)
  <2>1. n \in Nodes(c) /\ x \in Range(c.kids[n]) /\ x \in Components(c)
    BY <1>1, <1>3, <1>4, KidsFacts
  <2>2. NameOf(d, n) = NameOf(c, n)
    BY <1>4, <2>1 DEF NameOf, Nodes
  <2> QED
    BY <1>4, <1>7, <2>1, <2>2 DEF ContextShape
<1>9. DOMAIN g = DOMAIN d.suids
  BY <1>3 DEF ContextShape
<1>10. ContextShape(d, g)
  BY <1>4, <1>5, <1>6, <1>8, <1>9 DEF ContextShape
<1> QED
  BY <1>10 DEF d, i

\* New components are put below p.
LEMMA AttachShape ==
    ASSUME NEW c, Sound(c), NEW h, ContextShape(c, h), NEW es, EntriesOK(es), NEW p \in Nodes(c),
           NEW at \in Seq(Nat), Len(at) = Len(es), NoRepeat(at), Range(at) \cap Components(c) = {},
           NEW g, DOMAIN g = DOMAIN h \cup EntrySUIDs(es), Agree(g, h, DOMAIN h),
           EntriesBelow(es, g, EntrySUIDs(es), NameOf(c, p))
    PROVE  ContextShape(Attach(c, es, p, at), g)
<1> DEFINE d == Attach(c, es, p, at)
<1>1. Forest(c)
  BY DEF Sound, ContextOK
<1>2. /\ Forest(d)
      /\ Components(d) = Range(at) \cup Components(c)
      /\ \A i \in Components(c) : d.node[i] = c.node[i]
      /\ \A k \in DOMAIN es : d.node[at[k]].suid = es[k].suid
      /\ d.kids[p] = c.kids[p] \o KidsOf(es, at, 0)
      /\ DOMAIN d.suids = EntrySUIDs(es) \cup DOMAIN c.suids
      /\ \A s \in EntrySUIDs(es) : \E k \in DOMAIN es : es[k].suid = s /\ d.suids[s] = at[k]
      /\ \A s \in DOMAIN c.suids \ EntrySUIDs(es) : d.suids[s] = c.suids[s]
      /\ Shown(c, es, p, at, d)
  BY <1>1, AttachFacts
<1> HIDE DEF d
<1>3. /\ DOMAIN es = 1 .. Len(es) /\ DOMAIN at = DOMAIN es
      /\ \A k \in DOMAIN es : at[k] \in Range(at) /\ at[k] \in Nat
      /\ \A i \in Range(at) : \E k \in DOMAIN es : i = at[k]
  <2>1. Len(es) \in Nat /\ DOMAIN es = 1 .. Len(es) /\ DOMAIN at = 1 .. Len(at)
    BY DEF EntriesOK
  <2> QED
    BY <2>1 DEF Range
<1>4. \A k \in DOMAIN es : es[k].parent = 0 \/ es[k].parent \in DOMAIN es
  <2>1. ASSUME NEW k \in DOMAIN es PROVE es[k].parent = 0 \/ es[k].parent \in DOMAIN es
    <3>1. Len(es) \in Nat /\ DOMAIN es = 1 .. Len(es) /\ es[k] \in Entry /\ es[k].parent < k
      BY DEF EntriesOK
    <3>2. es[k].parent \in Nat
      BY <3>1 DEF Entry
    <3> QED
      BY <3>1, <3>2
  <2> QED
    BY <2>1
<1>5. \A k \in DOMAIN es :
         /\ es[k].suid \in EntrySUIDs(es) /\ es[k].suid \in DOMAIN g
         /\ g[es[k].suid].data = es[k].data
         /\ g[es[k].suid].up = IF es[k].parent = 0 THEN NameOf(c, p) ELSE es[es[k].parent].suid
  BY DEF EntriesBelow, EntriesNamed, EntrySUIDs
<1>6. \A k \in DOMAIN es : d.node[at[k]].data = es[k].data
  BY <1>2 DEF Shown
<1>7. ASSUME NEW i \in Components(d) PROVE d.node[i].suid \in DOMAIN g /\ g[d.node[i].suid].data = d.node[i].data
  <2>1. CASE i \in Components(c)
    <3>1. d.node[i] = c.node[i] /\ c.node[i].suid \in DOMAIN h /\ h[c.node[i].suid].data = c.node[i].data
      BY <1>2, <2>1 DEF ContextShape
    <3> QED
      BY <3>1 DEF Agree
  <2>2. CASE i \in Range(at)
    <3>1. PICK k \in DOMAIN es : i = at[k]
      BY <1>3, <2>2
    <3> QED
      BY <1>2, <1>5, <1>6, <3>1
  <2> QED
    BY <1>2, <2>1, <2>2
<1>8. \A n \in Nodes(c) : NameOf(d, n) = NameOf(c, n)
  BY <1>2 DEF NameOf, Nodes
<1>9. ASSUME NEW n \in Nodes(d), NEW x \in Range(d.kids[n]) PROVE g[d.node[x].suid].up = NameOf(d, n)
  <2>1. CASE n \in Nodes(c) /\ x \in Range(c.kids[n])
    <3>1. x \in Components(c)
      BY <1>1, <2>1, KidsFacts
    <3>2. d.node[x] = c.node[x] /\ c.node[x].suid \in DOMAIN h /\ h[c.node[x].suid].up = NameOf(c, n)
      BY <1>2, <2>1, <3>1 DEF ContextShape
    <3> QED
      BY <1>8, <2>1, <3>2 DEF Agree
  <2>2. ASSUME NEW j \in DOMAIN es, x = at[j], n = IF es[j].parent = 0 THEN p ELSE at[es[j].parent]
        PROVE  g[d.node[x].suid].up = NameOf(d, n)
    <3>1. d.node[x].suid = es[j].suid
      BY <1>2, <2>2
    <3>2. CASE es[j].parent = 0
      BY <1>5, <1>8, <2>2, <3>1, <3>2
    <3>3. CASE es[j].parent # 0
      <4> DEFINE m == es[j].parent
      <4>1. m \in DOMAIN es
        BY <1>4, <3>3
      <4> HIDE DEF m
      <4>2. n = at[m] /\ n # Root /\ d.node[at[m]].suid = es[m].suid
        <5>1. n = at[m]
          BY <2>2, <3>3 DEF m
        <5> QED
          BY <1>2, <1>3, <4>1, <5>1 DEF Root
      <4>3. NameOf(d, n) = es[m].suid
        BY <4>2 DEF NameOf
      <4> QED
        BY <1>5, <3>1, <3>3, <4>3 DEF m
    <3> QED
      BY <3>2, <3>3
  <2>3. \/ \E j \in DOMAIN es : x = at[j] /\ n = IF es[j].parent = 0 THEN p ELSE at[es[j].parent]
        \/ n \in Nodes(c) /\ x \in Range(c.kids[n])
    BY <1>2 DEF Shown
  <2> QED
    BY <2>1, <2>2, <2>3
<1>10. DOMAIN g = DOMAIN d.suids
  BY <1>2 DEF ContextShape
<1>11. ContextShape(d, g)
  BY <1>7, <1>9, <1>10 DEF ContextShape
<1> QED
  BY <1>11 DEF d

\* A component is taken out with everything below it.
LEMMA PruneShape ==
    ASSUME NEW c, Sound(c), NEW h, ContextShape(c, h), NEW i \in Components(c), NEW g,
           DOMAIN g = DOMAIN h \ SUIDsOf(c, Subtree(c, i)), Agree(g, h, DOMAIN g)
    PROVE  ContextShape(Prune(c, i), g)
<1> DEFINE d == Prune(c, i)
           U == SUIDsOf(c, Subtree(c, i))
<1>1. Forest(c)
  BY DEF Sound, ContextOK
<1>2. /\ Components(d) = Components(c) \ Subtree(c, i) /\ Subtree(c, i) \subseteq Components(c)
      /\ \A x \in Components(d) : d.node[x] = c.node[x]
      /\ \A n \in Nodes(d) : n \in Nodes(c) /\ Range(d.kids[n]) = Range(c.kids[n]) \ {i}
      /\ DOMAIN d.suids = DOMAIN c.suids \ U /\ Forest(d)
  BY <1>1, PruneFacts
<1> HIDE DEF d
<1>3. \A x \in Components(c) : c.node[x].suid \in DOMAIN h /\ c.node[x].suid # NoSUID /\ c.suids[c.node[x].suid] = x
  BY ShapeFacts
<1>4. \A x \in Components(d) : x \in Components(c) /\ c.node[x].suid \notin U
  BY <1>2, <1>3 DEF SUIDsOf
<1> HIDE DEF U
<1>5. DOMAIN g = DOMAIN h \ U
  BY DEF U
<1>6. ASSUME NEW x \in Components(d)
      PROVE  d.node[x].suid \in DOMAIN g /\ g[d.node[x].suid].data = d.node[x].data
  <2>1. x \in Components(c) /\ d.node[x] = c.node[x] /\ c.node[x].suid \in DOMAIN g
    BY <1>2, <1>3, <1>4, <1>5
  <2>2. h[c.node[x].suid].data = c.node[x].data
    BY <2>1 DEF ContextShape
  <2> QED
    BY <2>1, <2>2 DEF Agree
<1>7. ASSUME NEW n \in Nodes(d), NEW x \in Range(d.kids[n]) PROVE g[d.node[x].suid].up = NameOf(d, n)
  <2>1. n \in Nodes(c) /\ x \in Range(c.kids[n]) /\ x \in Components(d)
    BY <1>2, KidsFacts
  <2>2. h[c.node[x].suid].up = NameOf(c, n)
    BY <2>1 DEF ContextShape
  <2>3. NameOf(d, n) = NameOf(c, n) /\ d.node[x] = c.node[x]
    BY <1>2, <2>1 DEF NameOf, Nodes
  <2> QED
    BY <1>6, <2>1, <2>2, <2>3 DEF Agree
<1>8. DOMAIN g = DOMAIN d.suids
  BY <1>2, <1>5 DEF ContextShape
<1>9. ContextShape(d, g)
  BY <1>6, <1>7, <1>8 DEF ContextShape
<1> QED
  BY <1>9 DEF d

\* The order of children is not in the shape.
LEMMA OrderShape ==
    ASSUME NEW c, NEW h, ContextShape(c, h), NEW d, d.node = c.node, d.suids = c.suids,
           \A n \in Nodes(c) : Range(d.kids[n]) = Range(c.kids[n])
    PROVE  ContextShape(d, h)
<1>1. Components(d) = Components(c) /\ Nodes(d) = Nodes(c)
  BY DEF Components, Nodes
<1> QED
  BY <1>1 DEF ContextShape, NameOf

\* Named entries have a shape.
LEMMA EntriesHaveShape ==
    ASSUME NEW es, EntriesOK(es), EntriesNamed(es)
    PROVE  \E h : DOMAIN h = EntrySUIDs(es) /\ EntriesBelow(es, h, DOMAIN h, NoSUID)
<1> DEFINE up(k) == IF es[k].parent = 0 THEN NoSUID ELSE es[es[k].parent].suid
           at(s) == CHOOSE k \in DOMAIN es : es[k].suid = s
           one(k) == [data |-> es[k].data, up |-> up(k)]
           h == [s \in EntrySUIDs(es) |-> one(at(s))]
<1>1. ASSUME NEW k \in DOMAIN es PROVE es[k].suid \in EntrySUIDs(es) /\ at(es[k].suid) = k
  <2>1. at(es[k].suid) \in DOMAIN es /\ es[at(es[k].suid)].suid = es[k].suid
    OBVIOUS
  <2> QED
    BY <2>1 DEF EntriesNamed, EntrySUIDs
<1>0. \A k : one(k).data = es[k].data /\ one(k).up = up(k)
  OBVIOUS
<1> HIDE DEF at, one
<1>2. \A k \in DOMAIN es : h[es[k].suid] = one(k)
  BY <1>1
<1>3. DOMAIN h = EntrySUIDs(es)
  OBVIOUS
<1> HIDE DEF h, up
<1>4. \A k \in DOMAIN es : h[es[k].suid].data = es[k].data /\ h[es[k].suid].up = up(k)
  BY <1>0, <1>2
<1>5. EntriesBelow(es, h, DOMAIN h, NoSUID)
  BY <1>3, <1>4 DEF EntriesBelow, up
<1> QED
  BY <1>3, <1>5

\* A context that is made from named entries alone has their document.
LEMMA LoadedShape ==
    ASSUME NEW es, EntriesOK(es), EntriesNamed(es),
           NEW at \in Seq(Nat), Len(at) = Len(es), NoRepeat(at)
    PROVE  \E h : /\ ContextShape(Attach(EmptyContext, es, Root, at), h)
                  /\ Pictures(Document(es), h)
<1> DEFINE c == EmptyContext
           h0 == [s \in {} |-> [data |-> Fresh, up |-> NoSUID]]
<1>1. Sound(c) /\ Components(c) = {} /\ Nodes(c) = {Root}
  BY EmptyFacts DEF Sound, ContextOK, Nodes
<1>2. ContextShape(c, h0)
  <2>1. DOMAIN c.suids = {} /\ Range(c.kids[Root]) = {}
    BY DEF EmptyContext, Range
  <2> QED
    BY <1>1, <2>1 DEF ContextShape
<1>3. PICK g : DOMAIN g = EntrySUIDs(es) /\ EntriesBelow(es, g, DOMAIN g, NoSUID)
  BY EntriesHaveShape
<1>4. DOMAIN g = DOMAIN h0 \cup EntrySUIDs(es) /\ Agree(g, h0, DOMAIN h0)
  BY <1>3 DEF Agree
<1>5. EntriesBelow(es, g, EntrySUIDs(es), NameOf(c, Root))
  BY <1>3 DEF NameOf
<1> HIDE DEF c, h0
<1>6. ContextShape(Attach(c, es, Root, at), g)
  BY <1>1, <1>2, <1>4, <1>5, AttachShape
<1> QED
  BY <1>3, <1>6 DEF Pictures, c

\* New components with the next indices.
LEMMA GraftShape ==
    ASSUME SceneOK, NEW c, Sound(c), Components(c) \subseteq Used, NEW h, ContextShape(c, h),
           NEW es, EntriesOK(es), TakeIndices(Len(es)), NEW p \in Nodes(c),
           NEW g, DOMAIN g = DOMAIN h \cup EntrySUIDs(es), Agree(g, h, DOMAIN h),
           EntriesBelow(es, g, EntrySUIDs(es), NameOf(c, p))
    PROVE  ContextShape(Graft(c, es, p), g)
<1> DEFINE at == NextIndices(Len(es))
<1>1. Len(es) \in Nat /\ DOMAIN es = 1 .. Len(es)
  BY DEF EntriesOK
<1>2. IndicesOK(indices, Used)
  BY DEF SceneOK
<1>3. at \in Seq(Nat) /\ Len(at) = Len(es) /\ NoRepeat(at) /\ Range(at) \cap Used = {}
  <2> HIDE DEF Used
  <2> QED
    BY <1>1, <1>2, TakeIndicesFacts
<1>4. Graft(c, es, p) = Attach(c, es, p, at)
  BY <1>1 DEF Graft, NextIndices
<1> HIDE DEF at
<1>5. Range(at) \cap Components(c) = {}
  BY <1>3
<1>6. ContextShape(Attach(c, es, p, at), g)
  BY <1>3, <1>5, AttachShape
<1> QED
  BY <1>4, <1>6

\* A scene that is loaded from named entries has their document.
LEMMA LoadedGraft ==
    ASSUME SceneOK, NEW es, EntriesOK(es), EntriesNamed(es), TakeIndices(Len(es))
    PROVE  \E h : ContextShape(Graft(EmptyContext, es, Root), h) /\ Pictures(Document(es), h)
<1> DEFINE at == NextIndices(Len(es))
<1>1. Len(es) \in Nat /\ DOMAIN es = 1 .. Len(es)
  BY DEF EntriesOK
<1>2. IndicesOK(indices, Used)
  BY DEF SceneOK
<1>3. at \in Seq(Nat) /\ Len(at) = Len(es) /\ NoRepeat(at)
  <2> HIDE DEF Used
  <2> QED
    BY <1>1, <1>2, TakeIndicesFacts
<1>4. Graft(EmptyContext, es, Root) = Attach(EmptyContext, es, Root, at)
  BY <1>1 DEF Graft, NextIndices
<1> HIDE DEF at
<1> QED
  BY <1>3, <1>4, LoadedShape
-----------------------------------------------------------------------------
(* What the commands do to shapes                                          *)

SetShape(cmd, h, g) ==
    /\ cmd.suid \in DOMAIN h /\ h[cmd.suid].data = cmd.old
    /\ DOMAIN g = DOMAIN h /\ Agree(g, h, DOMAIN h \ {cmd.suid})
    /\ g[cmd.suid].data = cmd.new /\ g[cmd.suid].up = h[cmd.suid].up

AddShape(cmd, s, h, g) ==
    /\ s \notin DOMAIN h /\ s # NoSUID
    /\ cmd.parent \in DOMAIN h \cup {NoSUID}
    /\ DOMAIN g = DOMAIN h \cup {s} /\ Agree(g, h, DOMAIN h)
    /\ g[s].data = Fresh /\ g[s].up = cmd.parent

\* f names the copy of each component of U.
CloneShape(cmd, U, f, h, g) ==
    /\ Below(h, cmd.src, U)
    /\ \A x, y \in U : f[x] = f[y] => x = y
    /\ \A x \in U : f[x] \notin DOMAIN h /\ f[x] # NoSUID
    /\ DOMAIN g = DOMAIN h \cup {f[x] : x \in U} /\ Agree(g, h, DOMAIN h)
    /\ \A x \in U : /\ g[f[x]].data = IF x = cmd.src THEN Moved[h[x].data] ELSE h[x].data
                    /\ g[f[x]].up = IF x = cmd.src THEN h[x].up ELSE f[h[x].up]

DeleteShape(cmd, U, h, g) ==
    /\ Below(h, cmd.suid, U)
    /\ EntriesBelow(cmd.subtree, h, U, cmd.parent)
    /\ cmd.parent \in DOMAIN g \cup {NoSUID}
    /\ DOMAIN g = DOMAIN h \ U /\ Agree(g, h, DOMAIN g)

\* The component is created, under the identifier s.
LEMMA AddEffect ==
    ASSUME SceneOK, Sound(active), NEW h, ContextShape(active, h), ~Reissued,
           NEW cmd, cmd.parent \in DOMAIN h \cup {NoSUID},
           CreateComponentSerial(ParentIndex(cmd.parent))
    PROVE  \E g : ContextShape(active', g) /\ AddShape(cmd, NthSUID(1), h, g)
<1> DEFINE s == NthSUID(1)
           e == [suid |-> s, data |-> Fresh, parent |-> 0]
           es == <<e>>
           p == ParentIndex(cmd.parent)
           one == [data |-> Fresh, up |-> cmd.parent]
           g == [x \in DOMAIN h \cup {s} |-> IF x = s THEN one ELSE h[x]]
<1>1. TakeIndices(1) /\ GetSUIDs(1) /\ active' = Graft(active, es, p)
  BY DEF CreateComponentSerial
<1>2. s \in SUID \ registered /\ registered' = registered \cup {s}
  <2>1. counter \in SUID
    BY DEF SceneOK
  <2>2. /\ registered' = registered \cup {NthSUID(k) : k \in 1 .. 1}
        /\ \A k \in 1 .. 1 : NthSUID(k) \in SUID \ registered
    BY <1>1, <2>1, NthSUIDs
  <2>3. {NthSUID(k) : k \in 1 .. 1} = {s}
    OBVIOUS
  <2> QED
    BY <2>2, <2>3
<1> HIDE DEF s
<1>3. s \notin DOMAIN h /\ s # NoSUID
  <2>1. s \notin ContextSUIDs(active)
    BY <1>2 DEF Reissued, SUIDsInUse, ContextSUIDs
  <2> QED
    BY <1>2, <2>1, NoSUIDApart, ShapeFacts
<1>4. p \in Nodes(active) /\ NameOf(active, p) = cmd.parent
  <2>1. CASE cmd.parent = NoSUID
    BY <2>1 DEF ParentIndex, NameOf, Nodes
  <2>2. CASE cmd.parent # NoSUID
    <3>1. cmd.parent \in DOMAIN h /\ p = active.suids[cmd.parent]
      BY <2>2 DEF ParentIndex, BySUID
    <3>2. p \in Components(active) /\ active.node[p].suid = cmd.parent
      BY <3>1, ShapeFacts
    <3>3. p # Root /\ p \in Nodes(active)
      BY <3>2, KidsFacts DEF Sound, ContextOK
    <3> QED
      BY <3>2, <3>3 DEF NameOf
  <2> QED
    BY <2>1, <2>2
<1> HIDE DEF p
<1>5. e \in Entry /\ e.suid = s /\ e.data = Fresh /\ e.parent = 0
  BY <1>2, SceneConstants DEF Entry
<1> HIDE DEF e
<1>6. es \in Seq(Entry) /\ Len(es) = 1 /\ DOMAIN es = {1} /\ es[1] = e
  BY <1>5
<1> HIDE DEF es
<1>7. EntriesOK(es) /\ EntrySUIDs(es) = {s}
  BY <1>3, <1>5, <1>6 DEF EntriesOK, EntrySUIDs
<1>8. /\ DOMAIN g = DOMAIN h \cup {s} /\ Agree(g, h, DOMAIN h)
      /\ g[s].data = Fresh /\ g[s].up = cmd.parent
  <2>1. DOMAIN g = DOMAIN h \cup {s} /\ g[s] = one /\ \A x \in DOMAIN h : g[x] = h[x]
    BY <1>3
  <2>2. one.data = Fresh /\ one.up = cmd.parent
    OBVIOUS
  <2> HIDE DEF g, one
  <2> QED
    BY <2>1, <2>2 DEF Agree
<1> HIDE DEF g
<1>9. EntriesBelow(es, g, EntrySUIDs(es), NameOf(active, p))
  BY <1>3, <1>4, <1>5, <1>6, <1>7, <1>8 DEF EntriesBelow, EntriesNamed
<1>10. ContextShape(Graft(active, es, p), g)
  <2>1. Components(active) \subseteq Used /\ TakeIndices(Len(es))
    BY <1>1, <1>6 DEF Used
  <2> QED
    BY <1>4, <1>7, <1>8, <1>9, <2>1, GraftShape
<1>11. AddShape(cmd, s, h, g)
  BY <1>3, <1>8 DEF AddShape
<1> QED
  BY <1>1, <1>10, <1>11 DEF s

\* The component with the identifier s is copied with everything below it.
LEMMA CloneEffect ==
    ASSUME SceneOK, Sound(active), NEW h, ContextShape(active, h), ~Reissued,
           NEW i \in Components(active), NEW cmd, cmd.src = active.node[i].suid,
           CloneComponentSubtree(i, Moved[active.node[i].data])
    PROVE  \E g, U, f : /\ ContextShape(active', g) /\ CloneShape(cmd, U, f, h, g)
                        /\ f[cmd.src] = NthSUID(1)
<1> DEFINE src == active.node[i].suid
           z == Moved[active.node[i].data]
           old == OldEntries(i)
           es == CopyEntries(i, z)
           p == Parent(active, i)
           c == Graft(active, es, p)
           U == SUIDsOf(active, Subtree(active, i))
<1>1. /\ src \in DOMAIN h /\ src # NoSUID /\ h[src].data = active.node[i].data /\ z \in Data
      /\ Forest(active) /\ ContextOK(active)
  <2>1. active.node[i].data \in Data /\ Forest(active) /\ ContextOK(active)
    BY KidsFacts DEF Sound, ContextOK
  <2> QED
    BY <2>1, ShapeFacts, EditorConstants DEF ContextShape
<1>2. /\ EntriesOK(old) /\ EntriesOK(es) /\ DOMAIN es = DOMAIN old /\ 1 \in DOMAIN old
      /\ PreOrder(active, i)[1] = i /\ DOMAIN old = DOMAIN PreOrder(active, i)
      /\ TakeIndices(Len(es)) /\ p \in Nodes(active) /\ i \in Range(active.kids[p])
  BY <1>1, CopyFacts
<1>3. \A k \in DOMAIN es :
         /\ es[k].suid \in SUID \ registered /\ es[k].suid \in registered' /\ es[k].suid = NthSUID(k)
         /\ es[k].data = IF k = 1 THEN z ELSE old[k].data
         /\ es[k].parent = old[k].parent
  BY <1>1, CopyFacts
<1>4. EntriesApart(es)
  BY <1>1, CopyFacts
<1>5. /\ ContextOK(c) /\ active'.node = c.node /\ active'.suids = c.suids
      /\ \A n \in Nodes(c) : Range(active'.kids[n]) = Range(c.kids[n])
  BY <1>1, CopyPlaced
<1>6. /\ Below(h, src, U) /\ EntriesBelow(old, h, U, h[src].up)
      /\ \A k \in DOMAIN old : old[k].parent = 0 => h[old[k].suid].up \notin U
  BY SubtreeShape DEF OldEntries
<1>7. old[1].suid = src /\ old[1].parent = 0
  <2>1. old[1].suid = src
    <3>1. PreOrder(active, i) \in Seq(Components(active)) /\ NoRepeat(PreOrder(active, i))
          /\ Onward(active.kids, PreOrder(active, i))
      BY <1>1, CopyFacts
    <3>2. \A k \in DOMAIN PreOrder(active, i) :
             Entries(active, PreOrder(active, i))[k].suid = active.node[PreOrder(active, i)[k]].suid
      BY <1>1, <3>1, EntriesFacts
    <3> QED
      BY <1>2, <3>2 DEF OldEntries
  <2>2. old[1] \in Entry /\ old[1].parent < 1
    BY <1>2 DEF EntriesOK
  <2>3. old[1].parent \in Nat
    BY <2>2 DEF Entry
  <2> QED
    BY <2>1, <2>2, <2>3
<1> HIDE DEF old, es, p, c, U, z, src
<1>8. /\ \A k \in DOMAIN old : old[k].suid \in U /\ old[k].suid # NoSUID
      /\ \A x \in U : \E k \in DOMAIN old : old[k].suid = x
      /\ \A j, k \in DOMAIN old : old[j].suid = old[k].suid => j = k
      /\ \A k \in DOMAIN old :
            /\ h[old[k].suid].data = old[k].data
            /\ h[old[k].suid].up = IF old[k].parent = 0 THEN h[src].up ELSE old[old[k].parent].suid
  BY <1>6 DEF EntriesBelow, EntrySUIDs, EntriesNamed
<1>9. \A k \in DOMAIN old : old[k].parent = 0 \/ old[k].parent \in DOMAIN old
  <2>1. ASSUME NEW k \in DOMAIN old PROVE old[k].parent = 0 \/ old[k].parent \in DOMAIN old
    <3>1. Len(old) \in Nat /\ DOMAIN old = 1 .. Len(old) /\ old[k] \in Entry /\ old[k].parent < k
      BY <1>2 DEF EntriesOK
    <3>2. old[k].parent \in Nat
      BY <3>1 DEF Entry
    <3> QED
      BY <3>1, <3>2
  <2> QED
    BY <2>1
<1>10. \A k \in DOMAIN old : k # 1 => old[k].suid # src /\ old[k].parent \in DOMAIN old
  <2>1. ASSUME NEW k \in DOMAIN old, k # 1 PROVE old[k].suid # src /\ old[k].parent \in DOMAIN old
    <3>1. old[k].suid # src /\ old[k].suid \in U
      BY <1>2, <1>7, <1>8, <2>1
    <3>2. h[old[k].suid].up \in U
      BY <1>6, <3>1 DEF Below
    <3> QED
      BY <1>6, <1>9, <3>1, <3>2
  <2> QED
    BY <2>1
<1> DEFINE at(x) == CHOOSE k \in DOMAIN old : old[k].suid = x
           f == [x \in U |-> es[at(x)].suid]
<1>11. \A k \in DOMAIN old : at(old[k].suid) = k
  <2>1. ASSUME NEW k \in DOMAIN old PROVE at(old[k].suid) = k
    <3>1. at(old[k].suid) \in DOMAIN old /\ old[at(old[k].suid)].suid = old[k].suid
      OBVIOUS
    <3> QED
      BY <1>8, <3>1
  <2> QED
    BY <2>1
<1> HIDE DEF at
<1>12. \A k \in DOMAIN old : f[old[k].suid] = es[k].suid
  BY <1>8, <1>11
<1> HIDE DEF f
<1>13. \A k \in DOMAIN es : es[k].suid \notin DOMAIN h /\ es[k].suid # NoSUID
  <2>1. \A k \in DOMAIN es : es[k].suid \notin ContextSUIDs(active)
    BY <1>3 DEF Reissued, SUIDsInUse, ContextSUIDs
  <2> QED
    BY <1>3, <2>1, NoSUIDApart, ShapeFacts
<1>14. \A j, k \in DOMAIN es : es[j].suid = es[k].suid => j = k
  BY <1>4, <1>13 DEF EntriesApart
<1>15. /\ \A x \in U : f[x] \notin DOMAIN h /\ f[x] # NoSUID
       /\ \A x, y \in U : f[x] = f[y] => x = y
  BY <1>2, <1>8, <1>12, <1>13, <1>14
<1>16. EntrySUIDs(es) = {f[x] : x \in U}
  <2>1. EntrySUIDs(es) = {es[k].suid : k \in DOMAIN es}
    BY <1>13 DEF EntrySUIDs
  <2>2. ASSUME NEW k \in DOMAIN es PROVE es[k].suid \in {f[x] : x \in U}
    <3>1. old[k].suid \in U /\ f[old[k].suid] = es[k].suid
      BY <1>2, <1>8, <1>12
    <3> QED
      BY <3>1
  <2>3. ASSUME NEW x \in U PROVE f[x] \in {es[k].suid : k \in DOMAIN es}
    <3>1. PICK k \in DOMAIN old : old[k].suid = x
      BY <1>8
    <3> QED
      BY <1>2, <1>12, <3>1
  <2> QED
    BY <2>1, <2>2, <2>3
<1> DEFINE what(x) == IF x = src THEN z ELSE h[x].data
           above(x) == IF x = src THEN h[x].up ELSE f[h[x].up]
           one(x) == [data |-> what(x), up |-> above(x)]
           of(y) == CHOOSE x \in U : f[x] = y
           g == [y \in DOMAIN h \cup {f[x] : x \in U} |-> IF y \in DOMAIN h THEN h[y] ELSE one(of(y))]
<1>17. \A x : one(x).data = what(x) /\ one(x).up = above(x)
  OBVIOUS
<1>18. ASSUME NEW x \in U PROVE of(f[x]) = x
  <2>1. of(f[x]) \in U /\ f[of(f[x])] = f[x]
    OBVIOUS
  <2> QED
    BY <1>15, <2>1
<1> HIDE DEF one, of
<1>19. /\ DOMAIN g = DOMAIN h \cup {f[x] : x \in U}
       /\ \A y \in DOMAIN h : g[y] = h[y]
       /\ \A x \in U : g[f[x]] = one(x)
  BY <1>15, <1>18
<1> HIDE DEF g
<1>20. \A x \in U : g[f[x]].data = what(x) /\ g[f[x]].up = above(x)
  BY <1>17, <1>19
<1>21. Agree(g, h, DOMAIN h)
  BY <1>19 DEF Agree
<1>22. CloneShape(cmd, U, f, h, g)
  <2>1. cmd.src = src
    BY DEF src
  <2>2. z = Moved[h[src].data]
    BY <1>1 DEF z
  <2>3. \A x \in U : /\ g[f[x]].data = IF x = cmd.src THEN Moved[h[x].data] ELSE h[x].data
                     /\ g[f[x]].up = IF x = cmd.src THEN h[x].up ELSE f[h[x].up]
    BY <1>20, <2>1, <2>2
  <2> QED
    BY <1>6, <1>15, <1>19, <1>21, <2>1, <2>3 DEF CloneShape
<1>23. h[src].up = NameOf(active, p)
  BY <1>2 DEF ContextShape, src
<1>24. ASSUME NEW k \in DOMAIN es
       PROVE  /\ g[es[k].suid].data = es[k].data
              /\ g[es[k].suid].up = IF es[k].parent = 0 THEN NameOf(active, p) ELSE es[es[k].parent].suid
  <2> DEFINE x == old[k].suid
  <2>1. x \in U /\ es[k].suid = f[x] /\ k \in DOMAIN old
    BY <1>2, <1>8, <1>12
  <2>2. CASE k = 1
    <3>1. x = src /\ es[k].parent = 0 /\ es[k].data = z
      BY <1>3, <1>7, <2>2
    <3> QED
      BY <1>20, <1>23, <2>1, <3>1
  <2>3. CASE k # 1
    <3> DEFINE j == old[k].parent
    <3>1. x # src /\ j \in DOMAIN old /\ es[k].parent = j /\ es[k].data = h[x].data
      BY <1>3, <1>8, <1>10, <2>1, <2>3
    <3>2. j # 0
      BY <1>2, <3>1 DEF EntriesOK
    <3>3. h[x].up = old[j].suid
      BY <1>8, <2>1, <3>2
    <3>4. f[h[x].up] = es[j].suid
      BY <1>12, <3>1, <3>3
    <3> HIDE DEF j, x
    <3> QED
      BY <1>20, <2>1, <3>1, <3>2, <3>4
  <2> QED
    BY <2>2, <2>3
<1>25. EntriesBelow(es, g, EntrySUIDs(es), NameOf(active, p))
  BY <1>13, <1>14, <1>24 DEF EntriesBelow, EntriesNamed
<1>26. ContextShape(c, g)
  <2>1. Components(active) \subseteq Used
    BY DEF Used
  <2> QED
    BY <1>2, <1>16, <1>19, <1>21, <1>25, <2>1, GraftShape DEF c
<1>27. ContextShape(active', g)
  BY <1>5, <1>26, OrderShape
<1>28. f[cmd.src] = NthSUID(1)
  <2>1. f[src] = es[1].suid
    BY <1>2, <1>7, <1>12
  <2> QED
    BY <1>2, <1>3, <2>1 DEF src
<1> QED
  BY <1>22, <1>27, <1>28

-----------------------------------------------------------------------------
(* Paths                                                                   *)

\* The place of n among its siblings.
PlaceOf(n) ==
    CHOOSE k \in DOMAIN active.kids[Parent(active, n)] : active.kids[Parent(active, n)][k] = n

\* The path to n when P has the one to its parent.
PathBelow(P, n) == IF n = Root THEN <<>> ELSE Append(P[Parent(active, n)], PlaceOf(n))

\* The path to a component follows from its parent's.
LEMMA PathEquation ==
    ASSUME Forest(active)
    PROVE  \E P : /\ P = [n \in Nodes(active) |-> PathBelow(P, n)]
                  /\ \A i : PathTo(i) = P[i]
<1> DEFINE Place(n) == CHOOSE k \in DOMAIN active.kids[Parent(active, n)] :
                           active.kids[Parent(active, n)][k] = n
           At(P, n) == IF n = Root THEN <<>> ELSE Append(P[Parent(active, n)], Place(n))
           Paths(S, P) == P = [n \in S |-> At(P, n)]
<1>1. PICK depth \in [Nodes(active) -> Nat] :
         \A p \in Nodes(active) : \A k \in DOMAIN active.kids[p] : depth[p] < depth[active.kids[p][k]]
  BY DEF Forest
<1>2. DOMAIN active.kids = Nodes(active)
  BY DEF Forest
<1>3. ASSUME NEW n \in Nodes(active), n # Root
      PROVE  Parent(active, n) \in Nodes(active) /\ depth[Parent(active, n)] < depth[n]
  <2>1. n \in Components(active)
    BY <1>3 DEF Nodes
  <2>2. Parent(active, n) \in Nodes(active) /\ n \in Range(active.kids[Parent(active, n)])
    BY <2>1, ParentFacts
  <2> QED
    BY <1>1, <2>2 DEF Range
<1>4. PICK last \in Nodes(active) : \A n \in Nodes(active) : depth[n] <= depth[last]
  <2>1. IsFiniteSet(Nodes(active)) /\ Nodes(active) # {}
    BY FS_AddElement DEF Nodes, Forest
  <2> QED
    BY <2>1, HighestExists
<1> DEFINE Layer(m) == {n \in Nodes(active) : depth[n] < m}
           Missing == {m \in Nat : ~\E P : Paths(Layer(m), P)}
<1>5. Missing = {}
  <2> SUFFICES ASSUME Missing # {} PROVE FALSE
    OBVIOUS
  <2>1. PICK m \in Missing : \A j \in Missing : m <= j
    <3>1. Missing \subseteq Nat
      OBVIOUS
    <3> HIDE DEF Missing
    <3> QED
      BY <3>1, LeastNumber
  <2>2. m \in Nat /\ ~\E P : Paths(Layer(m), P)
    OBVIOUS
  <2>3. CASE m = 0
    <3>1. Layer(0) = {}
      OBVIOUS
    <3> DEFINE Q == [n \in {} |-> n]
    <3>2. Q = [n \in {} |-> At(Q, n)]
      OBVIOUS
    <3>3. Paths(Layer(0), Q)
      BY <3>1, <3>2
    <3> HIDE DEF Paths, Layer
    <3> QED
      BY <2>2, <2>3, <3>3
  <2>4. CASE m # 0
    <3>1. m - 1 \in Nat /\ m - 1 \notin Missing
      <4> HIDE DEF Missing
      <4> QED
        BY <2>1, <2>2, <2>4
    <3>2. PICK P : Paths(Layer(m - 1), P)
      BY <3>1
    <3> DEFINE Q == [n \in Layer(m) |-> At(P, n)]
    <3>3. ASSUME NEW n \in Layer(m), n # Root PROVE Parent(active, n) \in Layer(m - 1)
      <4>1. Parent(active, n) \in Nodes(active) /\ depth[Parent(active, n)] < depth[n]
        BY <1>3, <3>3
      <4>2. depth[n] \in Nat /\ depth[Parent(active, n)] \in Nat /\ depth[n] < m /\ m \in Nat
        BY <4>1
      <4>3. depth[Parent(active, n)] < m - 1
        <5> HIDE DEF Missing
        <5> QED
          BY <4>1, <4>2
      <4> QED
        BY <4>1, <4>3
    <3>4. ASSUME NEW n \in Layer(m - 1) PROVE n \in Layer(m) /\ Q[n] = P[n]
      <4>1. n \in Layer(m)
        <5>1. depth[n] \in Nat /\ depth[n] < m - 1 /\ m \in Nat
          OBVIOUS
        <5>2. depth[n] < m
          BY <5>1
        <5> QED
          BY <5>2
      <4>2. P[n] = At(P, n)
        BY <3>2
      <4> HIDE DEF At, Layer
      <4> QED
        BY <4>1, <4>2
    <3>5. ASSUME NEW n \in Layer(m) PROVE At(P, n) = At(Q, n)
      <4>1. n # Root => P[Parent(active, n)] = Q[Parent(active, n)]
        <5> HIDE DEF Layer, Q
        <5> QED
          BY <3>3, <3>4
      <4> HIDE DEF Q
      <4> QED
        BY <4>1
    <3>6. Paths(Layer(m), Q)
      <4> HIDE DEF At, Layer
      <4> QED
        BY <3>5
    <3> HIDE DEF Paths, Layer
    <3> QED
      BY <2>2, <3>6
  <2> QED
    BY <2>3, <2>4
<1>6. Layer(depth[last] + 1) = Nodes(active)
  BY <1>4
<1>7. \E P : Paths(Nodes(active), P)
  <2>1. depth[last] + 1 \notin Missing
    BY <1>5
  <2>2. depth[last] + 1 \in Nat
    OBVIOUS
  <2>3. \E P : Paths(Layer(depth[last] + 1), P)
    <3> HIDE DEF Paths, Layer
    <3> QED
      BY <2>1, <2>2
  <2> HIDE DEF Paths, Layer
  <2> QED
    BY <1>6, <2>3
<1>8. \A i : PathTo(i) = (CHOOSE P : Paths(DOMAIN active.kids, P))[i]
  BY DEF PathTo
<1> DEFINE P == CHOOSE P : Paths(DOMAIN active.kids, P)
<1>9. Paths(DOMAIN active.kids, P)
  <2> HIDE DEF Paths
  <2> QED
    BY <1>2, <1>7
<1>10. \A i : PathTo(i) = P[i]
  BY <1>8
<1> HIDE DEF P
<1> QED
  BY <1>2, <1>9, <1>10 DEF PathBelow, PlaceOf

\* A path with one more place.
LEMMA AppendFacts ==
    ASSUME NEW S, NEW u \in Seq(S), NEW a, NEW w, w = Append(u, a)
    PROVE  /\ Len(u) \in Nat /\ Len(w) = Len(u) + 1 /\ w[Len(u) + 1] = a
           /\ \A j \in 1 .. Len(u) : w[j] = u[j]
           /\ u = [j \in 1 .. Len(u) |-> u[j]]
  OBVIOUS

\* A path leads to one component.
LEMMA PathBack ==
    ASSUME Forest(active), NEW i \in Components(active) PROVE AtPath(PathTo(i)) = i
<1>1. PICK P : /\ P = [n \in Nodes(active) |-> PathBelow(P, n)]
               /\ \A j : PathTo(j) = P[j]
  BY PathEquation
<1>2. \A n \in Nodes(active) : P[n] = PathBelow(P, n)
  BY <1>1
<1>3. Root \in Nodes(active) /\ P[Root] = <<>>
  BY <1>2 DEF PathBelow, Nodes
<1>4. \A n \in Components(active) :
         /\ n \in Nodes(active) /\ n # Root
         /\ P[n] = Append(P[Parent(active, n)], PlaceOf(n))
  BY <1>2, KidsFacts DEF PathBelow
<1>5. \A n \in Components(active) :
         /\ Parent(active, n) \in Nodes(active)
         /\ PlaceOf(n) \in DOMAIN active.kids[Parent(active, n)]
         /\ active.kids[Parent(active, n)][PlaceOf(n)] = n
  <2>1. ASSUME NEW n \in Components(active)
        PROVE  /\ Parent(active, n) \in Nodes(active)
               /\ \E k \in DOMAIN active.kids[Parent(active, n)] : active.kids[Parent(active, n)][k] = n
    BY ParentFacts DEF Range
  <2> QED
    BY <2>1 DEF PlaceOf
<1> DEFINE S == {n \in Nodes(active) : P[n] \in Seq(Nat)}
           T == {n \in Nodes(active) : \A m \in Nodes(active) : P[m] = P[n] => m = n}
<1>6. ASSUME NEW n \in Nodes(active), NEW k \in DOMAIN active.kids[n]
      PROVE  LET x == active.kids[n][k]
             IN  /\ x \in Components(active) /\ x \in Nodes(active) /\ Parent(active, x) = n
                 /\ P[x] = Append(P[n], PlaceOf(x)) /\ PlaceOf(x) \in Nat
  <2> DEFINE x == active.kids[n][k]
  <2>1. active.kids[n] \in Seq(Components(active))
    BY DEF Forest
  <2>2. x \in Components(active) /\ x \in Range(active.kids[n])
    BY <2>1 DEF Range
  <2>3. Parent(active, x) \in Nodes(active) /\ x \in Range(active.kids[Parent(active, x)])
    BY <2>2, ParentFacts
  <2>4. Parent(active, x) = n
    BY <2>2, <2>3, KidsFacts
  <2>5. PlaceOf(x) \in DOMAIN active.kids[n]
    BY <1>5, <2>2, <2>4
  <2> QED
    BY <1>4, <2>1, <2>2, <2>4, <2>5
<1>7. S = Nodes(active)
  <2>1. ASSUME NEW n \in S, NEW k \in DOMAIN active.kids[n] PROVE active.kids[n][k] \in S
    <3> DEFINE x == active.kids[n][k]
    <3>1. P[n] \in Seq(Nat) /\ n \in Nodes(active)
      OBVIOUS
    <3>2. x \in Nodes(active) /\ P[x] = Append(P[n], PlaceOf(x)) /\ PlaceOf(x) \in Nat
      BY <1>6, <3>1
    <3> HIDE DEF x
    <3>3. P[x] \in Seq(Nat)
      BY <3>1, <3>2
    <3>4. x \in S
      BY <3>2, <3>3
    <3> QED
      BY <3>4 DEF x
  <2>2. Root \in S
    <3>1. P[Root] \in Seq(Nat)
      <4>1. <<>> \in Seq(Nat)
        OBVIOUS
      <4> QED
        BY <1>3, <4>1
    <3> QED
      BY <1>3, <3>1
  <2> HIDE DEF S
  <2>3. S \subseteq Nodes(active)
    BY DEF S
  <2> QED
    BY <2>1, <2>2, <2>3, ForestDescent
<1>8. \A m \in Components(active) : P[m] # <<>>
  <2>1. ASSUME NEW m \in Components(active) PROVE P[m] # <<>>
    <3>1. P[Parent(active, m)] \in Seq(Nat)
      BY <1>5, <1>7
    <3>2. P[m] = Append(P[Parent(active, m)], PlaceOf(m))
      BY <1>4
    <3> QED
      BY <3>1, <3>2
  <2> QED
    BY <2>1
<1>9. T = Nodes(active)
  <2>1. ASSUME NEW n \in T, NEW k \in DOMAIN active.kids[n] PROVE active.kids[n][k] \in T
    <3> DEFINE x == active.kids[n][k]
    <3>1. /\ x \in Components(active) /\ x \in Nodes(active) /\ Parent(active, x) = n
          /\ P[x] = Append(P[n], PlaceOf(x))
      BY <1>6
    <3>2. ASSUME NEW m \in Nodes(active), P[m] = P[x] PROVE m = x
      <4>1. P[x] # <<>>
        BY <1>8, <3>1
      <4>2. m \in Components(active)
        BY <1>3, <3>2, <4>1 DEF Nodes
      <4>3. Parent(active, m) \in Nodes(active) /\ P[m] = Append(P[Parent(active, m)], PlaceOf(m))
        BY <1>4, <1>5, <4>2
      <4>4. P[Parent(active, m)] \in Seq(Nat) /\ P[n] \in Seq(Nat)
        BY <1>7, <4>3
      <4> DEFINE u == P[Parent(active, m)]
                 v == P[n]
                 a == PlaceOf(m)
                 b == PlaceOf(x)
                 w == P[m]
      <4> HIDE DEF u, v, a, b, w
      <4>5. /\ Len(u) \in Nat /\ Len(w) = Len(u) + 1 /\ w[Len(u) + 1] = a
            /\ \A j \in 1 .. Len(u) : w[j] = u[j]
            /\ u = [j \in 1 .. Len(u) |-> u[j]]
        <5>1. w = Append(u, a) /\ u \in Seq(Nat)
          BY <4>3, <4>4 DEF u, a, w
        <5> QED
          BY <5>1, AppendFacts
      <4>6. /\ Len(v) \in Nat /\ Len(w) = Len(v) + 1 /\ w[Len(v) + 1] = b
            /\ \A j \in 1 .. Len(v) : w[j] = v[j]
            /\ v = [j \in 1 .. Len(v) |-> v[j]]
        <5>1. w = Append(v, b) /\ v \in Seq(Nat)
          BY <3>1, <3>2, <4>4 DEF v, b, w
        <5> QED
          BY <5>1, AppendFacts
      <4>7. u = v /\ a = b
        <5>1. Len(u) = Len(v)
          <6>1. /\ Len(u) \in Nat /\ Len(w) = Len(u) + 1
                /\ Len(v) \in Nat /\ Len(w) = Len(v) + 1
            BY <4>5, <4>6
          <6> QED
            BY <6>1
        <5>2. \A j \in 1 .. Len(u) : u[j] = v[j]
          BY <4>5, <4>6, <5>1
        <5>3. u = v
          BY <4>5, <4>6, <5>1, <5>2
        <5> QED
          BY <4>5, <4>6, <5>1, <5>3
      <4>8. Parent(active, m) = n
        BY <4>3, <4>7 DEF u, v
      <4> QED
        BY <1>5, <3>1, <4>2, <4>7, <4>8 DEF a, b
    <3> QED
      BY <3>1, <3>2
  <2>2. Root \in T
    <3>1. ASSUME NEW m \in Nodes(active), P[m] = <<>> PROVE m = Root
      BY <1>8, <3>1 DEF Nodes
    <3> QED
      BY <1>3, <3>1
  <2>3. T \subseteq Nodes(active)
    OBVIOUS
  <2> HIDE DEF T
  <2> QED
    BY <2>1, <2>2, <2>3, ForestDescent
<1>10. \A j \in Components(active) : PathTo(j) = PathTo(i) => j = i
  <2>1. \A j \in Nodes(active) : P[j] = P[i] => j = i
    BY <1>4, <1>9
  <2> QED
    BY <1>1, <1>4, <2>1
<1> QED
  BY <1>10 DEF AtPath

-----------------------------------------------------------------------------
(* What the commands do to shapes                                          *)

\* A component shows something else.
LEMMA SetEffect ==
    ASSUME Sound(active), NEW h, ContextShape(active, h), NEW s \in DOMAIN h, NEW z, SetData(s, z),
           NEW g, DOMAIN g = DOMAIN h, Agree(g, h, DOMAIN h \ {s}), g[s].data = z, g[s].up = h[s].up
    PROVE  ContextShape(active', g)
<1>1. active' = [active EXCEPT !.node[active.suids[s]].data = z]
  BY DEF SetData, BySUID
<1>2. ContextShape([active EXCEPT !.node[active.suids[s]].data = z], g)
  BY SetShapeStep
<1> QED
  BY <1>1, <1>2

\* A component is destroyed with everything below it, which is U.
LEMMA DestroyEffect ==
    ASSUME Sound(active), NEW h, ContextShape(active, h), NEW s, NEW U, Below(h, s, U),
           NEW i, i = active.suids[s], DestroyComponentSubtree(i),
           NEW g, DOMAIN g = DOMAIN h \ U, Agree(g, h, DOMAIN g)
    PROVE  ContextShape(active', g)
<1>1. i \in Components(active) /\ U = SUIDsOf(active, Subtree(active, i))
  BY BelowUnique
<1>2. active' = Prune(active, i)
  BY DEF DestroyComponentSubtree
<1> QED
  BY <1>1, <1>2, PruneShape

\* A component is deleted with everything below it.
LEMMA DeleteEffect ==
    ASSUME Sound(active), NEW h, ContextShape(active, h), NEW cmd, NEW U, NEW g,
           DeleteShape(cmd, U, h, g), DestroyComponentSubtree(BySUID(cmd.suid))
    PROVE  ContextShape(active', g)
<1>1. /\ Below(h, cmd.suid, U) /\ DOMAIN g = DOMAIN h \ U /\ Agree(g, h, DOMAIN g)
  BY DEF DeleteShape
<1> QED
  BY <1>1, DestroyEffect DEF BySUID

\* The component that was created is destroyed.
LEMMA AddUndone ==
    ASSUME Sound(active), NEW g, ContextShape(active, g), NEW cmd, NEW h, WellFormed(h),
           AddShape(cmd, cmd.suid, h, g), DestroyComponentSubtree(BySUID(cmd.suid))
    PROVE  ContextShape(active', h)
<1> DEFINE s == cmd.suid
<1>1. /\ s \notin DOMAIN h /\ s # NoSUID /\ cmd.parent \in DOMAIN h \cup {NoSUID}
      /\ DOMAIN g = DOMAIN h \cup {s} /\ Agree(g, h, DOMAIN h) /\ g[s].up = cmd.parent
  BY DEF AddShape
<1>2. \A x \in DOMAIN h : g[x].up \in DOMAIN h \cup {NoSUID}
  BY <1>1 DEF WellFormed, Agree
<1>3. Below(g, s, {s})
  BY <1>1, <1>2 DEF Below
<1>4. DOMAIN h = DOMAIN g \ {s} /\ Agree(h, g, DOMAIN h)
  BY <1>1 DEF Agree
<1> QED
  BY <1>3, <1>4, DestroyEffect DEF BySUID

\* The copy is destroyed, whose root is i.
LEMMA CloneUndone ==
    ASSUME Sound(active), NEW g, ContextShape(active, g), NEW cmd, NEW h, WellFormed(h),
           NEW U, NEW f, CloneShape(cmd, U, f, h, g),
           NEW i \in Components(active), active.node[i].suid = f[cmd.src], DestroyComponentSubtree(i)
    PROVE  ContextShape(active', h)
<1> DEFINE V == {f[x] : x \in U}
           s == f[cmd.src]
<1>1. /\ cmd.src \in U /\ U \subseteq DOMAIN h
      /\ \A x \in U : x = cmd.src \/ h[x].up \in U
  BY DEF CloneShape, Below
<1>2. /\ \A x \in U : f[x] \notin DOMAIN h /\ f[x] # NoSUID
      /\ DOMAIN g = DOMAIN h \cup V /\ Agree(g, h, DOMAIN h)
      /\ \A x \in U : g[f[x]].up = IF x = cmd.src THEN h[x].up ELSE f[h[x].up]
  BY DEF CloneShape
<1>3. V \cap DOMAIN h = {} /\ NoSUID \notin V /\ s \in V
  BY <1>1, <1>2
<1>4. Below(g, s, V)
  <2>1. V \subseteq DOMAIN g
    BY <1>2
  <2>2. ASSUME NEW x \in DOMAIN g, g[x].up \in V PROVE x \in V
    <3>1. ASSUME x \in DOMAIN h PROVE FALSE
      <4>1. g[x].up = h[x].up /\ h[x].up \in DOMAIN h \cup {NoSUID}
        BY <1>2, <3>1 DEF WellFormed, Agree
      <4> QED
        BY <1>3, <2>2, <4>1
    <3> HIDE DEF V
    <3> QED
      BY <1>2, <3>1
  <2>3. ASSUME NEW y \in V PROVE y = s \/ g[y].up \in V
    <3>1. PICK x \in U : y = f[x]
      OBVIOUS
    <3>2. CASE x = cmd.src
      BY <3>1, <3>2
    <3>3. CASE x # cmd.src
      <4>1. h[x].up \in U /\ g[y].up = f[h[x].up]
        BY <1>1, <1>2, <3>1, <3>3
      <4> QED
        BY <4>1
    <3> QED
      BY <3>2, <3>3
  <2> HIDE DEF V, s
  <2> QED
    BY <1>3, <2>1, <2>2, <2>3 DEF Below
<1>5. DOMAIN h = DOMAIN g \ V /\ Agree(h, g, DOMAIN h)
  <2> HIDE DEF V
  <2> QED
    BY <1>2, <1>3 DEF Agree
<1>6. i = active.suids[s]
  BY ShapeFacts
<1> HIDE DEF V, s
<1> QED
  BY <1>4, <1>5, <1>6, DestroyEffect

\* The deleted components are created again.
LEMMA DeleteUndone ==
    ASSUME SceneOK, Sound(active), NEW g, ContextShape(active, g), NEW cmd, NEW h, WellFormed(h),
           NEW U, DeleteShape(cmd, U, h, g), EntriesOK(cmd.subtree),
           CreateComponentSubtree(cmd.subtree, IF Known(cmd.parent) THEN BySUID(cmd.parent) ELSE Root)
    PROVE  ContextShape(active', h)
<1> DEFINE p == IF Known(cmd.parent) THEN BySUID(cmd.parent) ELSE Root
           es == cmd.subtree
<1>1. /\ U \subseteq DOMAIN h /\ EntriesBelow(es, h, U, cmd.parent) /\ cmd.parent \in DOMAIN g \cup {NoSUID}
      /\ DOMAIN g = DOMAIN h \ U /\ Agree(g, h, DOMAIN g)
  BY DEF DeleteShape, Below
<1>2. EntrySUIDs(es) = U
  BY <1>1 DEF EntriesBelow
<1>3. DOMAIN h = DOMAIN g \cup EntrySUIDs(es) /\ Agree(h, g, DOMAIN g)
  BY <1>1, <1>2 DEF Agree
<1>4. p \in Nodes(active) /\ NameOf(active, p) = cmd.parent
  <2>1. DOMAIN g = DOMAIN active.suids
    BY DEF ContextShape
  <2>2. CASE Known(cmd.parent)
    <3>1. cmd.parent \in DOMAIN g /\ p = active.suids[cmd.parent]
      BY <2>1, <2>2 DEF Known, BySUID
    <3>2. p \in Components(active) /\ active.node[p].suid = cmd.parent
      BY <3>1, ShapeFacts
    <3>3. p # Root /\ p \in Nodes(active)
      BY <3>2, KidsFacts DEF Sound, ContextOK
    <3> QED
      BY <3>2, <3>3 DEF NameOf
  <2>3. CASE ~Known(cmd.parent)
    BY <1>1, <2>1, <2>3 DEF Known, NameOf, Nodes
  <2> QED
    BY <2>2, <2>3
<1>5. active' = Graft(active, es, p) /\ TakeIndices(Len(es))
  BY DEF CreateComponentSubtree
<1> HIDE DEF p, es
<1>6. Components(active) \subseteq Used
  BY DEF Used
<1>7. EntriesBelow(es, h, EntrySUIDs(es), NameOf(active, p))
  BY <1>1, <1>2, <1>4
<1>8. EntriesOK(es)
  BY DEF es
<1> QED
  BY <1>3, <1>4, <1>5, <1>6, <1>7, <1>8, GraftShape

-----------------------------------------------------------------------------
(* Commands and shapes                                                     *)

\* A command has the fields that undo and redo write.
Fields(cmd) ==
    /\ cmd.type \in {"set", "add", "clone", "delete"}
    /\ cmd.type = "add" => {"type", "parent", "suid"} \subseteq DOMAIN cmd
    /\ cmd.type = "clone" => {"type", "path", "dst", "src", "made"} \subseteq DOMAIN cmd

\* The command can be done to a scene of shape h.
Doable(cmd, h) ==
    /\ cmd.type = "set" => cmd.suid \in DOMAIN h /\ h[cmd.suid].data = cmd.old
    /\ cmd.type = "add" => cmd.parent \in DOMAIN h \cup {NoSUID}
    /\ cmd.type = "clone" => cmd.src \in DOMAIN h
    /\ cmd.type = "delete" => \E U : /\ Below(h, cmd.suid, U)
                                     /\ EntriesBelow(cmd.subtree, h, U, cmd.parent)
                                     /\ cmd.parent \in (DOMAIN h \ U) \cup {NoSUID}

\* It takes the shape h to g.
Relates(cmd, h, g) ==
    /\ cmd.type = "set" => SetShape(cmd, h, g)
    /\ cmd.type = "add" => \E s : AddShape(cmd, s, h, g)
    /\ cmd.type = "clone" => \E U, f : CloneShape(cmd, U, f, h, g)
    /\ cmd.type = "delete" => \E U : DeleteShape(cmd, U, h, g)

\* It knows the component that it created.
Names(cmd, h, g) ==
    /\ cmd.type = "set" => SetShape(cmd, h, g)
    /\ cmd.type = "add" => AddShape(cmd, cmd.suid, h, g)
    /\ cmd.type = "clone" => \E U, f : CloneShape(cmd, U, f, h, g) /\ f[cmd.src] = cmd.made
    /\ cmd.type = "delete" => \E U : DeleteShape(cmd, U, h, g)

\* What undo and redo write.
LEMMA WrittenFields ==
    ASSUME NEW cmd, CommandOK(cmd), Fields(cmd)
    PROVE  /\ Fields(Redone(cmd)) /\ Redone(cmd).type = cmd.type
           /\ Fields(Undone(cmd)) /\ Undone(cmd).type = cmd.type
           /\ cmd.type \in {"set", "delete"} => Redone(cmd) = cmd /\ Undone(cmd) = cmd
           /\ cmd.type = "add" => /\ Redone(cmd).parent = cmd.parent
                                  /\ Undone(cmd).parent = cmd.parent
                                  /\ Redone(cmd).suid = NthSUID(1)
           /\ cmd.type = "clone" => /\ Redone(cmd).src = cmd.src /\ Undone(cmd).src = cmd.src
                                    /\ Redone(cmd).made = NthSUID(1)
<1>1. CASE cmd.type = "add"
  <2>1. {"type", "parent", "suid"} \subseteq DOMAIN cmd
    BY <1>1 DEF Fields
  <2> DEFINE r == [cmd EXCEPT !.suid = NthSUID(1)]
             u == [cmd EXCEPT !.suid = NoSUID]
  <2>2. /\ DOMAIN r = DOMAIN cmd /\ r.type = cmd.type /\ r.parent = cmd.parent /\ r.suid = NthSUID(1)
        /\ DOMAIN u = DOMAIN cmd /\ u.type = cmd.type /\ u.parent = cmd.parent
    BY <2>1
  <2>3. Redone(cmd) = r /\ Undone(cmd) = u
    BY <1>1 DEF Redone, Undone
  <2> HIDE DEF r, u
  <2> QED
    BY <1>1, <2>1, <2>2, <2>3 DEF Fields
<1>2. CASE cmd.type = "clone"
  <2>1. {"type", "path", "dst", "src", "made"} \subseteq DOMAIN cmd
    BY <1>2 DEF Fields
  <2> DEFINE r == [cmd EXCEPT !.dst = NthIndex(1), !.made = NthSUID(1)]
             u == [cmd EXCEPT !.dst = None, !.made = NoSUID]
  <2>2. /\ DOMAIN r = DOMAIN cmd /\ r.type = cmd.type /\ r.src = cmd.src /\ r.made = NthSUID(1)
        /\ DOMAIN u = DOMAIN cmd /\ u.type = cmd.type /\ u.src = cmd.src
    BY <2>1
  <2>3. Redone(cmd) = r /\ Undone(cmd) = u
    BY <1>2 DEF Redone, Undone
  <2> HIDE DEF r, u
  <2> QED
    BY <1>2, <2>1, <2>2, <2>3 DEF Fields
<1>3. CASE cmd.type \notin {"add", "clone"}
  <2>1. Redone(cmd) = cmd /\ Undone(cmd) = cmd
    BY <1>3 DEF Redone, Undone
  <2> QED
    BY <1>3, <2>1 DEF Fields
<1> QED
  BY <1>1, <1>2, <1>3

\* What they write is not in the shapes.
LEMMA RelatesKept ==
    ASSUME NEW cmd, CommandOK(cmd), Fields(cmd), NEW h, NEW g
    PROVE  /\ Relates(Redone(cmd), h, g) <=> Relates(cmd, h, g)
           /\ Relates(Undone(cmd), h, g) <=> Relates(cmd, h, g)
           /\ Names(cmd, h, g) => Relates(cmd, h, g)
           /\ Relates(cmd, h, g) => Doable(cmd, h)
<1>1. /\ Relates(Redone(cmd), h, g) <=> Relates(cmd, h, g)
      /\ Relates(Undone(cmd), h, g) <=> Relates(cmd, h, g)
  <2>1. CASE cmd.type \in {"set", "delete"}
    BY <2>1, WrittenFields
  <2>2. CASE cmd.type = "add"
    <3>1. /\ Redone(cmd).type = "add" /\ Undone(cmd).type = "add"
          /\ Redone(cmd).parent = cmd.parent /\ Undone(cmd).parent = cmd.parent
      BY <2>2, WrittenFields
    <3>2. \A s : /\ AddShape(Redone(cmd), s, h, g) <=> AddShape(cmd, s, h, g)
                 /\ AddShape(Undone(cmd), s, h, g) <=> AddShape(cmd, s, h, g)
      BY <3>1 DEF AddShape
    <3> QED
      BY <2>2, <3>1, <3>2 DEF Relates
  <2>3. CASE cmd.type = "clone"
    <3>1. /\ Redone(cmd).type = "clone" /\ Undone(cmd).type = "clone"
          /\ Redone(cmd).src = cmd.src /\ Undone(cmd).src = cmd.src
      BY <2>3, WrittenFields
    <3>2. \A U, f : /\ CloneShape(Redone(cmd), U, f, h, g) <=> CloneShape(cmd, U, f, h, g)
                    /\ CloneShape(Undone(cmd), U, f, h, g) <=> CloneShape(cmd, U, f, h, g)
      BY <3>1 DEF CloneShape
    <3> QED
      BY <2>3, <3>1, <3>2 DEF Relates
  <2> QED
    BY <2>1, <2>2, <2>3 DEF Fields
<1>2. Names(cmd, h, g) => Relates(cmd, h, g)
  BY DEF Names, Relates
<1>3. ASSUME Relates(cmd, h, g) PROVE Doable(cmd, h)
  <2>1. CASE cmd.type = "set"
    BY <1>3, <2>1 DEF Relates, Doable, SetShape
  <2>2. CASE cmd.type = "add"
    BY <1>3, <2>2 DEF Relates, Doable, AddShape
  <2>3. CASE cmd.type = "clone"
    BY <1>3, <2>3 DEF Relates, Doable, CloneShape, Below
  <2>4. CASE cmd.type = "delete"
    BY <1>3, <2>4 DEF Relates, Doable, DeleteShape
  <2> QED
    BY <2>1, <2>2, <2>3, <2>4 DEF Fields
<1> QED
  BY <1>1, <1>2, <1>3

\* What a command does to the shape of the scene.
LEMMA RedoShape ==
    ASSUME SceneOK, Sound(active), NEW h, ContextShape(active, h), ~Reissued,
           NEW cmd, CommandOK(cmd), Fields(cmd), Doable(cmd, h), RedoEffect(cmd), ~AstrayRedo(cmd)
    PROVE  \E g : ContextShape(active', g) /\ Names(Redone(cmd), h, g)
<1>1. CASE cmd.type = "set" /\ SetData(cmd.suid, cmd.new)
  <2> DEFINE s == cmd.suid
             one == [data |-> cmd.new, up |-> h[s].up]
             g == [x \in DOMAIN h |-> IF x = s THEN one ELSE h[x]]
  <2>1. s \in DOMAIN h /\ h[s].data = cmd.old
    BY <1>1 DEF Doable
  <2>2. /\ DOMAIN g = DOMAIN h /\ g[s] = one /\ \A x \in DOMAIN h \ {s} : g[x] = h[x]
        /\ one.data = cmd.new /\ one.up = h[s].up
    BY <2>1
  <2> HIDE DEF g, one
  <2>3. /\ DOMAIN g = DOMAIN h /\ Agree(g, h, DOMAIN h \ {s}) /\ g[s].data = cmd.new
        /\ g[s].up = h[s].up
    BY <2>2 DEF Agree
  <2>4. ContextShape(active', g)
    BY <1>1, <2>1, <2>3, SetEffect
  <2>5. SetShape(cmd, h, g)
    BY <2>1, <2>3 DEF SetShape
  <2>6. Redone(cmd) = cmd
    BY <1>1, WrittenFields
  <2> HIDE DEF s
  <2> QED
    BY <1>1, <2>4, <2>5, <2>6 DEF Names
<1>2. CASE cmd.type = "add" /\ CreateComponentSerial(ParentIndex(cmd.parent))
  <2>1. cmd.parent \in DOMAIN h \cup {NoSUID}
    BY <1>2 DEF Doable
  <2>2. PICK g : ContextShape(active', g) /\ AddShape(cmd, NthSUID(1), h, g)
    BY <1>2, <2>1, AddEffect
  <2>3. Redone(cmd).type = "add" /\ Redone(cmd).parent = cmd.parent /\ Redone(cmd).suid = NthSUID(1)
    BY <1>2, WrittenFields
  <2>4. AddShape(Redone(cmd), Redone(cmd).suid, h, g)
    BY <2>2, <2>3 DEF AddShape
  <2> QED
    BY <2>2, <2>3, <2>4 DEF Names
<1>3. CASE cmd.type = "clone" /\ LET i == AtPath(cmd.path)
                                 IN  CloneComponentSubtree(i, Moved[active.node[i].data])
  <2> DEFINE i == AtPath(cmd.path)
  <2>1. i # None /\ active.node[i].suid = cmd.src
    BY <1>3 DEF AstrayRedo
  <2>2. i \in Components(active)
    BY <2>1, KnownComponents
  <2>3. CloneComponentSubtree(i, Moved[active.node[i].data])
    BY <1>3
  <2> HIDE DEF i
  <2>4. PICK g, U, f : /\ ContextShape(active', g) /\ CloneShape(cmd, U, f, h, g)
                       /\ f[cmd.src] = NthSUID(1)
    BY <2>1, <2>2, <2>3, CloneEffect
  <2>5. Redone(cmd).type = "clone" /\ Redone(cmd).src = cmd.src /\ Redone(cmd).made = NthSUID(1)
    BY <1>3, WrittenFields
  <2>6. CloneShape(Redone(cmd), U, f, h, g)
    BY <2>4, <2>5 DEF CloneShape
  <2> QED
    BY <2>4, <2>5, <2>6 DEF Names
<1>4. CASE cmd.type = "delete" /\ DestroyComponentSubtree(BySUID(cmd.suid))
  <2>1. PICK U : /\ Below(h, cmd.suid, U) /\ EntriesBelow(cmd.subtree, h, U, cmd.parent)
                 /\ cmd.parent \in (DOMAIN h \ U) \cup {NoSUID}
    BY <1>4 DEF Doable
  <2> DEFINE g == [x \in DOMAIN h \ U |-> h[x]]
  <2>2. DOMAIN g = DOMAIN h \ U /\ \A x \in DOMAIN g : g[x] = h[x]
    OBVIOUS
  <2> HIDE DEF g
  <2>3. DeleteShape(cmd, U, h, g)
    BY <2>1, <2>2 DEF DeleteShape, Agree
  <2>4. ContextShape(active', g)
    BY <1>4, <2>3, DeleteEffect
  <2>5. Redone(cmd) = cmd
    BY <1>4, WrittenFields
  <2> QED
    BY <1>4, <2>3, <2>4, <2>5 DEF Names
<1> QED
  BY <1>1, <1>2, <1>3, <1>4 DEF RedoEffect

\* A command that creates nothing takes one shape to one shape.
LEMMA RedoAgain ==
    ASSUME SceneOK, Sound(active), NEW h, ContextShape(active, h), NEW g,
           NEW cmd, cmd.type \in {"set", "delete"}, Relates(cmd, h, g), RedoEffect(cmd)
    PROVE  ContextShape(active', g)
<1>1. CASE cmd.type = "set"
  <2>1. SetShape(cmd, h, g) /\ SetData(cmd.suid, cmd.new)
    BY <1>1 DEF Relates, RedoEffect
  <2>2. /\ cmd.suid \in DOMAIN h /\ DOMAIN g = DOMAIN h /\ Agree(g, h, DOMAIN h \ {cmd.suid})
        /\ g[cmd.suid].data = cmd.new /\ g[cmd.suid].up = h[cmd.suid].up
    BY <2>1 DEF SetShape
  <2> QED
    BY <2>1, <2>2, SetEffect
<1>2. CASE cmd.type = "delete"
  <2>1. (\E U : DeleteShape(cmd, U, h, g)) /\ DestroyComponentSubtree(BySUID(cmd.suid))
    BY <1>2 DEF Relates, RedoEffect
  <2> QED
    BY <2>1, DeleteEffect
<1> QED
  BY <1>1, <1>2

\* What a command does is undone.
LEMMA UndoShape ==
    ASSUME SceneOK, Sound(active), NEW g, ContextShape(active, g), NEW h, WellFormed(h),
           NEW cmd, CommandOK(cmd), Names(cmd, h, g), UndoEffect(cmd), ~AstrayUndo(cmd)
    PROVE  ContextShape(active', h)
<1>1. CASE cmd.type = "set" /\ SetData(cmd.suid, cmd.old)
  <2>1. SetShape(cmd, h, g)
    BY <1>1 DEF Names
  <2>2. /\ cmd.suid \in DOMAIN g /\ DOMAIN h = DOMAIN g /\ Agree(h, g, DOMAIN g \ {cmd.suid})
        /\ h[cmd.suid].data = cmd.old /\ h[cmd.suid].up = g[cmd.suid].up
    BY <2>1 DEF SetShape, Agree
  <2> QED
    BY <1>1, <2>2, SetEffect
<1>2. CASE cmd.type = "add" /\ DestroyComponentSubtree(BySUID(cmd.suid))
  <2>1. AddShape(cmd, cmd.suid, h, g)
    BY <1>2 DEF Names
  <2> QED
    BY <1>2, <2>1, AddUndone
<1>3. CASE cmd.type = "clone" /\ IF cmd.dst \in Components(active)
                                 THEN DestroyComponentSubtree(cmd.dst)
                                 ELSE UNCHANGED sceneVars
  <2>1. PICK U, f : CloneShape(cmd, U, f, h, g) /\ f[cmd.src] = cmd.made
    BY <1>3 DEF Names
  <2>2. cmd.dst \in Components(active) /\ active.node[cmd.dst].suid = cmd.made
    BY <1>3 DEF AstrayUndo
  <2>3. DestroyComponentSubtree(cmd.dst)
    BY <1>3, <2>2
  <2> QED
    BY <2>1, <2>2, <2>3, CloneUndone
<1>4. CASE cmd.type = "delete" /\ CreateComponentSubtree(cmd.subtree,
                                    IF Known(cmd.parent) THEN BySUID(cmd.parent) ELSE Root)
  <2>1. PICK U : DeleteShape(cmd, U, h, g)
    BY <1>4 DEF Names
  <2>2. EntriesOK(cmd.subtree)
    BY <1>4 DEF CommandOK
  <2>3. CreateComponentSubtree(cmd.subtree, IF Known(cmd.parent) THEN BySUID(cmd.parent) ELSE Root)
    BY <1>4
  <2> QED
    BY <2>1, <2>2, <2>3, DeleteUndone
<1> QED
  BY <1>1, <1>2, <1>3, <1>4 DEF UndoEffect

\* A command that is done again shows what it showed before.
LEMMA RelatesOnce ==
    ASSUME NEW c, Sound(c), NEW h, ContextShape(c, h), NEW cmd, Fields(cmd),
           NEW g, Relates(cmd, h, g), WellFormed(g), NEW k, Relates(cmd, h, k),
           NEW d, Pictures(d, g), NEW e, Pictures(e, k)
    PROVE  d = e
<1>1. CASE cmd.type = "set"
  <2>1. SetShape(cmd, h, g) /\ SetShape(cmd, h, k)
    BY <1>1 DEF Relates
  <2>2. DOMAIN k = DOMAIN g /\ Agree(k, g, DOMAIN g)
    BY <2>1 DEF SetShape, Agree
  <2> QED
    BY <2>2, PicturedOnce
<1>2. CASE cmd.type = "add"
  <2>1. PICK s : AddShape(cmd, s, h, g)
    BY <1>2 DEF Relates
  <2>2. PICK t : AddShape(cmd, t, h, k)
    BY <1>2 DEF Relates
  <2> DEFINE F == [x \in DOMAIN g |-> IF x = s THEN t ELSE x]
  <2>3. /\ s \notin DOMAIN h /\ s # NoSUID /\ cmd.parent \in DOMAIN h \cup {NoSUID}
        /\ DOMAIN g = DOMAIN h \cup {s} /\ Agree(g, h, DOMAIN h)
        /\ g[s].data = Fresh /\ g[s].up = cmd.parent
    BY <2>1 DEF AddShape
  <2>4. /\ t \notin DOMAIN h /\ t # NoSUID
        /\ DOMAIN k = DOMAIN h \cup {t} /\ Agree(k, h, DOMAIN h)
        /\ k[t].data = Fresh /\ k[t].up = cmd.parent
    BY <2>2 DEF AddShape
  <2>5. F[s] = t /\ \A x \in DOMAIN h : F[x] = x
    BY <2>3
  <2>6. F \in [DOMAIN g -> DOMAIN k]
    BY <2>3, <2>4
  <2> HIDE DEF F
  <2>7. \A x, y \in DOMAIN g : F[x] = F[y] => x = y
    BY <2>3, <2>4, <2>5
  <2>8. \A y \in DOMAIN k : \E x \in DOMAIN g : F[x] = y
    BY <2>3, <2>4, <2>5
  <2>9. ASSUME NEW x \in DOMAIN h
        PROVE  /\ g[x].data = h[x].data /\ g[x].up = h[x].up
               /\ k[x].data = h[x].data /\ k[x].up = h[x].up
               /\ h[x].up \in DOMAIN h \cup {NoSUID}
    BY <2>3, <2>4, ShapeFacts DEF Agree, WellFormed
  <2>10. \A x \in DOMAIN g : /\ k[F[x]].data = g[x].data
                             /\ g[x].up = NoSUID => k[F[x]].up = NoSUID
                             /\ g[x].up # NoSUID => k[F[x]].up = F[g[x].up]
    BY <2>3, <2>4, <2>5, <2>9
  <2> QED
    BY <2>6, <2>7, <2>8, <2>10, SameShape
<1>3. CASE cmd.type = "clone"
  <2>1. PICK U, f : CloneShape(cmd, U, f, h, g)
    BY <1>3 DEF Relates
  <2>2. PICK V, w : CloneShape(cmd, V, w, h, k)
    BY <1>3 DEF Relates
  <2> DEFINE src == cmd.src
  <2>3. U = V
    <3>1. Below(h, src, U) /\ Below(h, src, V)
      BY <2>1, <2>2 DEF CloneShape
    <3> QED
      BY <3>1, BelowUnique
  <2>4. /\ src \in U /\ U \subseteq DOMAIN h
        /\ \A x \in U : x = src \/ h[x].up \in U
    BY <2>1 DEF CloneShape, Below
  <2>5. /\ \A x, y \in U : f[x] = f[y] => x = y
        /\ \A x \in U : f[x] \notin DOMAIN h /\ f[x] # NoSUID
        /\ DOMAIN g = DOMAIN h \cup {f[x] : x \in U} /\ Agree(g, h, DOMAIN h)
        /\ \A x \in U : /\ g[f[x]].data = IF x = src THEN Moved[h[x].data] ELSE h[x].data
                        /\ g[f[x]].up = IF x = src THEN h[x].up ELSE f[h[x].up]
    BY <2>1 DEF CloneShape
  <2>6. /\ \A x, y \in U : w[x] = w[y] => x = y
        /\ \A x \in U : w[x] \notin DOMAIN h /\ w[x] # NoSUID
        /\ DOMAIN k = DOMAIN h \cup {w[x] : x \in U} /\ Agree(k, h, DOMAIN h)
        /\ \A x \in U : /\ k[w[x]].data = IF x = src THEN Moved[h[x].data] ELSE h[x].data
                        /\ k[w[x]].up = IF x = src THEN h[x].up ELSE w[h[x].up]
    BY <2>2, <2>3 DEF CloneShape
  <2> HIDE DEF src
  <2> DEFINE of(y) == CHOOSE x \in U : f[x] = y
             F == [y \in DOMAIN g |-> IF y \in DOMAIN h THEN y ELSE w[of(y)]]
  <2>7. ASSUME NEW x \in U PROVE of(f[x]) = x
    <3>1. of(f[x]) \in U /\ f[of(f[x])] = f[x]
      OBVIOUS
    <3> QED
      BY <2>5, <3>1
  <2>8. \A y \in DOMAIN g : y \in DOMAIN h \/ \E x \in U : y = f[x]
    BY <2>5
  <2>9. /\ \A x \in DOMAIN h : F[x] = x /\ x \in DOMAIN g /\ x \in DOMAIN k
        /\ \A x \in U : F[f[x]] = w[x] /\ f[x] \in DOMAIN g /\ w[x] \in DOMAIN k
    BY <2>5, <2>6, <2>7
  <2>10. F = [y \in DOMAIN g |-> F[y]]
    OBVIOUS
  <2> HIDE DEF F
  <2>11. F \in [DOMAIN g -> DOMAIN k]
    <3>1. \A y \in DOMAIN g : F[y] \in DOMAIN k
      BY <2>8, <2>9
    <3> QED
      BY <2>10, <3>1
  <2>12. \A x, y \in DOMAIN g : F[x] = F[y] => x = y
    <3>1. ASSUME NEW x \in DOMAIN g, NEW y \in DOMAIN g, F[x] = F[y] PROVE x = y
      <4>1. CASE x \in DOMAIN h /\ y \in DOMAIN h
        BY <2>9, <3>1, <4>1
      <4>2. CASE x \in DOMAIN h /\ y \notin DOMAIN h
        BY <2>6, <2>8, <2>9, <3>1, <4>2
      <4>3. CASE x \notin DOMAIN h /\ y \in DOMAIN h
        BY <2>6, <2>8, <2>9, <3>1, <4>3
      <4>4. CASE x \notin DOMAIN h /\ y \notin DOMAIN h
        <5>1. PICK a \in U : x = f[a]
          BY <2>8, <4>4
        <5>2. PICK b \in U : y = f[b]
          BY <2>8, <4>4
        <5> QED
          BY <2>6, <2>9, <3>1, <5>1, <5>2
      <4> QED
        BY <4>1, <4>2, <4>3, <4>4
    <3> QED
      BY <3>1
  <2>13. \A y \in DOMAIN k : \E x \in DOMAIN g : F[x] = y
    <3>1. ASSUME NEW y \in DOMAIN k PROVE \E x \in DOMAIN g : F[x] = y
      <4>1. y \in DOMAIN h \/ \E x \in U : y = w[x]
        BY <2>6
      <4> QED
        BY <2>9, <4>1
    <3> QED
      BY <3>1
  <2>14. ASSUME NEW x \in DOMAIN h
         PROVE  /\ g[x].data = h[x].data /\ g[x].up = h[x].up
                /\ k[x].data = h[x].data /\ k[x].up = h[x].up
                /\ h[x].up \in DOMAIN h \cup {NoSUID}
    BY <2>5, <2>6, ShapeFacts DEF Agree, WellFormed
  <2>15. ASSUME NEW x \in DOMAIN g
         PROVE  /\ k[F[x]].data = g[x].data
                /\ g[x].up = NoSUID => k[F[x]].up = NoSUID
                /\ g[x].up # NoSUID => k[F[x]].up = F[g[x].up]
    <3>1. CASE x \in DOMAIN h
      BY <2>9, <2>14, <3>1
    <3>2. CASE x \notin DOMAIN h
      <4>1. PICK a \in U : x = f[a]
        BY <2>8, <3>2
      <4>2. F[x] = w[a] /\ a \in DOMAIN h
        BY <2>4, <2>9, <4>1
      <4>3. g[x].data = k[F[x]].data
        BY <2>5, <2>6, <4>1, <4>2
      <4>4. CASE a = src
        <5>1. g[x].up = h[a].up /\ k[F[x]].up = h[a].up
          BY <2>5, <2>6, <4>1, <4>2, <4>4
        <5> QED
          BY <2>9, <2>14, <4>2, <4>3, <5>1
      <4>5. CASE a # src
        <5>1. h[a].up \in U
          BY <2>4, <4>5
        <5>2. g[x].up = f[h[a].up] /\ k[F[x]].up = w[h[a].up]
          BY <2>5, <2>6, <4>1, <4>2, <4>5
        <5> QED
          BY <2>5, <2>9, <4>3, <5>1, <5>2
      <4> QED
        BY <4>4, <4>5
    <3> QED
      BY <3>1, <3>2
  <2> QED
    BY <2>11, <2>12, <2>13, <2>15, SameShape
<1>4. CASE cmd.type = "delete"
  <2>1. PICK U : DeleteShape(cmd, U, h, g)
    BY <1>4 DEF Relates
  <2>2. PICK V : DeleteShape(cmd, V, h, k)
    BY <1>4 DEF Relates
  <2>3. U = V
    <3>1. Below(h, cmd.suid, U) /\ Below(h, cmd.suid, V)
      BY <2>1, <2>2 DEF DeleteShape
    <3> QED
      BY <3>1, BelowUnique
  <2>4. DOMAIN k = DOMAIN g /\ Agree(k, g, DOMAIN g)
    BY <2>1, <2>2, <2>3 DEF DeleteShape, Agree
  <2> QED
    BY <2>4, PicturedOnce
<1> QED
  BY <1>1, <1>2, <1>3, <1>4 DEF Fields

\* A subtree in the order of its entries.
LEMMA PreOrderFacts ==
    ASSUME NEW c, Forest(c), NEW i \in Components(c)
    PROVE  PreOrder(c, i) \in Seq(Components(c)) /\ NoRepeat(PreOrder(c, i)) /\ Onward(c.kids, PreOrder(c, i))
<1> DEFINE t == PreOrder(c, i)
<1>1. i \in Nodes(c)
  BY DEF Nodes
<1>2. t \in Seq(Nodes(c)) /\ NoRepeat(t) /\ Range(t) = Subtree(c, i) /\ Onward(c.kids, t)
  BY <1>1, SubtreeFacts
<1>3. Subtree(c, i) \subseteq Components(c)
  BY PruneFacts
<1> HIDE DEF t
<1>4. \A k \in DOMAIN t : t[k] \in Components(c)
  BY <1>2, <1>3 DEF Range
<1>5. t \in Seq(Components(c))
  BY <1>2, <1>4
<1> QED
  BY <1>2, <1>5 DEF t

\* No identifier in use is handed out to a clone, its source's own included.
LEMMA CopiesApart ==
    ASSUME SceneOK, NEW cmd, cmd.type = "clone", AtPath(cmd.path) \in Components(active),
           ~ReissuedByClone(cmd)
    PROVE  CopiesDiffer(AtPath(cmd.path))
<1> DEFINE i == AtPath(cmd.path)
           s == PreOrder(active, i)
<1>1. s \in Seq(Components(active)) /\ Len(s) \in Nat /\ DOMAIN s = 1 .. Len(s)
  BY PreOrderFacts DEF SceneOK, ContextOK
<1>2. i # None
  BY DEF SceneOK, ContextOK, Forest, None
<1> HIDE DEF i
<1>3. ASSUME Len(s) <= Cardinality(FreeSUIDs), NEW k \in DOMAIN s, NthSUID(k) = active.node[s[k]].suid
      PROVE  FALSE
  <2>1. k \in 1 .. Len(s) /\ s[k] \in Components(active)
    BY <1>1
  <2> HIDE DEF s
  <2>2. NthSUID(k) \in SUID
    BY <1>1, <1>3, <2>1, FreeNthSUIDs DEF SceneOK
  <2>3. active.node[s[k]].suid # NoSUID
    BY <1>3, <2>2, NoSUIDApart
  <2>4. NthSUID(k) \in SUIDsInUse
    BY <1>3, <2>1, <2>3 DEF SUIDsInUse, SUIDsOf
  <2> QED
    BY <1>2, <1>3, <2>1, <2>4 DEF ReissuedByClone, s, i
<1> QED
  BY <1>3 DEF CopiesDiffer, i

\* What redo asserts of a scene to which the command can be done.
LEMMA RedoAsserted ==
    ASSUME SceneOK, NEW h, ContextShape(active, h), NEW cmd, Fields(cmd), Doable(cmd, h),
           ~AstrayRedo(cmd), ~ReissuedByClone(cmd), ~Running
    PROVE  RedoAsserts(cmd)
<1>1. DOMAIN h = DOMAIN active.suids
  BY DEF ContextShape
<1>2. CASE cmd.type = "set"
  BY <1>1, <1>2 DEF Doable, RedoAsserts, Known
<1>3. CASE cmd.type = "add"
  BY <1>1, <1>3 DEF Doable, RedoAsserts, Known, KnownParent
<1>4. CASE cmd.type = "clone"
  <2>1. AtPath(cmd.path) # None
    BY <1>4 DEF AstrayRedo
  <2>2. AtPath(cmd.path) \in Components(active)
    BY <2>1, KnownComponents
  <2>3. CopiesDiffer(AtPath(cmd.path))
    BY <1>4, <2>2, CopiesApart
  <2> QED
    BY <1>4, <2>1, <2>3 DEF RedoAsserts
<1>5. CASE cmd.type = "delete"
  BY <1>1, <1>5 DEF Doable, RedoAsserts, Known, Below
<1> QED
  BY <1>2, <1>3, <1>4, <1>5 DEF Fields

\* What undo asserts of a scene to which the command was done.
LEMMA UndoAsserted ==
    ASSUME Sound(active), NEW g, ContextShape(active, g), NEW h, NEW cmd, Fields(cmd), Names(cmd, h, g),
           registered \subseteq ContextSUIDs(active), ~Running
    PROVE  UndoAsserts(cmd)
<1>1. DOMAIN g = DOMAIN active.suids /\ ContextSUIDs(active) = DOMAIN g
  BY ShapeFacts DEF ContextShape
<1>2. CASE cmd.type = "set"
  BY <1>1, <1>2 DEF Names, SetShape, UndoAsserts, Known
<1>3. CASE cmd.type = "add"
  BY <1>1, <1>3 DEF Names, AddShape, UndoAsserts, Known
<1>4. CASE cmd.type = "clone"
  BY <1>4 DEF UndoAsserts
<1>5. CASE cmd.type = "delete"
  <2>1. PICK U : DeleteShape(cmd, U, h, g)
    BY <1>5 DEF Names
  <2>2. EntrySUIDs(cmd.subtree) = U /\ DOMAIN g = DOMAIN h \ U
    BY <2>1 DEF DeleteShape, EntriesBelow
  <2>3. NoSUID \notin EntrySUIDs(cmd.subtree)
    BY DEF EntrySUIDs
  <2>4. \A s \in EntrySUIDs(cmd.subtree) : CanTry(s)
    BY <1>1, <2>2, <2>3 DEF CanTry
  <2> QED
    BY <1>5, <2>4 DEF UndoAsserts
<1> QED
  BY <1>2, <1>3, <1>4, <1>5 DEF Fields

\* The user edits components that are there.
EditCommand(cmd) ==
    \/ \E s \in DOMAIN active.suids :
          \/ \E d \in Data \ {active.node[BySUID(s)].data} : cmd = SetCommand(s, d)
          \/ cmd = CloneCommand(s)
          \/ cmd = DeleteCommand(s)
    \/ \E s \in DOMAIN active.suids \cup {NoSUID} : cmd = AddCommand(s)

\* So the command can be done.
LEMMA EditDoable ==
    ASSUME Sound(active), NEW h, ContextShape(active, h), NEW cmd, EditCommand(cmd)
    PROVE  CommandOK(cmd) /\ Fields(cmd) /\ Doable(cmd, h) /\ ~AstrayRedo(cmd)
<1>1. /\ DOMAIN h = DOMAIN active.suids /\ Forest(active)
      /\ \A i \in Components(active) : h[active.node[i].suid].data = active.node[i].data
  BY DEF ContextShape, Sound, ContextOK
<1>2. \A s \in DOMAIN h : BySUID(s) \in Components(active) /\ active.node[BySUID(s)].suid = s
  BY ShapeFacts DEF BySUID
<1>3. \A i \in Components(active) : active.node[i].data \in Data
  BY <1>1, KidsFacts
<1>4. ASSUME NEW s \in DOMAIN h, NEW d \in Data, cmd = SetCommand(s, d)
      PROVE  CommandOK(cmd) /\ Fields(cmd) /\ Doable(cmd, h) /\ ~AstrayRedo(cmd)
  <2>1. /\ cmd.type = "set" /\ cmd.suid = s /\ cmd.new = d /\ "type" \in DOMAIN cmd
        /\ cmd.old = active.node[BySUID(s)].data
    BY <1>4 DEF SetCommand
  <2>2. h[s].data = cmd.old /\ cmd.old \in Data
    BY <1>1, <1>2, <1>3, <2>1
  <2> QED
    BY <2>1, <2>2 DEF CommandOK, Fields, Doable, AstrayRedo
<1>5. ASSUME NEW s \in DOMAIN h, cmd = CloneCommand(s)
      PROVE  CommandOK(cmd) /\ Fields(cmd) /\ Doable(cmd, h) /\ ~AstrayRedo(cmd)
  <2>1. /\ cmd.type = "clone" /\ cmd.src = s /\ cmd.path = PathTo(BySUID(s))
        /\ {"type", "path", "dst", "src", "made"} \subseteq DOMAIN cmd
    BY <1>5 DEF CloneCommand
  <2>2. AtPath(cmd.path) = BySUID(s)
    BY <1>1, <1>2, <2>1, PathBack
  <2>3. BySUID(s) # None
    BY <1>1, <1>2 DEF Forest, None
  <2>4. ~AstrayRedo(cmd)
    BY <1>2, <2>1, <2>2, <2>3 DEF AstrayRedo
  <2> QED
    BY <2>1, <2>4 DEF CommandOK, Fields, Doable
<1>6. ASSUME NEW s \in DOMAIN h, cmd = DeleteCommand(s)
      PROVE  CommandOK(cmd) /\ Fields(cmd) /\ Doable(cmd, h) /\ ~AstrayRedo(cmd)
  <2> DEFINE i == BySUID(s)
             U == SUIDsOf(active, Subtree(active, i))
             es == Entries(active, PreOrder(active, i))
  <2>1. /\ cmd.type = "delete" /\ cmd.suid = s /\ cmd.parent = ParentSUID(i) /\ cmd.subtree = es
        /\ "type" \in DOMAIN cmd
    BY <1>6 DEF DeleteCommand
  <2>2. i \in Components(active) /\ active.node[i].suid = s
    BY <1>2
  <2>3. Below(h, s, U) /\ EntriesOK(es) /\ EntriesBelow(es, h, U, h[s].up)
    BY <2>2, SubtreeShape
  <2>4. \A k \in DOMAIN es : es[k].parent = 0 => h[es[k].suid].up \notin U
    BY <2>2, SubtreeShape
  <2>5. 1 \in DOMAIN es /\ es[1].suid = s /\ es[1].parent = 0
    <3>1. /\ PreOrder(active, i) \in Seq(Nodes(active)) /\ NoRepeat(PreOrder(active, i))
          /\ Range(PreOrder(active, i)) = Subtree(active, i) /\ Onward(active.kids, PreOrder(active, i))
          /\ Len(PreOrder(active, i)) # 0 /\ PreOrder(active, i)[1] = i
      BY <1>1, <2>2, SubtreeFacts DEF Nodes
    <3>2. Subtree(active, i) \subseteq Components(active)
      BY <1>1, <2>2, PruneFacts
    <3> DEFINE q == PreOrder(active, i)
    <3>3. q \in Seq(Components(active)) /\ 1 \in DOMAIN q
      <4> HIDE DEF q
      <4>1. \A k \in DOMAIN q : q[k] \in Components(active)
        BY <3>1, <3>2 DEF q, Range
      <4>2. q \in Seq(Nodes(active)) /\ Len(q) # 0
        BY <3>1 DEF q
      <4> QED
        BY <4>1, <4>2
    <3>4. DOMAIN es = DOMAIN q /\ es[1].suid = active.node[q[1]].suid
      BY <1>1, <3>1, <3>3, EntriesFacts DEF Entries
    <3>5. es[1] \in Entry /\ es[1].parent < 1
      BY <2>3, <3>3, <3>4 DEF EntriesOK
    <3>6. es[1].parent \in Nat
      BY <3>5 DEF Entry
    <3> HIDE DEF es, q
    <3>7. es[1].parent = 0
      BY <3>5, <3>6
    <3> QED
      BY <2>2, <3>1, <3>3, <3>4, <3>7 DEF q
  <2>6. h[s].up \in (DOMAIN h \ U) \cup {NoSUID}
    <3>1. h[s].up \notin U
      BY <2>4, <2>5
    <3>2. h[s].up \in DOMAIN h \cup {NoSUID}
      BY ShapeFacts DEF WellFormed
    <3> QED
      BY <3>1, <3>2
  <2>7. cmd.parent = h[s].up
    <3>1. Parent(active, i) \in Nodes(active) /\ i \in Range(active.kids[Parent(active, i)])
      BY <1>1, <2>2, ParentFacts
    <3>2. h[s].up = NameOf(active, Parent(active, i))
      BY <2>2, <3>1 DEF ContextShape
    <3> QED
      BY <2>1, <3>2 DEF ParentSUID, NameOf
  <2> HIDE DEF i, U, es
  <2> QED
    BY <2>1, <2>3, <2>6, <2>7 DEF CommandOK, Fields, Doable, AstrayRedo
<1>7. ASSUME NEW s \in DOMAIN h \cup {NoSUID}, cmd = AddCommand(s)
      PROVE  CommandOK(cmd) /\ Fields(cmd) /\ Doable(cmd, h) /\ ~AstrayRedo(cmd)
  <2>1. cmd.type = "add" /\ cmd.parent = s /\ {"type", "parent", "suid"} \subseteq DOMAIN cmd
    BY <1>7 DEF AddCommand
  <2> QED
    BY <2>1 DEF CommandOK, Fields, Doable, AstrayRedo
<1> QED
  BY <1>1, <1>4, <1>5, <1>6, <1>7 DEF EditCommand

-----------------------------------------------------------------------------
(* Components have identifiers as long as no script makes one without      *)

AllNamed(c) == \A i \in Components(c) : c.node[i].suid # NoSUID
NoneUnnamed(es) == \A k \in DOMAIN es : es[k].suid # NoSUID
CommandNamed(cmd) == cmd.type = "delete" => NoneUnnamed(cmd.subtree)

\* What is edited, what was deleted and what is on disk has identifiers, and
\* on disk no two are the same.
NamedInv ==
    /\ "played" \notin excuse =>
          /\ AllNamed(Edited)
          /\ \A k \in DOMAIN commands : CommandNamed(commands[k])
          /\ \A s \in SceneIDs : NoneUnnamed(files[s])
    /\ "reissued" \notin excuse => \A s \in SceneIDs : EntriesApart(files[s])

\* New components that have identifiers.
LEMMA GraftNamed ==
    ASSUME SceneOK, NEW c, ContextOK(c), Components(c) \subseteq Used, AllNamed(c), NEW p \in Nodes(c),
           NEW es, EntriesOK(es), NoneUnnamed(es), TakeIndices(Len(es))
    PROVE  AllNamed(Graft(c, es, p))
<1> DEFINE at == NextIndices(Len(es))
           d == Attach(c, es, p, at)
<1>1. Len(es) \in Nat /\ DOMAIN es = 1 .. Len(es)
  BY DEF EntriesOK
<1>2. IndicesOK(indices, Used)
  BY DEF SceneOK
<1>3. at \in Seq(Nat) /\ Len(at) = Len(es) /\ NoRepeat(at) /\ Range(at) \cap Used = {}
  <2> HIDE DEF Used
  <2> QED
    BY <1>1, <1>2, TakeIndicesFacts
<1>4. Graft(c, es, p) = d
  BY <1>1 DEF Graft, NextIndices
<1> HIDE DEF at
<1>5. Range(at) \cap Components(c) = {} /\ DOMAIN at = DOMAIN es
  BY <1>1, <1>3
<1>6. /\ Components(d) = Range(at) \cup Components(c)
      /\ \A i \in Components(c) : d.node[i] = c.node[i]
      /\ \A k \in DOMAIN es : d.node[at[k]].suid = es[k].suid
  BY <1>3, <1>5, AttachFacts DEF ContextOK
<1> HIDE DEF d
<1>7. AllNamed(d)
  BY <1>5, <1>6 DEF AllNamed, NoneUnnamed, Range
<1> QED
  BY <1>4, <1>7

\* What is left of components that have identifiers.
LEMMA PruneNamed ==
    ASSUME SceneOK, AllNamed(active), NEW i \in Components(active), DestroyComponentSubtree(i)
    PROVE  AllNamed(active')
<1> DEFINE d == Prune(active, i)
<1>1. active' = d
  BY DEF DestroyComponentSubtree
<1>2. /\ Components(d) = Components(active) \ Subtree(active, i)
      /\ \A x \in Components(d) : d.node[x] = active.node[x]
  BY PruneFacts DEF SceneOK, ContextOK
<1> HIDE DEF d
<1> QED
  BY <1>1, <1>2 DEF AllNamed

\* A component that shows something else keeps its identifier.
LEMMA SetNamed ==
    ASSUME SceneOK, AllNamed(active), NEW s, Known(s), NEW z, SetData(s, z)
    PROVE  AllNamed(active')
<1> DEFINE i == BySUID(s)
<1>1. i \in Components(active)
  BY KnownComponents
<1>2. active' = [active EXCEPT !.node[i].data = z]
  BY DEF SetData
<1>3. active = [node |-> active.node, kids |-> active.kids, suids |-> active.suids]
      /\ active.node \in [Components(active) -> ComponentData]
  BY DEF SceneOK, ContextOK, Forest
<1> HIDE DEF i
<1>4. active'.node = [active.node EXCEPT ![i].data = z]
  BY <1>2, <1>3
<1>5. Components(active') = Components(active)
  BY <1>4 DEF Components
<1>6. ASSUME NEW x \in Components(active) PROVE active'.node[x].suid = active.node[x].suid
  <2>1. active.node[x] \in ComponentData
    BY <1>3
  <2>2. CASE x = i
    BY <1>3, <1>4, <2>1, <2>2 DEF ComponentData
  <2>3. CASE x # i
    BY <1>3, <1>4, <2>3
  <2> QED
    BY <2>2, <2>3
<1> QED
  BY <1>5, <1>6 DEF AllNamed

\* Identifiers that are handed out are identifiers.
LEMMA RedoNamed ==
    ASSUME SceneOK, AllNamed(active), NEW cmd, RedoAsserts(cmd), RedoEffect(cmd)
    PROVE  AllNamed(active')
<1>0. ContextOK(active) /\ Components(active) \subseteq Used
  BY DEF SceneOK, Used
<1>1. CASE cmd.type = "set" /\ SetData(cmd.suid, cmd.new)
  <2>1. Known(cmd.suid)
    BY <1>1 DEF RedoAsserts
  <2> QED
    BY <1>1, <2>1, SetNamed
<1>2. CASE cmd.type = "add" /\ CreateComponentSerial(ParentIndex(cmd.parent))
  <2> DEFINE p == ParentIndex(cmd.parent)
             s == NthSUID(1)
             e == [suid |-> s, data |-> Fresh, parent |-> 0]
             es == <<e>>
  <2>1. p \in Nodes(active)
    BY <1>2, KnownComponents DEF RedoAsserts
  <2>2. TakeIndices(1) /\ GetSUIDs(1) /\ active' = Graft(active, es, p)
    BY <1>2 DEF CreateComponentSerial
  <2>3. s \in SUID
    <3>1. counter \in SUID
      BY DEF SceneOK
    <3>2. \A k \in 1 .. 1 : NthSUID(k) \in SUID
      BY <2>2, <3>1, NthSUIDs
    <3> QED
      BY <3>2
  <2> HIDE DEF s, p
  <2>4. e \in Entry /\ e.suid = s /\ e.parent = 0
    BY <2>3, SceneConstants DEF Entry
  <2> HIDE DEF e
  <2>5. es \in Seq(Entry) /\ Len(es) = 1 /\ DOMAIN es = {1} /\ es[1] = e
    BY <2>4
  <2> HIDE DEF es
  <2>6. EntriesOK(es) /\ NoneUnnamed(es)
    BY <2>3, <2>4, <2>5, NoSUIDApart DEF EntriesOK, NoneUnnamed
  <2> QED
    BY <1>0, <2>1, <2>2, <2>5, <2>6, GraftNamed
<1>3. CASE cmd.type = "clone" /\ LET i == AtPath(cmd.path)
                                 IN  CloneComponentSubtree(i, Moved[active.node[i].data])
  <2> DEFINE i == AtPath(cmd.path)
             z == Moved[active.node[i].data]
             p == Parent(active, i)
             es == CopyEntries(i, z)
             c == Graft(active, es, p)
  <2>1. i \in Components(active) /\ z \in Data /\ CloneComponentSubtree(i, z)
    BY <1>3, KnownComponents DEF RedoAsserts
  <2> HIDE DEF i, z
  <2>2. /\ EntriesOK(es) /\ TakeIndices(Len(es)) /\ p \in Nodes(active)
        /\ \A k \in DOMAIN es : es[k].suid \in SUID
    BY <2>1, CopyFacts
  <2>3. active'.node = c.node
    BY <2>1, CopyPlaced
  <2> HIDE DEF es
  <2>4. NoneUnnamed(es)
    BY <2>2, NoSUIDApart DEF NoneUnnamed
  <2>5. AllNamed(c)
    BY <1>0, <2>2, <2>4, GraftNamed
  <2> HIDE DEF c
  <2> QED
    BY <2>3, <2>5 DEF AllNamed, Components
<1>4. CASE cmd.type = "delete" /\ DestroyComponentSubtree(BySUID(cmd.suid))
  <2>1. BySUID(cmd.suid) \in Components(active)
    BY <1>4, KnownComponents DEF RedoAsserts
  <2> QED
    BY <1>4, <2>1, PruneNamed
<1> QED
  BY <1>1, <1>2, <1>3, <1>4 DEF RedoEffect

\* What is created again has the identifiers that it had.
LEMMA UndoNamed ==
    ASSUME SceneOK, AllNamed(active), NEW cmd, CommandOK(cmd), CommandNamed(cmd),
           UndoAsserts(cmd), UndoEffect(cmd)
    PROVE  AllNamed(active')
<1>0. ContextOK(active) /\ Components(active) \subseteq Used
  BY DEF SceneOK, Used
<1>1. CASE cmd.type = "set" /\ SetData(cmd.suid, cmd.old)
  <2>1. Known(cmd.suid)
    BY <1>1 DEF UndoAsserts
  <2> QED
    BY <1>1, <2>1, SetNamed
<1>2. CASE cmd.type = "add" /\ DestroyComponentSubtree(BySUID(cmd.suid))
  <2>1. BySUID(cmd.suid) \in Components(active)
    BY <1>2, KnownComponents DEF UndoAsserts
  <2> QED
    BY <1>2, <2>1, PruneNamed
<1>3. CASE cmd.type = "clone" /\ IF cmd.dst \in Components(active)
                                 THEN DestroyComponentSubtree(cmd.dst)
                                 ELSE UNCHANGED sceneVars
  <2>1. CASE cmd.dst \in Components(active)
    BY <1>3, <2>1, PruneNamed
  <2>2. CASE cmd.dst \notin Components(active)
    <3>1. active' = active
      BY <1>3, <2>2 DEF sceneVars
    <3> QED
      BY <3>1 DEF AllNamed
  <2> QED
    BY <2>1, <2>2
<1>4. CASE cmd.type = "delete" /\ CreateComponentSubtree(cmd.subtree,
                                    IF Known(cmd.parent) THEN BySUID(cmd.parent) ELSE Root)
  <2> DEFINE p == IF Known(cmd.parent) THEN BySUID(cmd.parent) ELSE Root
  <2>1. p \in Nodes(active)
    BY KnownComponents DEF Nodes
  <2>2. TakeIndices(Len(cmd.subtree)) /\ active' = Graft(active, cmd.subtree, p)
    BY <1>4 DEF CreateComponentSubtree
  <2>3. EntriesOK(cmd.subtree) /\ NoneUnnamed(cmd.subtree)
    BY <1>4 DEF CommandOK, CommandNamed
  <2> HIDE DEF p
  <2> QED
    BY <1>0, <2>1, <2>2, <2>3, GraftNamed
<1> QED
  BY <1>1, <1>2, <1>3, <1>4 DEF UndoEffect

\* The entries of components that have identifiers.
LEMMA EntriesAllNamed ==
    ASSUME NEW c, Forest(c), AllNamed(c),
           NEW s \in Seq(Components(c)), NoRepeat(s), Onward(c.kids, s)
    PROVE  NoneUnnamed(Entries(c, s))
<1>1. \A k \in DOMAIN s : Entries(c, s)[k].suid = c.node[s[k]].suid
  BY EntriesFacts
<1>2. DOMAIN Entries(c, s) = DOMAIN s /\ \A k \in DOMAIN s : s[k] \in Components(c)
  BY DEF Entries
<1> QED
  BY <1>1, <1>2 DEF AllNamed, NoneUnnamed

\* A context that is made from named entries alone.
LEMMA LoadedNamed ==
    ASSUME SceneOK, NEW es, EntriesOK(es), NoneUnnamed(es), TakeIndices(Len(es)),
           active' = Graft(EmptyContext, es, Root)
    PROVE  AllNamed(active')
<1>1. ContextOK(EmptyContext) /\ Components(EmptyContext) = {} /\ Root \in Nodes(EmptyContext)
  BY EmptyFacts DEF ContextOK, Nodes
<1>2. AllNamed(EmptyContext) /\ Components(EmptyContext) \subseteq Used
  BY <1>1 DEF AllNamed
<1>3. AllNamed(Graft(EmptyContext, es, Root))
  BY <1>1, <1>2, GraftNamed
<1> QED
  BY <1>3

\* The first scene, its file and the empty one have only components with
\* identifiers.
LEMMA NamedInit == ASSUME Init PROVE NamedInv
<1> DEFINE at == [k \in DOMAIN FirstScene |-> k - 1]
           d == Attach(EmptyContext, FirstScene, Root, at)
<1>1. /\ EntriesOK(FirstScene) /\ EntriesApart(FirstScene)
      /\ \A k \in DOMAIN FirstScene : FirstScene[k].suid \in SUID
      /\ Len(FirstScene) \in Nat /\ DOMAIN FirstScene = 1 .. Len(FirstScene)
      /\ at \in Seq(Nat) /\ Len(at) = Len(FirstScene) /\ NoRepeat(at)
      /\ DOMAIN at = 1 .. Len(FirstScene)
  BY FirstEntries
<1> HIDE DEF at
<1>2. NoneUnnamed(FirstScene)
  BY <1>1, NoSUIDApart DEF NoneUnnamed
<1>3. AllNamed(d)
  <2>1. /\ Forest(EmptyContext) /\ Root \in Nodes(EmptyContext)
        /\ Range(at) \cap Components(EmptyContext) = {} /\ Components(EmptyContext) = {}
    BY EmptyFacts DEF Nodes
  <2>2. /\ Forest(EmptyContext) /\ Root \in Nodes(EmptyContext) /\ EntriesOK(FirstScene)
        /\ at \in Seq(Nat) /\ Len(at) = Len(FirstScene) /\ NoRepeat(at)
        /\ Range(at) \cap Components(EmptyContext) = {}
    BY <1>1, <2>1
  <2>3. /\ Components(Attach(EmptyContext, FirstScene, Root, at)) = Range(at) \cup Components(EmptyContext)
        /\ \A k \in DOMAIN FirstScene :
              Attach(EmptyContext, FirstScene, Root, at).node[at[k]].suid = FirstScene[k].suid
    BY <2>2, AttachFacts
  <2>4. /\ Components(d) = Range(at)
        /\ \A k \in DOMAIN FirstScene : d.node[at[k]].suid = FirstScene[k].suid
    BY <2>1, <2>3
  <2> HIDE DEF d
  <2> QED
    BY <1>1, <1>2, <2>4 DEF AllNamed, NoneUnnamed, Range
<1>4. /\ active = d /\ isPlaying = FALSE /\ commands = <<>> /\ files = <<FirstScene, <<>>>>
      /\ excuse = {}
  BY DEF Init, d, at
<1>5. AllNamed(Edited)
  BY <1>3, <1>4 DEF Edited
<1>6. DOMAIN commands = {}
  BY <1>4
<1>7. NoneUnnamed(<<>>) /\ EntriesApart(<<>>)
  BY DEF NoneUnnamed, EntriesApart
<1>8. ASSUME NEW s \in SceneIDs PROVE files[s] = FirstScene \/ files[s] = <<>>
  <2>1. s = 1 \/ s = 2
    BY DEF SceneIDs
  <2> QED
    BY <1>4, <2>1
<1> QED
  BY <1>1, <1>2, <1>5, <1>6, <1>7, <1>8 DEF NamedInv

\* What is excused stays excused, and the files are left alone.
LEMMA NamedStays ==
    ASSUME NamedInv, excuse \subseteq excuse', UNCHANGED files,
           "played" \notin excuse' =>
              AllNamed(Edited') /\ \A k \in DOMAIN commands' : CommandNamed(commands'[k])
    PROVE  NamedInv'
<1>1. \A s \in SceneIDs : files'[s] = files[s]
  OBVIOUS
<1>2. ASSUME "played" \notin excuse'
      PROVE  \A s \in SceneIDs : NoneUnnamed(files[s])
  BY <1>2 DEF NamedInv
<1>3. ASSUME "reissued" \notin excuse' PROVE \A s \in SceneIDs : EntriesApart(files[s])
  BY <1>3 DEF NamedInv
<1> QED
  BY <1>1, <1>2, <1>3 DEF NamedInv

\* Nothing that is left alone loses its identifiers.
LEMMA NamedCrash == ASSUME NamedInv, NEW reasons, Crash(reasons) PROVE NamedInv'
<1>1. UNCHANGED <<active, backup, isPlaying, commands, files>> /\ excuse \subseteq excuse'
  BY DEF Crash, sceneVars, stackVars, fileVars
<1>2. Edited' = Edited
  BY <1>1 DEF Edited
<1>3. ASSUME "played" \notin excuse'
      PROVE  AllNamed(Edited') /\ \A k \in DOMAIN commands' : CommandNamed(commands'[k])
  <2>1. AllNamed(Edited) /\ \A k \in DOMAIN commands : CommandNamed(commands[k])
    BY <1>1, <1>3 DEF NamedInv
  <2> QED
    BY <1>1, <1>2, <2>1
<1> QED
  BY <1>1, <1>3, NamedStays

\* What edits, undo and redo have in common.
LEMMA NamedEdit ==
    ASSUME NamedInv, UNCHANGED <<isPlaying, files>>, Excuses \subseteq excuse',
           AllNamed(active) /\ (\A k \in DOMAIN commands : CommandNamed(commands[k])) =>
              AllNamed(active') /\ \A k \in DOMAIN commands' : CommandNamed(commands'[k])
    PROVE  NamedInv'
<1>1. excuse \subseteq excuse' /\ (isPlaying => "played" \in excuse')
  BY DEF Excuses, Excuse
<1>2. ASSUME "played" \notin excuse'
      PROVE  AllNamed(Edited') /\ \A k \in DOMAIN commands' : CommandNamed(commands'[k])
  <2>1. ~isPlaying /\ Edited = active /\ Edited' = active'
    BY <1>1, <1>2 DEF Edited
  <2>2. AllNamed(Edited) /\ \A k \in DOMAIN commands : CommandNamed(commands[k])
    BY <1>1, <1>2 DEF NamedInv
  <2> QED
    BY <2>1, <2>2
<1> QED
  BY <1>1, <1>2, NamedStays

\* What undo and redo write keeps the names.
LEMMA NamedWritten ==
    ASSUME NEW cmd, CommandOK(cmd), CommandNamed(cmd)
    PROVE  CommandNamed(Redone(cmd)) /\ CommandNamed(Undone(cmd))
<1>1. CASE cmd.type = "add"
  <2>1. Redone(cmd) = [cmd EXCEPT !.suid = NthSUID(1)] /\ Undone(cmd) = [cmd EXCEPT !.suid = NoSUID]
    BY <1>1 DEF Redone, Undone
  <2>2. Redone(cmd).type = "add" /\ Undone(cmd).type = "add"
    BY <1>1, <2>1 DEF CommandOK
  <2> QED
    BY <2>2 DEF CommandNamed
<1>2. CASE cmd.type = "clone"
  <2>1. /\ Redone(cmd) = [cmd EXCEPT !.dst = NthIndex(1), !.made = NthSUID(1)]
        /\ Undone(cmd) = [cmd EXCEPT !.dst = None, !.made = NoSUID]
    BY <1>2 DEF Redone, Undone
  <2>2. Redone(cmd).type = "clone" /\ Undone(cmd).type = "clone"
    BY <1>2, <2>1 DEF CommandOK
  <2> QED
    BY <2>2 DEF CommandNamed
<1>3. CASE cmd.type \notin {"add", "clone"}
  BY <1>3 DEF Redone, Undone
<1> QED
  BY <1>1, <1>2, <1>3

\* A new command.
LEMMA NamedExecute ==
    ASSUME EditorInv, NamedInv, NEW cmd, CommandOK(cmd), AllNamed(active) => CommandNamed(cmd),
           Execute(cmd)
    PROVE  NamedInv'
<1>1. CASE ~RedoAsserts(cmd)
  BY <1>1, NamedCrash DEF Execute
<1>2. CASE RedoAsserts(cmd)
  <2>1. /\ RedoEffect(cmd) /\ UNCHANGED <<isPlaying, files>>
        /\ commands' = Append(SubSeq(commands, 1, index), Redone(cmd)) /\ index' = index + 1
        /\ Excuses \subseteq excuse'
    BY <1>2 DEF Execute, fileVars
  <2>2. \A k \in DOMAIN commands' : \/ commands'[k] = Redone(cmd)
                                    \/ \E j \in DOMAIN commands : commands'[k] = commands[j]
    BY <2>1, KeptCommands, PushCommand DEF EditorInv
  <2>3. ASSUME AllNamed(active), \A k \in DOMAIN commands : CommandNamed(commands[k])
        PROVE  AllNamed(active') /\ \A k \in DOMAIN commands' : CommandNamed(commands'[k])
    <3>1. AllNamed(active')
      BY <1>2, <2>1, <2>3, RedoNamed DEF EditorInv
    <3>2. CommandNamed(Redone(cmd))
      BY <2>3, NamedWritten
    <3> QED
      BY <2>2, <2>3, <3>1, <3>2
  <2> QED
    BY <2>1, <2>3, NamedEdit
<1> QED
  BY <1>1, <1>2

\* An edit is one of the commands on components that are there.
LEMMA EditExecutes == ASSUME Edit PROVE \E cmd : EditCommand(cmd) /\ Execute(cmd)
<1>1. CASE \E s \in DOMAIN active.suids : \E d \in Data \ {active.node[BySUID(s)].data} :
              Execute(SetCommand(s, d))
  <2>1. PICK s \in DOMAIN active.suids : \E d \in Data \ {active.node[BySUID(s)].data} :
           Execute(SetCommand(s, d))
    BY <1>1
  <2>2. PICK d \in Data \ {active.node[BySUID(s)].data} : Execute(SetCommand(s, d))
    BY <2>1
  <2> DEFINE cmd == SetCommand(s, d)
  <2>3. EditCommand(cmd)
    BY DEF EditCommand
  <2> HIDE DEF cmd
  <2> QED
    BY <2>2, <2>3 DEF cmd
<1>2. CASE \E s \in DOMAIN active.suids : Execute(CloneCommand(s))
  <2>1. PICK s \in DOMAIN active.suids : Execute(CloneCommand(s))
    BY <1>2
  <2> DEFINE cmd == CloneCommand(s)
  <2>2. EditCommand(cmd)
    BY DEF EditCommand
  <2> HIDE DEF cmd
  <2> QED
    BY <2>1, <2>2 DEF cmd
<1>3. CASE \E s \in DOMAIN active.suids : Execute(DeleteCommand(s))
  <2>1. PICK s \in DOMAIN active.suids : Execute(DeleteCommand(s))
    BY <1>3
  <2> DEFINE cmd == DeleteCommand(s)
  <2>2. EditCommand(cmd)
    BY DEF EditCommand
  <2> HIDE DEF cmd
  <2> QED
    BY <2>1, <2>2 DEF cmd
<1>4. CASE \E s \in DOMAIN active.suids \cup {NoSUID} : Execute(AddCommand(s))
  <2>1. PICK s \in DOMAIN active.suids \cup {NoSUID} : Execute(AddCommand(s))
    BY <1>4
  <2> DEFINE cmd == AddCommand(s)
  <2>2. EditCommand(cmd)
    BY DEF EditCommand
  <2> HIDE DEF cmd
  <2> QED
    BY <2>1, <2>2 DEF cmd
<1> QED
  BY <1>1, <1>2, <1>3, <1>4 DEF Edit

\* Such a command has what its undo takes from it.
LEMMA EditCommandOK ==
    ASSUME SceneOK, NEW cmd, EditCommand(cmd)
    PROVE  /\ CommandOK(cmd)
           /\ AllNamed(active) => CommandNamed(cmd)
           /\ Found(active) => CommandApart(cmd)
<1>0. Forest(active) /\ Live(active)
  BY DEF SceneOK, ContextOK
<1>1. \A s \in DOMAIN active.suids : /\ BySUID(s) \in Components(active)
                                     /\ active.node[BySUID(s)].data \in Data
  BY KnownComponents DEF Known
<1>2. ASSUME NEW s \in DOMAIN active.suids, NEW d \in Data, cmd = SetCommand(s, d)
      PROVE  CommandOK(cmd) /\ CommandNamed(cmd) /\ CommandApart(cmd)
  <2>1. /\ cmd.type = "set" /\ cmd.new = d /\ "type" \in DOMAIN cmd
        /\ cmd.old = active.node[BySUID(s)].data
    BY <1>2 DEF SetCommand
  <2> QED
    BY <1>1, <2>1 DEF CommandOK, CommandNamed, CommandApart
<1>3. ASSUME NEW s, cmd = CloneCommand(s) \/ cmd = AddCommand(s)
      PROVE  CommandOK(cmd) /\ CommandNamed(cmd) /\ CommandApart(cmd)
  <2>1. cmd.type \in {"clone", "add"} /\ "type" \in DOMAIN cmd
    BY <1>3 DEF CloneCommand, AddCommand
  <2> QED
    BY <2>1 DEF CommandOK, CommandNamed, CommandApart
<1>4. ASSUME NEW s \in DOMAIN active.suids, cmd = DeleteCommand(s)
      PROVE  /\ CommandOK(cmd)
             /\ AllNamed(active) => CommandNamed(cmd)
             /\ Found(active) => CommandApart(cmd)
  <2> DEFINE t == PreOrder(active, BySUID(s))
             es == Entries(active, t)
  <2>1. t \in Seq(Components(active)) /\ NoRepeat(t) /\ Onward(active.kids, t)
    BY <1>0, <1>1, PreOrderFacts
  <2>2. cmd.type = "delete" /\ "type" \in DOMAIN cmd /\ cmd.subtree = es
    BY <1>4 DEF DeleteCommand
  <2> HIDE DEF t
  <2>3. /\ EntriesOK(es) /\ (Found(active) => EntriesApart(es))
        /\ AllNamed(active) => NoneUnnamed(es)
    BY <1>0, <2>1, EntriesFacts, EntriesAllNamed, FoundApart
  <2> HIDE DEF es
  <2> QED
    BY <2>2, <2>3 DEF CommandOK, CommandNamed, CommandApart
<1> QED
  BY <1>2, <1>3, <1>4 DEF EditCommand

\* The command at j is replaced by what undo or redo leave of it.
LEMMA NamedReplaced ==
    ASSUME CommandsOK, NEW j \in DOMAIN commands, NEW x, CommandOK(x), CommandNamed(x),
           commands' = [commands EXCEPT ![j] = x], index' \in 0 .. Len(commands),
           \A k \in DOMAIN commands : CommandNamed(commands[k])
    PROVE  \A k \in DOMAIN commands' : CommandNamed(commands'[k])
<1>1. /\ DOMAIN commands' = DOMAIN commands
      /\ \A k \in DOMAIN commands : commands'[k] = IF k = j THEN x ELSE commands[k]
  BY ReplaceCommand
<1>2. ASSUME NEW k \in DOMAIN commands PROVE CommandNamed(commands'[k])
  <2>1. CASE k = j
    BY <1>1, <2>1
  <2>2. CASE k # j
    <3>1. commands'[k] = commands[k]
      BY <1>1, <2>2
    <3> QED
      BY <3>1
  <2> QED
    BY <2>1, <2>2
<1> QED
  BY <1>1, <1>2

\* The last command is undone.
LEMMA NamedUndo == ASSUME EditorInv, NamedInv, Undo PROVE NamedInv'
<1> DEFINE cmd == commands[index]
<1>0. SceneOK /\ CommandsOK /\ index > 0
  BY DEF EditorInv, Undo
<1>1. index \in DOMAIN commands /\ index - 1 \in 0 .. Len(commands)
  BY <1>0, OnStack
<1>2. CommandOK(cmd)
  BY <1>1 DEF EditorInv, CommandsOK
<1>3. CASE ~UndoAsserts(cmd)
  BY <1>3, NamedCrash DEF Undo
<1>4. CASE UndoAsserts(cmd)
  <2>1. /\ UndoEffect(cmd) /\ UNCHANGED <<isPlaying, files>>
        /\ commands' = [commands EXCEPT ![index] = Undone(cmd)] /\ index' = index - 1
        /\ Excuses \subseteq excuse'
    BY <1>4 DEF Undo, fileVars
  <2>2. ASSUME AllNamed(active), \A k \in DOMAIN commands : CommandNamed(commands[k])
        PROVE  AllNamed(active') /\ \A k \in DOMAIN commands' : CommandNamed(commands'[k])
    <3>1. CommandNamed(cmd)
      BY <1>1, <2>2
    <3> HIDE DEF cmd
    <3>2. AllNamed(active')
      BY <1>0, <1>2, <1>4, <2>1, <2>2, <3>1, UndoNamed
    <3>3. CommandNamed(Undone(cmd)) /\ CommandOK(Undone(cmd))
      BY <1>2, <3>1, NamedWritten, KeptCommands
    <3> QED
      BY <1>0, <1>1, <2>1, <2>2, <3>2, <3>3, NamedReplaced
  <2> QED
    BY <2>1, <2>2, NamedEdit
<1> QED
  BY <1>3, <1>4

\* The next command is done again.
LEMMA NamedRedo == ASSUME EditorInv, NamedInv, Redo PROVE NamedInv'
<1> DEFINE cmd == commands[index + 1]
<1>0. SceneOK /\ CommandsOK /\ index < Len(commands)
  BY DEF EditorInv, Redo
<1>1. index + 1 \in DOMAIN commands /\ index + 1 \in 0 .. Len(commands)
  BY <1>0, OnStack
<1>2. CommandOK(cmd)
  BY <1>1 DEF EditorInv, CommandsOK
<1>3. CASE ~RedoAsserts(cmd)
  BY <1>3, NamedCrash DEF Redo
<1>4. CASE RedoAsserts(cmd)
  <2>1. /\ RedoEffect(cmd) /\ UNCHANGED <<isPlaying, files>>
        /\ commands' = [commands EXCEPT ![index + 1] = Redone(cmd)] /\ index' = index + 1
        /\ Excuses \subseteq excuse'
    BY <1>4 DEF Redo, fileVars
  <2>2. ASSUME AllNamed(active), \A k \in DOMAIN commands : CommandNamed(commands[k])
        PROVE  AllNamed(active') /\ \A k \in DOMAIN commands' : CommandNamed(commands'[k])
    <3>1. CommandNamed(cmd)
      BY <1>1, <2>2
    <3> HIDE DEF cmd
    <3>2. AllNamed(active')
      BY <1>0, <1>4, <2>1, <2>2, RedoNamed
    <3>3. CommandNamed(Redone(cmd)) /\ CommandOK(Redone(cmd))
      BY <1>2, <3>1, NamedWritten, KeptCommands
    <3> QED
      BY <1>0, <1>1, <2>1, <2>2, <3>2, <3>3, NamedReplaced
  <2> QED
    BY <2>1, <2>2, NamedEdit
<1> QED
  BY <1>3, <1>4

\* The scene is written to disk.
LEMMA NamedSave == ASSUME EditorInv, NamedInv, Save PROVE NamedInv'
<1> DEFINE es == Entries(active, All(active))
<1>1. /\ UNCHANGED <<active, backup, isPlaying, commands>>
      /\ files' = [files EXCEPT ![activeSceneID] = es]
      /\ excuse \subseteq excuse' /\ (isPlaying => "played" \in excuse')
  BY DEF Save, sceneVars, Excuse
<1>2. DOMAIN files = SceneIDs
  BY DEF EditorInv, FilesOK
<1>3. Found(active) => EntriesApart(es)
  BY ActiveEntries DEF EditorInv
<1>4. AllNamed(active) => NoneUnnamed(es)
  <2>1. Forest(active)
    BY DEF EditorInv, SceneOK, ContextOK
  <2>2. All(active) \in Seq(Components(active)) /\ NoRepeat(All(active)) /\ Onward(active.kids, All(active))
    BY <2>1, AllFacts
  <2> QED
    BY <2>1, <2>2, EntriesAllNamed
<1> HIDE DEF es
<1>5. \A s \in SceneIDs : files'[s] = es \/ files'[s] = files[s]
  BY <1>1, <1>2
<1>6. ASSUME "played" \notin excuse'
      PROVE  /\ AllNamed(Edited') /\ \A k \in DOMAIN commands' : CommandNamed(commands'[k])
             /\ \A s \in SceneIDs : NoneUnnamed(files'[s])
  <2>1. /\ AllNamed(Edited) /\ \A k \in DOMAIN commands : CommandNamed(commands[k])
        /\ \A s \in SceneIDs : NoneUnnamed(files[s])
    BY <1>1, <1>6 DEF NamedInv
  <2>2. Edited = active /\ Edited' = active
    BY <1>1, <1>6 DEF Edited
  <2> QED
    BY <1>1, <1>4, <1>5, <2>1, <2>2
<1>7. ASSUME "reissued" \notin excuse' PROVE \A s \in SceneIDs : EntriesApart(files'[s])
  <2>1. Found(active) /\ \A s \in SceneIDs : EntriesApart(files[s])
    BY <1>1, <1>7 DEF EditorInv, AllFound, NamedInv
  <2> QED
    BY <1>3, <1>5, <2>1
<1> QED
  BY <1>6, <1>7 DEF NamedInv

\* Another scene takes the place of the active one.
LEMMA NamedLoad ==
    ASSUME EditorInv, NamedInv, NEW s, NEW es, EntriesOK(es), NoneUnnamed(es), EntriesApart(es),
           ResetAsserts, LoadScene(s, es), excuse' = ExcuseOfLoad,
           \A t \in SceneIDs : files'[t] = es \/ files'[t] = files[t]
    PROVE  NamedInv'
<1>1. /\ Reload(es) /\ commands' = <<>> /\ UNCHANGED isPlaying
  BY DEF LoadScene
<1>2. /\ "reissued" \in excuse => "reissued" \in excuse'
      /\ "played" \in excuse => "played" \in excuse'
  BY DEF ExcuseOfLoad
<1>3. AllNamed(active')
  BY <1>1, LoadedNamed DEF Reload, EditorInv
<1>4. DOMAIN commands' = {}
  BY <1>1
<1>5. ASSUME "played" \notin excuse'
      PROVE  AllNamed(Edited') /\ \A t \in SceneIDs : NoneUnnamed(files'[t])
  <2>1. \A t \in SceneIDs : NoneUnnamed(files[t])
    BY <1>2, <1>5 DEF NamedInv
  <2>2. \A t \in SceneIDs : NoneUnnamed(files'[t])
    BY <2>1
  <2>3. Edited' = active'
    BY <1>1 DEF Edited, Reload, ResetAsserts
  <2> QED
    BY <1>3, <2>2, <2>3
<1>6. ASSUME "reissued" \notin excuse' PROVE \A t \in SceneIDs : EntriesApart(files'[t])
  <2>1. \A t \in SceneIDs : EntriesApart(files[t])
    BY <1>2, <1>6 DEF NamedInv
  <2> QED
    BY <2>1
<1> QED
  BY <1>4, <1>5, <1>6 DEF NamedInv

\* A scene is opened from disk, or the open one again.
LEMMA NamedOpenScene == ASSUME EditorInv, NamedInv, NEW s \in SceneIDs, OpenScene(s) PROVE NamedInv'
<1>1. CASE s = activeSceneID
  <2>1. commands' = <<>> /\ UNCHANGED <<active, backup, isPlaying, files, excuse>>
    BY <1>1 DEF OpenScene, sceneVars, fileVars
  <2>2. DOMAIN commands' = {} /\ Edited' = Edited
    BY <2>1 DEF Edited
  <2>3. ASSUME "played" \notin excuse'
        PROVE  AllNamed(Edited') /\ \A k \in DOMAIN commands' : CommandNamed(commands'[k])
    <3>1. AllNamed(Edited)
      BY <2>1, <2>3 DEF NamedInv
    <3> QED
      BY <2>2, <3>1
  <2> QED
    BY <2>1, <2>3, NamedStays
<1>2. CASE s # activeSceneID /\ (~ResetAsserts \/ ~Loadable(files[s]))
  BY <1>2, NamedCrash DEF OpenScene
<1>3. CASE s # activeSceneID /\ ResetAsserts /\ Loadable(files[s])
  <2>1. LoadScene(s, files[s]) /\ excuse' = ExcuseOfLoad /\ files' = files
    BY <1>3 DEF OpenScene
  <2>2. EntriesOK(files[s]) /\ NoneUnnamed(files[s]) /\ EntriesApart(files[s])
    BY <1>3 DEF EditorInv, FilesOK, Loadable, NoneUnnamed, EntriesApart
  <2>3. \A t \in SceneIDs : files'[t] = files[s] \/ files'[t] = files[t]
    BY <2>1
  <2> QED
    BY <1>3, <2>1, <2>2, <2>3, NamedLoad
<1> QED
  BY <1>1, <1>2, <1>3

\* An empty scene is created and opened.
LEMMA NamedCreateScene == ASSUME EditorInv, NamedInv, CreateScene PROVE NamedInv'
<1> SUFFICES ASSUME ResetAsserts PROVE NamedInv'
  BY NamedCrash DEF CreateScene
<1> DEFINE es == <<>>
<1>1. LoadScene(2, es) /\ files' = [files EXCEPT ![2] = es] /\ excuse' = ExcuseOfLoad
  BY DEF CreateScene
<1>2. EntriesOK(es) /\ EntriesApart(es) /\ NoneUnnamed(es)
  BY DEF EntriesOK, EntriesApart, NoneUnnamed
<1>3. DOMAIN files = SceneIDs
  BY DEF EditorInv, FilesOK
<1> HIDE DEF es
<1>4. \A t \in SceneIDs : files'[t] = es \/ files'[t] = files[t]
  BY <1>1, <1>3
<1> QED
  BY <1>1, <1>2, <1>4, NamedLoad

\* What is edited is not touched by play, by its end and by scripts.
LEMMA EditedKept ==
    ASSUME EditorInv, "played" \notin excuse,
           PlayScene \/ StopScene \/ ScriptStep
    PROVE  Edited' = Edited
<1>0. SceneOK /\ PlayOK /\ AllRegistered
  BY DEF EditorInv
<1>1. CASE PlayScene
  <2>1. ~isPlaying
    BY <1>1 DEF PlayScene
  <2>2. CASE PlayStarts /\ isPlaying' = TRUE
    <3>1. backup' = active /\ backup' # NoContext
      BY <1>0, <2>2, PlayStep
    <3> QED
      BY <2>1, <2>2, <3>1 DEF Edited
  <2>3. CASE PlayFails /\ UNCHANGED isPlaying
    <3>1. active' = active
      BY <1>0, <2>3, PlayFailsStep
    <3> QED
      BY <2>1, <2>3, <3>1 DEF Edited
  <2> QED
    BY <1>1, <2>2, <2>3 DEF PlayScene
<1>2. CASE StopScene
  <2>1. isPlaying /\ isPlaying' = FALSE
    BY <1>2 DEF StopScene
  <2>2. Running /\ backup # NoContext
    BY <1>0, <2>1 DEF AllRegistered, PlayOK
  <2>3. active' = backup
    BY <1>2, <2>2 DEF StopScene, Cleanup
  <2> QED
    BY <2>1, <2>2, <2>3 DEF Edited
<1>3. CASE ScriptStep
  <2>1. Running /\ isPlaying' = isPlaying
    BY <1>3 DEF ScriptStep
  <2>2. isPlaying /\ backup # NoContext
    BY <1>0, <2>1 DEF PlayOK
  <2>3. ScriptKeeps
    BY <1>0, <1>3, CreateChildStep, DestroyAtRuntimeStep, TransitionStep DEF ScriptStep
  <2>4. backup' = backup
    BY <2>3 DEF ScriptKeeps
  <2> QED
    BY <2>1, <2>2, <2>4 DEF Edited
<1> QED
  BY <1>1, <1>2, <1>3

\* So play makes no component without an identifier that is edited or saved.
LEMMA NamedPlay ==
    ASSUME EditorInv, NamedInv, PlayScene \/ StopScene \/ ScriptStep PROVE NamedInv'
<1>1. UNCHANGED <<commands, files, excuse>>
  BY DEF PlayScene, StopScene, ScriptStep, UnchangedByPlay, stackVars, fileVars
<1>2. ASSUME "played" \notin excuse'
      PROVE  AllNamed(Edited') /\ \A k \in DOMAIN commands' : CommandNamed(commands'[k])
  <2>1. Edited' = Edited
    BY <1>1, <1>2, EditedKept
  <2>2. AllNamed(Edited) /\ \A k \in DOMAIN commands : CommandNamed(commands[k])
    BY <1>1, <1>2 DEF NamedInv
  <2> QED
    BY <1>1, <2>1, <2>2
<1> QED
  BY <1>1, <1>2, NamedStays

\* Every step keeps the names.
LEMMA NamedNext == ASSUME EditorInv, NamedInv, [Next]_vars PROVE NamedInv'
<1>1. CASE UNCHANGED vars
  <2>1. UNCHANGED <<active, backup, isPlaying, commands, files, excuse>>
    BY <1>1 DEF vars, sceneVars, stackVars, fileVars
  <2>2. Edited' = Edited
    BY <2>1 DEF Edited
  <2> QED
    BY <2>1, <2>2 DEF NamedInv
<1>2. CASE Edit
  <2>1. PICK cmd : EditCommand(cmd) /\ Execute(cmd)
    BY <1>2, EditExecutes
  <2>2. CommandOK(cmd) /\ (AllNamed(active) => CommandNamed(cmd))
    BY <2>1, EditCommandOK DEF EditorInv
  <2> QED
    BY <2>1, <2>2, NamedExecute
<1> QED
  BY <1>1, <1>2, NamedUndo, NamedRedo, NamedSave, NamedOpenScene, NamedCreateScene, NamedPlay
     DEF Next

\* The files can be opened from a scene that does not play.
LEMMA FilesLoadable ==
    ASSUME EditorInv, NamedInv, excuse = {}, ~isPlaying, NEW s \in SceneIDs
    PROVE  Loadable(files[s])
<1>1. NoneUnnamed(files[s]) /\ EntriesApart(files[s])
  BY DEF NamedInv
<1>2. Unload = {}
  BY DEF EditorInv, AllRegistered, Unload, ContextSUIDs
<1> QED
  BY <1>1, <1>2 DEF Loadable, NoneUnnamed, EntriesApart

-----------------------------------------------------------------------------
(* The history that the editor implements                                  *)

\* What EditHistory calls its versions, size, saved and excused.
HistoryVersions == [k \in 0 .. Len(commands) |-> versions[k + 1]]
HistorySize == Len(commands)
HistorySaved == Document(files[activeSceneID])
HistoryExcused == excuse # {} \/ crashed

\* The mark compares with a version that is on the stack, and it is the saved
\* one.
HistoryInv ==
    ~HistoryExcused =>
        /\ HistorySize \in Nat
        /\ index \in 0 .. HistorySize
        /\ Now = HistoryVersions[index]
        /\ ~unsound => /\ lastSavedEditIndex \in 0 .. HistorySize
                       /\ HistorySaved = HistoryVersions[lastSavedEditIndex]

\* The history begins empty.
LEMMA HistoryInvInit == History!Init => HistoryInv
  BY DEF History!Init, HistoryInv, HistoryVersions, HistorySize, HistorySaved, HistoryExcused

\* Every step of the history keeps the invariant.
LEMMA HistoryInvNext == HistoryInv /\ [History!Next]_(History!vars) => HistoryInv'
<1> SUFFICES ASSUME HistoryInv, [History!Next]_(History!vars), ~HistoryExcused'
             PROVE  /\ HistorySize' \in Nat
                    /\ index' \in 0 .. HistorySize'
                    /\ Now' = HistoryVersions'[index']
                    /\ ~unsound' => /\ lastSavedEditIndex' \in 0 .. HistorySize'
                                    /\ HistorySaved' = HistoryVersions'[lastSavedEditIndex']
  BY DEF HistoryInv
<1>1. CASE History!Open
  <2>1. HistorySize' = 0 /\ index' = 0 /\ HistoryVersions'[0] = Now' /\ HistorySaved' = Now'
    BY <1>1 DEF History!Open, History!Restart, HistorySize, HistoryVersions, HistorySaved
  <2>2. ~unsound' => lastSavedEditIndex' = 0
    BY <1>1 DEF History!Open
  <2> QED
    BY <2>1, <2>2
<1>2. CASE ~HistoryExcused /\ History!Execute
  <2>1. HistorySize \in Nat /\ index \in 0 .. HistorySize
    BY <1>2 DEF HistoryInv
  <2>2. /\ index' = index + 1 /\ HistorySize' = index + 1
        /\ HistoryVersions' = [k \in 0 .. index + 1 |-> IF k <= index THEN HistoryVersions[k] ELSE Now']
    BY <1>2 DEF History!Execute, HistorySize, HistoryVersions
  <2>3. /\ \A k \in 0 .. index : HistoryVersions'[k] = HistoryVersions[k]
        /\ HistoryVersions'[index + 1] = Now'
    BY <2>1, <2>2
  <2>4. ~unsound' => ~unsound /\ ~(lastSavedEditIndex > index)
    BY <1>2 DEF History!Execute
  <2>5. lastSavedEditIndex' = lastSavedEditIndex /\ HistorySaved' = HistorySaved
    BY <1>2 DEF History!Execute, History!disk, HistorySaved
  <2>6. ~unsound => /\ lastSavedEditIndex \in 0 .. HistorySize
                    /\ HistorySaved = HistoryVersions[lastSavedEditIndex]
    BY <1>2 DEF HistoryInv
  <2> QED
    BY <2>1, <2>2, <2>3, <2>4, <2>5, <2>6
<1>3. CASE ~HistoryExcused /\ History!Undo
  BY <1>3 DEF HistoryInv, History!Undo, History!stack, History!disk,
              HistoryVersions, HistorySize, HistorySaved
<1>4. CASE ~HistoryExcused /\ History!Redo
  BY <1>4 DEF HistoryInv, History!Redo, History!stack, History!disk,
              HistoryVersions, HistorySize, HistorySaved
<1>5. CASE ~HistoryExcused /\ History!Save
  BY <1>5 DEF HistoryInv, History!Save, History!stack,
              HistoryVersions, HistorySize, HistorySaved
<1>6. CASE ~HistoryExcused /\ History!Reopen
  BY <1>6 DEF History!Reopen, History!Restart, HistoryVersions, HistorySize, HistorySaved
<1>7. CASE UNCHANGED History!vars
  BY <1>7 DEF HistoryInv, History!vars, History!stack, History!disk,
              HistoryVersions, HistorySize, HistorySaved, HistoryExcused
<1> QED
  BY <1>1, <1>2, <1>3, <1>4, <1>5, <1>6, <1>7 DEF History!Next, HistoryExcused

-----------------------------------------------------------------------------
(* The editor implements the history                                       *)

\* The scenes before and after the commands have the shapes hs, the versions
\* are their documents, and each command takes one to the next.
ShapesOK(hs) ==
    /\ \E S : versions \in Seq(S)
    /\ Len(versions) = Len(commands) + 1
    /\ \A k \in 0 .. Len(commands) : WellFormed(hs[k]) /\ Pictures(versions[k + 1], hs[k])
    /\ ContextShape(Edited, hs[index])
    /\ \A k \in DOMAIN commands :
          /\ Fields(commands[k]) /\ Relates(commands[k], hs[k - 1], hs[k])
          /\ k <= index => Names(commands[k], hs[k - 1], hs[k])

ShapedInv == ~HistoryExcused => \E hs : ShapesOK(hs)

\* What is not excused does not play when it is edited.
LEMMA Unexcused ==
    ASSUME EditorInv, ShapedInv, ~HistoryExcused, ~isPlaying
    PROVE  /\ Sound(active) /\ ~Running /\ Edited = active
           /\ registered \subseteq ContextSUIDs(active)
           /\ \E hs : ShapesOK(hs)
<1>1. excuse = {} /\ ~crashed /\ isPlaying = FALSE
  BY DEF HistoryExcused, EditorInv, PlayOK
<1>2. Sound(active)
  BY <1>1 DEF EditorInv, SceneOK, AllFound, Sound
<1>3. ~Running /\ Edited = active
  BY <1>1 DEF EditorInv, PlayOK, Edited
<1>4. registered \subseteq ContextSUIDs(active)
  BY <1>1 DEF EditorInv, AllRegistered
<1> QED
  BY <1>2, <1>3, <1>4 DEF ShapedInv

\* A step that is not excused.
LEMMA StaysUnexcused ==
    ASSUME ~HistoryExcused', Excuses \subseteq excuse', crashed' = crashed
    PROVE  ~HistoryExcused /\ ~isPlaying /\ ~Reissued
<1>1. excuse' = {} /\ ~crashed'
  BY DEF HistoryExcused
<1> QED
  BY <1>1 DEF HistoryExcused, Excuses, Excuse

\* An exact map after the step.
LEMMA SoundAfter ==
    ASSUME EditorInv', ~HistoryExcused' PROVE Sound(active')
<1>1. excuse' = {}
  BY DEF HistoryExcused
<1> QED
  BY <1>1 DEF EditorInv, SceneOK, AllFound, Sound

\* The stack after a new command.
LEMMA Pushed ==
    ASSUME CommandsOK, NEW S, versions \in Seq(S), Len(versions) = Len(commands) + 1, NEW d, NEW x,
           commands' = Append(SubSeq(commands, 1, index), x),
           versions' = Append(SubSeq(versions, 1, index + 1), d)
    PROVE  /\ index \in Nat /\ Len(commands') = index + 1 /\ DOMAIN commands' = 1 .. index + 1
           /\ \A k \in 1 .. index : k \in DOMAIN commands /\ commands'[k] = commands[k]
           /\ commands'[index + 1] = x
           /\ versions' \in Seq(S \cup {d}) /\ Len(versions') = index + 2
           /\ \A k \in 0 .. index : k \in 0 .. Len(commands) /\ versions'[k + 1] = versions[k + 1]
           /\ versions'[index + 2] = d
<1>1. PICK T : commands \in Seq(T)
  BY DEF CommandsOK
<1>2. Len(commands) \in Nat /\ index \in 0 .. Len(commands) /\ DOMAIN commands = 1 .. Len(commands)
  BY <1>1 DEF CommandsOK
<1> DEFINE u == SubSeq(commands, 1, index)
           v == SubSeq(versions, 1, index + 1)
<1>3. u \in Seq(T) /\ Len(u) = index /\ \A k \in 1 .. index : u[k] = commands[k]
  BY <1>1, <1>2
<1>4. v \in Seq(S) /\ Len(v) = index + 1 /\ \A k \in 1 .. index + 1 : v[k] = versions[k]
  BY <1>2
<1> HIDE DEF u, v
<1>5. commands' = Append(u, x) /\ versions' = Append(v, d)
  BY DEF u, v
<1>6. /\ Len(commands') = index + 1 /\ DOMAIN commands' = 1 .. index + 1
      /\ \A k \in 1 .. index : commands'[k] = u[k]
      /\ commands'[index + 1] = x
  BY <1>2, <1>3, <1>5
<1>7. v \in Seq(S \cup {d})
  BY <1>4
<1>8. /\ versions' \in Seq(S \cup {d}) /\ Len(versions') = index + 2
      /\ \A k \in 1 .. index + 1 : versions'[k] = v[k]
      /\ versions'[index + 2] = d
  BY <1>2, <1>4, <1>5, <1>7
<1>9. \A k \in 0 .. index : k + 1 \in 1 .. index + 1 /\ k \in 0 .. Len(commands)
  BY <1>2
<1> QED
  BY <1>2, <1>3, <1>4, <1>6, <1>8, <1>9

\* The shapes after a new command.
LEMMA PushedShapes ==
    ASSUME CommandsOK, NEW hs, ShapesOK(hs), NEW x, NEW g,
           Fields(x), Names(x, hs[index], g), Relates(x, hs[index], g),
           Sound(active'), ContextShape(active', g), Edited' = active',
           commands' = Append(SubSeq(commands, 1, index), x), index' = index + 1,
           versions' = Append(SubSeq(versions, 1, index + 1), DocumentOf(active'))
    PROVE  \E ks : ShapesOK(ks)'
<1>1. PICK S : versions \in Seq(S)
  BY DEF ShapesOK
<1>2. Len(versions) = Len(commands) + 1
  BY DEF ShapesOK
<1>3. /\ index \in Nat /\ Len(commands') = index + 1 /\ DOMAIN commands' = 1 .. index + 1
      /\ \A k \in 1 .. index : k \in DOMAIN commands /\ commands'[k] = commands[k]
      /\ commands'[index + 1] = x
      /\ versions' \in Seq(S \cup {DocumentOf(active')}) /\ Len(versions') = index + 2
      /\ \A k \in 0 .. index : k \in 0 .. Len(commands) /\ versions'[k + 1] = versions[k + 1]
      /\ versions'[index + 2] = DocumentOf(active')
  BY <1>1, <1>2, Pushed
<1>4. PICK ks : (\A k \in 0 .. index : ks[k] = hs[k]) /\ ks[index + 1] = g
  <2> DEFINE f == [k \in 0 .. index + 1 |-> IF k = index + 1 THEN g ELSE hs[k]]
  <2>1. (\A k \in 0 .. index : f[k] = hs[k]) /\ f[index + 1] = g
    BY <1>3
  <2> QED
    BY <2>1
<1>5. WellFormed(g) /\ Pictures(DocumentOf(active'), g)
  BY ShapeFacts, ContextPictured
<1>6. ASSUME NEW k \in 0 .. index + 1 PROVE WellFormed(ks[k]) /\ Pictures(versions'[k + 1], ks[k])
  <2>1. CASE k = index + 1
    <3>1. k + 1 = index + 2
      BY <1>3, <2>1
    <3> QED
      BY <1>3, <1>4, <1>5, <2>1, <3>1
  <2>2. CASE k # index + 1
    <3>1. k \in 0 .. index
      BY <1>3, <2>2
    <3>2. WellFormed(hs[k]) /\ Pictures(versions[k + 1], hs[k])
      BY <1>3, <3>1 DEF ShapesOK
    <3> QED
      BY <1>3, <1>4, <3>1, <3>2
  <2> QED
    BY <2>1, <2>2
<1>7. ASSUME NEW k \in 1 .. index + 1
      PROVE  /\ Fields(commands'[k]) /\ Relates(commands'[k], ks[k - 1], ks[k])
             /\ Names(commands'[k], ks[k - 1], ks[k])
  <2>1. CASE k = index + 1
    <3>1. commands'[k] = x /\ ks[k] = g /\ k - 1 = index /\ ks[index] = hs[index]
      BY <1>3, <1>4, <2>1
    <3> QED
      BY <3>1
  <2>2. CASE k # index + 1
    <3>1. k \in 1 .. index /\ k - 1 \in 0 .. index /\ k \in 0 .. index
      BY <1>3, <2>2
    <3>2. k \in DOMAIN commands /\ commands'[k] = commands[k] /\ ks[k - 1] = hs[k - 1] /\ ks[k] = hs[k]
      BY <1>3, <1>4, <3>1
    <3>3. k <= index
      BY <3>1
    <3>4. /\ Fields(commands[k]) /\ Relates(commands[k], hs[k - 1], hs[k])
          /\ Names(commands[k], hs[k - 1], hs[k])
      BY <3>2, <3>3 DEF ShapesOK
    <3> QED
      BY <3>2, <3>4
  <2> QED
    BY <2>1, <2>2
<1>8. Len(versions') = Len(commands') + 1
  BY <1>3
<1>9. ContextShape(Edited', ks[index'])
  BY <1>4
<1>10. \E T : versions' \in Seq(T)
  BY <1>3
<1>11. ShapesOK(ks)'
  BY <1>3, <1>6, <1>7, <1>8, <1>9, <1>10 DEF ShapesOK
<1> QED
  BY <1>11

\* A new command is a new version.
LEMMA HistoryExecutes ==
    ASSUME EditorInv, EditorInv', ShapedInv, ~crashed, NEW cmd, EditCommand(cmd), Execute(cmd)
    PROVE  /\ crashed' => excuse' # {}
           /\ ~HistoryExcused' => ~HistoryExcused /\ History!Execute /\ \E hs : ShapesOK(hs)'
<1>1. CASE ~RedoAsserts(cmd)
  <2>1. /\ crashed' = TRUE
        /\ excuse' = excuse \cup Excuse("played", isPlaying) \cup Excuse("reissued", ReissuedByClone(cmd))
    BY <1>1 DEF Execute, Crash
  <2>2. ASSUME excuse' = {} PROVE FALSE
    <3>1. ~HistoryExcused /\ ~isPlaying /\ ~ReissuedByClone(cmd)
      BY <2>1, <2>2 DEF HistoryExcused, Excuse
    <3>2. /\ Sound(active) /\ ~Running /\ Edited = active
          /\ \E hs : ShapesOK(hs)
      BY <3>1, Unexcused
    <3>3. PICK hs : ShapesOK(hs)
      BY <3>2
    <3>4. ContextShape(active, hs[index])
      BY <3>2, <3>3 DEF ShapesOK
    <3>5. Fields(cmd) /\ Doable(cmd, hs[index]) /\ ~AstrayRedo(cmd)
      BY <3>2, <3>4, EditDoable
    <3> QED
      BY <1>1, <3>1, <3>2, <3>4, <3>5, RedoAsserted DEF EditorInv
  <2> QED
    BY <2>1, <2>2 DEF HistoryExcused
<1>2. CASE RedoAsserts(cmd)
  <2>1. /\ RedoEffect(cmd) /\ UNCHANGED <<isPlaying, lastSavedEditIndex, files, activeSceneID, crashed>>
        /\ commands' = Append(SubSeq(commands, 1, index), Redone(cmd)) /\ index' = index + 1
        /\ versions' = Append(SubSeq(versions, 1, index + 1), DocumentOf(Edited'))
        /\ excuse' = Excuses
        /\ unsound' = (unsound \/ lastSavedEditIndex > index)
    BY <1>2 DEF Execute, fileVars
  <2>2. ASSUME ~HistoryExcused'
        PROVE  ~HistoryExcused /\ History!Execute /\ \E hs : ShapesOK(hs)'
    <3>1. ~HistoryExcused /\ ~isPlaying /\ ~Reissued
      BY <2>1, <2>2, StaysUnexcused
    <3>2. /\ Sound(active) /\ Edited = active
          /\ \E hs : ShapesOK(hs)
      BY <3>1, Unexcused
    <3>3. PICK hs : ShapesOK(hs)
      BY <3>2
    <3> DEFINE h == hs[index]
    <3>4. ContextShape(active, h)
      BY <3>2, <3>3 DEF ShapesOK
    <3>5. CommandOK(cmd) /\ Fields(cmd) /\ Doable(cmd, h) /\ ~AstrayRedo(cmd)
      BY <3>2, <3>4, EditDoable
    <3>6. PICK g : ContextShape(active', g) /\ Names(Redone(cmd), h, g)
      BY <2>1, <3>1, <3>2, <3>4, <3>5, RedoShape DEF EditorInv
    <3>7. Fields(Redone(cmd)) /\ CommandOK(Redone(cmd))
      BY <3>5, WrittenFields, KeptCommands
    <3>8. Relates(Redone(cmd), h, g)
      BY <3>6, <3>7, RelatesKept
    <3>9. Sound(active') /\ Edited' = active'
      BY <2>1, <2>2, <3>1, SoundAfter DEF Edited
    <3>10. CommandsOK
      BY DEF EditorInv
    <3>11. \E ks : ShapesOK(ks)'
      BY <2>1, <3>3, <3>6, <3>7, <3>8, <3>9, <3>10, PushedShapes
    <3>12. History!Execute
      <4>1. PICK S : versions \in Seq(S)
        BY <3>3 DEF ShapesOK
      <4>2. Len(versions) = Len(commands) + 1
        BY <3>3 DEF ShapesOK
      <4> DEFINE d == DocumentOf(Edited')
      <4>3. /\ index \in Nat /\ Len(commands') = index + 1
            /\ \A k \in 0 .. index : k \in 0 .. Len(commands) /\ versions'[k + 1] = versions[k + 1]
            /\ versions'[index + 2] = d
        BY <2>1, <3>10, <4>1, <4>2, Pushed
      <4>4. Now' = d
        BY DEF Now
      <4> HIDE DEF d
      <4>5. HistoryVersions' = [k \in 0 .. Len(commands') |-> versions'[k + 1]]
        BY DEF HistoryVersions
      <4>6. \A k \in 0 .. index + 1 :
               versions'[k + 1] = IF k <= index THEN HistoryVersions[k] ELSE Now'
        <5>1. ASSUME NEW k \in 0 .. index PROVE versions'[k + 1] = HistoryVersions[k]
          BY <4>3 DEF HistoryVersions
        <5>2. versions'[(index + 1) + 1] = Now'
          BY <4>3, <4>4
        <5>3. \A k \in 0 .. index + 1 :
                   (k \in 0 .. index /\ k <= index) \/ (k = index + 1 /\ ~(k <= index))
          BY <4>3
        <5> QED
          BY <5>1, <5>2, <5>3
      <4>7. HistoryVersions' = [k \in 0 .. index + 1 |-> IF k <= index THEN HistoryVersions[k] ELSE Now']
        BY <4>3, <4>5, <4>6
      <4>8. HistorySize' = index + 1 /\ HistorySaved' = HistorySaved
        BY <2>1, <4>3 DEF HistorySize, HistorySaved
      <4> QED
        BY <2>1, <4>7, <4>8
           DEF History!Execute, History!disk, HistoryVersions, HistorySize, HistorySaved
    <3> QED
      BY <3>1, <3>11, <3>12
  <2> QED
    BY <2>1, <2>2
<1> QED
  BY <1>1, <1>2

\* A scene of a shape shows the document of that shape.
LEMMA ShapeShown ==
    ASSUME NEW c, Sound(c), NEW h, ContextShape(c, h), NEW d, Pictures(d, h)
    PROVE  DocumentOf(c) = d
<1>1. WellFormed(h) /\ Pictures(DocumentOf(c), h)
  BY ShapeFacts, ContextPictured
<1>2. Agree(h, h, DOMAIN h)
  BY DEF Agree
<1> QED
  BY <1>1, <1>2, PicturedOnce

\* The shapes after the command at j is written by undo or redo.
LEMMA WrittenShapes ==
    ASSUME CommandsOK, NEW hs, ShapesOK(hs), NEW ks, NEW j \in DOMAIN commands, NEW x, CommandOK(x),
           \A k \in 0 .. Len(commands) : k # j => ks[k] = hs[k],
           ks[j] = hs[j] \/ j = Len(commands),
           WellFormed(ks[j]), Pictures(versions[j + 1], ks[j]),
           Fields(x), Relates(x, ks[j - 1], ks[j]),
           \/ index = j /\ index' = j - 1
           \/ index = j - 1 /\ index' = j /\ Names(x, ks[j - 1], ks[j]),
           commands' = [commands EXCEPT ![j] = x], versions' = versions,
           Sound(active'), ContextShape(active', ks[index']), Edited' = active'
    PROVE  /\ ShapesOK(ks)'
           /\ Now' = HistoryVersions[index']
           /\ HistoryVersions' = HistoryVersions /\ HistorySize' = HistorySize
<1>1. PICK S : commands \in Seq(S)
  BY DEF CommandsOK
<1>2. Len(commands) \in Nat /\ DOMAIN commands = 1 .. Len(commands)
  BY <1>1
<1>3. j \in 1 .. Len(commands) /\ j \in 0 .. Len(commands) /\ index' \in 0 .. Len(commands)
  BY <1>2
<1>4. /\ DOMAIN commands' = DOMAIN commands
      /\ \A k \in DOMAIN commands : commands'[k] = IF k = j THEN x ELSE commands[k]
  BY <1>3, ReplaceCommand
<1>5. Len(commands') = Len(commands)
  BY <1>1
<1>6. ASSUME NEW k \in 0 .. Len(commands) PROVE WellFormed(ks[k]) /\ Pictures(versions[k + 1], ks[k])
  BY <1>6 DEF ShapesOK
<1>7. ASSUME NEW k \in DOMAIN commands
      PROVE  /\ Fields(commands'[k]) /\ Relates(commands'[k], ks[k - 1], ks[k])
             /\ k <= index' => Names(commands'[k], ks[k - 1], ks[k])
  <2>1. CASE k = j
    <3>1. k <= index' => index' = j
      BY <1>3, <2>1
    <3>2. index' = j => Names(x, ks[j - 1], ks[j])
      BY <1>3
    <3> QED
      BY <1>4, <2>1, <3>1, <3>2
  <2>2. CASE k # j
    <3>1. k \in 0 .. Len(commands) /\ k - 1 \in 0 .. Len(commands)
      BY <1>2
    <3>2. ks[k] = hs[k]
      BY <2>2, <3>1
    <3>3. ks[k - 1] = hs[k - 1]
      <4>1. CASE k - 1 # j
        BY <3>1, <4>1
      <4>2. CASE k - 1 = j
        <5>1. j # Len(commands)
          BY <1>2, <4>2
        <5> QED
          BY <4>2, <5>1
      <4> QED
        BY <4>1, <4>2
    <3>4. k <= index' => k <= index
      BY <1>2, <1>3, <2>2
    <3>5. /\ Fields(commands[k]) /\ Relates(commands[k], hs[k - 1], hs[k])
          /\ k <= index => Names(commands[k], hs[k - 1], hs[k])
      BY DEF ShapesOK
    <3>6. commands'[k] = commands[k]
      BY <1>4, <2>2
    <3> QED
      BY <3>2, <3>3, <3>4, <3>5, <3>6
  <2> QED
    BY <2>1, <2>2
<1>8. (\E T : versions \in Seq(T)) /\ Len(versions) = Len(commands) + 1
  BY DEF ShapesOK
<1>9. ShapesOK(ks)'
  BY <1>4, <1>5, <1>6, <1>7, <1>8 DEF ShapesOK
<1>10. Now' = versions[index' + 1]
  <2>1. Pictures(versions[index' + 1], ks[index'])
    BY <1>3, <1>6
  <2>2. DocumentOf(active') = versions[index' + 1]
    BY <2>1, ShapeShown
  <2> QED
    BY <2>2 DEF Now
<1>11. HistoryVersions[index'] = versions[index' + 1]
  BY <1>3 DEF HistoryVersions
<1>12. HistoryVersions' = HistoryVersions /\ HistorySize' = HistorySize
  BY <1>5 DEF HistoryVersions, HistorySize
<1> QED
  BY <1>9, <1>10, <1>11, <1>12

\* Undo brings back the version before.
LEMMA HistoryUndoes ==
    ASSUME EditorInv, EditorInv', ShapedInv, ~crashed, Undo
    PROVE  /\ crashed' => excuse' # {}
           /\ ~HistoryExcused' => ~HistoryExcused /\ History!Undo /\ \E hs : ShapesOK(hs)'
<1> DEFINE cmd == commands[index]
<1>0. /\ CommandsOK /\ index > 0 /\ index \in DOMAIN commands /\ index - 1 \in 0 .. Len(commands)
      /\ CommandOK(cmd) /\ index \in 0 .. Len(commands) /\ SceneOK
  BY OnStack DEF EditorInv, CommandsOK, Undo
<1>1. ASSUME NEW hs, ShapesOK(hs)
      PROVE  /\ Fields(cmd) /\ Names(cmd, hs[index - 1], hs[index]) /\ Relates(cmd, hs[index - 1], hs[index])
             /\ WellFormed(hs[index - 1]) /\ Pictures(versions[index], hs[index - 1])
             /\ WellFormed(hs[index]) /\ Pictures(versions[index + 1], hs[index])
             /\ ContextShape(Edited, hs[index])
  <2>1. index <= index /\ (index - 1) + 1 = index
    BY <1>0
  <2> QED
    BY <1>0, <1>1, <2>1 DEF ShapesOK
<1>2. CASE ~UndoAsserts(cmd)
  <2>1. crashed' = TRUE /\ excuse' = excuse \cup Excuse("played", isPlaying)
    BY <1>2 DEF Undo, Crash
  <2>2. ASSUME excuse' = {} PROVE FALSE
    <3>1. ~HistoryExcused /\ ~isPlaying
      BY <2>1, <2>2 DEF HistoryExcused, Excuse
    <3>2. /\ Sound(active) /\ ~Running /\ Edited = active
          /\ registered \subseteq ContextSUIDs(active)
          /\ \E hs : ShapesOK(hs)
      BY <3>1, Unexcused
    <3>3. PICK hs : ShapesOK(hs)
      BY <3>2
    <3>4. Fields(cmd) /\ Names(cmd, hs[index - 1], hs[index]) /\ ContextShape(active, hs[index])
      BY <1>1, <3>2, <3>3
    <3> HIDE DEF cmd
    <3> QED
      BY <1>2, <3>2, <3>4, UndoAsserted
  <2> QED
    BY <2>1, <2>2 DEF HistoryExcused
<1>3. CASE UndoAsserts(cmd)
  <2>1. /\ UndoEffect(cmd) /\ commands' = [commands EXCEPT ![index] = Undone(cmd)]
        /\ index' = index - 1 /\ excuse' = Excuses \cup Excuse("astray", AstrayUndo(cmd))
        /\ UNCHANGED <<isPlaying, lastSavedEditIndex, versions, files, activeSceneID, crashed, unsound>>
    BY <1>3 DEF Undo, fileVars
  <2>2. ASSUME ~HistoryExcused'
        PROVE  ~HistoryExcused /\ History!Undo /\ \E hs : ShapesOK(hs)'
    <3>1. ~HistoryExcused /\ ~isPlaying /\ ~AstrayUndo(cmd)
      <4>1. Excuses \subseteq excuse' /\ (AstrayUndo(cmd) => "astray" \in excuse')
        BY <2>1 DEF Excuse
      <4>2. excuse' = {}
        BY <2>2 DEF HistoryExcused
      <4> QED
        BY <2>1, <2>2, <4>1, <4>2, StaysUnexcused
    <3>2. /\ Sound(active) /\ Edited = active
          /\ \E hs : ShapesOK(hs)
      BY <3>1, Unexcused
    <3>3. PICK hs : ShapesOK(hs)
      BY <3>2
    <3>4. /\ Fields(cmd) /\ Names(cmd, hs[index - 1], hs[index]) /\ Relates(cmd, hs[index - 1], hs[index])
          /\ WellFormed(hs[index - 1])
          /\ WellFormed(hs[index]) /\ Pictures(versions[index + 1], hs[index])
          /\ ContextShape(active, hs[index])
      BY <1>1, <3>2, <3>3
    <3> HIDE DEF cmd
    <3>5. ContextShape(active', hs[index - 1])
      BY <1>0, <2>1, <3>1, <3>2, <3>4, UndoShape
    <3>6. Fields(Undone(cmd)) /\ CommandOK(Undone(cmd)) /\ Relates(Undone(cmd), hs[index - 1], hs[index])
      BY <1>0, <3>4, WrittenFields, KeptCommands, RelatesKept
    <3>7. Sound(active') /\ Edited' = active'
      BY <2>1, <2>2, <3>1, SoundAfter DEF Edited
    <3>8. /\ ShapesOK(hs)' /\ Now' = HistoryVersions[index']
          /\ HistoryVersions' = HistoryVersions /\ HistorySize' = HistorySize
      BY <1>0, <2>1, <3>3, <3>4, <3>5, <3>6, <3>7, WrittenShapes
    <3>9. Now' = HistoryVersions[index - 1] /\ HistorySaved' = HistorySaved
      BY <2>1, <3>8 DEF HistorySaved
    <3>10. History!Undo
      BY <1>0, <2>1, <3>8, <3>9
         DEF History!Undo, History!stack, History!disk, HistoryVersions, HistorySize, HistorySaved
    <3> QED
      BY <3>1, <3>8, <3>10
  <2> QED
    BY <2>1, <2>2
<1> QED
  BY <1>2, <1>3

\* Redo brings back the version after.
LEMMA HistoryRedoes ==
    ASSUME EditorInv, EditorInv', ShapedInv, ~crashed, Redo
    PROVE  /\ crashed' => excuse' # {}
           /\ ~HistoryExcused' => ~HistoryExcused /\ History!Redo /\ \E hs : ShapesOK(hs)'
<1> DEFINE j == index + 1
           cmd == commands[j]
<1>0. /\ CommandsOK /\ index < Len(commands) /\ j \in DOMAIN commands /\ j \in 0 .. Len(commands)
      /\ CommandOK(cmd) /\ index \in 0 .. Len(commands) /\ SceneOK /\ Len(commands) \in Nat
      /\ j - 1 = index /\ index \in Int
  BY OnStack DEF EditorInv, CommandsOK, Redo
<1>1. ASSUME NEW hs, ShapesOK(hs)
      PROVE  /\ Fields(cmd) /\ Relates(cmd, hs[index], hs[j])
             /\ WellFormed(hs[j]) /\ Pictures(versions[j + 1], hs[j])
             /\ ContextShape(Edited, hs[index])
  BY <1>0, <1>1 DEF ShapesOK
<1>2. CASE ~RedoAsserts(cmd)
  <2>1. /\ crashed' = TRUE
        /\ excuse' = excuse \cup Excuse("played", isPlaying)
                           \cup (Excuse("astray", AstrayRedo(cmd)) \cup Excuse("reissued", ReissuedByClone(cmd)))
    BY <1>2 DEF Redo, Crash
  <2>2. ASSUME excuse' = {} PROVE FALSE
    <3>1. ~HistoryExcused /\ ~isPlaying /\ ~AstrayRedo(cmd) /\ ~ReissuedByClone(cmd)
      BY <2>1, <2>2 DEF HistoryExcused, Excuse
    <3>2. /\ ~Running /\ Edited = active
          /\ \E hs : ShapesOK(hs)
      BY <3>1, Unexcused
    <3>3. PICK hs : ShapesOK(hs)
      BY <3>2
    <3>4. Fields(cmd) /\ Relates(cmd, hs[index], hs[j]) /\ ContextShape(active, hs[index])
      BY <1>1, <3>2, <3>3
    <3> HIDE DEF cmd
    <3>5. Doable(cmd, hs[index])
      BY <1>0, <3>4, RelatesKept
    <3> QED
      BY <1>0, <1>2, <3>1, <3>2, <3>4, <3>5, RedoAsserted
  <2> QED
    BY <2>1, <2>2 DEF HistoryExcused
<1>3. CASE RedoAsserts(cmd)
  <2>1. /\ RedoEffect(cmd) /\ commands' = [commands EXCEPT ![j] = Redone(cmd)]
        /\ index' = index + 1
        /\ excuse' = Excuses \cup Excuse("astray", AstrayRedo(cmd)) \cup Excuse("recreated", Recreated(cmd))
        /\ UNCHANGED <<isPlaying, lastSavedEditIndex, versions, files, activeSceneID, crashed, unsound>>
    BY <1>3 DEF Redo, fileVars
  <2>2. ASSUME ~HistoryExcused'
        PROVE  ~HistoryExcused /\ History!Redo /\ \E hs : ShapesOK(hs)'
    <3>1. ~HistoryExcused /\ ~isPlaying /\ ~Reissued /\ ~AstrayRedo(cmd) /\ ~Recreated(cmd)
      <4>1. /\ Excuses \subseteq excuse' /\ (AstrayRedo(cmd) => "astray" \in excuse')
            /\ (Recreated(cmd) => "recreated" \in excuse')
        BY <2>1 DEF Excuse
      <4>2. excuse' = {}
        BY <2>2 DEF HistoryExcused
      <4> QED
        BY <2>1, <2>2, <4>1, <4>2, StaysUnexcused
    <3>2. /\ Sound(active) /\ Edited = active
          /\ \E hs : ShapesOK(hs)
      BY <3>1, Unexcused
    <3>3. PICK hs : ShapesOK(hs)
      BY <3>2
    <3> DEFINE h == hs[index]
    <3>4. /\ Fields(cmd) /\ Relates(cmd, h, hs[j])
          /\ WellFormed(hs[j]) /\ Pictures(versions[j + 1], hs[j])
          /\ ContextShape(active, h)
      BY <1>1, <3>2, <3>3
    <3>5. Sound(active') /\ Edited' = active'
      BY <2>1, <2>2, <3>1, SoundAfter DEF Edited
    <3>6. cmd.type \in {"set", "delete"} \/ j = Len(commands)
      <4>1. cmd.type \in {"add", "clone"} => ~(index + 1 < Len(commands))
        BY <3>1 DEF Recreated
      <4>2. cmd.type \in {"set", "add", "clone", "delete"}
        BY <3>4 DEF Fields
      <4> QED
        BY <1>0, <4>1, <4>2
    <3> HIDE DEF cmd
    <3>7. Fields(Redone(cmd)) /\ CommandOK(Redone(cmd)) /\ Relates(Redone(cmd), h, hs[j])
      BY <1>0, <3>4, WrittenFields, KeptCommands, RelatesKept
    <3>8. PICK g : /\ ContextShape(active', g) /\ Names(Redone(cmd), h, g)
                   /\ WellFormed(g) /\ Pictures(versions[j + 1], g)
                   /\ g = hs[j] \/ j = Len(commands)
      <4>1. CASE cmd.type \in {"set", "delete"}
        <5>1. ContextShape(active', hs[j])
          BY <1>0, <2>1, <3>2, <3>4, <4>1, RedoAgain
        <5>2. Redone(cmd) = cmd
          BY <1>0, <3>4, <4>1, WrittenFields
        <5>3. Names(cmd, h, hs[j])
          BY <3>4, <4>1 DEF Names, Relates
        <5> QED
          BY <3>4, <5>1, <5>2, <5>3
      <4>2. CASE cmd.type \notin {"set", "delete"}
        <5>1. Doable(cmd, h)
          BY <1>0, <3>4, RelatesKept
        <5>2. PICK g : ContextShape(active', g) /\ Names(Redone(cmd), h, g)
          BY <1>0, <2>1, <3>1, <3>2, <3>4, <5>1, RedoShape
        <5>3. Relates(Redone(cmd), h, g)
          BY <3>7, <5>2, RelatesKept
        <5>4. Relates(cmd, h, g)
          BY <1>0, <3>4, <5>3, RelatesKept
        <5>5. WellFormed(g) /\ Pictures(DocumentOf(active'), g)
          BY <3>5, <5>2, ShapeFacts, ContextPictured
        <5>6. DocumentOf(active') = versions[j + 1]
          BY <3>2, <3>4, <5>4, <5>5, RelatesOnce
        <5> QED
          BY <3>6, <4>2, <5>2, <5>5, <5>6
      <4> QED
        BY <4>1, <4>2
    <3>9. PICK ks : (\A k \in 0 .. Len(commands) : k # j => ks[k] = hs[k]) /\ ks[j] = g
      <4> DEFINE f == [k \in 0 .. Len(commands) |-> IF k = j THEN g ELSE hs[k]]
      <4>1. (\A k \in 0 .. Len(commands) : k # j => f[k] = hs[k]) /\ f[j] = g
        BY <1>0
      <4> QED
        BY <4>1
    <3>10. ks[j - 1] = h /\ index = j - 1 /\ index' = j
      <4>1. index # j
        BY <1>0
      <4> QED
        BY <1>0, <2>1, <3>9, <4>1
    <3>11. Relates(Redone(cmd), h, g)
      BY <3>7, <3>8, RelatesKept
    <3> HIDE DEF h, j
    <3>12. /\ ShapesOK(ks)' /\ Now' = HistoryVersions[index']
           /\ HistoryVersions' = HistoryVersions /\ HistorySize' = HistorySize
      BY <1>0, <2>1, <3>3, <3>5, <3>7, <3>8, <3>9, <3>10, <3>11, WrittenShapes
    <3>13. Now' = HistoryVersions[index + 1] /\ HistorySaved' = HistorySaved
      BY <2>1, <3>12 DEF HistorySaved
    <3>14. History!Redo
      BY <1>0, <2>1, <3>12, <3>13
         DEF History!Redo, History!stack, History!disk, HistoryVersions, HistorySize, HistorySaved
    <3> QED
      BY <3>1, <3>12, <3>14
  <2> QED
    BY <2>1, <2>2
<1> QED
  BY <1>2, <1>3

\* Nothing that has a shape changes.
LEMMA ShapesStay ==
    ASSUME Edited' = Edited, UNCHANGED <<commands, index, versions>>
    PROVE  /\ (\E hs : ShapesOK(hs)) => \E hs : ShapesOK(hs)'
           /\ Now' = Now /\ HistoryVersions' = HistoryVersions /\ HistorySize' = HistorySize
<1>1. ASSUME NEW hs, ShapesOK(hs) PROVE ShapesOK(hs)'
  BY <1>1 DEF ShapesOK
<1>2. Now' = Now /\ HistoryVersions' = HistoryVersions /\ HistorySize' = HistorySize
  BY DEF Now, HistoryVersions, HistorySize
<1> QED
  BY <1>1, <1>2

\* A stack that is emptied begins a history.
LEMMA Restarted ==
    ASSUME NEW d, NEW h, WellFormed(h), Pictures(d, h), commands' = <<>>, index' = 0, versions' = <<d>>,
           ContextShape(Edited', h), Now' = d
    PROVE  /\ \E hs : ShapesOK(hs)'
           /\ History!Restart
<1>1. Len(commands') = 0 /\ DOMAIN commands' = {} /\ Len(versions') = 1 /\ versions'[1] = d
  BY DEF ShapesOK
<1>2. \E S : versions' \in Seq(S)
  <2>1. <<d>> \in Seq({d})
    OBVIOUS
  <2> QED
    BY <2>1
<1>3. PICK hs : hs[0] = h
  <2> DEFINE f == [k \in 0 .. 0 |-> h]
  <2>1. f[0] = h
    OBVIOUS
  <2> QED
    BY <2>1
<1>4. \A k \in 0 .. Len(commands') : k = 0
  BY <1>1
<1>5. \A k \in 0 .. Len(commands') : WellFormed(hs[k]) /\ Pictures(versions'[k + 1], hs[k])
  BY <1>1, <1>3, <1>4
<1>6. ContextShape(Edited', hs[index'])
  BY <1>3
<1>7. Len(versions') = Len(commands') + 1
  BY <1>1
<1>8. ShapesOK(hs)'
  BY <1>1, <1>2, <1>5, <1>6, <1>7 DEF ShapesOK
<1>9. [k \in 0 .. Len(commands') |-> versions'[k + 1]] = [k \in 0 .. 0 |-> Now']
  BY <1>1
<1> QED
  BY <1>1, <1>8, <1>9 DEF History!Restart

\* What is edited is sound as long as nothing is excused.
LEMMA EditedSound == ASSUME EditorInv, excuse = {} PROVE Sound(Edited)
  BY DEF EditorInv, SceneOK, AllFound, Sound, Edited

\* What is written to disk is the version that the stack is at.
LEMMA HistorySaves ==
    ASSUME EditorInv, EditorInv', ShapedInv, ~crashed, Save
    PROVE  /\ crashed' => excuse' # {}
           /\ ~HistoryExcused' => ~HistoryExcused /\ History!Save /\ \E hs : ShapesOK(hs)'
<1>1. /\ UNCHANGED <<active, backup, isPlaying, commands, index, versions, activeSceneID, crashed>>
      /\ files' = [files EXCEPT ![activeSceneID] = Entries(active, All(active))]
      /\ lastSavedEditIndex' = index /\ unsound' = FALSE
      /\ excuse' = excuse \cup Excuse("played", isPlaying)
  BY DEF Save, sceneVars
<1>2. ASSUME ~HistoryExcused'
      PROVE  ~HistoryExcused /\ History!Save /\ \E hs : ShapesOK(hs)'
  <2>1. ~HistoryExcused /\ ~isPlaying
    BY <1>1, <1>2 DEF HistoryExcused, Excuse
  <2>2. Edited = active /\ \E hs : ShapesOK(hs)
    BY <2>1, Unexcused
  <2>3. Edited' = Edited
    BY <1>1 DEF Edited
  <2>4. /\ \E hs : ShapesOK(hs)'
        /\ Now' = Now /\ HistoryVersions' = HistoryVersions /\ HistorySize' = HistorySize
    BY <1>1, <2>2, <2>3, ShapesStay
  <2>5. DocumentOf(active) = Document(Entries(active, All(active)))
    BY DEF DocumentOf
  <2>6. activeSceneID \in DOMAIN files
    BY DEF EditorInv, FilesOK
  <2>7. HistorySaved' = Now
    BY <1>1, <2>2, <2>5, <2>6 DEF HistorySaved, Now
  <2>8. History!Save
    BY <1>1, <2>4, <2>7
       DEF History!Save, History!stack, HistoryVersions, HistorySize, HistorySaved
  <2> QED
    BY <2>1, <2>4, <2>8
<1> QED
  BY <1>1, <1>2

\* The scene that was loaded is the one on disk.
LEMMA HistoryLoads ==
    ASSUME EditorInv, EditorInv', NEW s, NEW es, EntriesOK(es), EntriesNamed(es),
           ResetAsserts, LoadScene(s, es), excuse' = ExcuseOfLoad, files'[s] = es, ~HistoryExcused'
    PROVE  /\ \E hs : ShapesOK(hs)'
           /\ History!Restart /\ HistorySaved' = Now'
<1>1. /\ Reload(es) /\ activeSceneID' = s /\ commands' = <<>> /\ index' = 0
      /\ versions' = <<Document(es)>> /\ isPlaying' = isPlaying
  BY DEF LoadScene
<1>2. SceneOK /\ TakeIndices(Len(es)) /\ active' = Graft(EmptyContext, es, Root)
  BY <1>1 DEF Reload, EditorInv
<1>3. PICK h : ContextShape(active', h) /\ Pictures(Document(es), h)
  BY <1>2, LoadedGraft
<1>4. Edited' = active'
  BY <1>1 DEF Edited, Reload, ResetAsserts
<1>5. Sound(active')
  BY SoundAfter
<1>6. WellFormed(h) /\ DocumentOf(active') = Document(es)
  BY <1>3, <1>5, ShapeFacts, ShapeShown
<1>7. Now' = Document(es)
  BY <1>4, <1>6 DEF Now
<1>8. HistorySaved' = Document(es)
  BY <1>1 DEF HistorySaved
<1> QED
  BY <1>1, <1>3, <1>4, <1>6, <1>7, <1>8, Restarted

\* A scene is opened, or the open one again.
LEMMA HistoryOpens ==
    ASSUME EditorInv, EditorInv', NamedInv, ShapedInv, ~crashed, NEW s \in SceneIDs, OpenScene(s)
    PROVE  /\ crashed' => excuse' # {}
           /\ ~HistoryExcused' => /\ (~HistoryExcused /\ History!Reopen) \/ History!Open
                                  /\ \E hs : ShapesOK(hs)'
<1>1. CASE s = activeSceneID
  <2>1. /\ commands' = <<>> /\ index' = 0 /\ versions' = <<Now>> /\ lastSavedEditIndex' = 0 /\ unsound' = TRUE
        /\ UNCHANGED <<active, backup, isPlaying, files, activeSceneID, crashed, excuse>>
    BY <1>1 DEF OpenScene, sceneVars, fileVars
  <2>2. ASSUME ~HistoryExcused'
        PROVE  ~HistoryExcused /\ History!Reopen /\ \E hs : ShapesOK(hs)'
    <3>1. ~HistoryExcused /\ excuse = {}
      BY <2>1, <2>2 DEF HistoryExcused
    <3>2. PICK hs : ShapesOK(hs)
      BY <3>1 DEF ShapedInv
    <3>3. ContextShape(Edited, hs[index]) /\ Sound(Edited)
      BY <3>1, <3>2, EditedSound DEF ShapesOK
    <3>4. WellFormed(hs[index]) /\ Pictures(Now, hs[index])
      BY <3>3, ShapeFacts, ContextPictured DEF Now
    <3>5. Edited' = Edited /\ Now' = Now /\ HistorySaved' = HistorySaved
      BY <2>1 DEF Edited, Now, HistorySaved
    <3>6. History!Restart /\ \E ks : ShapesOK(ks)'
      BY <2>1, <3>3, <3>4, <3>5, Restarted
    <3>7. History!Reopen
      BY <2>1, <3>5, <3>6 DEF History!Reopen, HistorySaved
    <3> QED
      BY <3>1, <3>6, <3>7
  <2> QED
    BY <2>1, <2>2
<1>2. CASE s # activeSceneID /\ (~ResetAsserts \/ ~Loadable(files[s]))
  <2>1. crashed' = TRUE /\ excuse' = excuse \cup Excuse("played", isPlaying)
    BY <1>2 DEF OpenScene, Crash
  <2>2. ASSUME excuse' = {} PROVE FALSE
    <3>1. excuse = {} /\ ~isPlaying
      BY <2>1, <2>2 DEF Excuse
    <3>2. ResetAsserts
      BY <3>1 DEF EditorInv, AllRegistered, ResetAsserts
    <3> QED
      BY <1>2, <3>1, <3>2, FilesLoadable
  <2> QED
    BY <2>1, <2>2 DEF HistoryExcused
<1>3. CASE s # activeSceneID /\ ResetAsserts /\ Loadable(files[s])
  <2>1. /\ LoadScene(s, files[s]) /\ excuse' = ExcuseOfLoad /\ files' = files
        /\ lastSavedEditIndex' = 0 /\ unsound' = FALSE
    BY <1>3 DEF OpenScene
  <2>2. EntriesOK(files[s]) /\ EntriesNamed(files[s])
    BY <1>3 DEF EditorInv, FilesOK, Loadable, EntriesNamed
  <2>3. crashed' = crashed
    BY <2>1 DEF LoadScene
  <2>4. ASSUME ~HistoryExcused' PROVE History!Open /\ \E hs : ShapesOK(hs)'
    <3>1. /\ \E hs : ShapesOK(hs)'
          /\ History!Restart /\ HistorySaved' = Now'
      BY <1>3, <2>1, <2>2, <2>4, HistoryLoads
    <3> QED
      BY <2>1, <3>1 DEF History!Open, HistorySaved
  <2> QED
    BY <2>3, <2>4
<1> QED
  BY <1>1, <1>2, <1>3

\* An empty scene is created and opened.
LEMMA HistoryCreates ==
    ASSUME EditorInv, EditorInv', ~crashed, CreateScene
    PROVE  /\ crashed' => excuse' # {}
           /\ ~HistoryExcused' => History!Open /\ \E hs : ShapesOK(hs)'
<1>0. ASSUME ~ResetAsserts PROVE crashed' /\ excuse' # {}
  <2>1. crashed' = TRUE /\ excuse' = excuse \cup Excuse("played", isPlaying)
    BY <1>0 DEF CreateScene, Crash
  <2>2. isPlaying \/ excuse # {}
    BY <1>0 DEF EditorInv, AllRegistered, PlayOK, ResetAsserts
  <2> QED
    BY <2>1, <2>2 DEF Excuse
<1> SUFFICES ASSUME ResetAsserts
             PROVE  /\ crashed' => excuse' # {}
                    /\ ~HistoryExcused' => History!Open /\ \E hs : ShapesOK(hs)'
  BY <1>0 DEF HistoryExcused
<1> DEFINE es == <<>>
<1>1. /\ LoadScene(2, es) /\ files' = [files EXCEPT ![2] = es] /\ excuse' = ExcuseOfLoad
      /\ lastSavedEditIndex' = lastSavedEditIndex /\ unsound' = (lastSavedEditIndex # 0)
  BY DEF CreateScene
<1>2. EntriesOK(es) /\ EntriesNamed(es)
  BY DEF EntriesOK, EntriesNamed
<1>3. 2 \in DOMAIN files
  BY DEF EditorInv, FilesOK, SceneIDs
<1> HIDE DEF es
<1>4. files'[2] = es /\ crashed' = crashed
  BY <1>1, <1>3 DEF LoadScene
<1>5. ASSUME ~HistoryExcused' PROVE History!Open /\ \E hs : ShapesOK(hs)'
  <2>1. /\ \E hs : ShapesOK(hs)'
        /\ History!Restart /\ HistorySaved' = Now'
    BY <1>1, <1>2, <1>4, <1>5, HistoryLoads
  <2> QED
    BY <1>1, <2>1 DEF History!Open, HistorySaved
<1> QED
  BY <1>4, <1>5

\* Play, its end and what scripts do are not seen in the history.
LEMMA HistoryPlays ==
    ASSUME EditorInv, ShapedInv, ~crashed, PlayScene \/ StopScene \/ ScriptStep
    PROVE  /\ crashed' => excuse' # {}
           /\ ~HistoryExcused' => UNCHANGED History!vars /\ \E hs : ShapesOK(hs)'
<1>1. UNCHANGED <<commands, index, lastSavedEditIndex, versions, files, activeSceneID, crashed, excuse, unsound>>
  BY DEF PlayScene, StopScene, ScriptStep, UnchangedByPlay, stackVars, fileVars
<1>2. ASSUME ~HistoryExcused' PROVE UNCHANGED History!vars /\ \E hs : ShapesOK(hs)'
  <2>1. ~HistoryExcused /\ excuse = {}
    BY <1>1, <1>2 DEF HistoryExcused
  <2>2. Edited' = Edited
    BY <2>1, EditedKept
  <2>3. /\ \E hs : ShapesOK(hs)'
        /\ Now' = Now /\ HistoryVersions' = HistoryVersions /\ HistorySize' = HistorySize
    BY <1>1, <2>1, <2>2, ShapesStay DEF ShapedInv
  <2> QED
    BY <1>1, <2>3 DEF History!vars, History!stack, History!disk, HistoryVersions, HistorySize
<1> QED
  BY <1>1, <1>2

\* The invariant under which the editor implements the history.
HistoryKept == EditorInv /\ NamedInv /\ ShapedInv /\ CrashExcused

\* The editor starts with the scene on disk and an empty stack.
LEMMA HistoryStarts == ASSUME Init PROVE HistoryKept /\ History!Init
<1> DEFINE at == [k \in DOMAIN FirstScene |-> k - 1]
<1>1. EditorInv /\ NamedInv
  BY EditorInvInit, NamedInit
<1>2. EntriesOK(FirstScene) /\ at \in Seq(Nat) /\ Len(at) = Len(FirstScene) /\ NoRepeat(at)
  BY FirstEntries
<1>3. /\ active = Attach(EmptyContext, FirstScene, Root, at)
      /\ isPlaying = FALSE /\ commands = <<>> /\ index = 0 /\ lastSavedEditIndex = 0
      /\ files = <<FirstScene, <<>>>> /\ activeSceneID = 1 /\ crashed = FALSE
      /\ versions = <<Document(FirstScene)>> /\ excuse = {} /\ unsound = FALSE
  BY DEF Init
<1> HIDE DEF at
<1>4. EntriesNamed(FirstScene)
  BY FirstEntries, NoSUIDApart, EditorConstants DEF EntriesNamed
<1>5. PICK h : ContextShape(active, h) /\ Pictures(Document(FirstScene), h)
  BY <1>2, <1>3, <1>4, LoadedShape
<1>6. Edited = active /\ Sound(active)
  BY <1>1, <1>3, EditedSound DEF Edited
<1>7. WellFormed(h) /\ Now = Document(FirstScene)
  BY <1>5, <1>6, ShapeFacts, ShapeShown DEF Now
<1>8. Len(commands) = 0 /\ DOMAIN commands = {} /\ Len(versions) = 1 /\ versions[1] = Document(FirstScene)
  BY <1>3
<1>9. PICK hs : hs[0] = h
  <2> DEFINE f == [k \in 0 .. 0 |-> h]
  <2>1. f[0] = h
    OBVIOUS
  <2> QED
    BY <2>1
<1>10. ShapesOK(hs)
  <2>1. \E S : versions \in Seq(S)
    <3> DEFINE d == Document(FirstScene)
    <3>1. <<d>> \in Seq({d})
      OBVIOUS
    <3> QED
      BY <1>3, <3>1
  <2>2. \A k \in 0 .. Len(commands) : k = 0
    BY <1>8
  <2>3. \A k \in 0 .. Len(commands) : WellFormed(hs[k]) /\ Pictures(versions[k + 1], hs[k])
    BY <1>5, <1>7, <1>8, <1>9, <2>2
  <2>4. ContextShape(Edited, hs[index]) /\ Len(versions) = Len(commands) + 1
    BY <1>3, <1>5, <1>6, <1>8, <1>9
  <2> QED
    BY <1>8, <2>1, <2>3, <2>4 DEF ShapesOK
<1>11. [k \in 0 .. Len(commands) |-> versions[k + 1]] = [k \in 0 .. 0 |-> Now]
  BY <1>7, <1>8
<1>12. HistorySaved = Now
  BY <1>3, <1>7 DEF HistorySaved
<1>13. History!Init
  BY <1>3, <1>8, <1>11, <1>12 DEF History!Init, HistorySaved
<1> QED
  BY <1>1, <1>3, <1>10, <1>13 DEF HistoryKept, ShapedInv, CrashExcused

\* Every step of the editor is one of the history, or not seen in it.
LEMMA HistorySteps ==
    ASSUME HistoryKept, [Next]_vars
    PROVE  HistoryKept' /\ [History!Next]_(History!vars)
<1>1. EditorInv /\ NamedInv /\ ShapedInv /\ CrashExcused
  BY DEF HistoryKept
<1>2. EditorInv' /\ NamedInv'
  BY <1>1, EditorInvNext, NamedNext
<1>3. CASE UNCHANGED vars
  <2>1. UNCHANGED <<active, backup, isPlaying, commands, index, lastSavedEditIndex, versions,
                    files, activeSceneID, crashed, excuse, unsound>>
    BY <1>3 DEF vars, sceneVars, stackVars, fileVars
  <2>2. Edited' = Edited
    BY <2>1 DEF Edited
  <2>3. /\ (\E hs : ShapesOK(hs)) => \E hs : ShapesOK(hs)'
        /\ Now' = Now /\ HistoryVersions' = HistoryVersions /\ HistorySize' = HistorySize
    BY <2>1, <2>2, ShapesStay
  <2>4. UNCHANGED History!vars
    BY <2>1, <2>3 DEF History!vars, History!stack, History!disk, HistoryVersions, HistorySize
  <2>5. ShapedInv' /\ CrashExcused'
    BY <1>1, <2>1, <2>3 DEF ShapedInv, CrashExcused, HistoryExcused
  <2> QED
    BY <1>2, <2>4, <2>5 DEF HistoryKept
<1>4. CASE Next
  <2>1. ~crashed
    BY <1>4 DEF Next
  <2>2. /\ crashed' => excuse' # {}
        /\ ~HistoryExcused' =>
              /\ \E hs : ShapesOK(hs)'
              /\ \/ ~HistoryExcused /\ (History!Execute \/ History!Undo \/ History!Redo
                                           \/ History!Save \/ History!Reopen)
                 \/ History!Open
                 \/ UNCHANGED History!vars
    <3>1. CASE Edit
      <4>1. PICK cmd : EditCommand(cmd) /\ Execute(cmd)
        BY <3>1, EditExecutes
      <4> QED
        BY <1>1, <1>2, <2>1, <4>1, HistoryExecutes
    <3>2. CASE Undo
      BY <1>1, <1>2, <2>1, <3>2, HistoryUndoes
    <3>3. CASE Redo
      BY <1>1, <1>2, <2>1, <3>3, HistoryRedoes
    <3>4. CASE Save
      BY <1>1, <1>2, <2>1, <3>4, HistorySaves
    <3>5. CASE \E s \in SceneIDs : OpenScene(s)
      BY <1>1, <1>2, <2>1, <3>5, HistoryOpens
    <3>6. CASE CreateScene
      BY <1>1, <1>2, <2>1, <3>6, HistoryCreates
    <3>7. CASE PlayScene \/ StopScene \/ ScriptStep
      BY <1>1, <1>2, <2>1, <3>7, HistoryPlays
    <3> QED
      BY <1>4, <3>1, <3>2, <3>3, <3>4, <3>5, <3>6, <3>7 DEF Next
  <2>3. CrashExcused' /\ ShapedInv'
    BY <2>2 DEF CrashExcused, ShapedInv
  <2>4. [History!Next]_(History!vars)
    BY <2>2 DEF History!Next, HistoryExcused
  <2> QED
    BY <1>2, <2>3, <2>4 DEF HistoryKept
<1> QED
  BY <1>3, <1>4

\* In every session undo, redo, play and stop bring back exactly the scene that
\* was there, until something happens that the commands do not survive: the
\* editor implements the history of documents (EditStack.cpp:48-80,
\* EditCommand.cpp:205-420).
THEOREM HistoryImplemented == Spec => ImplementsHistory
<1>1. Init => HistoryKept /\ History!Init
  BY HistoryStarts
<1>2. HistoryKept /\ [Next]_vars => HistoryKept' /\ [History!Next]_(History!vars)
  BY HistorySteps
<1> QED
  BY <1>1, <1>2, PTL DEF Spec, ImplementsHistory, History!Spec

\* In every session the assertions of the commands, of the scene's clone and
\* reset and of the scene loader hold until something happens that is excused:
\* where the loader resets a scene nothing is kept for later (Scene.cpp:618), and
\* no copy gets the identifier of its source (Scene.cpp:482) unless get_suid
\* hands out an identifier that a component still has.
THEOREM CrashExcusedAlways == Spec => []CrashExcused
<1>1. Init => HistoryKept
  BY HistoryStarts
<1>2. HistoryKept /\ [Next]_vars => HistoryKept'
  BY HistorySteps
<1>3. HistoryKept => CrashExcused
  BY DEF HistoryKept
<1> QED
  BY <1>1, <1>2, <1>3, PTL DEF Spec

\* So the editor keeps what the history keeps.
LEMMA HistoryInvariant == Spec => []HistoryInv
  BY HistoryInvInit, HistoryInvNext, HistoryImplemented, PTL DEF ImplementsHistory, History!Spec

\* In every session the editor shows, after any number of commands, undos, redos
\* and saves, the version that its stack is at (EditStack.cpp:48-80), until
\* something happens that undo does not survive.
THEOREM HistoryAtVersion == Spec => [](excuse = {} /\ ~crashed => Now = versions[index + 1])
<1>1. HistoryInv => (excuse = {} /\ ~crashed => Now = versions[index + 1])
  BY DEF HistoryInv, HistoryVersions, HistorySize, HistoryExcused
<1> QED
  BY <1>1, HistoryInvariant, PTL

\* In every session the project is shown as saved only if the scene on disk is
\* the scene that is edited (EditorContext.cpp:801-804).
THEOREM CleanMeansSavedAlways == Spec => []CleanMeansSaved
<1>1. HistoryInv /\ CrashExcused => CleanMeansSaved
  BY DEF HistoryInv, HistoryVersions, HistorySize, HistorySaved, HistoryExcused,
         CrashExcused, CleanMeansSaved
<1> QED
  BY <1>1, HistoryInvariant, CrashExcusedAlways, PTL
=============================================================================
