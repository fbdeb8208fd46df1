------------------------------ MODULE Query_proofs ------------------------------
(***************************************************************************)
(* Proofs about Query: PartsAreThePieces holds of every query.             *)
(*                                                                         *)
(* Loops over data need induction, and the only principle of the library   *)
(* that is stated about sets, not about predicates, is that a non-empty    *)
(* set has a minimal element (WFMin). A proof by induction here names the  *)
(* set of counterexamples and takes the least one.                         *)
(***************************************************************************)
EXTENDS Query, FiniteSetTheorems, SequenceTheorems, WellFoundedInduction, TLAPS

Less == {p \in Nat \X Nat : p[1] < p[2]}

LEMMA LessWellFounded == IsWellFoundedOn(Less, Nat)
  BY NatLessThanWellFounded DEF OpToRel, Less

\* A non-empty set of natural numbers has a least element.
LEMMA Least == ASSUME NEW T \in SUBSET Nat, T # {}
               PROVE  \E n \in T : \A m \in T : n <= m
<1>1. PICK x \in T : \A y \in T : ~(<<y, x>> \in Less)
  BY LessWellFounded, WFMin
<1>2. \A y \in T : y \in Nat
  OBVIOUS
<1>3. \A y \in T : <<y, x>> \in Less <=> y < x
  BY <1>2 DEF Less
<1>4. \A y \in T : ~(y < x)
  BY <1>1, <1>3
<1>5. \A y \in T : x <= y
  BY <1>2, <1>4
<1> QED BY <1>5

\* Induction up to a bound, on the set of the numbers that have the property.
LEMMA UpTo == ASSUME NEW N \in Nat, NEW Good, 0 \in Good,
                     \A n \in 1..N : n - 1 \in Good => n \in Good
              PROVE  \A n \in 0..N : n \in Good
<1> SUFFICES ASSUME NEW k \in 0..N, k \notin Good PROVE FALSE
  OBVIOUS
<1> DEFINE Bad == {n \in 0..N : n \notin Good}
<1>1. Bad \in SUBSET Nat /\ Bad # {}
  OBVIOUS
<1>2. PICK n \in Bad : \A m \in Bad : n <= m
  <2> HIDE DEF Bad
  <2> QED BY <1>1, Least
<1>3. n \in 1..N
  BY <1>2
<1>4. n - 1 \in Good
  BY <1>2, <1>3
<1> QED BY <1>2, <1>3, <1>4

\* The maximum of a bounded set of numbers is the maximum.
LEMMA MaxIs == ASSUME NEW N \in Nat, NEW T \in SUBSET (0..N), T # {}
               PROVE  Max(T) \in T /\ \A m \in T : m <= Max(T)
<1> DEFINE Flip == {N - m : m \in T}
<1>1. Flip \in SUBSET Nat /\ Flip # {}
  <2>1. \A m \in T : m \in 0..N OBVIOUS
  <2>2. \A m \in T : N - m \in Nat BY <2>1
  <2> QED BY <2>2
<1>2. PICK n \in Flip : \A m \in Flip : n <= m
  <2> HIDE DEF Flip
  <2> QED BY <1>1, Least
<1>3. PICK k \in T : n = N - k
  BY <1>2
<1>4. ASSUME NEW m \in T PROVE k >= m
  <2>1. N - m \in Flip OBVIOUS
  <2> HIDE DEF Flip
  <2> QED BY <1>2, <1>3, <2>1
<1>5. Max(T) \in T /\ \A m \in T : Max(T) >= m
  BY <1>4 DEF Max
<1> QED BY <1>5

LEMMA MaxTop == ASSUME NEW n \in Nat, NEW T \in SUBSET (0..n), n \in T PROVE Max(T) = n
<1>1. Max(T) \in T /\ n <= Max(T)
  BY MaxIs
<1>2. Max(T) \in 0..n
  BY <1>1
<1> QED BY <1>1, <1>2

LEMMA MaxOf == ASSUME NEW N \in Nat, NEW T \in SUBSET (1..N), T # {} PROVE Max(T) \in 1..N
<1>1. T \in SUBSET (0..N)
  OBVIOUS
<1> QED BY <1>1, MaxIs

-----------------------------------------------------------------------------
\* Folds.

\* A fold that takes the positions of a sequence from the last to the first: g is
\* the function that MapThenFoldSet computes.
IsFold(N, base, op, g) ==
    g = [s \in SUBSET (1..N) |->
           IF s = {} THEN base ELSE op[<<g[s \ {Max(s)}], Max(s)>>]]

LEMMA FoldExists ==
    ASSUME NEW N \in Nat, NEW S, NEW base \in S, NEW op \in [S \X (1..N) -> S]
    PROVE  \E g \in [SUBSET (1..N) -> S] : IsFold(N, base, op, g)
<1> DEFINE Val(g, s) == IF s = {} THEN base ELSE op[<<g[s \ {Max(s)}], Max(s)>>]
           Has(n) == \E g \in [SUBSET (1..n) -> S] : \A s \in SUBSET (1..n) : g[s] = Val(g, s)
           Good == {n \in 0..N : Has(n)}
<1>1. 0 \in Good
  <2> DEFINE g == [s \in SUBSET (1..0) |-> base]
  <2>1. 1..0 = {} OBVIOUS
  <2>2. g \in [SUBSET (1..0) -> S] OBVIOUS
  <2>3. \A s \in SUBSET (1..0) : s = {} BY <2>1
  <2>4. \A s \in SUBSET (1..0) : g[s] = Val(g, s)
    BY <2>3
  <2>5. Has(0)
    <3> HIDE DEF g
    <3> QED BY <2>2, <2>4
  <2> HIDE DEF Has
  <2> QED BY <2>5
<1>2. ASSUME NEW n \in 1..N, n - 1 \in Good PROVE n \in Good
  <2>1. PICK f \in [SUBSET (1..(n - 1)) -> S] : \A s \in SUBSET (1..(n - 1)) : f[s] = Val(f, s)
    BY <1>2
  <2> DEFINE g == [s \in SUBSET (1..n) |->
                     IF n \in s THEN op[<<f[s \ {n}], n>>] ELSE f[s]]
  <2>2. ASSUME NEW s \in SUBSET (1..n)
        PROVE  s \ {n} \in SUBSET (1..(n - 1)) /\ (n \notin s => s \in SUBSET (1..(n - 1)))
    OBVIOUS
  <2>3. g \in [SUBSET (1..n) -> S]
    <3> SUFFICES ASSUME NEW s \in SUBSET (1..n)
                 PROVE  (IF n \in s THEN op[<<f[s \ {n}], n>>] ELSE f[s]) \in S
      OBVIOUS
    <3>1. CASE n \in s
      <4>1. f[s \ {n}] \in S BY <2>2
      <4> QED BY <3>1, <4>1
    <3>2. CASE n \notin s
      BY <2>2, <3>2
    <3> QED BY <3>1, <3>2
  <2>4. ASSUME NEW s \in SUBSET (1..n) PROVE g[s] = Val(g, s)
    <3>1. CASE s = {}
      BY <2>1, <2>2, <3>1
    <3>2. CASE s # {} /\ n \in s
      <4>1. Max(s) = n
        <5>1. s \in SUBSET (0..n) /\ n \in Nat OBVIOUS
        <5> QED BY <3>2, <5>1, MaxTop
      <4>2. g[s \ {n}] = f[s \ {n}]
        BY <2>2
      <4> QED BY <3>2, <4>1, <4>2
    <3>3. CASE s # {} /\ n \notin s
      <4>1. g[s] = f[s] BY <3>3
      <4>2. f[s] = op[<<f[s \ {Max(s)}], Max(s)>>]
        BY <2>1, <2>2, <3>3
      <4>3. g[s \ {Max(s)}] = f[s \ {Max(s)}]
        BY <3>3
      <4> QED BY <3>3, <4>1, <4>2, <4>3
    <3> QED BY <3>1, <3>2, <3>3
  <2>5. Has(n)
    <3> HIDE DEF g
    <3> QED BY <2>3, <2>4
  <2> HIDE DEF Has
  <2> QED BY <2>5
<1>3. N \in Good
  <2> HIDE DEF Good
  <2> QED BY <1>1, <1>2, UpTo
<1>4. PICK g \in [SUBSET (1..N) -> S] : \A s \in SUBSET (1..N) : g[s] = Val(g, s)
  BY <1>3
<1>5. IsFold(N, base, op, g)
  BY <1>4 DEF IsFold
<1> QED BY <1>5

\* The values on the first n positions, one after the other, of whatever function
\* satisfies the equation where its own values are of the type.
Computes(N, S, base, op, g) ==
    /\ g[{}] = base
    /\ \A s \in SUBSET (1..N) : s # {} /\ g[s \ {Max(s)}] \in S
         => g[s] = op[<<g[s \ {Max(s)}], Max(s)>>]

Runs(N, S, base, op, w) ==
    /\ w \in [0..N -> S]
    /\ w[0] = base
    /\ \A n \in 1..N : w[n] = op[<<w[n - 1], n>>]

Yields(N, S, base, op, v) == \E w : Runs(N, S, base, op, w) /\ w[N] = v

LEMMA FoldSteps ==
    ASSUME NEW N \in Nat, NEW S, NEW base \in S, NEW op \in [S \X (1..N) -> S], NEW g,
           Computes(N, S, base, op, g)
    PROVE  Yields(N, S, base, op, g[1..N])
<1> DEFINE w == [n \in 0..N |-> g[1..n]]
<1>1. w[0] = base
  <2>1. 1..0 = {} OBVIOUS
  <2> QED BY <2>1 DEF Computes
<1>2. ASSUME NEW n \in 1..N, w[n - 1] \in S PROVE w[n] = op[<<w[n - 1], n>>] /\ w[n] \in S
  <2>1. 1..n \in SUBSET (1..N) /\ 1..n # {} /\ (1..n) \ {n} = 1..(n - 1)
    OBVIOUS
  <2>2. Max(1..n) = n
    <3>1. 1..n \in SUBSET (0..n) /\ n \in 1..n /\ n \in Nat OBVIOUS
    <3> QED BY <3>1, MaxTop
  <2>3. w[n] = g[1..n] /\ w[n - 1] = g[1..(n - 1)]
    OBVIOUS
  <2> HIDE DEF w
  <2> QED BY <1>2, <2>1, <2>2, <2>3 DEF Computes
<1>3. w[N] = g[1..N] /\ w = [n \in 0..N |-> w[n]]
  OBVIOUS
<1> HIDE DEF w
<1> DEFINE Good == {n \in 0..N : w[n] \in S}
<1>4. \A n \in 0..N : n \in Good
  <2>1. 0 \in Good BY <1>1
  <2>2. ASSUME NEW n \in 1..N, n - 1 \in Good PROVE n \in Good
    <3>1. w[n - 1] \in S BY <2>2
    <3>2. w[n] \in S BY <1>2, <3>1
    <3> QED BY <3>2
  <2> HIDE DEF Good
  <2> QED BY <2>1, <2>2, UpTo
<1>5. w \in [0..N -> S]
  BY <1>3, <1>4
<1>6. ASSUME NEW n \in 1..N PROVE w[n] = op[<<w[n - 1], n>>]
  <2>1. n - 1 \in 0..N OBVIOUS
  <2> QED BY <1>2, <1>4, <2>1
<1> QED BY <1>1, <1>3, <1>5, <1>6 DEF Runs, Yields

-----------------------------------------------------------------------------
\* The three folds of Query, step by step.

Words == Seq(Chars)
Walking == [segments : Seq(Words), cur : Words, quoted : BOOLEAN]
AtStart == [segments |-> <<>>, cur |-> <<>>, quoted |-> FALSE]

LEMMA WalkType == ASSUME NEW s \in Walking, NEW c \in Chars PROVE Walk(s, c) \in Walking
<1>1. s.segments \in Seq(Words) /\ s.cur \in Words /\ s.quoted \in BOOLEAN
  BY DEF Walking
<1>2. Closed(s) \in Seq(Words) /\ Append(s.cur, c) \in Words /\ <<>> \in Words
  BY <1>1 DEF Closed, Words
<1>3. CASE Separates(c, s.quoted)
  <2>1. Walk(s, c) = [segments |-> Closed(s), cur |-> <<>>, quoted |-> s.quoted]
    BY <1>3 DEF Walk
  <2> QED BY <1>1, <1>2, <2>1 DEF Walking
<1>4. CASE ~Separates(c, s.quoted) /\ c = Mark
  <2>1. Walk(s, c) = [segments |-> s.segments, cur |-> Append(s.cur, c), quoted |-> ~s.quoted]
    BY <1>4 DEF Walk
  <2> QED BY <1>1, <1>2, <2>1 DEF Walking
<1>5. CASE ~Separates(c, s.quoted) /\ c # Mark
  <2>1. Walk(s, c) = [segments |-> s.segments, cur |-> Append(s.cur, c), quoted |-> s.quoted]
    BY <1>5 DEF Walk
  <2> QED BY <1>1, <1>2, <2>1 DEF Walking
<1> QED BY <1>3, <1>4, <1>5

\* w[n] is where the first loop of split_and is after n characters.
Walks(q, w) ==
    /\ w \in [0..Len(q) -> Walking]
    /\ w[0] = AtStart
    /\ \A n \in 1..Len(q) : w[n] = Walk(w[n - 1], q[n])

LEMMA WalkSteps ==
    ASSUME NEW q \in Words
    PROVE  \E w : Walks(q, w) /\ Segments(q) = Closed(w[Len(q)])
<1> DEFINE N == Len(q)
           op == [x \in Walking \X (1..N) |-> Walk(x[1], q[x[2]])]
           Rec(g) == g = [s \in SUBSET (1..N) |->
                            IF s = {} THEN AtStart ELSE Walk(g[s \ {Max(s)}], q[Max(s)])]
           g == CHOOSE h : Rec(h)
<1>1. N \in Nat /\ DOMAIN q = 1..N /\ \A n \in 1..N : q[n] \in Chars
  BY DEF Words
<1>2. AtStart \in Walking
  BY DEF AtStart, Walking, Words
<1>3. op \in [Walking \X (1..N) -> Walking]
  BY <1>1, WalkType
<1>4. FoldLeft(Walk, AtStart, q) = g[1..N]
  BY <1>1, Zenon DEF FoldLeft, MapThenFoldSet
<1>5. \A s \in SUBSET (1..N) : s # {} => Max(s) \in 1..N
  BY <1>1, MaxOf
<1>6. Rec(g)
  <2>1. PICK f \in [SUBSET (1..N) -> Walking] : IsFold(N, AtStart, op, f)
    <3> HIDE DEF op, N
    <3> QED BY <1>1, <1>2, <1>3, FoldExists
  <2>2. Rec(f)
    BY <1>5, <2>1 DEF IsFold
  <2> QED BY <2>2
<1> HIDE DEF g
<1>7. Computes(N, Walking, AtStart, op, g)
  BY <1>5, <1>6 DEF Computes
<1>8. PICK w : Runs(N, Walking, AtStart, op, w) /\ w[N] = g[1..N]
  <2>1. N \in Nat BY <1>1
  <2>2. Yields(N, Walking, AtStart, op, g[1..N])
    <3> HIDE DEF op, N
    <3> QED BY <1>2, <1>3, <1>7, <2>1, FoldSteps
  <2> QED BY <2>2 DEF Yields
<1>9. ASSUME NEW n \in 1..N PROVE w[n] = Walk(w[n - 1], q[n])
  <2>1. w[n - 1] \in Walking
    <3>1. n - 1 \in 0..N BY <1>1
    <3> QED BY <1>8, <3>1 DEF Runs
  <2> QED BY <1>8, <2>1 DEF Runs
<1> QED BY <1>4, <1>8, <1>9 DEF Walks, Runs, Segments, AtStart

\* trim takes from both ends.
Solid(q) == {i \in DOMAIN q : q[i] # Space}

LEMMA SolidEnds ==
    ASSUME NEW q \in Words, Solid(q) # {}
    PROVE  /\ Min(Solid(q)) \in Solid(q) /\ \A i \in Solid(q) : Min(Solid(q)) <= i
           /\ Max(Solid(q)) \in Solid(q) /\ \A i \in Solid(q) : i <= Max(Solid(q))
<1>1. Solid(q) \in SUBSET Nat /\ Solid(q) \in SUBSET (0..Len(q)) /\ Len(q) \in Nat
  BY DEF Solid, Words
<1>2. \E n \in Solid(q) : \A m \in Solid(q) : n <= m
  BY <1>1, Least
<1> QED BY <1>1, <1>2, MaxIs DEF Min

LEMMA TrimType == ASSUME NEW q \in Words PROVE Trim(q) \in Words
<1>1. CASE Solid(q) = {}
  BY <1>1 DEF Trim, Solid, Words
<1>2. CASE Solid(q) # {}
  <2>1. Min(Solid(q)) \in 1..Len(q) /\ Max(Solid(q)) \in 1..Len(q)
    BY <1>2, SolidEnds DEF Solid, Words
  <2>2. SubSeq(q, Min(Solid(q)), Max(Solid(q))) \in Words
    BY <2>1 DEF Words
  <2> QED BY <1>2, <2>2 DEF Trim, Solid
<1> QED BY <1>1, <1>2

Joining == [parts : Seq(Words), acc : Words]
NoParts == [parts |-> <<>>, acc |-> <<>>]

LEMMA JoinType == ASSUME NEW p \in Joining, NEW seg \in Words PROVE Join(p, seg) \in Joining
<1>1. Ended(p) \in Seq(Words)
  BY TrimType DEF Joining, Ended
<1>2. <<Space>> \in Words /\ <<>> \in Words
  BY DEF Words, Chars
<1>3. p.acc \o <<Space>> \o seg \in Words
  BY <1>2 DEF Joining, Words
<1> QED BY <1>1, <1>2, <1>3 DEF Join, Joining

\* j[n] is where the second loop is after n segments.
Joins(segs, j) ==
    /\ j \in [0..Len(segs) -> Joining]
    /\ j[0] = NoParts
    /\ \A n \in 1..Len(segs) : j[n] = Join(j[n - 1], segs[n])

Joined(segs) == FoldLeft(Join, NoParts, segs)

LEMMA JoinSteps ==
    ASSUME NEW segs \in Seq(Words)
    PROVE  \E j : Joins(segs, j) /\ Joined(segs) = j[Len(segs)]
<1> DEFINE N == Len(segs)
           op == [x \in Joining \X (1..N) |-> Join(x[1], segs[x[2]])]
           Rec(h) == h = [s \in SUBSET (1..N) |->
                            IF s = {} THEN NoParts ELSE Join(h[s \ {Max(s)}], segs[Max(s)])]
           g == CHOOSE h : Rec(h)
<1>1. N \in Nat /\ DOMAIN segs = 1..N /\ \A n \in 1..N : segs[n] \in Words
  OBVIOUS
<1>2. NoParts \in Joining
  BY DEF NoParts, Joining, Words
<1>3. op \in [Joining \X (1..N) -> Joining]
  BY <1>1, JoinType
<1>4. FoldLeft(Join, NoParts, segs) = g[1..N]
  BY <1>1, Zenon DEF FoldLeft, MapThenFoldSet
<1>5. \A s \in SUBSET (1..N) : s # {} => Max(s) \in 1..N
  BY <1>1, MaxOf
<1>6. Rec(g)
  <2>1. PICK f \in [SUBSET (1..N) -> Joining] : IsFold(N, NoParts, op, f)
    <3> HIDE DEF op, N
    <3> QED BY <1>1, <1>2, <1>3, FoldExists
  <2>2. Rec(f)
    BY <1>5, <2>1 DEF IsFold
  <2> QED BY <2>2
<1> HIDE DEF g
<1>7. Computes(N, Joining, NoParts, op, g)
  BY <1>5, <1>6 DEF Computes
<1>8. PICK j : Runs(N, Joining, NoParts, op, j) /\ j[N] = g[1..N]
  <2>1. N \in Nat BY <1>1
  <2>2. Yields(N, Joining, NoParts, op, g[1..N])
    <3> HIDE DEF op, N
    <3> QED BY <1>2, <1>3, <1>7, <2>1, FoldSteps
  <2> QED BY <2>2 DEF Yields
<1>9. ASSUME NEW n \in 1..N PROVE j[n] = Join(j[n - 1], segs[n])
  <2>1. j[n - 1] \in Joining
    <3>1. n - 1 \in 0..N BY <1>1
    <3> QED BY <1>8, <3>1 DEF Runs
  <2> QED BY <1>8, <2>1 DEF Runs
<1> QED BY <1>4, <1>8, <1>9 DEF Joins, Runs, Joined

\* t[n] is what Picked has taken from the first n elements.
Picks(s, S, t) ==
    /\ t[0] = <<>>
    /\ \A n \in 1..Len(s) : t[n] = IF n \in S THEN Append(t[n - 1], s[n]) ELSE t[n - 1]

LEMMA PickSteps ==
    ASSUME NEW X, NEW s \in Seq(X), NEW S
    PROVE  \E t \in [0..Len(s) -> Seq(X)] : Picks(s, S, t) /\ Picked(s, S) = t[Len(s)]
<1> DEFINE N == Len(s)
           op == [x \in Seq(X) \X (1..N) |-> IF x[2] \in S THEN Append(x[1], s[x[2]]) ELSE x[1]]
           at == [i \in DOMAIN s |-> i]
           Rec(h) == h = [u \in SUBSET DOMAIN at |->
                            IF u = {} THEN <<>>
                            ELSE IF at[Max(u)] \in S
                                 THEN Append(h[u \ {Max(u)}], s[at[Max(u)]])
                                 ELSE h[u \ {Max(u)}]]
           g == CHOOSE h : Rec(h)
<1>1. N \in Nat /\ DOMAIN s = 1..N /\ \A n \in 1..N : s[n] \in X
  OBVIOUS
<1>2. <<>> \in Seq(X)
  OBVIOUS
<1>3. op \in [Seq(X) \X (1..N) -> Seq(X)]
  BY <1>1
<1>4. Picked(s, S) = g[DOMAIN at]
  BY Zenon DEF Picked, FoldLeftDomain, FoldLeft, MapThenFoldSet
<1>5. DOMAIN at = 1..N /\ \A u \in SUBSET (1..N) : u # {} => Max(u) \in 1..N /\ at[Max(u)] = Max(u)
  BY <1>1, MaxOf
<1> HIDE DEF at
<1>6. Rec(g)
  <2>1. PICK f \in [SUBSET (1..N) -> Seq(X)] : IsFold(N, <<>>, op, f)
    <3> HIDE DEF op, N
    <3> QED BY <1>1, <1>2, <1>3, FoldExists
  <2>2. Rec(f)
    BY <1>5, <2>1 DEF IsFold
  <2> QED BY <2>2
<1> HIDE DEF g
<1>7. Computes(N, Seq(X), <<>>, op, g)
  BY <1>5, <1>6 DEF Computes
<1>8. PICK t : Runs(N, Seq(X), <<>>, op, t) /\ t[N] = g[1..N]
  <2>1. N \in Nat BY <1>1
  <2>2. Yields(N, Seq(X), <<>>, op, g[1..N])
    <3> HIDE DEF op, N
    <3> QED BY <1>2, <1>3, <1>7, <2>1, FoldSteps
  <2> QED BY <2>2 DEF Yields
<1>9. ASSUME NEW n \in 1..N PROVE t[n] = IF n \in S THEN Append(t[n - 1], s[n]) ELSE t[n - 1]
  <2>1. t[n - 1] \in Seq(X)
    <3>1. n - 1 \in 0..N BY <1>1
    <3> QED BY <1>8, <3>1 DEF Runs
  <2> QED BY <1>8, <2>1 DEF Runs
<1> QED BY <1>4, <1>5, <1>8, <1>9 DEF Picks, Runs

LEMMA JoinedType == ASSUME NEW segs \in Seq(Words) PROVE Joined(segs) \in Joining
<1>1. PICK j : Joins(segs, j) /\ Joined(segs) = j[Len(segs)]
  BY JoinSteps
<1> QED BY <1>1 DEF Joins

LEMMA JoinedNothing == Joined(<<>>) = NoParts
<1>1. <<>> \in Seq(Words) /\ Len(<<>>) = 0
  OBVIOUS
<1>2. PICK j : Joins(<<>>, j) /\ Joined(<<>>) = j[Len(<<>>)]
  BY <1>1, JoinSteps
<1> QED BY <1>1, <1>2 DEF Joins

LEMMA JoinedAppend ==
    ASSUME NEW segs \in Seq(Words), NEW x \in Words
    PROVE  Joined(Append(segs, x)) = Join(Joined(segs), x)
<1> DEFINE N == Len(segs)
           more == Append(segs, x)
<1>1. more \in Seq(Words) /\ Len(more) = N + 1 /\ N \in Nat
      /\ more[N + 1] = x /\ \A n \in 1..N : more[n] = segs[n]
  OBVIOUS
<1>2. PICK j : Joins(segs, j) /\ Joined(segs) = j[N]
  BY JoinSteps
<1>3. PICK k : Joins(more, k) /\ Joined(more) = k[N + 1]
  <2> HIDE DEF more
  <2> QED BY <1>1, JoinSteps
<1> DEFINE Good == {n \in 0..N : j[n] = k[n]}
<1> HIDE DEF more, N
<1>4. \A n \in 0..N : n \in Good
  <2>1. 0 \in Good BY <1>1, <1>2, <1>3 DEF Joins
  <2>2. ASSUME NEW n \in 1..N, n - 1 \in Good PROVE n \in Good
    <3>1. j[n - 1] = k[n - 1] BY <2>2
    <3>2. j[n] = Join(j[n - 1], segs[n]) BY <1>2 DEF Joins, N
    <3>3. k[n] = Join(k[n - 1], more[n]) BY <1>1, <1>3 DEF Joins
    <3>4. more[n] = segs[n] BY <1>1
    <3> QED BY <1>1, <3>1, <3>2, <3>3, <3>4
  <2> HIDE DEF Good
  <2> QED BY <1>1, <2>1, <2>2, UpTo
<1>5. j[N] = k[N]
  <2>1. N \in 0..N BY <1>1
  <2> QED BY <1>4, <2>1
<1>6. k[N + 1] = Join(k[N], more[N + 1])
  <2>1. N + 1 \in 1..Len(more) /\ (N + 1) - 1 = N BY <1>1
  <2> QED BY <1>3, <2>1 DEF Joins
<1> QED BY <1>1, <1>2, <1>3, <1>5, <1>6 DEF more

-----------------------------------------------------------------------------
\* Picked.

LEMMA PickedType == ASSUME NEW X, NEW s \in Seq(X), NEW S PROVE Picked(s, S) \in Seq(X)
<1>1. PICK t \in [0..Len(s) -> Seq(X)] : Picks(s, S, t) /\ Picked(s, S) = t[Len(s)]
  BY PickSteps
<1> QED BY <1>1

LEMMA PickedNone ==
    ASSUME NEW X, NEW s \in Seq(X), NEW S, S \cap (1..Len(s)) = {}
    PROVE  Picked(s, S) = <<>>
<1>1. PICK t \in [0..Len(s) -> Seq(X)] : Picks(s, S, t) /\ Picked(s, S) = t[Len(s)]
  BY PickSteps
<1> DEFINE N == Len(s)
           Good == {n \in 0..N : t[n] = <<>>}
<1>2. N \in Nat
  OBVIOUS
<1>3. \A n \in 0..N : n \in Good
  <2>1. 0 \in Good BY <1>1, <1>2 DEF Picks
  <2>2. ASSUME NEW n \in 1..N, n - 1 \in Good PROVE n \in Good
    <3>1. n \notin S OBVIOUS
    <3> QED BY <1>1, <1>2, <2>2, <3>1 DEF Picks
  <2> HIDE DEF Good, N
  <2> QED BY <1>2, <2>1, <2>2, UpTo
<1> QED BY <1>1, <1>2, <1>3

LEMMA PickedSame ==
    ASSUME NEW X, NEW s \in Seq(X), NEW S, NEW T, S \cap (1..Len(s)) = T \cap (1..Len(s))
    PROVE  Picked(s, S) = Picked(s, T)
<1>1. PICK t \in [0..Len(s) -> Seq(X)] : Picks(s, S, t) /\ Picked(s, S) = t[Len(s)]
  BY PickSteps
<1>2. PICK u \in [0..Len(s) -> Seq(X)] : Picks(s, T, u) /\ Picked(s, T) = u[Len(s)]
  BY PickSteps
<1> DEFINE N == Len(s)
           Good == {n \in 0..N : t[n] = u[n]}
<1>3. N \in Nat
  OBVIOUS
<1>4. \A n \in 0..N : n \in Good
  <2>1. 0 \in Good BY <1>1, <1>2, <1>3 DEF Picks
  <2>2. ASSUME NEW n \in 1..N, n - 1 \in Good PROVE n \in Good
    <3>1. n \in S <=> n \in T OBVIOUS
    <3> QED BY <1>1, <1>2, <1>3, <2>2, <3>1 DEF Picks
  <2> HIDE DEF Good, N
  <2> QED BY <1>3, <2>1, <2>2, UpTo
<1> QED BY <1>1, <1>2, <1>3, <1>4

\* A position behind all others adds its element at the end.
LEMMA PickedAdd ==
    ASSUME NEW X, NEW s \in Seq(X), NEW S, NEW m \in 1..Len(s),
           \A i \in S \cap (1..Len(s)) : i < m
    PROVE  Picked(s, S \cup {m}) = Append(Picked(s, S), s[m])
<1>1. PICK t \in [0..Len(s) -> Seq(X)] : Picks(s, S, t) /\ Picked(s, S) = t[Len(s)]
  BY PickSteps
<1>2. PICK u \in [0..Len(s) -> Seq(X)] :
         Picks(s, S \cup {m}, u) /\ Picked(s, S \cup {m}) = u[Len(s)]
  BY PickSteps
<1> DEFINE N == Len(s)
           Good == {n \in 0..N : u[n] = IF n < m THEN t[n] ELSE Append(t[n], s[m])}
<1>3. N \in Nat /\ m \in 1..N
  OBVIOUS
<1>4. \A n \in 0..N : n \in Good
  <2>1. 0 \in Good BY <1>1, <1>2, <1>3 DEF Picks
  <2>2. ASSUME NEW n \in 1..N, n - 1 \in Good PROVE n \in Good
    <3>1. u[n - 1] = IF n - 1 < m THEN t[n - 1] ELSE Append(t[n - 1], s[m])
      BY <2>2
    <3>2. u[n] = (IF n \in S \cup {m} THEN Append(u[n - 1], s[n]) ELSE u[n - 1])
          /\ t[n] = (IF n \in S THEN Append(t[n - 1], s[n]) ELSE t[n - 1])
      BY <1>1, <1>2 DEF Picks
    <3>3. u[n] = IF n < m THEN t[n] ELSE Append(t[n], s[m])
      <4>1. CASE n < m
        BY <1>3, <3>1, <3>2, <4>1
      <4>2. CASE n = m
        <5>1. n \notin S BY <4>2
        <5>2. n - 1 < m /\ ~(n < m) BY <1>3, <4>2
        <5> QED BY <3>1, <3>2, <4>2, <5>1, <5>2
      <4>3. CASE n > m
        <5>1. n \notin S /\ n # m BY <1>3, <4>3
        <5>2. ~(n - 1 < m) /\ ~(n < m) BY <1>3, <4>3
        <5> QED BY <3>1, <3>2, <5>1, <5>2
      <4> QED BY <1>3, <4>1, <4>2, <4>3
    <3> QED BY <3>3
  <2> HIDE DEF Good, N
  <2> QED BY <1>3, <2>1, <2>2, UpTo
<1>5. u[N] = Append(t[N], s[m])
  <2>1. N \in Good /\ ~(N < m) BY <1>3, <1>4
  <2> QED BY <2>1
<1> QED BY <1>1, <1>2, <1>5

\* A run of positions behind all others adds that part of the sequence.
LEMMA PickedRun ==
    ASSUME NEW X, NEW s \in Seq(X), NEW S, NEW lo \in 1..(Len(s) + 1), NEW hi \in (lo - 1)..Len(s),
           \A i \in S \cap (1..Len(s)) : i < lo
    PROVE  Picked(s, S \cup (lo..hi)) = Picked(s, S) \o SubSeq(s, lo, hi)
<1> DEFINE Eq(k) == Picked(s, S \cup (lo..k)) = Picked(s, S) \o SubSeq(s, lo, k)
           N == hi - (lo - 1)
           Good == {n \in 0..N : Eq((lo - 1) + n)}
<1>1. N \in Nat /\ (lo - 1) + N = hi /\ Len(s) \in Nat /\ lo \in Nat /\ hi \in Nat
  OBVIOUS
<1>2. Picked(s, S) \in Seq(X)
  BY PickedType
<1>3. Eq(lo - 1)
  <2>1. lo..(lo - 1) = {} /\ SubSeq(s, lo, lo - 1) = <<>>
    BY <1>1, SubSeqEmpty
  <2>2. S \cup {} = S /\ Picked(s, S) \o <<>> = Picked(s, S)
    BY <1>2
  <2> QED BY <2>1, <2>2
<1>4. ASSUME NEW k \in lo..hi, Eq(k - 1) PROVE Eq(k)
  <2> DEFINE T == S \cup (lo..(k - 1))
  <2>1. k \in 1..Len(s) /\ lo \in 1..Len(s) /\ k \in lo..Len(s) /\ k - 1 \in Int
    BY <1>1
  <2>2. T \cup {k} = S \cup (lo..k) /\ \A i \in T \cap (1..Len(s)) : i < k
    BY <1>1, <2>1
  <2>3. Picked(s, S \cup (lo..k)) = Append(Picked(s, T), s[k])
    <3> HIDE DEF T
    <3> QED BY <2>1, <2>2, PickedAdd
  <2>4. Picked(s, T) = Picked(s, S) \o SubSeq(s, lo, k - 1)
    BY <1>4
  <2>5. SubSeq(s, lo, k) = SubSeq(s, lo, k - 1) \o <<s[k]>>
    BY <2>1, SubSeqRecursiveSecond
  <2>6. s[k] \in X /\ <<s[k]>> \in Seq(X) /\ Picked(s, T) \in Seq(X)
    BY <2>1, PickedType
  <2>7. \A i \in lo..(k - 1) : s[i] \in X
    BY <1>1, <2>1
  <2>8. SubSeq(s, lo, k - 1) \in Seq(X)
    BY <1>1, <2>1, <2>7, SubSeqProperties
  <2>9. Append(Picked(s, T), s[k]) = Picked(s, T) \o <<s[k]>>
    BY <2>6, AppendIsConcat
  <2>10. (Picked(s, S) \o SubSeq(s, lo, k - 1)) \o <<s[k]>>
           = Picked(s, S) \o (SubSeq(s, lo, k - 1) \o <<s[k]>>)
    <3> DEFINE a == Picked(s, S)
               b == SubSeq(s, lo, k - 1)
               e == <<s[k]>>
    <3>1. a \in Seq(X) /\ b \in Seq(X) /\ e \in Seq(X)
      BY <1>2, <2>6, <2>8
    <3> HIDE DEF a, b, e
    <3>2. (a \o b) \o e = a \o (b \o e)
      BY <3>1, ConcatAssociative
    <3> QED BY <3>2 DEF a, b, e
  <2> QED BY <2>3, <2>4, <2>5, <2>9, <2>10
<1> HIDE DEF Eq
<1>5. \A n \in 0..N : n \in Good
  <2>1. 0 \in Good
    <3>1. (lo - 1) + 0 = lo - 1 BY <1>1
    <3> QED BY <1>1, <1>3, <3>1
  <2>2. ASSUME NEW n \in 1..N, n - 1 \in Good PROVE n \in Good
    <3>1. (lo - 1) + n \in lo..hi /\ ((lo - 1) + n) - 1 = (lo - 1) + (n - 1) BY <1>1
    <3>2. Eq((lo - 1) + (n - 1)) BY <2>2
    <3>3. Eq((lo - 1) + n) BY <1>4, <3>1, <3>2
    <3> QED BY <3>3
  <2> HIDE DEF Good, N
  <2> QED BY <1>1, <2>1, <2>2, UpTo
<1>6. Eq(hi)
  <2>1. N \in 0..N BY <1>1
  <2>2. N \in Good BY <1>5, <2>1
  <2> QED BY <1>1, <2>2
<1> QED BY <1>6 DEF Eq

-----------------------------------------------------------------------------
\* Quotation marks and blanks.

LEMMA QuotedStep ==
    ASSUME NEW q \in Words
    PROVE  /\ ~Quoted(q, 1)
           /\ \A n \in 1..Len(q) : Quoted(q, n + 1) <=> (IF q[n] = Mark THEN ~Quoted(q, n) ELSE Quoted(q, n))
<1> DEFINE Marks(i) == {j \in 1..(i - 1) : q[j] = Mark}
<1>1. \A i : Quoted(q, i) <=> Cardinality(Marks(i)) % 2 = 1
  BY DEF Quoted, Quantify
<1>2. ~Quoted(q, 1)
  <2>1. Marks(1) = {} OBVIOUS
  <2>2. Cardinality(Marks(1)) = 0 BY <2>1, FS_EmptySet
  <2> QED BY <1>1, <2>2
<1>3. ASSUME NEW n \in 1..Len(q)
      PROVE  Quoted(q, n + 1) <=> (IF q[n] = Mark THEN ~Quoted(q, n) ELSE Quoted(q, n))
  <2>0. n \in Nat
    BY DEF Words
  <2>1. IsFiniteSet(Marks(n)) /\ Cardinality(Marks(n)) \in Nat
    <3>1. IsFiniteSet(1..(n - 1)) BY <2>0, FS_Interval
    <3>2. Marks(n) \in SUBSET (1..(n - 1)) OBVIOUS
    <3> HIDE DEF Marks
    <3> QED BY <3>1, <3>2, FS_Subset, FS_CardinalityType
  <2>2. CASE q[n] = Mark
    <3>1. Marks(n + 1) = Marks(n) \cup {n} /\ n \notin Marks(n)
      BY <2>0, <2>2
    <3> HIDE DEF Marks
    <3>2. Cardinality(Marks(n + 1)) = Cardinality(Marks(n)) + 1
      BY <2>1, <3>1, FS_AddElement
    <3>3. Quoted(q, n + 1) <=> ~Quoted(q, n)
      BY <1>1, <2>1, <3>2
    <3> QED BY <2>2, <3>3
  <2>3. CASE q[n] # Mark
    <3>1. Marks(n + 1) = Marks(n)
      BY <2>0, <2>3
    <3> HIDE DEF Marks
    <3>2. Quoted(q, n + 1) <=> Quoted(q, n)
      BY <1>1, <3>1
    <3> QED BY <2>3, <3>2
  <2> QED BY <2>2, <2>3
<1> QED BY <1>2, <1>3

\* What stands right behind a blank is not quoted.
LEMMA BlankUnquoted ==
    ASSUME NEW q \in Words, NEW b \in 0..Len(q), Blank(q, b)
    PROVE  ~Quoted(q, b + 1)
<1>1. Len(q) \in Nat
  BY DEF Words
<1>2. CASE b = 0
  BY <1>2, QuotedStep
<1>3. CASE b \in 1..Len(q)
  <2>1. q[b] = Space /\ ~Quoted(q, b)
    BY <1>1, <1>3 DEF Blank
  <2>2. q[b] # Mark
    BY <2>1 DEF Space, Mark
  <2> QED BY <1>3, <2>1, <2>2, QuotedStep
<1> QED BY <1>1, <1>2, <1>3

\* A connector is not a blank.
LEMMA JointsSolid ==
    ASSUME NEW q \in Words, NEW j \in Joints(q)
    PROVE  /\ j \in 1..Len(q)
           /\ q[j] = Connector
           /\ ~Blank(q, j)
           /\ Blank(q, j - 1) /\ Blank(q, j + 1)
<1>1. Len(q) \in Nat /\ DOMAIN q = 1..Len(q)
  BY DEF Words
<1>2. j \in 1..Len(q) /\ q[j] = Connector /\ Blank(q, j - 1) /\ Blank(q, j + 1)
  BY <1>1 DEF Joints
<1>3. j # 0 /\ j # Len(q) + 1 /\ q[j] # Space
  BY <1>1, <1>2 DEF Connector, Space
<1>4. ~Blank(q, j)
  BY <1>3 DEF Blank
<1> QED BY <1>2, <1>4

LEMMA BeforeIs ==
    ASSUME NEW q \in Words, NEW e \in 0..(Len(q) + 1)
    PROVE  /\ Before(q, e) \in 0..Len(q)
           /\ Before(q, e) = 0 \/ (Before(q, e) \in Joints(q) /\ Before(q, e) < e)
           /\ \A j \in Joints(q) : j < e => j <= Before(q, e)
<1> DEFINE T == {0} \cup {j \in Joints(q) : j < e}
<1>1. Len(q) \in Nat /\ T \in SUBSET (0..Len(q)) /\ T # {}
  BY JointsSolid DEF Words
<1>2. Max(T) \in T /\ \A m \in T : m <= Max(T)
  <2> HIDE DEF T
  <2> QED BY <1>1, MaxIs
<1>3. Before(q, e) = Max(T)
  BY DEF Before
<1> QED BY <1>1, <1>2, <1>3

\* Two positions with no connector between them have the same one before them.
LEMMA BeforeSame ==
    ASSUME NEW q \in Words, NEW d \in 0..(Len(q) + 1), NEW e \in 0..(Len(q) + 1),
           \A j \in Joints(q) : j < d <=> j < e
    PROVE  Before(q, d) = Before(q, e)
  BY DEF Before

-----------------------------------------------------------------------------
\* The second loop beside the reference.

\* All that counts between the last connector before b and the blank b.
Text(q, b) == Picked(q, Counts(q, Before(q, b) + 1, b))

PieceSeq(q) == [e \in 1..(Len(q) + 1) |-> Piece(q, e)]
Kept(q, S) == {e \in S : Piece(q, e) # <<>>}

\* The accumulator is the text, without the blank in front of it.
Fits(acc, text) ==
    \/ acc = <<>> /\ text = <<>>
    \/ acc # <<>> /\ acc[1] # Space /\ text \in {acc, <<Space>> \o acc}

\* The loop has done its work as far as the blank b.
Agrees(q, b, p) ==
    /\ p \in Joining
    /\ p.parts = Picked(PieceSeq(q), Kept(q, {e \in Joints(q) : e < b}))
    /\ Fits(p.acc, Text(q, b))

LEMMA TrimFits ==
    ASSUME NEW acc \in Words, NEW text, Fits(acc, text)
    PROVE  Trim(text) = Trim(acc)
<1>1. CASE text = acc
  BY <1>1
<1>2. CASE acc # <<>> /\ acc[1] # Space /\ text = <<Space>> \o acc
  <2> DEFINE N == Len(acc)
  <2>1. N \in Nat \ {0} /\ 1 \in Solid(acc)
    BY <1>2 DEF Words, Solid
  <2>2. <<Space>> \in Words
    BY DEF Words, Chars
  <2>3. text \in Words /\ Len(text) = N + 1 /\ text[1] = Space /\ \A i \in 1..N : text[i + 1] = acc[i]
    BY <1>2, <2>2 DEF Words
  <2>4. Solid(text) = {i + 1 : i \in Solid(acc)}
    <3>1. ASSUME NEW i \in Solid(acc) PROVE i + 1 \in Solid(text)
      BY <2>1, <2>3 DEF Solid, Words
    <3>2. ASSUME NEW k \in Solid(text) PROVE k - 1 \in Solid(acc) /\ k = (k - 1) + 1
      <4>1. k \in 1..(N + 1) /\ text[k] # Space
        BY <2>1, <2>3 DEF Solid, Words
      <4>2. k - 1 \in 1..N /\ k = (k - 1) + 1
        BY <2>1, <2>3, <4>1
      <4>3. text[(k - 1) + 1] = acc[k - 1]
        BY <2>3, <4>2
      <4> QED BY <4>1, <4>2, <4>3 DEF Solid, Words
    <3> QED BY <3>1, <3>2
  <2> DEFINE lo == Min(Solid(acc))
             hi == Max(Solid(acc))
  <2>5. lo \in Solid(acc) /\ hi \in Solid(acc) /\ \A i \in Solid(acc) : lo <= i /\ i <= hi
    BY <2>1, SolidEnds
  <2>6. lo = 1 /\ hi \in 1..N
    BY <2>1, <2>5 DEF Solid, Words
  <2>7. Min(Solid(text)) = 2 /\ Max(Solid(text)) = hi + 1
    <3>1. Solid(text) # {} BY <2>1, <2>4
    <3>2. /\ Min(Solid(text)) \in Solid(text) /\ \A i \in Solid(text) : Min(Solid(text)) <= i
          /\ Max(Solid(text)) \in Solid(text) /\ \A i \in Solid(text) : i <= Max(Solid(text))
      BY <2>3, <3>1, SolidEnds
    <3>3. 2 \in Solid(text) /\ hi + 1 \in Solid(text)
      BY <2>1, <2>4, <2>5
    <3>4. \A i \in Solid(text) : i \in Nat /\ 2 <= i /\ i <= hi + 1
      <4>1. \A i \in Solid(acc) : i \in 1..N BY DEF Solid, Words
      <4> SUFFICES ASSUME NEW i \in Solid(text) PROVE i \in Nat /\ 2 <= i /\ i <= hi + 1
        OBVIOUS
      <4>2. PICK k \in Solid(acc) : i = k + 1
        BY <2>4
      <4>3. k \in 1..N /\ k <= hi
        BY <2>5, <4>1
      <4> HIDE DEF hi, lo
      <4> QED BY <2>1, <2>6, <4>2, <4>3
    <3> HIDE DEF hi, lo
    <3> QED BY <2>6, <3>2, <3>3, <3>4
  <2>8. SubSeq(text, 2, hi + 1) = SubSeq(acc, 1, hi)
    <3> HIDE DEF hi
    <3>1. SubSeq(text, 2, hi + 1) \in Words /\ SubSeq(acc, 1, hi) \in Words
          /\ Len(SubSeq(text, 2, hi + 1)) = hi /\ Len(SubSeq(acc, 1, hi)) = hi
      BY <2>1, <2>3, <2>6 DEF Words
    <3>2. ASSUME NEW i \in 1..hi PROVE SubSeq(text, 2, hi + 1)[i] = SubSeq(acc, 1, hi)[i]
      BY <2>1, <2>3, <2>6 DEF Words
    <3> QED BY <3>1, <3>2, SeqEqual DEF Words
  <2> QED BY <2>1, <2>3, <2>4, <2>6, <2>7, <2>8 DEF Trim, Solid
<1> QED BY <1>1, <1>2 DEF Fits

LEMMA PieceType == ASSUME NEW q \in Words PROVE PieceSeq(q) \in Seq(Words) /\ Len(PieceSeq(q)) = Len(q) + 1
<1>1. \A e : Piece(q, e) \in Words
  BY PickedType, TrimType DEF Piece, Words
<1>2. Len(q) + 1 \in Nat
  BY DEF Words
<1> QED BY <1>1, <1>2 DEF PieceSeq

\* At a connector or at the end, what is in the accumulator becomes the piece that
\* ends there.
LEMMA EndedAdds ==
    ASSUME NEW q \in Words, NEW b \in 0..(Len(q) + 1), NEW p, Agrees(q, b, p),
           NEW e \in 1..(Len(q) + 1), b <= e, Piece(q, e) = Trim(Text(q, b))
    PROVE  Ended(p) = Picked(PieceSeq(q), Kept(q, {j \in Joints(q) : j < b} \cup {e}))
<1> DEFINE S == Kept(q, {j \in Joints(q) : j < b})
<1>1. p.acc \in Words /\ p.parts = Picked(PieceSeq(q), S)
  BY DEF Agrees, Joining
<1>2. Trim(p.acc) = Piece(q, e)
  BY <1>1, TrimFits DEF Agrees
<1>3. CASE Piece(q, e) = <<>>
  <2>1. Kept(q, {j \in Joints(q) : j < b} \cup {e}) = S
    BY <1>3 DEF Kept
  <2> QED BY <1>1, <1>2, <1>3, <2>1 DEF Ended
<1>4. CASE Piece(q, e) # <<>>
  <2>1. Kept(q, {j \in Joints(q) : j < b} \cup {e}) = S \cup {e}
    BY <1>4 DEF Kept
  <2>2. \A j \in S : j < e
    <3>1. \A j \in Joints(q) : j \in Nat BY JointsSolid DEF Words
    <3> QED BY <3>1 DEF Kept, Words
  <2>3. PieceSeq(q) \in Seq(Words) /\ e \in 1..Len(PieceSeq(q)) /\ PieceSeq(q)[e] = Piece(q, e)
    BY PieceType DEF PieceSeq
  <2>4. Picked(PieceSeq(q), S \cup {e}) = Append(Picked(PieceSeq(q), S), Piece(q, e))
    <3> HIDE DEF S
    <3> QED BY <2>2, <2>3, PickedAdd
  <2> QED BY <1>1, <1>2, <1>4, <2>1, <2>4 DEF Ended
<1> QED BY <1>3, <1>4

\* From one blank to the next.
Between(q, b, c) ==
    /\ b \in 0..Len(q) /\ c \in (b + 1)..(Len(q) + 1)
    /\ Blank(q, b) /\ Blank(q, c)
    /\ \A i \in (b + 1)..(c - 1) : ~Blank(q, i)

Word(q, b, c) == SubSeq(q, b + 1, c - 1)

LEMMA WordIs ==
    ASSUME NEW q \in Words, NEW b, NEW c, Between(q, b, c)
    PROVE  /\ Word(q, b, c) \in Words
           /\ Len(Word(q, b, c)) = (c - 1) - b
           /\ \A i \in 1..((c - 1) - b) : Word(q, b, c)[i] = q[b + i]
<1> DEFINE m == b + 1
           n == c - 1
<1>1. m \in Int /\ n \in Int /\ b \in Int /\ n - m + 1 = n - b /\ n - b \in Nat /\ m <= n + 1
  BY DEF Between, Words
<1>2. \A i \in m..n : q[i] \in Chars
  BY DEF Between, Words
<1>3. Word(q, b, c) = SubSeq(q, m, n)
  BY DEF Word
<1>4. \A i \in 1..(n - b) : m + i - 1 = b + i
  BY <1>1
<1>5. n - b = (c - 1) - b
  OBVIOUS
<1> HIDE DEF m, n
<1>6. /\ SubSeq(q, m, n) \in Seq(Chars)
      /\ Len(SubSeq(q, m, n)) = IF m <= n THEN n - m + 1 ELSE 0
      /\ \A i \in 1..(n - m + 1) : SubSeq(q, m, n)[i] = q[m + i - 1]
  BY <1>1, <1>2, SubSeqProperties
<1>7. Len(SubSeq(q, m, n)) = n - b
  BY <1>1, <1>6
<1> QED BY <1>1, <1>3, <1>4, <1>5, <1>6, <1>7 DEF Words

\* A connector between them is all that is between them.
LEMMA JointAlone ==
    ASSUME NEW q \in Words, NEW b, NEW c, Between(q, b, c)
    PROVE  /\ b \notin Joints(q) /\ c \notin Joints(q)
           /\ \A j \in Joints(q) : b < j /\ j < c => j = b + 1 /\ c = b + 2
           /\ Word(q, b, c) = <<Connector>> <=> (c = b + 2 /\ b + 1 \in Joints(q))
<1>1. b \in Int /\ c \in Int /\ Len(q) \in Nat /\ DOMAIN q = 1..Len(q)
  BY DEF Between, Words
<1>2. b \notin Joints(q) /\ c \notin Joints(q)
  BY JointsSolid DEF Between
<1>3. ASSUME NEW j \in Joints(q), b < j, j < c PROVE j = b + 1 /\ c = b + 2
  <2>1. j \in Int /\ Blank(q, j - 1) /\ Blank(q, j + 1)
    BY <1>1, JointsSolid
  <2>2. j - 1 \notin (b + 1)..(c - 1) /\ j + 1 \notin (b + 1)..(c - 1)
    BY <2>1 DEF Between
  <2> QED BY <1>1, <1>3, <2>1, <2>2
<1>4. ASSUME c = b + 2, b + 1 \in Joints(q) PROVE Word(q, b, c) = <<Connector>>
  <2>1. q[b + 1] = Connector /\ (c - 1) - b = 1
    BY <1>1, <1>4, JointsSolid
  <2>2. Len(Word(q, b, c)) = 1 /\ Word(q, b, c)[1] = Connector /\ Word(q, b, c) \in Words
    <3>1. 1 \in 1..((c - 1) - b) BY <2>1
    <3> QED BY <2>1, <3>1, WordIs
  <2> QED BY <2>2 DEF Words
<1>5. ASSUME Word(q, b, c) = <<Connector>> PROVE c = b + 2 /\ b + 1 \in Joints(q)
  <2>1. Len(<<Connector>>) = 1 /\ <<Connector>>[1] = Connector
    OBVIOUS
  <2>2. (c - 1) - b = 1
    BY <1>5, <2>1, WordIs
  <2>3. q[b + 1] = Connector
    BY <1>5, <2>1, <2>2, WordIs
  <2>4. c = b + 2
    BY <1>1, <2>2
  <2>5. ~Quoted(q, b + 1)
    BY BlankUnquoted DEF Between
  <2>6. b + 1 \in 1..Len(q) /\ (b + 1) - 1 = b /\ (b + 1) + 1 = c
    BY <1>1, <2>4 DEF Between
  <2> QED BY <1>1, <2>3, <2>4, <2>5, <2>6 DEF Joints, Between
<1> QED BY <1>2, <1>3, <1>4, <1>5

\* What counts up to the next blank: what counted before, the blank between if the
\* piece does not begin with the word, and the word.
LEMMA CountsOn ==
    ASSUME NEW q \in Words, NEW b, NEW c, Between(q, b, c), NEW lo \in 1..(b + 1)
    PROVE  /\ c = b + 1 => Counts(q, lo, c) \cap (1..Len(q)) = Counts(q, lo, b) \cap (1..Len(q))
           /\ c # b + 1 => Counts(q, lo, c) = Counts(q, lo, b) \cup ((IF lo <= b THEN b ELSE b + 1)..(c - 1))
<1>1. b \in Int /\ c \in Int /\ lo \in Int /\ b < c /\ Blank(q, b) /\ Blank(q, c)
      /\ \A i \in Int : b < i /\ i < c => ~Blank(q, i)
  BY DEF Between, Words
<1>2. \A i, d : i \in Counts(q, lo, d) <=> i \in lo..d /\ ~(Blank(q, i) /\ (i = d \/ Blank(q, i + 1)))
  BY DEF Counts
<1>3. ASSUME NEW i \in Int, i < b PROVE i \in Counts(q, lo, c) <=> i \in Counts(q, lo, b)
  BY <1>1, <1>2, <1>3
<1>4. b \notin Counts(q, lo, b) /\ c \notin Counts(q, lo, c)
  BY <1>1, <1>2
<1>5. b \in Counts(q, lo, c) <=> lo <= b /\ c # b + 1
  BY <1>1, <1>2
<1>6. ASSUME NEW i \in Int, b < i, i < c PROVE i \in Counts(q, lo, c) /\ i \notin Counts(q, lo, b)
  BY <1>1, <1>2, <1>6
<1>7. \A i : i \in Counts(q, lo, c) => i \in Int /\ i <= c
  BY <1>1, <1>2
<1>8. \A i : i \in Counts(q, lo, b) => i \in Int /\ i <= b
  BY <1>1, <1>2
<1>9. ASSUME NEW i, c = b + 1 PROVE i \in Counts(q, lo, c) <=> i \in Counts(q, lo, b)
  BY <1>1, <1>3, <1>4, <1>5, <1>7, <1>8, <1>9
<1>10. ASSUME NEW i, c # b + 1
       PROVE  i \in Counts(q, lo, c)
                <=> i \in Counts(q, lo, b) \/ i \in (IF lo <= b THEN b ELSE b + 1)..(c - 1)
  BY <1>1, <1>3, <1>4, <1>5, <1>6, <1>7, <1>8, <1>10
<1> QED BY <1>9, <1>10

LEMMA SpaceBetween ==
    ASSUME NEW acc \in Words, NEW word \in Words
    PROVE  /\ (acc \o <<Space>>) \o word = acc \o (<<Space>> \o word)
           /\ (<<Space>> \o acc) \o (<<Space>> \o word) = <<Space>> \o (acc \o (<<Space>> \o word))
<1> DEFINE sp == <<Space>>
           tail == sp \o word
<1>1. sp \in Seq(Chars) /\ acc \in Seq(Chars) /\ word \in Seq(Chars)
  BY DEF Chars, Words
<1> HIDE DEF sp
<1>2. tail \in Seq(Chars)
  BY <1>1
<1>3. (acc \o sp) \o word = acc \o (sp \o word)
  BY <1>1, ConcatAssociative
<1> HIDE DEF tail
<1>4. (sp \o acc) \o tail = sp \o (acc \o tail)
  BY <1>1, <1>2, ConcatAssociative
<1> QED BY <1>3, <1>4 DEF sp, tail

\* One more word for the accumulator and for the text.
LEMMA FitsOn ==
    ASSUME NEW acc \in Words, NEW text \in Words, NEW word \in Words, word # <<>>, word[1] # Space,
           Fits(acc, text), NEW more,
           more \in {text \o word, text \o (<<Space>> \o word)},
           text # <<>> => more = text \o (<<Space>> \o word)
    PROVE  Fits(IF acc = <<>> THEN word ELSE acc \o <<Space>> \o word, more)
<1> DEFINE sp == <<Space>>
<1>1. sp \in Seq(Chars) /\ Len(sp) = 1
  BY DEF Chars
<1>2. acc \in Seq(Chars) /\ text \in Seq(Chars) /\ word \in Seq(Chars) /\ sp \o word \in Seq(Chars)
  BY <1>1 DEF Words
<1> HIDE DEF sp
<1>3. CASE acc = <<>>
  <2>1. text = <<>>
    BY <1>3 DEF Fits
  <2>2. more \in {word, sp \o word}
    BY <1>2, <2>1, ConcatEmptySeq DEF sp
  <2> QED BY <1>3, <2>2 DEF Fits, sp
<1>4. CASE acc # <<>>
  <2> DEFINE tail == sp \o word
             new == (acc \o sp) \o word
  <2>0. tail \in Seq(Chars)
    BY <1>2
  <2>1. Len(acc) \in Nat \ {0} /\ acc[1] # Space
    BY <1>2, <1>4 DEF Fits
  <2>2. new = acc \o tail
    BY SpaceBetween DEF sp
  <2>3. new[1] = acc[1] /\ Len(new) # 0
    <3> HIDE DEF tail
    <3> QED BY <1>2, <2>0, <2>1, <2>2
  <2>4. new # <<>>
    BY <2>3
  <2>5. text # <<>> /\ text \in {acc, sp \o acc}
    <3>1. sp \o acc # <<>> BY <1>1, <1>2, ConcatEqualIffEmpty, <1>4
    <3> QED BY <1>4, <3>1 DEF Fits, sp
  <2>6. more = text \o (sp \o word)
    BY <2>5 DEF sp
  <2>7. (sp \o acc) \o tail = sp \o new
    BY <2>2, SpaceBetween DEF sp
  <2>8. more \in {new, sp \o new}
    BY <2>2, <2>5, <2>6, <2>7
  <2> QED BY <1>4, <2>1, <2>3, <2>4, <2>8 DEF Fits, sp
<1> QED BY <1>3, <1>4

\* From one blank to the next the loop goes on as the reference does.
LEMMA Closing ==
    ASSUME NEW q \in Words, NEW b, NEW c, Between(q, b, c), NEW p, Agrees(q, b, p)
    PROVE  Agrees(q, c, IF Word(q, b, c) = <<>> THEN p ELSE Join(p, Word(q, b, c)))
<1> DEFINE word == Word(q, b, c)
           lo == Before(q, b) + 1
<1>1. /\ b \in 0..Len(q) /\ c \in 1..(Len(q) + 1) /\ Len(q) \in Nat /\ b \in Int /\ c \in Int /\ b < c
      /\ \A j \in Joints(q) : j \in Int
  BY JointsSolid DEF Between, Words
<1>2. p \in Joining /\ p.acc \in Words /\ p.parts \in Seq(Words)
  BY DEF Agrees, Joining
<1>3. lo \in 1..(b + 1) /\ Before(q, b) \in Int
  BY <1>1, BeforeIs
<1>4. word \in Words /\ Len(word) = (c - 1) - b /\ \A i \in 1..((c - 1) - b) : word[i] = q[b + i]
  BY WordIs
<1>5. word = <<>> <=> c = b + 1
  BY <1>1, <1>4 DEF Words
<1>6. CASE c = b + 1
  <2>1. \A j \in Joints(q) : j < b <=> j < c
    BY <1>1, <1>6, JointAlone
  <2>2. Before(q, c) = Before(q, b)
    BY <1>1, <2>1, BeforeSame
  <2>3. Text(q, c) = Text(q, b)
    <3>1. Counts(q, lo, c) \cap (1..Len(q)) = Counts(q, lo, b) \cap (1..Len(q))
      BY <1>3, <1>6, CountsOn
    <3> QED BY <2>2, <3>1, PickedSame DEF Text, Words
  <2>4. {e \in Joints(q) : e < c} = {e \in Joints(q) : e < b}
    BY <2>1
  <2> QED BY <1>5, <1>6, <2>3, <2>4 DEF Agrees
<1>7. CASE word = <<Connector>>
  <2> DEFINE e == b + 1
  <2>1. c = b + 2 /\ e \in Joints(q) /\ e \in 1..(Len(q) + 1) /\ e < c /\ b <= e
    BY <1>1, <1>7, JointAlone
  <2>2. \A j \in Joints(q) : (j < b <=> j < e) /\ (j < c <=> j < b \/ j = e)
    BY <1>1, <2>1, JointAlone
  <2>3. Piece(q, e) = Trim(Text(q, b))
    <3>1. Before(q, e) = Before(q, b) /\ e - 1 = b
      BY <1>1, <2>1, <2>2, BeforeSame
    <3> QED BY <3>1 DEF Piece, Text
  <2>4. Ended(p) = Picked(PieceSeq(q), Kept(q, {j \in Joints(q) : j < b} \cup {e}))
    <3> HIDE DEF e
    <3> QED BY <1>1, <2>1, <2>3, EndedAdds
  <2>5. {j \in Joints(q) : j < c} = {j \in Joints(q) : j < b} \cup {e}
    BY <2>1, <2>2
  <2>6. Join(p, word) = [parts |-> Ended(p), acc |-> <<>>]
    BY <1>7 DEF Join
  <2>7. Join(p, word) \in Joining
    BY <1>2, <1>4, JoinType
  <2>8. Text(q, c) = <<>>
    <3>1. Before(q, c) = e
      BY <1>1, <2>1, BeforeIs
    <3>2. Counts(q, e + 1, c) = {}
      BY <1>1, <2>1 DEF Counts, Between
    <3> QED BY <3>1, <3>2, PickedNone DEF Text, Words
  <2>9. Agrees(q, c, Join(p, word))
    <3> DEFINE next == Join(p, word)
    <3>1. next.parts = Ended(p) /\ next.acc = <<>>
      BY <2>6
    <3>2. next.parts = Picked(PieceSeq(q), Kept(q, {j \in Joints(q) : j < c}))
      BY <2>4, <2>5, <3>1
    <3>3. Fits(next.acc, Text(q, c))
      BY <2>8, <3>1 DEF Fits
    <3>4. next \in Joining
      BY <2>7
    <3> HIDE DEF next
    <3>5. Agrees(q, c, next)
      BY <3>2, <3>3, <3>4 DEF Agrees
    <3> QED BY <3>5 DEF next
  <2>10. word # <<>>
    BY <1>1, <1>5, <2>1
  <2> QED BY <2>9, <2>10
<1>8. CASE c # b + 1 /\ word # <<Connector>>
  <2>1. \A j \in Joints(q) : j < b <=> j < c
    BY <1>1, <1>8, JointAlone
  <2>2. Before(q, c) = Before(q, b)
    BY <1>1, <2>1, BeforeSame
  <2>3. {e \in Joints(q) : e < c} = {e \in Joints(q) : e < b}
    BY <2>1
  <2>4. word # <<>> /\ 1 \in 1..((c - 1) - b)
    BY <1>1, <1>5, <1>8
  <2>5. word[1] # Space
    <3>1. word[1] = q[b + 1] /\ b + 1 \in (b + 1)..(c - 1)
      BY <1>1, <1>4, <2>4
    <3>2. ~Quoted(q, b + 1) /\ ~Blank(q, b + 1)
      BY <1>1, <3>1, BlankUnquoted DEF Between
    <3> QED BY <3>1, <3>2 DEF Blank
  <2>6. Text(q, c) \in {Text(q, b) \o word, Text(q, b) \o (<<Space>> \o word)}
        /\ (Text(q, b) # <<>> => Text(q, c) = Text(q, b) \o (<<Space>> \o word))
    <3> DEFINE S == Counts(q, lo, b)
    <3>1. \A i \in S : i \in Int /\ i < b
      BY <1>1, <1>3 DEF Counts, Between
    <3>2. Text(q, b) = Picked(q, S) /\ Text(q, c) = Picked(q, Counts(q, lo, c))
      BY <2>2 DEF Text
    <3>3. q \in Seq(Chars) /\ Picked(q, S) \in Seq(Chars)
      BY PickedType DEF Words
    <3>4. CASE lo <= b
      <4>1. b \in 1..Len(q) /\ b \in 1..(Len(q) + 1) /\ c - 1 \in b..Len(q) /\ c - 1 \in (b - 1)..Len(q)
        BY <1>1, <1>3, <3>4
      <4>2. Counts(q, lo, c) = S \cup (b..(c - 1))
        BY <1>3, <1>8, <3>4, CountsOn
      <4>3. Picked(q, S \cup (b..(c - 1))) = Picked(q, S) \o SubSeq(q, b, c - 1)
        <5> HIDE DEF S
        <5> QED BY <3>1, <3>3, <4>1, PickedRun
      <4>4. SubSeq(q, b, c - 1) = <<q[b]>> \o word
        BY <3>3, <4>1, SubSeqRecursiveFirst DEF Word
      <4>5. q[b] = Space
        BY <1>1, <4>1 DEF Between, Blank
      <4> QED BY <3>2, <4>2, <4>3, <4>4, <4>5
    <3>5. CASE ~(lo <= b)
      <4>1. b = 0 /\ lo = 1
        BY <1>1, <1>3, <3>5, BeforeIs, JointsSolid
      <4>2. S = {}
        BY <4>1 DEF Counts
      <4>3. Text(q, b) = <<>>
        BY <3>2, <3>3, <4>2, PickedNone
      <4>4. Counts(q, lo, c) = S \cup (1..(c - 1))
        BY <1>1, <1>3, <1>8, <3>5, <4>1, CountsOn
      <4>5. Picked(q, S \cup (1..(c - 1))) = Picked(q, S) \o SubSeq(q, 1, c - 1)
        <5>1. 1 \in 1..(Len(q) + 1) /\ c - 1 \in (1 - 1)..Len(q) BY <1>1
        <5>2. \A i \in S \cap (1..Len(q)) : i < 1 BY <4>2
        <5> HIDE DEF S
        <5> QED BY <3>3, <5>1, <5>2, PickedRun
      <4>6. SubSeq(q, 1, c - 1) = word
        BY <4>1 DEF Word
      <4> QED BY <3>2, <4>3, <4>4, <4>5, <4>6
    <3> QED BY <3>4, <3>5
  <2>7. Join(p, word) = [parts |-> p.parts,
                         acc |-> IF p.acc = <<>> THEN word ELSE p.acc \o <<Space>> \o word]
    BY <1>8 DEF Join
  <2>8. Join(p, word) \in Joining
    BY <1>2, <1>4, JoinType
  <2>9. Fits(IF p.acc = <<>> THEN word ELSE p.acc \o <<Space>> \o word, Text(q, c))
    <3>1. Text(q, b) \in Words /\ Fits(p.acc, Text(q, b))
      BY PickedType DEF Text, Words, Agrees
    <3> HIDE DEF word
    <3> QED BY <1>2, <1>4, <2>4, <2>5, <2>6, <3>1, FitsOn
  <2>10. Agrees(q, c, Join(p, word))
    <3> DEFINE next == Join(p, word)
    <3>1. next.parts = p.parts
          /\ next.acc = IF p.acc = <<>> THEN word ELSE p.acc \o <<Space>> \o word
      BY <2>7
    <3>2. next.parts = Picked(PieceSeq(q), Kept(q, {j \in Joints(q) : j < c}))
      BY <2>3, <3>1 DEF Agrees
    <3>3. Fits(next.acc, Text(q, c))
      BY <2>9, <3>1
    <3>4. next \in Joining
      BY <2>8
    <3> HIDE DEF next
    <3>5. Agrees(q, c, next)
      BY <3>2, <3>3, <3>4 DEF Agrees
    <3> QED BY <3>5 DEF next
  <2> QED BY <2>4, <2>10
<1> QED BY <1>5, <1>6, <1>7, <1>8

-----------------------------------------------------------------------------
\* The first loop beside the second and the reference.

\* After n characters the closed segments have been joined as far as the last blank b,
\* and the open segment is what stands behind it.
Follows(q, w, n) ==
    /\ w[n].quoted <=> Quoted(q, n + 1)
    /\ \E b \in 0..n :
          /\ Blank(q, b)
          /\ \A i \in (b + 1)..n : ~Blank(q, i)
          /\ w[n].cur = SubSeq(q, b + 1, n)
          /\ Agrees(q, b, Joined(w[n].segments))

\* Closing a segment at the next blank.
LEMMA ClosedOn ==
    ASSUME NEW q \in Words, NEW b, NEW c, Between(q, b, c), NEW s \in Walking,
           s.cur = Word(q, b, c), Agrees(q, b, Joined(s.segments))
    PROVE  Agrees(q, c, Joined(Closed(s)))
<1>1. s.segments \in Seq(Words) /\ s.cur \in Words
  BY DEF Walking
<1>2. CASE s.cur = <<>>
  <2>1. Closed(s) = s.segments
    BY <1>2 DEF Closed
  <2>2. Agrees(q, c, Joined(s.segments))
    BY <1>2, Closing
  <2> QED BY <2>1, <2>2
<1>3. CASE s.cur # <<>>
  <2>1. Closed(s) = Append(s.segments, s.cur)
    BY <1>3 DEF Closed
  <2>2. Joined(Closed(s)) = Join(Joined(s.segments), s.cur)
    BY <1>1, <2>1, JoinedAppend
  <2>3. Agrees(q, c, Join(Joined(s.segments), s.cur))
    BY <1>3, Closing
  <2> QED BY <2>2, <2>3
<1> QED BY <1>2, <1>3

LEMMA FollowsAtStart ==
    ASSUME NEW q \in Words, NEW w, Walks(q, w)
    PROVE  Follows(q, w, 0)
<1>1. w[0] = AtStart /\ Len(q) \in Nat
  BY DEF Walks, Words
<1>2. w[0].segments = <<>> /\ w[0].cur = <<>> /\ ~w[0].quoted
  BY <1>1 DEF AtStart
<1>3. w[0].quoted <=> Quoted(q, 0 + 1)
  BY <1>2, QuotedStep
<1>4. Blank(q, 0)
  BY DEF Blank
<1>5. SubSeq(q, 0 + 1, 0) = <<>>
  BY SubSeqEmpty
<1>6. Agrees(q, 0, NoParts)
  <2>1. NoParts \in Joining /\ NoParts.parts = <<>> /\ NoParts.acc = <<>>
    BY DEF NoParts, Joining, Words
  <2>2. Kept(q, {e \in Joints(q) : e < 0}) = {}
    <3>1. \A e \in Joints(q) : e \in 1..Len(q) BY JointsSolid
    <3>2. \A e \in Joints(q) : ~(e < 0) BY <1>1, <3>1
    <3> QED BY <3>2 DEF Kept
  <2>3. Picked(PieceSeq(q), {}) = <<>>
    BY PieceType, PickedNone
  <2>4. Text(q, 0) = <<>>
    <3>1. Before(q, 0) \in Nat
      BY <1>1, BeforeIs
    <3>2. Counts(q, Before(q, 0) + 1, 0) = {}
      BY <3>1 DEF Counts
    <3> QED BY <3>2, PickedNone DEF Text, Words
  <2>5. Fits(<<>>, <<>>)
    BY DEF Fits
  <2> QED BY <2>1, <2>2, <2>3, <2>4, <2>5 DEF Agrees
<1>7. Joined(w[0].segments) = NoParts
  BY <1>2, JoinedNothing
<1>8. /\ Blank(q, 0)
      /\ \A i \in (0 + 1)..0 : ~Blank(q, i)
      /\ w[0].cur = SubSeq(q, 0 + 1, 0)
      /\ Agrees(q, 0, Joined(w[0].segments))
  BY <1>2, <1>4, <1>5, <1>6, <1>7
<1>9. 0 \in 0..0
  OBVIOUS
<1> QED BY <1>3, <1>8, <1>9 DEF Follows

LEMMA FollowsStep ==
    ASSUME NEW q \in Words, NEW w, Walks(q, w), NEW n \in 1..Len(q), Follows(q, w, n - 1)
    PROVE  Follows(q, w, n)
<1> DEFINE s == w[n - 1]
           c == q[n]
<1>1. n \in Int /\ (n - 1) + 1 = n /\ Len(q) \in Nat /\ c \in Chars
  BY DEF Words
<1>2. s \in Walking /\ w[n] = Walk(s, c)
  <2>1. n - 1 \in 0..Len(q) BY <1>1
  <2> QED BY <2>1 DEF Walks
<1>3. s.quoted <=> Quoted(q, n)
  BY <1>1 DEF Follows
<1>4. PICK b \in 0..(n - 1) :
          /\ Blank(q, b)
          /\ \A i \in (b + 1)..(n - 1) : ~Blank(q, i)
          /\ s.cur = SubSeq(q, b + 1, n - 1)
          /\ Agrees(q, b, Joined(s.segments))
  BY DEF Follows
<1>5. Blank(q, n) <=> Separates(c, s.quoted)
  <2>1. n \notin {0, Len(q) + 1} BY <1>1
  <2> QED BY <1>3, <2>1 DEF Blank, Separates
<1>6. CASE Separates(c, s.quoted)
  <2>1. w[n] = [segments |-> Closed(s), cur |-> <<>>, quoted |-> s.quoted] /\ c # Mark
    BY <1>2, <1>6 DEF Walk, Separates, Space, Mark
  <2>2. Between(q, b, n)
    BY <1>1, <1>4, <1>5, <1>6 DEF Between
  <2>3. Agrees(q, n, Joined(Closed(s)))
    <3>1. s.cur = Word(q, b, n) BY <1>4 DEF Word
    <3> HIDE DEF s
    <3> QED BY <1>2, <1>4, <2>2, <3>1, ClosedOn
  <2>4. w[n].quoted <=> Quoted(q, n + 1)
    BY <1>3, <2>1, QuotedStep
  <2>5. SubSeq(q, n + 1, n) = <<>>
    BY <1>1, SubSeqEmpty
  <2>6. n \in 0..n /\ \A i \in (n + 1)..n : ~Blank(q, i)
    BY <1>1
  <2>7. w[n].cur = SubSeq(q, n + 1, n) /\ w[n].segments = Closed(s)
    BY <2>1, <2>5
  <2>8. Agrees(q, n, Joined(w[n].segments))
    BY <2>3, <2>7
  <2>9. Blank(q, n)
    BY <1>5, <1>6
  <2> HIDE DEF s, c
  <2> QED BY <2>4, <2>6, <2>7, <2>8, <2>9 DEF Follows
<1>7. CASE ~Separates(c, s.quoted)
  <2>1. w[n] = [segments |-> s.segments, cur |-> Append(s.cur, c),
                quoted |-> IF c = Mark THEN ~s.quoted ELSE s.quoted]
    BY <1>2, <1>7 DEF Walk
  <2>2. w[n].quoted <=> Quoted(q, n + 1)
    <3>1. w[n].quoted = IF c = Mark THEN ~s.quoted ELSE s.quoted
      BY <2>1
    <3> QED BY <1>3, <3>1, QuotedStep
  <2>3. w[n].segments = s.segments /\ w[n].cur = Append(s.cur, c)
    BY <2>1
  <2>4. b \in 0..n /\ \A i \in (b + 1)..n : ~Blank(q, i)
    <3>1. ~Blank(q, n) BY <1>5, <1>7
    <3>2. \A i \in (b + 1)..n : i \in (b + 1)..(n - 1) \/ i = n BY <1>1
    <3> QED BY <1>1, <1>4, <3>1, <3>2
  <2>5. Append(s.cur, c) = SubSeq(q, b + 1, n)
    <3>1. q \in Seq(Chars) /\ b + 1 \in 1..Len(q) /\ n \in (b + 1)..Len(q)
      BY <1>1, <1>4 DEF Words
    <3>2. SubSeq(q, b + 1, n) = SubSeq(q, b + 1, n - 1) \o <<q[n]>>
      BY <3>1, SubSeqRecursiveSecond
    <3>3. s.cur \in Seq(Chars)
      BY <1>2 DEF Walking, Words
    <3>4. Append(s.cur, c) = s.cur \o <<c>>
      BY <1>1, <3>3, AppendIsConcat
    <3> QED BY <1>4, <3>2, <3>4
  <2>6. w[n].cur = SubSeq(q, b + 1, n) /\ Agrees(q, b, Joined(w[n].segments))
    BY <1>4, <2>3, <2>5
  <2> HIDE DEF s, c
  <2> QED BY <1>4, <2>2, <2>4, <2>6 DEF Follows
<1> QED BY <1>6, <1>7

\* At the end of the query both loops have made the pieces.
LEMMA SplitPieces == ASSUME NEW q \in Words PROVE Split(q) = Pieces(q)
<1> DEFINE N == Len(q)
<1>1. N \in Nat /\ DOMAIN q = 1..N
  BY DEF Words
<1>2. PICK w : Walks(q, w) /\ Segments(q) = Closed(w[N])
  BY WalkSteps
<1>3. Follows(q, w, N)
  <2> DEFINE Good == {n \in 0..N : Follows(q, w, n)}
  <2>1. 0 \in Good
    BY <1>1, <1>2, FollowsAtStart
  <2>2. ASSUME NEW n \in 1..N, n - 1 \in Good PROVE n \in Good
    <3>1. Follows(q, w, n - 1) BY <2>2
    <3>2. Follows(q, w, n) BY <1>2, <3>1, FollowsStep
    <3>3. n \in 0..N BY <1>1
    <3> QED BY <3>2, <3>3
  <2>3. \A n \in 0..N : n \in Good
    <3> HIDE DEF Good, N
    <3> QED BY <1>1, <2>1, <2>2, UpTo
  <2>4. N \in 0..N
    BY <1>1
  <2> QED BY <2>3, <2>4
<1> DEFINE e == N + 1
           p == Joined(Segments(q))
<1>4. w[N] \in Walking
  <2>1. N \in 0..N BY <1>1
  <2> QED BY <1>2, <2>1 DEF Walks
<1>5. Agrees(q, e, p)
  <2>1. PICK b \in 0..N :
          /\ Blank(q, b)
          /\ \A i \in (b + 1)..N : ~Blank(q, i)
          /\ w[N].cur = SubSeq(q, b + 1, N)
          /\ Agrees(q, b, Joined(w[N].segments))
    BY <1>3 DEF Follows
  <2>2. (N + 1) - 1 = N
    BY <1>1
  <2>3. Between(q, b, e)
    <3>1. Blank(q, e) BY DEF Blank
    <3> QED BY <1>1, <2>1, <2>2, <3>1 DEF Between
  <2>4. w[N].cur = Word(q, b, e)
    BY <2>1, <2>2 DEF Word
  <2>5. Agrees(q, e, Joined(Closed(w[N])))
    <3> HIDE DEF e, N
    <3> QED BY <1>4, <2>1, <2>3, <2>4, ClosedOn
  <2> QED BY <1>2, <2>5
<1>6. Piece(q, e) = Trim(Text(q, e))
  <2> DEFINE lo == Before(q, e) + 1
  <2>1. Before(q, e) \in 0..N
    BY <1>1, BeforeIs
  <2>2. \A i \in 1..N : i \in Counts(q, lo, e - 1) <=> i \in Counts(q, lo, e)
    <3>1. Blank(q, e) BY DEF Blank
    <3> HIDE DEF lo
    <3>3. \A i \in 1..N : i # e /\ i <= e - 1 /\ i <= e /\ (i = e - 1 <=> i + 1 = e)
      <4>1. N \in Nat /\ e = N + 1 BY <1>1
      <4> HIDE DEF e, N
      <4> QED BY <4>1
    <3> SUFFICES ASSUME NEW i \in 1..N
                 PROVE  i \in Counts(q, lo, e - 1) <=> i \in Counts(q, lo, e)
      OBVIOUS
    <3>4. i # e /\ (i \in lo..(e - 1) <=> i \in lo..e) /\ (i = e - 1 <=> i + 1 = e)
      BY <3>3, <2>1 DEF lo
    <3>5. i \in Counts(q, lo, e - 1) <=> i \in lo..(e - 1) /\ ~(Blank(q, i) /\ (i = e - 1 \/ Blank(q, i + 1)))
      BY DEF Counts
    <3>6. i \in Counts(q, lo, e) <=> i \in lo..e /\ ~(Blank(q, i) /\ (i = e \/ Blank(q, i + 1)))
      BY DEF Counts
    <3> HIDE DEF e
    <3> QED BY <3>1, <3>4, <3>5, <3>6
  <2>3. Counts(q, lo, e - 1) \cap (1..N) = Counts(q, lo, e) \cap (1..N)
    BY <2>2
  <2>4. Picked(q, Counts(q, lo, e - 1)) = Picked(q, Counts(q, lo, e))
    <3> HIDE DEF lo, e
    <3>1. q \in Seq(Chars) BY DEF Words
    <3> QED BY <2>3, <3>1, PickedSame
  <2> QED BY <2>4 DEF Piece, Text
<1>7. {j \in Joints(q) : j < e} = Joints(q)
  <2>1. \A j \in Joints(q) : j \in 1..N BY JointsSolid
  <2> QED BY <1>1, <2>1
<1>8. Ended(p) = Picked(PieceSeq(q), Kept(q, {j \in Joints(q) : j < e} \cup {e}))
  <2>1. e \in 0..(Len(q) + 1) /\ e \in 1..(Len(q) + 1) /\ e <= e
    BY <1>1
  <2> HIDE DEF e, p
  <2> QED BY <1>5, <1>6, <2>1, EndedAdds
<1>9. Split(q) = Ended(p)
  BY DEF Split, Joined, NoParts
<1>10. Pieces(q) = Picked(PieceSeq(q), Kept(q, Joints(q) \cup {e}))
  BY DEF Pieces, PieceSeq, Kept
<1> QED BY <1>7, <1>8, <1>9, <1>10

-----------------------------------------------------------------------------
LEMMA BoundedIs ==
    ASSUME Limits
    PROVE  \A q : q \in BoundedSeq(Chars, MaxLength) <=> q \in Words /\ Len(q) <= MaxLength
<1>1. \A q : q \in BoundedSeq(Chars, MaxLength) <=> \E m \in 0..MaxLength : q \in [1..m -> Chars]
  BY DEF BoundedSeq, SeqOf
<1>2. ASSUME NEW q, NEW m \in 0..MaxLength, q \in [1..m -> Chars]
      PROVE  q \in Words /\ Len(q) <= MaxLength
  <2>1. m \in Nat /\ m <= MaxLength BY DEF Limits
  <2>2. q \in Seq(Chars) /\ Len(q) = m BY <1>2, <2>1
  <2> QED BY <2>1, <2>2 DEF Words
<1>3. ASSUME NEW q \in Words, Len(q) <= MaxLength
      PROVE  Len(q) \in 0..MaxLength /\ q \in [1..Len(q) -> Chars]
  BY <1>3 DEF Words, Limits
<1> QED BY <1>1, <1>2, <1>3

\* The query is made of the four kinds of characters, and no longer than its bound.
THEOREM QueryType == ASSUME Limits PROVE Spec => []TypeOK
<1>0. TypeOK <=> typed \in Words /\ Len(typed) <= MaxLength
  BY BoundedIs DEF TypeOK
<1>1. Init => TypeOK
  <2>1. <<>> \in Words /\ Len(<<>>) = 0
    BY DEF Words
  <2> QED BY <1>0, <2>1 DEF Limits, Init
<1>2. TypeOK /\ [Next]_typed => TypeOK'
  <2> SUFFICES ASSUME TypeOK, Next PROVE TypeOK'
    BY DEF TypeOK
  <2>1. PICK c \in Chars : Type(c)
    BY DEF Next
  <2>2. typed \in Words /\ Len(typed) < MaxLength
    BY <1>0, <2>1 DEF Type
  <2>3. Append(typed, c) \in Words /\ Len(Append(typed, c)) <= MaxLength
    BY <2>2 DEF Limits, Words
  <2>4. TypeOK' <=> typed' \in Words /\ Len(typed') <= MaxLength
    BY BoundedIs DEF TypeOK
  <2> QED BY <2>1, <2>3, <2>4 DEF Type
<1> QED BY <1>1, <1>2, PTL DEF Spec

\* Whatever is typed, the parts split_and makes of it are the pieces between the
\* connectors outside the quotation marks: no quotation mark, doubled space or
\* connector at an end makes, joins or loses a part, in a query of any length.
THEOREM QueryParts == ASSUME Limits PROVE Spec => []PartsAreThePieces
<1>1. TypeOK => PartsAreThePieces
  <2> SUFFICES ASSUME TypeOK PROVE PartsAreThePieces
    OBVIOUS
  <2>1. typed \in Words
    BY BoundedIs DEF TypeOK
  <2> QED BY <2>1, SplitPieces DEF PartsAreThePieces
<1> QED BY <1>1, QueryType, PTL
=============================================================================
