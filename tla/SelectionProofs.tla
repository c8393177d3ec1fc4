-------------------------- MODULE SelectionProofs --------------------------
(***************************************************************************)
(* What Filter gives, for every sequence and every set: its type, what     *)
(* Append and \o do to it, and where its members come from.  The provers   *)
(* have no use for the library's induction theorems, which take an         *)
(* operator, so induction is stated here over sets: a set of numbers that  *)
(* has 0 and with every number the next one has all of them.               *)
(***************************************************************************)
EXTENDS Selection, SequenceTheorems, FiniteSetTheorems, WellFoundedInduction, TLAPS

\* A set of natural numbers that is not empty has a least member.
LEMMA Least ==
    ASSUME NEW T \in SUBSET Nat, T # {}
    PROVE  \E n \in T : \A m \in T : n <= m
<1> DEFINE R == OpToRel(<, Nat)
<1>1. IsWellFoundedOn(R, Nat)
    BY NatLessThanWellFounded
<1>2. \A x, y \in Nat : x < y => <<x, y>> \in R
    BY DEF OpToRel
<1> HIDE DEF R
<1>3. PICK n \in T : \A m \in T : ~ (<<m, n>> \in R)
    BY <1>1, WFMin
<1>4. ASSUME NEW m \in T PROVE n <= m
    <2>1. m \in Nat /\ n \in Nat
        OBVIOUS
    <2>2. ~ (m < n)
        BY <1>2, <1>3, <2>1
    <2> QED
        BY <2>1, <2>2
<1> QED
    BY <1>4

\* Induction, over a set instead of a formula.
LEMMA Induction ==
    ASSUME NEW T, 0 \in T, \A n \in Nat : n \in T => n + 1 \in T
    PROVE  \A n \in Nat : n \in T
<1> DEFINE U == {n \in Nat : n \notin T}
<1>1. SUFFICES ASSUME U # {} PROVE FALSE
    OBVIOUS
<1>2. PICK n \in U : \A m \in U : n <= m
    BY <1>1, Least
<1>3. n # 0 /\ n - 1 \in Nat /\ n - 1 \notin U
    BY <1>2
<1>4. n - 1 \in T /\ (n - 1) + 1 = n
    BY <1>2, <1>3
<1> QED
    BY <1>2, <1>4

\* Induction up to a bound.
LEMMA InductionTo ==
    ASSUME NEW a \in Nat, NEW b \in Nat, NEW T, a \in T,
           \A n \in a .. b : n < b /\ n \in T => n + 1 \in T
    PROVE  \A n \in a .. b : n \in T
<1> DEFINE U == {n \in Nat : a + n <= b => a + n \in T}
<1>1. 0 \in U
    OBVIOUS
<1>2. ASSUME NEW n \in Nat, n \in U PROVE n + 1 \in U
    <2>1. CASE a + (n + 1) <= b
        <3>1. a + n \in a .. b /\ a + n < b
            BY <2>1
        <3>2. a + n \in T
            BY <1>2, <3>1
        <3>3. (a + n) + 1 \in T
            BY <3>1, <3>2
        <3> QED
            BY <3>3
    <2> QED
        BY <2>1
<1> HIDE DEF U
<1>3. \A n \in Nat : n \in U
    BY <1>1, <1>2, Induction
<1>4. ASSUME NEW n \in a .. b PROVE n \in T
    <2>1. n - a \in Nat /\ a + (n - a) = n
        OBVIOUS
    <2>2. n - a \in U
        BY <1>3, <2>1
    <2> QED
        BY <2>1, <2>2 DEF U
<1> QED
    BY <1>4

\* A function on an interval may be defined by its first value and the step
\* from one value to the next.
Definable(a, b, D, d, G) ==
    \E f \in [a .. b -> D] :
        f[a] = d /\ \A k \in a .. b : k # a => f[k] = G[<<k, f[k - 1]>>]

\* There is such a function, whatever the first value and the step.
LEMMA Recursion ==
    ASSUME NEW a \in Nat, NEW b \in Nat, a <= b, NEW D, NEW d \in D,
           NEW G \in [Nat \X D -> D]
    PROVE  Definable(a, b, D, d, G)
<1> DEFINE Upto(n, f) == /\ f \in [a .. n -> D] /\ f[a] = d
                         /\ \A k \in a .. n : k # a => f[k] = G[<<k, f[k - 1]>>]
           T == {n \in a .. b : \E f : Upto(n, f)}
<1>1. a \in T
    <2> DEFINE f == [k \in a .. a |-> d]
    <2>1. Upto(a, f)
        OBVIOUS
    <2> HIDE DEF f
    <2> QED
        BY <2>1
<1>2. ASSUME NEW n \in a .. b, n < b, n \in T PROVE n + 1 \in T
    <2>1. PICK f : Upto(n, f)
        BY <1>2
    <2> DEFINE g == [k \in a .. (n + 1) |->
                        IF k = n + 1 THEN G[<<k, f[n]>>] ELSE f[k]]
    <2>2. f[n] \in D /\ n + 1 \in Nat /\ G[<<n + 1, f[n]>>] \in D
        BY <2>1
    <2>3. g \in [a .. (n + 1) -> D]
        BY <2>1, <2>2
    <2>4. g[a] = d
        BY <2>1
    <2>5. ASSUME NEW k \in a .. (n + 1), k # a PROVE g[k] = G[<<k, g[k - 1]>>]
        <3>1. k - 1 \in a .. (n + 1) /\ k - 1 # n + 1 /\ g[k - 1] = f[k - 1]
            BY <2>5
        <3>2. CASE k = n + 1
            BY <3>1, <3>2
        <3>3. CASE k # n + 1
            <4>1. k \in a .. n
                BY <3>3
            <4> QED
                BY <2>1, <2>5, <3>1, <3>3, <4>1
        <3> QED
            BY <3>2, <3>3
    <2> HIDE DEF g
    <2>6. Upto(n + 1, g)
        BY <2>3, <2>4, <2>5
    <2> QED
        BY <1>2, <2>6
<1> HIDE DEF T
<1>3. b \in T
    <2>1. \A n \in a .. b : n < b /\ n \in T => n + 1 \in T
        BY <1>2
    <2>2. \A n \in a .. b : n \in T
        BY <1>1, <2>1, InductionTo
    <2> QED
        BY <2>2
<1> QED
    BY <1>3 DEF T, Definable

-----------------------------------------------------------------------------

\* Induction from a bound downwards: what holds of n whenever it holds of all
\* that are greater, holds everywhere.
LEMMA InductionDown ==
    ASSUME NEW P \in SUBSET Nat, NEW b \in Nat, NEW T,
           \A n \in P : (\A m \in P : n < m => m \in T) => n \in T,
           \A n \in P : n > b => n \in T
    PROVE  P \subseteq T
<1> DEFINE U == {k \in Nat : \A n \in P : n + k > b => n \in T}
<1>1. 0 \in U
    OBVIOUS
<1>2. ASSUME NEW k \in Nat, k \in U PROVE k + 1 \in U
    <2>1. ASSUME NEW n \in P, n + (k + 1) > b PROVE n \in T
        <3>1. \A m \in P : n < m => m + k > b
            BY <2>1
        <3>2. \A m \in P : n < m => m \in T
            BY <1>2, <3>1
        <3> QED
            BY <3>2
    <2> QED
        BY <2>1
<1> HIDE DEF U
<1>3. \A k \in Nat : k \in U
    BY <1>1, <1>2, Induction
<1>4. b + 1 \in U
    BY <1>3
<1> QED
    BY <1>4 DEF U

\* A function may also be defined by a step to a greater number, if nothing
\* beyond a bound takes one.
DefinableUp(P, stop, D, base, to, G) ==
    \E f \in [P -> D] :
        \A n \in P : f[n] = IF n \in stop THEN base[n] ELSE G[<<n, f[to[n]]>>]

\* A function defined from larger numbers up to a bound exists.
LEMMA RecursionUp ==
    ASSUME NEW P \in SUBSET Nat, NEW b \in Nat, NEW stop, NEW D, NEW base \in [P -> D],
           NEW to \in [P -> P], NEW G \in [P \X D -> D],
           \A n \in P : n \notin stop => n < to[n] /\ n <= b
    PROVE  DefinableUp(P, stop, D, base, to, G)
<1> DEFINE From(k, f) ==
               /\ f \in [P -> D]
               /\ \A n \in P : n + k > b =>
                      f[n] = IF n \in stop THEN base[n] ELSE G[<<n, f[to[n]]>>]
           T == {k \in Nat : \E f : From(k, f)}
<1>1. 0 \in T
    <2>1. \A n \in P : n + 0 > b => n \in stop
        OBVIOUS
    <2>2. From(0, base)
        BY <2>1
    <2> QED
        BY <2>2
<1>2. ASSUME NEW k \in Nat, k \in T PROVE k + 1 \in T
    <2>1. PICK f : From(k, f)
        BY <1>2
    <2> DEFINE Step(n) == IF n \in stop THEN base[n] ELSE G[<<n, f[to[n]]>>]
               g == [n \in P |-> IF n + k > b THEN f[n] ELSE Step(n)]
    <2>2. \A n \in P : Step(n) \in D
        BY <2>1
    <2>3. g \in [P -> D] /\ \A n \in P : g[n] = IF n + k > b THEN f[n] ELSE Step(n)
        BY <2>1, <2>2
    <2> HIDE DEF g
    <2>4. ASSUME NEW n \in P, n + (k + 1) > b, n \notin stop
          PROVE  g[to[n]] = f[to[n]]
        <3>1. to[n] \in P /\ n < to[n] /\ n \in Nat /\ to[n] \in Nat
            BY <2>4
        <3>2. to[n] + k > b
            BY <2>4, <3>1
        <3> QED
            BY <2>3, <3>1, <3>2
    <2>5. ASSUME NEW n \in P, n + (k + 1) > b
          PROVE  g[n] = IF n \in stop THEN base[n] ELSE G[<<n, g[to[n]]>>]
        <3>1. g[n] = IF n \in stop THEN base[n] ELSE G[<<n, f[to[n]]>>]
            BY <2>1, <2>3
        <3> QED
            BY <2>4, <2>5, <3>1
    <2>6. From(k + 1, g)
        BY <2>3, <2>5
    <2> QED
        BY <2>6
<1> HIDE DEF T
<1>3. \A k \in Nat : k \in T
    BY <1>1, <1>2, Induction
<1>4. b + 1 \in T
    BY <1>3
<1>5. PICK f : From(b + 1, f)
    BY <1>4 DEF T
<1>6. \A n \in P : n + (b + 1) > b
    OBVIOUS
<1> QED
    BY <1>5, <1>6 DEF DefinableUp

-----------------------------------------------------------------------------

\* Filter(s, S) is the last of the sequences kept from the first k members.
Keeps(f, s, S) ==
    f[0] = <<>> /\ \A k \in 1 .. Len(s) :
        f[k] = IF s[k] \in S THEN Append(f[k - 1], s[k]) ELSE f[k - 1]

\* That sequence of sequences exists, so the definition of Filter says what it
\* seems to say.
LEMMA FilterKeeps ==
    ASSUME NEW D, NEW s \in Seq(D), NEW S
    PROVE  \E f \in [0 .. Len(s) -> Seq(D)] : Keeps(f, s, S) /\ Filter(s, S) = f[Len(s)]
<1> DEFINE n == Len(s)
           G == [p \in Nat \X Seq(D) |->
                    IF p[1] \in 1 .. n /\ s[p[1]] \in S THEN Append(p[2], s[p[1]]) ELSE p[2]]
           Is(f) == f = [k \in 0 .. n |->
                            IF k = 0 THEN <<>>
                            ELSE IF s[k] \in S THEN Append(f[k - 1], s[k]) ELSE f[k - 1]]
<1>1. n \in Nat /\ <<>> \in Seq(D) /\ \A k \in 1 .. n : s[k] \in D
    OBVIOUS
<1>2. G \in [Nat \X Seq(D) -> Seq(D)]
    <2>1. ASSUME NEW p \in Nat \X Seq(D)
          PROVE  IF p[1] \in 1 .. n /\ s[p[1]] \in S THEN Append(p[2], s[p[1]]) \in Seq(D)
                 ELSE p[2] \in Seq(D)
        BY <1>1
    <2> QED
        BY <2>1
<1> HIDE DEF n, G
<1>3. PICK h \in [0 .. n -> Seq(D)] :
          h[0] = <<>> /\ \A k \in 0 .. n : k # 0 => h[k] = G[<<k, h[k - 1]>>]
    <2> DEFINE E == Seq(D)
               e == <<>>
    <2>1. e \in E /\ G \in [Nat \X E -> E] /\ 0 \in Nat /\ n \in Nat /\ 0 <= n
        BY <1>1, <1>2
    <2> HIDE DEF E, e
    <2>2. Definable(0, n, E, e, G)
        BY <2>1, Recursion
    <2> QED
        BY <2>2 DEF Definable, E, e
<1>4. ASSUME NEW k \in 0 .. n, k # 0
      PROVE  h[k] = IF s[k] \in S THEN Append(h[k - 1], s[k]) ELSE h[k - 1]
    <2>1. k \in Nat /\ k \in 1 .. n /\ h[k - 1] \in Seq(D)
        BY <1>1, <1>4
    <2> QED
        BY <1>3, <1>4, <2>1 DEF G
<1>5. Is(h)
    BY <1>3, <1>4
<1> DEFINE f == CHOOSE f : Is(f)
<1>6. Is(f) /\ Filter(s, S) = f[n]
    <2>1. Filter(s, S) = f[n]
        BY DEF Filter, n
    <2> HIDE DEF Is
    <2> QED
        BY <1>5, <2>1
<1> HIDE DEF f
<1>7. DOMAIN f = 0 .. n /\ f[0] = <<>>
    BY <1>1, <1>6
<1>8. ASSUME NEW k \in 1 .. n
      PROVE  f[k] = IF s[k] \in S THEN Append(f[k - 1], s[k]) ELSE f[k - 1]
    <2>1. k \in 0 .. n /\ k # 0
        BY <1>1
    <2> QED
        BY <1>6, <2>1
<1> HIDE DEF Is
<1> DEFINE T == {k \in 0 .. n : f[k] \in Seq(D)}
<1>9. \A k \in 0 .. n : k \in T
    <2>1. 0 \in T
        <3>1. f[0] \in Seq(D) /\ 0 \in 0 .. n
            BY <1>1, <1>7
        <3> QED
            BY <3>1
    <2>2. ASSUME NEW k \in 0 .. n, k < n, k \in T PROVE k + 1 \in T
        <3>1. k + 1 \in 1 .. n /\ (k + 1) - 1 = k /\ s[k + 1] \in D /\ f[k] \in Seq(D)
            BY <1>1, <2>2
        <3>2. f[k + 1] = IF s[k + 1] \in S THEN Append(f[k], s[k + 1]) ELSE f[k]
            BY <1>8, <3>1
        <3>3. f[k + 1] \in Seq(D) /\ k + 1 \in 0 .. n
            BY <1>1, <3>1, <3>2
        <3> QED
            BY <3>3
    <2> HIDE DEF T
    <2>3. \A k \in 0 .. n : k < n /\ k \in T => k + 1 \in T
        BY <2>2
    <2> QED
        BY <1>1, <2>1, <2>3, InductionTo
<1>10. f \in [0 .. n -> Seq(D)]
    <2>1. f = [k \in 0 .. n |-> f[k]]
        BY <1>6, <1>7 DEF Is
    <2> QED
        BY <1>9, <2>1
<1> QED
    BY <1>6, <1>7, <1>8, <1>10 DEF Keeps, n

\* What is left of a sequence over D is one over D.
LEMMA FilterType ==
    ASSUME NEW D, NEW s \in Seq(D), NEW S
    PROVE  Filter(s, S) \in Seq(D)
<1>1. PICK f \in [0 .. Len(s) -> Seq(D)] : Keeps(f, s, S) /\ Filter(s, S) = f[Len(s)]
    BY FilterKeeps
<1> QED
    BY <1>1

\* Nothing is left of nothing.
LEMMA FilterEmpty == ASSUME NEW S PROVE Filter(<<>>, S) = <<>>
<1>1. <<>> \in Seq({}) /\ Len(<<>>) = 0
    OBVIOUS
<1>2. PICK f \in [0 .. Len(<<>>) -> Seq({})] :
          Keeps(f, <<>>, S) /\ Filter(<<>>, S) = f[Len(<<>>)]
    BY <1>1, FilterKeeps
<1> QED
    BY <1>1, <1>2 DEF Keeps

\* One more member, kept or not.
LEMMA FilterAppend ==
    ASSUME NEW D, NEW s \in Seq(D), NEW x \in D, NEW S
    PROVE  Filter(Append(s, x), S) =
               IF x \in S THEN Append(Filter(s, S), x) ELSE Filter(s, S)
<1> DEFINE n == Len(s)
           t == Append(s, x)
<1>1. /\ n \in Nat /\ t \in Seq(D) /\ Len(t) = n + 1 /\ t[n + 1] = x
      /\ \A k \in 1 .. n : t[k] = s[k]
    OBVIOUS
<1>2. PICK f \in [0 .. n -> Seq(D)] : Keeps(f, s, S) /\ Filter(s, S) = f[n]
    BY FilterKeeps
<1> HIDE DEF t
<1>3. PICK g \in [0 .. Len(t) -> Seq(D)] : Keeps(g, t, S) /\ Filter(t, S) = g[Len(t)]
    BY <1>1, FilterKeeps
<1> HIDE DEF n
<1> DEFINE T == {k \in 0 .. n : f[k] = g[k]}
<1>4. n \in T
    <2>1. 0 \in T
        BY <1>1, <1>2, <1>3 DEF Keeps
    <2>2. ASSUME NEW k \in 0 .. n, k < n, k \in T PROVE k + 1 \in T
        <3>1. k + 1 \in 1 .. n /\ k + 1 \in 1 .. Len(t) /\ (k + 1) - 1 = k /\ t[k + 1] = s[k + 1]
            BY <1>1, <2>2
        <3>2. f[k + 1] = IF s[k + 1] \in S THEN Append(f[k], s[k + 1]) ELSE f[k]
            BY <1>2, <3>1 DEF Keeps, n
        <3>3. g[k + 1] = IF t[k + 1] \in S THEN Append(g[k], t[k + 1]) ELSE g[k]
            BY <1>3, <3>1 DEF Keeps
        <3>4. f[k + 1] = g[k + 1]
            BY <2>2, <3>1, <3>2, <3>3
        <3> QED
            BY <3>1, <3>4
    <2> HIDE DEF T
    <2>3. \A k \in 0 .. n : k < n /\ k \in T => k + 1 \in T
        BY <2>2
    <2>4. \A k \in 0 .. n : k \in T
        BY <1>1, <2>1, <2>3, InductionTo
    <2> QED
        BY <1>1, <2>4
<1>5. n + 1 \in 1 .. Len(t) /\ (n + 1) - 1 = n
    BY <1>1
<1>6. g[n + 1] = IF t[n + 1] \in S THEN Append(g[n], t[n + 1]) ELSE g[n]
    BY <1>3, <1>5 DEF Keeps
<1> QED
    BY <1>1, <1>2, <1>3, <1>4, <1>6 DEF t

\* A property of all sequences holds of the empty one and is kept by Append:
\* induction over the initial parts of a sequence.
LEMMA PrefixInduction ==
    ASSUME NEW D, NEW s \in Seq(D), NEW T, <<>> \in T,
           \A t \in Seq(D), x \in D : t \in T => Append(t, x) \in T
    PROVE  s \in T
<1> DEFINE U == {k \in 0 .. Len(s) : SubSeq(s, 1, k) \in T}
<1>1. Len(s) \in Nat /\ SubSeq(s, 1, 0) = <<>> /\ SubSeq(s, 1, Len(s)) = s
    BY SubSeqEmpty, SubSeqFull
<1>2. 0 \in U
    <2> DEFINE e == SubSeq(s, 1, 0)
    <2>1. e = <<>> /\ 0 \in 0 .. Len(s)
        BY <1>1
    <2> HIDE DEF e
    <2>2. e \in T
        BY <2>1
    <2> QED
        BY <2>1, <2>2 DEF e
<1>3. ASSUME NEW k \in 0 .. Len(s), k < Len(s), k \in U PROVE k + 1 \in U
    <2>1. /\ SubSeq(s, 1, k) \in Seq(D) /\ s[k + 1] \in D
          /\ SubSeq(s, 1, k + 1) = Append(SubSeq(s, 1, k), s[k + 1])
          /\ k + 1 \in 0 .. Len(s)
        BY <1>3
    <2>2. SubSeq(s, 1, k) \in T
        BY <1>3
    <2>3. SubSeq(s, 1, k + 1) \in T
        BY <2>1, <2>2
    <2> QED
        BY <2>1, <2>3
<1> HIDE DEF U
<1>4. \A k \in 0 .. Len(s) : k < Len(s) /\ k \in U => k + 1 \in U
    BY <1>3
<1>5. \A k \in 0 .. Len(s) : k \in U
    BY <1>1, <1>2, <1>4, InductionTo
<1>6. Len(s) \in U
    BY <1>1, <1>5
<1> QED
    BY <1>1, <1>6 DEF U

\* Two parts may be filtered one by one.
LEMMA FilterConcat ==
    ASSUME NEW D, NEW s \in Seq(D), NEW t \in Seq(D), NEW S
    PROVE  Filter(s \o t, S) = Filter(s, S) \o Filter(t, S)
<1> DEFINE T == {u \in Seq(D) : Filter(s \o u, S) = Filter(s, S) \o Filter(u, S)}
<1>1. <<>> \in T
    <2>1. Filter(s, S) \in Seq(D) /\ Filter(<<>>, S) = <<>>
        BY FilterType, FilterEmpty
    <2>2. s \o <<>> = s /\ Filter(s, S) \o <<>> = Filter(s, S) /\ <<>> \in Seq(D)
        BY <2>1
    <2> QED
        BY <2>1, <2>2
<1>2. ASSUME NEW u \in Seq(D), NEW x \in D, u \in T PROVE Append(u, x) \in T
    <2>1. s \o Append(u, x) = Append(s \o u, x) /\ s \o u \in Seq(D) /\ Append(u, x) \in Seq(D)
        OBVIOUS
    <2>2. Filter(s, S) \in Seq(D) /\ Filter(u, S) \in Seq(D)
        BY FilterType
    <2>3. Filter(s \o u, S) = Filter(s, S) \o Filter(u, S)
        BY <1>2
    <2>4. /\ Filter(Append(s \o u, x), S) =
                 IF x \in S THEN Append(Filter(s \o u, S), x) ELSE Filter(s \o u, S)
          /\ Filter(Append(u, x), S) =
                 IF x \in S THEN Append(Filter(u, S), x) ELSE Filter(u, S)
        BY <2>1, FilterAppend
    <2>5. Append(Filter(s, S) \o Filter(u, S), x) = Filter(s, S) \o Append(Filter(u, S), x)
        <3>1. ASSUME NEW a \in Seq(D), NEW b \in Seq(D)
              PROVE  Append(a \o b, x) = a \o Append(b, x)
            <4>1. a \o b \in Seq(D) /\ Append(b, x) \in Seq(D)
                OBVIOUS
            <4>2. Append(a \o b, x) \in Seq(D) /\ a \o Append(b, x) \in Seq(D)
                BY <4>1
            <4>3. Len(Append(a \o b, x)) = Len(a \o Append(b, x))
                BY <4>1
            <4>4. ASSUME NEW i \in 1 .. Len(Append(a \o b, x))
                  PROVE  Append(a \o b, x)[i] = (a \o Append(b, x))[i]
                BY <4>1, <4>4
            <4> QED
                BY <4>2, <4>3, <4>4, SeqEqual
        <3> QED
            BY <2>2, <3>1, Zenon
    <2>6. Filter(s \o Append(u, x), S) = Filter(s, S) \o Filter(Append(u, x), S)
        BY <2>1, <2>3, <2>4, <2>5
    <2> QED
        BY <2>1, <2>6
<1> HIDE DEF T
<1>3. t \in T
    BY <1>1, <1>2, PrefixInduction
<1> QED
    BY <1>3 DEF T

\* What is kept depends on the members of s only.
LEMMA FilterSame ==
    ASSUME NEW D, NEW s \in Seq(D), NEW R, NEW S, \A x \in D : x \in R <=> x \in S
    PROVE  Filter(s, R) = Filter(s, S)
<1> DEFINE T == {u \in Seq(D) : Filter(u, R) = Filter(u, S)}
<1>1. <<>> \in T
    <2>1. Filter(<<>>, R) = Filter(<<>>, S) /\ <<>> \in Seq(D)
        BY FilterEmpty
    <2> QED
        BY <2>1
<1>2. ASSUME NEW u \in Seq(D), NEW x \in D, u \in T PROVE Append(u, x) \in T
    <2>1. /\ Filter(Append(u, x), R) = IF x \in R THEN Append(Filter(u, R), x) ELSE Filter(u, R)
          /\ Filter(Append(u, x), S) = IF x \in S THEN Append(Filter(u, S), x) ELSE Filter(u, S)
        BY FilterAppend
    <2>2. Filter(u, R) = Filter(u, S) /\ Append(u, x) \in Seq(D)
        BY <1>2
    <2>3. Filter(Append(u, x), R) = Filter(Append(u, x), S)
        BY <2>1, <2>2
    <2> QED
        BY <2>2, <2>3
<1> HIDE DEF T
<1>3. s \in T
    BY <1>1, <1>2, PrefixInduction
<1> QED
    BY <1>3 DEF T

\* Nothing is left where no member is in S.
LEMMA FilterNone ==
    ASSUME NEW D, NEW s \in Seq(D), NEW S, \A x \in D : x \notin S
    PROVE  Filter(s, S) = <<>>
<1> DEFINE T == {u \in Seq(D) : Filter(u, S) = <<>>}
<1>1. <<>> \in T
    <2>1. Filter(<<>>, S) = <<>> /\ <<>> \in Seq(D)
        BY FilterEmpty
    <2> QED
        BY <2>1
<1>2. ASSUME NEW u \in Seq(D), NEW x \in D, u \in T PROVE Append(u, x) \in T
    <2>1. Filter(Append(u, x), S) = IF x \in S THEN Append(Filter(u, S), x) ELSE Filter(u, S)
        BY FilterAppend
    <2>2. Filter(u, S) = <<>> /\ Append(u, x) \in Seq(D) /\ x \notin S
        BY <1>2
    <2>3. Filter(Append(u, x), S) = <<>>
        BY <2>1, <2>2
    <2> QED
        BY <2>2, <2>3
<1> HIDE DEF T
<1>3. s \in T
    BY <1>1, <1>2, PrefixInduction
<1> QED
    BY <1>3 DEF T

\* Where the members of t come from: at leads, in order, to the places of
\* those members of s that are in S, and to all of them.
Places(at, t, s, S) ==
    /\ at \in [1 .. Len(t) -> 1 .. Len(s)]
    /\ \A i, j \in 1 .. Len(t) : i < j => at[i] < at[j]
    /\ \A i \in 1 .. Len(t) : t[i] = s[at[i]] /\ t[i] \in S
    /\ \A k \in 1 .. Len(s) : s[k] \in S => \E i \in 1 .. Len(t) : at[i] = k

\* They are the members in S, each in its place.
LEMMA FilterPlaces ==
    ASSUME NEW D, NEW s \in Seq(D), NEW S
    PROVE  \E at : Places(at, Filter(s, S), s, S)
<1> DEFINE T == {u \in Seq(D) : \E at : Places(at, Filter(u, S), u, S)}
<1>1. <<>> \in T
    <2> DEFINE f == [i \in 1 .. 0 |-> 0]
    <2>1. Filter(<<>>, S) = <<>> /\ <<>> \in Seq(D) /\ Len(<<>>) = 0
        BY FilterEmpty
    <2>2. f \in [1 .. 0 -> 1 .. 0]
        OBVIOUS
    <2> HIDE DEF f
    <2>3. Places(f, <<>>, <<>>, S)
        BY <2>1, <2>2 DEF Places
    <2> QED
        BY <2>1, <2>3
<1>2. ASSUME NEW u \in Seq(D), NEW x \in D, u \in T PROVE Append(u, x) \in T
    <2> DEFINE t == Filter(u, S)
               v == Append(u, x)
               n == Len(u)
               m == Len(t)
    <2>1. PICK at : Places(at, t, u, S)
        BY <1>2
    <2>2. t \in Seq(D)
        BY FilterType
    <2>3. /\ n \in Nat /\ Len(v) = n + 1 /\ v[n + 1] = x /\ v \in Seq(D)
          /\ \A k \in 1 .. n : v[k] = u[k]
        OBVIOUS
    <2>4. m \in Nat
        BY <2>2
    <2>5. Filter(v, S) = IF x \in S THEN Append(t, x) ELSE t
        BY FilterAppend
    <2>6. /\ \A k \in 1 .. (n + 1) : k \in 1 .. n \/ k = n + 1
          /\ \A i \in 1 .. (m + 1) : i \in 1 .. m \/ i = m + 1
          /\ m + 1 \in 1 .. (m + 1) /\ n + 1 \in 1 .. (n + 1)
          /\ 1 .. n \subseteq 1 .. (n + 1)  /\ 1 .. m \subseteq 1 .. (m + 1)
        BY <2>3, <2>4
    <2>7. Append(t, x) \in Seq(D) /\ Len(Append(t, x)) = m + 1 /\ Append(t, x)[m + 1] = x
          /\ \A i \in 1 .. m : Append(t, x)[i] = t[i]
        BY <2>2
    <2> DEFINE w == Append(t, x)
    <2> HIDE DEF t, v, n, m, w
    <2>8. CASE x \notin S
        <3>1. Places(at, t, v, S)
            BY <2>1, <2>3, <2>6, <2>8 DEF Places, n
        <3> QED
            BY <2>3, <2>5, <2>8, <3>1 DEF v
    <2>9. CASE x \in S
        <3> DEFINE to == [i \in 1 .. (m + 1) |-> IF i = m + 1 THEN n + 1 ELSE at[i]]
        <3>1. \A i \in 1 .. m : at[i] \in 1 .. n
            BY <2>1 DEF Places, m, n
        <3>2. \A i \in 1 .. m : to[i] = at[i] /\ to[i] \in 1 .. n
            BY <2>4, <2>6, <3>1
        <3>3. to[m + 1] = n + 1
            BY <2>6
        <3>4. to \in [1 .. (m + 1) -> 1 .. (n + 1)]
            BY <2>3, <2>4, <3>1
        <3> HIDE DEF to
        <3>5. \A i, j \in 1 .. (m + 1) : i < j => to[i] < to[j]
            <4>1. ASSUME NEW i \in 1 .. (m + 1), NEW j \in 1 .. (m + 1), i < j
                  PROVE  to[i] < to[j]
                <5>1. i \in 1 .. m
                    BY <2>4, <4>1
                <5>2. CASE j \in 1 .. m
                    BY <2>1, <3>2, <4>1, <5>1, <5>2 DEF Places, m
                <5>3. CASE j = m + 1
                    BY <2>3, <3>2, <3>3, <5>1, <5>3
                <5> QED
                    BY <2>6, <5>2, <5>3
            <4> QED
                BY <4>1
        <3>6. \A i \in 1 .. (m + 1) : w[i] = v[to[i]] /\ w[i] \in S
            <4>1. ASSUME NEW i \in 1 .. m PROVE w[i] = v[to[i]] /\ w[i] \in S
                BY SMTT(40), <2>1, <2>3, <2>7, <3>2, <4>1 DEF Places, m, w
            <4>2. w[m + 1] = v[to[m + 1]] /\ w[m + 1] \in S
                BY <2>3, <2>7, <2>9, <3>3 DEF w
            <4> QED
                BY <2>6, <4>1, <4>2
        <3>7. \A k \in 1 .. (n + 1) : v[k] \in S => \E i \in 1 .. (m + 1) : to[i] = k
            <4>1. ASSUME NEW k \in 1 .. n, v[k] \in S PROVE \E i \in 1 .. (m + 1) : to[i] = k
                <5>1. u[k] \in S
                    BY <2>3, <4>1
                <5>2. PICK i \in 1 .. m : at[i] = k
                    BY <2>1, <5>1 DEF Places, m, n
                <5> QED
                    BY <2>6, <3>2, <5>2
            <4> QED
                BY <2>6, <3>3, <4>1
        <3>8. Places(to, w, v, S)
            BY <2>3, <2>7, <3>4, <3>5, <3>6, <3>7 DEF Places, w
        <3>9. Places(to, Filter(v, S), v, S)
            BY <2>5, <2>9, <3>8 DEF w
        <3> QED
            BY <2>3, <3>9 DEF v
    <2> QED
        BY <2>8, <2>9
<1> HIDE DEF T
<1>3. s \in T
    BY <1>1, <1>2, PrefixInduction
<1> QED
    BY <1>3 DEF T
=============================================================================
