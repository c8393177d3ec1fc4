---------------------------- MODULE RoutingProofs ----------------------------
(***************************************************************************)
(* Where messages go.  Hops: a request to its next hop, and the response   *)
(* back, for all requests and transports and whatever the parsers make of  *)
(* the texts between.  TsxTable: the table and the transactions agree up   *)
(* to twins, and a message reaches a transaction of its own key, for any   *)
(* number of transactions, packets and keys and every channel size.        *)
(***************************************************************************)
EXTENDS Hops, TsxTable, SelectionProofs, TLAPS

-----------------------------------------------------------------------------
(* Hops: counting routes. *)

\* Occurrences are counted one by one.
LEMMA OccurrencesAppend ==
    ASSUME NEW D, NEW s \in Seq(D), NEW x \in D, NEW u
    PROVE  /\ Occurrences(<<>>, u) = 0
           /\ Occurrences(s, u) \in Nat
           /\ Occurrences(Append(s, x), u) = Occurrences(s, u) + (IF x = u THEN 1 ELSE 0)
<1> DEFINE n == Len(s)
           Where(t) == {k \in DOMAIN t : t[k] = u}
<1>1. Where(<<>>) = {} /\ Cardinality({}) = 0
    BY FS_EmptySet
<1>2. n \in Nat /\ DOMAIN s = 1 .. n /\ DOMAIN Append(s, x) = 1 .. n + 1
      /\ Append(s, x)[n + 1] = x /\ \A k \in 1 .. n : Append(s, x)[k] = s[k]
    OBVIOUS
<1>3. IsFiniteSet(1 .. n)
    BY <1>2, FS_Interval
<1>4. Where(s) \subseteq 1 .. n
    BY <1>2
<1>5. IsFiniteSet(Where(s)) /\ Cardinality(Where(s)) \in Nat
    BY <1>3, <1>4, FS_Subset, FS_CardinalityType
<1>6. n + 1 \notin Where(s)
    BY <1>2
<1>7. Where(Append(s, x)) = IF x = u THEN Where(s) \cup {n + 1} ELSE Where(s)
    <2>1. \A k : k \in 1 .. n + 1 <=> k \in 1 .. n \/ k = n + 1
        BY <1>2
    <2>2. Where(Append(s, x)) = {k \in 1 .. n + 1 : Append(s, x)[k] = u}
        BY <1>2
    <2>3. Where(s) = {k \in 1 .. n : s[k] = u}
        BY <1>2
    <2> HIDE DEF Where
    <2> QED
        BY <1>2, <2>1, <2>2, <2>3
<1> HIDE DEF n, Where
<1>8. Cardinality(Where(Append(s, x))) = Cardinality(Where(s)) + (IF x = u THEN 1 ELSE 0)
    <2>1. CASE x = u
        <3>1. Cardinality(Where(s) \cup {n + 1}) = Cardinality(Where(s)) + 1
            BY <1>5, <1>6, FS_AddElement
        <3> QED
            BY <1>7, <2>1, <3>1
    <2>2. CASE x # u
        BY <1>5, <1>7, <2>2
    <2> QED
        BY <2>1, <2>2
<1> QED
    BY <1>1, <1>5, <1>8 DEF Occurrences, Where

\* What occurs in two parts.
LEMMA OccurrencesConcat ==
    ASSUME NEW D, NEW s \in Seq(D), NEW t \in Seq(D), NEW u
    PROVE  /\ Occurrences(s, u) \in Nat /\ Occurrences(t, u) \in Nat
           /\ Occurrences(s \o t, u) = Occurrences(s, u) + Occurrences(t, u)
<1> DEFINE T == {v \in Seq(D) : /\ Occurrences(v, u) \in Nat
                                /\ Occurrences(s \o v, u) = Occurrences(s, u) + Occurrences(v, u)}
<1>1. Occurrences(s, u) \in Nat /\ Occurrences(<<>>, u) = 0
    <2>1. CASE D = {}
        <3>1. s = <<>>
            BY <2>1, EmptySeq
        <3>2. Occurrences(<<>>, u) = 0
            <4>1. <<>> \in Seq({0}) /\ 0 \in {0}
                OBVIOUS
            <4> QED
                BY <4>1, OccurrencesAppend
        <3> QED
            BY <3>1, <3>2
    <2>2. CASE D # {}
        <3>1. PICK x \in D : TRUE
            BY <2>2
        <3> QED
            BY <3>1, OccurrencesAppend
    <2> QED
        BY <2>1, <2>2
<1>2. <<>> \in T
    <2>1. s \o <<>> = s /\ <<>> \in Seq(D)
        OBVIOUS
    <2> QED
        BY <1>1, <2>1
<1>3. ASSUME NEW v \in Seq(D), NEW x \in D, v \in T PROVE Append(v, x) \in T
    <2>1. s \o Append(v, x) = Append(s \o v, x) /\ s \o v \in Seq(D) /\ Append(v, x) \in Seq(D)
        OBVIOUS
    <2>2. /\ Occurrences(Append(s \o v, x), u) = Occurrences(s \o v, u) + (IF x = u THEN 1 ELSE 0)
          /\ Occurrences(Append(v, x), u) = Occurrences(v, u) + (IF x = u THEN 1 ELSE 0)
        <3>1. ASSUME NEW w \in Seq(D)
              PROVE  Occurrences(Append(w, x), u) = Occurrences(w, u) + (IF x = u THEN 1 ELSE 0)
            BY OccurrencesAppend
        <3> QED
            BY <2>1, <3>1, Zenon
    <2>3. /\ Occurrences(v, u) \in Nat
          /\ Occurrences(s \o v, u) = Occurrences(s, u) + Occurrences(v, u)
        BY <1>3
    <2>4. /\ Occurrences(Append(v, x), u) \in Nat
          /\ Occurrences(s \o Append(v, x), u) =
                 Occurrences(s, u) + Occurrences(Append(v, x), u)
        BY <1>1, <2>1, <2>2, <2>3
    <2> QED
        BY <2>1, <2>4
<1> HIDE DEF T
<1>4. t \in T
    BY <1>2, <1>3, PrefixInduction
<1> QED
    BY <1>1, <1>4 DEF T

-----------------------------------------------------------------------------

Routes(D) == {h \in D : h.name = "Route"}
UriOf(h) == h.val.address.uri
UrisOf(D) == {UriOf(h) : h \in D}

\* A sequence is one of its own members.
LEMMA OwnMembers ==
    ASSUME NEW D, NEW s \in Seq(D)
    PROVE  s \in Seq(ToSet(s)) /\ ToSet(s) \subseteq D
<1>1. \A k \in 1 .. Len(s) : s[k] \in ToSet(s)
    BY DEF ToSet
<1> QED
    BY <1>1 DEF ToSet

\* The routes of a list of headers, whatever set the headers are from.
LEMMA RoutesOf ==
    ASSUME NEW D, NEW s \in Seq(D)
    PROVE  LET f == Filter(s, Routes(D)) IN
           /\ f \in Seq(D)
           /\ RouteUris(s) = [k \in DOMAIN f |-> UriOf(f[k])]
           /\ RouteUris(s) \in Seq(UrisOf(D))
           /\ Len(RouteUris(s)) = Len(f)
<1> DEFINE f == Filter(s, Routes(D))
           own == {h \in ToSet(s) : h.name = "Route"}
<1>1. f \in Seq(D)
    BY FilterType
<1>2. s \in Seq(ToSet(s)) /\ ToSet(s) \subseteq D
    BY OwnMembers
<1>3. Filter(s, own) = f
    <2>1. \A x \in ToSet(s) : x \in own <=> x \in Routes(D)
        BY <1>2 DEF Routes
    <2> HIDE DEF own
    <2> QED
        BY <1>2, <2>1, FilterSame
<1>4. RouteUris(s) = [k \in DOMAIN f |-> UriOf(f[k])]
    BY <1>3 DEF RouteUris, UriOf
<1> HIDE DEF f, own
<1>5. \A k \in DOMAIN f : UriOf(f[k]) \in UrisOf(D)
    BY <1>1 DEF UrisOf
<1>6. DOMAIN f = 1 .. Len(f) /\ Len(f) \in Nat
    BY <1>1
<1>7. RouteUris(s) \in Seq(UrisOf(D)) /\ Len(RouteUris(s)) = Len(f)
    BY <1>4, <1>5, <1>6
<1> QED
    BY <1>1, <1>4, <1>7 DEF f

\* The routes of two parts.
LEMMA RoutesConcat ==
    ASSUME NEW D, NEW s \in Seq(D), NEW t \in Seq(D)
    PROVE  RouteUris(s \o t) = RouteUris(s) \o RouteUris(t)
<1> DEFINE f(v) == Filter(v, Routes(D))
           U == UrisOf(D)
<1>1. s \o t \in Seq(D)
    OBVIOUS
<1>2. f(s \o t) = f(s) \o f(t)
    BY FilterConcat
<1>3. ASSUME NEW v \in Seq(D)
      PROVE  /\ f(v) \in Seq(D) /\ RouteUris(v) \in Seq(U) /\ Len(RouteUris(v)) = Len(f(v))
             /\ \A k \in 1 .. Len(f(v)) : RouteUris(v)[k] = UriOf(f(v)[k])
    BY RoutesOf
<1> HIDE DEF f, U
<1>7. /\ f(s) \in Seq(D) /\ RouteUris(s) \in Seq(U) /\ Len(RouteUris(s)) = Len(f(s))
      /\ f(t) \in Seq(D) /\ RouteUris(t) \in Seq(U) /\ Len(RouteUris(t)) = Len(f(t))
      /\ RouteUris(s \o t) \in Seq(U) /\ Len(RouteUris(s \o t)) = Len(f(s) \o f(t))
      /\ f(s) \o f(t) \in Seq(D)
    <2>1. /\ RouteUris(s \o t) \in Seq(U) /\ Len(RouteUris(s \o t)) = Len(f(s \o t))
          /\ f(s \o t) \in Seq(D)
        BY <1>1, <1>3, Zenon
    <2>2. /\ f(s) \in Seq(D) /\ RouteUris(s) \in Seq(U) /\ Len(RouteUris(s)) = Len(f(s))
          /\ f(t) \in Seq(D) /\ RouteUris(t) \in Seq(U) /\ Len(RouteUris(t)) = Len(f(t))
        BY <1>3, Zenon
    <2> QED
        BY <1>2, <2>1, <2>2, Zenon
<1>8. Len(f(s)) \in Nat /\ Len(f(t)) \in Nat /\ Len(f(s) \o f(t)) = Len(f(s)) + Len(f(t))
    BY <1>7
<1>4. Len(RouteUris(s \o t)) = Len(RouteUris(s) \o RouteUris(t))
    BY <1>7, <1>8
<1>9. Len(RouteUris(s \o t)) = Len(f(s)) + Len(f(t))
    BY <1>7, <1>8
<1>5. ASSUME NEW k \in 1 .. Len(RouteUris(s \o t))
      PROVE  RouteUris(s \o t)[k] = (RouteUris(s) \o RouteUris(t))[k]
    <2>1. k \in 1 .. Len(f(s) \o f(t)) /\ RouteUris(s \o t)[k] = UriOf((f(s) \o f(t))[k])
        BY <1>1, <1>2, <1>3, <1>7
    <2>2. CASE k <= Len(f(s))
        <3>1. k \in 1 .. Len(f(s)) /\ (f(s) \o f(t))[k] = f(s)[k]
            BY <1>7, <1>8, <2>1, <2>2
        <3>2. (RouteUris(s) \o RouteUris(t))[k] = RouteUris(s)[k]
            BY <1>7, <3>1
        <3> QED
            BY <1>3, <2>1, <3>1, <3>2
    <2>3. CASE k > Len(f(s))
        <3> DEFINE j == k - Len(f(s))
        <3>1. j \in 1 .. Len(f(t)) /\ (f(s) \o f(t))[k] = f(t)[j]
            BY <1>7, <1>8, <2>1, <2>3
        <3>2. (RouteUris(s) \o RouteUris(t))[k] = RouteUris(t)[j]
            BY <1>7, <1>8, <2>1, <2>3
        <3> HIDE DEF j
        <3> QED
            BY <1>3, <2>1, <3>1, <3>2
    <2>4. k <= Len(f(s)) \/ k > Len(f(s))
        BY <1>8, <2>1
    <2> QED
        BY <2>2, <2>3, <2>4
<1>6. RouteUris(s \o t) \in Seq(U) /\ RouteUris(s) \o RouteUris(t) \in Seq(U)
    BY <1>7
<1> QED
    BY <1>4, <1>5, <1>6, SeqEqual

\* The routes of one header.
LEMMA RoutesOfOne ==
    ASSUME NEW h
    PROVE  RouteUris(<<h>>) = IF h.name = "Route" THEN <<UriOf(h)>> ELSE <<>>
<1>1. <<h>> \in Seq({h}) /\ <<>> \in Seq({h}) /\ Append(<<>>, h) = <<h>> /\ h \in {h}
    OBVIOUS
<1>2. Filter(<<h>>, Routes({h})) = IF h \in Routes({h}) THEN Append(<<>>, h) ELSE <<>>
    <2>1. Filter(Append(<<>>, h), Routes({h})) =
              IF h \in Routes({h}) THEN Append(Filter(<<>>, Routes({h})), h)
              ELSE Filter(<<>>, Routes({h}))
        BY <1>1, FilterAppend
    <2> QED
        BY <1>1, <2>1, FilterEmpty
<1>3. h \in Routes({h}) <=> h.name = "Route"
    BY DEF Routes
<1>4. LET f == Filter(<<h>>, Routes({h})) IN RouteUris(<<h>>) = [k \in DOMAIN f |-> UriOf(f[k])]
    BY <1>1, RoutesOf
<1>5. CASE h.name = "Route"
    <2>1. RouteUris(<<h>>) = [k \in DOMAIN <<h>> |-> UriOf(<<h>>[k])]
        BY <1>1, <1>2, <1>3, <1>4, <1>5
    <2> QED
        BY <1>5, <2>1
<1>6. CASE h.name # "Route"
    <2>1. RouteUris(<<h>>) = [k \in DOMAIN <<>> |-> UriOf(<<>>[k])]
        BY <1>2, <1>3, <1>4, <1>6
    <2> QED
        BY <1>6, <2>1
<1> QED
    BY <1>5, <1>6

-----------------------------------------------------------------------------
(* The first and the last place, and a list cut in two at a place. *)

\* A place among finitely many is the first, and one is the last.
LEMMA Extremes ==
    ASSUME NEW n \in Nat, NEW S \in SUBSET (1 .. n), S # {}
    PROVE  Lowest(S) \in S /\ Highest(S) \in S
<1>1. \E k \in S : \A j \in S : k <= j
    <2>1. S \in SUBSET Nat
        OBVIOUS
    <2> QED
        BY <2>1, Least
<1>2. \E k \in S : \A j \in S : k >= j
    <2> DEFINE T == {n - k : k \in S}
    <2>1. T \in SUBSET Nat /\ T # {}
        <3>1. \A k \in S : n - k \in Nat
            OBVIOUS
        <3> QED
            BY <3>1
    <2>2. PICK a \in T : \A b \in T : a <= b
        BY <2>1, Least
    <2>3. PICK k \in S : a = n - k
        BY <2>2
    <2>4. ASSUME NEW j \in S PROVE k >= j
        <3>1. n - j \in T
            OBVIOUS
        <3>2. n - k <= n - j
            BY <2>2, <2>3, <3>1
        <3>3. k \in Nat /\ j \in Nat
            OBVIOUS
        <3> HIDE DEF T
        <3> QED
            BY <3>2, <3>3
    <2> QED
        BY <2>4
<1> QED
    BY <1>1, <1>2 DEF Lowest, Highest

\* A list is what is before a place and what is behind.
LEMMA Cut ==
    ASSUME NEW D, NEW s \in Seq(D), NEW i \in 0 .. Len(s)
    PROVE  /\ SubSeq(s, 1, i) \in Seq(D) /\ SubSeq(s, i + 1, Len(s)) \in Seq(D)
           /\ s = SubSeq(s, 1, i) \o SubSeq(s, i + 1, Len(s))
<1> DEFINE a == SubSeq(s, 1, i)
           b == SubSeq(s, i + 1, Len(s))
<1>1. /\ Len(s) \in Nat /\ i \in Nat
      /\ a \in Seq(D) /\ Len(a) = i /\ \A k \in 1 .. i : a[k] = s[k]
      /\ b \in Seq(D) /\ Len(b) = Len(s) - i /\ \A k \in 1 .. Len(s) - i : b[k] = s[i + k]
    OBVIOUS
<1> HIDE DEF a, b
<1>2. a \o b \in Seq(D) /\ Len(a \o b) = Len(s)
    BY <1>1
<1>3. ASSUME NEW k \in 1 .. Len(s) PROVE s[k] = (a \o b)[k]
    <2>1. CASE k <= i
        BY <1>1, <2>1
    <2>2. CASE k > i
        <3>1. (a \o b)[k] = b[k - i] /\ k - i \in 1 .. Len(s) - i
            BY <1>1, <2>2
        <3>2. b[k - i] = s[i + (k - i)] /\ i + (k - i) = k
            BY <1>1, <3>1
        <3> QED
            BY <3>1, <3>2
    <2> QED
        BY <1>1, <2>1, <2>2
<1>4. s = a \o b
    BY <1>1, <1>2, <1>3, SeqEqual
<1> QED
    BY <1>1, <1>4 DEF a, b

\* What stands where behind a member.
LEMMA OneAhead ==
    ASSUME NEW D, NEW x \in D, NEW c \in Seq(D)
    PROVE  /\ <<x>> \o c \in Seq(D) /\ Len(<<x>> \o c) = Len(c) + 1
           /\ (<<x>> \o c)[1] = x
           /\ \A k \in 1 .. Len(c) : (<<x>> \o c)[k + 1] = c[k]
<1>1. <<x>> \in Seq(D) /\ Len(<<x>>) = 1 /\ <<x>>[1] = x /\ Len(c) \in Nat
    OBVIOUS
<1> QED
    BY <1>1

\* And what is before, the member in the place and what is behind.
LEMMA CutAround ==
    ASSUME NEW D, NEW s \in Seq(D), NEW i \in 1 .. Len(s)
    PROVE  /\ SubSeq(s, 1, i - 1) \in Seq(D) /\ SubSeq(s, i + 1, Len(s)) \in Seq(D)
           /\ s[i] \in D
           /\ s = SubSeq(s, 1, i - 1) \o (<<s[i]>> \o SubSeq(s, i + 1, Len(s)))
<1> DEFINE a == SubSeq(s, 1, i - 1)
           b == SubSeq(s, i, Len(s))
           c == SubSeq(s, i + 1, Len(s))
<1>1. i - 1 \in 0 .. Len(s) /\ (i - 1) + 1 = i /\ Len(s) \in Nat /\ s[i] \in D
    OBVIOUS
<1>2. a \in Seq(D) /\ b \in Seq(D) /\ s = a \o b
    <2> DEFINE j == i - 1
    <2>1. j \in 0 .. Len(s) /\ j + 1 = i
        BY <1>1
    <2> HIDE DEF j
    <2>2. /\ SubSeq(s, 1, j) \in Seq(D) /\ SubSeq(s, j + 1, Len(s)) \in Seq(D)
          /\ s = SubSeq(s, 1, j) \o SubSeq(s, j + 1, Len(s))
        BY <2>1, Cut
    <2> QED
        BY <2>1, <2>2 DEF j
<1>3. c \in Seq(D) /\ b = <<s[i]>> \o c
    <2>1. /\ c \in Seq(D) /\ Len(c) = Len(s) - i
          /\ \A k \in 1 .. Len(s) - i : c[k] = s[i + k]
        BY <1>1
    <2>2. /\ Len(b) = Len(s) - i + 1
          /\ \A k \in 1 .. Len(s) - i + 1 : b[k] = s[(i - 1) + k]
        BY <1>1
    <2> DEFINE e == <<s[i]>> \o c
               m == Len(s) - i
    <2>3. /\ e \in Seq(D) /\ Len(e) = Len(c) + 1 /\ e[1] = s[i]
          /\ \A k \in 1 .. Len(c) : e[k + 1] = c[k]
        BY <1>1, <2>1, OneAhead
    <2>4. m \in Nat /\ Len(b) = m + 1 /\ Len(e) = m + 1
        BY <1>1, <2>1, <2>2, <2>3
    <2>5. ASSUME NEW k \in 1 .. m + 1 PROVE b[k] = e[k]
        <3>1. b[k] = s[(i - 1) + k]
            BY <2>2
        <3>2. CASE k = 1
            BY <1>1, <2>3, <3>1, <3>2
        <3>3. CASE k > 1
            <4>1. k - 1 \in 1 .. m /\ i + (k - 1) = (i - 1) + k /\ (k - 1) + 1 = k
                BY <2>4, <3>3
            <4>2. e[k] = c[k - 1]
                BY <2>1, <2>3, <4>1
            <4> QED
                BY <2>1, <3>1, <4>1, <4>2
        <3> QED
            BY <2>4, <3>2, <3>3
    <2> HIDE DEF b, c, e, m
    <2>6. b = e
        BY <1>2, <2>3, <2>4, <2>5, SeqEqual
    <2> QED
        BY <2>1, <2>6 DEF e
<1> QED
    BY <1>1, <1>2, <1>3

-----------------------------------------------------------------------------
(* process_route_set. *)

One(x, u) == IF x.name = "Route" /\ UriOf(x) = u THEN 1 ELSE 0

\* How often a URI is that of a route: in two parts, and in one header.
LEMMA RouteCount ==
    ASSUME NEW D, NEW s \in Seq(D), NEW t \in Seq(D), NEW u
    PROVE  /\ Occurrences(RouteUris(s), u) \in Nat /\ Occurrences(RouteUris(t), u) \in Nat
           /\ Occurrences(RouteUris(s \o t), u)
                = Occurrences(RouteUris(s), u) + Occurrences(RouteUris(t), u)
<1>1. RouteUris(s) \in Seq(UrisOf(D)) /\ RouteUris(t) \in Seq(UrisOf(D))
    BY RoutesOf
<1>2. RouteUris(s \o t) = RouteUris(s) \o RouteUris(t)
    BY RoutesConcat
<1> QED
    BY <1>1, <1>2, OccurrencesConcat

\* The same of a list of one header.
LEMMA RouteCountOne ==
    ASSUME NEW x, NEW u
    PROVE  Occurrences(RouteUris(<<x>>), u) = One(x, u)
<1> DEFINE v == UriOf(x)
<1>1. <<>> \in Seq({v}) /\ v \in {v} /\ Append(<<>>, v) = <<v>>
    OBVIOUS
<1>2. /\ Occurrences(<<>>, u) = 0
      /\ Occurrences(Append(<<>>, v), u) = Occurrences(<<>>, u) + (IF v = u THEN 1 ELSE 0)
    <2> HIDE DEF v
    <2>1. ASSUME NEW w \in Seq({v})
          PROVE  /\ Occurrences(<<>>, u) = 0
                 /\ Occurrences(Append(w, v), u) = Occurrences(w, u) + (IF v = u THEN 1 ELSE 0)
        BY <1>1, OccurrencesAppend
    <2> QED
        BY <1>1, <2>1
<1>3. Occurrences(<<v>>, u) = IF v = u THEN 1 ELSE 0
    BY <1>1, <1>2
<1>4. RouteUris(<<x>>) = IF x.name = "Route" THEN <<v>> ELSE <<>>
    BY RoutesOfOne
<1> HIDE DEF v
<1>5. CASE x.name = "Route"
    BY <1>3, <1>4, <1>5 DEF One, v
<1>6. CASE x.name # "Route"
    BY <1>2, <1>4, <1>6 DEF One
<1> QED
    BY <1>5, <1>6

\* A header in the middle is counted as it would be anywhere.
LEMMA RouteCountAround ==
    ASSUME NEW D, NEW a \in Seq(D), NEW c \in Seq(D), NEW x \in D, NEW u
    PROVE  /\ Occurrences(RouteUris(a \o c), u) \in Nat
           /\ Occurrences(RouteUris(a \o (<<x>> \o c)), u)
                = Occurrences(RouteUris(a \o c), u) + One(x, u)
           /\ Occurrences(RouteUris((a \o <<x>>) \o c), u)
                = Occurrences(RouteUris(a \o c), u) + One(x, u)
<1> DEFINE n(s) == Occurrences(RouteUris(s), u)
           o == <<x>>
<1>1. o \in Seq(D) /\ o \o c \in Seq(D) /\ a \o o \in Seq(D)
    OBVIOUS
<1>2. ASSUME NEW s \in Seq(D), NEW t \in Seq(D)
      PROVE  n(s) \in Nat /\ n(t) \in Nat /\ n(s \o t) = n(s) + n(t)
    BY RouteCount
<1>3. n(o) = One(x, u)
    BY RouteCountOne
<1> HIDE DEF n, o
<1>4. /\ n(a) \in Nat /\ n(c) \in Nat /\ n(o) \in Nat /\ n(a \o c) = n(a) + n(c)
      /\ n(a \o (o \o c)) = n(a) + n(o \o c) /\ n(o \o c) = n(o) + n(c)
      /\ n((a \o o) \o c) = n(a \o o) + n(c) /\ n(a \o o) = n(a) + n(o)
    BY <1>1, <1>2, Zenon
<1>5. /\ n(a \o c) \in Nat
      /\ n(a \o (o \o c)) = n(a \o c) + n(o) /\ n((a \o o) \o c) = n(a \o c) + n(o)
    BY <1>4
<1> QED
    BY <1>3, <1>5 DEF n, o

\* A route that is strict shows as a URI without lr.
LEMMA StrictSeen ==
    ASSUME NEW D, NEW s \in Seq(D)
    PROVE  (\E k \in Named(s, "Route") : ~s[k].val.address.uri.lr)
               <=> \E k \in DOMAIN RouteUris(s) : ~RouteUris(s)[k].lr
<1> DEFINE f == Filter(s, Routes(D))
           r == RouteUris(s)
<1>1. /\ f \in Seq(D) /\ r \in Seq(UrisOf(D)) /\ Len(r) = Len(f)
      /\ r = [k \in DOMAIN f |-> UriOf(f[k])]
    BY RoutesOf
<1>2. PICK at : Places(at, f, s, Routes(D))
    BY FilterPlaces
<1> HIDE DEF f, r
<1>3. \A k \in 1 .. Len(f) : at[k] \in 1 .. Len(s) /\ r[k] = UriOf(s[at[k]])
                             /\ s[at[k]].name = "Route"
    BY SMTT(40), <1>1, <1>2 DEF Places, Routes
<1>4. ASSUME NEW k \in Named(s, "Route")
      PROVE  \E i \in 1 .. Len(f) : at[i] = k
    <2>1. k \in 1 .. Len(s) /\ s[k] \in Routes(D)
        BY DEF Named, Routes
    <2> QED
        BY <1>2, <2>1 DEF Places
<1>5. DOMAIN r = 1 .. Len(f) /\ DOMAIN s = 1 .. Len(s)
    BY <1>1
<1>6. ASSUME NEW k \in Named(s, "Route"), ~s[k].val.address.uri.lr
      PROVE  \E i \in DOMAIN r : ~r[i].lr
    BY <1>3, <1>4, <1>5, <1>6 DEF UriOf
<1>7. ASSUME NEW i \in DOMAIN r, ~r[i].lr
      PROVE  \E k \in Named(s, "Route") : ~s[k].val.address.uri.lr
    BY <1>3, <1>5, <1>7 DEF UriOf, Named
<1> QED
    BY <1>6, <1>7 DEF r

\* The Via that is added or completed is no route.
LEMMA ViaNoRoute ==
    ASSUME NEW D, NEW s \in Seq(D), \A h \in D : DOMAIN h = {"name", "val"}, NEW l
    PROVE  RouteUris(WithVia(s, l)) = RouteUris(s)
<1> DEFINE own == Named(s, "Via")
           top == Lowest(own)
<1>1. CASE own = {}
    <2> DEFINE via == [name |-> "Via", val |-> NewVia(l)]
               E == D \cup {via}
    <2>1. s \in Seq(E) /\ <<via>> \in Seq(E)
        OBVIOUS
    <2>2. via.name # "Route"
        OBVIOUS
    <2>3. WithVia(s, l) = <<via>> \o s
        BY <1>1 DEF WithVia
    <2> HIDE DEF via, E
    <2>4. RouteUris(<<via>> \o s) = RouteUris(<<via>>) \o RouteUris(s)
        BY <2>1, RoutesConcat
    <2>5. RouteUris(<<via>>) = <<>> /\ RouteUris(s) \in Seq(UrisOf(D))
        BY <2>2, RoutesOfOne, RoutesOf
    <2>6. <<>> \o RouteUris(s) = RouteUris(s)
        BY <2>5
    <2> QED
        BY <2>3, <2>4, <2>5, <2>6
<1>2. CASE own # {} /\ s[top].val.branch = <<>>
    <2> DEFINE x == s[top]
               y == [x EXCEPT !.val.branch = << <<Branch>> >>]
               t == [s EXCEPT ![top] = y]
               E == D \cup {y}
    <2>1. own \in SUBSET (1 .. Len(s)) /\ Len(s) \in Nat
        BY DEF Named
    <2>2. top \in own
        BY <1>2, <2>1, Extremes
    <2>3. top \in 1 .. Len(s) /\ x.name = "Via" /\ x \in D
        BY <2>2 DEF Named
    <2>4. y.name = "Via"
        BY <2>3
    <2>5. WithVia(s, l) = t
        BY <1>2 DEF WithVia
    <2> HIDE DEF own, top, y
    <2>6. /\ t \in Seq(E) /\ s \in Seq(E) /\ Len(t) = Len(s) /\ t[top] = y
          /\ \A k \in 1 .. Len(s) : k # top => t[k] = s[k]
        BY <2>3
    <2> DEFINE a(v) == SubSeq(v, 1, top - 1)
               c(v) == SubSeq(v, top + 1, Len(v))
    <2>7. /\ a(s) \in Seq(E) /\ c(s) \in Seq(E) /\ s = a(s) \o (<<x>> \o c(s))
          /\ a(t) \in Seq(E) /\ c(t) \in Seq(E) /\ t = a(t) \o (<<y>> \o c(t))
        BY <2>3, <2>6, CutAround
    <2>8. a(t) = a(s)
        <3>1. Len(a(t)) = top - 1 /\ Len(a(s)) = top - 1
              /\ \A k \in 1 .. top - 1 : a(t)[k] = t[k] /\ a(s)[k] = s[k]
            BY <2>1, <2>3, <2>6
        <3>2. \A k \in 1 .. top - 1 : k \in 1 .. Len(s) /\ k # top
            BY <2>1, <2>3
        <3> HIDE DEF a
        <3>3. \A k \in 1 .. Len(a(t)) : a(t)[k] = a(s)[k]
            BY <2>6, <3>1, <3>2
        <3> QED
            BY <2>7, <3>1, <3>3, SeqEqual
    <2>9. c(t) = c(s)
        <3>1. ASSUME NEW v \in Seq(E), Len(v) = Len(s)
              PROVE  /\ Len(c(v)) = Len(s) - top
                     /\ \A k \in 1 .. Len(s) - top : c(v)[k] = v[top + k]
            BY <2>1, <2>3, <3>1
        <3>2. \A k \in 1 .. Len(s) - top : top + k \in 1 .. Len(s) /\ top + k # top
            BY <2>1, <2>3
        <3> HIDE DEF c, t, E
        <3>3. Len(c(t)) = Len(s) - top /\ Len(c(s)) = Len(s) - top
              /\ \A k \in 1 .. Len(s) - top : c(t)[k] = t[top + k] /\ c(s)[k] = s[top + k]
            BY <2>6, <3>1
        <3>4. \A k \in 1 .. Len(c(t)) : c(t)[k] = c(s)[k]
            BY <2>6, <3>2, <3>3
        <3> QED
            BY <2>7, <3>3, <3>4, SeqEqual
    <2> HIDE DEF a, c, x, t, E
    <2>10. ASSUME NEW z \in E, z.name = "Via"
           PROVE  RouteUris(a(s) \o (<<z>> \o c(s))) = RouteUris(a(s)) \o RouteUris(c(s))
        <3>1. <<z>> \in Seq(E) /\ <<z>> \o c(s) \in Seq(E)
            BY <2>7
        <3>2. RouteUris(<<z>> \o c(s)) = RouteUris(<<z>>) \o RouteUris(c(s))
            BY <2>7, <3>1, RoutesConcat
        <3>3. RouteUris(<<z>>) = <<>> /\ RouteUris(c(s)) \in Seq(UrisOf(E))
            BY <2>7, <2>10, RoutesOfOne, RoutesOf
        <3>4. RouteUris(<<z>> \o c(s)) = RouteUris(c(s))
            BY <3>2, <3>3
        <3> QED
            BY <2>7, <3>1, <3>4, RoutesConcat
    <2>11. x \in E /\ y \in E
        BY <2>3 DEF E
    <2> QED
        BY <2>3, <2>4, <2>5, <2>7, <2>8, <2>9, <2>10, <2>11
<1>3. CASE own # {} /\ s[top].val.branch # <<>>
    BY <1>3 DEF WithVia
<1> QED
    BY <1>1, <1>2, <1>3

\* What process_route_set leaves, with the next hop, is what there was, with
\* the Request-URI.
LEMMA StrictMoved ==
    ASSUME NEW m, IsRequest(m), NEW u,
           \E k \in Named(m.headers, "Route") : ~m.headers[k].val.address.uri.lr
    PROVE  LET r == ProcessRouteSet(m)
           IN  /\ Occurrences(RouteUris(r.headers), u) \in Nat
               /\ Occurrences(RouteUris(m.headers), u) \in Nat
               /\ Occurrences(RouteUris(r.headers), u) + (IF r.next = u THEN 1 ELSE 0)
                    = Occurrences(RouteUris(m.headers), u) + (IF m.start.uri = u THEN 1 ELSE 0)
<1> DEFINE s == m.headers
           strict == {k \in Named(s, "Route") : ~s[k].val.address.uri.lr}
           i == Lowest(strict)
           left == RemoveAt(s, i)
           goal == [name |-> "Route", val |-> [params |-> <<>>, address |->
                          [bare |-> FALSE, display |-> <<>>, uri |-> m.start.uri]]]
           r == ProcessRouteSet(m)
           D == ToSet(s) \cup {goal}
           n(v) == Occurrences(RouteUris(v), u)
           at == Named(left, "Route")
           j == Highest(at)
<1>1. s \in Seq(D) /\ Len(s) \in Nat
    BY DEF IsRequest
<1>2. strict \in SUBSET (1 .. Len(s)) /\ strict # {}
    BY <1>1 DEF Named
<1>3. i \in strict
    BY <1>1, <1>2, Extremes
<1>4. i \in 1 .. Len(s) /\ s[i].name = "Route"
    <2>1. i \in Named(s, "Route")
        BY <1>3
    <2> HIDE DEF i, s, D
    <2> QED
        BY <1>1, <2>1 DEF Named
<1>5. r = [next |-> UriOf(s[i]),
           headers |-> IF at = {} THEN Append(left, goal) ELSE InsertAt(left, j, goal)]
    BY <1>2 DEF ProcessRouteSet, UriOf
<1>6. One(goal, u) = IF m.start.uri = u THEN 1 ELSE 0
    BY DEF One, UriOf
<1>7. goal \in D
    OBVIOUS
<1> HIDE DEF strict, i, goal, D, r, at, j
<1> DEFINE a == SubSeq(s, 1, i - 1)
           c == SubSeq(s, i + 1, Len(s))
<1>8. a \in Seq(D) /\ c \in Seq(D) /\ s[i] \in D /\ s = a \o (<<s[i]>> \o c)
    BY <1>1, <1>4, CutAround
<1>9. left = a \o c
    BY DEF RemoveAt
<1> HIDE DEF a, c, left, s
<1>10. left \in Seq(D)
    BY <1>8, <1>9
<1>11. n(left) \in Nat /\ n(s) = n(left) + One(s[i], u)
    <2>1. ASSUME NEW x \in D
          PROVE  n(a \o c) \in Nat /\ n(a \o (<<x>> \o c)) = n(a \o c) + One(x, u)
        BY <1>8, RouteCountAround
    <2> HIDE DEF n
    <2> QED
        BY <1>8, <1>9, <2>1
<1>12. n(r.headers) = n(left) + One(goal, u)
    <2>1. CASE at = {}
        <3>1. r.headers = left \o (<<goal>> \o <<>>)
            BY <1>5, <1>7, <1>10, <2>1
        <3>2. <<>> \in Seq(D) /\ left \o <<>> = left
            BY <1>10
        <3>3. n(left \o (<<goal>> \o <<>>)) = n(left \o <<>>) + One(goal, u)
            <4>1. ASSUME NEW v \in Seq(D)
                  PROVE  n(left \o (<<goal>> \o v)) = n(left \o v) + One(goal, u)
                BY <1>7, <1>10, RouteCountAround
            <4> HIDE DEF n
            <4> QED
                BY <3>2, <4>1
        <3> QED
            BY <3>1, <3>2, <3>3
    <2>2. CASE at # {}
        <3> DEFINE b == SubSeq(left, 1, j - 1)
                   e == SubSeq(left, j, Len(left))
                   k == j - 1
        <3>1. at \in SUBSET (1 .. Len(left)) /\ Len(left) \in Nat
            BY <1>10 DEF at, Named
        <3>2. j \in 1 .. Len(left)
            BY <2>2, <3>1, Extremes DEF j
        <3>3. k \in 0 .. Len(left) /\ k + 1 = j
            BY <3>1, <3>2
        <3> HIDE DEF k
        <3>4. /\ SubSeq(left, 1, k) \in Seq(D) /\ SubSeq(left, k + 1, Len(left)) \in Seq(D)
              /\ left = SubSeq(left, 1, k) \o SubSeq(left, k + 1, Len(left))
            BY <1>10, <3>3, Cut
        <3>5. b \in Seq(D) /\ e \in Seq(D) /\ left = b \o e
            BY <3>3, <3>4 DEF k
        <3>6. r.headers = (b \o <<goal>>) \o e
            BY <1>5, <2>2 DEF InsertAt
        <3> HIDE DEF b, e
        <3>7. n((b \o <<goal>>) \o e) = n(b \o e) + One(goal, u)
            BY <1>7, <3>5, RouteCountAround
        <3> QED
            BY <3>5, <3>6, <3>7
    <2> QED
        BY <2>1, <2>2
<1>13. One(s[i], u) = IF r.next = u THEN 1 ELSE 0
    BY <1>4, <1>5 DEF One
<1> HIDE DEF n
<1>14. /\ n(r.headers) \in Nat /\ n(s) \in Nat
       /\ n(r.headers) + (IF r.next = u THEN 1 ELSE 0) = n(s) + (IF m.start.uri = u THEN 1 ELSE 0)
    BY <1>6, <1>11, <1>12, <1>13
<1> QED
    BY <1>14 DEF n, r, s

\* The set of headers a request may have after process_route_set.
LEMMA RouteSetType ==
    ASSUME NEW m, IsRequest(m)
    PROVE  \E D : /\ ProcessRouteSet(m).headers \in Seq(D) /\ m.headers \in Seq(D)
                  /\ \A h \in D : DOMAIN h = {"name", "val"}
<1> DEFINE s == m.headers
           strict == {k \in Named(s, "Route") : ~s[k].val.address.uri.lr}
           i == Lowest(strict)
           left == RemoveAt(s, i)
           goal == [name |-> "Route", val |-> [params |-> <<>>, address |->
                          [bare |-> FALSE, display |-> <<>>, uri |-> m.start.uri]]]
           r == ProcessRouteSet(m)
           D == ToSet(s) \cup {goal}
           at == Named(left, "Route")
           j == Highest(at)
<1>1. s \in Seq(D) /\ Len(s) \in Nat
    BY DEF IsRequest
<1>2. \A h \in D : DOMAIN h = {"name", "val"}
    BY DEF IsRequest
<1>3. r.headers \in Seq(D)
    <2>1. CASE strict = {}
        BY <1>1, <2>1 DEF ProcessRouteSet
    <2>2. CASE strict # {}
        <3>1. strict \in SUBSET (1 .. Len(s))
            BY <1>1 DEF Named
        <3>2. i \in 1 .. Len(s)
            BY <1>1, <2>2, <3>1, Extremes
        <3>3. r.headers = IF at = {} THEN Append(left, goal) ELSE InsertAt(left, j, goal)
            BY <2>2 DEF ProcessRouteSet
        <3>4. goal \in D
            OBVIOUS
        <3> HIDE DEF strict, i, goal, D, r, at, j
        <3>5. left \in Seq(D)
            BY <1>1, <3>2, CutAround DEF RemoveAt
        <3> HIDE DEF left
        <3>6. CASE at = {}
            BY <3>3, <3>4, <3>5, <3>6
        <3>7. CASE at # {}
            <4>1. at \in SUBSET (1 .. Len(left)) /\ Len(left) \in Nat
                BY <3>5 DEF at, Named
            <4>2. j \in 1 .. Len(left)
                BY <3>7, <4>1, Extremes DEF j
            <4>3. SubSeq(left, 1, j - 1) \in Seq(D) /\ SubSeq(left, j, Len(left)) \in Seq(D)
                BY <3>5, <4>2
            <4> QED
                BY <3>3, <3>4, <3>7, <4>3 DEF InsertAt
        <3> QED
            BY <3>6, <3>7
    <2> QED
        BY <2>1, <2>2
<1> HIDE DEF D, r, s
<1>4. r.headers \in Seq(D) /\ s \in Seq(D) /\ \A h \in D : DOMAIN h = {"name", "val"}
    BY <1>1, <1>2, <1>3
<1> QED
    BY <1>4 DEF r, s

-----------------------------------------------------------------------------
(* The invariant. *)

\* What a request needs to be in its right places.
Travelling ==
    /\ composed \in Requests /\ link \in Links
    /\ stage \in {"start", "requested"} => dest = Nothing
    /\ stage = "start" => next = Nothing
    /\ stage = "requested" /\ ~given =>
           /\ next = ProcessRouteSet(composed).next
           /\ said.headers = WithVia(ProcessRouteSet(composed).headers, link)
    /\ stage = "heard" \/ dest # Nothing =>
           request.hdrs["Via"].received = <<link.source.host>>
    /\ dest # Nothing => dest = Destination(request.hdrs["Via"])

\* The Via of a request that was read says where it came from.
LEMMA SourceNoted ==
    ASSUME NEW headers, NEW source
    PROVE  Mandatory(headers, source)["Via"].received = <<source>>
BY DEF Mandatory, MandatoryNames, Noted

\* A request starts with neither a next hop nor an answer.
LEMMA TravellingInit == JourneyInit => Travelling
BY DEF JourneyInit, Travelling

\* Every step keeps where the request goes and where its answer will go.
LEMMA TravellingStep ==
    ASSUME Travelling, [JourneyNext]_journeyVars
    PROVE  Travelling'
<1> USE DEF Travelling, Destination
<1>1. CASE \E how \in Layouts : Send(how)
    <2>1. PICK how \in Layouts : Send(how)
        BY <1>1
    <2> DEFINE r == ProcessRouteSet(composed)
    <2>2. composed \in Requests /\ "headers" \in DOMAIN composed
        BY HopsAssumption DEF IsRequest
    <2>3. ~given => next' = r.next /\ said'.headers = WithVia(r.headers, link)
        BY <2>1, <2>2 DEF Send
    <2> QED
        BY <2>1, <2>3 DEF Send
<1>2. CASE \E how \in Layouts : Acknowledge(how)
    BY <1>2 DEF Acknowledge
<1>3. CASE \E code \in Codes, byDialog \in BOOLEAN, how \in Layouts :
               Respond(code, byDialog, how)
    BY <1>3 DEF Respond
<1>4. CASE HearRequest
    BY <1>4, SourceNoted DEF HearRequest
<1>5. CASE NoTransport \/ Parse \/ Ignored \/ HearResponse \/ HearAck
    BY <1>5 DEF NoTransport, Parse, Ignored, HearResponse, HearAck, OnTheWire
<1>6. CASE UNCHANGED journeyVars
    BY <1>6 DEF journeyVars
<1> QED
    BY <1>1, <1>2, <1>3, <1>4, <1>5, <1>6 DEF JourneyNext

\* The response reaches the sender exactly if its Via lets it.
LEMMA AnswerPlace == ASSUME Travelling PROVE AnswerReachesSender
<1>1. SUFFICES ASSUME dest # Nothing
      PROVE  LET via == request.hdrs["Via"]
             IN (dest.to = link.source) <=>
                  \/ Reliable(via.proto)
                  \/ /\ Default(via.maddr, link.source.host) = link.source.host
                     /\ Default(via.port, <<"5060">>) = link.source.port
    BY DEF AnswerReachesSender
<1> DEFINE via == request.hdrs["Via"]
<1>2. via.received[1] = link.source.host /\ dest = Destination(via)
    BY <1>1 DEF Travelling
<1>3. link.source \in Address
    BY HopsAssumption DEF Travelling
<1> HIDE DEF via
<1>4. CASE Reliable(via.proto)
    BY <1>2, <1>4 DEF Destination, via
<1>5. CASE ~Reliable(via.proto)
    <2>1. dest.to = [host |-> Default(via.maddr, link.source.host),
                     port |-> Default(via.port, <<"5060">>)]
        BY <1>2, <1>5 DEF Destination, Default
    <2>2. link.source = [host |-> link.source.host, port |-> link.source.port]
        BY <1>3 DEF Address
    <2> QED
        BY <1>5, <2>1, <2>2 DEF via
<1> QED
    BY <1>4, <1>5

\* The hops of a request that is sent are the hops there were.
LEMMA HopsPlace == ASSUME Travelling PROVE HopsKept
<1>1. SUFFICES ASSUME next # Nothing, ~given, stage = "requested"
      PROVE  HopsKept
    BY DEF HopsKept
<1> DEFINE r == ProcessRouteSet(composed)
           before == RouteUris(composed.headers)
           after == RouteUris(said.headers)
           all == Append(before, composed.start.uri)
           left == Append(after, next)
<1>2. IsRequest(composed)
    BY HopsAssumption DEF Travelling
<1>3. next = r.next /\ said.headers = WithVia(r.headers, link)
    BY <1>1 DEF Travelling
<1>4. PICK D : /\ r.headers \in Seq(D) /\ composed.headers \in Seq(D)
               /\ \A h \in D : DOMAIN h = {"name", "val"}
    BY <1>2, RouteSetType
<1>5. after = RouteUris(r.headers)
    BY <1>3, <1>4, ViaNoRoute
<1>6. before \in Seq(UrisOf(D)) /\ after \in Seq(UrisOf(D))
    BY <1>4, <1>5, RoutesOf
<1>7. (\E k \in DOMAIN before : ~before[k].lr)
          <=> \E k \in Named(composed.headers, "Route") :
                  ~composed.headers[k].val.address.uri.lr
    BY <1>4, StrictSeen
<1>8. CASE \E k \in DOMAIN before : ~before[k].lr
    <2>1. ASSUME NEW u PROVE Occurrences(left, u) = Occurrences(all, u)
        <3>1. /\ Occurrences(after, u) + (IF next = u THEN 1 ELSE 0)
                    = Occurrences(before, u) + (IF composed.start.uri = u THEN 1 ELSE 0)
            BY <1>2, <1>3, <1>5, <1>7, <1>8, StrictMoved
        <3> DEFINE E == UrisOf(D) \cup {next, composed.start.uri}
        <3>2. ASSUME NEW v \in Seq(UrisOf(D)), NEW x \in {next, composed.start.uri}
              PROVE  Occurrences(Append(v, x), u) = Occurrences(v, u) + (IF x = u THEN 1 ELSE 0)
            <4>1. v \in Seq(E) /\ x \in E
                OBVIOUS
            <4> HIDE DEF E
            <4> QED
                BY <4>1, OccurrencesAppend
        <3> HIDE DEF before, after
        <3> QED
            BY <1>6, <3>1, <3>2
    <2> QED
        BY <1>1, <1>8, <2>1 DEF HopsKept
<1>9. CASE ~ \E k \in DOMAIN before : ~before[k].lr
    <2>1. r = [next |-> composed.start.uri, headers |-> composed.headers]
        BY <1>7, <1>9 DEF ProcessRouteSet
    <2>2. after = before /\ next = composed.start.uri
        BY <1>3, <1>5, <2>1
    <2> QED
        BY <1>1, <1>9, <2>2 DEF HopsKept
<1> QED
    BY <1>8, <1>9

\* A request goes to its next hop with all the others, and the response goes
\* back to the sender exactly if its Via names no other address (HopsKept,
\* AnswerReachesSender).
THEOREM PlacesRight == Journey => []RightPlaces
<1>1. Travelling => RightPlaces
    BY AnswerPlace, HopsPlace DEF RightPlaces
<1>2. Travelling /\ [JourneyNext]_journeyVars => Travelling'
    BY TravellingStep
<1> QED
    BY TravellingInit, <1>1, <1>2, PTL DEF Journey

-----------------------------------------------------------------------------
(* TsxTable. *)

\* A transaction has a key from its first step on.
Keyed == \A t \in Tsx : status[t] = "unused" <=> keyOf[t] = NoKey

\* A packet has a key once it has arrived, and the transaction whose sender
\* was cloned for it had that key.
Routed ==
    \A p \in Packet :
        /\ step[p] # "idle" => key[p] \in Key
        /\ step[p] = "sending" => target[p] \in Tsx /\ keyOf[target[p]] = key[p]

\* What waits in a channel has arrived, and has the key of the transaction.
Delivered ==
    \A t \in Tsx : \A i \in DOMAIN chan[t] :
        step[chan[t][i]] # "idle" /\ key[chan[t][i]] = keyOf[t]

\* The inductive invariant.
IInv == TableSound /\ Keyed /\ Routed /\ Delivered

USE ConstantsAssumption DEF ConstantsAssumption

-----------------------------------------------------------------------------

\* The invariant holds when the table is empty.
LEMMA Start == Init => IInv
BY DEF Init, IInv, TableSound, TypeOK, NoDanglingEntry, EntryLostOnlyToTwin,
    Keyed, Routed, Delivered, Status, Step, Key

\* What the actions of a transaction write is of its type.
LEMMA TypeStep == ASSUME IInv, [Next]_vars PROVE TypeOK'
<1> USE DEF IInv, TableSound, TypeOK
<1>1. CASE \E t \in Tsx, k \in ClientKey : SendRequest(t, k)
    BY <1>1 DEF SendRequest, Status, Key
<1>2. CASE \E t \in Tsx : Register(t) \/ RemoveTransaction(t) \/ Close(t)
    <2>1. PICK t \in Tsx : Register(t) \/ RemoveTransaction(t) \/ Close(t)
        BY <1>2
    <2>2. keyOf[t] \in Key
        BY <2>1 DEF Register, RemoveTransaction, Close, Keyed
    <2>3. table' \in [Key -> Tsx \cup {NoTsx}]
        BY <2>1, <2>2 DEF Register, RemoveTransaction, Close, Add
    <2>4. status' \in [Tsx -> Status]
        BY <2>1 DEF Register, RemoveTransaction, Close, Status
    <2> QED
        BY <2>1, <2>3, <2>4 DEF Register, RemoveTransaction, Close
<1>3. CASE \E t \in Tsx : Receive(t)
    <2>1. PICK t \in Tsx : Receive(t)
        BY <1>3
    <2>2. /\ Tail(chan[t]) \in Seq(Packet)
          /\ Len(Tail(chan[t])) = Len(chan[t]) - 1
        BY <2>1, HeadTailProperties DEF Receive
    <2>3. chan' = [chan EXCEPT ![t] = Tail(chan[t])]
        BY <2>1 DEF Receive
    <2>4. /\ chan' \in [Tsx -> Seq(Packet)]
          /\ \A u \in Tsx : Len(chan'[u]) <= ChanCap
        BY <2>2, <2>3
    <2> QED
        BY <2>1, <2>4 DEF Receive
<1>4. CASE \E p \in Packet : \E k \in Key : Arrive(p, k)
    BY <1>4 DEF Arrive, Step
<1>5. CASE \E p \in Packet :
              Found(p) \/ NotFound(p) \/ Discard(p) \/ DeliverFails(p)
    BY ZenonT(40), <1>5 DEF Found, NotFound, Discard, DeliverFails, Step, Routed
<1>6. CASE \E p \in Packet, t \in Tsx : Create(p, t)
    BY <1>6 DEF Create, Add, Step, Status, Routed
<1>7. CASE \E p \in Packet : Deliver(p)
    <2>1. PICK p \in Packet : Deliver(p)
        BY <1>7
    <2> DEFINE t == target[p]
    <2>2. t \in Tsx /\ Len(chan[t]) < ChanCap
        BY <2>1 DEF Deliver, Routed
    <2>3. Append(chan[t], p) \in Seq(Packet) /\ Len(Append(chan[t], p)) = Len(chan[t]) + 1
        BY <2>2
    <2>4. chan' = [chan EXCEPT ![t] = Append(chan[t], p)]
        BY <2>1 DEF Deliver
    <2>5. /\ chan' \in [Tsx -> Seq(Packet)]
          /\ \A u \in Tsx : Len(chan'[u]) <= ChanCap
        BY <2>2, <2>3, <2>4
    <2> QED
        BY <2>1, <2>5 DEF Deliver, Step
<1>8. CASE UNCHANGED vars
    BY <1>8 DEF vars
<1> QED
    BY <1>1, <1>2, <1>3, <1>4, <1>5, <1>6, <1>7, <1>8
    DEF Next, Transaction, Dispatch, Quiet

\* The table points to transactions that were registered and not dropped, and
\* a transaction loses its entry to another of its key only.
LEMMA TableStep ==
    ASSUME IInv, [Next]_vars
    PROVE  NoDanglingEntry' /\ EntryLostOnlyToTwin' /\ Keyed'
<1> USE DEF IInv, TableSound, TypeOK, NoDanglingEntry, EntryLostOnlyToTwin, Keyed
<1>1. CASE \E t \in Tsx, k \in ClientKey : SendRequest(t, k)
    <2>1. PICK t \in Tsx, k \in ClientKey : SendRequest(t, k)
        BY <1>1
    <2>2. /\ UNCHANGED table /\ k \in Key
          /\ status' = [status EXCEPT ![t] = "sent"]
          /\ keyOf' = [keyOf EXCEPT ![t] = k]
          /\ status[t] = "unused" /\ keyOf[t] = NoKey
        BY <2>1 DEF SendRequest, Key
    <2> QED
        BY <2>2
<1>2. CASE \E t \in Tsx : Register(t)
    <2>1. PICK t \in Tsx : Register(t)
        BY <1>2
    <2>2. /\ table' = [table EXCEPT ![keyOf[t]] = t]
          /\ status' = [status EXCEPT ![t] = "live"]
          /\ UNCHANGED keyOf /\ status[t] = "sent" /\ keyOf[t] \in Key
        BY <2>1 DEF Register, Add
    <2> QED
        BY <2>2
<1>3. CASE \E t \in Tsx : RemoveTransaction(t)
    <2>1. PICK t \in Tsx : RemoveTransaction(t)
        BY <1>3
    <2>2. /\ table' = [table EXCEPT ![keyOf[t]] = NoTsx]
          /\ status' = [status EXCEPT ![t] =
                            IF status[t] = "live" THEN "removed" ELSE "dropped"]
          /\ UNCHANGED keyOf /\ status[t] \in {"live", "closed"} /\ keyOf[t] \in Key
        BY <2>1 DEF RemoveTransaction, Add
    <2> QED
        BY <2>2
<1>4. CASE \E t \in Tsx : Close(t)
    <2>1. PICK t \in Tsx : Close(t)
        BY <1>4
    <2>2. /\ UNCHANGED <<table, keyOf>>
          /\ status' = [status EXCEPT ![t] =
                            IF status[t] = "live" THEN "closed" ELSE "dropped"]
          /\ status[t] \in {"removed", "live"}
        BY <2>1 DEF Close
    <2> QED
        BY <2>2
<1>5. CASE \E p \in Packet, t \in Tsx : Create(p, t)
    <2>1. PICK p \in Packet, t \in Tsx : Create(p, t)
        BY <1>5
    <2>2. /\ table' = [table EXCEPT ![key[p]] = t]
          /\ status' = [status EXCEPT ![t] = "live"]
          /\ keyOf' = [keyOf EXCEPT ![t] = key[p]]
          /\ status[t] = "unused" /\ key[p] \in Key /\ keyOf[t] = NoKey
        BY <2>1 DEF Create, Add, Key
    <2> QED
        BY <2>2
<1>6. CASE UNCHANGED <<table, status, keyOf>>
    BY <1>6
<1> QED
    BY <1>1, <1>2, <1>3, <1>4, <1>5, <1>6
    DEF Next, Transaction, Dispatch, Receive, Arrive, Found, NotFound, Discard,
        Deliver, DeliverFails, Quiet, vars

\* The key of a transaction and of a packet that has arrived never change.
LEMMA KeysStay ==
    ASSUME IInv, [Next]_vars
    PROVE  /\ \A t \in Tsx : keyOf[t] # NoKey => keyOf'[t] = keyOf[t]
           /\ \A p \in Packet : step[p] # "idle" => key'[p] = key[p] /\ step'[p] # "idle"
BY DEF IInv, TableSound, TypeOK, Keyed, Next, Transaction, Dispatch, SendRequest,
    Register, RemoveTransaction, Close, Receive, Arrive, Found, NotFound, Create, Discard,
    Deliver, DeliverFails, Quiet, vars

\* Every step keeps the messages on their way.
LEMMA RoutedStep == ASSUME IInv, [Next]_vars PROVE Routed'
<1> SUFFICES ASSUME NEW p \in Packet
             PROVE  /\ step'[p] # "idle" => key'[p] \in Key
                    /\ step'[p] = "sending" =>
                           target'[p] \in Tsx /\ keyOf'[target'[p]] = key'[p]
    BY DEF Routed
<1> USE DEF IInv, TableSound, TypeOK
<1>1. CASE \E k \in Key : Arrive(p, k)
    BY <1>1 DEF Arrive
<1>2. CASE Found(p)
    <2>1. /\ key[p] \in Key /\ table[key[p]] \in Tsx /\ keyOf[table[key[p]]] = key[p]
          /\ target'[p] = table[key[p]] /\ UNCHANGED <<keyOf, key>>
        BY <1>2 DEF Found, Routed, NoDanglingEntry
    <2> QED
        BY <2>1
<1>3. CASE \/ NotFound(p) \/ Discard(p) \/ Deliver(p) \/ DeliverFails(p)
           \/ \E t \in Tsx : Create(p, t)
    <2>1. step'[p] # "sending" /\ step[p] # "idle" /\ UNCHANGED key
        BY <1>3 DEF NotFound, Discard, Deliver, DeliverFails, Create
    <2> QED
        BY <2>1 DEF Routed
<1>4. CASE step'[p] = step[p] /\ key'[p] = key[p] /\ target'[p] = target[p]
    <2>1. CASE step[p] = "sending"
        <3>1. target[p] \in Tsx /\ keyOf[target[p]] = key[p] /\ key[p] \in Key
            BY <2>1 DEF Routed
        <3>2. keyOf'[target[p]] = keyOf[target[p]]
            BY <3>1, KeysStay
        <3> QED
            BY <1>4, <3>1, <3>2
    <2>2. CASE step[p] # "sending"
        BY <1>4, <2>2 DEF Routed
    <2> QED
        BY <2>1, <2>2
<1>5. ASSUME NEW q \in Packet \ {p},
             Dispatch(q) \/ \E k \in Key : Arrive(q, k)
      PROVE  step'[p] = step[p] /\ key'[p] = key[p] /\ target'[p] = target[p]
    BY <1>5 DEF Dispatch, Found, NotFound, Create, Discard, Deliver, DeliverFails,
        Arrive
<1>6. ASSUME NEW t \in Tsx, Transaction(t)
      PROVE  UNCHANGED <<step, key, target>>
    BY <1>6 DEF Transaction, SendRequest, Register, RemoveTransaction, Close, Receive
<1> QED
    BY SMTT(40), <1>1, <1>2, <1>3, <1>4, <1>5, <1>6 DEF Next, Dispatch, Quiet, vars

\* Every step keeps what was delivered right.
LEMMA DeliveredStep == ASSUME IInv, [Next]_vars PROVE Delivered'
<1> USE DEF IInv, TableSound, TypeOK
<1> SUFFICES ASSUME NEW t \in Tsx, NEW i \in DOMAIN chan'[t]
             PROVE  /\ step'[chan'[t][i]] # "idle"
                    /\ key'[chan'[t][i]] = keyOf'[t]
    BY DEF Delivered
\* Whatever is in the channel was there before, or is delivered now.
<1>1. ASSUME NEW p \in Packet, step[p] # "idle", key[p] = keyOf[t]
      PROVE  step'[p] # "idle" /\ key'[p] = keyOf'[t]
    <2>1. key[p] \in Key
        BY <1>1 DEF Routed
    <2> QED
        BY <1>1, <2>1, KeysStay
<1>2. CASE \E j \in DOMAIN chan[t] : chan'[t][i] = chan[t][j]
    <2>1. PICK j \in DOMAIN chan[t] : chan'[t][i] = chan[t][j]
        BY <1>2
    <2>2. chan[t][j] \in Packet
        OBVIOUS
    <2> QED
        BY <1>1, <2>1, <2>2 DEF Delivered
<1>3. CASE Receive(t)
    <2>1. chan'[t] = Tail(chan[t]) /\ chan[t] # <<>> /\ chan[t] \in Seq(Packet)
        BY <1>3 DEF Receive
    <2>2. i + 1 \in DOMAIN chan[t] /\ chan'[t][i] = chan[t][i + 1]
        BY <2>1, HeadTailProperties
    <2> QED
        BY <1>2, <2>2
<1>4. ASSUME NEW p \in Packet, Deliver(p)
      PROVE  \/ \E j \in DOMAIN chan[t] : chan'[t][i] = chan[t][j]
             \/ /\ step'[chan'[t][i]] # "idle"
                /\ key'[chan'[t][i]] = keyOf'[t]
    <2>1. /\ target[p] \in Tsx /\ keyOf[target[p]] = key[p] /\ key[p] \in Key
          /\ chan' = [chan EXCEPT ![target[p]] = Append(chan[target[p]], p)]
          /\ step[p] # "idle"
        BY <1>4 DEF Deliver, Routed
    <2>2. CASE target[p] # t
        BY <2>1, <2>2
    <2>3. CASE target[p] = t
        <3>1. chan'[t] = Append(chan[t], p) /\ chan[t] \in Seq(Packet)
            BY <2>1, <2>3
        <3>2. CASE i = Len(chan[t]) + 1
            BY <1>1, <2>1, <2>3, <3>1, <3>2
        <3>3. CASE i # Len(chan[t]) + 1
            BY <3>1, <3>3
        <3> QED
            BY <3>2, <3>3
    <2> QED
        BY <2>2, <2>3
<1>5. CASE chan'[t] = chan[t]
    BY <1>2, <1>5
<1>6. ASSUME NEW p \in Packet, Dispatch(p), ~Deliver(p)
      PROVE  UNCHANGED chan
    BY <1>6 DEF Dispatch, Found, NotFound, Create, Discard, DeliverFails
<1>7. ASSUME NEW p \in Packet, NEW k \in Key, Arrive(p, k)
      PROVE  UNCHANGED chan
    BY <1>7 DEF Arrive
<1>8. ASSUME NEW u \in Tsx, Transaction(u), ~Receive(t)
      PROVE  chan'[t] = chan[t]
    BY <1>8 DEF Transaction, SendRequest, Register, RemoveTransaction, Close, Receive
<1> QED
    BY <1>2, <1>3, <1>4, <1>5, <1>6, <1>7, <1>8 DEF Next, Quiet, vars

-----------------------------------------------------------------------------

\* The inductive invariant holds always.
THEOREM Invariance == Spec => []IInv
<1>1. Init => IInv
    BY Start
<1>2. IInv /\ [Next]_vars => IInv'
    BY TypeStep, TableStep, RoutedStep, DeliveredStep DEF IInv, TableSound
<1> QED
    BY <1>1, <1>2, PTL DEF Spec

\* The table leads to transactions registered under the key and not dropped,
\* although add replaces and remove does not look whose entry it takes; and
\* only a transaction with a twin can miss its entry.
THEOREM TableCorrect == Spec => []TableSound
<1>1. IInv => TableSound
    BY DEF IInv
<1> QED
    BY <1>1, Invariance, PTL

\* A message reaches transactions of its own key only, however lookup,
\* delivery, creation and drop interleave.
THEOREM RoutedRight == Spec => []RightTransaction
<1>1. IInv => RightTransaction
    BY DEF IInv, Routed, Delivered, RightTransaction
<1> QED
    BY <1>1, Invariance, PTL
=============================================================================
