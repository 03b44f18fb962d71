-------------------------- MODULE JudgeParser_proofs --------------------------
(***************************************************************************)
(* The theorems about the parser of the judge's answers, for texts of any  *)
(* length.  Induction over a text is a choice of the least or the greatest *)
(* position at which a claim fails, which the well-foundedness of Nat      *)
(* gives.                                                                  *)
(***************************************************************************)
EXTENDS JudgeParser, FiniteSetTheorems, SequenceTheorems, TLAPS

USE JudgeAssumption

-----------------------------------------------------------------------------
(* Least and greatest positions.                                           *)

LEMMA LeastOf ==
  ASSUME NEW S \in SUBSET Nat, S # {}
  PROVE  \E m \in S : \A n \in S : m <= n
<1> DEFINE R == {p \in Nat \X Nat : p[1] < p[2]}
<1>1. OpToRel(<, Nat) = R
  BY DEF OpToRel
<1>2. IsWellFoundedOn(R, Nat)
  BY <1>1, NatLessThanWellFounded
<1>3. PICK m \in S : \A n \in S : ~(<<n, m>> \in R)
  <2> HIDE DEF R
  <2> QED BY <1>2, WFMin
<1>4. ASSUME NEW n \in S PROVE m <= n
  <2>1. ~(<<n, m>> \in R) /\ <<n, m>> \in Nat \X Nat
    BY <1>3
  <2>2. ~(n < m)
    BY <2>1
  <2> QED BY <2>2
<1> QED BY <1>4

LEMMA LeastIn ==
  ASSUME NEW S \in SUBSET Nat, S # {}
  PROVE  Least(S) \in S /\ \A n \in S : Least(S) <= n
BY LeastOf DEF Least

LEMMA GreatestOf ==
  ASSUME NEW n \in Nat, NEW S \in SUBSET (0 .. n), S # {}
  PROVE  \E m \in S : \A k \in S : k <= m
<1> DEFINE T == {n - k : k \in S}
<1>1. T \in SUBSET Nat /\ T # {}
  <2>1. \A k \in S : k \in 0 .. n
    OBVIOUS
  <2>2. \A k \in S : n - k \in Nat
    BY <2>1
  <2> QED BY <2>2
<1>2. PICK t \in T : \A u \in T : t <= u
  BY <1>1, LeastOf
<1>3. PICK m \in S : t = n - m
  BY <1>2
<1>4. ASSUME NEW k \in S PROVE k <= m
  <2>1. n - m <= n - k
    BY <1>2, <1>3
  <2>2. k \in 0 .. n /\ m \in 0 .. n
    OBVIOUS
  <2> QED BY <2>1, <2>2
<1> QED BY <1>4

LEMMA GreatestIn ==
  ASSUME NEW n \in Nat, NEW S \in SUBSET (0 .. n), S # {}
  PROVE  Greatest(S) \in S /\ \A k \in S : k <= Greatest(S)
BY GreatestOf DEF Greatest

(* What holds at 0 and with every m below n also at m + 1 holds at n. *)
LEMMA Climb ==
  ASSUME NEW n \in Nat, NEW T, 0 \in T, \A m \in 0 .. n - 1 : m \in T => m + 1 \in T
  PROVE  n \in T
<1> SUFFICES ASSUME n \notin T PROVE FALSE
  OBVIOUS
<1> DEFINE Missed == {m \in 0 .. n : m \notin T}
<1>1. PICK m \in Missed : \A k \in Missed : m <= k
  BY LeastOf, Missed \in SUBSET Nat, n \in Missed
<1>2. m # 0 /\ m - 1 \in 0 .. n - 1 /\ m - 1 \notin Missed
  BY <1>1
<1>3. m - 1 \in T
  BY <1>2
<1>4. (m - 1) + 1 \in T
  BY <1>2, <1>3
<1> QED BY <1>1, <1>4

-----------------------------------------------------------------------------
(* What the functions of JudgeParser satisfy: each has an argument whose   *)
(* value rests on greater positions only.                                  *)

StringBody(s, end, k) ==
  IF k > Len(s) THEN 0
  ELSE IF s[k] = "quote" THEN k
  ELSE IF s[k] # "backslash" THEN end[k + 1]
  ELSE IF k < Len(s) /\ s[k + 1] \in {"quote", "backslash"} THEN end[k + 2]
  ELSE 0

LEMMA StringEndsExist ==
  ASSUME NEW s \in Seq(Tokens)
  PROVE  \E g \in [1 .. Len(s) + 1 -> 0 .. Len(s)] :
           \A k \in 1 .. Len(s) + 1 : g[k] = StringBody(s, g, k)
<1> DEFINE L == Len(s)
           G == [1 .. L + 1 -> 0 .. L]
           Solves(g, k) == g[k] = StringBody(s, g, k)
           T == {m \in 0 .. L + 1 : \E g \in G : \A k \in L + 2 - m .. L + 1 : Solves(g, k)}
<1>1. L \in Nat
  OBVIOUS
<1> HIDE DEF L
<1>2. 0 \in T
  <2>1. [k \in 1 .. L + 1 |-> 0] \in G
    BY <1>1
  <2>2. L + 2 - 0 .. L + 1 = {}
    BY <1>1
  <2>3. 0 \in 0 .. L + 1
    BY <1>1
  <2>4. \A k \in L + 2 - 0 .. L + 1 : Solves([j \in 1 .. L + 1 |-> 0], k)
    BY <2>2
  <2> HIDE DEF Solves, G
  <2> QED BY <2>1, <2>3, <2>4
<1>3. ASSUME NEW m \in 0 .. L, m \in T PROVE m + 1 \in T
  <2>1. PICK g \in G : \A k \in L + 2 - m .. L + 1 : Solves(g, k)
    BY <1>3
  <2> DEFINE n == L + 1 - m
             h == [g EXCEPT ![n] = StringBody(s, g, n)]
  <2>2. n \in 1 .. L + 1
    BY <1>1
  <2>3. StringBody(s, g, n) \in 0 .. L
    BY <1>1, <2>2 DEF StringBody, L
  <2>4. h \in G
    BY <2>2, <2>3
  <2>5. ASSUME NEW k \in n .. L + 1 PROVE Solves(h, k)
    <3>1. StringBody(s, h, k) = StringBody(s, g, k)
      BY <1>1, <2>2 DEF StringBody, L
    <3>2. CASE k = n
      BY <2>2, <3>1, <3>2
    <3>3. CASE k # n
      BY <1>1, <2>1, <2>2, <3>1, <3>3
    <3> QED BY <3>2, <3>3
  <2>6. n = L + 2 - (m + 1)
    BY <1>1
  <2> HIDE DEF n, h
  <2> QED BY <1>1, <2>4, <2>5, <2>6
<1>4. L + 1 \in T
  <2> HIDE DEF T
  <2> QED BY <1>1, <1>2, <1>3, Climb
<1>5. L + 2 - (L + 1) = 1
  BY <1>1
<1> QED BY <1>4, <1>5 DEF L

LEMMA StringEndsOf ==
  ASSUME NEW s \in Seq(Tokens)
  PROVE  /\ StringEnds(s) \in [1 .. Len(s) + 1 -> 0 .. Len(s)]
         /\ \A k \in 1 .. Len(s) + 1 : StringEnds(s)[k] = StringBody(s, StringEnds(s), k)
<1> DEFINE Equation(g) == g = [k \in 1 .. Len(s) + 1 |-> StringBody(s, g, k)]
<1>1. PICK g \in [1 .. Len(s) + 1 -> 0 .. Len(s)] :
             \A k \in 1 .. Len(s) + 1 : g[k] = StringBody(s, g, k)
  BY StringEndsExist
<1>2. Equation(g)
  BY <1>1
<1>3. Equation(StringEnds(s))
  <2>1. StringEnds(s) = CHOOSE h : Equation(h)
    BY DEF StringEnds, StringBody
  <2> HIDE DEF Equation
  <2> QED BY <1>2, <2>1
<1> DEFINE h == StringEnds(s)
           Bad == {k \in 1 .. Len(s) + 1 : h[k] \notin 0 .. Len(s)}
<1>4. Len(s) \in Nat
  OBVIOUS
<1>5. Bad = {}
  <2> SUFFICES ASSUME Bad # {} PROVE FALSE
    OBVIOUS
  <2>1. PICK k \in Bad : \A j \in Bad : j <= k
    BY <1>4, GreatestOf, Bad \in SUBSET (0 .. Len(s) + 1), Len(s) + 1 \in Nat
  <2>2. h[k] = StringBody(s, h, k)
    BY <1>3
  <2>3. \A j \in 1 .. Len(s) + 1 : j > k => h[j] \in 0 .. Len(s)
    BY <1>4, <2>1
  <2> HIDE DEF h
  <2> QED BY <1>4, <2>1, <2>2, <2>3 DEF StringBody
<1> QED BY <1>3, <1>5

(* The same for Ends, where an object inside an object is a jump whose     *)
(* length is itself a value of the function: values are 0 or lie ahead.    *)
Past(f, j) == IF j = 0 THEN 0 ELSE f[<<"object", j>>]

EndBody(s, f, a) ==
  IF a[2] > Len(s) THEN 0
  ELSE IF a[1] = "string"
    THEN IF s[a[2]] = "quote" THEN a[2] + 1
         ELSE IF s[a[2]] = "backslash" THEN f[<<"string", a[2] + 2>>]
         ELSE f[<<"string", a[2] + 1>>]
    ELSE IF s[a[2]] = "close" THEN a[2] + 1
         ELSE IF s[a[2]] = "open" THEN Past(f, f[<<"object", a[2] + 1>>])
         ELSE IF s[a[2]] = "quote" THEN Past(f, f[<<"string", a[2] + 1>>])
         ELSE f[<<"object", a[2] + 1>>]

Kinds == {"string", "object"}
Spots(s) == Kinds \X (1 .. Len(s) + 2)
Ahead(s, f, i) == \A w \in Kinds : f[<<w, i>>] = 0 \/ f[<<w, i>>] \in i + 1 .. Len(s) + 1

LEMMA EndBodyAhead ==
  ASSUME NEW s \in Seq(Tokens), NEW f, NEW i \in 1 .. Len(s) + 2, NEW w \in Kinds,
         \A j \in i + 1 .. Len(s) + 2 : Ahead(s, f, j)
  PROVE  EndBody(s, f, <<w, i>>) = 0 \/ EndBody(s, f, <<w, i>>) \in i + 1 .. Len(s) + 1
<1> DEFINE L == Len(s)
<1>1. L \in Nat
  OBVIOUS
<1>2. CASE i > L
  BY <1>2 DEF EndBody
<1>3. CASE i <= L
  <2>1. i + 1 \in i + 1 .. L + 2 /\ i + 2 \in i + 1 .. L + 2
    BY <1>1, <1>3
  <2>2. ASSUME NEW v \in Kinds
        PROVE  /\ f[<<v, i + 1>>] = 0 \/ f[<<v, i + 1>>] \in i + 2 .. L + 1
               /\ f[<<v, i + 2>>] = 0 \/ f[<<v, i + 2>>] \in i + 3 .. L + 1
    BY <2>1 DEF Ahead
  <2>3. ASSUME NEW v \in Kinds
        PROVE  Past(f, f[<<v, i + 1>>]) = 0 \/ Past(f, f[<<v, i + 1>>]) \in i + 1 .. L + 1
    <3> DEFINE j == f[<<v, i + 1>>]
    <3>1. CASE j = 0
      BY <3>1 DEF Past
    <3>2. CASE j # 0
      <4>1. j \in i + 2 .. L + 1
        BY <2>2, <3>2
      <4> HIDE DEF j
      <4>2. Ahead(s, f, j)
        BY <4>1, <1>1
      <4>3. f[<<"object", j>>] = 0 \/ f[<<"object", j>>] \in j + 1 .. L + 1
        BY <4>2 DEF Ahead, Kinds
      <4>4. Past(f, j) = f[<<"object", j>>]
        BY <3>2 DEF Past
      <4>5. Past(f, j) = 0 \/ Past(f, j) \in i + 1 .. L + 1
        <5> DEFINE p == f[<<"object", j>>]
        <5> HIDE DEF p, L
        <5>1. p = 0 \/ p \in j + 1 .. L + 1
          BY <4>3 DEF p, L
        <5>2. p = 0 \/ p \in i + 1 .. L + 1
          BY <5>1, <4>1, <1>1
        <5> QED BY <5>2, <4>4 DEF p
      <4> QED BY <4>5 DEF j
    <3> QED BY <3>1, <3>2
  <2> DEFINE InRange(x) == x = 0 \/ x \in i + 1 .. L + 1
  <2>4. /\ InRange(0) /\ InRange(i + 1)
        /\ \A v \in Kinds : /\ InRange(f[<<v, i + 1>>]) /\ InRange(f[<<v, i + 2>>])
                            /\ InRange(Past(f, f[<<v, i + 1>>]))
    <3> HIDE DEF L
    <3> QED BY <1>1, <1>3, <2>2, <2>3 
  <2>5. "string" \in Kinds /\ "object" \in Kinds
    BY DEF Kinds
  <2>6. <<w, i>>[1] = w /\ <<w, i>>[2] = i
    OBVIOUS
  <2>7. InRange(EndBody(s, f, <<w, i>>))
    <3> HIDE DEF InRange
    <3> QED BY <2>4, <2>5, <2>6 DEF EndBody
  <2> QED BY <2>7
<1> QED BY <1>1, <1>2, <1>3

(* The value at a position does not read the position or what is before.   *)
LEMMA EndBodyLocal ==
  ASSUME NEW s \in Seq(Tokens), NEW f, NEW g, NEW i \in 1 .. Len(s) + 2, NEW w \in Kinds,
         \A j \in i + 1 .. Len(s) + 2 :
            Ahead(s, f, j) /\ \A v \in Kinds : f[<<v, j>>] = g[<<v, j>>]
  PROVE  EndBody(s, f, <<w, i>>) = EndBody(s, g, <<w, i>>)
<1> DEFINE L == Len(s)
<1>1. L \in Nat
  OBVIOUS
<1>2. CASE i > L
  BY <1>2 DEF EndBody
<1>3. CASE i <= L
  <2>1. i + 1 \in i + 1 .. L + 2 /\ i + 2 \in i + 1 .. L + 2
    BY <1>1, <1>3
  <2>2. ASSUME NEW v \in Kinds
        PROVE  f[<<v, i + 1>>] = g[<<v, i + 1>>] /\ f[<<v, i + 2>>] = g[<<v, i + 2>>]
    BY <2>1
  <2>3. ASSUME NEW v \in Kinds PROVE Past(f, f[<<v, i + 1>>]) = Past(g, g[<<v, i + 1>>])
    <3> DEFINE j == f[<<v, i + 1>>]
    <3>1. CASE j = 0
      BY <2>2, <3>1 DEF Past
    <3>2. CASE j # 0
      <4>1. j \in i + 2 .. L + 1
        BY <2>1, <3>2 DEF Ahead
      <4>2. j \in i + 1 .. L + 2
        BY <4>1, <1>1
      <4>3. f[<<"object", j>>] = g[<<"object", j>>]
        BY <4>2 DEF Kinds
      <4> QED BY <2>2, <3>2, <4>3 DEF Past
    <3> QED BY <3>1, <3>2
  <2>4. "string" \in Kinds /\ "object" \in Kinds
    BY DEF Kinds
  <2> QED BY <1>1, <1>3, <2>2, <2>3, <2>4 DEF EndBody
<1> QED BY <1>1, <1>2, <1>3

LEMMA EndsExist ==
  ASSUME NEW s \in Seq(Tokens)
  PROVE  \E f : f = [a \in Spots(s) |-> EndBody(s, f, a)]
<1> DEFINE L == Len(s)
           Solves(g, i) == Ahead(s, g, i) /\ \A w \in Kinds : g[<<w, i>>] = EndBody(s, g, <<w, i>>)
           T == {m \in 0 .. L + 2 : \E g : \A i \in L + 3 - m .. L + 2 : Solves(g, i)}
<1>1. L \in Nat
  OBVIOUS
<1>2. 0 \in T
  <2>1. L + 3 - 0 .. L + 2 = {} /\ 0 \in 0 .. L + 2
    BY <1>1
  <2> HIDE DEF Solves, L
  <2> QED BY <2>1
<1>3. ASSUME NEW m \in 0 .. L + 1, m \in T PROVE m + 1 \in T
  <2>1. PICK g : \A i \in L + 3 - m .. L + 2 : Solves(g, i)
    BY <1>3
  <2> DEFINE n == L + 2 - m
             h == [a \in Spots(s) |-> IF a[2] = n THEN EndBody(s, g, a) ELSE g[a]]
  <2>2. n \in 1 .. L + 2 /\ L + 3 - m = n + 1 /\ n = L + 3 - (m + 1)
    BY <1>1
  <2>3. \A j \in n + 1 .. L + 2 : Solves(g, j)
    BY <2>1, <2>2
  <2> HIDE DEF n
  <2>4. ASSUME NEW j \in n + 1 .. L + 2, NEW w \in Kinds PROVE h[<<w, j>>] = g[<<w, j>>]
    BY <1>1, <2>2 DEF Spots
  <2>5. ASSUME NEW j \in n + 1 .. L + 2 PROVE Ahead(s, h, j)
    <3>1. Ahead(s, g, j)
      BY <2>3
    <3> HIDE DEF h
    <3> QED BY <2>4, <3>1 DEF Ahead
  <2>6. ASSUME NEW w \in Kinds PROVE h[<<w, n>>] = EndBody(s, g, <<w, n>>)
    BY <2>2 DEF Spots
  <2>7. ASSUME NEW i \in n .. L + 2, NEW w \in Kinds
        PROVE  EndBody(s, g, <<w, i>>) = EndBody(s, h, <<w, i>>)
    <3>1. i \in 1 .. L + 2 /\ \A j \in i + 1 .. L + 2 : j \in n + 1 .. L + 2
      BY <1>1, <2>2
    <3>2. \A j \in i + 1 .. L + 2 : Ahead(s, g, j) /\ \A v \in Kinds : g[<<v, j>>] = h[<<v, j>>]
      BY <2>3, <2>4, <3>1
    <3> HIDE DEF h
    <3> QED BY <3>1, <3>2, EndBodyLocal
  <2> HIDE DEF h
  <2>8. ASSUME NEW i \in n .. L + 2 PROVE Solves(h, i)
    <3>1. CASE i = n
      <4>1. \A w \in Kinds : h[<<w, n>>] = EndBody(s, h, <<w, n>>)
        BY <2>6, <2>7, <3>1
      <4>2. Ahead(s, h, n)
        BY <2>2, <2>5, <4>1, EndBodyAhead DEF Ahead
      <4> QED BY <3>1, <4>1, <4>2
    <3>2. CASE i # n
      <4>1. i \in n + 1 .. L + 2
        BY <1>1, <2>2, <3>2
      <4> QED BY <2>3, <2>4, <2>5, <2>7, <4>1
    <3> QED BY <3>1, <3>2
  <2>9. m + 1 \in 0 .. L + 2
    BY <1>1
  <2> HIDE DEF Solves
  <2> QED BY <2>2, <2>8, <2>9
<1>4. L + 2 \in T
  <2> HIDE DEF T
  <2>1. L + 2 \in Nat /\ L + 2 - 1 = L + 1
    BY <1>1
  <2> QED BY <1>2, <1>3, <2>1, Climb
<1>5. PICK g : \A i \in 1 .. L + 2 : Solves(g, i)
  <2>1. L + 3 - (L + 2) = 1
    BY <1>1
  <2> HIDE DEF Solves
  <2> QED BY <1>4, <2>1
<1> DEFINE f == [a \in Spots(s) |-> g[a]]
<1>6. ASSUME NEW a \in Spots(s) PROVE f[a] = EndBody(s, f, a)
  <2>1. PICK w \in Kinds, i \in 1 .. L + 2 : a = <<w, i>>
    BY DEF Spots
  <2>2. \A j \in i + 1 .. L + 2 : j \in 1 .. L + 2
    BY <1>1
  <2>3. \A j \in i + 1 .. L + 2 : Ahead(s, g, j) /\ \A v \in Kinds : g[<<v, j>>] = f[<<v, j>>]
    BY <1>5, <2>2 DEF Spots
  <2>4. f[a] = g[<<w, i>>]
    BY <2>1
  <2> HIDE DEF f
  <2> QED BY <1>5, <2>1, <2>3, <2>4, EndBodyLocal
<1>7. f = [a \in Spots(s) |-> EndBody(s, f, a)]
  BY <1>6
<1> QED BY <1>7

(* What Ends does at every position.                                       *)
LEMMA EndsOf ==
  ASSUME NEW s \in Seq(Tokens), NEW i \in 1 .. Len(s) + 2
  PROVE  /\ Ahead(s, Ends(s), i)
         /\ \A w \in Kinds : Ends(s)[<<w, i>>] = EndBody(s, Ends(s), <<w, i>>)
<1> DEFINE Equation(g) == g = [a \in Spots(s) |-> EndBody(s, g, a)]
<1>1. \E g : Equation(g)
  BY EndsExist
<1>2. Ends(s) = CHOOSE g : Equation(g)
  BY DEF Ends, EndBody, Past, Spots, Kinds
<1>3. Equation(Ends(s))
  <2> HIDE DEF Equation
  <2> QED BY <1>1, <1>2
<1> DEFINE L == Len(s)
<1>4. L \in Nat
  OBVIOUS
<1>5. ASSUME NEW j \in 1 .. L + 2, NEW w \in Kinds
      PROVE  Ends(s)[<<w, j>>] = EndBody(s, Ends(s), <<w, j>>)
  BY <1>3 DEF Spots
<1> DEFINE Bad == {j \in 1 .. L + 2 : ~Ahead(s, Ends(s), j)}
<1>6. Bad = {}
  <2> SUFFICES ASSUME Bad # {} PROVE FALSE
    OBVIOUS
  <2>1. Bad \in SUBSET (0 .. L + 2) /\ L + 2 \in Nat
    BY <1>4
  <2>2. PICK k \in Bad : \A j \in Bad : j <= k
    BY <2>1, GreatestOf
  <2>3. \A j \in k + 1 .. L + 2 : Ahead(s, Ends(s), j)
    BY <1>4, <2>2
  <2>4. Ahead(s, Ends(s), k)
    BY <1>5, <2>3, EndBodyAhead DEF Ahead
  <2> QED BY <2>2, <2>4
<1> QED BY <1>5, <1>6

-----------------------------------------------------------------------------
(* The scanner and Ends.                                                   *)

(* Of n open objects the innermost goes on at top (0 if nothing brings it  *)
(* there), and what closes them in turn closes the outermost before end.   *)
Leads(s, n, top, end) ==
  \E e : /\ e[0] = end /\ e[n] = top
         /\ \A k \in 1 .. n : e[k - 1] = Past(Ends(s), e[k])

LEMMA LeadsNowhere ==
  ASSUME NEW s, NEW n \in Nat, NEW end, Leads(s, n, 0, end)
  PROVE  end = 0
<1>1. PICK e : e[0] = end /\ e[n] = 0 /\ \A k \in 1 .. n : e[k - 1] = Past(Ends(s), e[k])
  BY DEF Leads
<1> DEFINE Zeros == {k \in 0 .. n : e[k] = 0}
<1>2. Zeros \in SUBSET Nat /\ Zeros # {}
  <2>1. n \in Zeros
    BY <1>1
  <2> QED BY <2>1
<1>3. PICK k \in Zeros : \A j \in Zeros : k <= j
  <2> HIDE DEF Zeros
  <2> QED BY <1>2, LeastOf
<1>4. CASE k = 0
  BY <1>1, <1>3, <1>4
<1>5. CASE k # 0
  <2>1. k \in 1 .. n /\ k - 1 \in 0 .. n
    BY <1>5
  <2>2. e[k - 1] = 0
    BY <1>1, <1>3, <2>1 DEF Past
  <2>3. k - 1 \in Zeros
    BY <2>1, <2>2
  <2> QED BY <1>3, <2>1, <2>3
<1> QED BY <1>4, <1>5

(* An open object more, or the one that was innermost closed.              *)
LEMMA LeadsPast ==
  ASSUME NEW s, NEW n \in Nat, NEW top, NEW end
  PROVE  Leads(s, n + 1, top, end) <=> Leads(s, n, Past(Ends(s), top), end)
<1>1. ASSUME Leads(s, n + 1, top, end) PROVE Leads(s, n, Past(Ends(s), top), end)
  <2>1. PICK e : /\ e[0] = end /\ e[n + 1] = top
                 /\ \A k \in 1 .. n + 1 : e[k - 1] = Past(Ends(s), e[k])
    BY <1>1 DEF Leads
  <2>2. n + 1 \in 1 .. n + 1 /\ (n + 1) - 1 = n /\ \A k \in 1 .. n : k \in 1 .. n + 1
    OBVIOUS
  <2>3. e[n] = Past(Ends(s), top)
    BY <2>1, <2>2
  <2>4. \A k \in 1 .. n : e[k - 1] = Past(Ends(s), e[k])
    BY <2>1, <2>2
  <2> QED BY <2>1, <2>3, <2>4 DEF Leads
<1>2. ASSUME Leads(s, n, Past(Ends(s), top), end) PROVE Leads(s, n + 1, top, end)
  <2>1. PICK e : /\ e[0] = end /\ e[n] = Past(Ends(s), top)
                 /\ \A k \in 1 .. n : e[k - 1] = Past(Ends(s), e[k])
    BY <1>2 DEF Leads
  <2> DEFINE d == [k \in 0 .. n + 1 |-> IF k = n + 1 THEN top ELSE e[k]]
  <2>2. d[0] = end /\ d[n + 1] = top
    BY <2>1
  <2>3. ASSUME NEW k \in 1 .. n + 1 PROVE d[k - 1] = Past(Ends(s), d[k])
    <3>1. CASE k = n + 1
      <4>1. d[k - 1] = e[n] /\ d[k] = top
        BY <3>1
      <4> HIDE DEF d
      <4> QED BY <2>1, <4>1
    <3>2. CASE k # n + 1
      <4>1. k \in 1 .. n /\ d[k - 1] = e[k - 1] /\ d[k] = e[k]
        BY <3>2
      <4> HIDE DEF d
      <4> QED BY <2>1, <4>1
    <3> QED BY <3>1, <3>2
  <2> HIDE DEF d
  <2> QED BY <2>2, <2>3 DEF Leads
<1> QED BY <1>1, <1>2

LEMMA LeadsHere ==
  ASSUME NEW s, NEW top, NEW end
  PROVE  Leads(s, 0, top, end) <=> top = end
<1>1. ASSUME Leads(s, 0, top, end) PROVE top = end
  BY <1>1 DEF Leads
<1>2. ASSUME top = end PROVE Leads(s, 0, top, end)
  <2> DEFINE e == [k \in {0} |-> end]
  <2>1. e[0] = end /\ 1 .. 0 = {}
    OBVIOUS
  <2> HIDE DEF e
  <2> QED BY <1>2, <2>1 DEF Leads
<1> QED BY <1>1, <1>2

LEMMA PositionsOf ==
  ASSUME NEW s \in Seq(Tokens), NEW token
  PROVE  Positions(s, token) \in SUBSET (1 .. Len(s)) /\ Positions(s, token) \in SUBSET Nat
<1>1. Len(s) \in Nat
  OBVIOUS
<1> QED BY <1>1 DEF Positions

(* Where the string or the object goes on that the scanner is in.          *)
Top == IF ~inString THEN at ELSE Ends(text)[<<"string", IF escape THEN at + 1 ELSE at>>]

Closing == Ends(text)[<<"object", Start + 1>>]

(* What was scanned is accounted for: the strings and objects still open   *)
(* lead to the end of the first object.                                    *)
ScanningInv ==
  pc = "scanning" =>
    /\ Positions(text, "open") # {} /\ extracted = <<>> /\ ~IsVerdict(text)
    /\ at \in Start .. Len(text) + 1
    /\ escape => inString
    /\ depth = 0 => at = Start /\ ~inString
    /\ depth # 0 => Leads(text, depth, Top, Closing)

ScannedInv == pc = "scanned" => ~IsVerdict(text) /\ extracted = FirstBalanced(text)

(* The parser as a function of the text.                                   *)
Believed(s) == [passed |-> s[2] = "pass", malformed |-> FALSE, raw |-> content]

Judgement ==
  IF IsVerdict(text) THEN Believed(text)
  ELSE IF IsVerdict(FirstBalanced(text)) THEN Believed(FirstBalanced(text))
  ELSE Malformed

ReadInv ==
  IF pc \in {"stripped", "scanning", "scanned", "answered"} THEN text = Stripped(content)
  ELSE content = <<>>

ResultInv == result = IF pc = "answered" THEN Judgement ELSE NoResult

IInv == TypeOK /\ ScanningInv /\ ScannedInv /\ ReadInv /\ ResultInv

-----------------------------------------------------------------------------
(* Keep: what is left of a text when positions are taken out.              *)

LEMMA UpToOf ==
  ASSUME NEW n \in Nat, NEW kept \in SUBSET (1 .. n)
  PROVE  /\ IsFiniteSet(kept) /\ Cardinality(kept) \in Nat
         /\ \A i \in Nat : UpTo(kept, i) \in 0 .. Cardinality(kept)
         /\ UpTo(kept, 0) = 0 /\ UpTo(kept, n) = Cardinality(kept)
<1>1. ASSUME NEW k \in kept PROVE ~(k <= 0) /\ k <= n
  OBVIOUS
<1>2. IsFiniteSet(kept) /\ Cardinality(kept) \in Nat
  <2>1. IsFiniteSet(1 .. n)
    BY FS_Interval
  <2> QED BY <2>1, FS_Subset, FS_CardinalityType
<1>3. ASSUME NEW j \in Nat PROVE UpTo(kept, j) \in 0 .. Cardinality(kept)
  <2> DEFINE below == {k \in kept : k <= j}
  <2>1. below \in SUBSET kept
    OBVIOUS
  <2>2. IsFiniteSet(below) /\ Cardinality(below) <= Cardinality(kept)
    <3> HIDE DEF below
    <3> QED BY <1>2, <2>1, FS_Subset
  <2>3. Cardinality(below) \in Nat
    <3> HIDE DEF below
    <3> QED BY <2>2, FS_CardinalityType
  <2> QED BY <1>2, <2>2, <2>3 DEF UpTo
<1>4. {k \in kept : k <= 0} = {}
  BY <1>1
<1>5. {k \in kept : k <= n} = kept
  BY <1>1
<1> QED BY <1>2, <1>3, <1>4, <1>5, FS_EmptySet DEF UpTo

LEMMA UpToStep ==
  ASSUME NEW n \in Nat, NEW kept \in SUBSET (1 .. n), NEW i \in Nat, i # 0
  PROVE  /\ i - 1 \in Nat
         /\ UpTo(kept, i) = IF i \in kept THEN UpTo(kept, i - 1) + 1 ELSE UpTo(kept, i - 1)
<1> DEFINE before == {k \in kept : k <= i - 1}
<1>1. ASSUME NEW k \in kept PROVE k <= i <=> k <= i - 1 \/ k = i
  OBVIOUS
<1>2. i - 1 \in Nat /\ i <= i /\ ~(i <= i - 1)
  OBVIOUS
<1>3. IsFiniteSet(before)
  <2>1. before \in SUBSET kept
    OBVIOUS
  <2>2. IsFiniteSet(kept)
    BY UpToOf
  <2> HIDE DEF before
  <2> QED BY <2>1, <2>2, FS_Subset
<1>4. CASE i \in kept
  <2>1. {k \in kept : k <= i} = before \union {i}
    BY <1>1, <1>2, <1>4, Zenon
  <2>2. i \notin before
    BY <1>2
  <2>3. Cardinality(before \union {i}) = Cardinality(before) + 1
    <3> HIDE DEF before
    <3> QED BY <1>3, <2>2, FS_AddElement
  <2> QED BY <1>2, <1>4, <2>1, <2>3 DEF UpTo
<1>5. CASE i \notin kept
  <2>1. {k \in kept : k <= i} = before
    BY <1>1, <1>2, <1>5, Zenon
  <2> QED BY <1>2, <1>5, <2>1 DEF UpTo
<1> QED BY <1>4, <1>5

LEMMA UpToMonotone ==
  ASSUME NEW n \in Nat, NEW kept \in SUBSET (1 .. n), NEW i \in Nat, NEW j \in Nat, i <= j
  PROVE  UpTo(kept, i) <= UpTo(kept, j)
<1> DEFINE below(m) == {k \in kept : k <= m}
<1>1. \A k \in kept : k \in Int
  OBVIOUS
<1>2. below(j) \in SUBSET kept /\ below(i) \in SUBSET below(j)
  <2>1. \A k \in kept : k <= i => k <= j
    BY <1>1
  <2> QED BY <2>1
<1>3. Cardinality(below(i)) <= Cardinality(below(j))
  <2> HIDE DEF below
  <2>1. IsFiniteSet(below(j))
    BY <1>2, UpToOf, FS_Subset
  <2> QED BY <1>2, <2>1, FS_Subset
<1> QED BY <1>3 DEF UpTo

LEMMA UpToStrict ==
  ASSUME NEW n \in Nat, NEW kept \in SUBSET (1 .. n), NEW i \in kept, NEW j \in kept, i < j
  PROVE  UpTo(kept, i) < UpTo(kept, j)
<1>1. i \in Nat /\ j \in Nat /\ j # 0 /\ i <= j - 1
  OBVIOUS
<1>2. j - 1 \in Nat /\ UpTo(kept, j) = UpTo(kept, j - 1) + 1
  BY <1>1, UpToStep
<1>3. UpTo(kept, i) <= UpTo(kept, j - 1)
  BY <1>1, <1>2, UpToMonotone
<1>4. UpTo(kept, i) \in 0 .. Cardinality(kept) /\ UpTo(kept, j - 1) \in 0 .. Cardinality(kept)
  BY <1>1, <1>2, UpToOf
<1>5. Cardinality(kept) \in Nat
  BY UpToOf
<1> QED BY <1>2, <1>3, <1>4, <1>5

(* The kept position i comes to stand at UpTo(kept, i), and every place of *)
(* the result comes from one.                                              *)
LEMMA KeepOf ==
  ASSUME NEW s \in Seq(Tokens), NEW kept \in SUBSET (1 .. Len(s))
  PROVE  /\ Keep(s, kept) \in Seq(Tokens) /\ Len(Keep(s, kept)) = Cardinality(kept)
         /\ \A i \in kept : /\ UpTo(kept, i) \in 1 .. Cardinality(kept)
                            /\ Keep(s, kept)[UpTo(kept, i)] = s[i]
         /\ \A n \in 1 .. Cardinality(kept) : \E i \in kept : UpTo(kept, i) = n
<1> DEFINE L == Len(s)
           C == Cardinality(kept)
           place(n) == CHOOSE i \in kept : UpTo(kept, i) = n
<1>1. L \in Nat /\ C \in Nat
  BY UpToOf
<1>2. ASSUME NEW n \in 1 .. C PROVE \E i \in kept : UpTo(kept, i) = n
  <2> DEFINE Reached == {i \in 0 .. L : n <= UpTo(kept, i)}
  <2>1. L \in Reached /\ Reached \in SUBSET Nat
    BY <1>1, UpToOf
  <2>2. PICK i \in Reached : \A j \in Reached : i <= j
    BY <2>1, LeastOf
  <2>3. i # 0
    BY <2>2, UpToOf, <1>1
  <2>4. i - 1 \in Nat /\ i - 1 \in 0 .. L /\ (i - 1) + 1 = i
    BY <2>3, <1>1
  <2>5. UpTo(kept, i - 1) \in Int /\ UpTo(kept, i - 1) < n
    <3>1. i - 1 \notin Reached
      BY <2>2, <2>4
    <3>2. UpTo(kept, i - 1) \in Int
      BY <1>1, <2>4, UpToOf
    <3> QED BY <2>4, <3>1, <3>2
  <2>6. UpTo(kept, i) = IF i \in kept THEN UpTo(kept, i - 1) + 1 ELSE UpTo(kept, i - 1)
    <3>1. i \in Nat /\ i # 0
      BY <2>3
    <3> QED BY <1>1, <3>1, UpToStep
  <2>7. n <= UpTo(kept, i)
    BY <2>2
  <2> QED BY <2>5, <2>6, <2>7
<1>3. ASSUME NEW n \in 1 .. C PROVE place(n) \in kept /\ UpTo(kept, place(n)) = n
  BY <1>2
<1>4. Keep(s, kept) = [n \in 1 .. C |-> s[place(n)]]
  BY DEF Keep
<1>5. \A n \in 1 .. C : s[place(n)] \in Tokens
  BY <1>3, ElementOfSeq
<1>6. Keep(s, kept) \in Seq(Tokens) /\ Len(Keep(s, kept)) = C
  <2>1. Keep(s, kept) \in [1 .. C -> Tokens]
    BY <1>4, <1>5
  <2>2. Keep(s, kept) \in Seq(Tokens)
    BY <1>1, <2>1, SeqDef
  <2> HIDE DEF C
  <2> QED BY <1>1, <2>1, <2>2, LenProperties
<1>7. ASSUME NEW i \in kept
      PROVE  UpTo(kept, i) \in 1 .. C /\ Keep(s, kept)[UpTo(kept, i)] = s[i]
  <2> DEFINE n == UpTo(kept, i)
  <2>1. i \in Nat /\ i # 0 /\ i - 1 \in Nat
    OBVIOUS
  <2>2. n \in 1 .. C
    <3>1. n = UpTo(kept, i - 1) + 1
      BY <1>1, <2>1, UpToStep
    <3>2. UpTo(kept, i - 1) \in 0 .. C /\ n \in 0 .. C
      BY <1>1, <2>1, UpToOf
    <3> QED BY <1>1, <3>1, <3>2
  <2>3. place(n) = i
    <3> DEFINE p == place(n)
    <3>1. p \in kept /\ UpTo(kept, p) = n
      BY <1>3, <2>2
    <3> HIDE DEF p
    <3>2. ~(p < i) /\ ~(i < p)
      <4>1. ~(n < n)
        BY <1>1, <2>2
      <4> HIDE DEF L
      <4> QED BY <1>1, <3>1, <4>1, UpToStrict DEF L
    <3>3. p \in Int /\ i \in Int
      BY <3>1
    <3>4. p = i
      BY <3>2, <3>3
    <3> QED BY <3>4 DEF p
  <2> HIDE DEF n, C, place
  <2>4. Keep(s, kept)[n] = s[i]
    BY <1>4, <2>2, <2>3
  <2> QED BY <2>2, <2>4 DEF n
<1> QED BY <1>2, <1>6, <1>7

LEMMA StrippedType ==
  ASSUME NEW s \in Seq(Tokens)
  PROVE  Stripped(s) \in Seq(Tokens) /\ WithoutThinking(s) \in Seq(Tokens)
<1>1. WithoutThinking(s) \in Seq(Tokens)
  BY KeepOf DEF WithoutThinking
<1>2. ASSUME NEW t \in Seq(Tokens), NEW m \in Int, NEW n \in Int, 1 <= m, n <= Len(t)
      PROVE  SubSeq(t, m, n) \in Seq(Tokens)
  <2>1. \A i \in m .. n : t[i] \in Tokens
    BY <1>2, ElementOfSeq
  <2> QED BY <2>1, SubSeqProperties
<1>3. ASSUME NEW t \in Seq(Tokens) PROVE WithoutFences(t) \in Seq(Tokens)
  <2> DEFINE opened == IF Positions(t, "fence") = {} THEN t ELSE Drop(t, Least(Positions(t, "fence")))
             last == Positions(opened, "fence")
  <2>1. opened \in Seq(Tokens)
    <3>1. CASE Positions(t, "fence") = {}
      BY <3>1
    <3>2. CASE Positions(t, "fence") # {}
      <4> DEFINE i == Least(Positions(t, "fence"))
      <4>1. i \in 1 .. Len(t)
        BY <3>2, PositionsOf, LeastIn
      <4> HIDE DEF i
      <4>2. SubSeq(t, 1, i - 1) \in Seq(Tokens) /\ SubSeq(t, i + 1, Len(t)) \in Seq(Tokens)
        BY <1>2, <4>1
      <4>3. opened = SubSeq(t, 1, i - 1) \o SubSeq(t, i + 1, Len(t))
        BY <3>2 DEF Drop, i
      <4> QED BY <4>2, <4>3, ConcatProperties
    <3> QED BY <3>1, <3>2
  <2> HIDE DEF opened
  <2>2. CASE last = {}
    BY <2>1, <2>2 DEF WithoutFences, opened
  <2>3. CASE last # {}
    <3> DEFINE i == Greatest(last)
    <3>1. last \in SUBSET (0 .. Len(opened)) /\ Len(opened) \in Nat
      BY <2>1 DEF Positions
    <3>2. i \in 1 .. Len(opened)
      BY <2>1, <2>3, <3>1, PositionsOf, GreatestIn
    <3>3. WithoutFences(t) = SubSeq(opened, 1, i - 1)
      BY <2>3 DEF WithoutFences, opened
    <3> HIDE DEF i
    <3> QED BY <1>2, <2>1, <3>2, <3>3
  <2> QED BY <2>2, <2>3
<1> QED BY <1>1, <1>3 DEF Stripped

LEMMA VerdictShape ==
  ASSUME NEW s \in Seq(Tokens), IsVerdict(s)
  PROVE  /\ Len(s) \in Nat /\ Len(s) >= 5 /\ Positions(s, "open") # {}
         /\ (s[2] = "pass") \in BOOLEAN
<1>1. Len(s) \in Nat /\ Len(s) >= 5
  BY DEF IsVerdict
<1>2. 1 \in Positions(s, "open")
  BY <1>1 DEF IsVerdict, Positions
<1> QED BY <1>1, <1>2

-----------------------------------------------------------------------------
(* Every state of the parser satisfies IInv.                               *)

(* What the next character says of the ends of strings and objects.        *)
LEMMA PastAt ==
  ASSUME NEW s \in Seq(Tokens), NEW i \in 1 .. Len(s) + 1
  PROVE  /\ i > Len(s) => Past(Ends(s), i) = 0 /\ Ends(s)[<<"string", i>>] = 0
         /\ i <= Len(s) =>
              /\ Past(Ends(s), i) =
                   IF s[i] = "close" THEN i + 1
                   ELSE IF s[i] = "open" THEN Past(Ends(s), Past(Ends(s), i + 1))
                   ELSE IF s[i] = "quote" THEN Past(Ends(s), Ends(s)[<<"string", i + 1>>])
                   ELSE Past(Ends(s), i + 1)
              /\ Ends(s)[<<"string", i>>] =
                   IF s[i] = "quote" THEN i + 1
                   ELSE IF s[i] = "backslash" THEN Ends(s)[<<"string", i + 2>>]
                   ELSE Ends(s)[<<"string", i + 1>>]
<1>1. Len(s) \in Nat /\ i \in 1 .. Len(s) + 2
  OBVIOUS
<1>2. /\ Ends(s)[<<"object", i>>] = EndBody(s, Ends(s), <<"object", i>>)
      /\ Ends(s)[<<"string", i>>] = EndBody(s, Ends(s), <<"string", i>>)
  BY <1>1, EndsOf DEF Kinds
<1>3. /\ Past(Ends(s), i) = Ends(s)[<<"object", i>>]
      /\ Past(Ends(s), i + 1) = Ends(s)[<<"object", i + 1>>]
  BY DEF Past
<1>4. /\ <<"object", i>>[1] = "object" /\ <<"object", i>>[2] = i
      /\ <<"string", i>>[1] = "string" /\ <<"string", i>>[2] = i
  OBVIOUS
<1>5. CASE i > Len(s)
  BY <1>1, <1>2, <1>3, <1>4, <1>5 DEF EndBody
<1>6. CASE ~(i > Len(s))
  BY <1>1, <1>2, <1>3, <1>4, <1>6 DEF EndBody
<1> QED BY <1>1, <1>5, <1>6

LEMMA StartOf ==
  ASSUME text \in Seq(Tokens), Positions(text, "open") # {}
  PROVE  Start \in 1 .. Len(text) /\ text[Start] = "open"
<1>1. Start \in Positions(text, "open")
  BY PositionsOf, LeastIn DEF Start
<1> QED BY <1>1 DEF Positions

LEMMA InitInv == Init => IInv
<1> SUFFICES ASSUME Init PROVE IInv
  OBVIOUS
<1>1. TypeOK
  BY EmptySeq DEF Init, TypeOK, NoResult
<1> QED BY <1>1 DEF Init, IInv, ScanningInv, ScannedInv, ReadInv, ResultInv

LEMMA EnterStep == ASSUME IInv, Enter PROVE IInv'
<1> USE DEF IInv, Enter
<1>1. TypeOK'
  BY DEF TypeOK, scanner
<1> QED BY <1>1 DEF ScanningInv, ScannedInv, ReadInv, ResultInv, scanner

LEMMA ExitStep == ASSUME IInv, Exit PROVE IInv'
<1> USE DEF IInv, Exit, Forget
<1>1. TypeOK'
  BY EmptySeq DEF TypeOK, NoResult
<1> QED BY <1>1 DEF ScanningInv, ScannedInv, ReadInv, ResultInv, NoResult

LEMMA AskAgainStep == ASSUME IInv, AskAgain PROVE IInv'
<1> USE DEF IInv, AskAgain, Forget
<1>1. TypeOK'
  BY EmptySeq DEF TypeOK, NoResult
<1> QED BY <1>1 DEF ScanningInv, ScannedInv, ReadInv, ResultInv, NoResult

LEMMA TransportFailsStep == ASSUME IInv, TransportFails PROVE IInv'
<1> USE DEF IInv, TransportFails
<1>1. TypeOK'
  BY DEF TypeOK, scanner
<1> QED BY <1>1 DEF ScanningInv, ScannedInv, ReadInv, ResultInv, scanner

LEMMA AnswerStep == ASSUME IInv, NEW s \in Contents, Answer(s) PROVE IInv'
<1> USE DEF IInv, Answer
<1>1. s \in Seq(Tokens) /\ Stripped(s) \in Seq(Tokens)
  BY StrippedType DEF JudgeAssumption
<1>2. TypeOK'
  BY <1>1 DEF TypeOK, scanner
<1> QED BY <1>2 DEF ScanningInv, ScannedInv, ReadInv, ResultInv, scanner

LEMMA WholeTextStep == ASSUME IInv, WholeText PROVE IInv'
<1> USE DEF IInv, WholeText, Accept
<1>1. TypeOK'
  BY DEF TypeOK, scanner
<1>2. Judgement' = Believed(text)
  BY DEF Judgement, Believed
<1>3. ResultInv'
  BY <1>2 DEF ResultInv, Believed
<1> QED BY <1>1, <1>3 DEF ScanningInv, ScannedInv, ReadInv, scanner

LEMMA StartScanStep == ASSUME IInv, StartScan PROVE IInv'
<1> USE DEF IInv, StartScan
<1>1. CASE Positions(text, "open") = {}
  <2>1. TypeOK'
    BY <1>1, EmptySeq DEF TypeOK
  <2>2. ScannedInv'
    BY <1>1 DEF ScannedInv, FirstBalanced
  <2> QED BY <1>1, <2>1, <2>2 DEF ScanningInv, ReadInv, ResultInv
<1>2. CASE Positions(text, "open") # {}
  <2>1. text \in Seq(Tokens) /\ Start \in 1 .. Len(text) /\ at' = Start /\ Start' = Start
    BY <1>2, StartOf DEF TypeOK, Start
  <2>2. TypeOK'
    <3>1. at' \in Nat
      BY <2>1
    <3>2. extracted' \in Seq(Tokens)
      BY EmptySeq
    <3> QED BY <1>2, <3>1, <3>2 DEF TypeOK
  <2>3. ScanningInv'
    BY <1>2, <2>1 DEF ScanningInv, TypeOK
  <2> QED BY <1>2, <2>2, <2>3 DEF ScannedInv, ReadInv, ResultInv
<1> QED BY <1>1, <1>2

LEMMA FirstObjectStep == ASSUME IInv, FirstObject PROVE IInv'
<1> USE DEF IInv, FirstObject, Accept
<1>1. TypeOK'
  BY DEF TypeOK, scanner
<1>2. ~IsVerdict(text) /\ extracted = FirstBalanced(text) /\ IsVerdict(FirstBalanced(text))
  BY DEF ScannedInv
<1>3. Judgement' = Believed(extracted)
  BY <1>2 DEF Judgement, Believed
<1>4. ResultInv'
  BY <1>3 DEF ResultInv, Believed
<1> QED BY <1>1, <1>4 DEF ScanningInv, ScannedInv, ReadInv, scanner

LEMMA NoVerdictStep == ASSUME IInv, NoVerdict PROVE IInv'
<1> USE DEF IInv, NoVerdict, FallBack
<1>1. TypeOK'
  BY DEF TypeOK, Malformed, scanner
<1>2. ~IsVerdict(text) /\ ~IsVerdict(FirstBalanced(text))
  BY DEF ScannedInv
<1>3. Judgement' = Malformed
  BY <1>2 DEF Judgement, Malformed
<1>4. ResultInv'
  BY <1>3 DEF ResultInv
<1> QED BY <1>1, <1>4 DEF ScanningInv, ScannedInv, ReadInv, scanner

LEMMA StutterStep == ASSUME IInv, UNCHANGED vars PROVE IInv'
BY DEF IInv, vars, scanner, TypeOK, ScanningInv, ScannedInv, ReadInv, ResultInv, Judgement,
       Believed, Malformed, NoResult, Top, Closing, Start

(* Where the scanner stands before a step of it that reads a character.    *)
LEMMA Scanning ==
  ASSUME IInv, pc = "scanning", at <= Len(text)
  PROVE  /\ text \in Seq(Tokens) /\ Len(text) \in Nat /\ at \in 1 .. Len(text)
         /\ Start \in 1 .. Len(text) /\ text[Start] = "open" /\ Start <= at
         /\ Positions(text, "open") # {} /\ extracted = <<>> /\ ~IsVerdict(text)
         /\ escape => inString
         /\ depth \in Nat
         /\ depth = 0 => at = Start /\ ~inString
         /\ depth # 0 => /\ Leads(text, depth, Top, Closing)
                         /\ ~inString => Leads(text, depth - 1, Past(Ends(text), at), Closing)
<1>1. text \in Seq(Tokens) /\ depth \in Nat /\ Positions(text, "open") # {}
  BY DEF IInv, TypeOK, ScanningInv
<1>2. Len(text) \in Nat /\ Start \in 1 .. Len(text) /\ text[Start] = "open"
  BY <1>1, StartOf
<1>3. at \in Start .. Len(text) + 1
  BY DEF IInv, ScanningInv
<1>4. ASSUME depth # 0, ~inString PROVE Leads(text, depth - 1, Past(Ends(text), at), Closing)
  <2>1. Leads(text, depth, at, Closing)
    BY <1>4 DEF IInv, ScanningInv, Top
  <2>2. depth - 1 \in Nat /\ (depth - 1) + 1 = depth
    BY <1>1, <1>4
  <2>3. Leads(text, (depth - 1) + 1, at, Closing)
    BY <2>1, <2>2
  <2> QED BY <2>2, <2>3, LeadsPast
<1> QED BY <1>1, <1>2, <1>3, <1>4 DEF IInv, ScanningInv

(* What is left to show of a step that goes on to the next character.      *)
LEMMA Continues ==
  ASSUME IInv, pc = "scanning", at <= Len(text), Continue,
         depth' \in Nat, inString' \in BOOLEAN, escape' \in BOOLEAN,
         escape' => inString', depth' # 0,
         Leads(text, depth', Top', Closing)
  PROVE  IInv'
<1>1. /\ text \in Seq(Tokens) /\ Len(text) \in Nat /\ at \in 1 .. Len(text)
      /\ Start \in 1 .. Len(text) /\ Start <= at
      /\ Positions(text, "open") # {} /\ extracted = <<>> /\ ~IsVerdict(text)
  BY Scanning
<1>2. at' = at + 1 /\ text' = text /\ pc' = pc /\ extracted' = extracted /\ Start' = Start
      /\ Closing' = Closing /\ content' = content /\ result' = result
  BY DEF Continue, Start, Closing
<1>3. TypeOK'
  <2>1. at' \in Nat
    BY <1>1, <1>2
  <2> QED BY <1>2, <2>1 DEF IInv, TypeOK
<1>4. at' \in Start' .. Len(text') + 1
  BY <1>1, <1>2
<1>5. ScanningInv'
  BY <1>1, <1>2, <1>4 DEF ScanningInv
<1> QED BY <1>2, <1>3, <1>5 DEF IInv, ScannedInv, ReadInv, ResultInv

LEMMA PlainStep == ASSUME IInv, Plain PROVE IInv'
<1> USE DEF Plain
<1>1. text \in Seq(Tokens) /\ at \in 1 .. Len(text) /\ depth \in Nat /\ at + 1 \in 1 .. Len(text) + 1
  BY Scanning
<1>2. depth # 0
  BY Scanning
<1>3. Past(Ends(text), at) = Past(Ends(text), at + 1)
  <2>1. at \in 1 .. Len(text) + 1
    BY <1>1
  <2>2. text[at] # "close" /\ text[at] # "open" /\ text[at] # "quote"
    OBVIOUS
  <2> QED BY <1>1, <2>1, <2>2, PastAt
<1>4. Leads(text, depth - 1, Past(Ends(text), at + 1), Closing)
  BY <1>2, <1>3, Scanning
<1>5. Leads(text, depth, at + 1, Closing)
  <2>1. depth - 1 \in Nat /\ (depth - 1) + 1 = depth
    BY <1>1, <1>2
  <2> QED BY <1>4, <2>1, LeadsPast
<1>6. Top' = at + 1
  BY DEF Top, Continue
<1>7. depth' = depth /\ inString' = inString /\ escape' = escape /\ inString \in BOOLEAN
      /\ escape \in BOOLEAN /\ (escape => inString)
  BY Scanning DEF IInv, TypeOK
<1> QED BY <1>1, <1>2, <1>5, <1>6, <1>7, Continues

LEMMA OpenBraceStep == ASSUME IInv, OpenBrace PROVE IInv'
<1> USE DEF OpenBrace
<1>1. /\ text \in Seq(Tokens) /\ at \in 1 .. Len(text) /\ depth \in Nat
      /\ at + 1 \in 1 .. Len(text) + 1 /\ at + 1 # 0
  BY Scanning
<1>2. Past(Ends(text), at) = Past(Ends(text), Past(Ends(text), at + 1))
  <2>1. at \in 1 .. Len(text) + 1
    BY <1>1
  <2> QED BY <1>1, <2>1, PastAt
<1>3. Leads(text, depth, Past(Ends(text), at + 1), Closing)
  <2>1. CASE depth = 0
    <3>1. at = Start
      BY <2>1, Scanning
    <3>2. Past(Ends(text), at + 1) = Closing
      BY <1>1, <3>1 DEF Past, Closing
    <3> QED BY <2>1, <3>2, LeadsHere
  <2>2. CASE depth # 0
    <3>1. Leads(text, depth - 1, Past(Ends(text), Past(Ends(text), at + 1)), Closing)
      BY <1>2, <2>2, Scanning
    <3>2. depth - 1 \in Nat /\ (depth - 1) + 1 = depth
      BY <1>1, <2>2
    <3>3. Leads(text, (depth - 1) + 1, Past(Ends(text), at + 1), Closing)
      BY <3>1, <3>2, LeadsPast
    <3> QED BY <3>2, <3>3
  <2> QED BY <2>1, <2>2
<1>4. Leads(text, depth + 1, at + 1, Closing)
  BY <1>1, <1>3, LeadsPast
<1>5. Top' = at + 1
  BY DEF Top, Continue
<1>6. depth' = depth + 1 /\ depth' \in Nat /\ depth' # 0 /\ inString' = inString
      /\ escape' = escape /\ inString \in BOOLEAN /\ escape \in BOOLEAN /\ (escape => inString)
  BY <1>1, Scanning DEF IInv, TypeOK
<1> QED BY <1>1, <1>4, <1>5, <1>6, Continues

LEMMA OpenStringStep == ASSUME IInv, OpenString PROVE IInv'
<1> USE DEF OpenString
<1>1. /\ text \in Seq(Tokens) /\ at \in 1 .. Len(text) /\ depth \in Nat
      /\ at \in 1 .. Len(text) + 1 /\ depth # 0
  BY Scanning
<1>2. Past(Ends(text), at) = Past(Ends(text), Ends(text)[<<"string", at + 1>>])
  BY <1>1, PastAt
<1>3. Leads(text, depth, Ends(text)[<<"string", at + 1>>], Closing)
  <2>1. Leads(text, depth - 1, Past(Ends(text), Ends(text)[<<"string", at + 1>>]), Closing)
    BY <1>1, <1>2, Scanning
  <2>2. depth - 1 \in Nat /\ (depth - 1) + 1 = depth
    BY <1>1
  <2> QED BY <2>1, <2>2, LeadsPast
<1>4. inString' = TRUE /\ escape' = FALSE /\ depth' = depth
  BY Scanning DEF IInv, TypeOK
<1>5. Top' = Ends(text)[<<"string", at + 1>>]
  BY <1>4 DEF Top, Continue
<1> QED BY <1>1, <1>3, <1>4, <1>5, Continues

LEMMA CloseInnerStep == ASSUME IInv, CloseInner PROVE IInv'
<1> USE DEF CloseInner
<1>1. /\ text \in Seq(Tokens) /\ at \in 1 .. Len(text) /\ depth \in Nat
      /\ at \in 1 .. Len(text) + 1 /\ depth # 0
  BY Scanning
<1>2. Past(Ends(text), at) = at + 1
  BY <1>1, PastAt
<1>3. Leads(text, depth - 1, at + 1, Closing)
  BY <1>1, <1>2, Scanning
<1>4. depth' = depth - 1 /\ depth' \in Nat /\ depth' # 0 /\ inString' = inString
      /\ escape' = escape /\ inString \in BOOLEAN /\ escape \in BOOLEAN /\ (escape => inString)
  BY <1>1, Scanning DEF IInv, TypeOK
<1>5. Top' = at + 1
  BY DEF Top, Continue
<1> QED BY <1>1, <1>3, <1>4, <1>5, Continues

LEMMA InStringStep == ASSUME IInv, InString PROVE IInv'
<1> USE DEF InString
<1>1. /\ text \in Seq(Tokens) /\ at \in 1 .. Len(text) /\ depth \in Nat
      /\ at \in 1 .. Len(text) + 1 /\ depth # 0 /\ (at + 1) + 1 = at + 2
  BY Scanning
<1>2. inString \in BOOLEAN /\ escape \in BOOLEAN
  BY DEF IInv, TypeOK
<1> DEFINE E == Ends(text)
<1>3. E[<<"string", at>>] =
        IF text[at] = "quote" THEN at + 1
        ELSE IF text[at] = "backslash" THEN E[<<"string", at + 2>>]
        ELSE E[<<"string", at + 1>>]
  BY <1>1, PastAt
<1>4. Top = E[<<"string", IF escape THEN at + 1 ELSE at>>]
  BY DEF Top
<1>5. Top' = IF ~inString' THEN at + 1
             ELSE E[<<"string", IF escape' THEN at + 2 ELSE at + 1>>]
  BY <1>1 DEF Top, Continue
<1> HIDE DEF E
<1>6. Top' = Top
  <2>1. CASE escape
    BY <1>2, <1>4, <1>5, <2>1
  <2>2. CASE ~escape /\ text[at] = "backslash"
    BY <1>2, <1>3, <1>4, <1>5, <2>2
  <2>3. CASE ~escape /\ text[at] = "quote"
    BY <1>2, <1>3, <1>4, <1>5, <2>3
  <2>4. CASE ~escape /\ text[at] # "backslash" /\ text[at] # "quote"
    BY <1>2, <1>3, <1>4, <1>5, <2>4
  <2> QED BY <2>1, <2>2, <2>3, <2>4
<1>7. depth' = depth /\ inString' \in BOOLEAN /\ escape' \in BOOLEAN /\ (escape' => inString')
  BY <1>2
<1>8. Leads(text, depth, Top, Closing)
  BY <1>1, Scanning
<1> QED BY <1>1, <1>6, <1>7, <1>8, Continues

LEMMA CloseObjectStep == ASSUME IInv, CloseObject PROVE IInv'
<1> USE DEF CloseObject
<1>1. /\ text \in Seq(Tokens) /\ Len(text) \in Nat /\ at \in 1 .. Len(text)
      /\ at \in 1 .. Len(text) + 1 /\ Start \in 1 .. Len(text)
      /\ Positions(text, "open") # {} /\ ~IsVerdict(text)
  BY Scanning
<1>2. Past(Ends(text), at) = at + 1
  BY <1>1, PastAt
<1>3. Closing = at + 1
  <2>1. Leads(text, 1 - 1, at + 1, Closing)
    BY <1>2, Scanning
  <2> QED BY <2>1, LeadsHere
<1>4. FirstBalanced(text) = SubSeq(text, Start, at)
  <2>1. Ends(text)[<<"object", Start + 1>>] = at + 1
    BY <1>3 DEF Closing
  <2>2. FirstBalanced(text) = SubSeq(text, Start, (at + 1) - 1)
    BY <1>1, <2>1 DEF FirstBalanced, Start
  <2> QED BY <1>1, <2>2
<1>5. SubSeq(text, Start, at) \in Seq(Tokens)
  <2>1. \A i \in Start .. at : text[i] \in Tokens
    BY <1>1, ElementOfSeq
  <2> QED BY <1>1, <2>1, SubSeqProperties
<1>6. TypeOK'
  BY <1>5 DEF IInv, TypeOK
<1>7. ScannedInv'
  BY <1>1, <1>4 DEF ScannedInv
<1> QED BY <1>6, <1>7 DEF IInv, ScanningInv, ReadInv, ResultInv

LEMMA UnbalancedStep == ASSUME IInv, Unbalanced PROVE IInv'
<1> USE DEF Unbalanced
<1>1. /\ text \in Seq(Tokens) /\ depth \in Nat /\ Positions(text, "open") # {}
      /\ extracted = <<>> /\ ~IsVerdict(text) /\ at \in Start .. Len(text) + 1
      /\ (escape => inString) /\ (depth = 0 => at = Start /\ ~inString)
      /\ (depth # 0 => Leads(text, depth, Top, Closing))
  BY DEF IInv, TypeOK, ScanningInv
<1>2. Len(text) \in Nat /\ Start \in 1 .. Len(text)
  BY <1>1, StartOf
<1>3. at = Len(text) + 1 /\ depth # 0
  BY <1>1, <1>2
<1>4. /\ Past(Ends(text), at) = 0 /\ Ends(text)[<<"string", at>>] = 0
      /\ Ends(text)[<<"string", at + 1>>] = 0
  <2>1. at \in 1 .. Len(text) + 1 /\ at > Len(text)
    BY <1>2, <1>3
  <2>2. at + 1 \in 1 .. Len(text) + 2 /\ "string" \in Kinds
    BY <1>2, <1>3 DEF Kinds
  <2>3. Ends(text)[<<"string", at + 1>>] = EndBody(text, Ends(text), <<"string", at + 1>>)
    BY <1>1, <2>2, EndsOf
  <2>4. <<"string", at + 1>>[2] > Len(text)
    BY <1>2, <1>3
  <2> QED BY <1>1, <2>1, <2>3, <2>4, PastAt DEF EndBody
<1>5. Closing = 0
  <2>1. CASE inString
    <3>1. Top = 0
      BY <1>4, <2>1 DEF Top
    <3> QED BY <1>1, <1>3, <3>1, LeadsNowhere
  <2>2. CASE ~inString
    <3>1. Leads(text, depth, at, Closing)
      BY <1>1, <1>3, <2>2 DEF Top
    <3>2. depth - 1 \in Nat /\ (depth - 1) + 1 = depth
      BY <1>1, <1>3
    <3>3. Leads(text, depth - 1, 0, Closing)
      BY <1>4, <3>1, <3>2, LeadsPast
    <3> QED BY <3>2, <3>3, LeadsNowhere
  <2> QED BY <2>1, <2>2
<1>6. FirstBalanced(text) = <<>>
  BY <1>1, <1>5 DEF FirstBalanced, Closing, Start
<1>7. TypeOK' /\ ScannedInv'
  BY <1>1, <1>6 DEF IInv, TypeOK, ScannedInv, scanner
<1> QED BY <1>7 DEF IInv, ScanningInv, ReadInv, ResultInv, scanner

LEMMA NextStep == IInv /\ [Next]_vars => IInv'
<1> SUFFICES ASSUME IInv, [Next]_vars PROVE IInv'
  OBVIOUS
<1> QED BY EnterStep, ExitStep, AskAgainStep, TransportFailsStep, AnswerStep, WholeTextStep, StartScanStep,
           InStringStep, OpenStringStep, OpenBraceStep, CloseInnerStep, CloseObjectStep,
           PlainStep, UnbalancedStep, FirstObjectStep, NoVerdictStep, StutterStep
        DEF Next, Parse, Scan

LEMMA Invariance == Spec => []IInv
BY InitInv, NextStep, PTL DEF Spec

(* Every variable of the parser keeps its type, the scanner's counter      *)
(* never goes below zero.                                                  *)
THEOREM TypeCorrect == Spec => []TypeOK
<1>1. IInv => TypeOK
  BY DEF IInv
<1> QED BY <1>1, Invariance, PTL

(* For any text of any length _extract_first_json_object returns the first *)
(* brace with what closes it, or nothing where nothing closes it.          *)
THEOREM ScannerIsExact == Spec => []ScannerExact
<1>1. IInv => ScannerExact
  BY DEF IInv, ScannedInv, ScannerExact
<1> QED BY <1>1, Invariance, PTL

-----------------------------------------------------------------------------
(* Where strings end, and fences and think blocks taken out of a text.     *)

LEMMA StringEndsShape ==
  ASSUME NEW s \in Seq(Tokens), NEW k \in 1 .. Len(s) + 1, StringEnds(s)[k] # 0
  PROVE  StringEnds(s)[k] \in k .. Len(s) /\ s[StringEnds(s)[k]] = "quote"
<1> DEFINE L == Len(s)
           E == StringEnds(s)
           Holds(i) == E[i] = 0 \/ (E[i] \in i .. L /\ s[E[i]] = "quote")
           Bad == {i \in 1 .. L + 1 : ~Holds(i)}
<1>1. L \in Nat
  OBVIOUS
<1>2. Bad = {}
  <2> SUFFICES ASSUME Bad # {} PROVE FALSE
    OBVIOUS
  <2>1. Bad \in SUBSET (0 .. L + 1) /\ L + 1 \in Nat
    BY <1>1
  <2>2. PICK i \in Bad : \A j \in Bad : j <= i
    <3> HIDE DEF Bad
    <3> QED BY <2>1, GreatestOf
  <2>3. E[i] = StringBody(s, E, i)
    BY StringEndsOf
  <2>4. i <= L
    BY <1>1, <2>2, <2>3 DEF StringBody
  <2>5. i \in Int /\ i + 1 \in 1 .. L + 1 /\ Holds(i + 1)
    BY <1>1, <2>2, <2>4
  <2>6. i < L => Holds(i + 2)
    BY <1>1, <2>2, <2>4
  <2> HIDE DEF E
  <2>7. Holds(i)
    <3>1. CASE s[i] = "quote"
      BY <1>1, <2>3, <2>4, <2>5, <3>1 DEF StringBody
    <3>2. CASE s[i] # "quote" /\ s[i] # "backslash"
      BY <1>1, <2>3, <2>4, <2>5, <3>2 DEF StringBody
    <3>3. CASE s[i] = "backslash"
      BY <1>1, <2>3, <2>4, <2>5, <2>6, <3>3 DEF StringBody
    <3> QED BY <3>1, <3>2, <3>3
  <2> QED BY <2>2, <2>7
<1> QED BY <1>2

LEMMA UpToSame ==
  ASSUME NEW n \in Nat, NEW kept \in SUBSET (1 .. n), NEW i \in Nat, NEW j \in Nat, i <= j,
         \A k \in i + 1 .. j : k \notin kept
  PROVE  UpTo(kept, i) = UpTo(kept, j)
<1>1. ASSUME NEW k \in kept PROVE k <= i <=> k <= j
  OBVIOUS
<1>2. {k \in kept : k <= i} = {k \in kept : k <= j}
  BY <1>1, Zenon
<1> QED BY <1>2 DEF UpTo

NoFence(w) == {k \in 1 .. Len(w) : w[k] # "fence"}

(* A verdict x whose tokens stand in w in this order, with nothing but     *)
(* fences between them, is a verdict in w without its fences.              *)
LEMMA FencesDoNotMatter ==
  ASSUME NEW w \in Seq(Tokens), NEW x \in Seq(Tokens), IsVerdict(x),
         NEW g \in [1 .. Len(x) -> 1 .. Len(w)],
         \A k \in 1 .. Len(x) : x[k] = w[g[k]],
         \A k, m \in 1 .. Len(x) : k < m => g[k] < g[m],
         \A k \in 1 .. Len(x) - 1 : \A l \in g[k] + 1 .. g[k + 1] - 1 : w[l] = "fence"
  PROVE  LET b == Keep(w, NoFence(w))
         IN \E i, j \in 1 .. Len(b) : IsVerdict(SubSeq(b, i, j)) /\ b[i + 1] = x[2]
<1> DEFINE kept == NoFence(w)
           b == Keep(w, kept)
           n == Len(x)
           P(i) == UpTo(kept, i)
           Q(k) == P(g[k] - 1) + 1
           C == Cardinality(kept)
<1>1. n \in Nat /\ n >= 5 /\ Len(w) \in Nat /\ kept \in SUBSET (1 .. Len(w))
  BY DEF IsVerdict, NoFence
<1>2. b \in Seq(Tokens) /\ Len(b) = C /\ C \in Nat
  BY <1>1, KeepOf, UpToOf
<1> HIDE DEF C
<1>3. ASSUME NEW k \in 1 .. n
      PROVE  g[k] \in Nat /\ g[k] # 0 /\ g[k] - 1 \in Nat /\ g[k] \in 1 .. Len(w)
  BY <1>1
<1>4. ASSUME NEW k \in 1 .. n, x[k] # "fence"
      PROVE  Q(k) = P(g[k]) /\ Q(k) \in 1 .. C /\ b[Q(k)] = x[k]
  <2>1. g[k] \in kept
    BY <1>3, <1>4 DEF NoFence
  <2>2. P(g[k]) = P(g[k] - 1) + 1
    BY <1>1, <1>3, <2>1, UpToStep
  <2>3. P(g[k]) \in 1 .. C /\ b[P(g[k])] = w[g[k]]
    BY <1>1, <2>1, KeepOf DEF C
  <2> QED BY <2>2, <2>3
<1>5. ASSUME NEW k \in 1 .. n PROVE Q(k) \in Int
  <2>1. P(g[k] - 1) \in 0 .. C
    BY <1>1, <1>3, UpToOf DEF C
  <2> QED BY <1>2, <2>1
<1>6. ASSUME NEW k \in 1 .. n - 1
      PROVE  Q(k + 1) = IF x[k] # "fence" THEN Q(k) + 1 ELSE Q(k)
  <2>1. k \in 1 .. n /\ k + 1 \in 1 .. n
    BY <1>1
  <2>2. g[k] <= g[k + 1] - 1
    BY <1>3, <2>1
  <2>3. \A l \in g[k] + 1 .. g[k + 1] - 1 : l \notin kept
    BY DEF NoFence
  <2>4. P(g[k]) = P(g[k + 1] - 1)
    BY <1>1, <1>3, <2>1, <2>2, <2>3, UpToSame
  <2>5. P(g[k]) = IF g[k] \in kept THEN P(g[k] - 1) + 1 ELSE P(g[k] - 1)
    BY <1>1, <1>3, <2>1, UpToStep
  <2>6. g[k] \in kept <=> x[k] # "fence"
    BY <1>3, <2>1 DEF NoFence
  <2> QED BY <2>4, <2>5, <2>6
<1>7. ASSUME NEW k \in 1 .. n, NEW m \in 1 .. n, k <= m PROVE Q(k) <= Q(m)
  <2>1. g[k] - 1 <= g[m] - 1
    BY <1>3, <1>7
  <2>2. P(g[k] - 1) <= P(g[m] - 1)
    BY <1>1, <1>3, <2>1, UpToMonotone
  <2>3. P(g[k] - 1) \in 0 .. C /\ P(g[m] - 1) \in 0 .. C
    BY <1>1, <1>3, UpToOf DEF C
  <2> QED BY <1>2, <2>2, <2>3
<1> HIDE DEF Q
<1> DEFINE I == Q(1)
           J == Q(n)
           y == SubSeq(b, I, J)
           R(k) == Q(k) - I + 1
<1>8. /\ x[1] = "open" /\ x[2] \in {"pass", "fail"} /\ x[3] = "quote" /\ x[n] = "close"
      /\ StringEnds(x)[4] = n - 1 /\ x[n - 1] = "quote"
  <2>1. 4 \in 1 .. n + 1 /\ n - 1 # 0
    BY <1>1
  <2>2. StringEnds(x)[4] = n - 1
    BY DEF IsVerdict
  <2> QED BY <2>1, <2>2, StringEndsShape DEF IsVerdict
<1>9. I \in 1 .. C /\ J \in 1 .. C /\ I <= J
  BY <1>1, <1>4, <1>7, <1>8
<1>10. /\ y \in Seq(Tokens) /\ Len(y) = J - I + 1
       /\ \A m \in 1 .. J - I + 1 : y[m] = b[I + m - 1]
  <2>1. \A m \in I .. J : b[m] \in Tokens
    BY <1>2, <1>9, ElementOfSeq
  <2>2. I \in Int /\ J \in Int
    BY <1>9
  <2> HIDE DEF I, J, b
  <2> QED BY <1>9, <2>1, <2>2, SubSeqProperties
<1>11. R(1) = 1 /\ R(2) = 2 /\ R(3) = 3 /\ R(4) = 4 /\ R(n) = Len(y) /\ R(n) = R(n - 1) + 1
  <2>0. 1 \in 1 .. n - 1 /\ 2 \in 1 .. n - 1 /\ 3 \in 1 .. n - 1 /\ n - 1 \in 1 .. n - 1
    BY <1>1
  <2>1. Q(2) = Q(1) + 1 /\ Q(3) = Q(2) + 1 /\ Q(4) = Q(3) + 1
    <3>1. Q(1 + 1) = Q(1) + 1
      BY <1>6, <1>8, <2>0
    <3>2. Q(2 + 1) = Q(2) + 1
      BY <1>6, <1>8, <2>0
    <3>3. Q(3 + 1) = Q(3) + 1
      BY <1>6, <1>8, <2>0
    <3> QED BY <3>1, <3>2, <3>3
  <2>2. Q(n) = Q(n - 1) + 1
    <3>1. Q((n - 1) + 1) = Q(n - 1) + 1
      BY <1>6, <1>8, <2>0
    <3>2. (n - 1) + 1 = n
      BY <1>1
    <3> QED BY <3>1, <3>2
  <2>3. 1 \in 1 .. n /\ 2 \in 1 .. n /\ n \in 1 .. n /\ n - 1 \in 1 .. n
    BY <1>1
  <2>4. Q(1) \in Int /\ Q(2) \in Int /\ Q(n) \in Int /\ Q(n - 1) \in Int
    BY <1>5, <2>3
  <2>5. R(1) = 1 /\ R(2) = 2 /\ R(3) = 3 /\ R(4) = 4
    BY <2>1, <2>4
  <2>6. R(n) = R(n - 1) + 1
    BY <2>2, <2>4
  <2>7. R(n) = Len(y)
    <3> HIDE DEF y
    <3> QED BY <1>10, <2>4
  <2> QED BY <2>5, <2>6, <2>7
<1>12. ASSUME NEW k \in 1 .. n PROVE R(k) \in 1 .. Len(y) /\ (x[k] # "fence" => y[R(k)] = x[k])
  <2>1. I <= Q(k) /\ Q(k) <= J /\ Q(k) \in Int
    BY <1>1, <1>5, <1>7
  <2>2. R(k) \in 1 .. J - I + 1 /\ I + R(k) - 1 = Q(k)
    BY <1>9, <2>1
  <2> QED BY <1>4, <1>10, <2>2
<1> HIDE DEF y, R, I, J
<1> DEFINE E == StringEnds(x)
           F == StringEnds(y)
           Holds(k) == E[k] = n - 1 => F[R(k)] = R(n - 1)
           Bad == {k \in 1 .. n - 1 : ~Holds(k)}
<1>13. Bad = {}
  <2> SUFFICES ASSUME Bad # {} PROVE FALSE
    OBVIOUS
  <2>1. Bad \in SUBSET (0 .. n) /\ n \in Nat
    BY <1>1
  <2>2. PICK k \in Bad : \A m \in Bad : m <= k
    <3> HIDE DEF Bad
    <3> QED BY <2>1, GreatestOf
  <2>3. /\ k \in 1 .. n - 1 /\ k \in 1 .. n /\ k + 1 \in 1 .. n /\ k \in 1 .. n + 1 /\ n \in 1 .. n + 1
        /\ n + 1 \in 1 .. n + 1 /\ k + 2 \in 1 .. n + 1 /\ k <= n
    BY <1>1, <2>2
  <2>4. E[k] = n - 1 /\ F[R(k)] # R(n - 1)
    BY <2>2
  <2>5. E[k] = StringBody(x, E, k) /\ E[n] = 0 /\ E[n + 1] = 0
    <3>1. E[n + 1] = StringBody(x, E, n + 1) /\ E[n] = StringBody(x, E, n)
          /\ E[k] = StringBody(x, E, k)
      BY <2>3, StringEndsOf
    <3>2. E[n + 1] = 0
      BY <1>1, <3>1 DEF StringBody
    <3> QED BY <1>1, <1>8, <3>1, <3>2 DEF StringBody
  <2>6. F[R(k)] = StringBody(y, F, R(k)) /\ R(k) <= Len(y) /\ R(k) \in Nat /\ Len(y) \in Nat
    <3>1. R(k) \in 1 .. Len(y) /\ Len(y) \in Nat
      BY <1>10, <1>12, <2>3
    <3> QED BY <1>10, <3>1, StringEndsOf
  <2>7. ASSUME NEW m \in 1 .. n, m > k, E[m] = n - 1 PROVE F[R(m)] = R(n - 1)
    <3>1. m # n
      BY <1>1, <2>5, <2>7
    <3>2. m \in 1 .. n - 1 /\ m \notin Bad
      BY <1>1, <2>2, <2>3, <2>7, <3>1
    <3> QED BY <2>7, <3>2
  <2>8. R(k + 1) = IF x[k] # "fence" THEN R(k) + 1 ELSE R(k)
    <3>1. Q(k + 1) = IF x[k] # "fence" THEN Q(k) + 1 ELSE Q(k)
      BY <1>6, <2>3
    <3> QED BY <1>5, <1>9, <2>3, <3>1 DEF R
  <2>9. x[k] # "fence" => y[R(k)] = x[k]
    BY <1>12, <2>3
  <2> HIDE DEF E, F
  <2>10. CASE x[k] = "quote"
    <3>1. k = n - 1
      BY <2>3, <2>4, <2>5, <2>10 DEF StringBody
    <3> QED BY <2>4, <2>6, <2>9, <2>10, <3>1 DEF StringBody
  <2>11. CASE x[k] # "quote" /\ x[k] # "backslash"
    <3>1. E[k + 1] = n - 1
      BY <2>3, <2>4, <2>5, <2>11 DEF StringBody
    <3>2. F[R(k + 1)] = R(n - 1)
      <4>1. k + 1 \in 1 .. n /\ k + 1 > k
        BY <2>3
      <4> QED BY <2>7, <3>1, <4>1
    <3>3. CASE x[k] = "fence"
      BY <2>4, <2>8, <3>2, <3>3
    <3>4. CASE x[k] # "fence"
      BY <2>4, <2>6, <2>8, <2>9, <2>11, <3>2, <3>4 DEF StringBody
    <3> QED BY <3>3, <3>4
  <2>12. CASE x[k] = "backslash"
    <3>1. x[k + 1] \in {"quote", "backslash"} /\ E[k + 2] = n - 1
      <4>1. n - 1 # 0
        BY <1>1
      <4> QED BY <2>4, <2>5, <2>12, <4>1 DEF StringBody
    <3>2. k + 2 # n + 1 /\ k + 2 # n
      BY <1>1, <2>5, <3>1
    <3>3. k + 2 \in 1 .. n /\ k + 2 > k /\ k + 1 \in 1 .. n - 1 /\ (k + 1) + 1 = k + 2
      BY <1>1, <2>3, <3>2
    <3>4. F[R(k + 2)] = R(n - 1)
      BY <2>7, <3>1, <3>3
    <3>5. R(k + 1) = R(k) + 1
      BY <2>8, <2>12
    <3>6. R(k + 2) = R(k) + 2
      <4>1. Q((k + 1) + 1) = Q(k + 1) + 1
        BY <1>6, <3>1, <3>3
      <4>2. Q(k + 2) = Q(k + 1) + 1
        BY <3>3, <4>1
      <4>3. Q(k) \in Int /\ Q(k + 1) \in Int /\ Q(k + 2) \in Int /\ I \in Int
        BY <1>5, <1>9, <2>3, <3>3
      <4>4. R(k + 2) = R(k + 1) + 1
        BY <4>2, <4>3 DEF R
      <4>5. R(k) \in Int
        BY <4>3 DEF R
      <4> QED BY <3>5, <4>4, <4>5
    <3>7. y[R(k) + 1] = x[k + 1] /\ R(k) < Len(y)
      <4>1. x[k + 1] # "fence"
        BY <3>1
      <4>2. R(k + 1) \in 1 .. Len(y) /\ y[R(k + 1)] = x[k + 1]
        BY <1>12, <2>3, <4>1
      <4> QED BY <2>6, <3>5, <4>2
    <3> QED BY <2>4, <2>6, <2>9, <2>12, <3>1, <3>4, <3>6, <3>7 DEF StringBody
  <2> QED BY <2>10, <2>11, <2>12
<1>14. StringEnds(y)[4] = Len(y) - 1
  <2>1. 4 \in 1 .. n - 1 /\ n - 1 \in 1 .. n
    BY <1>1
  <2>2. F[4] = R(n - 1)
    BY <1>8, <1>11, <1>13, <2>1
  <2>3. R(n - 1) \in Int
    BY <1>10, <1>12, <2>1
  <2> QED BY <1>11, <2>2, <2>3
<1>15. IsVerdict(y)
  <2>1. 1 \in 1 .. n /\ 2 \in 1 .. n /\ 3 \in 1 .. n /\ n \in 1 .. n
    BY <1>1
  <2>2. y[1] = x[1] /\ y[2] = x[2] /\ y[3] = x[3] /\ y[Len(y)] = x[n]
    <3>1. y[R(1)] = x[1] /\ y[R(2)] = x[2] /\ y[R(3)] = x[3] /\ y[R(n)] = x[n]
      BY <1>8, <1>12, <2>1
    <3> QED BY <1>11, <3>1
  <2>3. Len(y) >= 5
    <3>1. 4 \in 1 .. n /\ n - 1 \in 1 .. n /\ 4 <= n - 1
      BY <1>1
    <3>2. Q(4) <= Q(n - 1) /\ Q(4) \in Int /\ Q(n - 1) \in Int /\ I \in Int
      BY <1>5, <1>7, <1>9, <3>1
    <3>3. R(4) <= R(n - 1)
      BY <3>2 DEF R
    <3>4. R(n - 1) \in Int
      BY <3>2 DEF R
    <3> QED BY <1>11, <3>3, <3>4
  <2> QED BY <1>8, <1>14, <2>2, <2>3 DEF IsVerdict
<1>16. b[I + 1] = x[2]
  <2>1. 2 \in 1 .. n
    BY <1>1
  <2>2. y[2] = x[2] /\ 2 \in 1 .. Len(y)
    BY <1>8, <1>11, <1>12, <2>1
  <2>3. y[2] = b[I + 2 - 1]
    BY <1>10, <2>2
  <2>4. I + 2 - 1 = I + 1
    BY <1>9
  <2> QED BY <2>2, <2>3, <2>4
<1> QED BY <1>2, <1>9, <1>15, <1>16 DEF y

LEMMA SubSeqOf ==
  ASSUME NEW s \in Seq(Tokens), NEW m \in Nat, m # 0, NEW n \in Nat, n <= Len(s), m <= n + 1
  PROVE  /\ SubSeq(s, m, n) \in Seq(Tokens) /\ Len(SubSeq(s, m, n)) = n - m + 1
         /\ \A i \in 1 .. n - m + 1 : SubSeq(s, m, n)[i] = s[m + i - 1]
<1>1. \A i \in m .. n : s[i] \in Tokens
  BY ElementOfSeq
<1>2. m \in Int /\ n \in Int
  OBVIOUS
<1> QED BY <1>1, <1>2, SubSeqProperties

LEMMA DropOf ==
  ASSUME NEW s \in Seq(Tokens), NEW l \in 1 .. Len(s)
  PROVE  /\ Drop(s, l) \in Seq(Tokens) /\ Len(Drop(s, l)) = Len(s) - 1
         /\ \A i \in 1 .. Len(s) - 1 : Drop(s, l)[i] = IF i < l THEN s[i] ELSE s[i + 1]
<1> DEFINE p == SubSeq(s, 1, l - 1)
           q == SubSeq(s, l + 1, Len(s))
<1>1. Len(s) \in Nat /\ l - 1 \in Nat /\ l + 1 \in Nat /\ l \in Nat
  OBVIOUS
<1>2. /\ p \in Seq(Tokens) /\ Len(p) = l - 1
      /\ \A i \in 1 .. l - 1 : p[i] = s[i]
  <2>1. /\ p \in Seq(Tokens) /\ Len(p) = (l - 1) - 1 + 1
        /\ \A i \in 1 .. (l - 1) - 1 + 1 : p[i] = s[1 + i - 1]
    BY <1>1, SubSeqOf
  <2> QED BY <1>1, <2>1
<1>3. /\ q \in Seq(Tokens) /\ Len(q) = Len(s) - l
      /\ \A i \in 1 .. Len(s) - l : q[i] = s[l + i]
  <2>1. /\ q \in Seq(Tokens) /\ Len(q) = Len(s) - (l + 1) + 1
        /\ \A i \in 1 .. Len(s) - (l + 1) + 1 : q[i] = s[(l + 1) + i - 1]
    BY <1>1, SubSeqOf
  <2> QED BY <1>1, <2>1
<1>4. /\ p \o q \in Seq(Tokens) /\ Len(p \o q) = Len(p) + Len(q)
      /\ \A i \in 1 .. Len(p) + Len(q) : (p \o q)[i] = IF i <= Len(p) THEN p[i] ELSE q[i - Len(p)]
  BY <1>2, <1>3, ConcatProperties
<1>5. Drop(s, l) = p \o q
  BY DEF Drop
<1> DEFINE d == p \o q
<1> HIDE DEF p, q, d
<1>6. ASSUME NEW i \in 1 .. Len(s) - 1 PROVE d[i] = IF i < l THEN s[i] ELSE s[i + 1]
  <2>1. CASE i < l
    BY <1>1, <1>2, <1>3, <1>4, <2>1 DEF d
  <2>2. CASE ~(i < l)
    <3>1. d[i] = q[i - (l - 1)] /\ i - (l - 1) \in 1 .. Len(s) - l
      BY <1>1, <1>2, <1>3, <1>4, <2>2 DEF d
    <3>2. q[i - (l - 1)] = s[l + (i - (l - 1))] /\ l + (i - (l - 1)) = i + 1
      BY <1>1, <1>3, <3>1
    <3> QED BY <1>1, <2>2, <3>1, <3>2
  <2> QED BY <2>1, <2>2
<1>7. d \in Seq(Tokens) /\ Len(d) = Len(s) - 1 /\ Drop(s, l) = d
  BY <1>1, <1>2, <1>3, <1>4, <1>5 DEF d
<1> QED BY <1>6, <1>7

(* The first fence of w is at l; the last one after it at r, the position  *)
(* behind the text if there is none.                                       *)
FencesAt(w, l, r) ==
  /\ l \in 1 .. Len(w) /\ w[l] = "fence" /\ \A k \in 1 .. l - 1 : w[k] # "fence"
  /\ r \in l + 1 .. Len(w) + 1
  /\ \/ w[r] = "fence" /\ r # Len(w) + 1
     \/ r = Len(w) + 1 /\ \A k \in l + 1 .. Len(w) : w[k] # "fence"

LEMMA FencesTaken ==
  ASSUME NEW w \in Seq(Tokens)
  PROVE  LET t == WithoutFences(w)
         IN \/ (\A k \in 1 .. Len(w) : w[k] # "fence") /\ t = w
            \/ \E l, r \in 1 .. Len(w) + 1 :
                 /\ FencesAt(w, l, r)
                 /\ t \in Seq(Tokens) /\ Len(t) = r - 2
                 /\ \A m \in 1 .. r - 2 : t[m] = IF m < l THEN w[m] ELSE w[m + 1]
<1> DEFINE first == Positions(w, "fence")
<1>1. Len(w) \in Nat
  OBVIOUS
<1>2. CASE first = {}
  <2>1. \A k \in 1 .. Len(w) : w[k] # "fence"
    BY <1>2 DEF Positions
  <2> QED BY <1>2, <2>1 DEF WithoutFences
<1>3. CASE first # {}
  <2> DEFINE l == Least(first)
             o == Drop(w, l)
             last == Positions(o, "fence")
  <2>1. l \in first /\ \A k \in first : l <= k
    BY <1>3, PositionsOf, LeastIn
  <2>2. l \in 1 .. Len(w) /\ w[l] = "fence" /\ \A k \in 1 .. l - 1 : w[k] # "fence"
    <3> HIDE DEF l
    <3>1. l \in 1 .. Len(w) /\ w[l] = "fence"
      BY <2>1 DEF Positions
    <3>2. ASSUME NEW k \in 1 .. l - 1, w[k] = "fence" PROVE FALSE
      <4>1. k \in 1 .. Len(w) /\ ~(l <= k)
        BY <1>1, <3>1
      <4>2. k \in first
        BY <3>2, <4>1 DEF Positions
      <4> QED BY <2>1, <4>1, <4>2
    <3> QED BY <3>1, <3>2
  <2>3. /\ o \in Seq(Tokens) /\ Len(o) = Len(w) - 1
        /\ \A i \in 1 .. Len(w) - 1 : o[i] = IF i < l THEN w[i] ELSE w[i + 1]
    <3> HIDE DEF l
    <3> QED BY <2>2, DropOf
  <2>4. WithoutFences(w) = IF last = {} THEN o ELSE SubSeq(o, 1, Greatest(last) - 1)
    BY <1>3 DEF WithoutFences
  <2> HIDE DEF l, o
  <2>5. CASE last = {}
    <3>1. \A i \in 1 .. Len(w) - 1 : o[i] # "fence"
      BY <2>3, <2>5 DEF Positions
    <3>2. ASSUME NEW k \in l + 1 .. Len(w) PROVE w[k] # "fence"
      <4>1. k - 1 \in 1 .. Len(w) - 1 /\ ~(k - 1 < l) /\ (k - 1) + 1 = k
        BY <1>1, <2>2
      <4>2. o[k - 1] = w[k]
        BY <2>3, <4>1
      <4> QED BY <3>1, <4>1, <4>2
    <3>3. FencesAt(w, l, Len(w) + 1)
      BY <1>1, <2>2, <3>2 DEF FencesAt
    <3>4. Len(w) + 1 - 2 = Len(w) - 1 /\ l \in 1 .. Len(w) + 1 /\ Len(w) + 1 \in 1 .. Len(w) + 1
      BY <1>1, <2>2
    <3> QED BY <2>3, <2>4, <2>5, <3>3, <3>4
  <2>6. CASE last # {}
    <3> DEFINE c == Greatest(last)
    <3>1. last \in SUBSET (1 .. Len(o)) /\ last \in SUBSET (0 .. Len(w)) /\ Len(w) \in Nat
      BY <1>1, <2>3, PositionsOf
    <3>2. c \in last
      <4> HIDE DEF last
      <4> QED BY <2>6, <3>1, GreatestIn
    <3>3. c \in 1 .. Len(w) - 1 /\ o[c] = "fence"
      BY <2>3, <3>2 DEF Positions
    <3> HIDE DEF c
    <3>4. c >= l
      <4> SUFFICES ASSUME c < l PROVE FALSE
        BY <1>1, <2>2, <3>3
      <4>1. o[c] = w[c] /\ c \in 1 .. l - 1
        BY <1>1, <2>2, <2>3, <3>3
      <4> QED BY <2>2, <3>3, <4>1
    <3>5. o[c] = w[c + 1]
      BY <1>1, <2>2, <2>3, <3>3, <3>4
    <3>6. FencesAt(w, l, c + 1)
      BY <1>1, <2>2, <3>3, <3>4, <3>5 DEF FencesAt
    <3>7. /\ SubSeq(o, 1, c - 1) \in Seq(Tokens) /\ Len(SubSeq(o, 1, c - 1)) = c - 1
          /\ \A i \in 1 .. c - 1 : SubSeq(o, 1, c - 1)[i] = o[i]
      <4>1. 1 \in Nat /\ c - 1 \in Nat /\ c - 1 <= Len(o) /\ 1 <= (c - 1) + 1
        BY <1>1, <2>3, <3>3
      <4>2. /\ SubSeq(o, 1, c - 1) \in Seq(Tokens) /\ Len(SubSeq(o, 1, c - 1)) = (c - 1) - 1 + 1
            /\ \A i \in 1 .. (c - 1) - 1 + 1 : SubSeq(o, 1, c - 1)[i] = o[1 + i - 1]
        BY <2>3, <4>1, SubSeqOf
      <4> QED BY <3>3, <4>2
    <3>8. WithoutFences(w) = SubSeq(o, 1, c - 1)
      BY <2>4, <2>6 DEF c
    <3>9. (c + 1) - 2 = c - 1 /\ l \in 1 .. Len(w) + 1 /\ c + 1 \in 1 .. Len(w) + 1
      BY <1>1, <2>2, <3>3
    <3>10. \A m \in 1 .. c - 1 : SubSeq(o, 1, c - 1)[m] = IF m < l THEN w[m] ELSE w[m + 1]
      BY <1>1, <2>3, <3>3, <3>7
    <3> DEFINE t == WithoutFences(w)
               r == c + 1
    <3>11. t \in Seq(Tokens) /\ Len(t) = r - 2
           /\ \A m \in 1 .. r - 2 : t[m] = IF m < l THEN w[m] ELSE w[m + 1]
      BY <3>7, <3>8, <3>9, <3>10
    <3>12. FencesAt(w, l, r) /\ l \in 1 .. Len(w) + 1 /\ r \in 1 .. Len(w) + 1
      BY <3>6, <3>9
    <3> HIDE DEF t, r
    <3> QED BY <3>11, <3>12 DEF t
  <2> QED BY <2>5, <2>6
<1> QED BY <1>2, <1>3

(* What stands in one piece in the parsed text is said in w. *)
LEMMA VerdictIsSaid ==
  ASSUME NEW w \in Seq(Tokens), NEW x \in Seq(Tokens), IsVerdict(x), NEW a \in Nat, a # 0,
         a + Len(x) - 1 <= Len(WithoutFences(w)),
         \A k \in 1 .. Len(x) : x[k] = WithoutFences(w)[a + k - 1]
  PROVE  LET b == Keep(w, NoFence(w))
         IN \E i, j \in 1 .. Len(b) : IsVerdict(SubSeq(b, i, j)) /\ b[i + 1] = x[2]
<1> DEFINE t == WithoutFences(w)
           n == Len(x)
<1>1. n \in Nat /\ Len(w) \in Nat
  OBVIOUS
<1>2. PICK l \in 1 .. Len(w) + 1 :
        /\ l <= Len(w) => w[l] = "fence"
        /\ Len(t) \in Nat
        /\ Len(t) = Len(w) \/ Len(t) <= Len(w) - 1
        /\ Len(t) = Len(w) => l = Len(w) + 1
        /\ \A m \in 1 .. Len(t) : t[m] = IF m < l THEN w[m] ELSE w[m + 1]
  <2> HIDE DEF t
  <2>1. CASE (\A k \in 1 .. Len(w) : w[k] # "fence") /\ t = w
    <3>1. Len(w) + 1 \in 1 .. Len(w) + 1
      BY <1>1
    <3> QED BY <1>1, <2>1, <3>1
  <2>2. CASE \E l, r \in 1 .. Len(w) + 1 :
               /\ FencesAt(w, l, r)
               /\ t \in Seq(Tokens) /\ Len(t) = r - 2
               /\ \A m \in 1 .. r - 2 : t[m] = IF m < l THEN w[m] ELSE w[m + 1]
    <3>1. PICK l \in 1 .. Len(w) + 1, r \in 1 .. Len(w) + 1 :
               /\ FencesAt(w, l, r)
               /\ t \in Seq(Tokens) /\ Len(t) = r - 2
               /\ \A m \in 1 .. r - 2 : t[m] = IF m < l THEN w[m] ELSE w[m + 1]
      BY <2>2
    <3>2. w[l] = "fence" /\ r - 2 <= Len(w) - 1
      BY <1>1, <3>1 DEF FencesAt
    <3> QED BY <1>1, <3>1, <3>2
  <2> QED BY <2>1, <2>2, FencesTaken DEF t
<1> HIDE DEF t
<1> DEFINE g == [k \in 1 .. n |-> IF a + k - 1 < l THEN a + k - 1 ELSE a + k]
<1>3. ASSUME NEW k \in 1 .. n PROVE a + k - 1 \in 1 .. Len(t) /\ g[k] \in 1 .. Len(w) /\ x[k] = w[g[k]]
  <2>1. a + k - 1 \in 1 .. Len(t)
    BY <1>1, <1>2 DEF t
  <2>2. x[k] = t[a + k - 1]
    BY DEF t
  <2>3. t[a + k - 1] = IF a + k - 1 < l THEN w[a + k - 1] ELSE w[(a + k - 1) + 1]
    BY <1>2, <2>1
  <2>4. (a + k - 1) + 1 = a + k
    OBVIOUS
  <2>5. g[k] = IF a + k - 1 < l THEN a + k - 1 ELSE a + k
    OBVIOUS
  <2>6. g[k] \in 1 .. Len(w)
    <3> HIDE DEF g
    <3> QED BY <1>1, <1>2, <2>1, <2>5
  <2> QED BY <2>1, <2>2, <2>3, <2>4, <2>5, <2>6
<1>4. g \in [1 .. n -> 1 .. Len(w)]
  BY <1>3
<1>5. \A k, m \in 1 .. n : k < m => g[k] < g[m]
  BY <1>1, <1>2
<1>6. ASSUME NEW k \in 1 .. n - 1, NEW i \in g[k] + 1 .. g[k + 1] - 1 PROVE w[i] = "fence"
  <2>1. k \in 1 .. n /\ k + 1 \in 1 .. n
    BY <1>1
  <2>2. i = l
    <3>1. g[k] = IF a + k - 1 < l THEN a + k - 1 ELSE a + k
      BY <2>1
    <3>2. g[k + 1] = IF a + (k + 1) - 1 < l THEN a + (k + 1) - 1 ELSE a + (k + 1)
      BY <2>1
    <3> HIDE DEF g
    <3> QED BY <1>1, <1>2, <2>1, <3>1, <3>2
  <2> HIDE DEF g
  <2>3. g[k + 1] - 1 <= Len(w)
    <3>1. g[k + 1] \in 1 .. Len(w)
      BY <1>3, <2>1
    <3> QED BY <1>1, <3>1
  <2>4. g[k] \in Int /\ g[k + 1] \in Int
    <3>1. g[k] \in 1 .. Len(w) /\ g[k + 1] \in 1 .. Len(w)
      BY <1>3, <2>1
    <3> QED BY <1>1, <3>1
  <2>5. l <= Len(w)
    BY <1>1, <1>2, <2>2, <2>3, <2>4
  <2> QED BY <1>2, <2>2, <2>5
<1>7. \A k \in 1 .. n : x[k] = w[g[k]]
  BY <1>3
<1>8. \A k \in 1 .. n - 1 : \A i \in g[k] + 1 .. g[k + 1] - 1 : w[i] = "fence"
  BY <1>6
<1> HIDE DEF g
<1> QED BY <1>4, <1>5, <1>7, <1>8, FencesDoNotMatter

LEMMA FirstBalancedOf ==
  ASSUME NEW s \in Seq(Tokens), FirstBalanced(s) # <<>>
  PROVE  \E a, e \in 1 .. Len(s) : /\ a <= e /\ FirstBalanced(s) = SubSeq(s, a, e)
                                  /\ s[a] = "open" /\ a = Least(Positions(s, "open"))
<1> DEFINE a == Least(Positions(s, "open"))
           e == Ends(s)[<<"object", a + 1>>]
<1>1. Positions(s, "open") # {} /\ e # 0 /\ FirstBalanced(s) = SubSeq(s, a, e - 1)
  BY DEF FirstBalanced
<1>2. a \in 1 .. Len(s) /\ s[a] = "open"
  <2>1. a \in Positions(s, "open")
    BY <1>1, PositionsOf, LeastIn
  <2> QED BY <2>1 DEF Positions
<1> HIDE DEF a
<1>3. Len(s) \in Nat
  OBVIOUS
<1>4. a + 1 \in 1 .. Len(s) + 2 /\ "object" \in Kinds
  BY <1>2, <1>3 DEF Kinds
<1>5. e \in a + 2 .. Len(s) + 1
  <2>1. Ahead(s, Ends(s), a + 1)
    BY <1>4, EndsOf
  <2>2. e \in (a + 1) + 1 .. Len(s) + 1
    BY <1>1, <1>4, <2>1 DEF Ahead
  <2> QED BY <1>2, <1>3, <2>2
<1> HIDE DEF e
<1>6. e - 1 \in 1 .. Len(s) /\ a <= e - 1
  BY <1>2, <1>3, <1>5
<1> QED BY <1>1, <1>2, <1>6 DEF a

(* A pass is never made up, in an answer of any length: what the parser    *)
(* believes is a verdict outside the closed think blocks, and every result *)
(* keeps the whole answer.                                                 *)
THEOREM PassIsNeverMadeUp == Spec => []PassIsSaid
<1>1. IInv => PassIsSaid
  <2> SUFFICES ASSUME IInv PROVE PassIsSaid
    OBVIOUS
  <2>1. content \in Seq(Tokens) /\ text \in Seq(Tokens)
    BY DEF IInv, TypeOK
  <2>2. pc = "answered" => result.raw = content
    BY DEF IInv, ResultInv, Judgement, Believed, Malformed
  <2>3. ASSUME result.passed
        PROVE  LET bare == Bare(content)
               IN \E i, j \in 1 .. Len(bare) :
                    IsVerdict(SubSeq(bare, i, j)) /\ bare[i + 1] = "pass"
    <3> DEFINE w == WithoutThinking(content)
    <3>1. pc = "answered"
      BY <2>3 DEF IInv, ResultInv, NoResult
    <3>2. result = Judgement /\ text = WithoutFences(w)
      BY <3>1 DEF IInv, ResultInv, ReadInv, Stripped
    <3>3. w \in Seq(Tokens)
      BY <2>1, StrippedType
    <3>4. Bare(content) = Keep(w, NoFence(w))
      BY DEF Bare, NoFence
    <3> HIDE DEF w
    <3>5. \E x \in Seq(Tokens), a \in Nat :
            /\ IsVerdict(x) /\ x[2] = "pass" /\ a # 0 /\ a + Len(x) - 1 <= Len(text)
            /\ \A k \in 1 .. Len(x) : x[k] = text[a + k - 1]
      <4>1. CASE IsVerdict(text)
        <5>1. text[2] = "pass"
          BY <2>3, <3>2, <4>1 DEF Judgement, Believed
        <5>2. 1 \in Nat /\ 1 # 0 /\ 1 + Len(text) - 1 <= Len(text)
              /\ \A k \in 1 .. Len(text) : text[k] = text[1 + k - 1]
          BY <2>1
        <5> QED BY <2>1, <4>1, <5>1, <5>2
      <4>2. CASE ~IsVerdict(text)
        <5> DEFINE x == FirstBalanced(text)
        <5>1. IsVerdict(x) /\ x[2] = "pass"
          BY <2>3, <3>2, <4>2 DEF Judgement, Believed, Malformed
        <5>2. x # <<>>
          BY <5>1 DEF IsVerdict
        <5>3. PICK a \in 1 .. Len(text), e \in 1 .. Len(text) : a <= e /\ x = SubSeq(text, a, e)
          BY <2>1, <5>2, FirstBalancedOf
        <5> HIDE DEF x
        <5>4. /\ x \in Seq(Tokens) /\ Len(x) = e - a + 1
              /\ \A i \in 1 .. e - a + 1 : x[i] = text[a + i - 1]
          <6>1. a \in Nat /\ a # 0 /\ e \in Nat /\ e <= Len(text) /\ a <= e + 1
            BY <2>1, <5>3
          <6> QED BY <2>1, <5>3, <6>1, SubSeqOf
        <5>5. a \in Nat /\ a # 0 /\ a + Len(x) - 1 <= Len(text)
          BY <2>1, <5>3, <5>4
        <5> QED BY <5>1, <5>4, <5>5
      <4> QED BY <4>1, <4>2
    <3>6. PICK x \in Seq(Tokens), a \in Nat :
            /\ IsVerdict(x) /\ x[2] = "pass" /\ a # 0 /\ a + Len(x) - 1 <= Len(text)
            /\ \A k \in 1 .. Len(x) : x[k] = text[a + k - 1]
      BY <3>5
    <3>7. LET b == Keep(w, NoFence(w))
          IN \E i, j \in 1 .. Len(b) : IsVerdict(SubSeq(b, i, j)) /\ b[i + 1] = x[2]
      BY <3>2, <3>3, <3>6, VerdictIsSaid
    <3> QED BY <3>4, <3>6, <3>7
  <2> QED BY <2>2, <2>3 DEF PassIsSaid
<1> QED BY <1>1, Invariance, PTL

-----------------------------------------------------------------------------
(* A verdict in its wrapping.                                              *)

(* Behind position i no think block begins or ends: what stands there      *)
(* stays, and what stands before it becomes what it were alone.            *)
LEMMA ThinkTail ==
  ASSUME NEW s \in Seq(Tokens), NEW i \in 1 .. Len(s),
         \A k \in i .. Len(s) : s[k] \notin {"think", "unthink"}
  PROVE  LET before == WithoutThinking(SubSeq(s, 1, i - 1))
             said == WithoutThinking(s)
             q == Len(before)
         IN /\ q \in Nat /\ Len(said) = q + Len(s) - i + 1
            /\ \A n \in 1 .. q : said[n] = before[n]
            /\ \A m \in 1 .. Len(s) - i + 1 : said[q + m] = s[i + m - 1]
<1> DEFINE p == SubSeq(s, 1, i - 1)
           K == {k \in 1 .. Len(s) : ~InBlock(s, k)}
           K0 == {k \in 1 .. Len(p) : ~InBlock(p, k)}
           q == Cardinality(K0)
<1>1. Len(s) \in Nat /\ i \in Nat /\ i - 1 \in Nat
  OBVIOUS
<1>2. p \in Seq(Tokens) /\ Len(p) = i - 1 /\ \A k \in 1 .. i - 1 : p[k] = s[k]
  <2>1. /\ p \in Seq(Tokens) /\ Len(p) = (i - 1) - 1 + 1
        /\ \A k \in 1 .. (i - 1) - 1 + 1 : p[k] = s[1 + k - 1]
    BY <1>1, SubSeqOf
  <2> QED BY <1>1, <2>1
<1> HIDE DEF p
<1>3. \A token \in {"think", "unthink"} : Positions(s, token) = Positions(p, token)
  <2> SUFFICES ASSUME NEW token \in {"think", "unthink"}
               PROVE  Positions(s, token) = Positions(p, token)
    OBVIOUS
  <2>1. ASSUME NEW k \in Positions(s, token) PROVE k \in Positions(p, token)
    <3>1. k \in 1 .. Len(s) /\ s[k] = token
      BY <2>1 DEF Positions
    <3>2. k \notin i .. Len(s)
      BY <3>1
    <3> QED BY <1>1, <1>2, <3>1, <3>2 DEF Positions
  <2>2. ASSUME NEW k \in Positions(p, token) PROVE k \in Positions(s, token)
    BY <1>1, <1>2, <2>2 DEF Positions
  <2> QED BY <2>1, <2>2
<1>4. \A k : InBlock(s, k) <=> InBlock(p, k)
  BY <1>3 DEF InBlock
<1>5. \A k \in i .. Len(s) : ~InBlock(s, k)
  <2> SUFFICES ASSUME NEW k \in i .. Len(s), NEW j \in Positions(p, "unthink"), k <= j PROVE FALSE
    BY <1>3 DEF InBlock
  <2>1. j \in 1 .. i - 1
    BY <1>2 DEF Positions
  <2> QED BY <1>1, <2>1
<1>6. ASSUME NEW k \in 1 .. Len(s) PROVE k \in K <=> k \in K0 \/ k >= i
  BY <1>1, <1>2, <1>4, <1>5
<1>7. K \in SUBSET (1 .. Len(s)) /\ K0 \in SUBSET (1 .. i - 1)
  BY <1>2
<1> HIDE DEF K, K0
<1>8. q \in Nat /\ UpTo(K0, i - 1) = q
  BY <1>1, <1>7, UpToOf
<1> HIDE DEF q
<1>9. ASSUME NEW k \in 0 .. i - 1 PROVE UpTo(K, k) = UpTo(K0, k)
  <2>1. ASSUME NEW m \in 1 .. Len(s) PROVE m \in K /\ m <= k <=> m \in K0 /\ m <= k
    BY <1>1, <1>6
  <2>2. {m \in K : m <= k} = {m \in K0 : m <= k}
    <3>1. K \subseteq 1 .. Len(s) /\ K0 \subseteq 1 .. Len(s)
      BY <1>1, <1>7
    <3> QED BY <2>1, <3>1, Zenon
  <2> QED BY <2>2 DEF UpTo
<1>10. ASSUME NEW m \in 0 .. Len(s) - i + 1 PROVE UpTo(K, i - 1 + m) = q + m
  <2> DEFINE T == {k \in Nat : UpTo(K, i - 1 + k) = q + k}
  <2>1. 0 \in T
    <3>1. i - 1 \in 0 .. i - 1 /\ i - 1 + 0 = i - 1 /\ q + 0 = q
      BY <1>1, <1>8
    <3>2. UpTo(K, i - 1) = q
      BY <1>8, <1>9, <3>1
    <3> QED BY <3>1, <3>2
  <2>2. ASSUME NEW k \in 0 .. m - 1, k \in T PROVE k + 1 \in T
    <3> DEFINE at1 == i - 1 + (k + 1)
    <3>1. at1 \in Nat /\ at1 # 0 /\ at1 - 1 = i - 1 + k /\ at1 \in 1 .. Len(s) /\ at1 >= i
          /\ k + 1 \in Nat
      BY <1>1
    <3>2. at1 \in K
      BY <1>6, <3>1
    <3> HIDE DEF at1
    <3>3. UpTo(K, at1) = UpTo(K, at1 - 1) + 1
      BY <1>1, <1>7, <3>1, <3>2, UpToStep
    <3>4. UpTo(K, at1 - 1) = q + k
      BY <2>2, <3>1
    <3>5. UpTo(K, at1) = q + (k + 1)
      BY <1>8, <3>3, <3>4
    <3> QED BY <3>1, <3>5 DEF at1
  <2> HIDE DEF T
  <2>3. m \in T
    BY <2>1, <2>2, Climb
  <2> QED BY <2>3 DEF T
<1> DEFINE before == WithoutThinking(p)
           said == WithoutThinking(s)
<1>11. before = Keep(p, K0) /\ said = Keep(s, K)
  BY DEF WithoutThinking, K, K0
<1> HIDE DEF before, said
<1>12. Len(before) = q
  BY <1>2, <1>7, <1>11, KeepOf DEF q
<1>13. Len(said) = q + Len(s) - i + 1
  <2>1. Len(s) - i + 1 \in 0 .. Len(s) - i + 1 /\ i - 1 + (Len(s) - i + 1) = Len(s)
    BY <1>1
  <2>2. UpTo(K, Len(s)) = q + (Len(s) - i + 1)
    BY <1>10, <2>1
  <2>3. Cardinality(K) = UpTo(K, Len(s))
    BY <1>1, <1>7, UpToOf
  <2>4. Len(said) = Cardinality(K)
    BY <1>7, <1>11, KeepOf
  <2> QED BY <1>1, <1>8, <2>2, <2>3, <2>4
<1>14. ASSUME NEW n \in 1 .. q PROVE said[n] = before[n]
  <2>1. K0 \in SUBSET (1 .. Len(p)) /\ n \in 1 .. Cardinality(K0)
    BY <1>2, <1>7 DEF q
  <2>2. PICK k \in K0 : UpTo(K0, k) = n
    BY <1>2, <2>1, KeepOf
  <2>3. before[n] = p[k]
    BY <1>2, <1>11, <2>1, <2>2, KeepOf
  <2>4. k \in 0 .. i - 1 /\ k \in 1 .. i - 1 /\ k \in K
    BY <1>1, <1>6, <1>7
  <2>5. UpTo(K, k) = n
    BY <1>9, <2>2, <2>4
  <2>6. said[n] = s[k]
    BY <1>7, <1>11, <2>4, <2>5, KeepOf
  <2> QED BY <1>2, <2>3, <2>4, <2>6
<1>15. ASSUME NEW m \in 1 .. Len(s) - i + 1 PROVE said[q + m] = s[i + m - 1]
  <2>1. m \in 0 .. Len(s) - i + 1 /\ i - 1 + m = i + m - 1 /\ i + m - 1 \in 1 .. Len(s)
        /\ i + m - 1 >= i
    BY <1>1
  <2>2. i + m - 1 \in K /\ UpTo(K, i + m - 1) = q + m
    BY <1>6, <1>10, <2>1
  <2> QED BY <1>7, <1>11, <2>2, KeepOf
<1> QED BY <1>8, <1>12, <1>13, <1>14, <1>15 DEF before, said, p

(* v stands in t behind a characters none of which opens an object. *)
StandsAt(v, t, a) ==
  /\ a \in Nat /\ a + Len(v) <= Len(t)
  /\ \A m \in 1 .. a : t[m] # "open"
  /\ \A m \in 1 .. Len(v) : t[a + m] = v[m]

LEMMA StandsWithoutFences ==
  ASSUME NEW v \in Seq(Tokens), NEW w \in Seq(Tokens), NEW q, StandsAt(v, w, q), Len(v) # 0,
         \A m \in 1 .. Len(v) : v[m] # "fence",
         \A k, l \in 1 .. q : w[k] = "fence" /\ w[l] = "fence" => k = l
  PROVE  \E a : StandsAt(v, WithoutFences(w), a)
<1> DEFINE t == WithoutFences(w)
           n == Len(v)
<1>1. n \in Nat /\ n # 0 /\ Len(w) \in Nat /\ q \in Nat /\ q + n <= Len(w)
  BY DEF StandsAt
<1>2. (\A m \in 1 .. q : w[m] # "open") /\ \A m \in 1 .. n : w[q + m] = v[m]
  BY DEF StandsAt
<1>3. CASE (\A k \in 1 .. Len(w) : w[k] # "fence") /\ t = w
  BY <1>3
<1>4. CASE \E l, r \in 1 .. Len(w) + 1 :
             /\ FencesAt(w, l, r)
             /\ t \in Seq(Tokens) /\ Len(t) = r - 2
             /\ \A m \in 1 .. r - 2 : t[m] = IF m < l THEN w[m] ELSE w[m + 1]
  <2>1. PICK l \in 1 .. Len(w) + 1, r \in 1 .. Len(w) + 1 :
             /\ FencesAt(w, l, r)
             /\ t \in Seq(Tokens) /\ Len(t) = r - 2
             /\ \A m \in 1 .. r - 2 : t[m] = IF m < l THEN w[m] ELSE w[m + 1]
    BY <1>4
  <2> HIDE DEF t
  <2>2. /\ l \in 1 .. Len(w) /\ w[l] = "fence" /\ r \in l + 1 .. Len(w) + 1
        /\ r # Len(w) + 1 => w[r] = "fence"
    BY <2>1 DEF FencesAt
  <2>3. \A k \in q + 1 .. q + n : w[k] # "fence"
    <3> SUFFICES ASSUME NEW k \in q + 1 .. q + n PROVE w[k] # "fence"
      OBVIOUS
    <3>1. k - q \in 1 .. n /\ q + (k - q) = k
      BY <1>1
    <3> QED BY <1>2, <3>1
  <2>4. CASE l <= q
    <3>1. r > q + n
      <4>1. r \notin 1 .. q
        BY <1>1, <2>2, <2>4
      <4>2. r \notin q + 1 .. q + n
        BY <1>1, <2>2, <2>3
      <4> QED BY <1>1, <2>2, <4>1, <4>2
    <3> DEFINE a == q - 1
    <3>2. a \in Nat /\ a + n <= Len(t)
      BY <1>1, <2>1, <2>2, <2>4, <3>1
    <3>3. ASSUME NEW m \in 1 .. a PROVE t[m] # "open"
      <4>1. m \in 1 .. r - 2 /\ m \in 1 .. q /\ m + 1 \in 1 .. q
        BY <1>1, <3>1
      <4> QED BY <1>2, <2>1, <4>1
    <3>4. ASSUME NEW m \in 1 .. n PROVE t[a + m] = v[m]
      <4>1. a + m \in 1 .. r - 2 /\ ~(a + m < l) /\ (a + m) + 1 = q + m
        BY <1>1, <2>2, <2>4, <3>1
      <4>2. t[a + m] = w[(a + m) + 1]
        BY <2>1, <4>1
      <4> QED BY <1>2, <4>1, <4>2
    <3>5. StandsAt(v, t, a)
      BY <3>2, <3>3, <3>4 DEF StandsAt
    <3> QED BY <3>5 DEF t
  <2>5. CASE ~(l <= q)
    <3>1. l > q + n
      BY <1>1, <2>2, <2>3, <2>5
    <3>2. q + n <= Len(t)
      BY <1>1, <2>1, <2>2, <3>1
    <3>3. ASSUME NEW m \in 1 .. q + n PROVE t[m] = w[m]
      <4>1. m \in 1 .. r - 2 /\ m < l
        BY <1>1, <2>2, <3>1
      <4> QED BY <2>1, <4>1
    <3>4. ASSUME NEW m \in 1 .. q PROVE t[m] # "open"
      <4>1. m \in 1 .. q + n
        BY <1>1
      <4> QED BY <1>2, <3>3, <4>1
    <3>5. ASSUME NEW m \in 1 .. n PROVE t[q + m] = v[m]
      <4>1. q + m \in 1 .. q + n
        BY <1>1
      <4> QED BY <1>2, <3>3, <4>1
    <3>6. StandsAt(v, t, q)
      BY <1>1, <3>2, <3>4, <3>5 DEF StandsAt
    <3> QED BY <3>6 DEF t
  <2> QED BY <2>4, <2>5
<1> QED BY <1>3, <1>4, FencesTaken

(* A string of v ends in t where it ends in v. *)
LEMMA StringsStand ==
  ASSUME NEW v \in Seq(Tokens), NEW t \in Seq(Tokens), NEW a, StandsAt(v, t, a),
         NEW k \in 1 .. Len(v) + 1, StringEnds(v)[k] # 0
  PROVE  Ends(t)[<<"string", a + k>>] = a + StringEnds(v)[k] + 1
<1> DEFINE E == StringEnds(v)
           S(i) == Ends(t)[<<"string", i>>]
           n == Len(v)
           Holds(i) == E[i] # 0 => S(a + i) = a + E[i] + 1
           Bad == {i \in 1 .. n + 1 : ~Holds(i)}
<1>1. n \in Nat /\ Len(t) \in Nat /\ a \in Nat /\ a + n <= Len(t)
  BY DEF StandsAt
<1>2. Bad = {}
  <2> SUFFICES ASSUME Bad # {} PROVE FALSE
    OBVIOUS
  <2>1. Bad \in SUBSET (0 .. n + 1) /\ n + 1 \in Nat
    BY <1>1
  <2>2. PICK i \in Bad : \A m \in Bad : m <= i
    <3> HIDE DEF Bad
    <3> QED BY <2>1, GreatestOf
  <2>3. i \in 1 .. n + 1 /\ E[i] # 0 /\ S(a + i) # a + E[i] + 1
    BY <2>2
  <2>4. \A m \in 1 .. n + 1 : m > i => Holds(m)
    BY <1>1, <2>2
  <2>5. E[i] = StringBody(v, E, i)
    BY <2>3, StringEndsOf
  <2> HIDE DEF Bad, E
  <2>6. i <= n
    BY <2>3, <2>5 DEF StringBody
  <2>7. t[a + i] = v[i] /\ a + i \in 1 .. Len(t) + 1 /\ a + i <= Len(t)
    BY <1>1, <2>3, <2>6 DEF StandsAt
  <2>8. S(a + i) = IF t[a + i] = "quote" THEN (a + i) + 1
                   ELSE IF t[a + i] = "backslash" THEN S((a + i) + 2)
                   ELSE S((a + i) + 1)
    BY <2>7, PastAt
  <2>9. (a + i) + 2 = a + (i + 2) /\ (a + i) + 1 = a + (i + 1)
    BY <1>1, <2>3
  <2>10. i + 1 \in 1 .. n + 1 /\ i + 1 > i
    BY <1>1, <2>3, <2>6
  <2> HIDE DEF S
  <2>11. CASE v[i] = "quote"
    <3>1. E[i] = i
      BY <1>1, <2>3, <2>5, <2>6, <2>11 DEF StringBody
    <3> QED BY <1>1, <2>3, <2>7, <2>8, <2>11, <3>1
  <2>12. CASE v[i] # "quote" /\ v[i] # "backslash"
    <3>1. E[i] = E[i + 1]
      BY <1>1, <2>3, <2>5, <2>6, <2>12 DEF StringBody
    <3>2. S(a + (i + 1)) = a + E[i + 1] + 1
      BY <2>3, <2>4, <2>10, <3>1
    <3> QED BY <2>3, <2>7, <2>8, <2>9, <2>12, <3>1, <3>2
  <2>13. CASE v[i] = "backslash"
    <3>1. E[i] = E[i + 2] /\ i < n
      BY <2>3, <2>5, <2>6, <2>13 DEF StringBody
    <3>2. i + 2 \in 1 .. n + 1 /\ i + 2 > i
      BY <1>1, <2>3, <3>1
    <3>3. S(a + (i + 2)) = a + E[i + 2] + 1
      BY <2>3, <2>4, <3>1, <3>2
    <3> QED BY <2>3, <2>7, <2>8, <2>9, <2>13, <3>1, <3>3
  <2> QED BY <2>11, <2>12, <2>13
<1> QED BY <1>2

(* Behind what opens no object a verdict is the first balanced object. *)
LEMMA VerdictIsFirst ==
  ASSUME NEW v \in Seq(Tokens), NEW t \in Seq(Tokens), NEW a, StandsAt(v, t, a), IsVerdict(v)
  PROVE  /\ IsVerdict(t) => t[2] = v[2]
         /\ FirstBalanced(t) = v
<1> DEFINE n == Len(v)
           F(i) == Past(Ends(t), i)
           S(i) == Ends(t)[<<"string", i>>]
<1>1. n \in Nat /\ n >= 5 /\ Len(t) \in Nat /\ a \in Nat /\ a + n <= Len(t)
  BY DEF StandsAt, IsVerdict
<1>2. /\ v[1] = "open" /\ v[2] \in {"pass", "fail"} /\ v[3] = "quote" /\ v[n] = "close"
      /\ StringEnds(v)[4] = n - 1
  BY DEF IsVerdict
<1>3. /\ t[a + 1] = "open" /\ t[a + 2] = v[2] /\ t[a + 3] = "quote" /\ t[a + n] = "close"
  <2>1. 1 \in 1 .. n /\ 2 \in 1 .. n /\ 3 \in 1 .. n /\ n \in 1 .. n
    BY <1>1
  <2> QED BY <1>2, <2>1 DEF StandsAt
<1>4. IsVerdict(t) => t[2] = v[2]
  <2> SUFFICES ASSUME IsVerdict(t) PROVE t[2] = v[2]
    OBVIOUS
  <2>1. t[1] = "open"
    BY DEF IsVerdict
  <2>2. a = 0
    <3> SUFFICES ASSUME a # 0 PROVE FALSE
      OBVIOUS
    <3>1. 1 \in 1 .. a
      BY <1>1
    <3> QED BY <2>1, <3>1 DEF StandsAt
  <2>3. a + 2 = 2
    BY <2>2
  <2> QED BY <1>3, <2>3
<1>5. Least(Positions(t, "open")) = a + 1 /\ Positions(t, "open") # {}
  <2> DEFINE O == Positions(t, "open")
  <2>1. a + 1 \in O
    BY <1>1, <1>3 DEF Positions
  <2>2. Least(O) \in O /\ Least(O) <= a + 1
    <3>1. O \in SUBSET Nat /\ O # {}
      BY <2>1, PositionsOf
    <3> HIDE DEF O
    <3> QED BY <2>1, <3>1, LeastIn
  <2>3. Least(O) \in 1 .. Len(t) /\ t[Least(O)] = "open"
    BY <2>2 DEF Positions
  <2> HIDE DEF O
  <2>4. Least(O) \notin 1 .. a
    BY <2>3 DEF StandsAt
  <2> QED BY <1>1, <2>1, <2>2, <2>3, <2>4 DEF O
<1>6. F(a + 2) = a + n + 1
  <2>1. a + 2 \in 1 .. Len(t) /\ a + 3 \in 1 .. Len(t) /\ a + n \in 1 .. Len(t)
        /\ (a + 2) + 1 = a + 3 /\ (a + 3) + 1 = a + 4
    BY <1>1
  <2>2. F(a + 2) = F(a + 3)
    <3>1. a + 2 \in 1 .. Len(t) + 1 /\ a + 2 <= Len(t)
      BY <2>1
    <3>2. F(a + 2) = F((a + 2) + 1)
      BY <1>2, <1>3, <3>1, PastAt
    <3> QED BY <2>1, <3>2
  <2>3. F(a + 3) = F(S(a + 4))
    <3>1. a + 3 \in 1 .. Len(t) + 1 /\ a + 3 <= Len(t)
      BY <2>1
    <3>2. F(a + 3) = F(S((a + 3) + 1))
      BY <1>3, <3>1, PastAt
    <3> QED BY <2>1, <3>2
  <2>4. S(a + 4) = a + n
    <3>1. 4 \in 1 .. Len(v) + 1 /\ StringEnds(v)[4] # 0 /\ a + (n - 1) + 1 = a + n
      BY <1>1, <1>2
    <3> QED BY <1>2, <3>1, StringsStand
  <2>5. F(a + n) = a + n + 1
    <3>1. a + n \in 1 .. Len(t) + 1 /\ a + n <= Len(t)
      BY <2>1
    <3> QED BY <1>3, <3>1, PastAt
  <2> QED BY <2>2, <2>3, <2>4, <2>5
<1>7. Ends(t)[<<"object", (a + 1) + 1>>] = a + n + 1
  BY <1>1, <1>6, (a + 1) + 1 = a + 2, a + 2 # 0 DEF Past
<1>8. FirstBalanced(t) = SubSeq(t, a + 1, a + n)
  <2>1. a + n + 1 # 0 /\ (a + n + 1) - 1 = a + n
    BY <1>1
  <2> QED BY <1>5, <1>7, <2>1 DEF FirstBalanced
<1>9. SubSeq(t, a + 1, a + n) = v
  <2> DEFINE x == SubSeq(t, a + 1, a + n)
  <2>1. /\ x \in Seq(Tokens) /\ Len(x) = (a + n) - (a + 1) + 1
        /\ \A m \in 1 .. (a + n) - (a + 1) + 1 : x[m] = t[(a + 1) + m - 1]
    <3>1. a + 1 \in Nat /\ a + 1 # 0 /\ a + n \in Nat /\ a + n <= Len(t) /\ a + 1 <= (a + n) + 1
      BY <1>1
    <3> QED BY <3>1, SubSeqOf
  <2> HIDE DEF x
  <2>2. Len(x) = Len(v)
    BY <1>1, <2>1
  <2>3. ASSUME NEW m \in 1 .. Len(v) PROVE x[m] = v[m]
    <3>1. x[m] = t[(a + 1) + m - 1] /\ (a + 1) + m - 1 = a + m
      BY <1>1, <2>1
    <3> QED BY <3>1 DEF StandsAt
  <2>4. x = v
    BY <2>1, <2>2, <2>3, SeqEqual
  <2> QED BY <2>4 DEF x
<1> QED BY <1>4, <1>8, <1>9

(* What the wrapping of a verdict is, with its parts spelled out. *)
LEMMA WrappedStands ==
  ASSUME NEW s \in Seq(Tokens), NEW i \in 1 .. Len(s), NEW j \in 1 .. Len(s),
         WrappedVerdict(s, i, j)
  PROVE  \E v \in Seq(Tokens) : \E a :
           IsVerdict(v) /\ v[2] = s[i + 1] /\ StandsAt(v, Stripped(s), a)
<1> DEFINE v == SubSeq(s, i, j)
           before == WithoutThinking(SubSeq(s, 1, i - 1))
           after == SubSeq(s, j + 1, Len(s))
           w == WithoutThinking(s)
           q == Len(before)
<1>1. Len(s) \in Nat /\ i \in Nat /\ j \in Nat
  OBVIOUS
<1>2. /\ IsVerdict(v) /\ \A k \in 1 .. Len(v) : v[k] \notin {"fence", "think", "unthink"}
      /\ \A k \in 1 .. q : before[k] # "open"
      /\ \A k, l \in Positions(before, "fence") : k = l
      /\ \A k \in 1 .. Len(after) : after[k] \notin {"think", "unthink"}
  BY DEF WrappedVerdict
<1>3. v \in Seq(Tokens) /\ Len(v) = j - i + 1 /\ i <= j
      /\ \A m \in 1 .. j - i + 1 : v[m] = s[i + m - 1]
  <2>1. \A k \in i .. j : s[k] \in Tokens
    BY <1>1, ElementOfSeq
  <2>2. /\ v \in Seq(Tokens) /\ Len(v) = IF i <= j THEN j - i + 1 ELSE 0
        /\ \A m \in 1 .. j - i + 1 : v[m] = s[i + m - 1]
    BY <1>1, <2>1, SubSeqProperties
  <2>3. Len(v) >= 5
    BY <1>2 DEF IsVerdict
  <2> QED BY <2>2, <2>3
<1>4. after \in Seq(Tokens) /\ Len(after) = Len(s) - j
      /\ \A m \in 1 .. Len(s) - j : after[m] = s[j + m]
  <2>1. j + 1 \in Nat /\ j + 1 # 0 /\ j + 1 <= Len(s) + 1
    BY <1>1
  <2>2. /\ after \in Seq(Tokens) /\ Len(after) = Len(s) - (j + 1) + 1
        /\ \A m \in 1 .. Len(s) - (j + 1) + 1 : after[m] = s[(j + 1) + m - 1]
    BY <2>1, SubSeqOf
  <2> QED BY <1>1, <2>2
<1> HIDE DEF v, after
<1>5. \A k \in i .. Len(s) : s[k] \notin {"think", "unthink"}
  <2> SUFFICES ASSUME NEW k \in i .. Len(s) PROVE s[k] \notin {"think", "unthink"}
    OBVIOUS
  <2>1. CASE k <= j
    <3>1. k - i + 1 \in 1 .. j - i + 1 /\ i + (k - i + 1) - 1 = k
      BY <1>1, <2>1
    <3> QED BY <1>2, <1>3, <3>1
  <2>2. CASE ~(k <= j)
    <3>1. k - j \in 1 .. Len(s) - j /\ j + (k - j) = k
      BY <1>1, <2>2
    <3> QED BY <1>2, <1>4, <3>1
  <2> QED BY <2>1, <2>2
<1>6. /\ q \in Nat /\ Len(w) = q + Len(s) - i + 1
      /\ \A n \in 1 .. q : w[n] = before[n]
      /\ \A m \in 1 .. Len(s) - i + 1 : w[q + m] = s[i + m - 1]
  BY <1>5, ThinkTail
<1>7. w \in Seq(Tokens)
  BY StrippedType
<1> HIDE DEF before, w
<1>8. StandsAt(v, w, q)
  <2>1. q + Len(v) <= Len(w)
    BY <1>1, <1>3, <1>6
  <2>2. ASSUME NEW m \in 1 .. Len(v) PROVE w[q + m] = v[m]
    <3>1. m \in 1 .. Len(s) - i + 1 /\ m \in 1 .. j - i + 1
      BY <1>1, <1>3
    <3> QED BY <1>3, <1>6, <3>1
  <2>3. \A m \in 1 .. q : w[m] # "open"
    BY <1>2, <1>6
  <2> QED BY <1>6, <2>1, <2>2, <2>3 DEF StandsAt
<1>9. ASSUME NEW k \in 1 .. q, NEW l \in 1 .. q, w[k] = "fence", w[l] = "fence" PROVE k = l
  BY <1>2, <1>6, <1>9 DEF Positions
<1>10. Len(v) # 0 /\ \A m \in 1 .. Len(v) : v[m] # "fence"
  BY <1>2 DEF IsVerdict
<1> HIDE DEF q
<1>11. \E a : StandsAt(v, WithoutFences(w), a)
  BY <1>3, <1>7, <1>8, <1>9, <1>10, StandsWithoutFences
<1>12. v[2] = s[i + 1]
  <2>1. 2 \in 1 .. j - i + 1 /\ i + 2 - 1 = i + 1
    BY <1>1, <1>2, <1>3 DEF IsVerdict
  <2> QED BY <1>3, <2>1
<1> QED BY <1>2, <1>3, <1>11, <1>12 DEF Stripped, w

(* Whatever prose, fences and think blocks a model wraps around a verdict  *)
(* as the parser promises to see through, the verdict counts, in an answer *)
(* of any length.                                                          *)
THEOREM NoWrappedVerdictIsLost == Spec => []WrappedVerdictCounts
<1>1. IInv => WrappedVerdictCounts
  <2> SUFFICES ASSUME IInv, pc = "answered",
                      NEW i \in 1 .. Len(content), NEW j \in 1 .. Len(content),
                      WrappedVerdict(content, i, j)
               PROVE  ~result.malformed /\ result.passed = (content[i + 1] = "pass")
    BY DEF WrappedVerdictCounts
  <2>1. content \in Seq(Tokens) /\ text \in Seq(Tokens)
    BY DEF IInv, TypeOK
  <2>2. text = Stripped(content) /\ result = Judgement
    BY DEF IInv, ReadInv, ResultInv
  <2>3. PICK v \in Seq(Tokens) :
          \E a : IsVerdict(v) /\ v[2] = content[i + 1] /\ StandsAt(v, text, a)
    BY <2>1, <2>2, WrappedStands
  <2>4. (IsVerdict(text) => text[2] = v[2]) /\ FirstBalanced(text) = v
    <3>1. PICK a : IsVerdict(v) /\ StandsAt(v, text, a)
      BY <2>3
    <3> QED BY <2>1, <3>1, VerdictIsFirst
  <2>5. CASE IsVerdict(text)
    <3>1. result = Believed(text)
      BY <2>2, <2>5 DEF Judgement
    <3> QED BY <2>3, <2>4, <2>5, <3>1 DEF Believed
  <2>6. CASE ~IsVerdict(text)
    <3>1. result = Believed(v)
      BY <2>2, <2>3, <2>4, <2>6 DEF Judgement
    <3> QED BY <2>3, <3>1 DEF Believed
  <2> QED BY <2>5, <2>6
<1> QED BY <1>1, Invariance, PTL

-----------------------------------------------------------------------------
(* The parser as one step, and how many steps it is.                       *)

LEMMA JudgementIsMeaning ==
  ASSUME text = Stripped(content)
  PROVE  Judgement = Meaning(content)
BY DEF Judgement, Believed, Malformed, Meaning

(* A step of the scanner says nothing yet. *)
LEMMA ScanIsSilent ==
  ASSUME Scan
  PROVE  pc = "scanning" /\ pc' \in {"scanning", "scanned"} /\ UNCHANGED <<content, result>>
BY DEF Scan, InString, OpenString, OpenBrace, CloseInner, CloseObject, Plain, Unbalanced, Continue

LEMMA StepRefines ==
  ASSUME IInv, [Next]_vars
  PROVE  [Promise!Next]_(Promise!vars)
<1> USE DEF IInv, ReadInv, ResultInv, Stage, Promise!vars
<1>1. CASE Enter
  <2>1. Promise!Open
    BY <1>1 DEF Enter, Promise!Open, Promise!Fresh
  <2> QED BY <2>1 DEF Promise!Next
<1>2. CASE Exit
  <2>1. Promise!Close
    BY <1>2 DEF Exit, Forget, Promise!Close, Promise!Fresh
  <2> QED BY <2>1 DEF Promise!Next
<1>3. CASE AskAgain
  <2>1. Promise!Again
    BY <1>3 DEF AskAgain, Forget, Promise!Again, Promise!Fresh
  <2> QED BY <2>1 DEF Promise!Next
<1>4. CASE TransportFails
  <2>1. Promise!Raise
    BY <1>4 DEF TransportFails, Promise!Raise
  <2> QED BY <2>1 DEF Promise!Next
<1>5. ASSUME NEW s \in Contents, Answer(s) PROVE Promise!Next
  <2>1. Promise!Hear
    BY <1>5 DEF Answer, Promise!Hear
  <2> QED BY <2>1 DEF Promise!Next
<1>6. ASSUME pc' = "answered", WholeText \/ FirstObject \/ NoVerdict PROVE Promise!Next
  <2>1. IInv'
    BY <1>6, WholeTextStep, FirstObjectStep, NoVerdictStep
  <2>2. /\ pc \in {"stripped", "scanned"} /\ content' = content
        /\ text' = text /\ text = Stripped(content)
    BY <1>6 DEF WholeText, FirstObject, NoVerdict
  <2>3. result' = Judgement'
    BY <1>6, <2>1
  <2>4. Judgement' = Meaning(content)
    BY <2>2, JudgementIsMeaning DEF Judgement, Believed, Malformed
  <2>5. Promise!Decide
    BY <1>6, <2>2, <2>3, <2>4 DEF Promise!Decide
  <2> QED BY <2>5 DEF Promise!Next
<1>7. CASE WholeText
  BY <1>6, <1>7 DEF WholeText, Accept
<1>8. CASE FirstObject
  BY <1>6, <1>8 DEF FirstObject, Accept
<1>9. CASE NoVerdict
  BY <1>6, <1>9 DEF NoVerdict
<1>10. CASE StartScan
  BY <1>10 DEF StartScan
<1>11. CASE Scan
  BY <1>11, ScanIsSilent
<1>12. CASE UNCHANGED vars
  BY <1>12 DEF vars
<1> QED BY <1>1, <1>2, <1>3, <1>4, <1>5, <1>7, <1>8, <1>9, <1>10, <1>11, <1>12 DEF Next, Parse

(* The parser with its scanner and its variables implements the judge that *)
(* turns each answer into what it means in one step.                       *)
THEOREM Refinement == Spec => ImplementsJudge
<1>1. Init => Promise!Init
  BY DEF Init, Promise!Init, Stage
<1>2. IInv /\ [Next]_vars => [Promise!Next]_(Promise!vars)
  BY StepRefines
<1> QED BY <1>1, <1>2, Invariance, PTL DEF Spec, ImplementsJudge, Promise!Spec

(* The steps the parser still takes at most. *)
StepsLeft == CASE pc = "stripped" -> Len(text) + 3
               [] pc = "scanning" -> Len(text) + 3 - at
               [] pc = "scanned"  -> 1
               [] OTHER           -> 0

(* The scanner looks at no character twice: the parser ends within the     *)
(* length of the text and three steps.                                     *)
OneStepPerCharacter == [][Parse => StepsLeft > StepsLeft' /\ StepsLeft' >= 0]_vars

LEMMA ScanAdvances ==
  ASSUME IInv, Scan
  PROVE  StepsLeft > StepsLeft' /\ StepsLeft' >= 0
<1>1. /\ pc = "scanning" /\ text \in Seq(Tokens) /\ text' = text /\ Len(text) \in Nat
      /\ at \in Nat /\ at <= Len(text) + 1
  <2>1. text \in Seq(Tokens) /\ pc = "scanning" /\ at \in Start .. Len(text) + 1
        /\ Positions(text, "open") # {} /\ at \in Nat
    BY ScanIsSilent DEF IInv, TypeOK, ScanningInv
  <2>2. text' = text
    BY DEF Scan, InString, OpenString, OpenBrace, CloseInner, CloseObject, Plain, Unbalanced,
           Continue, scanner
  <2>3. Start \in 1 .. Len(text) /\ Len(text) \in Nat
    BY <2>1, StartOf
  <2> QED BY <2>1, <2>2, <2>3
<1>2. CASE pc' = "scanned"
  BY <1>1, <1>2 DEF StepsLeft
<1>3. CASE pc' = "scanning"
  <2>1. at' = at + 1 /\ at <= Len(text)
    BY <1>1, <1>3 DEF Scan, InString, OpenString, OpenBrace, CloseInner, CloseObject, Plain,
                      Unbalanced, Continue
  <2> QED BY <1>1, <1>3, <2>1 DEF StepsLeft
<1> QED BY <1>2, <1>3, ScanIsSilent

(* For a text of any length the parser ends within its length and three    *)
(* steps.                                                                  *)
THEOREM ParserIsLinear == Spec => OneStepPerCharacter
<1>1. IInv /\ [Next]_vars => [Parse => StepsLeft > StepsLeft' /\ StepsLeft' >= 0]_vars
  <2> SUFFICES ASSUME IInv, Parse PROVE StepsLeft > StepsLeft' /\ StepsLeft' >= 0
    OBVIOUS
  <2>1. text \in Seq(Tokens) /\ Len(text) \in Nat
    BY DEF IInv, TypeOK
  <2>2. CASE WholeText
    BY <2>1, <2>2 DEF WholeText, Accept, StepsLeft
  <2>3. CASE StartScan
    <3>1. pc = "stripped" /\ text' = text /\ StepsLeft = Len(text) + 3
      BY <2>3 DEF StartScan, StepsLeft
    <3>2. CASE Positions(text, "open") = {}
      BY <2>1, <2>3, <3>1, <3>2 DEF StartScan, StepsLeft
    <3>3. CASE Positions(text, "open") # {}
      <4>1. pc' = "scanning" /\ at' = Start
        BY <2>3, <3>3 DEF StartScan, Start
      <4>2. Start \in 1 .. Len(text)
        BY <2>1, <3>3, StartOf
      <4>3. StepsLeft' = Len(text) + 3 - Start
        BY <3>1, <4>1 DEF StepsLeft
      <4> QED BY <2>1, <3>1, <4>2, <4>3
    <3> QED BY <3>2, <3>3
  <2>4. CASE Scan
    BY <2>4, ScanAdvances
  <2>5. CASE FirstObject
    BY <2>5 DEF FirstObject, Accept, StepsLeft
  <2>6. CASE NoVerdict
    BY <2>6 DEF NoVerdict, StepsLeft
  <2> QED BY <2>2, <2>3, <2>4, <2>5, <2>6 DEF Parse
<1> QED BY <1>1, Invariance, PTL DEF Spec, OneStepPerCharacter
=============================================================================
