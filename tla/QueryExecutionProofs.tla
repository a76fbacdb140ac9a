------------------------- MODULE QueryExecutionProofs -------------------------
(***************************************************************************)
(* Theorems about the choice and the execution of a query, for every       *)
(* catalog, statement, declaration, value and plan. First what the         *)
(* operators compute, from the recursions they are written with; then the  *)
(* inductive invariant, and what follows from it.                          *)
(***************************************************************************)
EXTENDS QueryExecution, FiniteSetTheorems, TLAPS

-----------------------------------------------------------------------------
(* Induction over a set of numbers. The cases of a statement P that hold   *)
(* are collected in the set {n \in Nat : P(n)}, so that no prover has to   *)
(* instantiate an operator.                                                *)

LessThanPairs == {pair \in Nat \X Nat : pair[1] < pair[2]}

LEMMA LessThanWellFounded == IsWellFoundedOn(LessThanPairs, Nat)
BY NatLessThanWellFounded DEF LessThanPairs, OpToRel

LEMMA Induction ==
  ASSUME NEW T, 0 \in T, \A n \in Nat : n \in T => n + 1 \in T
  PROVE  Nat \subseteq T
<1> DEFINE left == Nat \ T
<1> SUFFICES ASSUME left # {} PROVE FALSE
  OBVIOUS
<1>1. PICK n \in left : \A m \in left : <<m, n>> \notin LessThanPairs
  <2> HIDE DEF left
  <2>1. left \subseteq Nat
    BY DEF left
  <2> QED
    BY <2>1, LessThanWellFounded, WFMin
<1>2. n \in Nat /\ n # 0 /\ n - 1 \in Nat
  OBVIOUS
<1>3. <<n - 1, n>> \in LessThanPairs
  BY <1>2 DEF LessThanPairs
<1>4. n - 1 \in T
  BY <1>1, <1>2, <1>3
<1> QED
  BY <1>2, <1>4

-----------------------------------------------------------------------------
(* Keep.                                                                    *)

\* Keep satisfies the recursion it is written with.
LEMMA KeepRecursion ==
  ASSUME NEW X, NEW s \in Seq(X), NEW S
  PROVE  \E kept :
           /\ kept[0] = <<>>
           /\ \A n \in 1..Len(s) :
                kept[n] = IF s[n] \in S THEN Append(kept[n - 1], s[n]) ELSE kept[n - 1]
           /\ Keep(s, S) = kept[Len(s)]
<1> DEFINE Kept(m, f) ==
             f = [n \in 0..m |->
                    IF n = 0 THEN <<>>
                    ELSE IF s[n] \in S THEN Append(f[n - 1], s[n]) ELSE f[n - 1]]
           T == {m \in Nat : \E f : Kept(m, f)}
<1>1. 0 \in T
  <2>1. Kept(0, [n \in 0..0 |-> <<>>])
    OBVIOUS
  <2> QED
    BY <2>1
<1>2. ASSUME NEW m \in Nat, m \in T PROVE m + 1 \in T
  <2>1. PICK f : Kept(m, f)
    BY <1>2
  <2> DEFINE g == [n \in 0..(m + 1) |->
                     IF n <= m THEN f[n]
                     ELSE IF s[n] \in S THEN Append(f[n - 1], s[n]) ELSE f[n - 1]]
  <2>2. ASSUME NEW n \in 0..(m + 1)
        PROVE  g[n] = IF n = 0 THEN <<>>
                      ELSE IF s[n] \in S THEN Append(g[n - 1], s[n]) ELSE g[n - 1]
    <3>1. CASE n = 0
      BY <2>1, <3>1
    <3>2. CASE n # 0
      <4>1. n - 1 \in 0..m /\ g[n - 1] = f[n - 1]
        BY <3>2
      <4>2. CASE n <= m
        <5>1. n \in 0..m
          BY <4>2
        <5>2. f[n] = IF s[n] \in S THEN Append(f[n - 1], s[n]) ELSE f[n - 1]
          BY <2>1, <3>2, <5>1
        <5> QED
          BY <3>2, <4>1, <4>2, <5>2
      <4>3. CASE ~(n <= m)
        BY <3>2, <4>1, <4>3
      <4> QED
        BY <4>2, <4>3
    <3> QED
      BY <3>1, <3>2
  <2>3. g = [n \in 0..(m + 1) |-> g[n]]
    OBVIOUS
  <2> HIDE DEF g
  <2>4. Kept(m + 1, g)
    <3> DEFINE h == [n \in 0..(m + 1) |->
                       IF n = 0 THEN <<>>
                       ELSE IF s[n] \in S THEN Append(g[n - 1], s[n]) ELSE g[n - 1]]
    <3>1. ASSUME NEW n \in 0..(m + 1) PROVE h[n] = g[n]
      <4>1. h[n] = IF n = 0 THEN <<>>
                   ELSE IF s[n] \in S THEN Append(g[n - 1], s[n]) ELSE g[n - 1]
        OBVIOUS
      <4> HIDE DEF h
      <4> QED
        BY <2>2, <4>1
    <3>2. h = [n \in 0..(m + 1) |-> h[n]]
      OBVIOUS
    <3>3. h = g
      <4> HIDE DEF h
      <4> QED
        BY <2>3, <3>1, <3>2
    <3> QED
      BY <3>3
  <2> HIDE DEF Kept, g
  <2> QED
    BY <2>4
<1>3. Len(s) \in T
  <2> HIDE DEF T
  <2>1. Nat \subseteq T
    BY <1>1, <1>2, Induction
  <2> QED
    BY <2>1
<1> DEFINE kept == CHOOSE f : Kept(Len(s), f)
<1>4. Kept(Len(s), kept)
  BY <1>3
<1>5. Keep(s, S) = kept[Len(s)]
  BY DEF Keep
<1> HIDE DEF kept
<1>6. kept[0] = <<>>
  BY <1>4
<1>7. ASSUME NEW n \in 1..Len(s)
      PROVE  kept[n] = IF s[n] \in S THEN Append(kept[n - 1], s[n]) ELSE kept[n - 1]
  <2>1. n \in 0..Len(s) /\ n # 0
    OBVIOUS
  <2> QED
    BY <1>4, <2>1
<1> QED
  BY <1>5, <1>6, <1>7

LEMMA Appended ==
  ASSUME NEW X, NEW s \in Seq(X), NEW x \in X
  PROVE  /\ Append(s, x) \in Seq(X) /\ Len(Append(s, x)) = Len(s) + 1
         /\ ToSet(Append(s, x)) = ToSet(s) \union {x}
         /\ \A i \in 1..Len(s) : Append(s, x)[i] = s[i]
         /\ Append(s, x)[Len(s) + 1] = x
<1>1. /\ Append(s, x) \in Seq(X) /\ Len(Append(s, x)) = Len(s) + 1
      /\ \A i \in 1..Len(s) : Append(s, x)[i] = s[i]
      /\ Append(s, x)[Len(s) + 1] = x
  OBVIOUS
<1>2. DOMAIN Append(s, x) = 1..(Len(s) + 1) /\ DOMAIN s = 1..Len(s)
  BY <1>1
<1>3. ToSet(Append(s, x)) = ToSet(s) \union {x}
  <2> DEFINE a == Append(s, x)
  <2> HIDE DEF a
  <2>1. \A i \in 1..(Len(s) + 1) : i \in 1..Len(s) \/ i = Len(s) + 1
    OBVIOUS
  <2>2. \A i \in 1..Len(s) : i \in 1..(Len(s) + 1)
    OBVIOUS
  <2>3. Len(s) + 1 \in 1..(Len(s) + 1)
    OBVIOUS
  <2> QED
    BY <1>1, <1>2, <2>1, <2>2, <2>3 DEF ToSet, a
<1> QED
  BY <1>1, <1>3

\* What Keep returns: a sequence no longer than s, of those of its elements that
\* are in S; and s itself if they all are.
LEMMA KeepFacts ==
  ASSUME NEW X, NEW s \in Seq(X), NEW S
  PROVE  /\ Keep(s, S) \in Seq(X) /\ Len(Keep(s, S)) <= Len(s)
         /\ ToSet(Keep(s, S)) = ToSet(s) \cap S
         /\ ToSet(s) \subseteq S => Keep(s, S) = s
<1>1. PICK kept :
        /\ kept[0] = <<>>
        /\ \A n \in 1..Len(s) :
             kept[n] = IF s[n] \in S THEN Append(kept[n - 1], s[n]) ELSE kept[n - 1]
        /\ Keep(s, S) = kept[Len(s)]
  BY KeepRecursion
<1> DEFINE First(m) == {s[i] : i \in 1..m}
           Right(m) == /\ kept[m] \in Seq(X) /\ Len(kept[m]) <= m
                       /\ ToSet(kept[m]) = First(m) \cap S
                       /\ First(m) \subseteq S => /\ Len(kept[m]) = m
                                                  /\ \A i \in 1..m : kept[m][i] = s[i]
           T == {m \in Nat : m <= Len(s) => Right(m)}
<1>2. 0 \in T
  <2>1. ToSet(<<>>) = {} /\ First(0) = {}
    BY DEF ToSet
  <2> HIDE DEF First
  <2>2. kept[0] \in Seq(X) /\ Len(kept[0]) = 0 /\ ToSet(kept[0]) = {}
    BY <1>1, <2>1
  <2>3. \A i \in 1..0 : FALSE
    OBVIOUS
  <2> QED
    BY <2>1, <2>2, <2>3
<1>3. ASSUME NEW m \in Nat, m \in T, m + 1 <= Len(s) PROVE Right(m + 1)
  <2>1. Right(m) /\ m + 1 \in 1..Len(s) /\ s[m + 1] \in X /\ (m + 1) - 1 = m
    BY <1>3
  <2>2. First(m + 1) = First(m) \union {s[m + 1]}
    OBVIOUS
  <2> HIDE DEF First
  <2>3. CASE s[m + 1] \in S
    <3>1. kept[m + 1] = Append(kept[m], s[m + 1])
      BY <1>1, <2>1, <2>3
    <3>2. /\ kept[m + 1] \in Seq(X) /\ Len(kept[m + 1]) = Len(kept[m]) + 1
          /\ ToSet(kept[m + 1]) = ToSet(kept[m]) \union {s[m + 1]}
          /\ \A i \in 1..Len(kept[m]) : kept[m + 1][i] = kept[m][i]
          /\ kept[m + 1][Len(kept[m]) + 1] = s[m + 1]
      BY <2>1, <3>1, Appended
    <3>3. Len(kept[m + 1]) <= m + 1 /\ ToSet(kept[m + 1]) = First(m + 1) \cap S
      BY <2>1, <2>2, <2>3, <3>2
    <3>4. ASSUME First(m + 1) \subseteq S
          PROVE  Len(kept[m + 1]) = m + 1 /\ \A i \in 1..(m + 1) : kept[m + 1][i] = s[i]
      <4>1. Len(kept[m]) = m /\ \A i \in 1..m : kept[m][i] = s[i]
        BY <2>1, <2>2, <3>4
      <4>2. \A i \in 1..(m + 1) : i \in 1..m \/ i = m + 1
        OBVIOUS
      <4> QED
        BY <3>2, <4>1, <4>2
    <3> QED
      BY <3>2, <3>3, <3>4
  <2>4. CASE s[m + 1] \notin S
    <3>1. kept[m + 1] = kept[m]
      BY <1>1, <2>1, <2>4
    <3> QED
      BY <2>1, <2>2, <2>4, <3>1
  <2> QED
    BY <2>3, <2>4
<1>4. Right(Len(s))
  <2> HIDE DEF Right
  <2>1. \A m \in Nat : m \in T => m + 1 \in T
    BY <1>3
  <2> HIDE DEF T
  <2>2. Len(s) \in T
    BY <1>2, <2>1, Induction
  <2> QED
    BY <2>2 DEF T
<1>5. First(Len(s)) = ToSet(s)
  BY DEF ToSet
<1> HIDE DEF First
<1>6. /\ Keep(s, S) \in Seq(X) /\ Len(Keep(s, S)) <= Len(s)
      /\ ToSet(Keep(s, S)) = ToSet(s) \cap S
  BY <1>1, <1>4, <1>5
<1>7. ASSUME ToSet(s) \subseteq S PROVE Keep(s, S) = s
  <2>1. Len(Keep(s, S)) = Len(s) /\ \A i \in 1..Len(s) : Keep(s, S)[i] = s[i]
    BY <1>1, <1>4, <1>5, <1>7
  <2> QED
    BY <1>6, <2>1
<1> QED
  BY <1>6, <1>7

LEMMA TopFacts ==
  ASSUME NEW X, NEW s \in Seq(X), NEW n \in Nat
  PROVE  /\ Top(s, n) \in Seq(X) /\ Len(Top(s, n)) <= n /\ Len(Top(s, n)) <= Len(s)
         /\ ToSet(Top(s, n)) \subseteq ToSet(s)
         /\ Len(s) <= n => Top(s, n) = s
         /\ n > 0 /\ s # <<>> => Top(s, n) # <<>>
<1> DEFINE m == Min({n, Len(s)})
<1>1. m = IF n <= Len(s) THEN n ELSE Len(s)
  <2>1. PICK k : k = IF n <= Len(s) THEN n ELSE Len(s)
    OBVIOUS
  <2>2. k \in {n, Len(s)} /\ \A y \in {n, Len(s)} : k <= y
    BY <2>1
  <2>3. \A x, y \in {n, Len(s)} : x <= y /\ y <= x => x = y
    OBVIOUS
  <2> QED
    BY <2>1, <2>2, <2>3 DEF Min
<1> HIDE DEF m
<1>2. m \in 0..Len(s) /\ m <= n /\ Top(s, n) = SubSeq(s, 1, m)
  BY <1>1 DEF Top, m
<1>3. /\ SubSeq(s, 1, m) \in Seq(X) /\ Len(SubSeq(s, 1, m)) = m
      /\ \A i \in 1..m : SubSeq(s, 1, m)[i] = s[i]
  BY <1>2
<1>4. ToSet(Top(s, n)) \subseteq ToSet(s)
  <2>1. DOMAIN SubSeq(s, 1, m) = 1..m /\ DOMAIN s = 1..Len(s) /\ 1..m \subseteq 1..Len(s)
    BY <1>2, <1>3
  <2> QED
    BY <1>2, <1>3, <2>1 DEF ToSet
<1>5. ASSUME Len(s) <= n PROVE Top(s, n) = s
  <2>1. m = Len(s)
    BY <1>1, <1>5
  <2> QED
    BY <1>2, <1>3, <2>1
<1>6. ASSUME n > 0, s # <<>> PROVE Top(s, n) # <<>>
  <2>1. m > 0
    BY <1>1, <1>6
  <2> QED
    BY <1>2, <1>3, <2>1
<1> QED
  BY <1>2, <1>3, <1>4, <1>5, <1>6

-----------------------------------------------------------------------------
(* The search.                                                             *)

LEMMA RowsTyped ==
  \A row \in Rows : row.minRole \in Role /\ row.asset \in BOOLEAN /\ Level(row) \in 1..3
<1>1. \A row \in Rows : row.minRole \in Role /\ row.asset \in BOOLEAN
  BY SituationsAssumption
<1>2. \A x \in Role : ROLE_ACCESS[x] \in 1..3
  BY DEF Role, ROLE_ACCESS
<1> QED
  BY <1>1, <1>2 DEF Level

LEMMA SearchFacts ==
  ASSUME NEW x \in Role, NEW s \in Seq(Rows), NEW found \in {Sorted(x, s), Indexed(x, s)}
  PROVE  found \in Seq(Rows) /\ Len(found) <= Limit /\ ToSet(found) \subseteq Accessible(x)
<1>1. Limit \in Nat /\ EfSearch \in Nat
  BY SituationsAssumption
<1>2. ASSUME NEW t \in Seq(Rows)
      PROVE  /\ Top(Keep(t, Accessible(x)), Limit) \in Seq(Rows)
             /\ Len(Top(Keep(t, Accessible(x)), Limit)) <= Limit
             /\ ToSet(Top(Keep(t, Accessible(x)), Limit)) \subseteq Accessible(x)
  <2>1. /\ Keep(t, Accessible(x)) \in Seq(Rows)
        /\ ToSet(Keep(t, Accessible(x))) \subseteq Accessible(x)
    BY KeepFacts
  <2> QED
    BY <1>1, <2>1, TopFacts
<1>3. Top(s, EfSearch) \in Seq(Rows)
  BY <1>1, TopFacts
<1> QED
  BY <1>2, <1>3 DEF Sorted, Indexed

\* An index scan of the whole catalog is an exact one.
LEMMA ScanIsExact ==
  ASSUME NEW x, NEW s \in Seq(Rows), Len(s) <= EfSearch
  PROVE  Indexed(x, s) = Sorted(x, s)
BY SituationsAssumption, TopFacts DEF Indexed, Sorted

\* The rows a role may see are all that the search returns.
LEMMA SearchSeesVisible ==
  ASSUME NEW x, NEW s \in Seq(Rows)
  PROVE  Sorted(x, Keep(s, Accessible(x))) = Sorted(x, s)
<1>1. /\ Keep(s, Accessible(x)) \in Seq(Rows)
      /\ ToSet(Keep(s, Accessible(x))) \subseteq Accessible(x)
  BY KeepFacts
<1>2. Keep(Keep(s, Accessible(x)), Accessible(x)) = Keep(s, Accessible(x))
  BY <1>1, KeepFacts
<1> QED
  BY <1>2 DEF Sorted

-----------------------------------------------------------------------------
(* The detail policy and the deterministic selector.                       *)

LEMMA NonEmpty ==
  ASSUME NEW X, NEW s \in Seq(X)
  PROVE  /\ s # <<>> <=> ToSet(s) # {}
         /\ s # <<>> => Head(s) \in ToSet(s)
         /\ ToSet(s) \subseteq X
<1>1. DOMAIN s = 1..Len(s)
  OBVIOUS
<1>2. s # <<>> => 1 \in 1..Len(s) /\ Head(s) = s[1]
  OBVIOUS
<1>3. s = <<>> => 1..Len(s) = {}
  OBVIOUS
<1>4. \A i \in 1..Len(s) : s[i] \in X
  OBVIOUS
<1> QED
  BY <1>1, <1>2, <1>3, <1>4 DEF ToSet

\* Some row has the highest level, and none a higher one.
LEMMA RichestFacts ==
  ASSUME NEW s \in Seq(Rows), s # <<>>
  PROVE  /\ \E row \in ToSet(s) : Level(row) = Richest(s)
         /\ \A row \in ToSet(s) : Level(row) <= Richest(s)
<1> DEFINE levels == {Level(s[i]) : i \in DOMAIN s}
<1>1. levels = {Level(row) : row \in ToSet(s)}
  BY DEF ToSet
<1>2. levels \subseteq 1..3 /\ levels # {}
  <2>1. ToSet(s) # {} /\ ToSet(s) \subseteq Rows
    BY NonEmpty
  <2> HIDE DEF levels
  <2> QED
    BY <1>1, <2>1, RowsTyped
<1> HIDE DEF levels
<1>3. \E x \in levels : \A y \in levels : x >= y
  <2>1. CASE 3 \in levels
    BY <1>2, <2>1
  <2>2. CASE 3 \notin levels /\ 2 \in levels
    <3>1. \A y \in levels : y = 1 \/ y = 2
      BY <1>2, <2>2
    <3>2. \A y \in levels : 2 >= y
      BY <3>1
    <3> QED
      BY <2>2, <3>2
  <2>3. CASE 3 \notin levels /\ 2 \notin levels
    <3>1. \A y \in levels : y = 1
      BY <1>2, <2>3
    <3>2. PICK y \in levels : TRUE
      BY <1>2
    <3>3. \A z \in levels : y >= z
      BY <3>1, <3>2
    <3> QED
      BY <3>3
  <2> QED
    BY <2>1, <2>2, <2>3
<1>4. Richest(s) \in levels /\ \A y \in levels : Richest(s) >= y
  BY <1>3 DEF Richest, Max, levels
<1>5. \A x, y \in 1..3 : x >= y => y <= x
  OBVIOUS
<1> QED
  BY <1>1, <1>2, <1>4, <1>5

\* A sequence is as rich as its rows, if they all have one level.
LEMMA RichestOfOneLevel ==
  ASSUME NEW s \in Seq(Rows), s # <<>>, NEW n, ToSet(s) \subseteq OfLevel(n)
  PROVE  Richest(s) = n
<1>1. PICK row \in ToSet(s) : Level(row) = Richest(s)
  BY RichestFacts
<1> QED
  BY <1>1 DEF OfLevel

\* What remains of rows is the richest of them, and something does.
LEMMA RichestRemain ==
  ASSUME NEW s \in Seq(Rows), s # <<>>
  PROVE  /\ Keep(s, OfLevel(Richest(s))) \in Seq(Rows)
         /\ Keep(s, OfLevel(Richest(s))) # <<>>
         /\ Len(Keep(s, OfLevel(Richest(s)))) <= Len(s)
         /\ ToSet(Keep(s, OfLevel(Richest(s)))) = ToSet(s) \cap OfLevel(Richest(s))
<1>1. PICK row \in ToSet(s) : Level(row) = Richest(s)
  BY RichestFacts
<1>2. row \in ToSet(s) \cap OfLevel(Richest(s))
  BY <1>1, NonEmpty DEF OfLevel
<1>3. /\ Keep(s, OfLevel(Richest(s))) \in Seq(Rows)
      /\ Len(Keep(s, OfLevel(Richest(s)))) <= Len(s)
      /\ ToSet(Keep(s, OfLevel(Richest(s)))) = ToSet(s) \cap OfLevel(Richest(s))
  BY KeepFacts
<1> QED
  BY <1>2, <1>3, NonEmpty

LEMMA PolicyFacts ==
  ASSUME NEW words, NEW s \in Seq(Rows)
  PROVE  LET kept == _apply_demo_detail_policy(words, s)
         IN  /\ kept \in Seq(Rows) /\ Len(kept) <= Len(s) /\ ToSet(kept) \subseteq ToSet(s)
             /\ s # <<>> => kept # <<>>
<1> DEFINE assets == Keep(s, Assets)
<1>1. assets \in Seq(Rows) /\ Len(assets) <= Len(s) /\ ToSet(assets) \subseteq ToSet(s)
  BY KeepFacts
<1>2. CASE words # Words \/ assets = <<>>
  BY <1>2 DEF _apply_demo_detail_policy
<1>3. CASE ~(words # Words \/ assets = <<>>)
  <2> DEFINE rest == Keep(assets, OfLevel(Richest(assets)))
  <2>1. _apply_demo_detail_policy(words, s) = rest
    BY <1>3 DEF _apply_demo_detail_policy
  <2> HIDE DEF assets
  <2>2. /\ rest \in Seq(Rows) /\ rest # <<>> /\ Len(rest) <= Len(assets)
        /\ ToSet(rest) \subseteq ToSet(assets)
    BY <1>1, <1>3, RichestRemain
  <2> HIDE DEF rest
  <2>3. Len(rest) <= Len(s)
    BY <1>1, <2>2
  <2> QED
    BY <1>1, <2>1, <2>2, <2>3
<1> QED
  BY <1>2, <1>3

LEMMA DeterministicFacts ==
  ASSUME NEW words, NEW s \in Seq(Rows), s # <<>>
  PROVE  Deterministic(words, s) \in ToSet(s)
<1> DEFINE matches == IF {"asset", "open"} \subseteq words THEN Keep(s, Assets) ELSE <<>>
           pool == IF matches = <<>> THEN Top(s, 1) ELSE matches
<1>1. pool \in Seq(Rows) /\ pool # <<>> /\ ToSet(pool) \subseteq ToSet(s)
  <2>1. Keep(s, Assets) \in Seq(Rows) /\ ToSet(Keep(s, Assets)) \subseteq ToSet(s)
    BY KeepFacts
  <2>2. Top(s, 1) \in Seq(Rows) /\ Top(s, 1) # <<>> /\ ToSet(Top(s, 1)) \subseteq ToSet(s)
    BY TopFacts
  <2> QED
    BY <2>1, <2>2
<1>2. Deterministic(words, s) = Head(Keep(pool, OfLevel(Richest(pool))))
  BY DEF Deterministic
<1> HIDE DEF pool
<1>3. /\ Keep(pool, OfLevel(Richest(pool))) \in Seq(Rows)
      /\ Keep(pool, OfLevel(Richest(pool))) # <<>>
      /\ ToSet(Keep(pool, OfLevel(Richest(pool)))) \subseteq ToSet(s)
  BY <1>1, RichestRemain
<1> QED
  BY <1>2, <1>3, NonEmpty

\* For a prompt about open asset findings the policy has left the richest asset
\* queries; the deterministic selector takes the first of them either way.
LEMMA RichestIsChosen ==
  ASSUME NEW words \in SUBSET Words, NEW s \in Seq(Rows), Keep(s, Assets) # <<>>,
         {"asset", "open"} \subseteq words
  PROVE  LET richest == Keep(Keep(s, Assets), OfLevel(Richest(Keep(s, Assets))))
             kept == _apply_demo_detail_policy(words, s)
         IN  /\ richest \in Seq(Rows) /\ richest # <<>>
             /\ "finding" \in words => kept = richest
             /\ Deterministic(words, kept) = Head(richest)
<1> DEFINE assets == Keep(s, Assets)
           top == Richest(assets)
           richest == Keep(assets, OfLevel(top))
           kept == _apply_demo_detail_policy(words, s)
<1>1. assets \in Seq(Rows) /\ assets # <<>> /\ ToSet(assets) \subseteq Assets
  BY KeepFacts
<1>2. kept = IF words # Words THEN s ELSE richest
  BY <1>1 DEF _apply_demo_detail_policy
<1>3. "finding" \in words <=> words = Words
  BY DEF Words
<1>4. Deterministic(words, kept) =
        LET pool == IF Keep(kept, Assets) = <<>> THEN Top(kept, 1) ELSE Keep(kept, Assets)
        IN  Head(Keep(pool, OfLevel(Richest(pool))))
  BY DEF Deterministic
<1> HIDE DEF kept, assets
<1>5. /\ richest \in Seq(Rows) /\ richest # <<>>
      /\ ToSet(richest) = ToSet(assets) \cap OfLevel(top)
  BY <1>1, RichestRemain
<1> HIDE DEF richest
<1>6. Deterministic(words, kept) = Head(richest)
  <2>1. CASE words # Words
    <3>1. Keep(kept, Assets) = assets
      BY <1>2, <2>1 DEF assets
    <3> QED
      BY <1>1, <1>4, <3>1 DEF richest
  <2>2. CASE words = Words
    <3>1. kept = richest
      BY <1>2, <2>2
    <3>2. Keep(kept, Assets) = richest
      BY <1>1, <1>5, <3>1, KeepFacts
    <3>3. Richest(richest) = top
      BY <1>5, RichestOfOneLevel
    <3>4. Keep(richest, OfLevel(top)) = richest
      BY <1>5, KeepFacts
    <3> QED
      BY <1>4, <1>5, <3>2, <3>3, <3>4
  <2> QED
    BY <2>1, <2>2
<1>7. "finding" \in words => kept = richest
  BY <1>2, <1>3
<1> QED
  BY <1>5, <1>6, <1>7 DEF richest, kept, assets

-----------------------------------------------------------------------------
(* bind_query. Bound says what holds after some of the markers, D, have    *)
(* been replaced.                                                          *)

Bound(b, sql, values, D) ==
  /\ DOMAIN b.slots = DOMAIN sql
  /\ DOMAIN b.positions = {sql[i].name : i \in D}
  /\ b.arguments \in Seq({values[n] : n \in DOMAIN values})
  /\ \A n \in DOMAIN b.positions :
       b.positions[n] \in 1..Len(b.arguments) /\ b.arguments[b.positions[n]] = values[n]
  /\ \A m, n \in DOMAIN b.positions : b.positions[m] = b.positions[n] => m = n
  /\ \A k \in 1..Len(b.arguments) : \E n \in DOMAIN b.positions : b.positions[n] = k
  /\ \A i \in D : b.slots[i] = b.positions[sql[i].name]

LEMMA ReplaceKeepsBound ==
  ASSUME NEW b, NEW sql, NEW values, NEW D \in SUBSET DOMAIN sql, Bound(b, sql, values, D),
         NEW i \in DOMAIN sql, sql[i].name \in DOMAIN values
  PROVE  Bound(Replace(b, values, i, sql[i].name), sql, values, D \union {i})
<1> DEFINE name == sql[i].name
           c == Replace(b, values, i, name)
           slot == Slot(b, name)
           Vals == {values[n] : n \in DOMAIN values}
<1>1. /\ c.slots = [b.slots EXCEPT ![i] = slot]
      /\ c.positions = [n \in DOMAIN b.positions \union {name} |->
                          IF n = name THEN slot ELSE b.positions[n]]
      /\ c.arguments = IF name \in DOMAIN b.positions THEN b.arguments
                       ELSE Append(b.arguments, values[name])
  BY DEF Replace
<1>2. values[name] \in Vals /\ b.arguments \in Seq(Vals)
  BY DEF Bound
<1> HIDE DEF c, slot
<1>3. DOMAIN c.slots = DOMAIN sql /\ c.slots[i] = slot /\ \A j \in D \ {i} : c.slots[j] = b.slots[j]
  BY <1>1 DEF Bound
<1>4. /\ DOMAIN c.positions = DOMAIN b.positions \union {name} /\ c.positions[name] = slot
      /\ \A n \in DOMAIN b.positions \ {name} : c.positions[n] = b.positions[n]
  BY <1>1
<1>5. DOMAIN c.positions = {sql[j].name : j \in D \union {i}}
  BY <1>4 DEF Bound
<1>6. ASSUME name \in DOMAIN b.positions PROVE Bound(c, sql, values, D \union {i})
  <2>1. c.arguments = b.arguments /\ slot = b.positions[name]
    BY <1>1, <1>6 DEF slot, Slot
  <2>2. DOMAIN c.positions = DOMAIN b.positions
        /\ \A n \in DOMAIN b.positions : c.positions[n] = b.positions[n]
    BY <1>4, <1>6, <2>1
  <2>3. \A j \in D \union {i} : c.slots[j] = c.positions[sql[j].name]
    BY <1>3, <1>4, <2>1, <2>2 DEF Bound
  <2> QED
    BY <1>3, <1>5, <2>1, <2>2, <2>3 DEF Bound
<1>7. ASSUME name \notin DOMAIN b.positions PROVE Bound(c, sql, values, D \union {i})
  <2>1. c.arguments = Append(b.arguments, values[name]) /\ slot = Len(b.arguments) + 1
    BY <1>1, <1>7 DEF slot, Slot
  <2>2. /\ c.arguments \in Seq(Vals) /\ Len(c.arguments) = Len(b.arguments) + 1
        /\ \A k \in 1..Len(b.arguments) : c.arguments[k] = b.arguments[k]
        /\ c.arguments[slot] = values[name] /\ Len(b.arguments) \in Nat
    <3> HIDE DEF Vals
    <3> QED
      BY <1>2, <2>1, Appended
  <2> HIDE DEF Vals
  <2>3. \A n \in DOMAIN b.positions : n # name /\ c.positions[n] = b.positions[n]
    BY <1>4, <1>7
  <2>4. ASSUME NEW n \in DOMAIN c.positions
        PROVE  c.positions[n] \in 1..Len(c.arguments) /\ c.arguments[c.positions[n]] = values[n]
    <3>1. CASE n = name
      BY <1>4, <2>1, <2>2, <3>1
    <3>2. CASE n # name
      <4>1. n \in DOMAIN b.positions
        BY <1>4, <3>2
      <4>2. b.positions[n] \in 1..Len(b.arguments) /\ b.arguments[b.positions[n]] = values[n]
        BY <4>1 DEF Bound
      <4> QED
        BY <2>2, <2>3, <4>1, <4>2
    <3> QED
      BY <3>1, <3>2
  <2>5. ASSUME NEW m \in DOMAIN c.positions, NEW n \in DOMAIN c.positions,
               c.positions[m] = c.positions[n]
        PROVE  m = n
    <3>1. \A x \in DOMAIN b.positions : c.positions[x] \in 1..Len(b.arguments)
      BY <2>3 DEF Bound
    <3>2. c.positions[name] \notin 1..Len(b.arguments)
      BY <1>4, <2>1, <2>2
    <3> QED
      BY <1>4, <2>3, <2>5, <3>1, <3>2 DEF Bound
  <2>6. ASSUME NEW k \in 1..Len(c.arguments)
        PROVE  \E n \in DOMAIN c.positions : c.positions[n] = k
    <3>1. CASE k = slot
      BY <1>4, <3>1
    <3>2. CASE k # slot
      <4>1. k \in 1..Len(b.arguments)
        BY <2>1, <2>2, <3>2
      <4>2. PICK n \in DOMAIN b.positions : b.positions[n] = k
        BY <4>1 DEF Bound
      <4> QED
        BY <1>4, <2>3, <4>2
    <3> QED
      BY <3>1, <3>2
  <2>7. ASSUME NEW j \in D \union {i}
        PROVE  c.slots[j] = c.positions[sql[j].name]
    <3>1. CASE j = i
      BY <1>3, <1>4, <3>1
    <3>2. CASE j # i
      <4>1. j \in D /\ sql[j].name \in DOMAIN b.positions
        BY <3>2 DEF Bound
      <4>2. b.slots[j] = b.positions[sql[j].name]
        BY <4>1 DEF Bound
      <4> QED
        BY <1>3, <2>3, <3>2, <4>1, <4>2
    <3> QED
      BY <3>1, <3>2
  <2> QED
    BY <1>3, <1>5, <2>2, <2>4, <2>5, <2>6, <2>7 DEF Bound, Vals
<1> QED
  BY <1>6, <1>7 DEF c

\* Pass satisfies the recursion it is written with.
LEMMA PassRecursion ==
  ASSUME NEW kind, NEW X, NEW sql \in Seq(X), NEW values, NEW bound
  PROVE  \E after :
           /\ after[0] = bound
           /\ \A n \in 1..Len(sql) :
                after[n] = IF sql[n].kind = kind
                           THEN Replace(after[n - 1], values, n, sql[n].name)
                           ELSE after[n - 1]
           /\ Pass(kind, sql, values, bound) = after[Len(sql)]
<1> DEFINE Turn(x, n) == IF sql[n].kind = kind THEN Replace(x, values, n, sql[n].name) ELSE x
           After(m, f) ==
             f = [n \in 0..m |->
                    IF n = 0 THEN bound
                    ELSE IF sql[n].kind = kind THEN Replace(f[n - 1], values, n, sql[n].name)
                    ELSE f[n - 1]]
           T == {m \in Nat : \E f : After(m, f)}
<1>1. 0 \in T
  <2>1. After(0, [n \in 0..0 |-> bound])
    OBVIOUS
  <2> QED
    BY <2>1
<1>2. ASSUME NEW m \in Nat, m \in T PROVE m + 1 \in T
  <2>1. PICK f : After(m, f)
    BY <1>2
  <2> DEFINE g == [n \in 0..(m + 1) |-> IF n <= m THEN f[n] ELSE Turn(f[n - 1], n)]
             h == [n \in 0..(m + 1) |-> IF n = 0 THEN bound ELSE Turn(g[n - 1], n)]
  <2>2. \A n \in 0..m : f[n] = IF n = 0 THEN bound ELSE Turn(f[n - 1], n)
    BY <2>1
  <2>3. ASSUME NEW n \in 0..(m + 1) PROVE g[n] = h[n]
    <3> HIDE DEF Turn
    <3>1. CASE n = 0
      BY <2>2, <3>1
    <3>2. CASE n # 0
      <4>1. n - 1 \in 0..m /\ g[n - 1] = f[n - 1]
        BY <3>2
      <4>2. h[n] = Turn(f[n - 1], n)
        BY <3>2, <4>1
      <4>3. n \in 0..m \/ n = m + 1
        OBVIOUS
      <4> QED
        BY <2>2, <3>2, <4>2, <4>3
    <3> QED
      BY <3>1, <3>2
  <2>4. g = [n \in 0..(m + 1) |-> g[n]] /\ h = [n \in 0..(m + 1) |-> h[n]]
    OBVIOUS
  <2>5. g = h
    <3> HIDE DEF g, h
    <3> QED
      BY <2>3, <2>4
  <2> HIDE DEF g
  <2>6. After(m + 1, g)
    BY <2>5
  <2> QED
    BY <2>6
<1>3. Len(sql) \in T
  <2> HIDE DEF T
  <2>1. Nat \subseteq T
    BY <1>1, <1>2, Induction
  <2> QED
    BY <2>1
<1> DEFINE after == CHOOSE f : After(Len(sql), f)
<1>4. After(Len(sql), after)
  BY <1>3
<1>5. Pass(kind, sql, values, bound) = after[Len(sql)]
  BY DEF Pass
<1> HIDE DEF after
<1>6. after[0] = bound
  BY <1>4
<1>7. ASSUME NEW n \in 1..Len(sql)
      PROVE  after[n] = Turn(after[n - 1], n)
  <2>1. n \in 0..Len(sql) /\ n # 0
    OBVIOUS
  <2> QED
    BY <1>4, <2>1
<1> QED
  BY <1>5, <1>6, <1>7

LEMMA PassBinds ==
  ASSUME NEW kind, NEW X, NEW sql \in Seq(X), NEW values, NEW bound,
         NEW D \in SUBSET DOMAIN sql, Bound(bound, sql, values, D),
         \A i \in DOMAIN sql : sql[i].kind = kind => sql[i].name \in DOMAIN values
  PROVE  Bound(Pass(kind, sql, values, bound), sql, values,
               D \union {i \in DOMAIN sql : sql[i].kind = kind})
<1>1. PICK after :
        /\ after[0] = bound
        /\ \A n \in 1..Len(sql) :
             after[n] = IF sql[n].kind = kind
                        THEN Replace(after[n - 1], values, n, sql[n].name)
                        ELSE after[n - 1]
        /\ Pass(kind, sql, values, bound) = after[Len(sql)]
  BY PassRecursion
<1> DEFINE Done(m) == D \union {i \in 1..m : sql[i].kind = kind}
           T == {m \in Nat : m <= Len(sql) => Bound(after[m], sql, values, Done(m))}
<1>2. 0 \in T
  <2>1. Done(0) = D
    OBVIOUS
  <2> HIDE DEF Done
  <2> QED
    BY <1>1, <2>1
<1>3. ASSUME NEW m \in Nat, m \in T PROVE m + 1 \in T
  <2> SUFFICES ASSUME m + 1 <= Len(sql) PROVE Bound(after[m + 1], sql, values, Done(m + 1))
    OBVIOUS
  <2>1. /\ Bound(after[m], sql, values, Done(m)) /\ (m + 1) - 1 = m
        /\ m + 1 \in 1..Len(sql) /\ m + 1 \in DOMAIN sql
    BY <1>3
  <2>2. Done(m) \subseteq DOMAIN sql
    OBVIOUS
  <2>3. CASE sql[m + 1].kind = kind
    <3>1. after[m + 1] = Replace(after[m], values, m + 1, sql[m + 1].name)
      BY <1>1, <2>1, <2>3
    <3>2. Done(m + 1) = Done(m) \union {m + 1}
      BY <2>3
    <3>3. sql[m + 1].name \in DOMAIN values
      BY <2>1, <2>3
    <3> HIDE DEF Done
    <3>4. Bound(Replace(after[m], values, m + 1, sql[m + 1].name), sql, values,
                Done(m) \union {m + 1})
      BY <2>1, <2>2, <3>3, ReplaceKeepsBound
    <3> QED
      BY <3>1, <3>2, <3>4
  <2>4. CASE sql[m + 1].kind # kind
    <3>1. after[m + 1] = after[m]
      BY <1>1, <2>1, <2>4
    <3>2. Done(m + 1) = Done(m)
      BY <2>4
    <3> QED
      BY <2>1, <3>1, <3>2
  <2> QED
    BY <2>3, <2>4
<1>4. Len(sql) \in T
  <2> HIDE DEF T
  <2>1. Nat \subseteq T
    BY <1>2, <1>3, Induction
  <2> QED
    BY <2>1
<1>5. Bound(after[Len(sql)], sql, values, Done(Len(sql)))
  BY <1>4
<1>6. Done(Len(sql)) = D \union {i \in DOMAIN sql : sql[i].kind = kind}
  OBVIOUS
<1> HIDE DEF Done
<1> QED
  BY <1>1, <1>5, <1>6

MarkersOf(sql) == {i \in DOMAIN sql : sql[i].kind \in {"colon", "psycopg"}}

\* bind_query replaces all the markers of both notations.
LEMMA BindBinds ==
  ASSUME NEW X, NEW sql \in Seq(X), NEW values, DOMAIN values = extract_parameters(sql)
  PROVE  Bound(bind_query(sql, values), sql, values, MarkersOf(sql))
<1>1. \A i \in MarkersOf(sql) : sql[i].name \in DOMAIN values
  BY DEF extract_parameters, MarkersOf
<1>2. Bound(Unbound(sql), sql, values, {})
  <2>1. /\ DOMAIN Unbound(sql).slots = DOMAIN sql
        /\ DOMAIN Unbound(sql).positions = {} /\ Unbound(sql).arguments = <<>>
    BY DEF Unbound
  <2> HIDE DEF Unbound
  <2>2. \A S : <<>> \in Seq(S) /\ 1..Len(<<>>) = {}
    OBVIOUS
  <2> QED
    BY <2>1, <2>2 DEF Bound
<1> DEFINE one == Pass("colon", sql, values, Unbound(sql))
           Of(kind) == {i \in DOMAIN sql : sql[i].kind = kind}
<1>3. Of("colon") \subseteq MarkersOf(sql) /\ Of("psycopg") \subseteq MarkersOf(sql)
      /\ Of("colon") \union Of("psycopg") = MarkersOf(sql)
  BY DEF MarkersOf
<1>4. Bound(one, sql, values, {} \union Of("colon"))
  BY <1>1, <1>2, <1>3, PassBinds
<1> HIDE DEF one
<1>5. Bound(Pass("psycopg", sql, values, one), sql, values, Of("colon") \union Of("psycopg"))
  <2>1. Of("colon") \in SUBSET DOMAIN sql /\ {} \union Of("colon") = Of("colon")
    OBVIOUS
  <2>2. \A i \in DOMAIN sql : sql[i].kind = "psycopg" => sql[i].name \in DOMAIN values
    BY <1>1, <1>3
  <2>3. Bound(one, sql, values, Of("colon"))
    BY <1>4, <2>1
  <2> HIDE DEF Of
  <2>4. Bound(Pass("psycopg", sql, values, one), sql, values,
              Of("colon") \union {i \in DOMAIN sql : sql[i].kind = "psycopg"})
    BY <2>1, <2>2, <2>3, PassBinds
  <2> QED
    BY <2>4 DEF Of
<1> QED
  BY <1>3, <1>5 DEF bind_query, one

\* Each marker refers to the value of its own name, equal names share a position,
\* and every argument has a marker.
LEMMA BindFacts ==
  ASSUME NEW X, NEW sql \in Seq(X), NEW values, DOMAIN values = extract_parameters(sql)
  PROVE  LET bound == bind_query(sql, values)
         IN  /\ \A i \in MarkersOf(sql) :
                  /\ bound.slots[i] \in DOMAIN bound.arguments
                  /\ bound.arguments[bound.slots[i]] = values[sql[i].name]
             /\ \A i, j \in MarkersOf(sql) :
                  bound.slots[i] = bound.slots[j] <=> sql[i].name = sql[j].name
             /\ \A k \in DOMAIN bound.arguments : \E i \in MarkersOf(sql) : bound.slots[i] = k
<1> DEFINE bound == bind_query(sql, values)
<1>1. Bound(bound, sql, values, MarkersOf(sql))
  BY BindBinds
<1> HIDE DEF bound
<1>2. DOMAIN bound.arguments = 1..Len(bound.arguments)
  <2>1. PICK V : bound.arguments \in Seq(V)
    BY <1>1 DEF Bound
  <2> QED
    BY <2>1
<1>3. \A i \in MarkersOf(sql) : /\ sql[i].name \in DOMAIN bound.positions
                                /\ bound.slots[i] = bound.positions[sql[i].name]
  BY <1>1 DEF Bound
<1>4. \A k \in DOMAIN bound.arguments : \E i \in MarkersOf(sql) : bound.slots[i] = k
  <2> SUFFICES ASSUME NEW k \in DOMAIN bound.arguments
               PROVE  \E i \in MarkersOf(sql) : bound.slots[i] = k
    OBVIOUS
  <2>1. PICK n \in DOMAIN bound.positions : bound.positions[n] = k
    BY <1>1, <1>2 DEF Bound
  <2>2. PICK i \in MarkersOf(sql) : sql[i].name = n
    BY <1>1 DEF Bound
  <2> QED
    BY <1>3, <2>1, <2>2
<1>5. \A i \in MarkersOf(sql) :
        /\ bound.slots[i] \in DOMAIN bound.arguments
        /\ bound.arguments[bound.slots[i]] = values[sql[i].name]
  BY <1>1, <1>2, <1>3 DEF Bound
<1>6. \A i, j \in MarkersOf(sql) : bound.slots[i] = bound.slots[j] <=> sql[i].name = sql[j].name
  BY <1>1, <1>3 DEF Bound
<1> QED
  BY <1>4, <1>5, <1>6 DEF bound

-----------------------------------------------------------------------------
(* The estimate of a plan.                                                 *)

IsPlan(p) ==
  /\ p.rows \in Seq(Int \union {None}) /\ p.rows # <<>> /\ p.cost \in Int \union {None}
  /\ \A k \in DOMAIN p.rows : /\ p.dict[k] \in BOOLEAN /\ p.list[k] \in BOOLEAN
                              /\ k > 1 => p.parent[k] \in 1..(k - 1)

LEMMA PlanFacts ==
  ASSUME NEW p, IsPlan(p)
  PROVE  /\ Len(p.rows) \in Nat \ {0} /\ DOMAIN p.rows = 1..Len(p.rows)
         /\ \A k \in 1..Len(p.rows) : p.rows[k] \in Int \union {None}
         /\ \A k : \A c \in Children(p, k) : /\ c \in 1..Len(p.rows) /\ c > k
                                             /\ p.parent[c] = k /\ p.dict[c]
<1>1. Len(p.rows) \in Nat \ {0} /\ DOMAIN p.rows = 1..Len(p.rows)
      /\ \A k \in 1..Len(p.rows) : p.rows[k] \in Int \union {None}
  BY DEF IsPlan
<1> QED
  BY <1>1 DEF Children

\* Some element of a finite set of numbers, given by its numbering, is maximal.
LEMMA MaxFacts ==
  ASSUME NEW R \in SUBSET Int, R # {}, IsFiniteSet(R)
  PROVE  Max(R) \in R /\ \A x \in R : x <= Max(R)
<1>1. PICK n \in Nat : ExistsSurjection(1..n, R)
  BY FS_NatSurjection
<1>2. PICK f \in [1..n -> R] : \A x \in R : \E i \in 1..n : f[i] = x
  BY <1>1 DEF ExistsSurjection, Surjection
<1> DEFINE Tops(m) == \E x \in R : \A i \in 1..n : i <= m => x >= f[i]
           T == {m \in Nat : Tops(m)}
<1>3. 0 \in T
  <2>1. \A i \in 1..n : ~(i <= 0)
    OBVIOUS
  <2> QED
    BY <2>1
<1>4. ASSUME NEW m \in Nat, m \in T PROVE m + 1 \in T
  <2>1. PICK x \in R : \A i \in 1..n : i <= m => x >= f[i]
    BY <1>4
  <2>2. CASE m + 1 \in 1..n /\ f[m + 1] > x
    <3>1. f[m + 1] \in R /\ f[m + 1] \in Int /\ x \in Int
      BY <2>2
    <3>2. ASSUME NEW i \in 1..n, i <= m + 1 PROVE f[m + 1] >= f[i]
      <4>1. f[i] \in Int
        OBVIOUS
      <4>2. i <= m \/ i = m + 1
        BY <3>2
      <4> QED
        BY <2>1, <2>2, <3>1, <4>1, <4>2
    <3> QED
      BY <3>1, <3>2
  <2>3. CASE ~(m + 1 \in 1..n /\ f[m + 1] > x)
    <3>1. ASSUME NEW i \in 1..n, i <= m + 1 PROVE x >= f[i]
      <4>1. f[i] \in Int /\ x \in Int
        OBVIOUS
      <4>2. i <= m \/ i = m + 1
        BY <3>1
      <4> QED
        BY <2>1, <2>3, <4>1, <4>2
    <3> QED
      BY <3>1
  <2> QED
    BY <2>2, <2>3
<1>5. Tops(n)
  <2> HIDE DEF T
  <2>1. Nat \subseteq T
    BY <1>3, <1>4, Induction
  <2> QED
    BY <2>1 DEF T
<1>6. \E x \in R : \A y \in R : x >= y
  BY <1>2, <1>5
<1>7. Max(R) \in R /\ \A y \in R : Max(R) >= y
  BY <1>6 DEF Max
<1>8. \A x, y \in R : x >= y => y <= x
  OBVIOUS
<1> QED
  BY <1>7, <1>8

\* _max_plan_rows satisfies the recursion it is written with.
LEMMA MostRecursion ==
  ASSUME NEW p, IsPlan(p)
  PROVE  \E most :
           /\ \A k \in 1..Len(p.rows) :
                most[k] = Max({p.rows[k]} \union {most[c] : c \in Children(p, k)})
           /\ _max_plan_rows(p) = most[1]
<1> DEFINE N == Len(p.rows)
           Turn(f, k) == Max({p.rows[k]} \union {f[c] : c \in Children(p, k)})
           Most(m, f) ==
             f = [k \in (N + 1 - m)..N |-> Max({p.rows[k]} \union {f[c] : c \in Children(p, k)})]
           T == {m \in Nat : m <= N => \E f : Most(m, f)}
<1>1. N \in Nat \ {0} /\ DOMAIN p.rows = 1..N
      /\ \A k : \A c \in Children(p, k) : c \in 1..N /\ c > k
  BY PlanFacts
<1> HIDE DEF N
<1>2. 0 \in T
  <2>1. (N + 1 - 0)..N = {}
    BY <1>1
  <2>2. Most(0, [k \in {} |-> 0])
    BY <2>1
  <2> QED
    BY <2>2
<1>3. ASSUME NEW m \in Nat, m \in T, m + 1 <= N PROVE \E f : Most(m + 1, f)
  <2>1. PICK f : Most(m, f)
    BY <1>1, <1>3
  <2>2. \A k \in (N + 1 - m)..N : f[k] = Turn(f, k)
    BY <2>1
  <2> DEFINE g == [k \in (N + 1 - (m + 1))..N |-> IF k >= N + 1 - m THEN f[k] ELSE Turn(f, k)]
             h == [k \in (N + 1 - (m + 1))..N |-> Turn(g, k)]
  <2>3. ASSUME NEW k \in (N + 1 - (m + 1))..N PROVE g[k] = h[k]
    <3>1. \A c \in Children(p, k) : c \in (N + 1 - m)..N /\ c >= N + 1 - m
      BY <1>1
    <3>2. \A c \in Children(p, k) : g[c] = f[c]
      BY <1>1, <3>1
    <3>3. h[k] = Turn(g, k)
      OBVIOUS
    <3>4. g[k] = IF k >= N + 1 - m THEN f[k] ELSE Turn(f, k)
      OBVIOUS
    <3> HIDE DEF g, h
    <3>5. {g[c] : c \in Children(p, k)} = {f[c] : c \in Children(p, k)}
      BY <3>2
    <3>6. Turn(g, k) = Turn(f, k)
      BY <3>5
    <3>7. k >= N + 1 - m => k \in (N + 1 - m)..N
      BY <1>1
    <3> HIDE DEF Turn
    <3> QED
      BY <2>2, <3>3, <3>4, <3>6, <3>7
  <2>4. /\ g = [k \in (N + 1 - (m + 1))..N |-> g[k]]
        /\ h = [k \in (N + 1 - (m + 1))..N |-> h[k]]
    OBVIOUS
  <2>5. g = h
    <3> HIDE DEF g, h
    <3> QED
      BY <2>3, <2>4
  <2> HIDE DEF g
  <2>6. Most(m + 1, g)
    BY <2>5
  <2> QED
    BY <2>6
<1>4. \E f : Most(N, f)
  <2> HIDE DEF Most
  <2>1. \A m \in Nat : m \in T => m + 1 \in T
    BY <1>3
  <2> HIDE DEF T
  <2>2. N \in T
    BY <1>1, <1>2, <2>1, Induction
  <2> QED
    BY <1>1, <2>2 DEF T
<1> DEFINE most == CHOOSE f : f = [k \in DOMAIN p.rows |-> Turn(f, k)]
<1>5. (N + 1 - N)..N = DOMAIN p.rows
  BY <1>1
<1>6. most = [k \in DOMAIN p.rows |-> Turn(most, k)]
  BY <1>4, <1>5
<1>7. _max_plan_rows(p) = most[1]
  BY DEF _max_plan_rows
<1> HIDE DEF most
<1>8. \A k \in 1..N : most[k] = Turn(most, k)
  BY <1>1, <1>6
<1> QED
  BY <1>7, <1>8 DEF N

\* Estimated satisfies the recursion it is written with.
LEMMA EstimatedRecursion ==
  ASSUME NEW p, IsPlan(p)
  PROVE  \E ok :
           /\ \A k \in 1..Len(p.rows) :
                ok[k] = (p.rows[k] # None /\ p.list[k] /\ \A c \in Children(p, k) : ok[c])
           /\ Estimated(p) <=> p.dict[1] /\ p.cost # None /\ ok[1]
<1> DEFINE N == Len(p.rows)
           Turn(f, k) == p.rows[k] # None /\ p.list[k] /\ \A c \in Children(p, k) : f[c]
           Ok(m, f) ==
             f = [k \in (N + 1 - m)..N |->
                    p.rows[k] # None /\ p.list[k] /\ \A c \in Children(p, k) : f[c]]
           T == {m \in Nat : m <= N => \E f : Ok(m, f)}
<1>1. N \in Nat \ {0} /\ DOMAIN p.rows = 1..N
      /\ \A k : \A c \in Children(p, k) : c \in 1..N /\ c > k
  BY PlanFacts
<1> HIDE DEF N
<1>2. 0 \in T
  <2>1. (N + 1 - 0)..N = {}
    BY <1>1
  <2>2. Ok(0, [k \in {} |-> 0])
    BY <2>1
  <2> QED
    BY <2>2
<1>3. ASSUME NEW m \in Nat, m \in T, m + 1 <= N PROVE \E f : Ok(m + 1, f)
  <2>1. PICK f : Ok(m, f)
    BY <1>1, <1>3
  <2>2. \A k \in (N + 1 - m)..N : f[k] = Turn(f, k)
    BY <2>1
  <2> DEFINE g == [k \in (N + 1 - (m + 1))..N |-> IF k >= N + 1 - m THEN f[k] ELSE Turn(f, k)]
             h == [k \in (N + 1 - (m + 1))..N |-> Turn(g, k)]
  <2>3. ASSUME NEW k \in (N + 1 - (m + 1))..N PROVE g[k] = h[k]
    <3>1. \A c \in Children(p, k) : c \in (N + 1 - m)..N /\ c >= N + 1 - m
      BY <1>1
    <3>2. \A c \in Children(p, k) : g[c] = f[c]
      BY <1>1, <3>1
    <3>3. h[k] = Turn(g, k)
      OBVIOUS
    <3>4. g[k] = IF k >= N + 1 - m THEN f[k] ELSE Turn(f, k)
      OBVIOUS
    <3> HIDE DEF g, h
    <3>5. Turn(g, k) = Turn(f, k)
      BY <3>2
    <3>6. k >= N + 1 - m => k \in (N + 1 - m)..N
      BY <1>1
    <3> HIDE DEF Turn
    <3> QED
      BY <2>2, <3>3, <3>4, <3>5, <3>6
  <2>4. /\ g = [k \in (N + 1 - (m + 1))..N |-> g[k]]
        /\ h = [k \in (N + 1 - (m + 1))..N |-> h[k]]
    OBVIOUS
  <2>5. g = h
    <3> HIDE DEF g, h
    <3> QED
      BY <2>3, <2>4
  <2> HIDE DEF g
  <2>6. Ok(m + 1, g)
    BY <2>5
  <2> QED
    BY <2>6
<1>4. \E f : Ok(N, f)
  <2> HIDE DEF Ok
  <2>1. \A m \in Nat : m \in T => m + 1 \in T
    BY <1>3
  <2> HIDE DEF T
  <2>2. N \in T
    BY <1>1, <1>2, <2>1, Induction
  <2> QED
    BY <1>1, <2>2 DEF T
<1> DEFINE ok == CHOOSE f : f = [k \in DOMAIN p.rows |-> Turn(f, k)]
<1>5. (N + 1 - N)..N = DOMAIN p.rows
  BY <1>1
<1>6. ok = [k \in DOMAIN p.rows |-> Turn(ok, k)]
  BY <1>4, <1>5
<1>7. Estimated(p) <=> p.dict[1] /\ p.cost # None /\ ok[1]
  BY DEF Estimated
<1> HIDE DEF ok
<1>8. \A k \in 1..N : ok[k] = Turn(ok, k)
  BY <1>1, <1>6
<1> QED
  BY <1>7, <1>8 DEF N

\* The nodes that are counted exist: from the root down, a parent comes first.
LEMMA CountedFacts ==
  ASSUME NEW p, IsPlan(p)
  PROVE  /\ Counted(p) \subseteq DOMAIN p.rows
         /\ \A k \in DOMAIN p.rows :
              k \in Counted(p) <=> p.dict[k] /\ (k = 1 \/ p.parent[k] \in Counted(p))
<1> DEFINE N == Len(p.rows)
           Closed(m, S) == \A k \in 1..m : k \in S <=> p.dict[k] /\ (k = 1 \/ p.parent[k] \in S)
           T == {m \in Nat : m <= N => \E S \in SUBSET (1..m) : Closed(m, S)}
<1>1. N \in Nat \ {0} /\ DOMAIN p.rows = 1..N
      /\ \A k \in 1..N : p.dict[k] \in BOOLEAN /\ (k > 1 => p.parent[k] \in 1..(k - 1))
  BY PlanFacts DEF IsPlan
<1> HIDE DEF N
<1>2. 0 \in T
  <2>1. Closed(0, {}) /\ {} \in SUBSET (1..0)
    OBVIOUS
  <2> HIDE DEF Closed
  <2> QED
    BY <2>1
<1>3. ASSUME NEW m \in Nat, m \in T, m + 1 <= N
      PROVE  \E S \in SUBSET (1..(m + 1)) : Closed(m + 1, S)
  <2>1. PICK S \in SUBSET (1..m) : Closed(m, S)
    BY <1>1, <1>3
  <2> DEFINE new == m + 1
             U == S \union {k \in {new} : p.dict[k] /\ (k = 1 \/ p.parent[k] \in S)}
  <2>2. U \in SUBSET (1..(m + 1)) /\ new \notin S /\ new \in 1..N
    <3>1. new \in 1..(m + 1) /\ new \notin 1..m /\ 1..m \subseteq 1..(m + 1) /\ new \in 1..N
      BY <1>1, <1>3
    <3> HIDE DEF new
    <3> QED
      BY <3>1
  <2>3. ASSUME NEW k \in 1..(m + 1)
        PROVE  k \in U <=> p.dict[k] /\ (k = 1 \/ p.parent[k] \in U)
    <3>1. k = 1 \/ (k > 1 /\ p.parent[k] \in 1..m)
      BY <1>1, <1>3
    <3>2. \A j \in 1..m : j # new /\ (j \in U <=> j \in S)
      OBVIOUS
    <3>3. k \in 1..m \/ k = new
      OBVIOUS
    <3>4. new \in U <=> p.dict[new] /\ (new = 1 \/ p.parent[new] \in S)
      BY <2>2
    <3> HIDE DEF U, new
    <3> QED
      BY <2>1, <3>1, <3>2, <3>3, <3>4
  <2> HIDE DEF U
  <2> QED
    BY <2>2, <2>3
<1>4. \E S \in SUBSET (1..N) : Closed(N, S)
  <2> HIDE DEF Closed
  <2>1. \A m \in Nat : m \in T => m + 1 \in T
    BY <1>3
  <2> HIDE DEF T
  <2>2. N \in T
    BY <1>1, <1>2, <2>1, Induction
  <2> QED
    BY <1>1, <2>2 DEF T
<1>5. Counted(p) = CHOOSE S \in SUBSET (1..N) : Closed(N, S)
  BY <1>1 DEF Counted
<1>6. Counted(p) \in SUBSET (1..N) /\ Closed(N, Counted(p))
  <2> HIDE DEF Closed
  <2> QED
    BY <1>4, <1>5
<1> QED
  BY <1>1, <1>6

\* The estimate is that of a counted node, and of the largest.
LEMMA EstimateFacts ==
  ASSUME NEW p, IsPlan(p), Estimated(p)
  PROVE  /\ \A k \in Counted(p) : /\ p.rows[k] \in Int /\ p.rows[k] # None
                                  /\ p.rows[k] <= _max_plan_rows(p)
         /\ \E k \in Counted(p) : p.rows[k] = _max_plan_rows(p)
         /\ _max_plan_rows(p) \in Int
         /\ p.cost \in Int /\ p.cost # None
<1> DEFINE N == Len(p.rows)
           C == Counted(p)
<1>1. PICK most : /\ \A k \in 1..N :
                       most[k] = Max({p.rows[k]} \union {most[c] : c \in Children(p, k)})
                  /\ _max_plan_rows(p) = most[1]
  BY MostRecursion
<1>2. PICK ok : /\ \A k \in 1..N :
                     ok[k] = (p.rows[k] # None /\ p.list[k] /\ \A c \in Children(p, k) : ok[c])
                /\ Estimated(p) <=> p.dict[1] /\ p.cost # None /\ ok[1]
  BY EstimatedRecursion
<1>3. /\ N \in Nat \ {0} /\ DOMAIN p.rows = 1..N
      /\ \A k \in 1..N : p.rows[k] \in Int \union {None}
      /\ \A k : Children(p, k) \subseteq 1..N /\ \A c \in Children(p, k) : c > k
  BY PlanFacts
<1>4. \A k \in DOMAIN p.rows : p.dict[k] \in BOOLEAN /\ (k > 1 => p.parent[k] \in 1..(k - 1))
  BY DEF IsPlan
<1>5. C \subseteq 1..N /\ 1 \in C
  <2>1. p.dict[1] /\ 1 \in DOMAIN p.rows
    BY <1>2, <1>3
  <2> QED
    BY <1>3, <2>1, CountedFacts
<1>6. \A k \in C : Children(p, k) \subseteq C
  BY <1>3, CountedFacts DEF Children
<1>7. ASSUME NEW k \in C, k # 1
      PROVE  p.parent[k] \in C /\ p.parent[k] \in 1..(k - 1) /\ k \in Children(p, p.parent[k])
  <2>1. k \in 1..N /\ k > 1 /\ p.dict[k] /\ p.parent[k] \in C /\ p.parent[k] \in 1..(k - 1)
    BY <1>3, <1>4, <1>5, <1>7, CountedFacts
  <2>2. k > p.parent[k]
    BY <2>1
  <2> QED
    BY <1>3, <2>1, <2>2 DEF Children
<1> HIDE DEF N, C
<1>8. \A k \in C : p.rows[k] # None /\ \A c \in Children(p, k) : ok[c]
  <2> DEFINE Read(k) == p.rows[k] # None /\ \A c \in Children(p, k) : ok[c]
             T == {m \in Nat : \A k \in C : k <= m => Read(k)}
  <2>1. 0 \in T
    BY <1>3, <1>5
  <2>2. ASSUME NEW m \in Nat, m \in T PROVE m + 1 \in T
    <3> SUFFICES ASSUME NEW k \in C, k <= m + 1 PROVE Read(k)
      OBVIOUS
    <3>1. k \in 1..N
      BY <1>5
    <3>2. CASE k = 1
      BY <1>2, <3>1, <3>2
    <3>3. CASE k # 1
      <4>1. p.parent[k] \in C /\ p.parent[k] <= m /\ k \in Children(p, p.parent[k])
        BY <1>7, <3>1, <3>3
      <4>2. ok[k]
        BY <2>2, <4>1
      <4> QED
        BY <1>2, <3>1, <4>2
    <3> QED
      BY <3>2, <3>3
  <2> HIDE DEF Read
  <2>3. N \in T
    <3> HIDE DEF T
    <3>1. Nat \subseteq T
      BY <2>1, <2>2, Induction
    <3> QED
      BY <1>3, <3>1
  <2>4. \A k \in C : Read(k)
    BY <1>5, <1>3, <2>3
  <2> QED
    BY <2>4 DEF Read
<1>9. \A k \in C : p.rows[k] \in Int
  BY <1>3, <1>5, <1>8
<1> DEFINE Topped(k) == /\ most[k] \in Int /\ p.rows[k] <= most[k]
                        /\ \A c \in Children(p, k) : most[c] <= most[k]
                        /\ \E j \in C : p.rows[j] = most[k]
<1>10. \A k \in C : Topped(k)
  <2> DEFINE T == {m \in Nat : \A k \in C : k > N - m => Topped(k)}
  <2>1. 0 \in T
    BY <1>3, <1>5
  <2>2. ASSUME NEW m \in Nat, m \in T PROVE m + 1 \in T
    <3> SUFFICES ASSUME NEW k \in C, k > N - (m + 1) PROVE Topped(k)
      OBVIOUS
    <3> DEFINE S == {p.rows[k]} \union {most[c] : c \in Children(p, k)}
    <3>1. k \in 1..N /\ p.rows[k] \in Int /\ most[k] = Max(S)
      BY <1>1, <1>5, <1>9
    <3>2. \A c \in Children(p, k) : c \in C /\ c > N - m
      BY <1>3, <1>5, <1>6, <3>1
    <3>3. \A c \in Children(p, k) : most[c] \in Int /\ \E j \in C : p.rows[j] = most[c]
      BY <2>2, <3>2
    <3>4. Children(p, k) \in SUBSET (1..N) /\ N \in Nat
      BY <1>3
    <3>5. Max(S) \in S /\ Max(S) \in Int /\ \A x \in S : x <= Max(S)
      <4> DEFINE D == Children(p, k)
                 E == {most[c] : c \in D}
                 g == [c \in D |-> most[c]]
      <4>1. IsFiniteSet(D)
        <5>1. IsFiniteSet(1..N)
          BY <3>4, FS_Interval
        <5> HIDE DEF D
        <5> QED
          BY <3>4, <5>1, FS_Subset DEF D
      <4>2. g \in Surjection(D, E)
        BY DEF Surjection
      <4>3. IsFiniteSet(E)
        <5> HIDE DEF D, E, g
        <5> QED
          BY <4>1, <4>2, FS_Surjection
      <4>4. E \subseteq Int /\ S = E \union {p.rows[k]} /\ p.rows[k] \in S
        BY <3>1, <3>3
      <4> HIDE DEF D, E, g, S
      <4>5. IsFiniteSet(S) /\ S \subseteq Int /\ S # {}
        BY <3>1, <4>3, <4>4, FS_AddElement
      <4> QED
        BY <4>5, MaxFacts
    <3>6. \E j \in C : p.rows[j] = Max(S)
      BY <3>3, <3>5
    <3> QED
      BY <3>1, <3>5, <3>6
  <2> HIDE DEF Topped
  <2>3. N \in T
    <3> HIDE DEF T
    <3>1. Nat \subseteq T
      BY <2>1, <2>2, Induction
    <3> QED
      BY <1>3, <3>1
  <2>4. \A k \in C : k > N - N
    BY <1>3, <1>5
  <2> QED
    BY <2>3, <2>4
<1>11. \A k \in C : most[k] <= most[1]
  <2> DEFINE T == {m \in Nat : \A k \in C : k <= m => most[k] <= most[1]}
  <2>1. 0 \in T
    BY <1>3, <1>5
  <2>2. ASSUME NEW m \in Nat, m \in T PROVE m + 1 \in T
    <3> SUFFICES ASSUME NEW k \in C, k <= m + 1 PROVE most[k] <= most[1]
      OBVIOUS
    <3>1. k \in 1..N /\ most[k] \in Int /\ most[1] \in Int
      BY <1>5, <1>10
    <3>2. CASE k = 1
      BY <3>1, <3>2
    <3>3. CASE k # 1
      <4>1. p.parent[k] \in C /\ p.parent[k] <= m /\ k \in Children(p, p.parent[k])
        BY <1>7, <3>1, <3>3
      <4>2. most[k] <= most[p.parent[k]] /\ most[p.parent[k]] \in Int
        BY <1>10, <4>1
      <4>3. most[p.parent[k]] <= most[1]
        BY <2>2, <4>1
      <4> QED
        BY <3>1, <4>2, <4>3
    <3> QED
      BY <3>2, <3>3
  <2>3. N \in T
    <3> HIDE DEF T
    <3>1. Nat \subseteq T
      BY <2>1, <2>2, Induction
    <3> QED
      BY <1>3, <3>1
  <2> QED
    BY <1>3, <1>5, <2>3
<1>12. ASSUME NEW k \in C PROVE p.rows[k] \in Int /\ p.rows[k] <= most[1]
  <2>1. p.rows[k] \in Int /\ most[k] \in Int /\ most[1] \in Int
    BY <1>5, <1>9, <1>10
  <2>2. p.rows[k] <= most[k] /\ most[k] <= most[1]
    BY <1>10, <1>11
  <2> QED
    BY <2>1, <2>2
<1>13. p.cost \in Int /\ p.cost # None
  BY <1>2 DEF IsPlan
<1> QED
  BY <1>1, <1>5, <1>8, <1>10, <1>12, <1>13 DEF C

-----------------------------------------------------------------------------
(* The inductive invariant: each step's result is kept, and what it was    *)
(* computed from is not touched again.                                     *)

\* The request is one of those there may be.
RequestInv ==
  \E s \in Situations :
    ranked = s.ranked /\ role = s.role /\ prompt = s.prompt /\ selector = s.selector

\* stage and by, and the check that never refuses.
StageInv ==
  /\ stage \in {"search", "select", "fill", "execute", "explain", "fetch", "refused"}
  /\ by \in (Checks \ {"bind"}) \union {None}
  /\ stage = "refused" <=> by # None

\* The candidates are what the policy left of a search.
CandidatesInv ==
  IF stage = "search" THEN candidates = <<>>
  ELSE \E found \in {Sorted(role, ranked), Indexed(role, ranked)} :
         candidates = _apply_demo_detail_policy(prompt, found)

\* The record is a candidate, the deterministic selector's the one it computes; and
\* that selector finds none only among no candidates.
RecordInv ==
  /\ stage \in {"search", "select"} \/ by = "candidates" => record = None
  /\ ~(stage \in {"search", "select"} \/ by = "candidates") =>
       /\ record \in ToSet(candidates)
       /\ selector = "deterministic" => record = Deterministic(prompt, candidates)
  /\ by = "candidates" /\ selector = "deterministic" => candidates = <<>>

\* An object of values, whether from a prompt or from Claude.
IsObject(values) ==
  /\ IsFiniteSet(DOMAIN values)
  /\ \A name \in DOMAIN values : values[name].is \in Int \union {NaN}

ParametersInv ==
  /\ parameters = None \/ IsObject(parameters)
  /\ stage = "execute" \/ Sent => IsObject(parameters)

\* What was sent has passed every check, and the arguments are of its parameters; and
\* what the check of the role refused does not pass it.
SentInv ==
  /\ Sent =>
       /\ can_access(role, record.minRole)
       /\ validate_approved_sql(record)
       /\ validate_parameter_values(record.specs, parameters)
       /\ statement = bind_query(record.sql, parameters)
  /\ by = "access" => ~can_access(role, record.minRole)

\* The plan is one of the statement sent, and its estimate has decided.
PlanInv ==
  /\ stage \notin {"fetch", "refused"} => plan = None
  /\ plan # None => plan \in Plans[record.sql]
  /\ stage = "fetch" \/ by = "budget" => plan \in Plans[record.sql] /\ Estimated(plan)
  /\ stage = "fetch" => ~OverBudget(plan)
  /\ by = "budget" => OverBudget(plan)

IndInv ==
  /\ RequestInv /\ StageInv /\ CandidatesInv /\ RecordInv
  /\ ParametersInv /\ SentInv /\ PlanInv

\* The search offers what the role may use, no more of it than the limit.
LEMMA CandidatesFacts ==
  ASSUME RequestInv, CandidatesInv
  PROVE  /\ ranked \in Seq(Rows) /\ role \in Role /\ prompt \subseteq Words
         /\ selector \in {"claude", "deterministic"}
         /\ candidates \in Seq(Rows) /\ Len(candidates) <= Limit
         /\ ToSet(candidates) \subseteq Accessible(role)
<1>1. /\ ranked \in Seq(Rows) /\ role \in Role /\ prompt \subseteq Words
      /\ selector \in {"claude", "deterministic"}
  BY SituationsAssumption DEF RequestInv
<1>2. CASE candidates = <<>>
  <2>1. candidates \in Seq(Rows) /\ Len(candidates) = 0 /\ ToSet(candidates) = {}
    BY <1>2 DEF ToSet
  <2> QED
    BY <1>1, <2>1, SituationsAssumption
<1>3. CASE candidates # <<>>
  <2>1. PICK found \in {Sorted(role, ranked), Indexed(role, ranked)} :
          candidates = _apply_demo_detail_policy(prompt, found)
    BY <1>3 DEF CandidatesInv
  <2>2. found \in Seq(Rows) /\ Len(found) <= Limit /\ ToSet(found) \subseteq Accessible(role)
    BY <1>1, SearchFacts
  <2>3. /\ candidates \in Seq(Rows) /\ Len(candidates) <= Len(found)
        /\ ToSet(candidates) \subseteq ToSet(found)
    BY <2>1, <2>2, PolicyFacts
  <2>4. Len(candidates) <= Limit
    BY <2>2, <2>3, SituationsAssumption
  <2> QED
    BY <1>1, <2>2, <2>3, <2>4
<1> QED
  BY <1>2, <1>3

\* A candidate is a row whose level its role reaches.
LEMMA RecordFacts ==
  ASSUME RequestInv, CandidatesInv, record \in ToSet(candidates)
  PROVE  record \in Rows /\ record.minRoleLevel <= ROLE_ACCESS[role]
BY CandidatesFacts DEF Accessible

\* What _coerce makes of a word is a number or a length, or a NaN.
LEMMA CoerceFacts ==
  ASSUME NEW text \in Texts, NEW spec, _coerce(text, spec) # None
  PROVE  _coerce(text, spec).is \in Int \union {NaN}
<1>1. text.number \in Int /\ text.length \in Int /\ 0 \in Int /\ 1 \in Int
  BY ValuesAssumption
<1>2. \A type, is : Value(type, is).is = is
  BY DEF Value
<1>3. AsString(text).is = text.length
  BY DEF AsString, Value
<1> QED
  BY <1>1, <1>2, <1>3 DEF _coerce

\* The deterministic selector fills in an object.
LEMMA FilledInFacts ==
  ASSUME NEW rec \in Rows, NEW wording \in Wordings(rec), NEW values \in FilledIn(wording, rec)
  PROVE  IsObject(values)
<1>1. values = [name \in DOMAIN rec.specs |-> Found(wording, name, rec.specs[name])]
      /\ \A name \in DOMAIN values : values[name] # None
  BY DEF FilledIn
<1>2. IsFiniteSet(DOMAIN values)
  BY <1>1, RecordsAssumption
<1>3. ASSUME NEW name \in DOMAIN values PROVE values[name].is \in Int \union {NaN}
  <2> DEFINE spec == rec.specs[name]
  <2>1. name \in DOMAIN rec.specs /\ values[name] = Found(wording, name, spec)
        /\ values[name] # None
    BY <1>1
  <2>2. wording.named[name] \in Texts \union {None} /\ wording.spotted \in Texts \union {None}
    BY <2>1 DEF Wordings
  <2> HIDE DEF spec
  <2>3. CASE wording.named[name] # None
    <3>1. values[name] = _coerce(wording.named[name], spec)
      BY <2>1, <2>3 DEF Found
    <3> QED
      BY <2>1, <2>2, <2>3, <3>1, CoerceFacts
  <2>4. CASE wording.named[name] = None /\ name \in {"cve_id", "severity"}
             /\ wording.spotted # None
    <3>1. values[name] = AsString(wording.spotted)
      BY <2>1, <2>4 DEF Found
    <3>2. wording.spotted.length \in Int
      BY <2>2, <2>4, ValuesAssumption
    <3> QED
      BY <3>1, <3>2 DEF AsString, Value
  <2>5. CASE wording.named[name] = None
             /\ ~(name \in {"cve_id", "severity"} /\ wording.spotted # None)
    <3>1. Typed(spec) /\ values[name] = spec.default
      BY <2>1, <2>5 DEF Found
    <3>2. spec # None /\ spec.default # None
      BY <2>1, <3>1 DEF Typed
    <3>3. spec.default.is \in Int
      BY <2>1, <3>2, RecordsAssumption DEF spec
    <3> QED
      BY <3>1, <3>3
  <2> QED
    BY <2>3, <2>4, <2>5
<1> QED
  BY <1>2, <1>3 DEF IsObject

LEMMA InitIndInv == Init => IndInv
<1> SUFFICES ASSUME Init PROVE IndInv
  OBVIOUS
<1> USE DEF Init, ChoiceInit
<1>1. None # "candidates" /\ None # "encoding" /\ None # "plan" /\ None # "budget"
  BY SituationsAssumption DEF Checks
<1>2. RequestInv
  BY DEF RequestInv
<1>3. StageInv
  BY DEF StageInv
<1>4. CandidatesInv
  BY DEF CandidatesInv
<1>5. RecordInv
  BY <1>1 DEF RecordInv
<1>6. ~Sent
  BY <1>1 DEF Sent
<1>7. ParametersInv /\ SentInv
  BY <1>1, <1>6, SituationsAssumption DEF ParametersInv, SentInv, Checks
<1>8. PlanInv
  BY <1>1 DEF PlanInv
<1> QED
  BY <1>2, <1>3, <1>4, <1>5, <1>7, <1>8 DEF IndInv


\* Until it is refused, a request has failed no check.
LEMMA InProgress ==
  ASSUME StageInv, stage # "refused"
  PROVE  by = None /\ by \notin Checks
BY SituationsAssumption DEF StageInv

\* Nothing that happens to the selected query disturbs its choice.
LEMMA ChoiceKept ==
  ASSUME IndInv, UNCHANGED choice, stage \notin {"search", "select", "refused"},
         stage' \notin {"search", "select"}, by' # "candidates"
  PROVE  RequestInv' /\ CandidatesInv' /\ RecordInv'
<1>1. UNCHANGED <<ranked, role, prompt, selector, candidates, record>>
  BY DEF choice, request
<1>2. by # "candidates"
  BY InProgress DEF IndInv, Checks
<1>3. RequestInv'
  BY <1>1 DEF IndInv, RequestInv
<1>4. CandidatesInv'
  BY <1>1 DEF IndInv, CandidatesInv
<1>5. RecordInv'
  BY <1>1, <1>2 DEF IndInv, RecordInv
<1> QED
  BY <1>3, <1>4, <1>5

\* A check that refuses leaves what was computed before it.
LEMMA RefusalKept ==
  ASSUME IndInv, UNCHANGED <<choice, parameters, statement>>, NEW check, Refuse(check),
         check \in Checks \ {"candidates", "bind"},
         check = "access" => ~can_access(role, record.minRole),
         stage \notin {"search", "select", "refused"},
         check \in {"encoding", "plan", "budget"} => stage = "explain"
  PROVE  /\ RequestInv' /\ StageInv' /\ CandidatesInv' /\ RecordInv'
         /\ ParametersInv' /\ SentInv'
<1>1. stage' = "refused" /\ by' = check
  BY DEF Refuse
<1>2. RequestInv' /\ CandidatesInv' /\ RecordInv'
  BY <1>1, ChoiceKept
<1>3. StageInv'
  BY <1>1, SituationsAssumption DEF StageInv
<1>4. record' = record /\ role' = role
  BY DEF choice, request
<1>5. Sent' => Sent
  BY <1>1 DEF Sent
<1>6. ParametersInv'
  BY <1>1, <1>5 DEF IndInv, ParametersInv
<1>7. SentInv'
  BY <1>1, <1>4, <1>5 DEF IndInv, SentInv
<1> QED
  BY <1>2, <1>3, <1>6, <1>7

\* No plan is there before EXPLAIN has returned one.
LEMMA NoPlanKept ==
  ASSUME IndInv, UNCHANGED plan, stage \notin {"fetch", "refused"}, stage' # "fetch",
         by' # "budget"
  PROVE  PlanInv'
BY DEF IndInv, PlanInv

LEMMA ChooseKeeps == ASSUME IndInv, Choose PROVE IndInv'
<1> USE DEF IndInv
<1>1. CASE SearchReturns
  <2>1. /\ stage = "search" /\ stage' = "select" /\ by' = by /\ by = None /\ by \notin Checks
        /\ UNCHANGED <<ranked, role, prompt, selector, record, parameters, statement, plan>>
    BY <1>1, InProgress DEF SearchReturns, Choose, request
  <2>2. RequestInv' /\ StageInv'
    BY <2>1 DEF RequestInv, StageInv
  <2>3. CandidatesInv'
    BY <1>1, <2>1 DEF SearchReturns, CandidatesInv
  <2>4. RecordInv'
    BY <2>1 DEF RecordInv, Checks
  <2>5. ~Sent'
    BY <2>1 DEF Sent, Checks
  <2>6. ParametersInv' /\ SentInv'
    BY <2>1, <2>5 DEF ParametersInv, SentInv
  <2>7. PlanInv'
    BY <2>1, NoPlanKept DEF Checks
  <2> QED
    BY <2>2, <2>3, <2>4, <2>6, <2>7
<1>2. CASE Select
  <2>1. /\ stage = "select" /\ stage' = "fill" /\ by' = by /\ by = None /\ by \notin Checks
        /\ UNCHANGED <<ranked, role, prompt, selector, candidates, parameters, statement, plan>>
    BY <1>2, InProgress DEF Select, Choose, request
  <2>2. RequestInv' /\ StageInv'
    BY <2>1 DEF RequestInv, StageInv
  <2>3. CandidatesInv'
    BY <2>1 DEF CandidatesInv
  <2>4. candidates \in Seq(Rows) /\ candidates # <<>> /\ selector \in {"claude", "deterministic"}
    BY <1>2, CandidatesFacts DEF Select
  <2>5. Deterministic(prompt, candidates) \in ToSet(candidates)
    BY <2>4, DeterministicFacts
  <2>6. /\ record' \in ToSet(candidates)
        /\ selector = "deterministic" => record' = Deterministic(prompt, candidates)
    BY <1>2, <2>4, <2>5 DEF Select
  <2>7. RecordInv'
    BY <2>1, <2>6 DEF RecordInv, Checks
  <2>8. ~Sent'
    BY <2>1 DEF Sent, Checks
  <2>9. ParametersInv' /\ SentInv'
    BY <2>1, <2>8 DEF ParametersInv, SentInv, Checks
  <2>10. PlanInv'
    BY <2>1, NoPlanKept DEF Checks
  <2> QED
    BY <2>2, <2>3, <2>7, <2>9, <2>10
<1>3. CASE SelectNone
  <2>1. /\ stage = "select" /\ stage' = "refused" /\ by' = "candidates" /\ by \notin Checks
        /\ UNCHANGED <<ranked, role, prompt, selector, candidates, record>>
        /\ UNCHANGED <<parameters, statement, plan>>
        /\ selector = "claude" \/ candidates = <<>>
    BY <1>3, InProgress DEF SelectNone, Refuse, Choose, choice, request
  <2>2. RequestInv' /\ StageInv'
    BY <2>1, SituationsAssumption DEF RequestInv, StageInv, Checks
  <2>3. CandidatesInv'
    BY <2>1 DEF CandidatesInv
  <2>4. RecordInv'
    BY <2>1 DEF RecordInv
  <2>5. ~Sent'
    BY <2>1 DEF Sent
  <2>6. ParametersInv' /\ SentInv'
    BY <2>1, <2>5 DEF ParametersInv, SentInv
  <2>7. PlanInv'
    BY <2>1, NoPlanKept
  <2> QED
    BY <2>2, <2>3, <2>4, <2>6, <2>7
<1> QED
  BY <1>1, <1>2, <1>3 DEF Choose, ChoiceNext

LEMMA FillKeeps == ASSUME IndInv, FillFromPrompt \/ FillByModel PROVE IndInv'
<1>1. /\ stage = "fill" /\ stage' = "execute" /\ by' = by /\ by \notin Checks
      /\ UNCHANGED <<choice, statement, plan>>
  BY InProgress DEF FillFromPrompt, FillByModel, IndInv
<1>2. RequestInv' /\ CandidatesInv' /\ RecordInv'
  BY <1>1, ChoiceKept DEF Checks
<1>3. StageInv'
  BY <1>1 DEF IndInv, StageInv
<1>4. record \in Rows
  BY <1>1, RecordFacts DEF IndInv, RecordInv, Checks
<1>5. IsObject(parameters')
  <2>1. CASE FillFromPrompt
    BY <1>4, <2>1, FilledInFacts DEF FillFromPrompt
  <2>2. CASE FillByModel
    <3>1. parameters' \in Offers[DOMAIN record.specs] /\ DOMAIN record.specs \in DOMAIN Offers
      BY <1>4, <2>2, RecordsAssumption DEF FillByModel
    <3> QED
      BY <3>1, ValuesAssumption DEF IsObject
  <2> QED
    BY <2>1, <2>2
<1>6. ~Sent'
  BY <1>1 DEF Sent, Checks
<1>7. ParametersInv' /\ SentInv'
  BY <1>1, <1>5, <1>6 DEF ParametersInv, SentInv, Checks
<1>8. PlanInv'
  BY <1>1, NoPlanKept DEF Checks
<1> QED
  BY <1>2, <1>3, <1>7, <1>8 DEF IndInv

LEMMA FillInVainKeeps == ASSUME IndInv, FillInVain PROVE IndInv'
<1>1. /\ stage = "fill" /\ Refuse("parameters")
      /\ UNCHANGED <<choice, parameters, statement, plan>>
  BY DEF FillInVain
<1>2. /\ RequestInv' /\ StageInv' /\ CandidatesInv' /\ RecordInv'
      /\ ParametersInv' /\ SentInv'
  BY <1>1, RefusalKept DEF Checks
<1>3. PlanInv'
  BY <1>1, NoPlanKept DEF Refuse
<1> QED
  BY <1>2, <1>3 DEF IndInv

\* A refusal of the access check is that of a role below min_role.
LEMMA RefuseStatementKeeps == ASSUME IndInv, RefuseStatement PROVE IndInv'
<1>1. stage = "execute" /\ UNCHANGED <<choice, parameters, statement, plan>>
  BY DEF RefuseStatement
<1>2. PICK check \in {"access", "sql", "hash"} :
        Refuse(check) /\ (check = "access" => ~can_access(role, record.minRole))
  BY DEF RefuseStatement
<1>3. /\ RequestInv' /\ StageInv' /\ CandidatesInv' /\ RecordInv'
      /\ ParametersInv' /\ SentInv'
  BY <1>1, <1>2, RefusalKept DEF Checks
<1>4. PlanInv'
  BY <1>1, <1>2, NoPlanKept DEF Refuse
<1> QED
  BY <1>3, <1>4 DEF IndInv

LEMMA RefuseValuesKeeps == ASSUME IndInv, RefuseValues PROVE IndInv'
<1>1. /\ stage = "execute" /\ Refuse("values")
      /\ UNCHANGED <<choice, parameters, statement, plan>>
  BY DEF RefuseValues
<1>2. /\ RequestInv' /\ StageInv' /\ CandidatesInv' /\ RecordInv'
      /\ ParametersInv' /\ SentInv'
  BY <1>1, RefusalKept DEF Checks
<1>3. PlanInv'
  BY <1>1, NoPlanKept DEF Refuse
<1> QED
  BY <1>2, <1>3 DEF IndInv

\* The statement and the values agree with the declarations, hence with each other:
\* bind_query's comparison does not refuse.
LEMMA BindKeeps == ASSUME IndInv, Bind PROVE IndInv'
<1>1. /\ stage = "execute" /\ by \notin Checks /\ UNCHANGED <<choice, parameters, plan>>
      /\ can_access(role, record.minRole)
      /\ validate_approved_sql(record) /\ validate_parameter_values(record.specs, parameters)
  BY InProgress DEF Bind, Approved, IndInv
<1>2. DOMAIN parameters = extract_parameters(record.sql)
  BY <1>1 DEF validate_approved_sql, validate_parameter_values
<1>3. stage' = "explain" /\ by' = by /\ statement' = bind_query(record.sql, parameters)
  BY <1>2 DEF Bind
<1>4. RequestInv' /\ CandidatesInv' /\ RecordInv'
  BY <1>1, <1>3, ChoiceKept DEF Checks
<1>5. StageInv'
  BY <1>1, <1>3 DEF IndInv, StageInv
<1>6. IsObject(parameters)
  BY <1>1 DEF IndInv, ParametersInv
<1>7. ParametersInv'
  BY <1>1, <1>6 DEF ParametersInv
<1>8. record' = record /\ role' = role
  BY <1>1 DEF choice, request
<1>9. SentInv'
  BY <1>1, <1>3, <1>8 DEF SentInv, Checks
<1>10. PlanInv'
  BY <1>1, <1>3, NoPlanKept DEF Checks
<1> QED
  BY <1>4, <1>5, <1>7, <1>9, <1>10 DEF IndInv

LEMMA EncodingFailsKeeps == ASSUME IndInv, EncodingFails PROVE IndInv'
<1>1. /\ stage = "explain" /\ Refuse("encoding")
      /\ UNCHANGED <<choice, parameters, statement, plan>>
  BY DEF EncodingFails
<1>2. /\ RequestInv' /\ StageInv' /\ CandidatesInv' /\ RecordInv'
      /\ ParametersInv' /\ SentInv'
  BY <1>1, RefusalKept DEF Checks
<1>3. PlanInv'
  BY <1>1, NoPlanKept DEF Refuse
<1> QED
  BY <1>2, <1>3 DEF IndInv

LEMMA ExplainKeeps == ASSUME IndInv, Explain PROVE IndInv'
<1>1. /\ stage = "explain" /\ by \notin Checks /\ UNCHANGED <<choice, parameters, statement>>
      /\ plan' \in Plans[record.sql] /\ record' = record /\ role' = role
  BY InProgress DEF Explain, IndInv, choice, request
<1>2. CASE ~Estimated(plan')
  <2>1. Refuse("plan")
    BY <1>2 DEF Explain
  <2>2. /\ RequestInv' /\ StageInv' /\ CandidatesInv' /\ RecordInv'
        /\ ParametersInv' /\ SentInv'
    BY <1>1, <2>1, RefusalKept DEF Checks
  <2>3. PlanInv'
    BY <1>1, <2>1 DEF PlanInv, Refuse
  <2> QED
    BY <2>2, <2>3 DEF IndInv
<1>3. CASE Estimated(plan') /\ OverBudget(plan')
  <2>1. Refuse("budget")
    BY <1>3 DEF Explain
  <2>2. /\ RequestInv' /\ StageInv' /\ CandidatesInv' /\ RecordInv'
        /\ ParametersInv' /\ SentInv'
    BY <1>1, <2>1, RefusalKept DEF Checks
  <2>3. PlanInv'
    BY <1>1, <1>3, <2>1 DEF PlanInv, Refuse
  <2> QED
    BY <2>2, <2>3 DEF IndInv
<1>4. CASE Estimated(plan') /\ ~OverBudget(plan')
  <2>1. stage' = "fetch" /\ by' = by
    BY <1>4 DEF Explain
  <2>2. RequestInv' /\ CandidatesInv' /\ RecordInv'
    BY <1>1, <2>1, ChoiceKept DEF Checks
  <2>3. StageInv'
    BY <1>1, <2>1 DEF IndInv, StageInv
  <2>4. Sent
    BY <1>1 DEF Sent
  <2>5. ParametersInv' /\ SentInv'
    BY <1>1, <2>1, <2>4 DEF IndInv, ParametersInv, SentInv
  <2>6. PlanInv'
    BY <1>1, <1>4, <2>1 DEF PlanInv, Checks, OverBudget
  <2> QED
    BY <2>2, <2>3, <2>5, <2>6 DEF IndInv
<1> QED
  BY <1>2, <1>3, <1>4

LEMMA StepIndInv == IndInv /\ [Next]_vars => IndInv'
<1>1. ASSUME IndInv, UNCHANGED vars PROVE IndInv'
  <2>1. /\ UNCHANGED <<ranked, role, prompt, selector, stage, by, candidates, record>>
        /\ UNCHANGED <<parameters, statement, plan>>
    BY <1>1 DEF vars, choice, request
  <2> QED
    BY <1>1, <2>1 DEF IndInv, RequestInv, StageInv, CandidatesInv, RecordInv, ParametersInv,
                      SentInv, PlanInv, Sent
<1> QED
  BY <1>1, ChooseKeeps, FillKeeps, FillInVainKeeps, RefuseStatementKeeps, RefuseValuesKeeps,
     BindKeeps, EncodingFailsKeeps, ExplainKeeps DEF Next


THEOREM Invariance == Spec => []IndInv
  BY InitIndInv, StepIndInv, PTL DEF Spec

-----------------------------------------------------------------------------
(* What follows from it.                                                   *)

\* An exact search of the catalog is one of what the role may see.
LEMMA ExactSearch ==
  ASSUME IndInv, Scanned, stage # "search"
  PROVE  /\ candidates = _apply_demo_detail_policy(prompt, Sorted(role, ranked))
         /\ Sorted(role, ranked) = Sorted(role, Visible)
         /\ Visible \in Seq(Rows)
<1>1. ranked \in Seq(Rows)
  BY CandidatesFacts DEF IndInv
<1>2. Indexed(role, ranked) = Sorted(role, ranked)
  BY <1>1, ScanIsExact DEF Scanned
<1>3. Sorted(role, Visible) = Sorted(role, ranked)
  BY <1>1, SearchSeesVisible DEF Visible
<1>4. Visible \in Seq(Rows)
  BY <1>1, KeepFacts DEF Visible
<1> QED
  BY <1>2, <1>3, <1>4 DEF IndInv, CandidatesInv

\* The rows a role may not see do not influence which candidates it is offered: the
\* WHERE of CatalogRepository.search comes before its ORDER BY and LIMIT, and an
\* index scan of the whole catalog loses nothing.
THEOREM HiddenRowsHaveNoInfluence == Spec => []HiddenRowsDoNotMatter
<1>1. IndInv => HiddenRowsDoNotMatter
  BY ExactSearch DEF HiddenRowsDoNotMatter
<1> QED
  BY <1>1, Invariance, PTL

\* Every later step of ask keeps the query to be preferred: a prompt about open
\* assets gets the richest asset query its role may use, the nearest of those from
\* the deterministic selector, which finds none only where the role may use none.
THEOREM RichestIsPreferred == Spec => []RichestAssetQuery
<1> DEFINE assets == Keep(Visible, Assets)
           richest == Keep(assets, OfLevel(Richest(assets)))
<1>1. ASSUME IndInv, Scanned, stage = "fill", Len(Visible) <= Limit, assets # <<>>,
             {"asset", "open"} \subseteq prompt,
             selector = "deterministic" \/ "finding" \in prompt
      PROVE  record \in ToSet(richest) /\ (selector = "deterministic" => record = Head(richest))
  <2>1. /\ candidates = _apply_demo_detail_policy(prompt, Sorted(role, Visible))
        /\ Visible \in Seq(Rows)
    BY <1>1, ExactSearch
  <2>2. Sorted(role, Visible) = Visible
    <3>1. Visible = Keep(ranked, Accessible(role)) /\ ranked \in Seq(Rows)
      BY <1>1, CandidatesFacts DEF Visible, IndInv
    <3>2. ToSet(Visible) \subseteq Accessible(role)
      BY <3>1, KeepFacts
    <3>3. Keep(Visible, Accessible(role)) = Visible
      BY <2>1, <3>2, KeepFacts
    <3> QED
      BY <1>1, <2>1, <3>3, TopFacts, SituationsAssumption DEF Sorted
  <2>3. prompt \in SUBSET Words
    BY <1>1, CandidatesFacts DEF IndInv
  <2>4. /\ richest \in Seq(Rows) /\ richest # <<>>
        /\ "finding" \in prompt => candidates = richest
        /\ Deterministic(prompt, candidates) = Head(richest)
    BY <1>1, <2>1, <2>2, <2>3, RichestIsChosen
  <2>5. /\ record \in ToSet(candidates)
        /\ selector = "deterministic" => record = Deterministic(prompt, candidates)
    BY <1>1, InProgress DEF IndInv, RecordInv, Checks
  <2> HIDE DEF richest
  <2>6. Head(richest) \in ToSet(richest)
    BY <2>4, NonEmpty
  <2> QED
    BY <1>1, <2>4, <2>5, <2>6
<1>2. ASSUME IndInv, Scanned, by = "candidates", selector = "deterministic" PROVE Visible = <<>>
  <2>1. stage # "search"
    BY <1>2, InProgress DEF IndInv, Checks
  <2>2. candidates = <<>>
    BY <1>2 DEF IndInv, RecordInv
  <2>3. /\ candidates = _apply_demo_detail_policy(prompt, Sorted(role, Visible))
        /\ Visible \in Seq(Rows) /\ Sorted(role, Visible) = Sorted(role, ranked)
    BY <1>2, <2>1, ExactSearch
  <2>4. Sorted(role, Visible) = Top(Visible, Limit)
    BY <2>3 DEF Sorted, Visible
  <2>5. Limit \in Nat /\ Limit > 0
    BY SituationsAssumption
  <2>6. Top(Visible, Limit) \in Seq(Rows) /\ (Visible # <<>> => Top(Visible, Limit) # <<>>)
    BY <2>3, <2>5, TopFacts
  <2> QED
    BY <2>2, <2>3, <2>4, <2>6, PolicyFacts
<1>3. IndInv => RichestAssetQuery
  BY <1>1, <1>2 DEF RichestAssetQuery
<1> QED
  BY <1>3, Invariance, PTL

\* A statement that was sent has the bindings bind_query computes.
LEMMA SentFacts ==
  ASSUME IndInv, Sent
  PROVE  /\ record \in Rows /\ DOMAIN parameters = extract_parameters(record.sql)
         /\ DOMAIN parameters = DOMAIN record.specs
         /\ record.minRoleLevel <= ROLE_ACCESS[role] /\ can_access(role, record.minRole)
         /\ validate_parameter_values(record.specs, parameters) /\ IsObject(parameters)
         /\ Markers = MarkersOf(record.sql)
         /\ \A i \in Markers : /\ record.sql[i].name \in DOMAIN parameters
                               /\ statement.slots[i] \in DOMAIN statement.arguments
                               /\ Argument(i) = parameters[record.sql[i].name]
         /\ \A i, j \in Markers : statement.slots[i] = statement.slots[j]
                                    <=> record.sql[i].name = record.sql[j].name
         /\ \A k \in DOMAIN statement.arguments : \E i \in Markers : statement.slots[i] = k
<1>1. stage \notin {"search", "select"} /\ by # "candidates"
  <2>1. CASE stage = "refused"
    BY <2>1 DEF Sent
  <2>2. CASE stage # "refused"
    <3>1. by \notin Checks
      BY <2>2, InProgress DEF IndInv
    <3> QED
      BY <3>1 DEF Sent, Checks
  <2> QED
    BY <2>1, <2>2
<1>2. record \in Rows /\ record.minRoleLevel <= ROLE_ACCESS[role]
  BY <1>1, RecordFacts DEF IndInv, RecordInv
<1>3. /\ can_access(role, record.minRole) /\ validate_approved_sql(record) /\ validate_parameter_values(record.specs, parameters)
      /\ statement = bind_query(record.sql, parameters) /\ IsObject(parameters)
  BY DEF IndInv, SentInv, ParametersInv
<1>4. DOMAIN parameters = DOMAIN record.specs /\ DOMAIN parameters = extract_parameters(record.sql)
  BY <1>3 DEF validate_approved_sql, validate_parameter_values
<1>5. record.sql \in Seq([kind : {"text", "colon", "psycopg"}, name : STRING])
  BY <1>2, RecordsAssumption
<1>6. Markers = MarkersOf(record.sql)
  BY DEF Markers, MarkersOf
<1>7. \A i \in Markers : record.sql[i].name \in DOMAIN parameters
  BY <1>4 DEF Markers, extract_parameters
<1>8. /\ \A i \in MarkersOf(record.sql) :
           /\ statement.slots[i] \in DOMAIN statement.arguments
           /\ statement.arguments[statement.slots[i]] = parameters[record.sql[i].name]
      /\ \A i, j \in MarkersOf(record.sql) :
           statement.slots[i] = statement.slots[j] <=> record.sql[i].name = record.sql[j].name
      /\ \A k \in DOMAIN statement.arguments :
           \E i \in MarkersOf(record.sql) : statement.slots[i] = k
  BY <1>3, <1>4, <1>5, BindFacts
<1> QED
  BY <1>2, <1>3, <1>4, <1>6, <1>7, <1>8 DEF Argument

\* The two passes of bind_query give every marker, in either notation, the value of
\* its own name, and each name one position.
THEOREM MarkersGetTheirValues == Spec => []BindingFaithful
<1>1. IndInv => BindingFaithful
  BY SentFacts DEF BindingFaithful, Argument
<1> QED
  BY <1>1, Invariance, PTL

\* execute's access check refuses only a row whose two columns disagree, and what is
\* sent satisfies the search's filter and that check. bind_query's comparison of names
\* never refuses: validate_approved_sql and validate_parameter_values have said it all.
THEOREM SecondChecksRefuseNothing == Spec => []SecondChecksSilent
<1>1. IndInv => TypeOK
  <2> SUFFICES ASSUME IndInv PROVE TypeOK
    OBVIOUS
  <2>1. /\ stage \in {"search", "select", "fill", "execute", "explain", "fetch", "refused"}
        /\ by \in Checks \union {None}
    BY DEF IndInv, StageInv
  <2>2. candidates \in Seq(Rows) /\ Len(candidates) <= Limit
    BY CandidatesFacts DEF IndInv
  <2>3. record \in Rows \union {None}
    BY RecordFacts DEF IndInv, RecordInv
  <2>4. parameters # None => IsFiniteSet(DOMAIN parameters)
    BY DEF IndInv, ParametersInv, IsObject
  <2>5. Sent => \A i \in Markers : statement.slots[i] \in DOMAIN statement.arguments
    BY SentFacts
  <2>6. plan # None => plan \in Plans[record.sql]
    BY DEF IndInv, PlanInv
  <2> QED
    BY <2>1, <2>2, <2>3, <2>4, <2>5, <2>6 DEF TypeOK
<1>2. IndInv => by # "bind"
  BY SituationsAssumption DEF IndInv, StageInv, Checks
<1>3. ASSUME IndInv, by = "access" PROVE record.minRoleLevel # ROLE_ACCESS[record.minRole]
  <2>1. record \in Rows /\ record.minRoleLevel <= ROLE_ACCESS[role] /\ role \in Role
    <3>1. by # None
      BY <1>3, SituationsAssumption DEF Checks
    <3>2. stage = "refused" /\ by # "candidates"
      BY <1>3, <3>1 DEF IndInv, StageInv
    <3>3. record \in ToSet(candidates)
      BY <1>3, <3>2 DEF IndInv, RecordInv
    <3> QED
      BY <1>3, <3>3, RecordFacts, CandidatesFacts DEF IndInv
  <2>2. record.minRole \in Role /\ ~can_access(role, record.minRole)
    BY <1>3, <2>1, SituationsAssumption DEF IndInv, SentInv
  <2>3. \A x \in Role : ROLE_ACCESS[x] \in Int
    BY DEF ROLE_ACCESS
  <2> QED
    BY <2>1, <2>2, <2>3 DEF can_access
<1>4. IndInv => SecondChecksSilent
  BY <1>1, <1>2, <1>3, SentFacts DEF SecondChecksSilent
<1> QED
  BY <1>4, Invariance, PTL

\* Every value that is sent, but for a NaN, lies within the declaration of its name:
\* _validate_value is asked about each of them, and bind_query moves none to another
\* name's marker.
THEOREM ValuesMeetTheirContract == Spec => []ContractEnforced
<1>1. ASSUME IndInv, Sent, NEW i \in Markers, Typed(Specification(i)), Argument(i).is # NaN
      PROVE  InContract(Specification(i), Argument(i))
  <2> DEFINE name == record.sql[i].name
             spec == Specification(i)
             v == Argument(i)
  <2>1. /\ record \in Rows /\ name \in DOMAIN record.specs /\ v = parameters[name]
        /\ spec = record.specs[name]
        /\ validate_parameter_values(record.specs, parameters)
    BY <1>1, SentFacts DEF Specification
  <2>2. v.is \in Int
    BY <1>1, SentFacts DEF IsObject
  <2> HIDE DEF name, spec, v
  <2>3. Typed(spec) /\ v.is # NaN
    BY <1>1 DEF spec, v
  <2>4. (v.type = "null" /\ ~spec.required) \/ ~Refused(spec, v)
    BY <2>1, <2>3 DEF validate_parameter_values
  <2>5. spec.minimum \in Int \union {None} /\ spec.maximum \in Int \union {None}
    BY <2>1, <2>3, RecordsAssumption DEF Typed
  <2>6. ASSUME ~Refused(spec, v)
        PROVE  /\ v.type \in Accepts[spec.type] /\ (spec.allowed # None => v.is \in spec.allowed)
               /\ spec.minimum # None => ~LessThan(v.is, spec.minimum)
               /\ spec.maximum # None => ~LessThan(spec.maximum, v.is)
    BY <2>6 DEF Refused
  <2>7. \A m, n \in Int : ~LessThan(m, n) => m >= n /\ n <= m
    <3>1. NaN \notin Int
      BY ValuesAssumption
    <3> QED
      BY <3>1 DEF LessThan
  <2>8. /\ ~Refused(spec, v) /\ spec.minimum # None => v.is >= spec.minimum
        /\ ~Refused(spec, v) /\ spec.maximum # None => v.is <= spec.maximum
    BY <2>2, <2>5, <2>6, <2>7
  <2>9. InContract(spec, v)
    BY <2>4, <2>6, <2>8 DEF InContract
  <2> QED
    BY <2>9 DEF spec, v
<1>2. IndInv => ContractEnforced
  BY <1>1 DEF ContractEnforced
<1> QED
  BY <1>2, Invariance, PTL

\* However deep a plan is nested, _max_plan_rows finds its largest estimate: a query
\* over budget in its cost or anywhere in its rows does not run, and none is refused
\* that is within both.
THEOREM BudgetIsExact == Spec => []BudgetSeesEveryNode
<1>1. ASSUME IndInv, stage = "fetch" \/ by = "budget"
      PROVE  IsPlan(plan) /\ Estimated(plan) /\ MaxPlanRows \in Int /\ MaxPlanCost \in Int
  <2>1. Sent
    BY <1>1 DEF Sent
  <2>2. record \in Rows /\ plan \in Plans[record.sql] /\ Estimated(plan)
    BY <1>1, <2>1, SentFacts DEF IndInv, PlanInv
  <2> QED
    BY <2>2, RecordsAssumption, PlansAssumption DEF IsPlan
<1>2. ASSUME IndInv, stage = "fetch", NEW k \in Counted(plan)
      PROVE  plan.rows[k] # None /\ plan.rows[k] <= MaxPlanRows
  <2>1. /\ plan.rows[k] \in Int /\ plan.rows[k] # None
        /\ plan.rows[k] <= _max_plan_rows(plan) /\ _max_plan_rows(plan) \in Int
    BY <1>1, <1>2, EstimateFacts
  <2>2. ~(_max_plan_rows(plan) > MaxPlanRows) /\ MaxPlanRows \in Int
    BY <1>1, <1>2 DEF IndInv, PlanInv, OverBudget
  <2> QED
    BY <2>1, <2>2
<1>3. ASSUME IndInv, by = "budget", ~(plan.cost > MaxPlanCost)
      PROVE  \E k \in Counted(plan) : plan.rows[k] > MaxPlanRows
  <2>1. \E k \in Counted(plan) : plan.rows[k] = _max_plan_rows(plan)
    BY <1>1, <1>3, EstimateFacts
  <2>2. _max_plan_rows(plan) > MaxPlanRows
    BY <1>3 DEF IndInv, PlanInv, OverBudget
  <2> QED
    BY <2>1, <2>2
<1>4. ASSUME IndInv, stage = "fetch" PROVE plan.cost # None /\ plan.cost <= MaxPlanCost
  <2>1. plan.cost \in Int /\ plan.cost # None /\ MaxPlanCost \in Int
    BY <1>1, <1>4, EstimateFacts
  <2>2. ~(plan.cost > MaxPlanCost)
    BY <1>4 DEF IndInv, PlanInv, OverBudget
  <2> QED
    BY <2>1, <2>2
<1>5. IndInv => BudgetSeesEveryNode
  BY <1>2, <1>3, <1>4 DEF BudgetSeesEveryNode
<1> QED
  BY <1>5, Invariance, PTL

=============================================================================
