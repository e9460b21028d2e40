-------------------------- MODULE MemoryPlanProofs --------------------------
(***************************************************************************)
(* Proofs about MemoryPlan, Gmmu, Staging: for page tables of any shape,   *)
(* memory and firmware of any size.                                        *)
(***************************************************************************)
EXTENDS MemoryPlan, Staging, WellFoundedInduction, TLAPS

-----------------------------------------------------------------------------
(* Induction over sets of numbers. *)

\* Every set of numbers that is not empty has a least one.
LEMMA NatMin ==
    ASSUME NEW T, T \subseteq Nat, T # {}
    PROVE  \E x \in T : \A y \in T : x <= y
<1> DEFINE R == OpToRel(<, Nat)
<1>1. IsWellFoundedOn(R, Nat)
  BY NatLessThanWellFounded
<1>2. PICK x \in T : \A y \in T : <<y, x>> \notin R
  BY <1>1, WFMin
<1>3. \A y \in T : ~(y < x)
  BY <1>2 DEF OpToRel
<1> QED BY <1>3

\* A set that has 0 and with each number below m the next one, has all up to m.
LEMMA Climb ==
    ASSUME NEW T, NEW m \in Nat, 0 \in T,
           \A x \in 0 .. m - 1 : x \in T => x + 1 \in T
    PROVE  0 .. m \subseteq T
<1> DEFINE D == {x \in 0 .. m : x \notin T}
<1>1. SUFFICES ASSUME D # {} PROVE FALSE
  OBVIOUS
<1>2. PICK d \in D : \A y \in D : d <= y
  <2>1. D \subseteq Nat
    OBVIOUS
  <2> HIDE DEF D
  <2> QED BY <1>1, <2>1, NatMin
<1>3. d \in 1 .. m /\ d - 1 \in 0 .. m - 1 /\ d - 1 \notin D
  BY <1>2
<1>4. d - 1 \in T
  BY <1>3
<1> QED BY <1>4, <1>3, <1>2

\* A set that has m and with each number up to m the one below, has them all.
LEMMA Descend ==
    ASSUME NEW T, NEW m \in Nat, m \in T,
           \A x \in 1 .. m : x \in T => x - 1 \in T
    PROVE  0 .. m \subseteq T
<1> DEFINE U == {x \in 0 .. m : m - x \in T}
<1>1. 0 \in U
  OBVIOUS
<1>2. ASSUME NEW x \in 0 .. m - 1, x \in U PROVE x + 1 \in U
  <2>1. m - x \in 1 .. m /\ m - x \in T /\ (m - x) - 1 = m - (x + 1) /\ x + 1 \in 0 .. m
    BY <1>2
  <2> QED BY <2>1
<1>3. 0 .. m \subseteq U
  <2> HIDE DEF U
  <2> QED BY <1>1, <1>2, Climb
<1>4. ASSUME NEW x \in 0 .. m PROVE x \in T
  <2>1. m - x \in U /\ m - (m - x) = x
    BY <1>3
  <2> QED BY <2>1
<1> QED BY <1>4

\* Finitely many numbers have a largest one.
LEMMA LargestExists ==
    ASSUME NEW m \in Nat, NEW f, \A x \in 0 .. m : f[x] \in Nat
    PROVE  \E x \in 0 .. m : \A y \in 0 .. m : f[y] <= f[x]
<1> DEFINE T == {k1 \in 0 .. m : \E x \in 0 .. k1 : \A y \in 0 .. k1 : f[y] <= f[x]}
<1>1. 0 \in T
  <2>1. 0 .. 0 = {0}
    OBVIOUS
  <2> QED BY <2>1
<1>2. ASSUME NEW k1 \in 0 .. m - 1, k1 \in T PROVE k1 + 1 \in T
  <2>1. PICK x \in 0 .. k1 : \A y \in 0 .. k1 : f[y] <= f[x]
    BY <1>2
  <2>2. 0 .. k1 + 1 = (0 .. k1) \cup {k1 + 1} /\ k1 + 1 \in 0 .. m
    OBVIOUS
  <2>3. f[x] \in Nat /\ f[k1 + 1] \in Nat /\ \A y \in 0 .. k1 : f[y] \in Nat
    BY <2>2
  <2>4. CASE f[k1 + 1] <= f[x]
    BY <2>1, <2>2, <2>4
  <2>5. CASE f[x] < f[k1 + 1]
    <3>1. \A y \in 0 .. k1 : f[y] <= f[k1 + 1]
      BY <2>1, <2>3, <2>5
    <3> QED BY <3>1, <2>2, <2>3
  <2> QED BY <2>3, <2>4, <2>5
<1>3. m \in T
  <2> HIDE DEF T
  <2>1. 0 .. m \subseteq T
    BY <1>1, <1>2, Climb
  <2> QED BY <2>1
<1> QED BY <1>3

-----------------------------------------------------------------------------
(* Division. *)

\* Division with remainder, in the form the steps below use.
LEMMA DivMod ==
    ASSUME NEW x \in Int, NEW a \in Nat \ {0}
    PROVE  /\ x \div a \in Int
           /\ x % a \in 0 .. a - 1
           /\ x = a * (x \div a) + (x % a)
BY Z3

\* There is only one quotient and one remainder.
LEMMA DivUnique ==
    ASSUME NEW x \in Int, NEW a \in Nat \ {0}, NEW q \in Int, NEW r \in 0 .. a - 1,
           x = a * q + r
    PROVE  x \div a = q /\ x % a = r
<1> DEFINE d == x \div a
           s == x % a
<1>1. d \in Int /\ s \in 0 .. a - 1 /\ x = a * d + s
  BY DivMod
<1> HIDE DEF d, s
<1>2. a * (d - q) = r - s
  BY <1>1, Z3
<1>3. CASE d - q <= -1
  <2>1. a * (d - q) <= -a
    BY <1>1, <1>3, Z3
  <2> QED BY <2>1, <1>1, <1>2
<1>4. CASE d - q >= 1
  <2>1. a * (d - q) >= a
    BY <1>1, <1>4, Z3
  <2> QED BY <2>1, <1>1, <1>2
<1>5. CASE d = q
  <2>1. a * (d - q) = 0
    BY <1>5, <1>1, Z3
  <2> QED BY <2>1, <1>1, <1>2, <1>5 DEF d, s
<1> QED BY <1>1, <1>3, <1>4, <1>5

\* Numbers divide into natural numbers, in order.
LEMMA DivMonotone ==
    ASSUME NEW x \in Nat, NEW y \in Nat, NEW a \in Nat \ {0}, x <= y
    PROVE  x \div a \in Nat /\ x \div a <= y \div a
<1> DEFINE p == x \div a
           q == y \div a
<1>1. p \in Int /\ q \in Int /\ x % a \in 0 .. a - 1 /\ y % a \in 0 .. a - 1
      /\ x = a * p + (x % a) /\ y = a * q + (y % a)
  BY DivMod
<1> DEFINE r == x % a
           s == y % a
<1> HIDE DEF p, q, r, s
<1>2. r \in 0 .. a - 1 /\ s \in 0 .. a - 1 /\ x = a * p + r /\ y = a * q + s
  BY <1>1 DEF r, s
<1>0. p \in Int /\ q \in Int
  BY <1>1
<1>3. p >= 0
  <2>1. ASSUME p < 0 PROVE FALSE
    <3>1. a * p <= -a
      BY <2>1, <1>0, Z3
    <3>2. a * p \in Int
      BY <1>0
    <3> QED BY <3>1, <3>2, <1>2
  <2> QED BY <2>1, <1>0
<1>4. p <= q
  <2>1. CASE q - p <= -1
    <3>1. a * (q - p) <= -a
      BY <2>1, <1>1, Z3
    <3>2. a * (q - p) = a * q - a * p
      BY <1>1, Z3
    <3>3. a * q \in Int /\ a * p \in Int
      BY <1>1
    <3> QED BY <3>1, <3>2, <3>3, <1>2
  <2> QED BY <2>1, <1>0
<1> QED BY <1>0, <1>3, <1>4 DEF p, q

\* To divide by a, then by b, is to divide by their product.
LEMMA DivDiv ==
    ASSUME NEW x \in Int, NEW a \in Nat \ {0}, NEW b \in Nat \ {0}
    PROVE  (x \div a) \div b = x \div (b * a)
<1> DEFINE p == x \div a
           r == x % a
           q == p \div b
           s == p % b
<1>1. p \in Int /\ r \in 0 .. a - 1 /\ x = a * p + r
  BY DivMod
<1>2. q \in Int /\ s \in 0 .. b - 1 /\ p = b * q + s
  BY <1>1, DivMod
<1> HIDE DEF p, q, r, s
<1>3. x = (b * a) * q + (a * s + r)
  BY <1>1, <1>2, Z3
<1>4. b * a \in Nat \ {0} /\ a * s + r \in 0 .. b * a - 1
  <2>1. b * a \in Nat /\ b * a > 0
    BY Z3
  <2>2. a * s \in Nat /\ a * s <= a * (b - 1) /\ a * (b - 1) = b * a - a
    BY <1>2, Z3
  <2> QED BY <2>1, <2>2, <1>1
<1>5. x \div (b * a) = q
  BY <1>3, <1>4, <1>2, DivUnique
<1> QED BY <1>5 DEF q, p

\* A common factor cancels.
LEMMA DivCancel ==
    ASSUME NEW c \in Int, NEW a \in Nat \ {0}, NEW b \in Nat \ {0}
    PROVE  (c * a) \div (b * a) = c \div b /\ (c * a) \div a = c
<1> DEFINE x == c * a
<1>1. x \in Int /\ x = a * c + 0
  BY Z3
<1> HIDE DEF x
<1>2. x \div a = c
  BY <1>1, DivUnique
<1>3. x \div (b * a) = c \div b
  BY <1>1, <1>2, DivDiv
<1> QED BY <1>2, <1>3 DEF x

\* Two multiples of a are equal or at least a apart.
LEMMA MultiplesApart ==
    ASSUME NEW x \in Int, NEW y \in Int, NEW a \in Nat \ {0},
           x % a = 0, y % a = 0, x < y
    PROVE  x + a <= y
<1> DEFINE p == x \div a
           q == y \div a
<1>1. p \in Int /\ q \in Int /\ x = a * p /\ y = a * q
  BY DivMod, Z3
<1>2. a * (q - p) = y - x
  BY <1>1, Z3
<1>3. CASE q - p <= 0
  <2>1. a * (q - p) <= 0
    BY <1>1, <1>3, Z3
  <2> QED BY <2>1, <1>2
<1>4. CASE q - p >= 1
  <2>1. a * (q - p) >= a
    BY <1>1, <1>4, Z3
  <2> QED BY <2>1, <1>2
<1> QED BY <1>1, <1>3, <1>4

-----------------------------------------------------------------------------
(* The geometry of the tables. *)

\* The levels, and that a table of a level covers as many tables of the next
\* one as it has entries.
LEMMA Shape ==
    /\ Levels \in Nat /\ Levels >= 2 /\ Leaf \in Nat /\ Leaf >= 1 /\ Leaf + 1 = Levels
    /\ Level = 0 .. Leaf /\ PhysEnd \in Nat /\ VaEnd = Span[0]
    /\ \A l \in Level : /\ Entries[l] \in Nat \ {0} /\ Span[l] \in Nat \ {0}
                        /\ Below(l) \in Nat \ {0} /\ Span[l] = Entries[l] * Below(l)
    /\ \A l \in 0 .. Leaf - 1 : l \in Level /\ l + 1 \in Level /\ Below(l) = Span[l + 1]
    /\ Below(Leaf) = 1
<1>1. /\ Levels \in Nat /\ Levels >= 2 /\ Leaf \in Nat /\ Leaf >= 1 /\ Leaf + 1 = Levels
      /\ Level = 0 .. Leaf /\ PhysEnd \in Nat /\ VaEnd = Span[0]
  BY LevelAssumption DEF Level, Leaf, VaEnd
<1>2. \A l \in Level : Entries[l] \in Nat \ {0} /\ Span[l] \in Nat \ {0}
  BY LevelAssumption
<1>3. /\ \A l \in 0 .. Leaf - 1 : l \in Level /\ l + 1 \in Level /\ l # Leaf
      /\ \A l \in Level : l = Leaf \/ l \in 0 .. Leaf - 1
  BY <1>1
<1>4. /\ \A l \in 0 .. Leaf - 1 : Below(l) = Span[l + 1] /\ Span[l] = Entries[l] * Span[l + 1]
      /\ Below(Leaf) = 1 /\ Span[Leaf] = Entries[Leaf]
  BY <1>3, SpanAssumption DEF Below
<1>5. ASSUME NEW l \in Level PROVE Below(l) \in Nat \ {0} /\ Span[l] = Entries[l] * Below(l)
  <2>1. CASE l = Leaf
    <3>1. Entries[l] \in Nat
      BY <1>2
    <3> QED BY <2>1, <3>1, <1>4
  <2>2. CASE l \in 0 .. Leaf - 1
    BY <2>2, <1>3, <1>4, <1>2
  <2> QED BY <2>1, <2>2, <1>3
<1> QED BY <1>1, <1>2, <1>3, <1>4, <1>5

\* A range needs at least one table of each level.
LEMMA CountPositive ==
    ASSUME NEW va \in Nat, NEW n \in Nat \ {0}, NEW l \in Level
    PROVE  /\ TableCount(va, n, l) \in Nat \ {0}
           /\ va \div Span[l] \in Nat /\ (va + n - 1) \div Span[l] \in Nat
           /\ va \div Span[l] <= (va + n - 1) \div Span[l]
<1>1. Span[l] \in Nat \ {0} /\ va <= va + n - 1 /\ va + n - 1 \in Nat
  BY Shape
<1> DEFINE a == va \div Span[l]
           b == (va + n - 1) \div Span[l]
<1>2. a \in Nat /\ b \in Nat /\ a <= b
  BY <1>1, DivMonotone
<1>3. TableCount(va, n, l) = b - a + 1
  BY DEF TableCount
<1> HIDE DEF a, b
<1>4. TableCount(va, n, l) \in Nat \ {0}
  BY <1>2, <1>3
<1> QED BY <1>2, <1>4 DEF a, b

\* The sums that TablesAbove recurs over exist.
LEMMA SumsExist ==
    ASSUME NEW m \in Nat, NEW c, \A x \in 0 .. m - 1 : c[x] \in Nat
    PROVE  \E s : s = [x \in 0 .. m |-> IF x = 0 THEN 0 ELSE s[x - 1] + c[x - 1]]
<1> DEFINE Upto(j, s) == s = [x \in 0 .. j |-> IF x = 0 THEN 0 ELSE s[x - 1] + c[x - 1]]
           T == {j \in 0 .. m : \E s : Upto(j, s)}
<1>1. 0 \in T
  <2> DEFINE s == [x \in 0 .. 0 |-> 0]
  <2>1. Upto(0, s)
    OBVIOUS
  <2> HIDE DEF Upto, s
  <2> QED BY <2>1
<1>2. ASSUME NEW j \in 0 .. m - 1, j \in T PROVE j + 1 \in T
  <2>1. PICK s : Upto(j, s)
    BY <1>2
  <2> DEFINE t == [x \in 0 .. j + 1 |-> IF x = j + 1 THEN s[j] + c[j] ELSE s[x]]
  <2>2. Upto(j + 1, t)
    <3>1. ASSUME NEW x \in 0 .. j + 1
          PROVE  t[x] = IF x = 0 THEN 0 ELSE t[x - 1] + c[x - 1]
      <4>1. CASE x = j + 1
        BY <4>1
      <4>2. CASE x # j + 1
        <5>1. x \in 0 .. j /\ t[x] = s[x] /\ (x # 0 => x - 1 \in 0 .. j + 1 /\ x - 1 # j + 1)
          BY <4>2
        <5>2. s[x] = IF x = 0 THEN 0 ELSE s[x - 1] + c[x - 1]
          BY <5>1, <2>1
        <5> QED BY <5>1, <5>2
      <4> QED BY <4>1, <4>2
    <3>2. t = [x \in 0 .. j + 1 |-> t[x]]
      OBVIOUS
    <3> HIDE DEF t
    <3> QED BY <3>1, <3>2
  <2>3. j + 1 \in 0 .. m
    OBVIOUS
  <2> QED BY <2>2, <2>3
<1>3. m \in T
  <2> HIDE DEF T
  <2>1. 0 .. m \subseteq T
    BY <1>1, <1>2, Climb
  <2> QED BY <2>1
<1> QED BY <1>3

\* The tables of a level lie behind those of the level above.
LEMMA TablesAboveNext ==
    ASSUME NEW va \in Nat, NEW n \in Nat \ {0}
    PROVE  /\ TablesAbove(va, n, 0) = 0
           /\ \A l \in Level :
                TablesAbove(va, n, l + 1) = TablesAbove(va, n, l) + TableCount(va, n, l)
           /\ \A l \in 0 .. Levels : TablesAbove(va, n, l) \in Nat
<1> DEFINE c == [l \in Level |-> TableCount(va, n, l)]
           Is(s) == s = [x \in 0 .. Levels |-> IF x = 0 THEN 0 ELSE s[x - 1] + TableCount(va, n, x - 1)]
           sum == CHOOSE s : Is(s)
<1>1. \E s : Is(s)
  <2>1. \A x \in 0 .. Levels - 1 : x \in Level /\ c[x] \in Nat /\ c[x] = TableCount(va, n, x)
    <3>1. \A x \in 0 .. Levels - 1 : x \in Level
      BY Shape
    <3>2. \A x \in Level : TableCount(va, n, x) \in Nat
      BY CountPositive
    <3> QED BY <3>1, <3>2
  <2> HIDE DEF c
  <2>2. PICK s : s = [x \in 0 .. Levels |-> IF x = 0 THEN 0 ELSE s[x - 1] + c[x - 1]]
    BY <2>1, SumsExist, Shape
  <2>3. \A x \in 0 .. Levels : x # 0 => c[x - 1] = TableCount(va, n, x - 1)
    BY <2>1, Shape
  <2>4. Is(s)
    BY <2>2, <2>3
  <2> QED BY <2>4
<1>2. Is(sum)
  BY <1>1
<1>3. \A l : TablesAbove(va, n, l) = sum[l]
  BY DEF TablesAbove
<1> HIDE DEF sum
<1>4. sum[0] = 0 /\ \A l \in Level : sum[l + 1] = sum[l] + TableCount(va, n, l)
  <2>1. 0 \in 0 .. Levels /\ \A l \in Level : l + 1 \in 0 .. Levels /\ l + 1 # 0 /\ (l + 1) - 1 = l
    BY Shape
  <2> QED BY <2>1, <1>2
<1>5. \A l \in 0 .. Levels : sum[l] \in Nat
  <2> DEFINE T == {l \in 0 .. Levels : sum[l] \in Nat}
  <2>1. 0 \in T
    BY <1>4, Shape
  <2>2. ASSUME NEW x \in 0 .. Levels - 1, x \in T PROVE x + 1 \in T
    <3>1. x \in Level /\ x + 1 \in 0 .. Levels /\ TableCount(va, n, x) \in Nat
      <4>1. x \in Level /\ x + 1 \in 0 .. Levels
        BY Shape
      <4> QED BY <4>1, CountPositive
    <3> QED BY <3>1, <2>2, <1>4
  <2> HIDE DEF T
  <2>3. 0 .. Levels \subseteq T
    BY <2>1, <2>2, Climb, Shape
  <2> QED BY <2>3 DEF T
<1> QED BY <1>3, <1>4, <1>5

\* No two levels share a table, and all tables are counted.
LEMMA TablesInOrder ==
    ASSUME NEW va \in Nat, NEW n \in Nat \ {0}, NEW l \in Level, NEW m \in l + 1 .. Levels
    PROVE  TablesAbove(va, n, l) + TableCount(va, n, l) <= TablesAbove(va, n, m)
<1> DEFINE S(j) == TablesAbove(va, n, j)
           low == S(l) + TableCount(va, n, l)
           T == {j \in 0 .. Levels : j > l => low <= S(j)}
<1>1. 0 \in T
  BY Shape
<1>2. ASSUME NEW x \in 0 .. Levels - 1, x \in T PROVE x + 1 \in T
  <2>1. x \in Level /\ x + 1 \in 0 .. Levels /\ l \in Int /\ x \in 0 .. Levels /\ l \in 0 .. Levels
    BY Shape DEF Level
  <2>2. S(x + 1) = S(x) + TableCount(va, n, x) /\ S(x) \in Nat /\ S(l) \in Nat
    BY <2>1, TablesAboveNext
  <2>3. TableCount(va, n, x) \in Nat /\ TableCount(va, n, l) \in Nat
    BY <2>1, CountPositive
  <2> HIDE DEF S
  <2>4. CASE x = l
    BY <2>1, <2>2, <2>4, <2>3
  <2>5. CASE x > l
    <3>1. low <= S(x)
      BY <1>2, <2>5
    <3> QED BY <3>1, <2>1, <2>2, <2>3
  <2> QED BY <2>1, <2>4, <2>5
<1>3. 0 .. Levels \subseteq T
  <2> HIDE DEF T
  <2> QED BY <1>1, <1>2, Climb, Shape
<1>4. m \in 0 .. Levels /\ m > l
  BY Shape
<1> QED BY <1>3, <1>4

-----------------------------------------------------------------------------
(* The choice of the driver's memory: its inductive invariant. *)

AsSpan(r) == [base |-> r.base, size |-> r.limit - r.base + 1]

\* What the driver carries along while it chooses.
PlanTypeOK ==
    /\ mpc \in {"idle", "check", "search", "planned", "refused", "legacy", "none"}
    /\ regions \in Reports /\ app \in Nat /\ extra \in Spans
    /\ available \in Seq([base : 0 .. U64Max, size : Nat])
    /\ k \in Nat /\ candidate \in Nat /\ owned \in Nat
    /\ mpc \in {"check", "search", "planned"} => ~BadPlan(regions, app)
    /\ mpc = "idle" => available = <<>>

\* The first n regions of the report make sense together.
ReportSound(n) ==
    \A j \in 1 .. n :
        /\ regions[j].base <= regions[j].limit /\ regions[j].limit < PhysEnd
        /\ \A x \in 1 .. j - 1 : ~(/\ regions[j].base <= regions[x].limit
                                   /\ regions[x].base <= regions[j].limit)

\* The spans are the usable ones among the first n regions.
AvailableFrom(n) ==
    /\ \A a \in 1 .. Len(available) :
         \E j \in 1 .. n : Usable(regions[j]) /\ available[a] = AsSpan(regions[j])
    /\ \A j \in 1 .. n :
         Usable(regions[j]) => \E a \in 1 .. Len(available) : available[a] = AsSpan(regions[j])

Blocked(c) == \E s \in excluded : Overlaps(c, total, s.base, s.size)

\* No aligned place of span s before limit is free.
BlockedBefore(s, limit) ==
    \A c \in 0 .. U64Max :
        c % Align = 0 /\ s.base <= c /\ c < limit /\ c + total <= s.base + s.size => Blocked(c)

CheckInv ==
    mpc = "check" => k \in 1 .. Len(regions) + 1 /\ ReportSound(k - 1) /\ AvailableFrom(k - 1)

\* Whatever the search has passed by was not free.
SearchInv ==
    mpc = "search" =>
        /\ k \in 1 .. Len(available)
        /\ ReportSound(Len(regions)) /\ AvailableFrom(Len(regions))
        /\ \A s \in excluded : span_valid(s)
        /\ candidate % Align = 0 /\ candidate >= available[k].base
        /\ \A j \in 1 .. k - 1 : BlockedBefore(available[j], U64Max + 1)
        /\ BlockedBefore(available[k], candidate)

\* What was chosen lies in a usable region and hits nothing; the plan of the
\* tables is the one made for that place, and the build did not refuse it.
PlannedInv ==
    mpc = "planned" =>
        /\ \E j \in 1 .. Len(regions) :
             /\ Usable(regions[j]) /\ regions[j].limit < PhysEnd
             /\ regions[j].base <= owned /\ owned + total <= regions[j].limit + 1
        /\ \A s \in excluded : ~(owned < s.base + s.size /\ s.base < owned + total)
        /\ range = range_plan(AppVa, mapped, owned + mapped)
        /\ rc = 0

LegacyInv ==
    mpc = "legacy" =>
        \E j \in 1 .. Len(regions) :
            /\ Usable(regions[j]) /\ regions[j].base <= owned
            /\ owned + ServicePages - 1 <= regions[j].limit

PlanInv ==
    PlanTypeOK /\ CheckInv /\ SearchInv /\ PlannedInv /\ LegacyInv /\ NoSpaceJustified

-----------------------------------------------------------------------------
(* What the search computes with. *)

\* align_up gives the first multiple of Align that is not below v.
LEMMA AlignUp ==
    ASSUME NEW v \in Nat
    PROVE  /\ align_up(v) \in Nat /\ v <= align_up(v) /\ align_up(v) % Align = 0
           /\ \A x \in Nat : x >= v /\ x % Align = 0 => x >= align_up(v)
<1> DEFINE w == v + Align - 1
           r == w % Align
           d == w \div Align
           u == align_up(v)
<1>0. Align \in Nat \ {0} /\ w \in Nat /\ w = v + Align - 1
  BY SizeAssumption
<1>1. u = d * Align
  BY DEF align_up
<1> HIDE DEF w, u
<1>2. r \in 0 .. Align - 1 /\ d \in Int /\ w = Align * d + r
  BY <1>0, DivMod
<1> HIDE DEF r, d
<1>3. d * Align = Align * d /\ d * Align \in Int
  BY <1>0, <1>2, Z3
<1>4. u \in Nat /\ v <= u /\ u <= v + Align - 1
  BY <1>0, <1>1, <1>2, <1>3
<1>5. u = Align * d + 0
  BY <1>1, <1>3, <1>2, <1>0
<1>6. u % Align = 0
  <2>1. u \in Int /\ 0 \in 0 .. Align - 1
    BY <1>4, <1>0
  <2> QED BY <2>1, <1>5, <1>2, <1>0, DivUnique
<1>7. ASSUME NEW x \in Nat, x >= v, x % Align = 0, x < u
      PROVE  FALSE
  <2>1. x \in Int /\ u \in Int
    BY <1>4
  <2>2. x + Align <= u
    BY <2>1, <1>0, <1>6, <1>7, MultiplesApart
  <2> QED BY <2>2, <1>7, <1>4, <1>0
<1> QED BY <1>4, <1>6, <1>7 DEF u

\* Where align_up would overflow, no aligned address is left.
LEMMA AlignUpFails ==
    ASSUME NEW v \in Nat, align_up_fails(v), NEW x \in 0 .. U64Max, x % Align = 0
    PROVE  x < v
<1> DEFINE y == U64Max + 1
<1>1. Align \in Nat \ {0} /\ U64Max \in Nat /\ y % Align = 0 /\ y \in Int /\ x < y /\ x \in Int
  BY SizeAssumption
<1> HIDE DEF y
<1>2. x + Align <= y
  BY <1>1, MultiplesApart
<1> QED BY <1>1, <1>2 DEF align_up_fails, y

\* What is searched for has a size, and its tables fit the VRAM.
LEMMA TotalSize ==
    ASSUME app \in Nat, ~BadPlan(regions, app)
    PROVE  /\ mapped \in Nat \ {0} /\ TableBytes(AppVa, mapped) \in Nat \ {0}
           /\ total \in Nat \ {0}
           /\ AppVa \in Nat /\ AppVa < VaEnd /\ mapped <= VaEnd - AppVa
<1>1. mapped \in Nat \ {0} /\ AppVa \in Nat
  BY SizeAssumption DEF mapped
<1>2. TableBytes(AppVa, mapped) \in Nat \ {0}
  <2>1. 0 \in Level /\ Levels \in 0 + 1 .. Levels
    BY Shape
  <2>2. TablesAbove(AppVa, mapped, 0) = 0 /\ TablesAbove(AppVa, mapped, Levels) \in Nat
    <3>1. Levels \in 0 .. Levels
      BY Shape
    <3> QED BY <3>1, <1>1, TablesAboveNext
  <2>3. TableCount(AppVa, mapped, 0) \in Nat \ {0}
    BY <1>1, <2>1, CountPositive
  <2>4. TablesAbove(AppVa, mapped, 0) + TableCount(AppVa, mapped, 0)
          <= TablesAbove(AppVa, mapped, Levels)
    BY <1>1, <2>1, TablesInOrder
  <2> QED BY <2>2, <2>3, <2>4 DEF TableBytes
<1>3. total \in Nat \ {0}
  BY <1>1, <1>2, SizeAssumption DEF total
<1>4. ~RangeInvalid(AppVa, mapped, 0)
  BY DEF BadPlan, mapped
<1>5. VaEnd \in Nat /\ AppVa < VaEnd /\ mapped <= VaEnd - AppVa
  <2>1. VaEnd \in Nat
    BY Shape
  <2> QED BY <2>1, <1>1, <1>4 DEF RangeInvalid
<1> QED BY <1>1, <1>2, <1>3, <1>5

\* What is avoided is one or two areas.
LEMMA ExcludedSpans ==
    ASSUME extra \in Spans
    PROVE  /\ \A s \in excluded : s \in Spans /\ s.base \in Nat /\ s.size \in Nat
           /\ \E a, b : excluded = {a, b}
<1> DEFINE low == [base |-> 0, size |-> LowEnd]
<1>1. low \in Spans
  BY SizeAssumption DEF Spans
<1>2. excluded = {low, low} \/ excluded = {low, extra}
  BY DEF excluded
<1>3. \A s \in Spans : s.base \in Nat /\ s.size \in Nat
  BY SizeAssumption DEF Spans
<1> HIDE DEF low
<1> QED BY <1>1, <1>2, <1>3

\* The end the search moves behind is the end of something it hit.
LEMMA NextIsAnEnd ==
    ASSUME extra \in Spans, Hit # {}
    PROVE  \E s \in Hit : Max({t.base + t.size : t \in Hit}) = s.base + s.size
<1> DEFINE E == {t.base + t.size : t \in Hit}
<1>1. PICK a, b : excluded = {a, b}
  BY ExcludedSpans
<1>2. Hit \subseteq {a, b} /\ \A t \in Hit : t.base + t.size \in Nat
  BY <1>1, ExcludedSpans DEF Hit
<1>3. \E x \in E : \A y \in E : x >= y
  <2> DEFINE e == a.base + a.size
             f == b.base + b.size
  <2>1. CASE Hit = {a}
    BY <2>1, <1>2
  <2>2. CASE Hit = {b}
    BY <2>2, <1>2
  <2>3. CASE Hit = {a, b}
    <3>1. E = {e, f} /\ e \in Nat /\ f \in Nat
      BY <2>3, <1>2
    <3> HIDE DEF E, e, f
    <3>2. e >= f \/ f >= e
      BY <3>1
    <3>3. e >= e /\ f >= f
      BY <3>1
    <3> QED BY <3>1, <3>2, <3>3
  <2> QED BY <2>1, <2>2, <2>3, <1>2
<1>4. Max(E) \in E
  <2> HIDE DEF E
  <2> QED BY <1>3 DEF Max
<1> QED BY <1>4

-----------------------------------------------------------------------------
(* Every step of the choice keeps its invariant. *)

\* A region of a report has bounds that are addresses.
LEMMA RegionType ==
    ASSUME regions \in Reports, NEW j \in 1 .. Len(regions)
    PROVE  /\ regions[j].base \in Nat /\ regions[j].limit \in Nat
           /\ regions[j].base \in 0 .. U64Max /\ regions[j].limit \in 0 .. U64Max
           /\ Len(regions) \in Nat
<1> DEFINE S == [base : 0 .. U64Max, limit : 0 .. U64Max, reserved : BOOLEAN, prot : BOOLEAN]
<1>1. regions[j] \in S
  <2>1. regions \in Seq(S)
    BY DEF Reports
  <2> HIDE DEF S
  <2> QED BY <2>1
<1>2. regions[j].base \in 0 .. U64Max /\ regions[j].limit \in 0 .. U64Max
  BY <1>1
<1>3. U64Max \in Nat /\ Len(regions) \in Nat
  BY SizeAssumption DEF Reports
<1> QED BY <1>2, <1>3

\* Nothing was chosen before anything is asked for.
LEMMA PlanInit == Init => PlanInv
<1> SUFFICES ASSUME Init PROVE PlanInv
  OBVIOUS
<1>1. PlanTypeOK
  <2>1. regions = <<>> /\ regions \in Reports /\ extra \in Spans
    BY SizeAssumption DEF Init, Reports, Spans
  <2>2. available \in Seq([base : 0 .. U64Max, size : Nat])
    BY DEF Init
  <2> QED BY <2>1, <2>2 DEF Init, PlanTypeOK
<1> QED BY <1>1 DEF Init, PlanInv, CheckInv, SearchInv, PlannedInv, LegacyInv, NoSpaceJustified

\* The request is looked at before the report.
LEMMA PlanMemoryStep ==
    ASSUME PlanInv, NEW rs \in RegionLists, NEW n \in AppSizes, NEW e \in Extras,
           PlanMemory(rs, n, e)
    PROVE  PlanInv'
<1>1. regions' = rs /\ app' = n /\ extra' = e /\ mpc = "idle" /\ available = <<>>
      /\ UNCHANGED <<available, candidate, owned>>
  BY DEF PlanInv, PlanTypeOK, PlanMemory
<1>2. regions' \in Reports /\ app' \in Nat /\ extra' \in Spans
  BY <1>1, ListAssumption
<1>3. CASE BadPlan(rs, n)
  <2>1. mpc' = "refused" /\ rc' = -1 /\ k' = k
    BY <1>3 DEF PlanMemory, Refuse
  <2>2. BadPlan(regions, app)'
    BY <1>1, <1>3 DEF BadPlan
  <2>3. PlanTypeOK'
    BY <1>1, <1>2, <2>1 DEF PlanInv, PlanTypeOK
  <2>4. NoSpaceJustified'
    BY <2>1, <2>2 DEF NoSpaceJustified
  <2> QED BY <2>1, <2>3, <2>4 DEF PlanInv, CheckInv, SearchInv, PlannedInv, LegacyInv
<1>4. CASE ~BadPlan(rs, n)
  <2>1. mpc' = "check" /\ k' = 1
    BY <1>4 DEF PlanMemory
  <2>2. ~BadPlan(regions, app)'
    BY <1>1, <1>4 DEF BadPlan
  <2>3. PlanTypeOK'
    BY <1>1, <1>2, <2>1, <2>2 DEF PlanInv, PlanTypeOK
  <2>4. CheckInv'
    <3>1. Len(regions') \in Nat
      BY <1>2 DEF Reports
    <3>2. ReportSound(0)' /\ AvailableFrom(0)'
      BY <1>1 DEF ReportSound, AvailableFrom
    <3> QED BY <2>1, <3>1, <3>2 DEF CheckInv
  <2> QED BY <2>1, <2>3, <2>4 DEF PlanInv, SearchInv, PlannedInv, LegacyInv, NoSpaceJustified
<1> QED BY <1>3, <1>4

\* A region is checked against those before it, and becomes a span if usable.
LEMMA CheckRegionStep ==
    ASSUME PlanInv, CheckRegion
    PROVE  PlanInv'
<1> DEFINE r == regions[k]
<1>1. mpc = "check" /\ k \in 1 .. Len(regions) /\ PlanTypeOK /\ Len(regions) \in Nat
      /\ ReportSound(k - 1) /\ AvailableFrom(k - 1)
  <2>1. Len(regions) \in Nat
    BY DEF PlanInv, PlanTypeOK, Reports
  <2> QED BY <2>1 DEF PlanInv, PlanTypeOK, CheckInv, CheckRegion
<1>2. UNCHANGED <<regions, app, extra, candidate, owned>>
  BY DEF CheckRegion
<1>6. PICK m \in Nat : m = k
  BY <1>1
<1>3. r.base \in 0 .. U64Max /\ r.base \in Nat /\ r.limit \in Nat
  BY <1>1, RegionType DEF PlanTypeOK
<1>4. CASE Inconsistent(r)
  <2>1. mpc' = "refused" /\ rc' = -1 /\ UNCHANGED <<available, k>>
    BY <1>4 DEF CheckRegion, Refuse
  <2>2. PlanTypeOK'
    BY <1>1, <1>2, <2>1 DEF PlanTypeOK
  <2>3. \E a, b \in 1 .. Len(regions) :
          \/ regions[a].base > regions[a].limit \/ regions[a].limit >= PhysEnd
          \/ a # b /\ regions[a].base <= regions[b].limit /\ regions[b].base <= regions[a].limit
    BY <1>1, <1>4 DEF Inconsistent
  <2>4. NoSpaceJustified'
    BY <1>2, <2>1, <2>3 DEF NoSpaceJustified
  <2> QED BY <2>1, <2>2, <2>4 DEF PlanInv, CheckInv, SearchInv, PlannedInv, LegacyInv
<1>5. CASE ~Inconsistent(r)
  <2>1. mpc' = "check" /\ k' = k + 1
        /\ available' = IF Usable(r) THEN Append(available, AsSpan(r)) ELSE available
    BY <1>1, <1>5 DEF CheckRegion, AsSpan
  <2>2. r.base <= r.limit /\ r.limit < PhysEnd
        /\ \A j \in 1 .. k - 1 : ~(r.base <= regions[j].limit /\ regions[j].base <= r.limit)
    <3>1. PhysEnd \in Nat
      BY Shape
    <3> QED BY <1>5, <1>3, <3>1 DEF Inconsistent
  <2>3. AsSpan(r) \in [base : 0 .. U64Max, size : Nat]
    BY <2>2, <1>3 DEF AsSpan
  <2>4. available \in Seq([base : 0 .. U64Max, size : Nat]) /\ Len(available) \in Nat
    BY <1>1 DEF PlanTypeOK
  <2>5. PlanTypeOK'
    <3>1. available' \in Seq([base : 0 .. U64Max, size : Nat])
      <4> DEFINE x == AsSpan(r)
                 S == [base : 0 .. U64Max, size : Nat]
      <4>1. available' = Append(available, x) \/ available' = available
        BY <2>1
      <4>2. x \in S /\ available \in Seq(S)
        BY <2>3, <2>4
      <4> HIDE DEF x, S
      <4>3. available' \in Seq(S)
        BY <4>1, <4>2
      <4> QED BY <4>3 DEF S
    <3>2. ~BadPlan(regions, app)'
      BY <1>1, <1>2 DEF PlanTypeOK, BadPlan
    <3> QED BY <1>1, <1>2, <2>1, <3>1, <3>2 DEF PlanTypeOK
  <2>6. ReportSound(m)'
    <3>1. \A j \in 1 .. m : j = m \/ j \in 1 .. k - 1
      BY <1>1, <1>6
    <3> QED BY <3>1, <2>2, <1>1, <1>2, <1>6 DEF ReportSound
  <2>7. AvailableFrom(m)'
    <3>1. \A j \in 1 .. m : j = m \/ j \in 1 .. k - 1
      BY <1>1, <1>6
    <3>2. m \in 1 .. m /\ \A j \in 1 .. k - 1 : j \in 1 .. m
      BY <1>1, <1>6
    <3>3. /\ \A a \in 1 .. Len(available) : \E j \in 1 .. m :
               Usable(regions[j]) /\ available[a] = AsSpan(regions[j])
          /\ \A j \in 1 .. k - 1 : Usable(regions[j]) =>
               \E a \in 1 .. Len(available) : available[a] = AsSpan(regions[j])
      BY <1>1, <3>2 DEF AvailableFrom
    <3>4. /\ \A a \in 1 .. Len(available') : \E j \in 1 .. m :
               Usable(regions[j]) /\ available'[a] = AsSpan(regions[j])
          /\ \A j \in 1 .. m : Usable(regions[j]) =>
               \E a \in 1 .. Len(available') : available'[a] = AsSpan(regions[j])
      <4>1. CASE Usable(r)
        <5>1. /\ Len(available') = Len(available) + 1
              /\ available'[Len(available) + 1] = AsSpan(r)
              /\ \A a \in 1 .. Len(available) : available'[a] = available[a]
          <6> DEFINE x == AsSpan(r)
          <6>1. available' = Append(available, x)
            BY <2>1, <4>1
          <6>2. x \in [base : 0 .. U64Max, size : Nat]
            BY <2>3
          <6> HIDE DEF x
          <6> QED BY <6>1, <6>2, <2>4 DEF x
        <5>2. \A a \in 1 .. Len(available) + 1 :
                a = Len(available) + 1 \/ a \in 1 .. Len(available)
          BY <2>4
        <5>3. \A a \in 1 .. Len(available) : a \in 1 .. Len(available')
          BY <5>1, <2>4
        <5>4. Len(available) + 1 \in 1 .. Len(available')
          BY <5>1, <2>4
        <5> HIDE DEF r
        <5>5. r = regions[m]
          BY <1>6 DEF r
        <5> QED BY <5>1, <5>2, <5>3, <5>4, <5>5, <3>1, <3>2, <3>3, <4>1
      <4>2. CASE ~Usable(r)
        <5>1. available' = available
          BY <2>1, <4>2
        <5> HIDE DEF r
        <5>5. r = regions[m]
          BY <1>6 DEF r
        <5> QED BY <5>1, <5>5, <4>2, <3>1, <3>3
      <4> QED BY <4>1, <4>2
    <3> QED BY <3>4, <1>2 DEF AvailableFrom, Usable, AsSpan
  <2>8. CheckInv'
    <3>1. m + 1 \in 1 .. Len(regions) + 1 /\ (m + 1) - 1 = m
      BY <1>1, <1>6
    <3>2. k' = m + 1
      BY <2>1, <1>6
    <3>3. ReportSound(k - 1)' /\ AvailableFrom(k - 1)'
      BY <3>1, <3>2, <2>6, <2>7 DEF ReportSound, AvailableFrom
    <3> QED BY <3>1, <3>2, <3>3, <2>1, <1>2 DEF CheckInv
  <2> QED BY <2>1, <2>5, <2>8 DEF PlanInv, SearchInv, PlannedInv, LegacyInv, NoSpaceJustified
<1> QED BY <1>4, <1>5

\* A span has a base and a size, and is one of the usable regions.
LEMMA SpanType ==
    ASSUME PlanTypeOK, NEW a \in 1 .. Len(available)
    PROVE  /\ available[a].base \in Nat /\ available[a].base \in 0 .. U64Max
           /\ available[a].size \in Nat /\ Len(available) \in Nat
<1> DEFINE S == [base : 0 .. U64Max, size : Nat]
<1>1. available[a] \in S /\ Len(available) \in Nat
  <2>1. available \in Seq(S)
    BY DEF PlanTypeOK
  <2> HIDE DEF S
  <2> QED BY <2>1
<1>2. available[a].base \in 0 .. U64Max /\ available[a].size \in Nat /\ U64Max \in Nat
  BY <1>1, SizeAssumption
<1> QED BY <1>1, <1>2

\* No place before the first multiple of Align in a span is aligned.
LEMMA NothingBefore ==
    ASSUME PlanTypeOK, NEW a \in 1 .. Len(available)
    PROVE  /\ BlockedBefore(available[a], align_up(available[a].base))
           /\ align_up(available[a].base) \in Nat /\ align_up(available[a].base) % Align = 0
           /\ align_up(available[a].base) >= available[a].base
<1> DEFINE v == available[a].base
           u == align_up(v)
<1>1. v \in Nat /\ U64Max \in Nat
  BY SpanType, SizeAssumption
<1> HIDE DEF v
<1>2. u \in Nat /\ v <= u /\ u % Align = 0 /\ \A x \in Nat : x >= v /\ x % Align = 0 => x >= u
  BY <1>1, AlignUp
<1> HIDE DEF u
<1>3. \A c \in 0 .. U64Max : ~(c % Align = 0 /\ v <= c /\ c < u)
  BY <1>1, <1>2
<1> QED BY <1>1, <1>2, <1>3 DEF u, v, BlockedBefore

\* What is in the way stays the same while the arguments do.
LEMMA SameObstacles ==
    ASSUME UNCHANGED <<app, extra>>
    PROVE  /\ total' = total /\ mapped' = mapped /\ excluded' = excluded
           /\ \A c : Blocked(c)' <=> Blocked(c)
BY DEF total, mapped, excluded, Blocked

\* The report and its spans stay sound while they do not change.
LEMMA SameReport ==
    ASSUME UNCHANGED <<regions, available>>, ReportSound(Len(regions)), AvailableFrom(Len(regions))
    PROVE  ReportSound(Len(regions))' /\ AvailableFrom(Len(regions))'
BY DEF ReportSound, AvailableFrom, AsSpan, Usable

\* The type of the plan, where only the position of the search changes.
LEMMA SamePlanType ==
    ASSUME PlanTypeOK, UNCHANGED <<regions, app, extra, available, owned>>,
           mpc \in {"check", "search"}, mpc' \in {"search", "planned", "refused"},
           k' \in Nat, candidate' \in Nat
    PROVE  PlanTypeOK'
<1>1. ~BadPlan(regions, app)'
  BY DEF PlanTypeOK, BadPlan
<1> QED BY <1>1 DEF PlanTypeOK

\* When all spans are known to be taken, there is no room in any region.
LEMMA NoRoom ==
    ASSUME PlanTypeOK, mpc \in {"check", "search"}, AvailableFrom(Len(regions)),
           ReportSound(Len(regions)),
           \A j \in 1 .. Len(available) : BlockedBefore(available[j], U64Max + 1),
           NEW c \in 0 .. PhysEnd - 1, NEW r \in GoodRegions,
           c % Align = 0, r.base <= c, c + total - 1 <= r.limit
    PROVE  Blocked(c)
<1>1. PICK j \in 1 .. Len(regions) : r = regions[j] /\ Usable(regions[j])
  BY DEF GoodRegions, Usable
<1>2. PICK a \in 1 .. Len(available) : available[a] = AsSpan(r)
  BY <1>1 DEF AvailableFrom
<1>3. r.base \in Nat /\ r.limit \in 0 .. U64Max /\ U64Max \in Nat /\ r.limit \in Nat
  BY <1>1, RegionType, SizeAssumption DEF PlanTypeOK
<1>4. total \in Nat \ {0} /\ c \in Nat
  BY TotalSize, Shape DEF PlanTypeOK
<1>5. c \in 0 .. U64Max /\ c < U64Max + 1 /\ c + total <= r.base + (r.limit - r.base + 1)
  BY <1>3, <1>4
<1>6. available[a].base = r.base /\ available[a].size = r.limit - r.base + 1
  BY <1>2 DEF AsSpan
<1> QED BY <1>5, <1>6 DEF BlockedBefore

\* A span in which nothing is free is left for the next one, or for good.
LEMMA PassSpan ==
    ASSUME PlanInv, mpc = "search", BlockedBefore(available[k], U64Max + 1), NextSpan,
           UNCHANGED <<regions, app, extra, available, owned>>
    PROVE  PlanInv'
<1>1. /\ k \in 1 .. Len(available) /\ PlanTypeOK /\ Len(available) \in Nat
      /\ ReportSound(Len(regions)) /\ AvailableFrom(Len(regions))
      /\ \A s \in excluded : span_valid(s)
      /\ \A j \in 1 .. k - 1 : BlockedBefore(available[j], U64Max + 1)
  <2>1. Len(available) \in Nat
    BY DEF PlanInv, PlanTypeOK
  <2> QED BY <2>1 DEF PlanInv, SearchInv
<1>2. \A j \in 1 .. k : BlockedBefore(available[j], U64Max + 1)
  <2>1. \A j \in 1 .. k : j = k \/ j \in 1 .. k - 1
    BY <1>1
  <2> QED BY <2>1, <1>1
<1>3. ReportSound(Len(regions))' /\ AvailableFrom(Len(regions))'
  BY <1>1, SameReport
<1>4. CASE k < Len(available)
  <2>1. mpc' = "search" /\ k' = k + 1 /\ candidate' = align_up(available[k + 1].base)
    BY <1>4 DEF NextSpan
  <2>2. k + 1 \in 1 .. Len(available) /\ (k + 1) - 1 = k /\ k + 1 \in Nat
    BY <1>1, <1>4
  <2>3. /\ BlockedBefore(available[k + 1], candidate') /\ candidate' \in Nat
        /\ candidate' % Align = 0 /\ candidate' >= available[k + 1].base
    BY <2>1, <2>2, <1>1, NothingBefore
  <2>4. PlanTypeOK'
    BY <1>1, <2>1, <2>2, <2>3, SamePlanType
  <2>5. SearchInv'
    <3>1. /\ \A j \in 1 .. k' - 1 : BlockedBefore(available[j], U64Max + 1)
          /\ BlockedBefore(available[k'], candidate')
      BY <2>1, <2>2, <2>3, <1>2
    <3>2. /\ (\A j \in 1 .. k - 1 : BlockedBefore(available[j], U64Max + 1))'
          /\ BlockedBefore(available[k], candidate)'
      BY <3>1, SameObstacles DEF BlockedBefore
    <3>3. (\A s \in excluded : span_valid(s))'
      BY <1>1, SameObstacles DEF span_valid
    <3>4. k' \in 1 .. Len(available') /\ candidate' % Align = 0 /\ candidate' >= available'[k'].base
      BY <2>1, <2>2, <2>3
    <3> QED BY <3>2, <3>3, <3>4, <1>3 DEF SearchInv
  <2> QED BY <2>1, <2>4, <2>5 DEF PlanInv, CheckInv, PlannedInv, LegacyInv, NoSpaceJustified
<1>5. CASE ~(k < Len(available))
  <2>1. mpc' = "refused" /\ rc' = -2 /\ UNCHANGED <<k, candidate>> /\ k = Len(available)
    BY <1>1, <1>5 DEF NextSpan, Refuse
  <2>2. PlanTypeOK'
    <3>1. k' \in Nat /\ candidate' \in Nat
      BY <1>1, <2>1 DEF PlanTypeOK
    <3> QED BY <3>1, <1>1, <2>1, SamePlanType
  <2>3. NoSpaceJustified'
    <3>1. ASSUME NEW c \in 0 .. PhysEnd - 1, NEW r \in GoodRegions, c % Align = 0, r.base <= c,
                 c + total - 1 <= r.limit
          PROVE  Blocked(c)
      BY <3>1, <2>1, <1>1, <1>2, NoRoom
    <3>2. \A c \in 0 .. PhysEnd - 1 : \A r \in GoodRegions :
            c % Align = 0 /\ r.base <= c /\ c + total - 1 <= r.limit
              => \E s \in excluded : Overlaps(c, total, s.base, s.size)
      BY <3>1 DEF Blocked
    <3>3. total' = total /\ excluded' = excluded /\ GoodRegions' = GoodRegions
      BY SameObstacles DEF GoodRegions
    <3>4. (\A c \in 0 .. PhysEnd - 1 : \A r \in GoodRegions :
            c % Align = 0 /\ r.base <= c /\ c + total - 1 <= r.limit
              => \E s \in excluded : Overlaps(c, total, s.base, s.size))'
      BY <3>2, <3>3 DEF Overlaps
    <3> QED BY <3>4, <2>1 DEF NoSpaceJustified
  <2> QED BY <2>1, <2>2, <2>3 DEF PlanInv, CheckInv, SearchInv, PlannedInv, LegacyInv
<1> QED BY <1>4, <1>5

\* The first span is entered, unless there is none or the console's area is
\* not one.
LEMMA FindRangeStep ==
    ASSUME PlanInv, FindRange
    PROVE  PlanInv'
<1>1. /\ mpc = "check" /\ PlanTypeOK /\ Len(regions) \in Nat /\ Len(available) \in Nat
      /\ ReportSound(Len(regions)) /\ AvailableFrom(Len(regions))
  <2>1. mpc = "check" /\ PlanTypeOK /\ Len(regions) \in Nat /\ Len(available) \in Nat
    BY DEF PlanInv, PlanTypeOK, Reports, FindRange
  <2>2. k \in 1 .. Len(regions) + 1 /\ k > Len(regions) /\ ReportSound(k - 1) /\ AvailableFrom(k - 1)
    BY <2>1 DEF PlanInv, CheckInv, FindRange
  <2>3. k - 1 = Len(regions)
    BY <2>1, <2>2
  <2> QED BY <2>1, <2>2, <2>3
<1>2. UNCHANGED <<regions, app, extra, available, owned>>
  BY DEF FindRange
<1>3. CASE available = <<>>
  <2>1. mpc' = "refused" /\ rc' = -2 /\ UNCHANGED <<k, candidate>>
    BY <1>3 DEF FindRange, Refuse
  <2>2. PlanTypeOK'
    <3>1. k' \in Nat /\ candidate' \in Nat
      BY <1>1, <2>1 DEF PlanTypeOK
    <3> QED BY <3>1, <1>1, <1>2, <2>1, SamePlanType
  <2>3. GoodRegions = {}
    <3>1. \A j \in 1 .. Len(regions) : ~Usable(regions[j])
      <4>1. 1 .. Len(available) = {}
        BY <1>3
      <4> QED BY <4>1, <1>1 DEF AvailableFrom
    <3> QED BY <3>1 DEF GoodRegions, Usable
  <2>4. NoSpaceJustified'
    BY <1>2, <2>1, <2>3 DEF NoSpaceJustified, GoodRegions
  <2> QED BY <2>1, <2>2, <2>4 DEF PlanInv, CheckInv, SearchInv, PlannedInv, LegacyInv
<1>4. CASE available # <<>> /\ \E s \in excluded : ~span_valid(s)
  <2>1. mpc' = "refused" /\ rc' = -1 /\ UNCHANGED <<k, candidate>>
    BY <1>4 DEF FindRange, Refuse
  <2>2. PlanTypeOK'
    <3>1. k' \in Nat /\ candidate' \in Nat
      BY <1>1, <2>1 DEF PlanTypeOK
    <3> QED BY <3>1, <1>1, <1>2, <2>1, SamePlanType
  <2>3. extra.size # 0 /\ ~span_valid(extra)
    <3>1. span_valid([base |-> 0, size |-> LowEnd])
      BY SizeAssumption DEF span_valid
    <3>2. extra \in excluded /\ ~span_valid(extra) /\ extra.size > 0
      BY <1>4, <3>1 DEF excluded
    <3>3. extra.size \in Nat
      BY <1>1, <3>2, ExcludedSpans DEF PlanTypeOK
    <3> QED BY <3>2, <3>3
  <2>4. NoSpaceJustified'
    BY <1>2, <2>1, <2>3 DEF NoSpaceJustified, span_valid
  <2> QED BY <2>1, <2>2, <2>4 DEF PlanInv, CheckInv, SearchInv, PlannedInv, LegacyInv
<1>5. CASE available # <<>> /\ \A s \in excluded : span_valid(s)
  <2>1. mpc' = "search" /\ k' = 1 /\ candidate' = align_up(available[1].base)
    BY <1>5 DEF FindRange
  <2>2. 1 \in 1 .. Len(available)
    <3> DEFINE S == [base : 0 .. U64Max, size : Nat]
    <3>1. available \in Seq(S)
      BY <1>1 DEF PlanTypeOK
    <3> HIDE DEF S
    <3> QED BY <3>1, <1>1, <1>5
  <2>3. /\ BlockedBefore(available[1], candidate') /\ candidate' \in Nat
        /\ candidate' % Align = 0 /\ candidate' >= available[1].base
    BY <2>1, <2>2, <1>1, NothingBefore
  <2>4. PlanTypeOK'
    BY <1>1, <1>2, <2>1, <2>3, SamePlanType
  <2>5. SearchInv'
    <3>1. ReportSound(Len(regions))' /\ AvailableFrom(Len(regions))'
      BY <1>1, <1>2, SameReport
    <3>2. BlockedBefore(available[k], candidate)'
      BY <2>1, <2>3, <1>2, SameObstacles DEF BlockedBefore
    <3>3. (\A s \in excluded : span_valid(s))'
      BY <1>2, <1>5, SameObstacles DEF span_valid
    <3>4. /\ k' \in 1 .. Len(available') /\ candidate' % Align = 0
          /\ candidate' >= available'[k'].base /\ 1 .. k' - 1 = {}
      BY <2>1, <2>2, <2>3, <1>2
    <3> QED BY <3>1, <3>2, <3>3, <3>4 DEF SearchInv
  <2> QED BY <2>1, <2>4, <2>5 DEF PlanInv, CheckInv, PlannedInv, LegacyInv, NoSpaceJustified
<1> QED BY <1>3, <1>4, <1>5

\* What the search knows of the span it is in.
LEMMA SearchState ==
    ASSUME PlanInv, mpc = "search"
    PROVE  /\ PlanTypeOK /\ k \in 1 .. Len(available) /\ candidate \in Nat
           /\ available[k].base \in Nat /\ available[k].size \in Nat /\ SpanEnd \in Nat
           /\ total \in Nat \ {0} /\ candidate >= available[k].base /\ candidate % Align = 0
           /\ BlockedBefore(available[k], candidate)
           /\ \A s \in excluded : s.base \in Nat /\ s.size \in Nat
           /\ U64Max \in Nat
<1>1. /\ PlanTypeOK /\ k \in 1 .. Len(available) /\ candidate \in Nat
      /\ candidate >= available[k].base /\ candidate % Align = 0
      /\ BlockedBefore(available[k], candidate)
  BY DEF PlanInv, SearchInv, PlanTypeOK
<1>2. available[k].base \in Nat /\ available[k].size \in Nat
  BY <1>1, SpanType
<1>3. total \in Nat \ {0}
  BY <1>1, TotalSize DEF PlanTypeOK
<1>4. \A s \in excluded : s.base \in Nat /\ s.size \in Nat
  BY <1>1, ExcludedSpans DEF PlanTypeOK
<1>5. SpanEnd \in Nat /\ U64Max \in Nat
  BY <1>2, SizeAssumption DEF SpanEnd
<1> QED BY <1>1, <1>2, <1>3, <1>4, <1>5

\* Past the last place where it fits, nothing of the span is left.
LEMMA LeaveSpanStep ==
    ASSUME PlanInv, LeaveSpan
    PROVE  PlanInv'
<1>1. mpc = "search" /\ ~Fits /\ NextSpan /\ UNCHANGED <<regions, app, extra, available, owned>>
  BY DEF LeaveSpan
<1>2. ASSUME NEW c \in 0 .. U64Max, c % Align = 0, available[k].base <= c,
             c + total <= available[k].base + available[k].size
      PROVE  Blocked(c)
  <2>1. c \in Nat /\ c + total <= SpanEnd
    BY <1>2, <1>1, SearchState DEF SpanEnd
  <2>2. c < candidate
    BY <2>1, <1>1, SearchState DEF Fits
  <2> QED BY <1>1, <1>2, <2>2, SearchState DEF BlockedBefore
<1>3. BlockedBefore(available[k], U64Max + 1)
  BY <1>2 DEF BlockedBefore
<1> QED BY <1>1, <1>3, PassSpan

\* Every place between the candidate and the end of what it hit is hit too.
LEMMA SkipExcludedStep ==
    ASSUME PlanInv, SkipExcluded
    PROVE  PlanInv'
<1> DEFINE next == Max({s.base + s.size : s \in Hit})
<1>1. /\ mpc = "search" /\ Fits /\ Hit # {}
      /\ UNCHANGED <<regions, app, extra, available, owned>>
      /\ IF align_up_fails(next) THEN NextSpan
         ELSE candidate' = align_up(next) /\ UNCHANGED <<mpc, k, rc>>
  BY DEF SkipExcluded
<1>2. PICK s \in Hit : next = s.base + s.size
  BY <1>1, SearchState, NextIsAnEnd DEF PlanTypeOK
<1> HIDE DEF next
<1>3. s \in excluded /\ candidate < s.base + s.size /\ s.base < candidate + total
  BY DEF Hit
<1>4. s.base \in Nat /\ s.size \in Nat /\ next \in Nat /\ candidate < next
  BY <1>1, <1>2, <1>3, SearchState
<1>5. ASSUME NEW c \in 0 .. U64Max, c % Align = 0, available[k].base <= c, c < next,
             c + total <= available[k].base + available[k].size
      PROVE  Blocked(c)
  <2>1. CASE c < candidate
    BY <1>1, <1>5, <2>1, SearchState DEF BlockedBefore
  <2>2. CASE c >= candidate
    <3>1. c < s.base + s.size /\ s.base < c + total
      BY <1>1, <1>2, <1>3, <1>4, <1>5, <2>2, SearchState
    <3> QED BY <3>1, <1>3 DEF Blocked, Overlaps
  <2> QED BY <2>1, <2>2, <1>1, SearchState
<1>6. CASE align_up_fails(next)
  <2>1. \A c \in 0 .. U64Max : c % Align = 0 => c < next
    BY <1>4, <1>6, AlignUpFails
  <2>2. BlockedBefore(available[k], U64Max + 1)
    BY <2>1, <1>5 DEF BlockedBefore
  <2>3. NextSpan
    BY <1>1, <1>6
  <2> QED BY <2>2, <2>3, <1>1, PassSpan
<1>7. CASE ~align_up_fails(next)
  <2>1. candidate' = align_up(next) /\ mpc' = "search" /\ k' = k
    BY <1>1, <1>7
  <2> DEFINE u == align_up(next)
  <2>2. u \in Nat /\ next <= u /\ u % Align = 0 /\ \A x \in Nat : x >= next /\ x % Align = 0 => x >= u
    BY <1>4, AlignUp
  <2> HIDE DEF u
  <2>3. candidate' = u
    BY <2>1 DEF u
  <2>4. PlanTypeOK'
    <3>1. k' \in Nat /\ candidate' \in Nat
      BY <1>1, <2>1, <2>2, <2>3, SearchState DEF PlanTypeOK
    <3> QED BY <3>1, <1>1, <2>1, SearchState, SamePlanType
  <2>5. ASSUME NEW c \in 0 .. U64Max, c % Align = 0, available[k].base <= c, c < u,
               c + total <= available[k].base + available[k].size
        PROVE  Blocked(c)
    <3>1. c < next
      <4>1. c \in Nat
        BY <1>1, SearchState
      <4> QED BY <4>1, <2>5, <2>2, <1>4
    <3> QED BY <3>1, <2>5, <1>5
  <2>6. SearchInv'
    <3>1. ReportSound(Len(regions))' /\ AvailableFrom(Len(regions))'
      BY <1>1, SameReport DEF PlanInv, SearchInv
    <3>2. BlockedBefore(available[k], candidate)'
      BY <2>1, <2>3, <2>5, <1>1, SameObstacles DEF BlockedBefore
    <3>3. (\A t \in excluded : span_valid(t))'
      BY <1>1, SameObstacles DEF span_valid, PlanInv, SearchInv
    <3>4. (\A j \in 1 .. k - 1 : BlockedBefore(available[j], U64Max + 1))'
      BY <1>1, <2>1, SameObstacles DEF PlanInv, SearchInv, BlockedBefore
    <3>5. /\ k' \in 1 .. Len(available') /\ candidate' % Align = 0
          /\ candidate' >= available'[k'].base
      BY <2>1, <2>2, <2>3, <1>1, <1>4, SearchState
    <3> QED BY <3>1, <3>2, <3>3, <3>4, <3>5 DEF SearchInv
  <2> QED BY <2>1, <2>4, <2>6 DEF PlanInv, CheckInv, PlannedInv, LegacyInv, NoSpaceJustified
<1> QED BY <1>6, <1>7

\* A place that fits and hits nothing is inside a usable region.
LEMMA TakeStep ==
    ASSUME PlanInv, Take
    PROVE  PlanInv'
<1>1. /\ mpc = "search" /\ Fits /\ Hit = {} /\ mpc' = "planned" /\ owned' = candidate
      /\ range' = range_plan(AppVa, mapped, candidate + mapped) /\ rc' = 0
      /\ UNCHANGED <<regions, app, extra, available, k, candidate>>
  BY DEF Take
<1>2. AvailableFrom(Len(regions)) /\ ReportSound(Len(regions)) /\ PlanTypeOK
  BY <1>1 DEF PlanInv, SearchInv
<1>3. PICK j \in 1 .. Len(regions) : Usable(regions[j]) /\ available[k] = AsSpan(regions[j])
  BY <1>1, <1>2, SearchState DEF AvailableFrom
<1>4. /\ regions[j].limit < PhysEnd /\ regions[j].base <= candidate
      /\ candidate + total <= regions[j].limit + 1
  <2>1. regions[j].base \in Nat /\ regions[j].limit \in Nat
    BY <1>2, RegionType DEF PlanTypeOK
  <2>2. available[k].base = regions[j].base
        /\ available[k].size = regions[j].limit - regions[j].base + 1
    BY <1>3 DEF AsSpan
  <2>3. SpanEnd = regions[j].limit + 1
    BY <2>1, <2>2 DEF SpanEnd
  <2>4. candidate + total <= SpanEnd
    BY <1>1, SearchState DEF Fits
  <2>5. regions[j].limit < PhysEnd
    BY <1>2 DEF ReportSound
  <2> QED BY <2>2, <2>3, <2>4, <2>5, <1>1, SearchState
<1>5. PlanTypeOK'
  <2>1. ~BadPlan(regions, app)'
    BY <1>1, <1>2 DEF PlanTypeOK, BadPlan
  <2> QED BY <2>1, <1>1, <1>2 DEF PlanTypeOK
<1>6. PlannedInv'
  <2>1. \A s \in excluded : ~(candidate < s.base + s.size /\ s.base < candidate + total)
    BY <1>1 DEF Hit
  <2>2. excluded' = excluded /\ total' = total /\ mapped' = mapped
    BY <1>1, SameObstacles
  <2>3. (\A s \in excluded : ~(owned < s.base + s.size /\ s.base < owned + total))'
    BY <2>1, <2>2, <1>1
  <2>4. (\E x \in 1 .. Len(regions) :
           /\ Usable(regions[x]) /\ regions[x].limit < PhysEnd
           /\ regions[x].base <= owned /\ owned + total <= regions[x].limit + 1)'
    BY <1>1, <1>3, <1>4, <2>2 DEF Usable
  <2>5. (range = range_plan(AppVa, mapped, owned + mapped) /\ rc = 0)'
    BY <1>1, <2>2
  <2> QED BY <2>3, <2>4, <2>5 DEF PlannedInv
<1> QED BY <1>1, <1>5, <1>6 DEF PlanInv, CheckInv, SearchInv, LegacyInv, NoSpaceJustified

\* The older choice takes what it looked at.
LEMMA ChooseLegacyStep ==
    ASSUME PlanInv, NEW rs \in RegionLists, ChooseLegacy(rs)
    PROVE  PlanInv'
<1>1. /\ mpc = "idle" /\ regions' = rs /\ UNCHANGED <<app, extra, available, k, candidate>>
      /\ PlanTypeOK /\ rs \in Reports /\ regions' \in Reports
  BY ListAssumption DEF ChooseLegacy, PlanInv
<1>2. CASE \E j \in 1 .. Len(rs) : HasRoom(rs[j]) /\ mpc' = "legacy"
           /\ owned' = IF RoomAt(rs[j], Base(rs[j]) + Deep) THEN Base(rs[j]) + Deep ELSE Base(rs[j])
  <2>1. PICK j \in 1 .. Len(rs) :
             /\ HasRoom(rs[j]) /\ mpc' = "legacy"
             /\ owned' = IF RoomAt(rs[j], Base(rs[j]) + Deep) THEN Base(rs[j]) + Deep
                                                             ELSE Base(rs[j])
    BY <1>2
  <2> DEFINE r == rs[j]
             b == Base(r)
  <2>2. r.base \in Nat /\ r.limit \in Nat
    <3>1. j \in 1 .. Len(regions') /\ regions' \in Reports
      BY <1>1
    <3>2. regions'[j].base \in Nat /\ regions'[j].limit \in Nat
      <4> DEFINE S == [base : 0 .. U64Max, limit : 0 .. U64Max, reserved : BOOLEAN, prot : BOOLEAN]
      <4>1. regions'[j] \in S
        <5>1. regions' \in Seq(S)
          BY <3>1 DEF Reports
        <5> HIDE DEF S
        <5> QED BY <3>1, <5>1
      <4>2. U64Max \in Nat
        BY SizeAssumption
      <4> QED BY <4>1, <4>2
    <3> QED BY <3>2, <1>1
  <2>3. b \in Nat /\ b >= r.base
    <3> DEFINE w == r.base + ServicePages - 1
               d == w \div ServicePages
               m == w % ServicePages
    <3>2. b = d * ServicePages
      BY DEF Base
    <3>5. ServicePages \in Nat \ {0}
      BY SizeAssumption
    <3> HIDE DEF r
    <3>1. ServicePages \in Nat \ {0} /\ w \in Nat /\ w = r.base + ServicePages - 1
      BY <2>2, <3>5
    <3> HIDE DEF w
    <3>6. w \in Int
      BY <3>1
    <3>3. d \in Int /\ m \in 0 .. ServicePages - 1 /\ w = ServicePages * d + m
      BY <3>5, <3>6, DivMod
    <3> HIDE DEF d, m, b
    <3>4. d * ServicePages = ServicePages * d /\ ServicePages * d \in Int
      BY <3>1, <3>3, Z3
    <3> QED BY <3>1, <3>2, <3>3, <3>4, <2>2
  <2>4. Usable(r) /\ owned' \in Nat /\ r.base <= owned' /\ owned' + ServicePages - 1 <= r.limit
    <3>1. Deep \in Nat /\ Usable(r) /\ RoomAt(r, b)
      BY <2>1, SizeAssumption DEF HasRoom
    <3>2. owned' = IF RoomAt(r, b + Deep) THEN b + Deep ELSE b
      BY <2>1
    <3> HIDE DEF r, b
    <3> QED BY <3>1, <3>2, <2>2, <2>3 DEF RoomAt
  <2>5. PlanTypeOK'
    BY <1>1, <2>1, <2>4 DEF PlanTypeOK
  <2>6. LegacyInv'
    BY <1>1, <2>4 DEF LegacyInv, Usable
  <2> QED BY <2>1, <2>5, <2>6 DEF PlanInv, CheckInv, SearchInv, PlannedInv, NoSpaceJustified
<1>3. CASE mpc' = "none" /\ UNCHANGED owned
  <2>1. PlanTypeOK'
    BY <1>1, <1>3 DEF PlanTypeOK
  <2> QED BY <1>3, <2>1 DEF PlanInv, CheckInv, SearchInv, PlannedInv, LegacyInv, NoSpaceJustified
<1> QED BY <1>2, <1>3 DEF ChooseLegacy

\* Where the plan lies: inside the VRAM, the tables behind the data.
LEMMA PlannedPlace ==
    ASSUME PlanTypeOK, PlannedInv, mpc = "planned"
    PROVE  /\ owned \in Nat /\ mapped \in Nat \ {0} /\ TableBytes(AppVa, mapped) \in Nat \ {0}
           /\ owned + mapped + TableBytes(AppVa, mapped) + ChannelPages <= PhysEnd
           /\ owned + mapped <= PhysEnd
           /\ range = range_plan(AppVa, mapped, owned + mapped)
           /\ range.va = AppVa /\ range.n = mapped /\ range.table_phys = owned + mapped
           /\ range.table_bytes = TableBytes(AppVa, mapped)
           /\ ~BuildInvalid(owned)
<1>1. PICK j \in 1 .. Len(regions) :
           /\ regions[j].limit < PhysEnd /\ owned + total <= regions[j].limit + 1
  BY DEF PlannedInv
<1>2. regions[j].limit \in Nat /\ owned \in Nat /\ PhysEnd \in Nat
  BY RegionType, Shape DEF PlanTypeOK
<1>3. mapped \in Nat \ {0} /\ TableBytes(AppVa, mapped) \in Nat \ {0} /\ ChannelPages \in Nat \ {0}
      /\ total \in Nat \ {0}
  BY TotalSize, SizeAssumption DEF PlanTypeOK
<1>4. total = mapped + TableBytes(AppVa, mapped) + ChannelPages
  BY DEF total
<1>5. /\ owned + mapped + TableBytes(AppVa, mapped) + ChannelPages <= PhysEnd
      /\ owned + mapped < PhysEnd
  <2>1. owned + total <= PhysEnd /\ total \in Nat
    BY <1>1, <1>2, <1>3
  <2> DEFINE t == TableBytes(AppVa, mapped)
  <2>2. total = mapped + t + ChannelPages /\ mapped \in Nat /\ t \in Nat \ {0}
    BY <1>3, <1>4
  <2> HIDE DEF t
  <2>3. owned + mapped + t + ChannelPages <= PhysEnd /\ owned + mapped < PhysEnd
    BY <2>1, <2>2, <1>2, <1>3
  <2> QED BY <2>3 DEF t
<1>6. range = range_plan(AppVa, mapped, owned + mapped)
  BY DEF PlannedInv
<1>7. /\ range.va = AppVa /\ range.n = mapped /\ range.table_phys = owned + mapped
      /\ range.table_bytes = TableBytes(AppVa, mapped)
  BY <1>6 DEF range_plan
<1>8. ~BuildInvalid(owned)
  BY <1>2, <1>3, <1>5, <1>7 DEF BuildInvalid, Overlaps
<1> QED BY <1>2, <1>3, <1>5, <1>6, <1>7, <1>8

\* Building tables does not touch the choice.
LEMMA BuildKeepsPlan ==
    ASSUME PlanInv, UNCHANGED mvars, mpc # "refused",
           mpc = "planned" => range' = range /\ rc' = 0
    PROVE  PlanInv'
<1>1. PlanTypeOK'
  BY DEF PlanInv, PlanTypeOK, mvars, BadPlan
<1>2. CheckInv' /\ LegacyInv'
  BY DEF PlanInv, CheckInv, LegacyInv, mvars, ReportSound, AvailableFrom, Usable, AsSpan
<1>3. UNCHANGED <<app, extra, regions, owned>>
  BY DEF mvars
<1>4. total' = total /\ mapped' = mapped /\ excluded' = excluded
  BY <1>3, SameObstacles
<1>5. PlannedInv'
  BY <1>3, <1>4 DEF PlanInv, PlannedInv, mvars, Usable
<1>6. SearchInv'
  <2>1. UNCHANGED <<regions, available>> /\ UNCHANGED <<mpc, k, candidate>>
    BY DEF mvars
  <2>2. CASE mpc = "search"
    <3>1. ReportSound(Len(regions))' /\ AvailableFrom(Len(regions))'
      BY <2>1, <2>2, SameReport DEF PlanInv, SearchInv
    <3>2. /\ (\A j \in 1 .. k - 1 : BlockedBefore(available[j], U64Max + 1))'
          /\ BlockedBefore(available[k], candidate)'
      BY <2>1, <2>2, <1>3, SameObstacles DEF PlanInv, SearchInv, BlockedBefore
    <3>3. (\A t \in excluded : span_valid(t))'
      BY <1>4, <2>2 DEF span_valid, PlanInv, SearchInv
    <3>4. /\ k' \in 1 .. Len(available') /\ candidate' % Align = 0
          /\ candidate' >= available'[k'].base
      BY <2>1, <2>2 DEF PlanInv, SearchInv
    <3> QED BY <3>1, <3>2, <3>3, <3>4 DEF SearchInv
  <2> QED BY <2>1, <2>2 DEF SearchInv
<1>7. NoSpaceJustified'
  BY DEF NoSpaceJustified, mvars
<1> QED BY <1>1, <1>2, <1>5, <1>6, <1>7 DEF PlanInv

-----------------------------------------------------------------------------
(* What the invariant of the choice says of the layout. *)

\* The four parts follow one another and take all that was searched for.
LEMMA PartsInOrder ==
    ASSUME PlanTypeOK, PlannedInv, mpc = "planned"
    PROVE  \E S, A, T, C \in Nat :
             /\ owned \in Nat /\ total = S + A + T + C /\ S + A > 0
             /\ \A p \in Parts :
                  \/ p = <<owned, S>> /\ p[1] = owned /\ p[2] = S
                  \/ p = <<owned + S, A>> /\ p[1] = owned + S /\ p[2] = A
                  \/ p = <<owned + S + A, T>> /\ p[1] = owned + S + A /\ p[2] = T
                  \/ p = <<owned + S + A + T, C>> /\ p[1] = owned + S + A + T /\ p[2] = C
<1> DEFINE T == TableBytes(AppVa, mapped)
<1>1. owned \in Nat /\ T \in Nat /\ range.table_phys = owned + mapped /\ range.table_bytes = T
  BY PlannedPlace
<1>2. mapped = ServicePages + app /\ total = mapped + T + ChannelPages
  BY DEF mapped, total
<1>3. ServicePages \in Nat \ {0} /\ app \in Nat /\ ChannelPages \in Nat
  BY SizeAssumption DEF PlanTypeOK
<1> HIDE DEF T
<1>4. total = ServicePages + app + T + ChannelPages /\ ServicePages + app > 0
      /\ owned + mapped = owned + ServicePages + app
  BY <1>1, <1>2, <1>3
<1>5. Parts = {<<owned, ServicePages>>, <<owned + ServicePages, app>>,
               <<owned + ServicePages + app, T>>, <<owned + ServicePages + app + T, ChannelPages>>}
  BY <1>1, <1>4 DEF Parts, service_phys, app_phys, channel_phys
<1>6. \A p \in Parts :
        \/ p = <<owned, ServicePages>> /\ p[1] = owned /\ p[2] = ServicePages
        \/ p = <<owned + ServicePages, app>> /\ p[1] = owned + ServicePages /\ p[2] = app
        \/ p = <<owned + ServicePages + app, T>> /\ p[1] = owned + ServicePages + app /\ p[2] = T
        \/ p = <<owned + ServicePages + app + T, ChannelPages>>
           /\ p[1] = owned + ServicePages + app + T /\ p[2] = ChannelPages
  BY <1>5
<1> DEFINE Ok(S, A, U, C) ==
             /\ owned \in Nat /\ total = S + A + U + C /\ S + A > 0
             /\ \A p \in Parts :
                  \/ p = <<owned, S>> /\ p[1] = owned /\ p[2] = S
                  \/ p = <<owned + S, A>> /\ p[1] = owned + S /\ p[2] = A
                  \/ p = <<owned + S + A, U>> /\ p[1] = owned + S + A /\ p[2] = U
                  \/ p = <<owned + S + A + U, C>> /\ p[1] = owned + S + A + U /\ p[2] = C
<1>7. Ok(ServicePages, app, T, ChannelPages)
  BY <1>1, <1>4, <1>6
<1>8. \E S, A, U, C \in Nat : Ok(S, A, U, C)
  <2>1. ServicePages \in Nat /\ app \in Nat /\ T \in Nat /\ ChannelPages \in Nat
    BY <1>1, <1>3
  <2> HIDE DEF Ok
  <2> QED BY <2>1, <1>7
<1> QED BY <1>8

\* The invariant of the choice makes every layout safe.
LEMMA LayoutFromPlan ==
    ASSUME PlanInv
    PROVE  LayoutIsSafe
<1>1. ASSUME mpc = "planned"
      PROVE  /\ \A p, q \in Parts : p # q => ~Overlaps(p[1], p[2], q[1], q[2])
             /\ \A p \in Parts : \A s \in excluded : ~Overlaps(p[1], p[2], s.base, s.size)
             /\ \E r \in GoodRegions : \A p \in Parts : r.base <= p[1] /\ p[1] + p[2] - 1 <= r.limit
             /\ rc = 0
  <2>1. PlanTypeOK /\ PlannedInv
    BY DEF PlanInv
  <2>2. PICK S, A, T, C \in Nat :
          /\ owned \in Nat /\ total = S + A + T + C /\ S + A > 0
          /\ \A p \in Parts :
               \/ p = <<owned, S>> /\ p[1] = owned /\ p[2] = S
               \/ p = <<owned + S, A>> /\ p[1] = owned + S /\ p[2] = A
               \/ p = <<owned + S + A, T>> /\ p[1] = owned + S + A /\ p[2] = T
               \/ p = <<owned + S + A + T, C>> /\ p[1] = owned + S + A + T /\ p[2] = C
    BY <1>1, <2>1, PartsInOrder
  <2>3. ASSUME NEW p \in Parts
        PROVE  /\ p[1] \in Nat /\ p[2] \in Nat /\ owned <= p[1] /\ p[1] + p[2] <= owned + total
    BY <2>2
  <2>4. ASSUME NEW p \in Parts, NEW q \in Parts, p # q
        PROVE  ~Overlaps(p[1], p[2], q[1], q[2])
    <3> DEFINE Is(x, a, n) == x = <<a, n>> /\ x[1] = a /\ x[2] = n
    <3>1. \/ Is(p, owned, S) \/ Is(p, owned + S, A) \/ Is(p, owned + S + A, T)
          \/ Is(p, owned + S + A + T, C)
      BY <2>2
    <3>2. \/ Is(q, owned, S) \/ Is(q, owned + S, A) \/ Is(q, owned + S + A, T)
          \/ Is(q, owned + S + A + T, C)
      BY <2>2
    <3>3. CASE Is(p, owned, S)
      BY <3>2, <3>3, <2>2, <2>4 DEF Overlaps
    <3>4. CASE Is(p, owned + S, A)
      BY <3>2, <3>4, <2>2, <2>4 DEF Overlaps
    <3>5. CASE Is(p, owned + S + A, T)
      BY <3>2, <3>5, <2>2, <2>4 DEF Overlaps
    <3>6. CASE Is(p, owned + S + A + T, C)
      BY <3>2, <3>6, <2>2, <2>4 DEF Overlaps
    <3> HIDE DEF Is
    <3> QED BY <3>1, <3>3, <3>4, <3>5, <3>6
  <2>5. ASSUME NEW p \in Parts, NEW s \in excluded
        PROVE  ~Overlaps(p[1], p[2], s.base, s.size)
    <3>1. s.base \in Nat /\ s.size \in Nat /\ total \in Nat
      BY <2>1, <2>2, ExcludedSpans DEF PlanTypeOK
    <3>2. ~(owned < s.base + s.size /\ s.base < owned + total)
      BY <1>1, <2>1 DEF PlannedInv
    <3> QED BY <3>1, <3>2, <2>2, <2>3 DEF Overlaps
  <2>6. PICK j \in 1 .. Len(regions) :
          /\ Usable(regions[j])
          /\ regions[j].base <= owned /\ owned + total <= regions[j].limit + 1
    BY <1>1, <2>1 DEF PlannedInv
  <2>7. regions[j].base \in Nat /\ regions[j].limit \in Nat /\ total \in Nat
    BY <2>1, <2>2, RegionType DEF PlanTypeOK
  <2>8. regions[j] \in GoodRegions
    BY <2>6 DEF GoodRegions, Usable
  <2>9. \A p \in Parts : regions[j].base <= p[1] /\ p[1] + p[2] - 1 <= regions[j].limit
    <3>1. owned \in Nat
      BY <2>2
    <3>2. ASSUME NEW p \in Parts
          PROVE  regions[j].base <= p[1] /\ p[1] + p[2] - 1 <= regions[j].limit
      <4>1. p[1] \in Nat /\ p[2] \in Nat /\ owned <= p[1] /\ p[1] + p[2] <= owned + total
        BY <2>3
      <4> DEFINE a == p[1]
                 n == p[2]
                 b == regions[j].base
                 l == regions[j].limit
      <4>2. /\ a \in Nat /\ n \in Nat /\ owned <= a /\ a + n <= owned + total /\ b \in Nat
            /\ l \in Nat /\ total \in Nat /\ b <= owned /\ owned + total <= l + 1
        BY <4>1, <2>6, <2>7
      <4> HIDE DEF a, n, b, l
      <4>3. b <= a /\ a + n - 1 <= l
        BY <4>2, <3>1
      <4> QED BY <4>3 DEF a, n, b, l
    <3> QED BY <3>2
  <2>10. rc = 0
    BY <1>1, <2>1 DEF PlannedInv
  <2> QED BY <2>4, <2>5, <2>8, <2>9, <2>10
<1>2. ASSUME mpc = "legacy"
      PROVE  \E r \in GoodRegions : r.base <= owned /\ owned + ServicePages - 1 <= r.limit
  BY <1>2 DEF PlanInv, LegacyInv, GoodRegions, Usable
<1> QED BY <1>1, <1>2 DEF LayoutIsSafe

-----------------------------------------------------------------------------
(* The page tables: their inductive invariant. *)

Busy == {"planned", "zero", "pde", "pte", "built"}

\* Where the tables of a range are: one level behind the other, as many of each
\* as the range needs, inside the VRAM.
Geometry ==
    /\ range.va \in Nat /\ range.n \in Nat \ {0} /\ range.va + range.n <= VaEnd
    /\ range.table_phys \in Nat /\ range.table_bytes \in Nat
    /\ range.table_phys + range.table_bytes <= PhysEnd
    /\ range.level_phys[0] = range.table_phys
    /\ \A l \in Level :
         /\ range.level_phys[l] \in Nat
         /\ range.level_count[l] = TableCount(range.va, range.n, l)
         /\ range.table_phys <= range.level_phys[l]
         /\ range.level_phys[l] + range.level_count[l] <= range.table_phys + range.table_bytes
    /\ \A l, m \in Level : l < m => range.level_phys[l] + range.level_count[l] <= range.level_phys[m]
    /\ one_branch => /\ range.table_bytes = Levels
                     /\ \A l \in Level : /\ range.level_count[l] = 1
                                         /\ range.level_phys[l] = range.table_phys + l

\* The entries of a level are numbered through all of its tables: the first one
\* the range uses and how many it uses, what such an entry holds, and the number
\* of an entry of a table.
First(l) == range.va \div Below(l)
Used(l)  == (range.va + range.n - 1) \div Below(l) - First(l) + 1

EntryOf(l, u) ==
    IF l = Leaf THEN make_pte_vram(phys + u) ELSE make_pde_vram(range.level_phys[l + 1] + u)

Number(l, t, x) == (range.va \div Span[l] + t) * Entries[l] + x

\* The entries written so far.
Written(l, u) ==
    /\ 0 <= u /\ u < Used(l)
    /\ IF l = Leaf THEN pc \in {"pte", "built"} /\ u < i
                   ELSE level > l + 1 \/ (level = l + 1 /\ pc = "pde" /\ u < i)

Tables == {w \in Level \X Nat \X Nat : w[2] < range.level_count[w[1]] /\ w[3] < Entries[w[1]]}

Cell(w) == Word(range.level_phys[w[1]] + w[2], w[1], w[3])

\* The tables below i are empty.
Cleared ==
    \A w \in Tables :
        range.level_phys[w[1]] + w[2] < range.table_phys + i => vram[Cell(w)] = 0

\* Each entry is what it will be once, or empty.
Filled ==
    \A w \in Tables :
        LET u == Number(w[1], w[2], w[3]) - First(w[1])
        IN  vram[Cell(w)] = IF Written(w[1], u) THEN EntryOf(w[1], u) ELSE 0

GmmuInv ==
    /\ pc \in {"idle"} \cup Busy /\ one_branch \in {TRUE, FALSE}
    /\ DOMAIN vram = (0 .. PhysEnd - 1) \X Words
    /\ pc \in {"idle", "planned"} => one_branch = FALSE
    /\ pc \in Busy => Geometry
    /\ pc \in Busy \ {"planned"} => phys \in Nat /\ level \in Nat /\ i \in Nat
    /\ pc = "zero" => i <= range.table_bytes /\ Cleared
    /\ pc = "pde" => /\ level \in 1 .. Levels
                     /\ level < Levels => i < range.level_count[level]
                     /\ one_branch => i = 0
    /\ pc \in {"pte", "built"} => level = Levels /\ i <= range.n
    /\ pc = "built" => i = range.n
    /\ pc \in {"pde", "pte", "built"} => Filled

\* No tables are built while memory is chosen, and then by the plan made there.
LinkInv ==
    /\ mpc \in {"check", "search"} => pc = "idle"
    /\ mpc = "planned" => pc \in Busy /\ one_branch = FALSE

\* Every entry of a table is a word of its page, also where entries are double.
LEMMA WordOfEntry ==
    ASSUME NEW l \in Level, NEW x \in Nat, x < Entries[l]
    PROVE  /\ x * Stride(l) + SmallOff(l) \in Words
           /\ x * Stride(l) + SmallOff(l) \in 0 .. Entries[l] * Stride(l) - 1
           /\ x * Stride(l) + SmallOff(l) \in Nat
<1> DEFINE S == {Entries[j] : j \in Level}
           top == CHOOSE m \in S : \A j \in Level : Entries[j] <= m
           e == Entries[l]
           o == x * Stride(l) + SmallOff(l)
<1>1. \A j \in Level : Entries[j] \in Nat
  BY Shape
<1>2. \E m \in S : \A j \in Level : Entries[j] <= m
  <2>1. PICK y \in 0 .. Leaf : \A j \in 0 .. Leaf : Entries[j] <= Entries[y]
    BY <1>1, Shape, LargestExists
  <2> QED BY <2>1, Shape
<1>3. top \in S /\ \A j \in Level : Entries[j] <= top
  <2> HIDE DEF S
  <2> QED BY <1>2
<1>4. top \in Nat /\ e <= top /\ e \in Nat /\ x < e
  BY <1>1, <1>3
<1>5. Words = 0 .. 2 * top - 1
  BY DEF Words
<1> HIDE DEF top, S, e
<1>6. \/ Stride(l) = 1 /\ SmallOff(l) = 0
      \/ Stride(l) = 2 /\ SmallOff(l) = 1
  BY DEF Stride, SmallOff
<1>7. o \in Nat /\ o <= e * Stride(l) - 1 /\ o <= 2 * top - 1
  <2>1. CASE Stride(l) = 1 /\ SmallOff(l) = 0
    BY <1>4, <2>1
  <2>2. CASE Stride(l) = 2 /\ SmallOff(l) = 1
    BY <1>4, <2>2
  <2> QED BY <1>6, <2>1, <2>2
<1>8. e * Stride(l) \in Nat
  BY <1>4, <1>6
<1> HIDE DEF o
<1>9. o \in 0 .. 2 * top - 1 /\ o \in 0 .. e * Stride(l) - 1 /\ o \in Nat
  BY <1>4, <1>7, <1>8
<1> QED BY <1>5, <1>9 DEF o, e

\* What an element of Tables is.
LEMMA TablesType ==
    ASSUME Geometry, NEW w \in Tables
    PROVE  /\ w[1] \in Level /\ w[2] \in Nat /\ w[3] \in Nat /\ w = <<w[1], w[2], w[3]>>
           /\ range.level_count[w[1]] \in Nat \ {0} /\ range.level_phys[w[1]] \in Nat
           /\ w[2] < range.level_count[w[1]] /\ w[3] < Entries[w[1]]
<1>1. w \in Level \X Nat \X Nat /\ w[2] < range.level_count[w[1]] /\ w[3] < Entries[w[1]]
  BY DEF Tables
<1>2. w[1] \in Level /\ w[2] \in Nat /\ w[3] \in Nat /\ w = <<w[1], w[2], w[3]>>
  BY <1>1
<1>3. range.level_count[w[1]] \in Nat \ {0} /\ range.level_phys[w[1]] \in Nat
  <2>1. range.va \in Nat /\ range.n \in Nat \ {0}
        /\ range.level_count[w[1]] = TableCount(range.va, range.n, w[1])
        /\ range.level_phys[w[1]] \in Nat
    BY <1>2 DEF Geometry
  <2>2. TableCount(range.va, range.n, w[1]) \in Nat \ {0}
    BY <2>1, <1>2, CountPositive
  <2> QED BY <2>1, <2>2
<1> QED BY <1>1, <1>2, <1>3

\* Its cell is inside the VRAM and inside the area of the tables.
LEMMA CellInVram ==
    ASSUME Geometry, NEW w \in Tables
    PROVE  /\ Cell(w) \in (0 .. PhysEnd - 1) \X Words
           /\ Cell(w) = <<range.level_phys[w[1]] + w[2], w[3] * Stride(w[1]) + SmallOff(w[1])>>
           /\ range.table_phys <= range.level_phys[w[1]] + w[2]
           /\ range.level_phys[w[1]] + w[2] < range.table_phys + range.table_bytes
           /\ range.level_phys[w[1]] + w[2] \in 0 .. PhysEnd - 1
<1> DEFINE l == w[1]
           p == range.level_phys[l] + w[2]
           o == w[3] * Stride(l) + SmallOff(l)
<1>1. /\ l \in Level /\ w[2] \in Nat /\ w[3] \in Nat /\ range.level_phys[l] \in Nat
      /\ range.level_count[l] \in Nat /\ w[2] < range.level_count[l] /\ w[3] < Entries[l]
  BY TablesType
<1>2. /\ range.table_phys \in Nat /\ range.table_bytes \in Nat /\ PhysEnd \in Nat
      /\ range.table_phys + range.table_bytes <= PhysEnd
      /\ range.table_phys <= range.level_phys[l]
      /\ range.level_phys[l] + range.level_count[l] <= range.table_phys + range.table_bytes
  BY <1>1, Shape DEF Geometry
<1>3. /\ p \in 0 .. PhysEnd - 1 /\ range.table_phys <= p
      /\ p < range.table_phys + range.table_bytes
  BY <1>1, <1>2
<1>4. o \in Words
  BY <1>1, WordOfEntry
<1>5. Cell(w) = <<p, o>>
  BY DEF Cell, Word
<1> HIDE DEF p, o
<1>6. Cell(w) \in (0 .. PhysEnd - 1) \X Words
  BY <1>3, <1>4, <1>5
<1> QED BY <1>3, <1>5, <1>6 DEF p, o

\* No two tables share a page.
LEMMA PageApart ==
    ASSUME Geometry, NEW w \in Tables, NEW z \in Tables,
           range.level_phys[w[1]] + w[2] = range.level_phys[z[1]] + z[2]
    PROVE  w[1] = z[1] /\ w[2] = z[2]
<1>2. /\ w[1] \in Level /\ w[2] \in Nat
      /\ range.level_phys[w[1]] \in Nat /\ range.level_count[w[1]] \in Nat
      /\ w[2] < range.level_count[w[1]]
  BY TablesType
<1>3. /\ z[1] \in Level /\ z[2] \in Nat
      /\ range.level_phys[z[1]] \in Nat /\ range.level_count[z[1]] \in Nat
      /\ z[2] < range.level_count[z[1]]
  BY TablesType
<1>4. w[1] \in Int /\ z[1] \in Int
  BY <1>2, <1>3, Shape
<1>5. w[1] = z[1]
  <2>1. ASSUME w[1] < z[1] PROVE FALSE
    <3>1. range.level_phys[w[1]] + range.level_count[w[1]] <= range.level_phys[z[1]]
      BY <2>1, <1>2, <1>3 DEF Geometry
    <3> QED BY <3>1, <1>2, <1>3
  <2>2. ASSUME z[1] < w[1] PROVE FALSE
    <3>1. range.level_phys[z[1]] + range.level_count[z[1]] <= range.level_phys[w[1]]
      BY <2>2, <1>2, <1>3 DEF Geometry
    <3> QED BY <3>1, <1>2, <1>3
  <2> QED BY <2>1, <2>2, <1>4
<1> QED BY <1>2, <1>3, <1>5

\* No two entries share a cell.
LEMMA CellApart ==
    ASSUME Geometry, NEW w \in Tables, NEW z \in Tables, Cell(w) = Cell(z)
    PROVE  w = z
<1>1. /\ range.level_phys[w[1]] + w[2] = range.level_phys[z[1]] + z[2]
      /\ w[3] * Stride(w[1]) + SmallOff(w[1]) = z[3] * Stride(z[1]) + SmallOff(z[1])
  BY CellInVram
<1>2. w[1] = z[1] /\ w[2] = z[2]
  BY <1>1, PageApart
<1>3. /\ w[3] \in Nat /\ w = <<w[1], w[2], w[3]>>
      /\ z[3] \in Nat /\ z = <<z[1], z[2], z[3]>>
  BY TablesType
<1>4. w[3] = z[3]
  <2>1. \/ Stride(w[1]) = 1 /\ SmallOff(w[1]) = 0
        \/ Stride(w[1]) = 2 /\ SmallOff(w[1]) = 1
    BY DEF Stride, SmallOff
  <2> QED BY <2>1, <1>1, <1>2, <1>3
<1> QED BY <1>2, <1>3, <1>4

\* How many entries of a level the range uses.
LEMMA UsedPositive ==
    ASSUME Geometry, NEW l \in Level
    PROVE  /\ First(l) \in Nat /\ Used(l) \in Nat \ {0}
           /\ l = Leaf => First(l) = range.va /\ Used(l) = range.n
           /\ l # Leaf => /\ l + 1 \in Level /\ First(l) = range.va \div Span[l + 1]
                          /\ Used(l) = range.level_count[l + 1]
<1> DEFINE va == range.va
           n == range.n
           b == Below(l)
<1>1. va \in Nat /\ n \in Nat \ {0} /\ b \in Nat \ {0}
  BY Shape DEF Geometry
<1> HIDE DEF va, n, b
<1>2. First(l) = va \div b /\ Used(l) = (va + n - 1) \div b - va \div b + 1
  BY DEF First, Used, va, n, b
<1>3. va <= va + n - 1 /\ va + n - 1 \in Nat
  BY <1>1
<1>4. va \div b \in Nat /\ (va + n - 1) \div b \in Nat /\ va \div b <= (va + n - 1) \div b
  BY <1>1, <1>3, DivMonotone
<1>5. First(l) \in Nat /\ Used(l) \in Nat \ {0}
  <2> DEFINE x == va \div b
             y == (va + n - 1) \div b
  <2> HIDE DEF x, y
  <2>1. x \in Nat /\ y \in Nat /\ x <= y /\ First(l) = x /\ Used(l) = y - x + 1
    BY <1>2, <1>4 DEF x, y
  <2> QED BY <2>1
<1>6. ASSUME l = Leaf PROVE First(l) = va /\ Used(l) = n
  <2>1. b = 1
    BY <1>6, Shape DEF b
  <2>2. \A x \in Nat : x \div 1 = x
    BY Z3
  <2>3. First(l) = va /\ Used(l) = (va + n - 1) - va + 1
    BY <2>1, <2>2, <1>1, <1>2, <1>3
  <2> QED BY <2>3, <1>1
<1>7. ASSUME l # Leaf
      PROVE  /\ l + 1 \in Level /\ First(l) = va \div Span[l + 1]
             /\ Used(l) = range.level_count[l + 1]
  <2>1. l \in 0 .. Leaf - 1
    BY <1>7, Shape
  <2>2. l + 1 \in Level /\ b = Span[l + 1]
    BY <2>1, Shape DEF b
  <2>3. range.level_count[l + 1] = TableCount(va, n, l + 1)
    BY <2>2 DEF Geometry, va, n
  <2> QED BY <2>2, <2>3, <1>2 DEF TableCount
<1> QED BY <1>5, <1>6, <1>7 DEF va, n

\* The place of the u-th entry of a level: in which table, and where in it.
Place(l, u) ==
    <<l, (First(l) + u) \div Entries[l] - range.va \div Span[l], (First(l) + u) % Entries[l]>>

\* Entries of a table cover what the table covers.
LEMMA EntryOfTable ==
    ASSUME NEW l \in Level, NEW v \in Nat
    PROVE  /\ (v \div Below(l)) \div Entries[l] = v \div Span[l]
           /\ v \div Below(l) \in Nat /\ v \div Span[l] \in Nat
<1>1. Entries[l] \in Nat \ {0} /\ Below(l) \in Nat \ {0} /\ Span[l] = Entries[l] * Below(l)
      /\ Span[l] \in Nat \ {0} /\ v \in Int /\ v <= v
  BY Shape
<1>2. (v \div Below(l)) \div Entries[l] = v \div (Entries[l] * Below(l))
  BY <1>1, DivDiv
<1>3. v \div Below(l) \in Nat /\ v \div Span[l] \in Nat
  BY <1>1, DivMonotone
<1> QED BY <1>1, <1>2, <1>3

\* Every entry the range uses has a place in the tables, and its number there.
LEMMA PlaceInTables ==
    ASSUME Geometry, NEW l \in Level, NEW u \in Nat, u < Used(l)
    PROVE  /\ Place(l, u) \in Tables /\ First(l) + u \in Nat
           /\ Number(l, Place(l, u)[2], Place(l, u)[3]) = First(l) + u
<1> DEFINE va == range.va
           last == range.va + range.n - 1
           E == Entries[l]
           f == First(l)
           z == last \div Below(l)
           c == f + u
<1>1. va \in Nat /\ last \in Nat /\ E \in Nat \ {0} /\ Span[l] \in Nat \ {0}
  <2>1. range.va \in Nat /\ range.n \in Nat \ {0}
    BY DEF Geometry
  <2>2. va \in Nat /\ last \in Nat
    BY <2>1
  <2> QED BY <2>2, Shape
<1>2. f = va \div Below(l) /\ Used(l) = z - f + 1
  BY DEF First, Used
<1>3. f \in Nat /\ z \in Nat /\ f \div E = va \div Span[l] /\ z \div E = last \div Span[l]
  BY <1>1, <1>2, EntryOfTable
<1>4. range.level_count[l] = last \div Span[l] - va \div Span[l] + 1
  BY DEF Geometry, TableCount
<1> DEFINE s == va \div Span[l]
           t == last \div Span[l]
<1>5. s \in Nat /\ t \in Nat
  BY <1>1, EntryOfTable
<1> HIDE DEF va, last, E, z, s, t
<1>6. c \in Nat /\ f <= c /\ c <= z
  BY <1>2, <1>3
<1> HIDE DEF f
<1> HIDE DEF c
<1>7. c \div E \in Nat /\ f \div E <= c \div E /\ c \div E <= z \div E
  BY <1>1, <1>3, <1>6, DivMonotone
<1>8. c % E \in 0 .. E - 1 /\ c = E * (c \div E) + (c % E)
  <2>1. c \in Int
    BY <1>6
  <2> QED BY <2>1, <1>1, DivMod
<1> DEFINE q == c \div E
           r == c % E
<1>9. q \in Nat /\ s <= q /\ q <= t /\ r \in 0 .. E - 1 /\ c = E * q + r
  BY <1>3, <1>7, <1>8 DEF s, t, va
<1>10. Place(l, u) = <<l, q - s, r>>
  BY DEF Place, c, E, s, f, va
<1> HIDE DEF q, r
<1>11. q - s \in Nat /\ q - s < range.level_count[l] /\ r \in Nat /\ r < E
  BY <1>1, <1>4, <1>5, <1>9 DEF s, t
<1>12. Place(l, u) \in Tables
  <2>1. <<l, q - s, r>> \in Level \X Nat \X Nat
    BY <1>11
  <2> QED BY <2>1, <1>10, <1>11 DEF Tables, E
<1>13. Number(l, q - s, r) = (s + (q - s)) * E + r
  BY DEF Number, s, E, va
<1>14. (s + (q - s)) * E + r = c
  <2>1. s + (q - s) = q /\ q * E = E * q
    BY <1>1, <1>5, <1>9, Z3
  <2> QED BY <2>1, <1>9
<1>15. Number(l, Place(l, u)[2], Place(l, u)[3]) = c
  BY <1>10, <1>13, <1>14
<1> QED BY <1>6, <1>12, <1>15 DEF c, f

\* An entry is where its number puts it.
LEMMA PlaceOfNumber ==
    ASSUME Geometry, NEW w \in Tables, NEW u \in Nat,
           Number(w[1], w[2], w[3]) = First(w[1]) + u
    PROVE  w = Place(w[1], u)
<1> DEFINE l == w[1]
           E == Entries[l]
           s == range.va \div Span[l]
           q == s + w[2]
           c == Number(l, w[2], w[3])
<1>1. /\ l \in Level /\ w[2] \in Nat /\ w[3] \in Nat /\ w[3] < E /\ w = <<l, w[2], w[3]>>
      /\ E \in Nat \ {0} /\ range.va \in Nat
  BY TablesType, Shape DEF Geometry
<1>2. s \in Nat
  BY <1>1, EntryOfTable
<1>3. c = q * E + w[3]
  BY DEF Number
<1> HIDE DEF E, s
<1>4. q \in Nat /\ q - s = w[2] /\ w[3] \in 0 .. E - 1
  BY <1>1, <1>2
<1> HIDE DEF q, c
<1>5. c = E * q + w[3] /\ c \in Int
  BY <1>1, <1>3, <1>4, Z3
<1>6. c \div E = q /\ c % E = w[3]
  BY <1>1, <1>4, <1>5, DivUnique
<1>7. Place(l, u) = <<l, c \div E - s, c % E>>
  BY DEF Place, c, E, s
<1> QED BY <1>1, <1>4, <1>6, <1>7

\* Of all entries only the u-th of level l is in the cell where that one belongs.
LEMMA CellOfEntry ==
    ASSUME Geometry, NEW l \in Level, NEW u \in Nat, u < Used(l), NEW w \in Tables
    PROVE  /\ Cell(w) = Cell(Place(l, u))
                <=> (w[1] = l /\ Number(w[1], w[2], w[3]) - First(w[1]) = u)
           /\ Cell(w) \in (0 .. PhysEnd - 1) \X Words
<1> DEFINE p == Place(l, u)
<1>1. p \in Tables /\ Number(l, p[2], p[3]) = First(l) + u /\ p[1] = l /\ First(l) \in Nat
  BY PlaceInTables, UsedPositive DEF Place
<1> HIDE DEF p
<1>2. Cell(w) \in (0 .. PhysEnd - 1) \X Words
  BY <1>1, CellInVram
<1>3. w[1] \in Level /\ w[2] \in Nat /\ w[3] \in Nat
  BY TablesType
<1>4. ASSUME w[1] = l, Number(w[1], w[2], w[3]) - First(w[1]) = u
      PROVE  Cell(w) = Cell(p)
  <2>1. Number(w[1], w[2], w[3]) \in Int
    <3>1. range.va \div Span[w[1]] \in Nat /\ Entries[w[1]] \in Nat
      BY <1>3, EntryOfTable, Shape DEF Geometry
    <3> QED BY <3>1, <1>3 DEF Number
  <2>2. Number(w[1], w[2], w[3]) = First(w[1]) + u
    BY <2>1, <1>1, <1>4
  <2>3. w = p
    BY <2>2, <1>4, PlaceOfNumber DEF p
  <2> QED BY <2>3
<1>5. ASSUME Cell(w) = Cell(p)
      PROVE  w[1] = l /\ Number(w[1], w[2], w[3]) - First(w[1]) = u
  <2>1. w = p
    BY <1>1, <1>5, CellApart
  <2> QED BY <2>1, <1>1
<1> QED BY <1>2, <1>4, <1>5 DEF p

-----------------------------------------------------------------------------
(* The walk over tables of which each entry is right or empty. *)

EntryAt(v, t, l) == vram[Word(t, l, IndexOf(v, l))]

\* The table the walk gets to from table up of level l.
Descent(v, up, l) ==
    IF up # Fault /\ (EntryAt(v, up, l) \div 2) % 4 = 1 THEN EntryAt(v, up, l) \div 256 ELSE Fault

\* The tables the walk for v passes, down to level m.
IsPath(v, m, s) ==
    s = [l \in 0 .. m |-> IF l = 0 THEN range.table_phys ELSE Descent(v, s[l - 1], l - 1)]

\* The encoding of entries keeps the address and tells the kinds apart.
LEMMA Decode ==
    ASSUME NEW p \in Nat
    PROVE  /\ (make_pde_vram(p) \div 2) % 4 = 1 /\ make_pde_vram(p) \div 256 = p
           /\ make_pte_vram(p) % 2 = 1 /\ make_pte_vram(p) \div 256 = p
           /\ (0 \div 2) % 4 # 1 /\ 0 % 2 # 1
BY SMT DEF make_pde_vram, make_pte_vram

\* The path of a walk exists.
LEMMA PathExists ==
    ASSUME NEW v, NEW m \in Nat
    PROVE  \E s : IsPath(v, m, s)
<1> DEFINE T == {j \in 0 .. m : \E s : IsPath(v, j, s)}
<1>1. 0 \in T
  <2> DEFINE s == [x \in 0 .. 0 |-> range.table_phys]
  <2>1. IsPath(v, 0, s)
    BY DEF IsPath
  <2> HIDE DEF s
  <2> QED BY <2>1
<1>2. ASSUME NEW j \in 0 .. m - 1, j \in T PROVE j + 1 \in T
  <2>1. PICK s : IsPath(v, j, s)
    BY <1>2
  <2> DEFINE t == [x \in 0 .. j + 1 |-> IF x = j + 1 THEN Descent(v, s[j], j) ELSE s[x]]
  <2>2. IsPath(v, j + 1, t)
    <3>1. ASSUME NEW x \in 0 .. j + 1
          PROVE  t[x] = IF x = 0 THEN range.table_phys ELSE Descent(v, t[x - 1], x - 1)
      <4>1. CASE x = j + 1
        <5>1. t[x] = Descent(v, s[j], j) /\ x # 0 /\ x - 1 = j /\ t[j] = s[j]
          BY <4>1
        <5> HIDE DEF t
        <5> QED BY <5>1
      <4>2. CASE x # j + 1
        <5>1. x \in 0 .. j /\ t[x] = s[x] /\ (x # 0 => t[x - 1] = s[x - 1])
          BY <4>2
        <5>2. s[x] = IF x = 0 THEN range.table_phys ELSE Descent(v, s[x - 1], x - 1)
          BY <5>1, <2>1 DEF IsPath
        <5> HIDE DEF t
        <5> QED BY <5>1, <5>2
      <4> QED BY <4>1, <4>2
    <3>2. t = [x \in 0 .. j + 1 |-> t[x]]
      OBVIOUS
    <3> HIDE DEF t
    <3> QED BY <3>1, <3>2 DEF IsPath
  <2>3. j + 1 \in 0 .. m
    OBVIOUS
  <2> HIDE DEF t
  <2> QED BY <2>2, <2>3
<1>3. m \in T
  <2> HIDE DEF T
  <2>1. 0 .. m \subseteq T
    BY <1>1, <1>2, Climb
  <2> QED BY <2>1
<1> QED BY <1>3

\* A walk follows a path to the leaf.
LEMMA WalkIsPath ==
    ASSUME NEW v
    PROVE  \E s : /\ s[0] = range.table_phys
                  /\ \A l \in 0 .. Leaf - 1 : s[l + 1] = Descent(v, s[l], l)
                  /\ Walk(v) = IF s[Leaf] # Fault /\ EntryAt(v, s[Leaf], Leaf) % 2 = 1
                               THEN EntryAt(v, s[Leaf], Leaf) \div 256 ELSE Fault
<1> DEFINE p == CHOOSE s : IsPath(v, Leaf, s)
<1>1. IsPath(v, Leaf, p)
  <2>1. \E s : IsPath(v, Leaf, s)
    BY PathExists, Shape
  <2> QED BY <2>1
<1>2. Walk(v) = IF p[Leaf] # Fault /\ EntryAt(v, p[Leaf], Leaf) % 2 = 1
                THEN EntryAt(v, p[Leaf], Leaf) \div 256 ELSE Fault
  BY DEF Walk, IsPath, Descent, EntryAt, Level, Leaf
<1> HIDE DEF p
<1>3. p[0] = range.table_phys
  BY <1>1, Shape DEF IsPath
<1>4. ASSUME NEW l \in 0 .. Leaf - 1 PROVE p[l + 1] = Descent(v, p[l], l)
  <2>1. l + 1 \in 0 .. Leaf /\ l + 1 # 0 /\ (l + 1) - 1 = l
    BY Shape
  <2> QED BY <2>1, <1>1 DEF IsPath
<1> QED BY <1>2, <1>3, <1>4

\* What the walk for v reads in the right table of a level.
LEMMA EntryRead ==
    ASSUME Geometry, Filled, NEW l \in Level, NEW v \in Nat, NEW t \in Nat,
           t = v \div Span[l] - range.va \div Span[l], t < range.level_count[l]
    PROVE  LET u == v \div Below(l) - First(l)
           IN  EntryAt(v, range.level_phys[l] + t, l) = IF Written(l, u) THEN EntryOf(l, u) ELSE 0
<1> DEFINE E == Entries[l]
           b == v \div Below(l)
           x == IndexOf(v, l)
           s == range.va \div Span[l]
           w == <<l, t, x>>
<1>1. E \in Nat \ {0} /\ b \in Nat /\ b \div E = v \div Span[l] /\ s \in Nat /\ v \div Span[l] \in Nat
  BY EntryOfTable, Shape DEF Geometry
<1>2. x = b % E
  BY DEF IndexOf
<1> HIDE DEF E, b, x, s
<1>3. x \in 0 .. E - 1 /\ b = E * (b \div E) + x
  <2>1. b \in Int
    BY <1>1
  <2> QED BY <2>1, <1>1, <1>2, DivMod
<1>4. w \in Tables
  BY <1>3, <1>1 DEF Tables, E
<1>5. Number(l, t, x) = b
  <2>1. s + t = b \div E
    BY <1>1 DEF s
  <2>2. Number(l, t, x) = (s + t) * E + x
    BY DEF Number, s, E
  <2> DEFINE q == b \div E
  <2>3. q \in Nat /\ s + t = q /\ b = E * q + x
    BY <1>1, <1>3, <2>1
  <2> HIDE DEF q
  <2>4. q * E = E * q
    BY <2>3, <1>1, Z3
  <2> QED BY <2>2, <2>3, <2>4
<1>6. vram[Cell(w)] = IF Written(l, b - First(l)) THEN EntryOf(l, b - First(l)) ELSE 0
  <2>1. w[1] = l /\ w[2] = t /\ w[3] = x
    OBVIOUS
  <2> HIDE DEF w
  <2> QED BY <2>1, <1>4, <1>5 DEF Filled
<1>7. Cell(w) = Word(range.level_phys[l] + t, l, x)
  BY DEF Cell
<1> QED BY <1>6, <1>7 DEF EntryAt, x, b

\* What an entry number is, on the level below.
LEMMA BelowNext ==
    ASSUME Geometry, NEW l \in 0 .. Leaf - 1, NEW v \in Nat
    PROVE  /\ l \in Level /\ l + 1 \in Level /\ l # Leaf
           /\ v \div Below(l) - First(l) = v \div Span[l + 1] - range.va \div Span[l + 1]
           /\ v \div Span[l + 1] \in Nat /\ range.va \div Span[l + 1] \in Nat
           /\ Used(l) = range.level_count[l + 1]
<1>1. l \in Level /\ l + 1 \in Level /\ l # Leaf /\ Below(l) = Span[l + 1]
  BY Shape
<1>2. First(l) = range.va \div Span[l + 1] /\ Used(l) = range.level_count[l + 1]
  BY <1>1, UsedPositive
<1>3. v \div Span[l + 1] \in Nat /\ range.va \div Span[l + 1] \in Nat
  BY <1>1, EntryOfTable DEF Geometry
<1> QED BY <1>1, <1>2, <1>3

\* On every level the walk faults or is in the table that covers v.
LEMMA WalkStaysInRange ==
    ASSUME Geometry, Filled, NEW v \in 0 .. VaEnd - 1, NEW s,
           s[0] = range.table_phys, \A l \in 0 .. Leaf - 1 : s[l + 1] = Descent(v, s[l], l)
    PROVE  \A l \in Level :
             \/ s[l] = Fault
             \/ LET t == v \div Span[l] - range.va \div Span[l]
                IN  t \in Nat /\ t < range.level_count[l] /\ s[l] = range.level_phys[l] + t
<1> DEFINE T(l) == v \div Span[l] - range.va \div Span[l]
           OnPath(l) == \/ s[l] = Fault
                        \/ T(l) \in Nat /\ T(l) < range.level_count[l]
                           /\ s[l] = range.level_phys[l] + T(l)
           S == {l \in 0 .. Leaf : OnPath(l)}
<1>0. v \in Nat /\ VaEnd \in Nat \ {0} /\ v < VaEnd /\ 0 \in Level /\ VaEnd = Span[0]
  <2>1. 0 \in Level
    BY Shape
  <2>2. VaEnd \in Nat \ {0} /\ VaEnd = Span[0]
    BY <2>1, Shape
  <2> QED BY <2>1, <2>2
<1>1. 0 \in S
  <2>1. range.va \in Nat /\ range.va < VaEnd
    BY <1>0 DEF Geometry
  <2>2. \A a \in Nat : a < VaEnd => a \div VaEnd = 0
    <3> SUFFICES ASSUME NEW a \in Nat, a < VaEnd PROVE a \div VaEnd = 0
      OBVIOUS
    <3>1. a \in 0 .. VaEnd - 1 /\ a \in Int /\ VaEnd \in Nat \ {0} /\ 0 \in Int
      BY <1>0
    <3>2. a = VaEnd * 0 + a
      BY <1>0
    <3> QED BY <3>1, <3>2, DivUnique
  <2>3. T(0) = 0
    BY <2>1, <2>2, <1>0
  <2>4. range.level_count[0] \in Nat \ {0} /\ range.level_phys[0] \in Nat
        /\ s[0] = range.level_phys[0]
    <3>1. range.level_count[0] = TableCount(range.va, range.n, 0) /\ range.n \in Nat \ {0}
          /\ range.level_phys[0] \in Nat /\ range.level_phys[0] = range.table_phys
      BY <1>0 DEF Geometry
    <3>2. TableCount(range.va, range.n, 0) \in Nat \ {0}
      BY <3>1, <2>1, <1>0, CountPositive
    <3> QED BY <3>1, <3>2
  <2>5. 0 \in 0 .. Leaf
    BY Shape
  <2> HIDE DEF T
  <2>6. T(0) < range.level_count[0] /\ s[0] = range.level_phys[0] + T(0) /\ T(0) \in Nat
    BY <2>3, <2>4
  <2> QED BY <2>5, <2>6
<1>2. ASSUME NEW l \in 0 .. Leaf - 1, l \in S PROVE l + 1 \in S
  <2>0. l \in Level /\ l + 1 \in Level /\ l # Leaf /\ l + 1 \in 0 .. Leaf
    BY Shape
  <2>1. s[l + 1] = Descent(v, s[l], l)
    OBVIOUS
  <2>2. CASE s[l] = Fault
    <3>1. s[l + 1] = Fault
      BY <2>1, <2>2 DEF Descent
    <3> QED BY <3>1, <2>0
  <2>3. CASE T(l) \in Nat /\ T(l) < range.level_count[l] /\ s[l] = range.level_phys[l] + T(l)
    <3> DEFINE u == v \div Below(l) - First(l)
               e == EntryAt(v, s[l], l)
    <3>1. e = IF Written(l, u) THEN EntryOf(l, u) ELSE 0
      <4> DEFINE t == T(l)
      <4>1. t \in Nat /\ t = v \div Span[l] - range.va \div Span[l] /\ t < range.level_count[l]
        BY <2>3
      <4> HIDE DEF t
      <4>2. EntryAt(v, range.level_phys[l] + t, l) = IF Written(l, u) THEN EntryOf(l, u) ELSE 0
        BY <4>1, <1>0, <2>0, EntryRead
      <4>3. s[l] = range.level_phys[l] + t
        BY <2>3 DEF t
      <4> QED BY <4>2, <4>3
    <3>2. /\ u = T(l + 1) /\ Used(l) = range.level_count[l + 1] /\ u \in Int
          /\ range.level_phys[l + 1] \in Nat
      <4>1. /\ u = T(l + 1) /\ Used(l) = range.level_count[l + 1]
            /\ v \div Span[l + 1] \in Nat /\ range.va \div Span[l + 1] \in Nat
        BY <1>0, BelowNext
      <4>2. range.level_phys[l + 1] \in Nat
        BY <2>0 DEF Geometry
      <4>3. T(l + 1) \in Int
        BY <4>1
      <4> QED BY <4>1, <4>2, <4>3
    <3> HIDE DEF T, u, e
    <3>3. CASE Written(l, u)
      <4>1. u \in Nat /\ u < Used(l)
        BY <3>2, <3>3 DEF Written
      <4>2. e = make_pde_vram(range.level_phys[l + 1] + u)
        BY <3>1, <3>3, <2>0 DEF EntryOf
      <4>3. range.level_phys[l + 1] + u \in Nat
        BY <4>1, <3>2
      <4>4. (e \div 2) % 4 = 1 /\ e \div 256 = range.level_phys[l + 1] + u
        BY <4>2, <4>3, Decode
      <4>5. s[l] # Fault
        <5>1. T(l) \in Nat /\ range.level_phys[l] \in Nat /\ s[l] = range.level_phys[l] + T(l)
          BY <2>3, <2>0 DEF Geometry
        <5> QED BY <5>1 DEF Fault
      <4>6. s[l + 1] = range.level_phys[l + 1] + T(l + 1)
        BY <2>1, <4>4, <4>5, <3>2 DEF Descent, e
      <4> QED BY <4>1, <4>6, <3>2, <2>0
    <3>4. CASE ~Written(l, u)
      <4>1. e = 0 /\ (e \div 2) % 4 # 1
        BY <3>1, <3>4, Decode
      <4>2. s[l + 1] = Fault
        BY <2>1, <4>1 DEF Descent, e
      <4> QED BY <4>2, <2>0
    <3> QED BY <3>3, <3>4
  <2> QED BY <1>2, <2>2, <2>3
<1>3. 0 .. Leaf \subseteq S
  <2> HIDE DEF S
  <2> QED BY <1>1, <1>2, Climb, Shape
<1>4. Level = 0 .. Leaf
  BY Shape
<1> QED BY <1>3, <1>4

\* A page of the range has an entry on every level.
LEMMA InRangeUsed ==
    ASSUME Geometry, NEW v \in Nat, InRange(v), NEW l \in Level
    PROVE  v \div Below(l) - First(l) \in Nat /\ v \div Below(l) - First(l) < Used(l)
<1> DEFINE va == range.va
           last == range.va + range.n - 1
           x == va \div Below(l)
           y == v \div Below(l)
           z == last \div Below(l)
<1>1. /\ va \in Nat /\ last \in Nat /\ va <= v /\ v <= last
  <2>1. range.va \in Nat /\ range.n \in Nat \ {0}
    BY DEF Geometry
  <2> QED BY <2>1 DEF InRange
<1>2. Below(l) \in Nat \ {0}
  BY Shape
<1>3. First(l) = x /\ Used(l) = z - x + 1
  BY DEF First, Used
<1> HIDE DEF va, last
<1>4. x \in Nat /\ y \in Nat /\ x <= y /\ y <= z
  BY <1>1, <1>2, DivMonotone
<1>5. z \in Nat
  <2>1. last <= last
    BY <1>1
  <2> QED BY <2>1, <1>1, <1>2, DivMonotone
<1> HIDE DEF x, y, z
<1>6. y - First(l) \in Nat /\ y - First(l) < Used(l)
  BY <1>3, <1>4, <1>5
<1> QED BY <1>6 DEF y

\* Once all is built, no walk for a page of the range faults above the leaf.
LEMMA WalkReachesLeaf ==
    ASSUME Geometry, Filled, level = Levels, NEW v \in 0 .. VaEnd - 1, InRange(v), NEW s,
           s[0] = range.table_phys, \A l \in 0 .. Leaf - 1 : s[l + 1] = Descent(v, s[l], l)
    PROVE  s[Leaf] # Fault
<1> DEFINE S == {l \in 0 .. Leaf : s[l] # Fault}
<1>0. v \in Nat
  BY Shape
<1>1. 0 \in S
  <2>1. range.table_phys \in Nat
    BY DEF Geometry
  <2>2. s[0] # Fault
    BY <2>1 DEF Fault
  <2> QED BY <2>2, Shape
<1>2. ASSUME NEW l \in 0 .. Leaf - 1, l \in S PROVE l + 1 \in S
  <2>0. l \in Level /\ l + 1 \in Level /\ l # Leaf /\ l + 1 \in 0 .. Leaf /\ Levels > l + 1
    BY Shape
  <2> DEFINE t == v \div Span[l] - range.va \div Span[l]
             u == v \div Below(l) - First(l)
             e == EntryAt(v, s[l], l)
  <2>1. t \in Nat /\ t < range.level_count[l] /\ s[l] = range.level_phys[l] + t
    BY <1>2, <2>0, WalkStaysInRange
  <2>2. u \in Nat /\ u < Used(l)
    BY <1>0, <2>0, InRangeUsed
  <2>3. Written(l, u)
    <3> HIDE DEF u
    <3> QED BY <2>0, <2>2 DEF Written
  <2>4. e = make_pde_vram(range.level_phys[l + 1] + u)
    <3>1. t = v \div Span[l] - range.va \div Span[l]
      OBVIOUS
    <3> HIDE DEF t
    <3>2. EntryAt(v, range.level_phys[l] + t, l) = IF Written(l, u) THEN EntryOf(l, u) ELSE 0
      BY <3>1, <2>1, <1>0, <2>0, EntryRead
    <3> QED BY <3>2, <2>1, <2>3, <2>0 DEF EntryOf
  <2> HIDE DEF u, e, t
  <2>5. range.level_phys[l + 1] + u \in Nat
    <3>1. range.level_phys[l + 1] \in Nat
      BY <2>0 DEF Geometry
    <3> QED BY <3>1, <2>2
  <2>6. (e \div 2) % 4 = 1 /\ e \div 256 = range.level_phys[l + 1] + u
    BY <2>4, <2>5, Decode
  <2>7. s[l + 1] = range.level_phys[l + 1] + u
    BY <1>2, <2>6 DEF Descent, e
  <2>8. s[l + 1] # Fault
    BY <2>5, <2>7 DEF Fault
  <2> QED BY <2>8, <2>0
<1>3. 0 .. Leaf \subseteq S
  <2> HIDE DEF S
  <2> QED BY <1>1, <1>2, Climb, Shape
<1> QED BY <1>3, Shape

\* Tables of which each entry is right or empty map nothing wrong, and the
\* finished ones map all of the range.
LEMMA WalkIsRight ==
    ASSUME GmmuInv
    PROVE  MappedExactly
<1> SUFFICES ASSUME pc \in {"pde", "pte", "built"}, NEW v \in 0 .. VaEnd - 1
             PROVE  \/ InRange(v) /\ Walk(v) = phys + (v - range.va)
                    \/ (InRange(v) => pc # "built") /\ Walk(v) = Fault
  BY DEF MappedExactly
<1>1. Geometry /\ Filled /\ phys \in Nat /\ i \in Nat /\ v \in Nat
      /\ (pc = "built" => level = Levels /\ i = range.n)
  BY Shape DEF GmmuInv, Busy
<1>2. PICK s : /\ s[0] = range.table_phys
               /\ \A l \in 0 .. Leaf - 1 : s[l + 1] = Descent(v, s[l], l)
               /\ Walk(v) = IF s[Leaf] # Fault /\ EntryAt(v, s[Leaf], Leaf) % 2 = 1
                            THEN EntryAt(v, s[Leaf], Leaf) \div 256 ELSE Fault
  BY WalkIsPath
<1>3. Leaf \in Level /\ range.va \in Nat /\ range.n \in Nat
  BY <1>1, Shape DEF Geometry
<1> DEFINE e == EntryAt(v, s[Leaf], Leaf)
           u == v - range.va
<1>4. v \div Below(Leaf) - First(Leaf) = u /\ Used(Leaf) = range.n
  <2>1. Below(Leaf) = 1 /\ First(Leaf) = range.va /\ Used(Leaf) = range.n
    BY <1>1, <1>3, Shape, UsedPositive
  <2>2. v \div 1 = v
    BY <1>1, Z3
  <2> QED BY <2>1, <2>2
<1>5. ASSUME s[Leaf] # Fault
      PROVE  e = IF Written(Leaf, u) THEN make_pte_vram(phys + u) ELSE 0
  <2> DEFINE t == v \div Span[Leaf] - range.va \div Span[Leaf]
  <2>1. t \in Nat /\ t < range.level_count[Leaf] /\ s[Leaf] = range.level_phys[Leaf] + t
    BY <1>1, <1>2, <1>3, <1>5, WalkStaysInRange
  <2>2. t = v \div Span[Leaf] - range.va \div Span[Leaf]
    OBVIOUS
  <2> HIDE DEF t
  <2>3. EntryAt(v, range.level_phys[Leaf] + t, Leaf)
          = IF Written(Leaf, u) THEN EntryOf(Leaf, u) ELSE 0
    BY <2>1, <2>2, <1>1, <1>3, <1>4, EntryRead
  <2> QED BY <2>1, <2>3 DEF EntryOf
<1>6. Written(Leaf, u) <=> 0 <= u /\ u < range.n /\ pc \in {"pte", "built"} /\ u < i
  BY <1>4 DEF Written
<1> HIDE DEF e
<1>7. CASE s[Leaf] = Fault
  <2>1. Walk(v) = Fault
    BY <1>2, <1>7
  <2>2. InRange(v) => pc # "built"
    BY <1>1, <1>2, <1>7, WalkReachesLeaf
  <2> QED BY <2>1, <2>2
<1>8. CASE s[Leaf] # Fault /\ Written(Leaf, u)
  <2>1. u \in Nat /\ InRange(v)
    BY <1>1, <1>3, <1>6, <1>8 DEF InRange
  <2>2. phys + u \in Nat /\ e = make_pte_vram(phys + u)
    BY <2>1, <1>1, <1>5, <1>8
  <2>3. e % 2 = 1 /\ e \div 256 = phys + u
    BY <2>2, Decode
  <2> QED BY <2>1, <2>3, <1>2, <1>8 DEF e
<1>9. CASE s[Leaf] # Fault /\ ~Written(Leaf, u)
  <2>1. e = 0 /\ e % 2 # 1
    BY <1>5, <1>9, Decode
  <2>2. Walk(v) = Fault
    BY <2>1, <1>2 DEF e
  <2>3. InRange(v) => pc # "built"
    BY <1>1, <1>3, <1>6, <1>9 DEF InRange
  <2> QED BY <2>2, <2>3
<1> QED BY <1>7, <1>8, <1>9

-----------------------------------------------------------------------------
(* Every step of the tables keeps their invariant. *)

\* The layout nv_gmmu_range_plan makes is sound.
LEMMA PlanGeometry ==
    ASSUME NEW va \in Nat, NEW n \in Nat \ {0}, NEW tab \in Nat,
           va + n <= VaEnd, tab + TableBytes(va, n) <= PhysEnd,
           range' = range_plan(va, n, tab), one_branch' = FALSE
    PROVE  Geometry'
<1> DEFINE S(l) == TablesAbove(va, n, l)
           c(l) == TableCount(va, n, l)
           bytes == TableBytes(va, n)
<1>1. /\ range'.va = va /\ range'.n = n /\ range'.table_phys = tab /\ range'.table_bytes = bytes
      /\ \A l \in Level : range'.level_phys[l] = tab + S(l) /\ range'.level_count[l] = c(l)
  BY DEF range_plan
<1>2. /\ S(0) = 0 /\ \A l \in Level : S(l) \in Nat /\ c(l) \in Nat \ {0} /\ l \in 0 .. Levels
      /\ bytes = S(Levels) /\ bytes \in Nat /\ 0 \in Level
  <2>1. 0 \in Level /\ Levels \in 0 .. Levels /\ \A l \in Level : l \in 0 .. Levels
    BY Shape
  <2>2. S(0) = 0 /\ \A l \in 0 .. Levels : S(l) \in Nat
    BY TablesAboveNext
  <2>3. \A l \in Level : c(l) \in Nat \ {0}
    BY CountPositive
  <2>4. bytes = S(Levels)
    BY DEF TableBytes
  <2> HIDE DEF S, c, bytes
  <2> QED BY <2>1, <2>2, <2>3, <2>4
<1>3. ASSUME NEW l \in Level, NEW m \in Level, l < m PROVE S(l) + c(l) <= S(m)
  <2>1. m \in l + 1 .. Levels
    BY <1>3, Shape
  <2> QED BY <2>1, TablesInOrder
<1>4. ASSUME NEW l \in Level PROVE S(l) + c(l) <= bytes
  <2>1. Levels \in l + 1 .. Levels
    BY Shape
  <2>2. S(l) + c(l) <= S(Levels)
    BY <2>1, TablesInOrder
  <2> QED BY <2>2, <1>2
<1> HIDE DEF S, bytes
<1>5. \A l \in Level : /\ tab + S(l) \in Nat /\ tab <= tab + S(l)
                       /\ tab + S(l) + c(l) <= tab + bytes
  <2> HIDE DEF c
  <2> QED BY <1>2, <1>4
<1>6. \A l, m \in Level : l < m => tab + S(l) + c(l) <= tab + S(m)
  <2> HIDE DEF c
  <2> QED BY <1>2, <1>3
<1>7. tab + S(0) = tab /\ tab + bytes <= PhysEnd
  BY <1>2 DEF bytes
<1> QED BY <1>1, <1>2, <1>5, <1>6, <1>7 DEF Geometry

\* A range inside one leaf table is inside one table of every level.
LEMMA OneTableEach ==
    ASSUME NEW va \in Nat, NEW n \in Nat \ {0}, va < VaEnd, ~CrossesLeaf(va, n)
    PROVE  /\ \A l \in Level : TableCount(va, n, l) = 1
           /\ va + n <= VaEnd
<1> DEFINE last == va + n - 1
           Same(l) == last \div Span[l] = va \div Span[l]
           T == {l \in 0 .. Leaf : Same(l)}
<1>1. last \in Nat /\ Leaf \in Level /\ Leaf \in 0 .. Leaf
  BY Shape
<1>2. Same(Leaf)
  <2> DEFINE E == Entries[Leaf]
             q == va \div E
             r == va % E
  <2>1. E \in Nat \ {0} /\ Span[Leaf] = E
    BY <1>1, Shape, SpanAssumption
  <2>2. IndexOf(va, Leaf) = r
    <3>1. va \div 1 = va
      BY Z3
    <3> QED BY <3>1, Shape DEF IndexOf
  <2>4. q \in Int /\ r \in 0 .. E - 1 /\ va = E * q + r
    <3>1. va \in Int
      OBVIOUS
    <3> HIDE DEF E
    <3> QED BY <3>1, <2>1, DivMod
  <2>3. r + n <= E
    <3>1. ~(r + n > E)
      BY <2>2 DEF CrossesLeaf
    <3> HIDE DEF r, E
    <3> QED BY <3>1, <2>1, <2>4
  <2> HIDE DEF E, q, r
  <2>5. E * q \in Int
    BY <2>1, <2>4
  <2>6. last = E * q + (r + n - 1) /\ r + n - 1 \in 0 .. E - 1 /\ last \in Int
    BY <2>1, <2>3, <2>4, <2>5
  <2> HIDE DEF last
  <2>7. last \div E = q
    BY <2>1, <2>4, <2>6, DivUnique
  <2> QED BY <2>1, <2>7 DEF q
<1> HIDE DEF last
<1>3. ASSUME NEW x \in 1 .. Leaf, x \in T PROVE x - 1 \in T
  <2>1. x - 1 \in Level /\ x - 1 \in 0 .. Leaf /\ Below(x - 1) = Span[x]
    <3>1. x - 1 \in 0 .. Leaf - 1 /\ (x - 1) + 1 = x
      BY Shape
    <3> QED BY <3>1, Shape
  <2>2. /\ last \div Span[x - 1] = (last \div Span[x]) \div Entries[x - 1]
        /\ va \div Span[x - 1] = (va \div Span[x]) \div Entries[x - 1]
    <3>1. /\ last \div Span[x - 1] = (last \div Below(x - 1)) \div Entries[x - 1]
          /\ va \div Span[x - 1] = (va \div Below(x - 1)) \div Entries[x - 1]
      BY <1>1, <2>1, EntryOfTable
    <3> QED BY <3>1, <2>1
  <2>3. last \div Span[x] = va \div Span[x]
    BY <1>3
  <2> QED BY <2>1, <2>2, <2>3
<1>4. \A l \in Level : Same(l)
  <2>1. 0 .. Leaf \subseteq T
    <3>1. Leaf \in T
      BY <1>1, <1>2
    <3> HIDE DEF T
    <3> QED BY <3>1, <1>3, <1>1, Descend, Shape
  <2> QED BY <2>1, Shape
<1>5. ASSUME NEW l \in Level PROVE TableCount(va, n, l) = 1
  <2>1. va \div Span[l] \in Nat
    BY EntryOfTable
  <2> QED BY <2>1, <1>4 DEF TableCount, last
<1>6. va + n <= VaEnd
  <2>1. VaEnd \in Nat \ {0} /\ VaEnd = Span[0] /\ 0 \in Level
    <3>1. 0 \in Level
      BY Shape
    <3> QED BY <3>1, Shape
  <2>2. va \div VaEnd = 0
    <3>1. va \in 0 .. VaEnd - 1 /\ 0 \in Int /\ va = VaEnd * 0 + va /\ va \in Int
      BY <2>1
    <3> QED BY <3>1, <2>1, DivUnique
  <2>3. last \div VaEnd = 0
    BY <2>1, <2>2, <1>4
  <2>4. last % VaEnd \in 0 .. VaEnd - 1 /\ last = VaEnd * (last \div VaEnd) + (last % VaEnd)
    <3>1. last \in Int
      BY <1>1
    <3> QED BY <3>1, <2>1, DivMod
  <2>5. last < VaEnd
    BY <2>1, <2>3, <2>4
  <2> QED BY <2>5, <2>1 DEF last
<1> QED BY <1>5, <1>6

\* While the range stays, so do its tables.
LEMMA SameTables ==
    ASSUME UNCHANGED range
    PROVE  /\ Tables' = Tables /\ \A w : Cell(w)' = Cell(w)
           /\ \A l : First(l)' = First(l) /\ Used(l)' = Used(l)
           /\ \A l, t, x : Number(l, t, x)' = Number(l, t, x)
           /\ Geometry /\ one_branch' = one_branch => Geometry'
BY DEF Tables, Cell, Word, First, Used, Number, Geometry

\* The number of an entry is an integer.
LEMMA NumberType ==
    ASSUME Geometry, NEW w \in Tables
    PROVE  Number(w[1], w[2], w[3]) - First(w[1]) \in Int
<1>1. w[1] \in Level /\ w[2] \in Nat /\ w[3] \in Nat
  BY TablesType
<1>2. range.va \div Span[w[1]] \in Nat /\ Entries[w[1]] \in Nat /\ First(w[1]) \in Nat
  BY <1>1, EntryOfTable, Shape, UsedPositive DEF Geometry
<1>3. Number(w[1], w[2], w[3]) \in Int
  BY <1>1, <1>2 DEF Number
<1> QED BY <1>2, <1>3

\* One more entry is written, and all of them are as they should be.
LEMMA FillOne ==
    ASSUME Geometry, Filled, UNCHANGED <<range, phys>>, NEW l \in Level, NEW u \in Nat,
           \A w \in Tables : vram'[Cell(w)] =
               IF w[1] = l /\ Number(w[1], w[2], w[3]) - First(w[1]) = u
               THEN EntryOf(l, u) ELSE vram[Cell(w)],
           \A m \in Level : \A x \in Int : Written(m, x)' <=> Written(m, x) \/ (m = l /\ x = u)
    PROVE  Filled'
<1>1. /\ Tables' = Tables /\ \A w : Cell(w)' = Cell(w)
      /\ \A m : First(m)' = First(m)
      /\ \A m, t, x : Number(m, t, x)' = Number(m, t, x)
  BY SameTables
<1>2. \A m, x : EntryOf(m, x)' = EntryOf(m, x)
  BY DEF EntryOf, make_pte_vram, make_pde_vram
<1>3. ASSUME NEW w \in Tables, NEW x \in Int, x = Number(w[1], w[2], w[3]) - First(w[1])
      PROVE  vram'[Cell(w)] = IF Written(w[1], x)' THEN EntryOf(w[1], x) ELSE 0
  <2>1. w[1] \in Level
    BY TablesType
  <2>2. vram[Cell(w)] = IF Written(w[1], x) THEN EntryOf(w[1], x) ELSE 0
    BY <1>3 DEF Filled
  <2>3. vram'[Cell(w)] = IF w[1] = l /\ x = u THEN EntryOf(l, u) ELSE vram[Cell(w)]
    BY <1>3
  <2>4. Written(w[1], x)' <=> Written(w[1], x) \/ (w[1] = l /\ x = u)
    BY <2>1
  <2> QED BY <2>2, <2>3, <2>4
<1>4. ASSUME NEW w \in Tables
      PROVE  (LET x == Number(w[1], w[2], w[3]) - First(w[1])
              IN  vram[Cell(w)] = IF Written(w[1], x) THEN EntryOf(w[1], x) ELSE 0)'
  <2>1. PICK x \in Int : x = Number(w[1], w[2], w[3]) - First(w[1])
    BY NumberType
  <2>2. (x = Number(w[1], w[2], w[3]) - First(w[1]))'
    BY <1>1, <2>1
  <2>3. (vram[Cell(w)] = IF Written(w[1], x) THEN EntryOf(w[1], x) ELSE 0)'
    BY <1>1, <1>2, <1>3, <2>1
  <2> QED BY <2>2, <2>3 DEF Written
<1> QED BY <1>1, <1>4 DEF Filled

\* Before anything was built.
LEMMA GmmuInitially == Init => GmmuInv /\ LinkInv
BY DEF Init, GmmuInit, GmmuInv, LinkInv, Busy

\* A step that leaves the tables alone keeps their invariant.
LEMMA GmmuFrame ==
    ASSUME GmmuInv, UNCHANGED <<vram, range, phys, one_branch, pc, level, i>>
    PROVE  GmmuInv'
<1>1. Geometry => Geometry'
  BY SameTables
<1>2. Cleared => Cleared'
  BY SameTables DEF Cleared
<1>3. Filled => Filled'
  <2>1. \A m, x : Written(m, x)' <=> Written(m, x)
    BY SameTables DEF Written
  <2>2. \A m, x : EntryOf(m, x)' = EntryOf(m, x)
    BY DEF EntryOf, make_pte_vram, make_pde_vram
  <2> QED BY <2>1, <2>2, SameTables DEF Filled
<1> QED BY <1>1, <1>2, <1>3 DEF GmmuInv

\* A plan is accepted only if it fits.
LEMMA RangePlanStep ==
    ASSUME GmmuInv, NEW va \in Nat, NEW n \in Nat, NEW tab \in Nat, NEW room,
           RangePlan(va, n, tab, room)
    PROVE  GmmuInv'
<1>1. /\ pc = "idle" /\ one_branch = FALSE /\ UNCHANGED <<vram, phys, one_branch, level, i>>
      /\ DOMAIN vram = (0 .. PhysEnd - 1) \X Words
  BY DEF RangePlan, GmmuInv
<1>2. CASE RangeInvalid(va, n, tab)
  <2>1. pc' = "idle"
    BY <1>1, <1>2 DEF RangePlan
  <2> QED BY <1>1, <2>1 DEF GmmuInv, Busy
<1>3. CASE ~RangeInvalid(va, n, tab)
  <2>1. range' = range_plan(va, n, tab) /\ pc' \in {"idle", "planned"}
    BY <1>3 DEF RangePlan
  <2>2. n \in Nat \ {0} /\ va + n <= VaEnd /\ tab + TableBytes(va, n) <= PhysEnd
    <3>1. n \in Nat \ {0}
      BY <1>3 DEF RangeInvalid
    <3>2. VaEnd \in Nat /\ PhysEnd \in Nat /\ Levels \in 0 .. Levels
      <4>1. 0 \in Level
        BY Shape
      <4> QED BY <4>1, Shape
    <3>3. TableBytes(va, n) \in Nat
      BY <3>1, <3>2, TablesAboveNext DEF TableBytes
    <3>4. ~(va >= VaEnd) /\ ~(n > VaEnd - va) /\ ~(TableBytes(va, n) > PhysEnd - tab)
      BY <1>3 DEF RangeInvalid
    <3> QED BY <3>1, <3>2, <3>3, <3>4
  <2>3. Geometry'
    BY <1>1, <2>1, <2>2, PlanGeometry
  <2> QED BY <1>1, <2>1, <2>3 DEF GmmuInv, Busy
<1> QED BY <1>2, <1>3

\* The build starts on tables nobody has cleared yet.
LEMMA StartsUncleared == Geometry /\ i = 0 => Cleared
<1> SUFFICES ASSUME Geometry, i = 0 PROVE Cleared
  OBVIOUS
<1>1. ASSUME NEW w \in Tables PROVE ~(range.level_phys[w[1]] + w[2] < range.table_phys + i)
  <2>1. range.table_phys <= range.level_phys[w[1]] + w[2] /\ range.table_phys \in Nat
        /\ range.level_phys[w[1]] + w[2] \in 0 .. PhysEnd - 1 /\ PhysEnd \in Nat
    BY CellInVram, Shape DEF Geometry
  <2> QED BY <2>1
<1> QED BY <1>1 DEF Cleared

\* What the invariant says while tables are built.
LEMMA BusyState ==
    ASSUME GmmuInv, pc \in {"zero", "pde", "pte", "built"}
    PROVE  /\ Geometry /\ phys \in Nat /\ level \in Nat /\ i \in Nat
           /\ DOMAIN vram = (0 .. PhysEnd - 1) \X Words /\ one_branch \in {TRUE, FALSE}
           /\ range.table_bytes \in Nat /\ range.n \in Nat /\ range.va \in Nat
<1>1. Geometry /\ phys \in Nat /\ level \in Nat /\ i \in Nat
      /\ DOMAIN vram = (0 .. PhysEnd - 1) \X Words /\ one_branch \in {TRUE, FALSE}
  BY DEF GmmuInv, Busy
<1> QED BY <1>1 DEF Geometry

\* The build begins, or is refused.
LEMMA RangeBuildStep ==
    ASSUME GmmuInv, NEW ph \in Nat, RangeBuild(ph)
    PROVE  GmmuInv'
<1>1. /\ pc = "planned" /\ UNCHANGED <<vram, range, one_branch>> /\ Geometry /\ one_branch = FALSE
      /\ DOMAIN vram = (0 .. PhysEnd - 1) \X Words
  BY DEF RangeBuild, GmmuInv, Busy
<1>2. Geometry'
  BY <1>1, SameTables
<1>3. CASE BuildInvalid(ph)
  <2>1. pc' = "idle"
    BY <1>3 DEF RangeBuild
  <2> QED BY <1>1, <2>1 DEF GmmuInv, Busy
<1>4. CASE ~BuildInvalid(ph)
  <2>1. pc' = "zero" /\ phys' = ph /\ level' = 0 /\ i' = 0
    BY <1>4 DEF RangeBuild
  <2>2. Cleared'
    <3>1. (Geometry /\ i = 0 => Cleared)'
      BY StartsUncleared, PTL
    <3> QED BY <1>2, <2>1, <3>1
  <2>3. 0 <= range'.table_bytes
    BY <1>2 DEF Geometry
  <2> QED BY <1>1, <1>2, <2>1, <2>2, <2>3 DEF GmmuInv, Busy
<1> QED BY <1>3, <1>4

\* One table of each level is enough for a range inside one leaf table.
LEMMA MapRangeStep ==
    ASSUME GmmuInv, NEW va \in Nat, NEW n \in Nat, NEW ph \in Nat, va < VaEnd, MapRange(va, n, ph)
    PROVE  GmmuInv'
<1>1. /\ pc = "idle" /\ n \in Nat \ {0} /\ ph + n + Levels <= PhysEnd /\ vram' = vram
      /\ DOMAIN vram = (0 .. PhysEnd - 1) \X Words
  BY DEF MapRange, GmmuInv
<1>2. CASE CrossesLeaf(va, n)
  <2>1. UNCHANGED <<vram, range, phys, one_branch, pc, level, i>>
    BY <1>1, <1>2 DEF MapRange
  <2> QED BY <2>1, GmmuFrame
<1>3. CASE ~CrossesLeaf(va, n)
  <2>1. /\ range' = [va |-> va, n |-> n, table_phys |-> ph + n, table_bytes |-> Levels,
                     level_phys |-> [l \in Level |-> ph + n + l],
                     level_count |-> [l \in Level |-> 1]]
        /\ phys' = ph /\ one_branch' = TRUE /\ pc' = "zero" /\ level' = 0 /\ i' = 0
    BY <1>3 DEF MapRange
  <2>2. /\ range'.va = va /\ range'.n = n /\ range'.table_phys = ph + n
        /\ range'.table_bytes = Levels
        /\ \A l \in Level : range'.level_phys[l] = ph + n + l /\ range'.level_count[l] = 1
    BY <2>1
  <2>3. va + n <= VaEnd /\ \A l \in Level : TableCount(va, n, l) = 1
    BY <1>1, <1>3, OneTableEach
  <2>4. Levels \in Nat /\ 0 \in Level /\ \A l \in Level : l \in Nat /\ l + 1 <= Levels
    BY Shape
  <2>5. /\ ph + n \in Nat /\ ph + n + 0 = ph + n
        /\ \A l \in Level : /\ ph + n + l \in Nat /\ ph + n <= ph + n + l
                            /\ ph + n + l + 1 <= ph + n + Levels
        /\ \A l, m \in Level : l < m => ph + n + l + 1 <= ph + n + m
    BY <2>4
  <2>6. Geometry'
    BY <1>1, <2>1, <2>2, <2>3, <2>4, <2>5 DEF Geometry
  <2>7. (Geometry /\ i = 0 => Cleared)'
    BY StartsUncleared, PTL
  <2> QED BY <1>1, <2>1, <2>2, <2>4, <2>6, <2>7 DEF GmmuInv, Busy
<1> QED BY <1>2, <1>3

\* One more table is cleared, as far as it has entries.
LEMMA ZeroTableStep ==
    ASSUME GmmuInv, ZeroTable
    PROVE  GmmuInv'
<1>1. /\ pc = "zero" /\ i < range.table_bytes /\ i' = i + 1
      /\ vram' = [w \in DOMAIN vram |-> IF w \in ZeroWords THEN 0 ELSE vram[w]]
      /\ UNCHANGED <<range, phys, one_branch, pc, level>>
  BY DEF ZeroTable
<1>2. /\ Geometry /\ Cleared /\ phys \in Nat /\ level \in Nat /\ i \in Nat
      /\ DOMAIN vram = (0 .. PhysEnd - 1) \X Words /\ range.table_bytes \in Nat
      /\ one_branch \in {TRUE, FALSE} /\ range.table_phys \in Nat
  BY <1>1, BusyState DEF GmmuInv, Geometry
<1>3. ASSUME NEW w \in Tables, range.level_phys[w[1]] + w[2] < range.table_phys + (i + 1)
      PROVE  vram'[Cell(w)] = 0
  <2> DEFINE p == range.level_phys[w[1]] + w[2]
             o == w[3] * Stride(w[1]) + SmallOff(w[1])
  <2>1. /\ Cell(w) = <<p, o>> /\ Cell(w) \in DOMAIN vram
        /\ p \in 0 .. PhysEnd - 1
    BY <1>2, CellInVram
  <2>2. PhysEnd \in Nat
    BY Shape
  <2>3. /\ w[1] \in Level /\ w[2] \in Nat /\ w[3] \in Nat /\ w[3] < Entries[w[1]]
        /\ w[2] < range.level_count[w[1]]
    BY <1>2, TablesType
  <2>4. CASE p < range.table_phys + i
    <3>1. vram[Cell(w)] = 0
      BY <1>2, <2>4 DEF Cleared
    <3> QED BY <3>1, <1>1, <2>1
  <2>5. CASE p = range.table_phys + i
    <3>1. Cell(w) \in ZeroWords
      <4>1. CASE one_branch
        <5>1. range.level_phys[w[1]] = range.table_phys + w[1] /\ range.level_count[w[1]] = 1
          BY <1>2, <2>3, <4>1 DEF Geometry
        <5>2. w[1] \in Nat
          BY <2>3, Shape
        <5>3. w[1] = i
          BY <5>1, <5>2, <2>3, <2>5, <1>2
        <5>4. o \in 0 .. Entries[i] * Stride(i) - 1
          BY <5>3, <2>3, WordOfEntry
        <5> HIDE DEF o
        <5> QED BY <2>1, <2>5, <4>1, <5>4 DEF ZeroWords
      <4>2. CASE ~one_branch
        <5>1. o \in Words
          BY <2>3, WordOfEntry
        <5> HIDE DEF o
        <5> QED BY <2>1, <2>5, <4>2, <5>1 DEF ZeroWords
      <4> QED BY <4>1, <4>2
    <3> QED BY <3>1, <1>1, <2>1
  <2>6. p < range.table_phys + (i + 1)
    BY <1>3
  <2> HIDE DEF p
  <2>7. p < range.table_phys + i \/ p = range.table_phys + i
    BY <2>1, <2>2, <2>6, <1>2
  <2> QED BY <2>4, <2>5, <2>7
<1>4. Cleared'
  BY <1>1, <1>3, SameTables DEF Cleared
<1>5. Geometry' /\ DOMAIN vram' = DOMAIN vram
  BY <1>1, <1>2, SameTables
<1>6. i' \in Nat /\ i' <= range'.table_bytes
  BY <1>1, <1>2
<1> QED BY <1>1, <1>2, <1>4, <1>5, <1>6 DEF GmmuInv, Busy

\* All tables are empty.
LEMMA ZeroDoneStep ==
    ASSUME GmmuInv, ZeroDone
    PROVE  GmmuInv'
<1>1. /\ pc = "zero" /\ i = range.table_bytes /\ pc' = "pde" /\ level' = 1 /\ i' = 0
      /\ UNCHANGED <<vram, range, phys, one_branch>>
  BY DEF ZeroDone
<1>2. /\ Geometry /\ Cleared /\ phys \in Nat
      /\ DOMAIN vram = (0 .. PhysEnd - 1) \X Words /\ one_branch \in {TRUE, FALSE}
  BY <1>1, BusyState DEF GmmuInv
<1>3. ASSUME NEW w \in Tables PROVE vram[Cell(w)] = 0
  BY <1>1, <1>2, CellInVram DEF Cleared
<1>4. ASSUME NEW l \in Level, NEW u \in Int PROVE ~Written(l, u)'
  <2>1. l \in Nat
    BY Shape
  <2> QED BY <1>1, <2>1 DEF Written
<1>5. Filled'
  <2>1. ASSUME NEW w \in Tables
        PROVE  (LET x == Number(w[1], w[2], w[3]) - First(w[1])
                IN  vram[Cell(w)] = IF Written(w[1], x) THEN EntryOf(w[1], x) ELSE 0)'
    <3>1. PICK x \in Int : x = Number(w[1], w[2], w[3]) - First(w[1])
      BY <1>2, NumberType
    <3>2. (x = Number(w[1], w[2], w[3]) - First(w[1]))'
      BY <1>1, <3>1, SameTables
    <3>3. ~Written(w[1], x)'
      BY <1>2, <1>4, TablesType
    <3>4. (vram[Cell(w)])' = 0
      BY <1>1, <1>3, SameTables
    <3> QED BY <3>2, <3>3, <3>4 DEF Written
  <2> QED BY <1>1, <2>1, SameTables DEF Filled
<1>6. Geometry' /\ 1 \in 1 .. Levels /\ 0 < range'.level_count[1]
  <2>1. 1 \in Level /\ 1 \in 1 .. Levels
    BY Shape
  <2>2. range.level_count[1] \in Nat \ {0}
    <3>1. range.level_count[1] = TableCount(range.va, range.n, 1) /\ range.va \in Nat
          /\ range.n \in Nat \ {0}
      BY <1>2, <2>1 DEF Geometry
    <3> QED BY <3>1, <2>1, CountPositive
  <2> QED BY <1>1, <1>2, <2>1, <2>2, SameTables
<1> QED BY <1>1, <1>2, <1>5, <1>6 DEF GmmuInv, Busy

\* nv_gmmu_range_build finds the entry above a table by the interval the table
\* covers: that is the place of that entry.
LEMMA ParentPlace ==
    ASSUME Geometry, NEW l \in 0 .. Leaf - 1, NEW u \in Nat, u < Used(l)
    PROVE  Word(ParentTable(l + 1, u), l, ParentIndex(l + 1, u)) = Cell(Place(l, u))
<1> DEFINE E == Entries[l]
           B == Span[l + 1]
           f == First(l)
           c == f + u
           s == range.va \div Span[l]
           lp == range.level_phys[l]
<1>1. l \in Level /\ l + 1 \in Level /\ l # Leaf /\ Below(l) = B /\ (l + 1) - 1 = l
  BY Shape
<1>2. E \in Nat \ {0} /\ B \in Nat \ {0} /\ Span[l] = E * B
  BY <1>1, Shape
<1>3. f = range.va \div B /\ f \in Nat
  BY <1>1, UsedPositive
<1>4. ParentIndex(l + 1, u) = c % E
  BY <1>1, <1>3 DEF ParentIndex
<1>5. ParentTable(l + 1, u) = lp + (c * B) \div Span[l] - s
  BY <1>1, <1>3 DEF ParentTable
<1>6. Place(l, u) = <<l, c \div E - s, c % E>>
  BY DEF Place
<1>7. s \in Nat /\ lp \in Nat
  BY <1>1, EntryOfTable DEF Geometry
<1> HIDE DEF f, s, lp, E, B
<1>8. c \in Int /\ c \in Nat /\ c <= c
  BY <1>3
<1> HIDE DEF c
<1>9. (c * B) \div Span[l] = c \div E
  BY <1>2, <1>8, DivCancel
<1>10. c \div E \in Nat
  BY <1>2, <1>8, DivMonotone
<1> DEFINE q == c \div E
           r == c % E
<1>11. q \in Nat
  BY <1>10
<1>12. ParentTable(l + 1, u) = lp + q - s /\ ParentIndex(l + 1, u) = r
       /\ Place(l, u) = <<l, q - s, r>>
  BY <1>4, <1>5, <1>6, <1>9
<1> HIDE DEF q, r
<1>13. lp + q - s = lp + (q - s)
  BY <1>7, <1>11
<1>14. Cell(Place(l, u)) = Word(lp + (q - s), l, r)
  BY <1>12 DEF Cell, lp
<1> QED BY <1>12, <1>13, <1>14

\* The entry for a table is written where the walk looks for it.
LEMMA WritePdeStep ==
    ASSUME GmmuInv, WritePde
    PROVE  GmmuInv'
<1>1. /\ pc = "pde" /\ level < Levels /\ ~one_branch
      /\ vram' = [vram EXCEPT ![Word(ParentTable(level, i), level - 1, ParentIndex(level, i))] =
                   make_pde_vram(range.level_phys[level] + i)]
      /\ IF i + 1 < range.level_count[level] THEN i' = i + 1 /\ UNCHANGED level
                                             ELSE i' = 0 /\ level' = level + 1
      /\ UNCHANGED <<range, phys, one_branch, pc>>
  BY DEF WritePde
<1>2. /\ Geometry /\ Filled /\ phys \in Nat /\ i \in Nat /\ level \in 1 .. Levels
      /\ i < range.level_count[level]
      /\ DOMAIN vram = (0 .. PhysEnd - 1) \X Words /\ one_branch \in {TRUE, FALSE}
  BY <1>1, BusyState DEF GmmuInv
<1>3. PICK l \in 0 .. Leaf - 1 : level = l + 1
  <2>1. level - 1 \in 0 .. Leaf - 1 /\ level = (level - 1) + 1
    BY <1>1, <1>2, Shape
  <2> QED BY <2>1
<1>4. PICK u \in Nat : u = i
  BY <1>2
<1>5. l \in Level /\ l + 1 \in Level /\ l # Leaf /\ (l + 1) - 1 = l /\ l \in Nat /\ l + 1 \in 1 .. Levels
      /\ Used(l) = range.level_count[l + 1] /\ Used(l) \in Nat
  <2>1. l \in Level /\ l + 1 \in Level /\ l # Leaf /\ (l + 1) - 1 = l /\ l \in Nat
        /\ l + 1 \in 1 .. Levels
    BY Shape
  <2> QED BY <2>1, <1>2, UsedPositive
<1>6. u < Used(l)
  BY <1>2, <1>3, <1>4, <1>5
<1>7. vram' = [vram EXCEPT ![Cell(Place(l, u))] = EntryOf(l, u)]
  BY <1>1, <1>2, <1>3, <1>4, <1>5, <1>6, ParentPlace DEF EntryOf
<1>8. \A w \in Tables : vram'[Cell(w)] =
          IF w[1] = l /\ Number(w[1], w[2], w[3]) - First(w[1]) = u
          THEN EntryOf(l, u) ELSE vram[Cell(w)]
  <2> DEFINE e == EntryOf(l, u)
  <2>1. vram' = [vram EXCEPT ![Cell(Place(l, u))] = e]
    BY <1>7
  <2> HIDE DEF e
  <2>2. ASSUME NEW w \in Tables
        PROVE  vram'[Cell(w)] = IF w[1] = l /\ Number(w[1], w[2], w[3]) - First(w[1]) = u
                                THEN e ELSE vram[Cell(w)]
    <3>1. /\ Cell(w) = Cell(Place(l, u))
               <=> (w[1] = l /\ Number(w[1], w[2], w[3]) - First(w[1]) = u)
          /\ Cell(w) \in DOMAIN vram
      BY <1>2, <1>5, <1>6, CellOfEntry
    <3> QED BY <3>1, <2>1
  <2> QED BY <2>2 DEF e
<1>9. level' \in 1 .. Levels /\ i' \in Nat /\ (level' < Levels => i' < range.level_count[level'])
      /\ \/ i + 1 < Used(l) /\ i' = i + 1 /\ level' = level
         \/ i + 1 = Used(l) /\ i' = 0 /\ level' = level + 1
  <2>1. CASE i + 1 < range.level_count[level]
    BY <1>1, <1>2, <1>3, <1>5, <2>1
  <2>2. CASE ~(i + 1 < range.level_count[level])
    <3>1. i' = 0 /\ level' = level + 1 /\ i + 1 = Used(l)
      BY <1>1, <1>2, <1>3, <1>5, <2>2
    <3>2. level' \in 1 .. Levels
      <4>1. Levels \in Nat
        BY Shape
      <4>2. level < Levels /\ level \in 1 .. Levels
        BY <1>1, <1>2
      <4> QED BY <3>1, <4>1, <4>2
    <3>3. level' < Levels => 0 < range.level_count[level']
      <4>1. SUFFICES ASSUME level' < Levels PROVE 0 < range.level_count[level']
        OBVIOUS
      <4>2. level' \in Level
        BY <4>1, <3>2, Shape
      <4>3. range.level_count[level'] = TableCount(range.va, range.n, level') /\ range.va \in Nat
            /\ range.n \in Nat \ {0}
        BY <4>2, <1>2 DEF Geometry
      <4>4. range.level_count[level'] \in Nat \ {0}
        BY <4>2, <4>3, CountPositive
      <4> QED BY <4>4
    <3> QED BY <3>1, <3>2, <3>3
  <2> QED BY <2>1, <2>2
<1>10. ASSUME NEW m \in Level, NEW x \in Int
       PROVE  Written(m, x)' <=> Written(m, x) \/ (m = l /\ x = u)
  <2>1. Used(m)' = Used(m) /\ Used(m) \in Nat \ {0} /\ m \in Nat
    BY <1>1, <1>2, SameTables, UsedPositive, Shape
  <2>2. CASE m = Leaf
    BY <2>2, <1>1, <1>5 DEF Written
  <2>3. CASE m # Leaf
    <3>1. Written(m, x) <=> 0 <= x /\ x < Used(m) /\ (l + 1 > m + 1 \/ (l + 1 = m + 1 /\ x < u))
      BY <2>3, <1>1, <1>3, <1>4 DEF Written
    <3>2. Written(m, x)' <=> 0 <= x /\ x < Used(m) /\ (level' > m + 1 \/ (level' = m + 1 /\ x < i'))
      BY <2>1, <2>3, <1>1 DEF Written
    <3>3. CASE u + 1 < Used(l) /\ i' = u + 1 /\ level' = l + 1
      BY <3>1, <3>2, <3>3, <2>1, <1>5, <1>6
    <3>4. CASE u + 1 = Used(l) /\ i' = 0 /\ level' = l + 2
      BY <3>1, <3>2, <3>4, <2>1, <1>5, <1>6
    <3> QED BY <3>3, <3>4, <1>9, <1>3, <1>4, <1>5
  <2> QED BY <2>2, <2>3
<1>11. Filled'
  BY <1>1, <1>2, <1>5, <1>8, <1>10, FillOne
<1>12. Geometry' /\ DOMAIN vram' = DOMAIN vram
  BY <1>1, <1>2, SameTables
<1>13. pc' = "pde" /\ phys' \in Nat /\ level' \in Nat /\ one_branch' = FALSE /\ range' = range
  BY <1>1, <1>2, <1>9, Shape
<1> QED BY <1>2, <1>9, <1>11, <1>12, <1>13 DEF GmmuInv, Busy

\* In a single branch the entry of a level is found by the address alone.
LEMMA ChainPlace ==
    ASSUME Geometry, NEW l \in Level
    PROVE  /\ Place(l, 0) = <<l, 0, IndexOf(range.va, l)>>
           /\ Cell(Place(l, 0)) = Word(range.level_phys[l], l, IndexOf(range.va, l))
           /\ Place(l, 0) \in Tables
<1> DEFINE f == range.va \div Below(l)
           s == range.va \div Span[l]
<1>1. f \in Nat /\ s \in Nat /\ f \div Entries[l] = s
  BY EntryOfTable DEF Geometry
<1>2. Place(l, 0) = <<l, (f + 0) \div Entries[l] - s, (f + 0) % Entries[l]>>
  BY DEF Place, First
<1>3. IndexOf(range.va, l) = f % Entries[l]
  BY DEF IndexOf
<1> HIDE DEF f, s
<1>4. f + 0 = f /\ s - s = 0
  BY <1>1
<1>5. Place(l, 0) = <<l, 0, IndexOf(range.va, l)>>
  BY <1>1, <1>2, <1>3, <1>4
<1>6. range.level_phys[l] \in Nat
  BY DEF Geometry
<1>7. Cell(Place(l, 0)) = Word(range.level_phys[l] + 0, l, IndexOf(range.va, l))
  BY <1>5 DEF Cell
<1>8. range.level_phys[l] + 0 = range.level_phys[l]
  BY <1>6
<1>9. Place(l, 0) \in Tables
  <2>1. Used(l) \in Nat \ {0} /\ 0 \in Nat
    BY UsedPositive
  <2>2. 0 < Used(l)
    BY <2>1
  <2> QED BY <2>1, <2>2, PlaceInTables
<1> QED BY <1>5, <1>7, <1>8, <1>9

\* One entry of each level of a single branch; the half of PD0's entry that is
\* cleared once more is no entry of any table.
LEMMA WritePdeChainStep ==
    ASSUME GmmuInv, WritePdeChain
    PROVE  GmmuInv'
<1>1. /\ pc = "pde" /\ level < Levels /\ one_branch /\ level' = level + 1
      /\ UNCHANGED <<range, phys, one_branch, pc, i>>
  BY DEF WritePdeChain
<1>2. /\ Geometry /\ Filled /\ phys \in Nat /\ i = 0 /\ level \in 1 .. Levels
      /\ DOMAIN vram = (0 .. PhysEnd - 1) \X Words /\ one_branch \in {TRUE, FALSE}
  BY <1>1, BusyState DEF GmmuInv
<1>3. PICK l \in 0 .. Leaf - 1 : level = l + 1
  <2>1. level - 1 \in 0 .. Leaf - 1 /\ level = (level - 1) + 1
    BY <1>1, <1>2, Shape
  <2> QED BY <2>1
<1>5. /\ l \in Level /\ l + 1 \in Level /\ l # Leaf /\ (l + 1) - 1 = l /\ l \in Nat
      /\ l + 2 \in 1 .. Levels /\ Used(l) = 1 /\ 0 < Used(l)
  <2>1. l \in Level /\ l + 1 \in Level /\ l # Leaf /\ (l + 1) - 1 = l /\ l \in Nat
        /\ l + 2 \in 1 .. Levels
    BY Shape
  <2>2. range.level_count[l + 1] = 1
    BY <2>1, <1>1, <1>2 DEF Geometry
  <2> QED BY <2>1, <2>2, <1>2, UsedPositive
<1> DEFINE up == range.level_phys[l]
           p == Place(l, 0)
           e == EntryOf(l, 0)
           half == Cell(p)[2] - 1
<1>6. /\ p = <<l, 0, IndexOf(range.va, l)>> /\ p \in Tables
      /\ Cell(p) = Word(up, l, IndexOf(range.va, l))
  BY <1>2, <1>5, ChainPlace
<1>7. e = make_pde_vram(range.level_phys[level])
  <2>1. range.level_phys[l + 1] \in Nat
    BY <1>2, <1>5 DEF Geometry
  <2>2. range.level_phys[l + 1] + 0 = range.level_phys[l + 1]
    BY <2>1
  <2> QED BY <2>2, <1>3, <1>5 DEF EntryOf
<1>8. vram' = [x \in DOMAIN vram |->
                 IF x = Cell(p) THEN e
                 ELSE IF level = Leaf /\ x = <<up, half>> THEN 0 ELSE vram[x]]
  BY <1>3, <1>5, <1>6, <1>7 DEF WritePdeChain
<1> HIDE DEF p, e
<1>9. ASSUME NEW w \in Tables, level = Leaf PROVE Cell(w) # <<up, half>>
  <2>1. /\ Cell(w) = <<range.level_phys[w[1]] + w[2], w[3] * Stride(w[1]) + SmallOff(w[1])>>
        /\ w[3] \in Nat /\ w[2] \in Nat
    BY <1>2, CellInVram, TablesType
  <2>2. /\ Cell(p) = <<range.level_phys[p[1]] + p[2], p[3] * Stride(p[1]) + SmallOff(p[1])>>
        /\ p[3] \in Nat /\ p[1] = l /\ p[2] = 0 /\ up \in Nat
    <3>1. up \in Nat
      BY <1>2, <1>5 DEF Geometry
    <3> QED BY <3>1, <1>2, <1>6, CellInVram, TablesType
  <2>3. Stride(l) = 2 /\ SmallOff(l) = 1
    BY <1>3, <1>5, <1>9 DEF Stride, SmallOff
  <2>4. SUFFICES ASSUME Cell(w) = <<up, half>> PROVE FALSE
    OBVIOUS
  <2>5. range.level_phys[w[1]] + w[2] = up /\ w[3] * Stride(w[1]) + SmallOff(w[1]) = half
    BY <2>1, <2>4
  <2>6. range.level_phys[p[1]] + p[2] = up
    BY <2>2
  <2>7. w[1] = l
    BY <1>2, <1>6, <2>2, <2>5, <2>6, PageApart
  <2>8. half = p[3] * 2 + 1 - 1
    BY <2>2, <2>3
  <2>9. w[3] * 2 + 1 = p[3] * 2 + 1 - 1
    BY <2>3, <2>5, <2>7, <2>8
  <2> QED BY <2>1, <2>2, <2>9
<1>10. \A w \in Tables : vram'[Cell(w)] =
           IF w[1] = l /\ Number(w[1], w[2], w[3]) - First(w[1]) = 0
           THEN EntryOf(l, 0) ELSE vram[Cell(w)]
  <2>1. ASSUME NEW w \in Tables
        PROVE  vram'[Cell(w)] = IF w[1] = l /\ Number(w[1], w[2], w[3]) - First(w[1]) = 0
                                THEN e ELSE vram[Cell(w)]
    <3>1. /\ Cell(w) = Cell(p)
               <=> (w[1] = l /\ Number(w[1], w[2], w[3]) - First(w[1]) = 0)
          /\ Cell(w) \in DOMAIN vram
      BY <1>2, <1>5, CellOfEntry DEF p
    <3> HIDE DEF half, up
    <3> QED BY <3>1, <1>8, <1>9
  <2> QED BY <2>1 DEF e
<1>11. ASSUME NEW m \in Level, NEW x \in Int
       PROVE  Written(m, x)' <=> Written(m, x) \/ (m = l /\ x = 0)
  <2>1. Used(m)' = Used(m) /\ Used(m) \in Nat \ {0} /\ m \in Nat
    BY <1>1, <1>2, SameTables, UsedPositive, Shape
  <2>2. CASE m = Leaf
    BY <2>2, <1>1, <1>5 DEF Written
  <2>3. CASE m # Leaf
    <3>1. Written(m, x) <=> 0 <= x /\ x < Used(m) /\ (l + 1 > m + 1 \/ (l + 1 = m + 1 /\ x < 0))
      BY <2>3, <1>1, <1>2, <1>3 DEF Written
    <3>2. Written(m, x)' <=> 0 <= x /\ x < Used(m) /\ (l + 2 > m + 1 \/ (l + 2 = m + 1 /\ x < 0))
      BY <2>1, <2>3, <1>1, <1>2, <1>3 DEF Written
    <3> QED BY <3>1, <3>2, <2>1, <1>5
  <2> QED BY <2>2, <2>3
<1>12. Filled'
  <2>1. 0 \in Nat
    OBVIOUS
  <2> QED BY <2>1, <1>1, <1>2, <1>5, <1>10, <1>11, FillOne
<1>13. Geometry' /\ DOMAIN vram' = DOMAIN vram
  BY <1>1, <1>2, <1>8, SameTables
<1>14. /\ level' \in 1 .. Levels /\ level' \in Nat /\ i' = 0 /\ pc' = "pde" /\ phys' \in Nat
       /\ range' = range /\ one_branch' = TRUE
       /\ level' < Levels => 0 < range.level_count[level']
  <2>1. level' = l + 2
    BY <1>1, <1>3, <1>5
  <2>2. level' < Levels => 0 < range.level_count[level']
    <3>1. SUFFICES ASSUME level' < Levels PROVE 0 < range.level_count[level']
      OBVIOUS
    <3>2. level' \in Level
      BY <3>1, <2>1, Shape
    <3>3. range.level_count[level'] = 1
      BY <3>2, <1>1, <1>2 DEF Geometry
    <3> QED BY <3>3
  <2> QED BY <2>1, <2>2, <1>1, <1>2, <1>5, Shape
<1> QED BY <1>2, <1>12, <1>13, <1>14 DEF GmmuInv, Busy

\* No entry is written, and all of them are as they should be.
LEMMA FillNone ==
    ASSUME Geometry, Filled, UNCHANGED <<vram, range, phys>>,
           \A m \in Level : \A x \in Int : Written(m, x)' <=> Written(m, x)
    PROVE  Filled'
<1>1. \A m, x : EntryOf(m, x)' = EntryOf(m, x)
  BY DEF EntryOf, make_pte_vram, make_pde_vram
<1>2. ASSUME NEW w \in Tables
      PROVE  (LET x == Number(w[1], w[2], w[3]) - First(w[1])
              IN  vram[Cell(w)] = IF Written(w[1], x) THEN EntryOf(w[1], x) ELSE 0)'
  <2>1. PICK x \in Int : x = Number(w[1], w[2], w[3]) - First(w[1])
    BY NumberType
  <2>2. (x = Number(w[1], w[2], w[3]) - First(w[1]))'
    BY <2>1, SameTables
  <2>3. vram[Cell(w)] = IF Written(w[1], x) THEN EntryOf(w[1], x) ELSE 0
    BY <2>1 DEF Filled
  <2>4. Written(w[1], x)' <=> Written(w[1], x)
    BY TablesType
  <2>5. (vram[Cell(w)] = IF Written(w[1], x) THEN EntryOf(w[1], x) ELSE 0)'
    BY <1>1, <2>3, <2>4, SameTables
  <2> QED BY <2>2, <2>5 DEF Written
<1> QED BY <1>2, SameTables DEF Filled

\* All entries above the leaves are written, none of the leaves.
LEMMA PdeDoneStep ==
    ASSUME GmmuInv, PdeDone
    PROVE  GmmuInv'
<1>1. /\ pc = "pde" /\ level = Levels /\ pc' = "pte" /\ i' = 0
      /\ UNCHANGED <<vram, range, phys, one_branch, level>>
  BY DEF PdeDone
<1>2. /\ Geometry /\ Filled /\ phys \in Nat /\ level \in Nat
      /\ DOMAIN vram = (0 .. PhysEnd - 1) \X Words /\ one_branch \in {TRUE, FALSE}
      /\ range.n \in Nat
  BY <1>1, BusyState DEF GmmuInv
<1>3. ASSUME NEW m \in Level, NEW x \in Int
      PROVE  Written(m, x)' <=> Written(m, x)
  <2>1. Used(m)' = Used(m) /\ m \in Nat /\ (m # Leaf => Levels > m + 1)
    BY <1>1, SameTables, Shape
  <2> QED BY <2>1, <1>1 DEF Written
<1>4. Filled'
  BY <1>1, <1>2, <1>3, FillNone
<1>5. Geometry'
  BY <1>1, <1>2, SameTables
<1>6. 0 <= range'.n
  BY <1>1, <1>2
<1> QED BY <1>1, <1>2, <1>4, <1>5, <1>6 DEF GmmuInv, Busy

\* The leaf entry of a page is found by the page's address.
LEMMA LeafPlace ==
    ASSUME Geometry, NEW u \in Nat, u < range.n
    PROVE  /\ Word(LeafTable(range.va + u), Leaf, IndexOf(range.va + u, Leaf))
                = Cell(Place(Leaf, u))
           /\ Leaf \in Level /\ u < Used(Leaf)
<1> DEFINE E == Entries[Leaf]
           v == range.va + u
           s == range.va \div Span[Leaf]
           lp == range.level_phys[Leaf]
           q == v \div E
           r == v % E
<1>1. Leaf \in Level /\ E \in Nat \ {0} /\ Span[Leaf] = E /\ Below(Leaf) = 1
  <2>1. Leaf \in Level
    BY Shape
  <2> QED BY <2>1, Shape, SpanAssumption
<1>2. range.va \in Nat /\ lp \in Nat
  BY <1>1 DEF Geometry
<1>3. First(Leaf) = range.va /\ Used(Leaf) = range.n
  BY <1>1, UsedPositive
<1>4. v \in Nat /\ v <= v
  BY <1>2
<1>5. s \in Nat
  BY <1>1, <1>2, EntryOfTable
<1>6. IndexOf(v, Leaf) = r
  <2> HIDE DEF v
  <2>1. v \div 1 = v
    BY <1>4, Z3
  <2> QED BY <2>1, <1>1 DEF IndexOf
<1>7. LeafTable(v) = lp + q - s
  BY <1>1 DEF LeafTable
<1>8. Place(Leaf, u) = <<Leaf, q - s, r>>
  BY <1>3 DEF Place
<1> HIDE DEF v, s, lp, E
<1>9. q \in Nat
  BY <1>1, <1>4, DivMonotone
<1> HIDE DEF q, r
<1>10. lp + q - s = lp + (q - s)
  BY <1>2, <1>5, <1>9
<1>11. Cell(Place(Leaf, u)) = Word(lp + (q - s), Leaf, r)
  BY <1>8 DEF Cell, lp
<1> QED BY <1>1, <1>3, <1>6, <1>7, <1>10, <1>11 DEF v

\* The entry of a page is written where the walk looks for it.
LEMMA WritePteStep ==
    ASSUME GmmuInv, WritePte
    PROVE  GmmuInv'
<1>1. /\ pc = "pte" /\ i < range.n /\ i' = i + 1
      /\ UNCHANGED <<range, phys, one_branch, pc, level>>
      /\ vram' = [vram EXCEPT ![Word(LeafTable(range.va + i), Leaf, IndexOf(range.va + i, Leaf))] =
                    make_pte_vram(phys + i)]
  BY DEF WritePte
<1>2. /\ Geometry /\ Filled /\ phys \in Nat /\ i \in Nat /\ level = Levels /\ level \in Nat
      /\ DOMAIN vram = (0 .. PhysEnd - 1) \X Words /\ one_branch \in {TRUE, FALSE}
      /\ range.n \in Nat
  BY <1>1, BusyState DEF GmmuInv
<1>3. PICK u \in Nat : u = i
  BY <1>2
<1>4. /\ Word(LeafTable(range.va + u), Leaf, IndexOf(range.va + u, Leaf)) = Cell(Place(Leaf, u))
      /\ Leaf \in Level /\ u < Used(Leaf) /\ Used(Leaf) \in Nat
  BY <1>1, <1>2, <1>3, LeafPlace, UsedPositive
<1>5. vram' = [vram EXCEPT ![Cell(Place(Leaf, u))] = EntryOf(Leaf, u)]
  BY <1>1, <1>3, <1>4 DEF EntryOf
<1>6. \A w \in Tables : vram'[Cell(w)] =
          IF w[1] = Leaf /\ Number(w[1], w[2], w[3]) - First(w[1]) = u
          THEN EntryOf(Leaf, u) ELSE vram[Cell(w)]
  <2> DEFINE e == EntryOf(Leaf, u)
  <2>1. vram' = [vram EXCEPT ![Cell(Place(Leaf, u))] = e]
    BY <1>5
  <2> HIDE DEF e
  <2>2. ASSUME NEW w \in Tables
        PROVE  vram'[Cell(w)] = IF w[1] = Leaf /\ Number(w[1], w[2], w[3]) - First(w[1]) = u
                                THEN e ELSE vram[Cell(w)]
    <3>1. /\ Cell(w) = Cell(Place(Leaf, u))
               <=> (w[1] = Leaf /\ Number(w[1], w[2], w[3]) - First(w[1]) = u)
          /\ Cell(w) \in DOMAIN vram
      BY <1>2, <1>4, CellOfEntry
    <3> QED BY <3>1, <2>1
  <2> QED BY <2>2 DEF e
<1>7. ASSUME NEW m \in Level, NEW x \in Int
      PROVE  Written(m, x)' <=> Written(m, x) \/ (m = Leaf /\ x = u)
  <2>1. Used(m)' = Used(m)
    BY <1>1, SameTables
  <2>2. CASE m = Leaf
    BY <2>1, <2>2, <1>1, <1>2, <1>3, <1>4 DEF Written
  <2>3. CASE m # Leaf
    BY <2>1, <2>3, <1>1 DEF Written
  <2> QED BY <2>2, <2>3
<1>8. Filled'
  BY <1>1, <1>2, <1>4, <1>6, <1>7, FillOne
<1>9. Geometry' /\ DOMAIN vram' = DOMAIN vram
  BY <1>1, <1>2, SameTables
<1>10. i' \in Nat /\ i' <= range'.n /\ pc' = "pte" /\ level' = Levels /\ level' \in Nat
       /\ phys' \in Nat
  BY <1>1, <1>2
<1>11. one_branch' = one_branch /\ one_branch \in {TRUE, FALSE}
       /\ DOMAIN vram = (0 .. PhysEnd - 1) \X Words
  BY <1>1, <1>2
<1> QED BY <1>8, <1>9, <1>10, <1>11 DEF GmmuInv, Busy

\* The tables are complete.
LEMMA PteDoneStep ==
    ASSUME GmmuInv, PteDone
    PROVE  GmmuInv'
<1>1. /\ pc = "pte" /\ i = range.n /\ pc' = "built"
      /\ UNCHANGED <<vram, range, phys, one_branch, level, i>>
  BY DEF PteDone
<1>2. /\ Geometry /\ Filled /\ phys \in Nat /\ i \in Nat /\ level = Levels /\ level \in Nat
      /\ DOMAIN vram = (0 .. PhysEnd - 1) \X Words /\ one_branch \in {TRUE, FALSE}
      /\ i <= range.n
  BY <1>1, BusyState DEF GmmuInv
<1>3. ASSUME NEW m \in Level, NEW x \in Int
      PROVE  Written(m, x)' <=> Written(m, x)
  <2>1. Used(m)' = Used(m) /\ m \in Nat /\ (m # Leaf => Levels > m + 1)
    BY <1>1, SameTables, Shape
  <2> QED BY <2>1, <1>1, <1>2 DEF Written
<1>4. Filled'
  BY <1>1, <1>2, <1>3, FillNone
<1>5. Geometry'
  BY <1>1, <1>2, SameTables
<1> QED BY <1>1, <1>2, <1>4, <1>5 DEF GmmuInv, Busy

\* The plan that was chosen is one nv_gmmu_range_plan accepts.
LEMMA PlannedFits ==
    PlanInv /\ mpc = "planned" =>
        /\ owned \in Nat /\ mapped \in Nat \ {0} /\ AppVa + mapped <= VaEnd
        /\ owned + mapped + TableBytes(AppVa, mapped) <= PhysEnd
        /\ range = range_plan(AppVa, mapped, owned + mapped)
<1> SUFFICES ASSUME PlanInv, mpc = "planned"
             PROVE  /\ owned \in Nat /\ mapped \in Nat \ {0} /\ AppVa + mapped <= VaEnd
                    /\ owned + mapped + TableBytes(AppVa, mapped) <= PhysEnd
                    /\ range = range_plan(AppVa, mapped, owned + mapped)
  OBVIOUS
<1>1. PlanTypeOK /\ PlannedInv
  BY DEF PlanInv
<1>2. /\ owned \in Nat /\ mapped \in Nat \ {0} /\ TableBytes(AppVa, mapped) \in Nat
      /\ owned + mapped + TableBytes(AppVa, mapped) + ChannelPages <= PhysEnd
      /\ range = range_plan(AppVa, mapped, owned + mapped)
  BY <1>1, PlannedPlace
<1>3. owned + mapped + TableBytes(AppVa, mapped) <= PhysEnd
  <2> DEFINE x == owned + mapped + TableBytes(AppVa, mapped)
  <2>3. ChannelPages \in Nat /\ PhysEnd \in Nat
    BY SizeAssumption, Shape
  <2>4. owned \in Nat /\ mapped \in Nat /\ TableBytes(AppVa, mapped) \in Nat
    BY <1>2
  <2>5. x \in Nat
    BY <2>4
  <2>6. x + ChannelPages <= PhysEnd
    BY <1>2
  <2>1. x \in Nat /\ x + ChannelPages <= PhysEnd /\ ChannelPages \in Nat /\ PhysEnd \in Nat
    BY <2>3, <2>5, <2>6
  <2> HIDE DEF x
  <2>2. x <= PhysEnd
    BY <2>1
  <2> QED BY <2>2 DEF x
<1>4. AppVa + mapped <= VaEnd
  <2>1. AppVa \in Nat /\ mapped <= VaEnd - AppVa
    BY <1>1, TotalSize DEF PlanTypeOK
  <2>2. VaEnd \in Nat
    <3>1. 0 \in Level
      BY Shape
    <3> QED BY <3>1, Shape
  <2> QED BY <2>1, <2>2, <1>2
<1> QED BY <1>2, <1>3, <1>4

-----------------------------------------------------------------------------
(* The invariant of the choice and of the tables together. *)

IndInv == PlanInv /\ GmmuInv /\ LinkInv

\* Everything but the choice made by Take leaves the tables alone.
LEMMA ChoiceKeepsTables ==
    ASSUME IndInv,
           \/ \E rs \in RegionLists, n \in AppSizes, e \in Extras : PlanMemory(rs, n, e)
           \/ \E rs \in RegionLists : ChooseLegacy(rs)
           \/ CheckRegion \/ FindRange \/ SkipExcluded \/ LeaveSpan
    PROVE  GmmuInv' /\ LinkInv'
<1>1. UNCHANGED <<vram, range, phys, one_branch, pc, level, i>>
  BY DEF PlanMemory, ChooseLegacy, CheckRegion, FindRange, SkipExcluded, LeaveSpan, gvars
<1>2. pc = "idle"
  BY DEF IndInv, LinkInv, PlanMemory, ChooseLegacy, CheckRegion, FindRange, SkipExcluded, LeaveSpan
<1>3. mpc' # "planned"
  BY DEF PlanMemory, ChooseLegacy, CheckRegion, FindRange, SkipExcluded, LeaveSpan, NextSpan, Refuse
<1> QED BY <1>1, <1>2, <1>3, GmmuFrame DEF IndInv, LinkInv

\* The tables are planned where the choice wants them.
LEMMA TakeKeepsTables ==
    ASSUME IndInv, Take
    PROVE  GmmuInv' /\ LinkInv'
<1>1. /\ mpc = "search" /\ mpc' = "planned" /\ pc' = "planned"
      /\ UNCHANGED <<vram, phys, one_branch, level, i>>
  BY DEF Take
<1>2. pc = "idle" /\ one_branch = FALSE /\ DOMAIN vram = (0 .. PhysEnd - 1) \X Words
  BY <1>1 DEF IndInv, LinkInv, GmmuInv
<1>3. PlanInv'
  BY TakeStep DEF IndInv
<1>4. /\ owned' \in Nat /\ mapped' \in Nat \ {0} /\ AppVa + mapped' <= VaEnd
      /\ owned' + mapped' + TableBytes(AppVa, mapped') <= PhysEnd
      /\ range' = range_plan(AppVa, mapped', owned' + mapped')
  <2>1. (PlanInv /\ mpc = "planned" =>
           /\ owned \in Nat /\ mapped \in Nat \ {0} /\ AppVa + mapped <= VaEnd
           /\ owned + mapped + TableBytes(AppVa, mapped) <= PhysEnd
           /\ range = range_plan(AppVa, mapped, owned + mapped))'
    BY PlannedFits, PTL
  <2> QED BY <2>1, <1>1, <1>3
<1>5. PICK n \in Nat \ {0}, o \in Nat : n = mapped' /\ o = owned'
  BY <1>4, Zenon
<1>6. Geometry'
  <2>1. AppVa \in Nat
    BY SizeAssumption
  <2>2. AppVa + n <= VaEnd /\ (o + n) + TableBytes(AppVa, n) <= PhysEnd
    BY <1>4, <1>5, Zenon
  <2>3. range' = range_plan(AppVa, n, o + n)
    BY <1>4, <1>5, Zenon
  <2>4. one_branch' = FALSE /\ o + n \in Nat
    BY <1>1, <1>2
  <2> QED BY <2>1, <2>2, <2>3, <2>4, PlanGeometry
<1>7. one_branch' = FALSE /\ pc' = "planned" /\ mpc' = "planned"
      /\ DOMAIN vram' = (0 .. PhysEnd - 1) \X Words
  BY <1>1, <1>2
<1>8. GmmuInv'
  BY <1>6, <1>7 DEF GmmuInv, Busy
<1>9. LinkInv'
  BY <1>7 DEF LinkInv, Busy
<1> QED BY <1>8, <1>9

\* One step of the build, whichever it is.
LEMMA StepKeepsTables ==
    ASSUME GmmuInv, Step
    PROVE  /\ GmmuInv' /\ pc' \in Busy
           /\ UNCHANGED <<range, phys, one_branch, rc>>
<1>1. GmmuInv'
  BY ZeroTableStep, ZeroDoneStep, WritePdeStep, WritePdeChainStep, PdeDoneStep, WritePteStep,
     PteDoneStep DEF Step
<1>2. pc' \in Busy /\ UNCHANGED <<range, phys, one_branch, rc>>
  BY DEF Step, ZeroTable, ZeroDone, WritePde, WritePdeChain, PdeDone, WritePte, PteDone, Busy
<1> QED BY <1>1, <1>2

\* Ranges of any kind, while nothing was chosen.
LEMMA AnyRangeStep ==
    ASSUME IndInv, mpc = "idle", GmmuNext, UNCHANGED mvars
    PROVE  IndInv'
<1>1. GmmuInv'
  <2>1. Vas \subseteq Nat /\ Sizes \subseteq Nat /\ Places \subseteq Nat /\ GmmuInv
    BY InputAssumption DEF IndInv
  <2>2. CASE \E va \in Vas, n \in Sizes, tab \in Places, short \in {0, 1} :
               RangePlan(va, n, tab, TableBytes(va, n) - short)
    BY <2>1, <2>2, RangePlanStep
  <2>3. CASE \E ph \in Places : RangeBuild(ph)
    BY <2>1, <2>3, RangeBuildStep
  <2>4. CASE \E va \in Vas, n \in Sizes, ph \in Places : va < VaEnd /\ MapRange(va, n, ph)
    BY <2>1, <2>4, MapRangeStep
  <2>5. CASE Step
    BY <2>1, <2>5, StepKeepsTables
  <2> QED BY <2>2, <2>3, <2>4, <2>5 DEF GmmuNext
<1>2. PlanInv'
  BY BuildKeepsPlan DEF IndInv
<1>3. LinkInv'
  BY DEF LinkInv, mvars
<1> QED BY <1>1, <1>2, <1>3 DEF IndInv

\* The build of the planned tables is accepted, and stays with its plan.
LEMMA PlannedBuildStep ==
    ASSUME IndInv, mpc = "planned", RangeBuild(service_phys) \/ Step, UNCHANGED mvars
    PROVE  IndInv'
<1>1. PlanInv /\ GmmuInv /\ one_branch = FALSE /\ PlanTypeOK /\ PlannedInv /\ rc = 0
  BY DEF IndInv, LinkInv, PlanInv, PlannedInv
<1>2. CASE RangeBuild(service_phys)
  <2>1. owned \in Nat /\ ~BuildInvalid(owned) /\ service_phys = owned
    BY <1>1, PlannedPlace DEF service_phys
  <2>2. RangeBuild(owned)
    BY <1>2, <2>1
  <2>3. GmmuInv'
    BY <1>1, <2>1, <2>2, RangeBuildStep
  <2>4. pc' = "zero" /\ rc' = 0 /\ range' = range /\ one_branch' = one_branch
    BY <2>1, <2>2 DEF RangeBuild
  <2>5. PlanInv'
    BY <1>1, <2>4, BuildKeepsPlan
  <2> QED BY <1>1, <2>3, <2>4, <2>5 DEF IndInv, LinkInv, mvars, Busy
<1>3. CASE Step
  <2>1. GmmuInv' /\ pc' \in Busy /\ UNCHANGED <<range, one_branch, rc>>
    BY <1>1, <1>3, StepKeepsTables
  <2>2. PlanInv'
    BY <1>1, <2>1, BuildKeepsPlan
  <2> QED BY <1>1, <2>1, <2>2 DEF IndInv, LinkInv, mvars
<1> QED BY <1>2, <1>3

\* The megabyte is mapped by a single branch.
LEMMA LegacyBuildStep ==
    ASSUME IndInv, mpc = "legacy", MapRange(AppVa, ServicePages, owned) \/ Step, UNCHANGED mvars
    PROVE  IndInv'
<1>1. PlanInv /\ GmmuInv /\ owned \in Nat
  BY DEF IndInv, PlanInv, PlanTypeOK
<1>2. GmmuInv'
  <2>1. AppVa \in Nat /\ ServicePages \in Nat /\ AppVa < VaEnd
    BY SizeAssumption
  <2>2. CASE MapRange(AppVa, ServicePages, owned)
    BY <1>1, <2>1, <2>2, MapRangeStep
  <2>3. CASE Step
    BY <1>1, <2>3, StepKeepsTables
  <2> QED BY <2>2, <2>3
<1>3. PlanInv'
  BY <1>1, BuildKeepsPlan
<1>4. LinkInv'
  BY DEF LinkInv, mvars
<1> QED BY <1>2, <1>3, <1>4 DEF IndInv

\* Every step keeps the invariant.
LEMMA NextKeeps ==
    ASSUME IndInv, [Next]_vars
    PROVE  IndInv'
<1>1. CASE mpc = "idle" /\ GmmuNext /\ UNCHANGED mvars
  BY <1>1, AnyRangeStep
<1>2. CASE \E rs \in RegionLists, n \in AppSizes, e \in Extras : PlanMemory(rs, n, e)
  BY <1>2, PlanMemoryStep, ChoiceKeepsTables DEF IndInv
<1>3. CASE \E rs \in RegionLists : ChooseLegacy(rs)
  BY <1>3, ChooseLegacyStep, ChoiceKeepsTables DEF IndInv
<1>4. CASE CheckRegion
  BY <1>4, CheckRegionStep, ChoiceKeepsTables DEF IndInv
<1>5. CASE FindRange
  BY <1>5, FindRangeStep, ChoiceKeepsTables DEF IndInv
<1>6. CASE Take
  BY <1>6, TakeStep, TakeKeepsTables DEF IndInv
<1>7. CASE SkipExcluded
  BY <1>7, SkipExcludedStep, ChoiceKeepsTables DEF IndInv
<1>8. CASE LeaveSpan
  BY <1>8, LeaveSpanStep, ChoiceKeepsTables DEF IndInv
<1>9. CASE mpc = "planned" /\ (RangeBuild(service_phys) \/ Step) /\ UNCHANGED mvars
  BY <1>9, PlannedBuildStep
<1>10. CASE mpc = "legacy" /\ (MapRange(AppVa, ServicePages, owned) \/ Step) /\ UNCHANGED mvars
  BY <1>10, LegacyBuildStep
<1>11. CASE UNCHANGED vars
  <2>1. UNCHANGED gvars /\ UNCHANGED mvars
    BY <1>11 DEF vars
  <2>2. GmmuInv'
    BY <2>1, GmmuFrame DEF gvars, IndInv
  <2>3. LinkInv'
    BY <2>1 DEF IndInv, gvars, mvars, LinkInv
  <2>4. CASE mpc # "refused"
    <3>1. mpc = "planned" => range' = range /\ rc' = 0
      BY <2>1 DEF gvars, IndInv, PlanInv, PlannedInv
    <3>2. PlanInv'
      BY <3>1, <2>1, <2>4, BuildKeepsPlan DEF IndInv
    <3> QED BY <3>2, <2>2, <2>3 DEF IndInv
  <2>5. CASE mpc = "refused"
    <3>1. PlanTypeOK /\ NoSpaceJustified /\ mpc' = mpc /\ rc' = rc
          /\ UNCHANGED <<regions, app, extra, available, k, candidate, owned>>
      BY <2>1 DEF IndInv, PlanInv, gvars, mvars
    <3>2. PlanTypeOK'
      BY <3>1, <2>5 DEF PlanTypeOK
    <3>3. /\ total' = total /\ excluded' = excluded /\ GoodRegions' = GoodRegions
          /\ BadPlan(regions, app)' <=> BadPlan(regions, app)
          /\ span_valid(extra)' <=> span_valid(extra)
      BY <3>1, SameObstacles DEF GoodRegions, BadPlan, span_valid
    <3>4. NoSpaceJustified'
      BY <3>1, <3>3 DEF NoSpaceJustified, Overlaps, span_valid, BadPlan
    <3>5. CheckInv' /\ SearchInv' /\ PlannedInv' /\ LegacyInv'
      BY <3>1, <2>5 DEF CheckInv, SearchInv, PlannedInv, LegacyInv
    <3> QED BY <3>2, <3>4, <3>5, <2>2, <2>3 DEF IndInv, PlanInv
  <2> QED BY <2>4, <2>5
<1> QED BY <1>1, <1>2, <1>3, <1>4, <1>5, <1>6, <1>7, <1>8, <1>9, <1>10, <1>11 DEF Next

\* The invariant holds in every state.
LEMMA Invariant == Spec => []IndInv
<1>1. Init => IndInv
  BY PlanInit, GmmuInitially DEF IndInv
<1>2. IndInv /\ [Next]_vars => IndInv'
  BY NextKeeps
<1> QED BY <1>1, <1>2, PTL DEF Spec

-----------------------------------------------------------------------------
(* The theorems. *)

\* The choice of nv_gsp_memory_plan is well typed: its spans and sizes are
\* numbers of their ranges, and it is never at work on arguments it should have
\* refused.
THEOREM PlanIsTyped == Spec => []PlanTypeOK
<1>1. IndInv => PlanTypeOK
  BY DEF IndInv, PlanInv
<1> QED BY <1>1, Invariant, PTL

\* The four parts nv_gsp_memory_plan cuts the driver's memory into are apart,
\* in one usable region, clear of the low memory and of the console, and the
\* build of their page tables accepts them; the megabyte of the older choice
\* lies in a usable region.
THEOREM LayoutSafe == Spec => []LayoutIsSafe
<1>1. IndInv => LayoutIsSafe
  BY LayoutFromPlan DEF IndInv
<1> QED BY <1>1, Invariant, PTL

\* nv_vram_find_range misses nothing: when the plan says there is no room, no
\* aligned place of a usable region is free; and a report, or arguments, are
\* refused only if there is something wrong with them.
THEOREM NoRoomIsTrue == Spec => []NoSpaceJustified
<1>1. IndInv => NoSpaceJustified
  BY DEF IndInv, PlanInv
<1> QED BY <1>1, Invariant, PTL

\* The tables nv_gmmu_range_build and nv_gmmu_map_range write translate every
\* page of their range to its page of VRAM and no other page to anything; and
\* half built they never lead a walk astray.
THEOREM TablesMapExactly == Spec => []MappedExactly
<1>1. IndInv => MappedExactly
  BY WalkIsRight DEF IndInv
<1> QED BY <1>1, Invariant, PTL

-----------------------------------------------------------------------------
(* Staging: the arithmetic of the plan of the protected region. *)

\* Rounding down gives the multiple of a next to v.
LEMMA DownNear ==
    ASSUME NEW v \in Nat, NEW a \in Nat \ {0}
    PROVE  /\ Down(v, a) \in Nat /\ Down(v, a) <= v /\ v < Down(v, a) + a
           /\ \E q \in Nat : Down(v, a) = a * q
<1> DEFINE q == v \div a
           r == v % a
<1>1. q \in Int /\ r \in 0 .. a - 1 /\ v = a * q + r /\ Down(v, a) = v - r
  <2>1. v \in Int
    OBVIOUS
  <2> QED BY <2>1, DivMod DEF Down
<1>2. q \in Nat
  <2>1. v <= v
    OBVIOUS
  <2> QED BY <2>1, DivMonotone
<1> HIDE DEF q, r
<1>3. a * q \in Nat
  BY <1>2, Z3
<1>4. Down(v, a) = a * q
  BY <1>1, <1>3
<1> QED BY <1>1, <1>2, <1>3, <1>4

\* A difference of unsigned numbers.
LEMMA MinusWraps ==
    ASSUME NEW x \in Nat, NEW y \in Nat, x < Wraps, y <= Wraps
    PROVE  Minus(x, y) = IF y <= x THEN x - y ELSE x - y + Wraps
<1>1. Wraps \in Nat \ {0}
  BY StagingAssumption
<1>2. CASE y <= x
  <2>1. x - y \in Int /\ x - y \in 0 .. Wraps - 1 /\ x - y = Wraps * 0 + (x - y)
    BY <1>1, <1>2
  <2> QED BY <2>1, <1>1, <1>2, DivUnique DEF Minus
<1>3. CASE ~(y <= x)
  <2>1. x - y \in Int /\ x - y + Wraps \in 0 .. Wraps - 1 /\ -1 \in Int
        /\ x - y = Wraps * (-1) + (x - y + Wraps)
    BY <1>1, <1>3
  <2> QED BY <2>1, <1>1, <1>3, DivUnique DEF Minus
<1> QED BY <1>2, <1>3

\* Pages that hold n cells, and no more of them than that takes.
LEMMA UpNear ==
    ASSUME NEW n \in Nat, NEW d \in Nat \ {0}
    PROVE  /\ Up(n, d) \in Nat /\ n <= Up(n, d) * d /\ Up(n, d) * d < n + d
           /\ Up(n, d) * d \in Nat
           /\ n > 0 => Up(n, d) > 0
<1> DEFINE v == n + d - 1
           q == v \div d
           r == v % d
<1>1. v \in Nat /\ v \in Int /\ v <= v
  OBVIOUS
<1>2. Up(n, d) = q
  BY DEF Up
<1> HIDE DEF v
<1>3. q \in Nat /\ r \in 0 .. d - 1 /\ v = d * q + r
  BY <1>1, DivMonotone, DivMod
<1> HIDE DEF q, r
<1>4. d * q = q * d /\ q * d \in Nat
  BY <1>3, Z3
<1>5. n <= q * d /\ q * d < n + d
  <2>1. q * d = n + d - 1 - r
    BY <1>3, <1>4 DEF v
  <2> QED BY <2>1, <1>3, <1>4
<1>6. n > 0 => q > 0
  <2>1. q = 0 => q * d = 0
    BY <1>3, Z3
  <2> QED BY <2>1, <1>3, <1>5
<1> QED BY <1>2, <1>3, <1>4, <1>5, <1>6

\* The heap of the firmware is a number of megabytes, and less than the address
\* space.
LEMMA HeapIsWhole ==
    ASSUME NEW fb \in Nat, 2 * fb <= Wraps
    PROVE  /\ \E m \in Nat : HeapWanted(fb) = 4096 * m
           /\ HeapWanted(fb) \in Nat \ {0} /\ HeapWanted(fb) + 4096 <= Wraps
<1>1. Wraps \in Nat /\ Wraps >= 4194304
  BY StagingAssumption DEF MiB
<1> DEFINE u == Up(fb, 4194304)
           z == Up(384 * u, 4096)
<1>2. u \in Nat /\ u * 4194304 < fb + 4194304
  BY UpNear
<1> HIDE DEF u
<1>3. z \in Nat /\ z * 4096 < 384 * u + 4096
  <2>1. PICK g \in Nat : g = 384 * u
    BY <1>2
  <2>2. z = Up(g, 4096)
    BY <2>1
  <2> HIDE DEF z
  <2>3. 4096 \in Nat \ {0}
    OBVIOUS
  <2>4. Up(g, 4096) \in Nat /\ Up(g, 4096) * 4096 < g + 4096
    BY <2>3, UpNear
  <2> QED BY <2>1, <2>2, <2>4
<1> HIDE DEF z
<1>4. HeapWanted(fb) = IF 28 * 4096 + z * 4096 + 96 * 4096 < 84 * 4096 THEN 84 * 4096
                       ELSE 28 * 4096 + z * 4096 + 96 * 4096
  <2>1. 1024 * MiB = 4194304 /\ 96 * KiB * u = 384 * u
    BY <1>2 DEF MiB, KiB
  <2> QED BY <2>1 DEF HeapWanted, u, z, MiB
<1>5. HeapWanted(fb) = 4096 * (z + 124)
  BY <1>3, <1>4
<1>6. z + 124 \in Nat
  BY <1>3
<1>7. HeapWanted(fb) \in Nat \ {0} /\ HeapWanted(fb) + 4096 <= Wraps
  BY <1>1, <1>2, <1>3, <1>5
<1> QED BY <1>5, <1>6, <1>7

\* Where the plan puts the parts, and that the checks of nv_gsp_fb_layout accept
\* it only if the parts fit and refuse it only if they, rounded, are too large.
LEMMA PlanIsRight ==
    ASSUME NEW fb \in Nat, NEW w \in Nat, NEW boot \in Nat \ {0}, NEW elf \in Nat \ {0},
           NEW p,
           2 * fb <= Wraps, 2 * boot <= Wraps, 2 * elf <= Wraps,
           ~NoFrts(fb, w), p = Plan(fb, w, boot, elf)
    PROVE  IF Sane(p) THEN WprFits(p) ELSE WprTooLarge(p)
<1>0. PICK k4 \in Nat \ {0}, k64 \in Nat \ {0}, k128 \in Nat \ {0}, mega \in Nat \ {0} :
        k4 = 16 /\ k64 = 256 /\ k128 = 512 /\ mega = 4096
  OBVIOUS
<1> DEFINE g == vga_start(fb, w)
           d == Down(g, k128)
           frts == d - 4096
           b1 == Minus(frts, boot)
           b == Down(b1, k4)
           e1 == Minus(b, elf)
           e == Down(e1, k64)
           heap == HeapWanted(fb)
           h1 == Minus(e, heap)
           h == Down(h1, mega)
           s1 == Minus(h, 1)
           s == Down(s1, mega)
           n == Minus(s, mega)
           size1 == Minus(e, h)
           size == Down(size1, mega)
<1>1. Wraps \in Nat /\ Wraps >= 4194304
  BY StagingAssumption DEF MiB
<1>2. /\ p.fb = fb /\ p.vga = g /\ p.boot_size = boot /\ p.elf_size = elf
      /\ p.frts_addr = frts /\ p.boot_addr = b /\ p.elf_addr = e /\ p.heap_addr = h
      /\ p.heap_size = size /\ p.wpr2_addr = s /\ p.nonwpr_heap_addr = n
  <2>1. 4 * KiB = k4 /\ 64 * KiB = k64 /\ 128 * KiB = k128 /\ MiB = mega /\ MiB = 4096
    BY <1>0 DEF KiB, MiB
  <2> QED BY <2>1 DEF Plan, FrtsEnd
<1>3. g \in Nat /\ g <= fb /\ d >= 4096 /\ d \in Nat /\ d <= g
  <2>1. fb >= 4096 /\ ~(d < 4096)
    <3>1. 128 * KiB = k128 /\ MiB = 4096
      BY <1>0 DEF KiB, MiB
    <3> QED BY <3>1 DEF NoFrts, FrtsEnd
  <2>2. g \in Nat /\ g <= fb
    BY <2>1 DEF vga_start, MiB, KiB
  <2> HIDE DEF g
  <2>3. d \in Nat /\ d <= g
    <3>1. PICK v \in Nat : v = g
      BY <2>2
    <3>2. Down(v, k128) \in Nat /\ Down(v, k128) <= v
      BY DownNear
    <3> QED BY <3>1, <3>2
  <2> HIDE DEF d
  <2> QED BY <2>1, <2>2, <2>3
<1>4. PICK m \in Nat : heap = 4096 * m
  BY HeapIsWhole
<1>5. heap \in Nat \ {0} /\ heap + 4096 <= Wraps
  BY HeapIsWhole
<1> HIDE DEF g
<1> HIDE DEF d
<1>6. frts \in Nat /\ frts < Wraps /\ frts + 4096 <= g
  BY <1>1, <1>3
<1> HIDE DEF frts
<1>7. /\ b1 = IF boot <= frts THEN frts - boot ELSE frts - boot + Wraps
      /\ b1 \in Nat /\ b1 < Wraps
  <2>1. b1 = IF boot <= frts THEN frts - boot ELSE frts - boot + Wraps
    BY <1>1, <1>6, MinusWraps
  <2> QED BY <2>1, <1>1, <1>6
<1> HIDE DEF b1
<1>8. b \in Nat /\ b <= b1 /\ b1 < b + 16
  <2>1. PICK v \in Nat : v = b1
    BY <1>7
  <2>2. Down(v, k4) \in Nat /\ Down(v, k4) <= v /\ v < Down(v, k4) + k4
    BY DownNear
  <2> QED BY <2>1, <2>2, <1>0
<1> HIDE DEF b
<1>9. /\ e1 = IF elf <= b THEN b - elf ELSE b - elf + Wraps
      /\ e1 \in Nat /\ e1 < Wraps
  <2>1. e1 = IF elf <= b THEN b - elf ELSE b - elf + Wraps
    BY <1>1, <1>7, <1>8, MinusWraps
  <2> QED BY <2>1, <1>1, <1>7, <1>8
<1> HIDE DEF e1
<1>10. e \in Nat /\ e <= e1 /\ e1 < e + 256
  <2>1. PICK v \in Nat : v = e1
    BY <1>9
  <2>2. Down(v, k64) \in Nat /\ Down(v, k64) <= v /\ v < Down(v, k64) + k64
    BY DownNear
  <2> QED BY <2>1, <2>2, <1>0
<1> HIDE DEF e
<1> HIDE DEF heap
<1>11. /\ h1 = IF heap <= e THEN e - heap ELSE e - heap + Wraps
       /\ h1 \in Nat /\ h1 < Wraps
  <2>1. h1 = IF heap <= e THEN e - heap ELSE e - heap + Wraps
    BY <1>1, <1>5, <1>9, <1>10, MinusWraps
  <2> QED BY <2>1, <1>1, <1>5, <1>9, <1>10
<1> HIDE DEF h1
<1>12. h \in Nat /\ h <= h1 /\ h1 < h + 4096
  <2>1. PICK v \in Nat : v = h1
    BY <1>11
  <2>2. Down(v, mega) \in Nat /\ Down(v, mega) <= v /\ v < Down(v, mega) + mega
    BY DownNear
  <2> QED BY <2>1, <2>2, <1>0
<1> HIDE DEF h
<1>13. /\ s1 = IF 1 <= h THEN h - 1 ELSE h - 1 + Wraps
       /\ s1 \in Nat /\ s1 < Wraps
  <2>1. s1 = IF 1 <= h THEN h - 1 ELSE h - 1 + Wraps
    BY <1>1, <1>11, <1>12, MinusWraps
  <2> QED BY <2>1, <1>1, <1>11, <1>12
<1> HIDE DEF s1
<1>14. s \in Nat /\ s <= s1 /\ s1 < s + 4096
  <2>1. PICK v \in Nat : v = s1
    BY <1>13
  <2>2. Down(v, mega) \in Nat /\ Down(v, mega) <= v /\ v < Down(v, mega) + mega
    BY DownNear
  <2> QED BY <2>1, <2>2, <1>0
<1> HIDE DEF s
<1>15. n = IF 4096 <= s THEN s - 4096 ELSE s - 4096 + Wraps
  <2>1. mega \in Nat /\ mega <= Wraps /\ s < Wraps
    BY <1>0, <1>1, <1>13, <1>14
  <2>2. n = IF mega <= s THEN s - mega ELSE s - mega + Wraps
    BY <2>1, <1>14, MinusWraps
  <2> HIDE DEF n
  <2> QED BY <2>2, <1>0
<1> HIDE DEF n
<1>16. /\ size1 = IF h <= e THEN e - h ELSE e - h + Wraps
       /\ size1 \in Nat
  <2>1. h <= Wraps
    BY <1>1, <1>11, <1>12
  <2>2. size1 = IF h <= e THEN e - h ELSE e - h + Wraps
    BY <2>1, <1>1, <1>9, <1>10, <1>12, MinusWraps
  <2> QED BY <2>1, <2>2, <1>1, <1>9, <1>10, <1>12
<1> HIDE DEF size1
<1>17. PICK q \in Nat : size = 4096 * q
  <2>1. PICK v \in Nat : v = size1
    BY <1>16
  <2>2. \E y \in Nat : Down(v, mega) = mega * y
    BY DownNear
  <2> QED BY <2>1, <2>2, <1>0
<1>18. size \in Nat /\ size <= size1 /\ size1 < size + 4096
  <2>1. PICK v \in Nat : v = size1
    BY <1>16
  <2>2. Down(v, mega) \in Nat /\ Down(v, mega) <= v /\ v < Down(v, mega) + mega
    BY DownNear
  <2> QED BY <2>1, <2>2, <1>0
<1> HIDE DEF size
<1>19. Sane(p) <=> /\ frts + 4096 <= fb /\ n < s /\ s <= h /\ h < e /\ e < b /\ b < frts
  BY <1>2 DEF Sane, MiB
<1>20. CASE Sane(p)
  <2>1. b1 = frts - boot
    BY <1>1, <1>6, <1>7, <1>8, <1>19, <1>20
  <2>2. e1 = b - elf
    BY <1>1, <1>7, <1>8, <1>9, <1>10, <1>19, <1>20
  <2>3. h1 = e - heap
    BY <1>1, <1>5, <1>9, <1>10, <1>11, <1>12, <1>19, <1>20
  <2>4. s1 = h - 1
    BY <1>1, <1>11, <1>12, <1>13, <1>14, <1>19, <1>20
  <2>5. n = s - 4096 /\ n >= 0
    BY <1>1, <1>14, <1>15, <1>19, <1>20
  <2>6. size1 = e - h /\ size1 >= heap
    BY <1>5, <1>10, <1>12, <1>16, <2>3, <1>19, <1>20
  <2>7. size >= heap
    BY <1>4, <1>17, <1>18, <2>6, <1>16 DEF heap
  <2>8. /\ 0 <= n /\ n + 4096 <= s /\ s + 1 <= h /\ size >= heap /\ h + size <= e
        /\ e + elf <= b /\ b + boot <= frts /\ frts + 4096 <= g /\ g <= fb
    BY <1>3, <1>6, <1>8, <1>10, <1>12, <1>14, <1>18, <2>1, <2>2, <2>4, <2>5, <2>6, <2>7
  <2> QED BY <1>2, <2>8, <1>20 DEF WprFits, heap, MiB
<1>21. CASE ~Sane(p)
  <2>1. SUFFICES ASSUME frts >= boot + elf + heap + 12560
                 PROVE  Sane(p)
    <3>1. ~(frts >= boot + elf + heap + 12560) => WprTooLarge(p)
      <4>1. 3 * MiB + 68 * KiB = 12560
        BY DEF MiB, KiB
      <4>2. WprTooLarge(p) <=> frts < boot + elf + heap + 3 * MiB + 68 * KiB
        BY <1>2 DEF WprTooLarge, heap
      <4> QED BY <4>1, <4>2, <1>5, <1>6 DEF MiB, KiB
    <3> QED BY <3>1, <1>21
  <2>2. b1 = frts - boot /\ b < frts /\ b >= elf + heap + 12545
    BY <2>1, <1>5, <1>6, <1>7, <1>8
  <2>3. e1 = b - elf /\ e < b /\ e >= heap + 12290
    BY <2>2, <1>5, <1>8, <1>9, <1>10
  <2>4. h1 = e - heap /\ h < e /\ h >= 8195
    BY <2>3, <1>5, <1>10, <1>11, <1>12
  <2>5. s1 = h - 1 /\ s <= h /\ s >= 4096
    BY <2>4, <1>12, <1>13, <1>14
  <2>6. n < s /\ frts + 4096 <= fb
    BY <2>5, <1>3, <1>6, <1>14, <1>15
  <2> QED BY <2>2, <2>3, <2>4, <2>5, <2>6, <1>19
<1> QED BY <1>20, <1>21
-----------------------------------------------------------------------------
(* Staging: what each step leaves behind for the firmware. *)

Names == {Regions[j] : j \in 1 .. Len(Regions)}
Logs  == {"loginit", "logintr", "logrm"}

\* Where regions are allocated, and where they all are and are filled.
Filling == {"fill", "lvl2", "lvl1", "lvl0", "meta", "libos", "logs", "shm", "staged"}
Placing == {"alloc", "oom"} \cup Filling

Cells(r) == at[r] .. at[r] + Bytes(r) - 1

\* The regions allocated so far are on pages of their own in the arena.
Placed ==
    /\ image \in Nat \ {0} /\ cap \in Nat /\ off \in Nat
    /\ off <= cap /\ \E q \in Nat : off = q * PerPage
    /\ lvl2_pages <= PerPage
    /\ DOMAIN arena = 0 .. cap - 1
    /\ Done \subseteq Names
    /\ \A r \in Done : /\ at[r] \in Nat /\ at[r] + Bytes(r) <= off
                       /\ \E q \in Nat : at[r] = q * PerPage
    /\ \A r, q \in Done : r # q => at[r] + Bytes(r) <= at[q] \/ at[q] + Bytes(q) <= at[r]

\* What the firmware looks for in a region, by the distance from its start.
RmArgs == <<at["shm"], ptes_nr, ptes_size, ptes_size + QueuePages * PerPage>>

Want(r) ==
    CASE r = "fwimg"  -> [x \in 0 .. image - 1 |-> Content(x)]
      [] r = "lvl2"   -> PageList(at["fwimg"], ImagePages)
      [] r = "lvl1"   -> PageList(at["lvl2"], lvl2_pages)
      [] r = "lvl0"   -> PageList(at["lvl1"], 1)
      [] r = "meta"   -> [x \in {0} |-> at["lvl0"]]
      [] r = "libos"  -> [x \in 0 .. 3 |-> at[LibosArgs[x + 1]]]
      [] r \in Logs   -> [x \in 1 .. LogPages |-> at[r] + (x - 1) * PerPage]
      [] r = "shm"    -> PageList(at["shm"], ptes_nr)
      [] r = "rmargs" -> [x \in 0 .. 3 |-> RmArgs[x + 1]]

Holds(m, r) == \A x \in DOMAIN Want(r) : m[at[r] + x] = Want(r)[x]

\* The regions that are ready before each step.
Ready(stage) ==
    CASE stage = "lvl2"   -> {"fwimg"}
      [] stage = "lvl1"   -> {"fwimg", "lvl2"}
      [] stage = "lvl0"   -> {"fwimg", "lvl2", "lvl1"}
      [] stage = "meta"   -> {"fwimg", "lvl2", "lvl1", "lvl0"}
      [] stage = "libos"  -> {"fwimg", "lvl2", "lvl1", "lvl0", "meta"}
      [] stage = "logs"   -> {"fwimg", "lvl2", "lvl1", "lvl0", "meta", "libos"}
      [] stage = "shm"    -> {"fwimg", "lvl2", "lvl1", "lvl0", "meta", "libos"} \cup Logs
      [] stage = "staged" -> {"fwimg", "lvl2", "lvl1", "lvl0", "meta", "libos", "shm", "rmargs"}
                             \cup Logs
      [] OTHER            -> {}

StagingInv ==
    /\ spc \in {"idle", "too_large", "refused", "planned", "no_room"} \cup Placing
    /\ spc = "idle" => off = 0 /\ Done = {}
    /\ spc \in Placing => Placed
    /\ spc \in Filling => Done = Names
    /\ \A r \in Ready(spc) : Holds(arena, r)
    /\ spc = "planned" => WprFits(lay)
    /\ spc = "no_room" => WprTooLarge(lay)

LEMMA NamesAre ==
    /\ Len(Regions) = 16
    /\ Names = {"fwsec", "booter", "fwimg", "lvl2", "lvl1", "lvl0", "bl", "sig", "meta", "libos",
                "loginit", "logintr", "logrm", "rmargs", "shm", "vbios"}
<1>1. Len(Regions) = 16
  BY DEF Regions
<1>2. Names = {Regions[j] : j \in 1 .. 16}
  BY <1>1 DEF Names
<1> QED BY <1>1, <1>2 DEF Regions

LEMMA StagingConstants ==
    /\ PerPage \in Nat \ {0} /\ PerPage >= 4 /\ CodeCells \in Nat \ {0}
    /\ LogPages \in Nat \ {0} /\ QueuePages \in Nat \ {0}
    /\ Images \subseteq Nat \ {0} /\ Capacities \subseteq Nat
    /\ Up(Queues + Up(Queues, PerPage), PerPage) = Up(Queues, PerPage)
BY StagingAssumption

\* What a list of pages takes on pages of its own.
LEMMA PageFacts ==
    ASSUME NEW n \in Nat, NEW q \in Nat, n <= q * PerPage
    PROVE  /\ q * PerPage \in Nat
           /\ \A x \in 0 .. n - 1 : x * PerPage \in Nat
<1>1. PerPage \in Nat
  BY StagingConstants
<1>2. \A x \in Nat : x * PerPage \in Nat
  BY <1>1, Z3
<1> QED BY <1>2

\* The sizes of the image, of its lists and of the queues.
LEMMA StagedSizes ==
    /\ image \in Nat \ {0} =>
         /\ ImagePages \in Nat \ {0} /\ lvl2_pages \in Nat \ {0}
         /\ image <= ImagePages * PerPage /\ ImagePages * PerPage < image + PerPage
         /\ ImagePages <= lvl2_pages * PerPage /\ lvl2_pages * PerPage \in Nat \ {0}
    /\ Queues \in Nat \ {0} /\ Queues * PerPage \in Nat \ {0}
    /\ ptes_nr \in Nat \ {0} /\ ptes_size \in Nat /\ ptes_nr <= ptes_size
    /\ ptes_size + Queues * PerPage = ptes_nr * PerPage
    /\ LogPages + 1 <= LogPages * PerPage /\ LogPages * PerPage \in Nat
    /\ QueuePages * PerPage \in Nat
<1>1. PerPage \in Nat \ {0} /\ PerPage >= 4 /\ LogPages \in Nat \ {0} /\ QueuePages \in Nat \ {0}
  BY StagingConstants
<1>2. ASSUME image \in Nat \ {0}
      PROVE  /\ ImagePages \in Nat \ {0} /\ lvl2_pages \in Nat \ {0}
             /\ image <= ImagePages * PerPage /\ ImagePages * PerPage < image + PerPage
             /\ ImagePages <= lvl2_pages * PerPage /\ lvl2_pages * PerPage \in Nat \ {0}
  <2>1. PICK n \in Nat \ {0} : n = image
    BY <1>2
  <2>2. PICK g : g = Up(n, PerPage)
    OBVIOUS
  <2>3. g \in Nat \ {0} /\ n <= g * PerPage /\ g * PerPage < n + PerPage
    <3>1. n \in Nat /\ n > 0
      OBVIOUS
    <3> QED BY <3>1, <2>2, <1>1, UpNear
  <2>4. Up(g, PerPage) \in Nat \ {0} /\ g <= Up(g, PerPage) * PerPage
        /\ Up(g, PerPage) * PerPage \in Nat
    <3>1. g \in Nat /\ g > 0
      BY <2>3
    <3> QED BY <3>1, <1>1, UpNear
  <2>5. ImagePages = g /\ lvl2_pages = Up(g, PerPage)
    BY <2>1, <2>2 DEF ImagePages, lvl2_pages
  <2> HIDE DEF Up
  <2>6. Up(g, PerPage) * PerPage # 0
    BY <2>3, <2>4
  <2> QED BY <2>1, <2>3, <2>4, <2>5, <2>6
<1>3. Queues \in Nat \ {0}
  BY <1>1 DEF Queues
<1>4. \A x \in Nat \ {0} : x * PerPage \in Nat \ {0} /\ x + 1 <= x * PerPage
  BY <1>1, Z3
<1>5. /\ ptes_nr \in Nat \ {0} /\ ptes_size \in Nat /\ ptes_nr <= ptes_size
      /\ ptes_size + Queues * PerPage = ptes_nr * PerPage
  <2>1. PICK c \in Nat \ {0} : c = Queues
    BY <1>3
  <2>2. PICK u : u = Up(c, PerPage)
    OBVIOUS
  <2>3. u \in Nat
    <3>1. c \in Nat
      OBVIOUS
    <3> QED BY <3>1, <2>2, <1>1, UpNear
  <2>4. ptes_nr = c + u
    BY <2>1, <2>2 DEF ptes_nr
  <2>5. Up(c + u, PerPage) = u
    BY <2>1, <2>2, StagingConstants
  <2>6. ptes_size = u * PerPage
    BY <2>4, <2>5 DEF ptes_size
  <2>7. c + u <= u * PerPage /\ u * PerPage \in Nat
    <3>1. PICK t \in Nat : t = c + u
      BY <2>3
    <3>2. t <= Up(t, PerPage) * PerPage /\ Up(t, PerPage) * PerPage \in Nat
      BY <1>1, UpNear
    <3> QED BY <3>1, <3>2, <2>5
  <2>8. u * PerPage + c * PerPage = (c + u) * PerPage
    BY <2>3, <1>1, Z3
  <2> QED BY <2>1, <2>3, <2>4, <2>6, <2>7, <2>8
<1> QED BY <1>1, <1>2, <1>3, <1>4, <1>5

\* No region is empty.
LEMMA BytesType ==
    ASSUME image \in Nat \ {0}, NEW r \in Names
    PROVE  Bytes(r) \in Nat \ {0}
<1>1. /\ PerPage \in Nat \ {0} /\ CodeCells \in Nat \ {0}
      /\ lvl2_pages * PerPage \in Nat \ {0} /\ Queues * PerPage \in Nat \ {0}
      /\ ptes_size \in Nat /\ LogPages * PerPage \in Nat /\ LogPages * PerPage # 0
  BY StagingConstants, StagedSizes
<1>2. ptes_size + Queues * PerPage \in Nat \ {0}
  BY <1>1
<1> QED BY <1>1, <1>2, NamesAre DEF Bytes

Listed == {"fwimg", "lvl2", "lvl1", "lvl0", "meta", "libos", "shm", "rmargs"} \cup Logs

\* What the firmware looks for in a region lies in it.
LEMMA WantInside ==
    ASSUME Placed, NEW r \in Listed
    PROVE  DOMAIN Want(r) \subseteq 0 .. Bytes(r) - 1
<1>1. /\ image \in Nat \ {0} /\ lvl2_pages <= PerPage
      /\ ImagePages \in Nat /\ lvl2_pages \in Nat
      /\ ImagePages <= lvl2_pages * PerPage /\ lvl2_pages * PerPage \in Nat
  BY StagedSizes DEF Placed
<1>2. /\ PerPage \in Nat /\ PerPage >= 4 /\ LogPages \in Nat /\ LogPages * PerPage \in Nat
      /\ LogPages + 1 <= LogPages * PerPage
  BY StagingConstants, StagedSizes
<1>3. /\ ptes_nr \in Nat /\ ptes_size \in Nat /\ ptes_nr <= ptes_size
      /\ Queues * PerPage \in Nat
  BY StagedSizes
<1>4. CASE r = "fwimg"
  BY <1>4, <1>1 DEF Want, Bytes, Logs
<1>5. CASE r = "lvl2"
  <2>1. DOMAIN Want(r) = 0 .. ImagePages - 1 /\ Bytes(r) = lvl2_pages * PerPage
    BY <1>5 DEF Want, Bytes, PageList, Logs
  <2> QED BY <2>1, <1>1
<1>6. CASE r = "lvl1"
  <2>1. DOMAIN Want(r) = 0 .. lvl2_pages - 1 /\ Bytes(r) = PerPage
    BY <1>6 DEF Want, Bytes, PageList, Logs
  <2> QED BY <2>1, <1>1, <1>2
<1>7. CASE r = "lvl0"
  <2>1. DOMAIN Want(r) = 0 .. 0 /\ Bytes(r) = PerPage
    BY <1>7 DEF Want, Bytes, PageList, Logs
  <2> QED BY <2>1, <1>2
<1>8. CASE r = "meta"
  <2>1. DOMAIN Want(r) = {0} /\ Bytes(r) = PerPage
    BY <1>8 DEF Want, Bytes, Logs
  <2> QED BY <2>1, <1>2
<1>9. CASE r = "libos"
  <2>1. DOMAIN Want(r) = 0 .. 3 /\ Bytes(r) = PerPage
    BY <1>9 DEF Want, Bytes, Logs
  <2> QED BY <2>1, <1>2
<1>10. CASE r \in Logs
  <2>1. DOMAIN Want(r) = 1 .. LogPages /\ Bytes(r) = LogPages * PerPage
    BY <1>10 DEF Want, Bytes, Logs
  <2> QED BY <2>1, <1>2
<1>11. CASE r = "shm"
  <2>1. DOMAIN Want(r) = 0 .. ptes_nr - 1 /\ Bytes(r) = ptes_size + Queues * PerPage
    BY <1>11 DEF Want, Bytes, PageList, Logs
  <2> QED BY <2>1, <1>3
<1>12. CASE r = "rmargs"
  <2>1. DOMAIN Want(r) = 0 .. 3 /\ Bytes(r) = PerPage
    BY <1>12 DEF Want, Bytes, Logs
  <2> QED BY <2>1, <1>2
<1> QED BY <1>4, <1>5, <1>6, <1>7, <1>8, <1>9, <1>10, <1>11, <1>12 DEF Listed

\* What the firmware looks for, region by region.
LEMMA Wanted ==
    /\ Want("fwimg") = [x \in 0 .. image - 1 |-> Content(x)]
    /\ Want("lvl2") = PageList(at["fwimg"], ImagePages)
    /\ Want("lvl1") = PageList(at["lvl2"], lvl2_pages)
    /\ Want("lvl0") = PageList(at["lvl1"], 1)
    /\ Want("meta") = [x \in {0} |-> at["lvl0"]]
    /\ Want("libos") = [x \in 0 .. 3 |-> at[LibosArgs[x + 1]]]
    /\ \A r \in Logs : Want(r) = [x \in 1 .. LogPages |-> at[r] + (x - 1) * PerPage]
    /\ Want("shm") = PageList(at["shm"], ptes_nr)
    /\ Want("rmargs") = [x \in 0 .. 3 |-> RmArgs[x + 1]]
<1>1. Want("fwimg") = [x \in 0 .. image - 1 |-> Content(x)]
  BY DEF Want, Logs
<1>2. Want("lvl2") = PageList(at["fwimg"], ImagePages)
  BY DEF Want, Logs
<1>3. Want("lvl1") = PageList(at["lvl2"], lvl2_pages)
  BY DEF Want, Logs
<1>4. Want("lvl0") = PageList(at["lvl1"], 1)
  BY DEF Want, Logs
<1>5. Want("meta") = [x \in {0} |-> at["lvl0"]]
  BY DEF Want, Logs
<1>6. Want("libos") = [x \in 0 .. 3 |-> at[LibosArgs[x + 1]]]
  BY DEF Want, Logs
<1>7. \A r \in Logs : Want(r) = [x \in 1 .. LogPages |-> at[r] + (x - 1) * PerPage]
  BY DEF Want, Logs
<1>8. Want("shm") = PageList(at["shm"], ptes_nr)
  BY DEF Want, Logs
<1>9. Want("rmargs") = [x \in 0 .. 3 |-> RmArgs[x + 1]]
  BY DEF Want, Logs
<1> QED BY <1>1, <1>2, <1>3, <1>4, <1>5, <1>6, <1>7, <1>8, <1>9

\* Regions are apart, in the arena.
LEMMA CellsApart ==
    ASSUME Placed, NEW r \in Done
    PROVE  /\ at[r] \in Nat /\ Bytes(r) \in Nat /\ Cells(r) \subseteq 0 .. cap - 1
           /\ \A x \in 0 .. Bytes(r) - 1 : at[r] + x \in Cells(r)
           /\ \A q \in Done : q # r => Cells(r) \cap Cells(q) = {}
<1>1. Done \subseteq Names /\ image \in Nat \ {0} /\ off <= cap /\ off \in Nat /\ cap \in Nat
  BY DEF Placed
<1>2. \A q \in Done : Bytes(q) \in Nat
  BY <1>1, BytesType
<1>3. \A q \in Done : at[q] \in Nat /\ at[q] + Bytes(q) <= off
  BY DEF Placed
<1>4. \A q \in Done : q # r => at[r] + Bytes(r) <= at[q] \/ at[q] + Bytes(q) <= at[r]
  BY DEF Placed
<1>5. \A q \in Done : q # r => Cells(r) \cap Cells(q) = {}
  BY <1>2, <1>3, <1>4 DEF Cells
<1>6. Cells(r) \subseteq 0 .. cap - 1 /\ \A x \in 0 .. Bytes(r) - 1 : at[r] + x \in Cells(r)
  BY <1>1, <1>2, <1>3 DEF Cells
<1> QED BY <1>2, <1>3, <1>5, <1>6

\* What is put into a region leaves the others as they are.
LEMMA PutKeeps ==
    ASSUME Placed, Done = Names, NEW m, DOMAIN m = 0 .. cap - 1, NEW q \in Names,
           NEW a \in Int, NEW list, DOMAIN list \subseteq Int,
           \A x \in DOMAIN list : a + x \in Cells(q)
    PROVE  /\ DOMAIN Put(m, a, list) = 0 .. cap - 1
           /\ \A r \in Listed : r # q /\ Holds(m, r) => Holds(Put(m, a, list), r)
<1>1. DOMAIN m \subseteq Int
  OBVIOUS
<1>2. /\ DOMAIN Put(m, a, list) = DOMAIN m
      /\ \A c \in DOMAIN m : c - a \notin DOMAIN list => Put(m, a, list)[c] = m[c]
  BY DEF Put
<1>3. ASSUME NEW r \in Listed, r # q, Holds(m, r), NEW x \in DOMAIN Want(r)
      PROVE  Put(m, a, list)[at[r] + x] = Want(r)[x]
  <2>1. r \in Done /\ q \in Done
    BY NamesAre DEF Listed, Logs
  <2>2. /\ at[r] \in Nat /\ x \in 0 .. Bytes(r) - 1 /\ Bytes(r) \in Nat
        /\ at[r] + x \in Cells(r) /\ Cells(r) \subseteq DOMAIN m /\ Cells(r) \cap Cells(q) = {}
    BY <2>1, <1>3, WantInside, CellsApart
  <2>3. PICK c \in DOMAIN m : c = at[r] + x
    BY <2>2
  <2>4. c - a \notin DOMAIN list
    <3>1. SUFFICES ASSUME c - a \in DOMAIN list PROVE FALSE
      OBVIOUS
    <3>2. a + (c - a) = c
      BY <1>1, <2>3
    <3>3. a + (c - a) \in Cells(q)
      BY <3>1
    <3> QED BY <3>2, <3>3, <2>2, <2>3
  <2>5. Put(m, a, list)[c] = m[c]
    BY <1>2, <2>4
  <2>6. m[at[r] + x] = Want(r)[x]
    BY <1>3 DEF Holds
  <2> QED BY <2>3, <2>5, <2>6
<1> QED BY <1>2, <1>3 DEF Holds

\* What is put where the firmware looks for it is found there.
LEMMA PutHolds ==
    ASSUME Placed, Done = Names, NEW m, DOMAIN m = 0 .. cap - 1, NEW q \in Listed,
           NEW d \in Int, NEW list, DOMAIN list \subseteq Int,
           \A x \in DOMAIN Want(q) : x - d \in DOMAIN list /\ list[x - d] = Want(q)[x]
    PROVE  Holds(Put(m, at[q] + d, list), q)
<1>1. q \in Done
  BY NamesAre DEF Listed, Logs
<1>2. at[q] \in Nat /\ Bytes(q) \in Nat /\ Cells(q) \subseteq 0 .. cap - 1
  BY <1>1, CellsApart
<1>3. PICK a \in Int : a = at[q] + d
  BY <1>2
<1>5. \A x \in DOMAIN list : a + x \in DOMAIN m => Put(m, a, list)[a + x] = list[x]
  <2>1. \A x \in DOMAIN list : (a + x) - a = x
    OBVIOUS
  <2> QED BY <2>1 DEF Put
<1>6. ASSUME NEW x \in DOMAIN Want(q)
      PROVE  Put(m, a, list)[at[q] + x] = Want(q)[x]
  <2>1. x \in 0 .. Bytes(q) - 1
    BY WantInside
  <2>2. at[q] + x \in DOMAIN m
    BY <2>1, <1>1, <1>2, CellsApart
  <2>3. PICK y \in DOMAIN list : y = x - d /\ list[y] = Want(q)[x]
    OBVIOUS
  <2>4. a + y = at[q] + x
    BY <2>1, <2>3, <1>2, <1>3
  <2> QED BY <2>2, <2>3, <2>4, <1>5
<1> QED BY <1>3, <1>6 DEF Holds

\* A region is cleared, and no other is.
LEMMA ClearKeeps ==
    ASSUME Placed, Done = Names, NEW m, DOMAIN m = 0 .. cap - 1, NEW q \in Names
    PROVE  /\ DOMAIN Clear(m, q) = 0 .. cap - 1
           /\ \A r \in Listed : r # q /\ Holds(m, r) => Holds(Clear(m, q), r)
<1> DEFINE list == [x \in 0 .. Bytes(q) - 1 |-> 0]
<1>1. at[q] \in Int /\ \A x \in 0 .. Bytes(q) - 1 : at[q] + x \in Cells(q)
  BY CellsApart
<1>2. DOMAIN list \subseteq Int /\ \A x \in DOMAIN list : at[q] + x \in Cells(q)
  BY <1>1
<1>3. Clear(m, q) = Put(m, at[q], list)
  BY DEF Clear
<1> HIDE DEF list
<1> QED BY <1>1, <1>2, <1>3, PutKeeps

\* A list that is shifted, put where the firmware looks for it.
LEMMA PutList ==
    ASSUME Placed, Done = Names, NEW m, DOMAIN m = 0 .. cap - 1, NEW q \in Listed,
           NEW d \in Int, NEW list, DOMAIN list = {x - d : x \in DOMAIN Want(q)},
           \A x \in DOMAIN Want(q) : list[x - d] = Want(q)[x]
    PROVE  /\ DOMAIN Put(m, at[q] + d, list) = 0 .. cap - 1
           /\ \A r \in Listed : r = q \/ Holds(m, r) => Holds(Put(m, at[q] + d, list), r)
<1>1. q \in Done /\ q \in Names
  BY NamesAre DEF Listed, Logs
<1>2. at[q] \in Nat /\ Bytes(q) \in Nat /\ \A x \in 0 .. Bytes(q) - 1 : at[q] + x \in Cells(q)
  BY <1>1, CellsApart
<1>3. DOMAIN Want(q) \subseteq 0 .. Bytes(q) - 1
  BY WantInside
<1>4. DOMAIN list \subseteq Int
  BY <1>2, <1>3
<1>5. ASSUME NEW y \in DOMAIN list
      PROVE  at[q] + d + y \in Cells(q)
  <2>1. PICK x \in DOMAIN Want(q) : y = x - d
    OBVIOUS
  <2>2. x \in 0 .. Bytes(q) - 1 /\ x \in Int
    BY <1>2, <1>3
  <2>3. at[q] + d + y = at[q] + x
    BY <2>1, <2>2, <1>2
  <2> QED BY <2>2, <2>3, <1>2
<1>6. PICK a \in Int : a = at[q] + d
  BY <1>2
<1>7. \A y \in DOMAIN list : a + y \in Cells(q)
  BY <1>5, <1>6
<1>8. /\ DOMAIN Put(m, a, list) = 0 .. cap - 1
      /\ \A r \in Listed : r # q /\ Holds(m, r) => Holds(Put(m, a, list), r)
  BY <1>1, <1>4, <1>7, PutKeeps
<1>9. Holds(Put(m, at[q] + d, list), q)
  <2>1. \A x \in DOMAIN Want(q) : x - d \in DOMAIN list /\ list[x - d] = Want(q)[x]
    OBVIOUS
  <2> QED BY <2>1, <1>4, PutHolds
<1> QED BY <1>6, <1>8, <1>9

LEMMA PutWanted ==
    ASSUME Placed, Done = Names, NEW m, DOMAIN m = 0 .. cap - 1, NEW q \in Listed
    PROVE  /\ DOMAIN Put(m, at[q], Want(q)) = 0 .. cap - 1
           /\ \A r \in Listed : r = q \/ Holds(m, r) => Holds(Put(m, at[q], Want(q)), r)
<1>1. q \in Done /\ q \in Names
  BY NamesAre DEF Listed, Logs
<1>2. at[q] \in Int /\ Bytes(q) \in Nat
  BY <1>1, CellsApart
<1>3. \A x \in DOMAIN Want(q) : x \in Int /\ x - 0 = x
  BY <1>2, WantInside
<1>4. DOMAIN Want(q) = {x - 0 : x \in DOMAIN Want(q)}
  BY <1>3
<1>5. \A x \in DOMAIN Want(q) : Want(q)[x - 0] = Want(q)[x]
  BY <1>3
<1>6. PICK zero \in Int : zero = 0
  OBVIOUS
<1>7. at[q] + zero = at[q]
  BY <1>2, <1>6
<1>8. /\ DOMAIN Put(m, at[q] + zero, Want(q)) = 0 .. cap - 1
      /\ \A r \in Listed : r = q \/ Holds(m, r) => Holds(Put(m, at[q] + zero, Want(q)), r)
  BY <1>4, <1>5, <1>6, PutList
<1> QED BY <1>7, <1>8

\* Where the regions stay, what is looked for in them does.
LEMMA SameLists ==
    ASSUME at' = at, image' = image
    PROVE  /\ Done' = Done /\ lvl2_pages' = lvl2_pages
           /\ \A r : Bytes(r)' = Bytes(r)
           /\ \A r : Holds(arena, r)' <=> Holds(arena', r)
<1>1. ImagePages' = ImagePages /\ lvl2_pages' = lvl2_pages /\ Done' = Done
  BY DEF ImagePages, lvl2_pages, Done
<1>2. ASSUME NEW r
      PROVE  Bytes(r)' = Bytes(r)
  BY <1>1 DEF Bytes
<1>3. ASSUME NEW r
      PROVE  Want(r)' = Want(r)
  <2>1. RmArgs' = RmArgs
    BY DEF RmArgs, ptes_nr, ptes_size
  <2> QED BY <1>1, <2>1 DEF Want, PageList, Content, ptes_nr
<1>4. ASSUME NEW r
      PROVE  Holds(arena, r)' <=> Holds(arena', r)
  <2>1. Want(r)' = Want(r)
    BY <1>3
  <2> QED BY <2>1 DEF Holds
<1> QED BY <1>1, <1>2, <1>4

LEMMA SamePlaces ==
    ASSUME Placed, at' = at, image' = image, cap' = cap, off' = off, DOMAIN arena' = DOMAIN arena
    PROVE  Placed'
<1>1. Done' = Done /\ lvl2_pages' = lvl2_pages /\ \A r : Bytes(r)' = Bytes(r)
  BY SameLists
<1> QED BY <1>1 DEF Placed

LEMMA FillStep ==
    ASSUME StagingInv, NEW from \in Filling, NEW to \in Filling, NEW m, Fill(from, to, m),
           DOMAIN m = 0 .. cap - 1, \A r \in Ready(to) : Holds(m, r)
    PROVE  StagingInv'
<1>1. /\ spc' = to /\ arena' = m
      /\ cap' = cap /\ off' = off /\ at' = at /\ image' = image
  BY DEF Fill
<1>2. Placed /\ Done = Names
  BY DEF StagingInv, Fill, Placing
<1>3. Placed'
  <2>1. DOMAIN arena' = DOMAIN arena
    BY <1>1, <1>2 DEF Placed
  <2> QED BY <2>1, <1>1, <1>2, SamePlaces
<1>4. Done' = Names
  BY <1>1, <1>2, SameLists
<1>5. \A r \in Ready(to) : Holds(arena, r)'
  <2>1. \A r : Holds(arena, r)' <=> Holds(arena', r)
    BY <1>1, SameLists
  <2> QED BY <2>1, <1>1
<1>6. spc' \in Filling /\ spc' \notin {"idle", "planned", "no_room"}
  BY <1>1 DEF Filling
<1>7. \A r \in Ready(spc)' : Holds(arena, r)'
  <2>1. Ready(spc)' = Ready(to)
    BY <1>1 DEF Ready
  <2> QED BY <2>1, <1>5
<1> QED BY <1>3, <1>4, <1>6, <1>7 DEF StagingInv, Placing

\* The situation in which a step of the preparation starts.
LEMMA FillStarts ==
    ASSUME StagingInv, spc \in Filling
    PROVE  /\ Placed /\ Done = Names /\ DOMAIN arena = 0 .. cap - 1
           /\ \A r \in Ready(spc) : Holds(arena, r)
BY DEF StagingInv, Placing, Placed

LEMMA CopyImageStep ==
    ASSUME StagingInv, CopyImage
    PROVE  StagingInv'
<1> DEFINE m0 == Put(arena, at["fwimg"], [x \in 0 .. image - 1 |-> Content(x)])
           m1 == Clear(m0, "lvl0")
           m2 == Clear(m1, "lvl1")
           m3 == Clear(m2, "lvl2")
<1>1. Fill("fill", "lvl2", m3)
  BY DEF CopyImage
<1>2. Placed /\ Done = Names /\ DOMAIN arena = 0 .. cap - 1
  <2>1. spc \in Filling
    BY <1>1 DEF Fill, Filling
  <2> QED BY <2>1, FillStarts
<1>3. {"fwimg", "lvl0", "lvl1", "lvl2"} \subseteq Listed /\ Listed \subseteq Names
  BY NamesAre DEF Listed, Logs
<1>4. DOMAIN m0 = 0 .. cap - 1 /\ Holds(m0, "fwimg")
  <2>1. m0 = Put(arena, at["fwimg"], Want("fwimg"))
    BY Wanted
  <2> HIDE DEF m0
  <2> QED BY <2>1, <1>2, <1>3, PutWanted
<1> HIDE DEF m0
<1>5. DOMAIN m1 = 0 .. cap - 1 /\ Holds(m1, "fwimg")
  BY <1>2, <1>3, <1>4, ClearKeeps
<1> HIDE DEF m1
<1>6. DOMAIN m2 = 0 .. cap - 1 /\ Holds(m2, "fwimg")
  BY <1>2, <1>3, <1>5, ClearKeeps
<1> HIDE DEF m2
<1>7. DOMAIN m3 = 0 .. cap - 1 /\ Holds(m3, "fwimg")
  BY <1>2, <1>3, <1>6, ClearKeeps
<1>8. PICK m : m = m3
  OBVIOUS
<1> HIDE DEF m3
<1>9. \A r \in Ready("lvl2") : Holds(m, r)
  BY <1>7, <1>8 DEF Ready
<1> QED BY <1>1, <1>7, <1>8, <1>9, FillStep DEF Filling

\* A level of the list is filled with the pages of the one below.
LEMMA LevelStep ==
    ASSUME StagingInv, NEW from \in Filling, NEW to \in Filling, NEW q \in Listed,
           Fill(from, to, Put(arena, at[q], Want(q))), Ready(to) = Ready(from) \cup {q}
    PROVE  StagingInv'
<1>1. spc = from
  BY DEF Fill
<1>2. /\ Placed /\ Done = Names /\ DOMAIN arena = 0 .. cap - 1
      /\ \A r \in Ready(from) : Holds(arena, r)
  BY <1>1, FillStarts
<1>3. PICK m : m = Put(arena, at[q], Want(q))
  OBVIOUS
<1>4. /\ DOMAIN m = 0 .. cap - 1
      /\ \A r \in Listed : r = q \/ Holds(arena, r) => Holds(m, r)
  BY <1>2, <1>3, PutWanted
<1>5. Ready(to) \subseteq Listed
  BY DEF Ready, Listed
<1>6. \A r \in Ready(to) : Holds(m, r)
  BY <1>2, <1>4, <1>5
<1>7. Fill(from, to, m)
  BY <1>3
<1> QED BY <1>4, <1>6, <1>7, FillStep

LEMMA LevelSteps ==
    ASSUME StagingInv, FillLvl2 \/ FillLvl1 \/ FillLvl0
    PROVE  StagingInv'
<1>1. {"lvl2", "lvl1", "lvl0", "meta"} \subseteq Filling /\ {"lvl2", "lvl1", "lvl0"} \subseteq Listed
  BY DEF Filling, Listed
<1>2. CASE FillLvl2
  <2>1. Fill("lvl2", "lvl1", Put(arena, at["lvl2"], Want("lvl2")))
    BY <1>2, Wanted DEF FillLvl2
  <2>2. Ready("lvl1") = Ready("lvl2") \cup {"lvl2"}
    BY DEF Ready
  <2> QED BY <2>1, <2>2, <1>1, LevelStep
<1>3. CASE FillLvl1
  <2>1. Fill("lvl1", "lvl0", Put(arena, at["lvl1"], Want("lvl1")))
    BY <1>3, Wanted DEF FillLvl1
  <2>2. Ready("lvl0") = Ready("lvl1") \cup {"lvl1"}
    BY DEF Ready
  <2> QED BY <2>1, <2>2, <1>1, LevelStep
<1>4. CASE FillLvl0
  <2>1. Fill("lvl0", "meta", Put(arena, at["lvl0"], Want("lvl0")))
    BY <1>4, Wanted DEF FillLvl0
  <2>2. Ready("meta") = Ready("lvl0") \cup {"lvl0"}
    BY DEF Ready
  <2> QED BY <2>1, <2>2, <1>1, LevelStep
<1> QED BY <1>2, <1>3, <1>4

LEMMA BuildMetaStep ==
    ASSUME StagingInv, BuildMeta
    PROVE  StagingInv'
<1> DEFINE m0 == Clear(arena, "meta")
           m1 == Put(m0, at["meta"], [x \in {0} |-> at["lvl0"]])
<1>1. Fill("meta", "libos", m1)
  BY DEF BuildMeta
<1>2. /\ Placed /\ Done = Names /\ DOMAIN arena = 0 .. cap - 1
      /\ \A r \in Ready("meta") : Holds(arena, r)
  <2>1. spc = "meta" /\ "meta" \in Filling
    BY <1>1 DEF Fill, Filling
  <2> QED BY <2>1, FillStarts
<1>3. "meta" \in Listed /\ "meta" \in Names
  BY NamesAre DEF Listed
<1>4. DOMAIN m0 = 0 .. cap - 1 /\ \A r \in Listed : r # "meta" /\ Holds(arena, r) => Holds(m0, r)
  BY <1>2, <1>3, ClearKeeps
<1>5. /\ DOMAIN m1 = 0 .. cap - 1
      /\ \A r \in Listed : r = "meta" \/ Holds(m0, r) => Holds(m1, r)
  <2>1. m1 = Put(m0, at["meta"], Want("meta"))
    BY Wanted
  <2> HIDE DEF m0, m1
  <2> QED BY <2>1, <1>2, <1>3, <1>4, PutWanted
<1> HIDE DEF m0
<1>6. PICK m : m = m1
  OBVIOUS
<1> HIDE DEF m1
<1>7. \A r \in Ready("libos") : Holds(m, r)
  <2>1. Ready("libos") = Ready("meta") \cup {"meta"} /\ Ready("libos") \subseteq Listed
    BY DEF Ready, Listed
  <2> QED BY <2>1, <1>2, <1>4, <1>5, <1>6
<1>8. "meta" \in Filling /\ "libos" \in Filling
  BY DEF Filling
<1>9. Fill("meta", "libos", m)
  BY <1>1, <1>6
<1> QED BY <1>5, <1>6, <1>7, <1>8, <1>9, FillStep

LEMMA BuildLibosStep ==
    ASSUME StagingInv, BuildLibos
    PROVE  StagingInv'
<1> DEFINE args == [x \in 1 .. Len(LibosArgs) |-> at[LibosArgs[x]]]
           m0 == Clear(arena, "libos")
           m1 == Put(m0, at["libos"] - 1, args)
<1>1. Fill("libos", "logs", m1)
  BY DEF BuildLibos
<1>2. /\ Placed /\ Done = Names /\ DOMAIN arena = 0 .. cap - 1
      /\ \A r \in Ready("libos") : Holds(arena, r)
  <2>1. spc = "libos" /\ "libos" \in Filling
    BY <1>1 DEF Fill, Filling
  <2> QED BY <2>1, FillStarts
<1>3. "libos" \in Listed /\ "libos" \in Names /\ "libos" \in Done
  BY <1>2, NamesAre DEF Listed
<1>4. DOMAIN m0 = 0 .. cap - 1 /\ \A r \in Listed : r # "libos" /\ Holds(arena, r) => Holds(m0, r)
  BY <1>2, <1>3, ClearKeeps
<1>5. PICK d \in Int : d = -1
  OBVIOUS
<1>6. /\ DOMAIN args = {x - d : x \in DOMAIN Want("libos")}
      /\ \A x \in DOMAIN Want("libos") : args[x - d] = Want("libos")[x]
  <2>1. Len(LibosArgs) = 4
    BY DEF LibosArgs
  <2>2. Want("libos") = [x \in 0 .. 3 |-> at[LibosArgs[x + 1]]]
    BY Wanted
  <2>3. DOMAIN args = {x - d : x \in 0 .. 3}
    <3>1. \A y \in 1 .. 4 : y - 1 \in 0 .. 3 /\ (y - 1) - d = y
      BY <1>5
    <3>2. \A x \in 0 .. 3 : x - d \in 1 .. 4
      BY <1>5
    <3> QED BY <3>1, <3>2, <2>1
  <2>4. \A x \in 0 .. 3 : x - d = x + 1 /\ x + 1 \in 1 .. 4
    BY <1>5
  <2> QED BY <2>1, <2>2, <2>3, <2>4
<1>7. at["libos"] - 1 = at["libos"] + d
  <2>1. at["libos"] \in Nat
    BY <1>2, <1>3, CellsApart
  <2> QED BY <2>1, <1>5
<1> HIDE DEF args
<1>8. /\ DOMAIN m1 = 0 .. cap - 1
      /\ \A r \in Listed : r = "libos" \/ Holds(m0, r) => Holds(m1, r)
  <2>1. m1 = Put(m0, at["libos"] + d, args)
    BY <1>7
  <2> HIDE DEF m0, m1
  <2> QED BY <2>1, <1>2, <1>3, <1>4, <1>6, PutList
<1> HIDE DEF m0
<1>9. PICK m : m = m1
  OBVIOUS
<1> HIDE DEF m1
<1>10. \A r \in Ready("logs") : Holds(m, r)
  <2>1. Ready("logs") = Ready("libos") \cup {"libos"} /\ Ready("logs") \subseteq Listed
    BY DEF Ready, Listed
  <2> QED BY <2>1, <1>2, <1>4, <1>8, <1>9
<1>11. "libos" \in Filling /\ "logs" \in Filling
  BY DEF Filling
<1>12. Fill("libos", "logs", m)
  BY <1>1, <1>9
<1> QED BY <1>8, <1>9, <1>10, <1>11, <1>12, FillStep

\* A log buffer with the list of its pages.
LEMMA WithPagesHolds ==
    ASSUME Placed, Done = Names, NEW m, DOMAIN m = 0 .. cap - 1, NEW q \in Logs
    PROVE  /\ DOMAIN WithPages(m, q) = 0 .. cap - 1
           /\ \A r \in Listed : r = q \/ Holds(m, r) => Holds(WithPages(m, q), r)
<1> DEFINE m0 == Clear(m, q)
           list == PageList(at[q], LogPages)
<1>1. q \in Listed /\ q \in Names /\ q \in Done
  BY NamesAre DEF Listed, Logs
<1>2. DOMAIN m0 = 0 .. cap - 1 /\ \A r \in Listed : r # q /\ Holds(m, r) => Holds(m0, r)
  BY <1>1, ClearKeeps
<1>3. /\ DOMAIN list = {x - 1 : x \in DOMAIN Want(q)}
      /\ \A x \in DOMAIN Want(q) : list[x - 1] = Want(q)[x]
  <2>1. Want(q) = [x \in 1 .. LogPages |-> at[q] + (x - 1) * PerPage]
    BY Wanted
  <2>2. LogPages \in Nat
    BY StagingConstants
  <2>3. 0 .. LogPages - 1 = {x - 1 : x \in 1 .. LogPages}
    <3>1. \A y \in 0 .. LogPages - 1 : y + 1 \in 1 .. LogPages /\ (y + 1) - 1 = y
      BY <2>2
    <3>2. \A x \in 1 .. LogPages : x - 1 \in 0 .. LogPages - 1
      BY <2>2
    <3> QED BY <3>1, <3>2
  <2>4. \A x \in 1 .. LogPages : x - 1 \in 0 .. LogPages - 1
    BY <2>2
  <2> QED BY <2>1, <2>3, <2>4 DEF PageList
<1>4. PICK d \in Int : d = 1
  OBVIOUS
<1>5. /\ DOMAIN list = {x - d : x \in DOMAIN Want(q)}
      /\ \A x \in DOMAIN Want(q) : list[x - d] = Want(q)[x]
  BY <1>3, <1>4
<1> HIDE DEF list
<1>6. WithPages(m, q) = Put(m0, at[q] + d, list)
  BY <1>4 DEF WithPages, list
<1> HIDE DEF m0
<1>7. /\ DOMAIN Put(m0, at[q] + d, list) = 0 .. cap - 1
      /\ \A r \in Listed : r = q \/ Holds(m0, r) => Holds(Put(m0, at[q] + d, list), r)
  BY <1>1, <1>2, <1>5, PutList
<1> QED BY <1>2, <1>6, <1>7

LEMMA FillLogsStep ==
    ASSUME StagingInv, FillLogs
    PROVE  StagingInv'
<1> DEFINE m1 == WithPages(arena, "loginit")
           m2 == WithPages(m1, "logintr")
           m3 == WithPages(m2, "logrm")
<1>1. Fill("logs", "shm", m3)
  BY DEF FillLogs
<1>2. /\ Placed /\ Done = Names /\ DOMAIN arena = 0 .. cap - 1
      /\ \A r \in Ready("logs") : Holds(arena, r)
  <2>1. spc = "logs" /\ "logs" \in Filling
    BY <1>1 DEF Fill, Filling
  <2> QED BY <2>1, FillStarts
<1>3. Logs = {"loginit", "logintr", "logrm"} /\ Logs \subseteq Listed
  BY DEF Logs, Listed
<1>4. /\ DOMAIN m1 = 0 .. cap - 1
      /\ \A r \in Listed : r = "loginit" \/ Holds(arena, r) => Holds(m1, r)
  BY <1>2, <1>3, WithPagesHolds
<1> HIDE DEF m1
<1>5. /\ DOMAIN m2 = 0 .. cap - 1
      /\ \A r \in Listed : r = "logintr" \/ Holds(m1, r) => Holds(m2, r)
  BY <1>2, <1>3, <1>4, WithPagesHolds
<1> HIDE DEF m2
<1>6. /\ DOMAIN m3 = 0 .. cap - 1
      /\ \A r \in Listed : r = "logrm" \/ Holds(m2, r) => Holds(m3, r)
  BY <1>2, <1>3, <1>5, WithPagesHolds
<1> HIDE DEF m3
<1>7. PICK m : m = m3
  OBVIOUS
<1>8. \A r \in Ready("shm") : Holds(m, r)
  <2>1. Ready("shm") = Ready("logs") \cup Logs /\ Ready("shm") \subseteq Listed
    BY DEF Ready, Listed
  <2>2. \A r \in Ready("logs") : Holds(m, r)
    BY <2>1, <1>2, <1>4, <1>5, <1>6, <1>7
  <2>3. \A r \in Logs : Holds(m, r)
    BY <1>3, <1>4, <1>5, <1>6, <1>7
  <2> QED BY <2>1, <2>2, <2>3
<1>9. "logs" \in Filling /\ "shm" \in Filling
  BY DEF Filling
<1>10. Fill("logs", "shm", m)
  BY <1>1, <1>7
<1> QED BY <1>6, <1>7, <1>8, <1>9, <1>10, FillStep

LEMMA InitShmStep ==
    ASSUME StagingInv, InitShm
    PROVE  StagingInv'
<1> DEFINE m0 == Clear(arena, "shm")
           m1 == Put(m0, at["shm"], PageList(at["shm"], ptes_nr))
           m2 == Clear(m1, "rmargs")
           m3 == Put(m2, at["rmargs"] - 1, RmArgs)
<1>1. Fill("shm", "staged", m3)
  BY DEF InitShm, RmArgs
<1>2. /\ Placed /\ Done = Names /\ DOMAIN arena = 0 .. cap - 1
      /\ \A r \in Ready("shm") : Holds(arena, r)
  <2>1. spc = "shm" /\ "shm" \in Filling
    BY <1>1 DEF Fill, Filling
  <2> QED BY <2>1, FillStarts
<1>3. {"shm", "rmargs"} \subseteq Listed /\ {"shm", "rmargs"} \subseteq Names /\ "rmargs" \in Done
  BY <1>2, NamesAre DEF Listed
<1>4. DOMAIN m0 = 0 .. cap - 1 /\ \A r \in Listed : r # "shm" /\ Holds(arena, r) => Holds(m0, r)
  BY <1>2, <1>3, ClearKeeps
<1>5. /\ DOMAIN m1 = 0 .. cap - 1
      /\ \A r \in Listed : r = "shm" \/ Holds(m0, r) => Holds(m1, r)
  <2>1. m1 = Put(m0, at["shm"], Want("shm"))
    BY Wanted
  <2> HIDE DEF m0, m1
  <2> QED BY <2>1, <1>2, <1>3, <1>4, PutWanted
<1> HIDE DEF m0, m1
<1>6. /\ DOMAIN m2 = 0 .. cap - 1
      /\ \A r \in Listed : r # "rmargs" /\ Holds(m1, r) => Holds(m2, r)
  BY <1>2, <1>3, <1>5, ClearKeeps
<1>7. PICK d \in Int : d = -1
  OBVIOUS
<1>8. /\ DOMAIN RmArgs = {x - d : x \in DOMAIN Want("rmargs")}
      /\ \A x \in DOMAIN Want("rmargs") : RmArgs[x - d] = Want("rmargs")[x]
  <2>1. DOMAIN RmArgs = 1 .. 4
    BY DEF RmArgs
  <2>2. Want("rmargs") = [x \in 0 .. 3 |-> RmArgs[x + 1]]
    BY Wanted
  <2>3. DOMAIN RmArgs = {x - d : x \in 0 .. 3}
    <3>1. \A y \in 1 .. 4 : y - 1 \in 0 .. 3 /\ (y - 1) - d = y
      BY <1>7
    <3>2. \A x \in 0 .. 3 : x - d \in 1 .. 4
      BY <1>7
    <3> QED BY <3>1, <3>2, <2>1
  <2>4. \A x \in 0 .. 3 : x - d = x + 1 /\ x + 1 \in 1 .. 4
    BY <1>7
  <2> QED BY <2>2, <2>3, <2>4
<1>9. at["rmargs"] - 1 = at["rmargs"] + d
  <2>1. at["rmargs"] \in Nat
    BY <1>2, <1>3, CellsApart
  <2> QED BY <2>1, <1>7
<1>10. /\ DOMAIN m3 = 0 .. cap - 1
       /\ \A r \in Listed : r = "rmargs" \/ Holds(m2, r) => Holds(m3, r)
  <2>1. PICK args : args = RmArgs
    OBVIOUS
  <2>2. m3 = Put(m2, at["rmargs"] + d, args)
    BY <2>1, <1>9
  <2>3. /\ DOMAIN args = {x - d : x \in DOMAIN Want("rmargs")}
        /\ \A x \in DOMAIN Want("rmargs") : args[x - d] = Want("rmargs")[x]
    BY <2>1, <1>8
  <2>4. PICK m : m = m2
    OBVIOUS
  <2> HIDE DEF m2, m3
  <2>5. DOMAIN m = 0 .. cap - 1 /\ "rmargs" \in Listed
    BY <2>4, <1>3, <1>6
  <2>6. /\ DOMAIN Put(m, at["rmargs"] + d, args) = 0 .. cap - 1
        /\ \A r \in Listed : r = "rmargs" \/ Holds(m, r)
              => Holds(Put(m, at["rmargs"] + d, args), r)
    BY <2>3, <2>5, <1>2, PutList
  <2> QED BY <2>2, <2>4, <2>6
<1> HIDE DEF m2
<1>11. PICK m : m = m3
  OBVIOUS
<1> HIDE DEF m3
<1>12. \A r \in Ready("staged") : Holds(m, r)
  <2>1. /\ Ready("staged") = Ready("shm") \cup {"shm", "rmargs"} /\ Ready("staged") \subseteq Listed
        /\ "shm" \notin Ready("shm") /\ "rmargs" \notin Ready("shm")
    BY DEF Ready, Listed, Logs
  <2>2. \A r \in Ready("shm") : Holds(m, r)
    BY <2>1, <1>2, <1>4, <1>5, <1>6, <1>10, <1>11
  <2>3. Holds(m, "shm") /\ Holds(m, "rmargs")
    BY <1>3, <1>5, <1>6, <1>10, <1>11
  <2> QED BY <2>1, <2>2, <2>3
<1>13. "shm" \in Filling /\ "staged" \in Filling
  BY DEF Filling
<1>14. Fill("shm", "staged", m)
  BY <1>1, <1>11
<1> QED BY <1>10, <1>11, <1>12, <1>13, <1>14, FillStep

LEMMA AllocStep ==
    ASSUME StagingInv, Alloc
    PROVE  StagingInv'
<1>1. /\ spc = "alloc" /\ Placed
      /\ arena' = arena /\ cap' = cap /\ image' = image /\ lay' = lay
  BY DEF StagingInv, Alloc, Placing
<1>2. PICK j \in 1 .. 16 :
        /\ Regions[j] \notin Done /\ \A x \in 1 .. j - 1 : Regions[x] \in Done
        /\ IF NextOff(Bytes(Regions[j])) > cap THEN spc' = "oom" /\ off' = off /\ at' = at
           ELSE /\ off' = NextOff(Bytes(Regions[j]))
                /\ at' = [r \in Done \cup {Regions[j]} |-> IF r \in Done THEN at[r] ELSE off]
                /\ spc' = IF j = 16 THEN "fill" ELSE "alloc"
  BY NamesAre DEF Alloc
<1>3. PICK n : n = NextOff(Bytes(Regions[j]))
  OBVIOUS
<1>4. PICK new \in Names : new = Regions[j]
  BY NamesAre DEF Names
<1>5. \A r : Bytes(r)' = Bytes(r)
  BY <1>1 DEF Bytes, lvl2_pages, ImagePages, ptes_size, ptes_nr
<1>6. CASE n > cap
  <2>1. spc' = "oom" /\ off' = off /\ at' = at
    BY <1>2, <1>3, <1>6
  <2>2. Placed'
    BY <1>1, <2>1, SamePlaces
  <2>3. Ready(spc)' = {}
    BY <2>1 DEF Ready
  <2> QED BY <2>1, <2>2, <2>3 DEF StagingInv, Placing, Filling
<1>7. CASE ~(n > cap)
  <2>1. /\ off' = n /\ new \notin Done
        /\ at' = [r \in Done \cup {new} |-> IF r \in Done THEN at[r] ELSE off]
        /\ spc' = IF j = 16 THEN "fill" ELSE "alloc"
    BY <1>2, <1>3, <1>4, <1>7
  <2>2. PICK b \in Nat : b = Bytes(new)
    BY <1>1, BytesType DEF Placed
  <2>3. off \in Nat /\ cap \in Nat /\ off <= cap /\ PerPage \in Nat \ {0} /\ Done \subseteq Names
    BY <1>1, StagingConstants DEF Placed
  <2>4. PICK u \in Nat : n = u * PerPage /\ off + b <= n /\ n \in Nat
    <3>1. PICK t \in Nat : t = off + b
      BY <2>3
    <3>2. n = Up(t, PerPage) * PerPage
      BY <1>3, <1>4, <2>2, <3>1 DEF NextOff
    <3>3. Up(t, PerPage) \in Nat /\ t <= Up(t, PerPage) * PerPage /\ Up(t, PerPage) * PerPage \in Nat
      BY <2>3, UpNear
    <3> QED BY <3>1, <3>2, <3>3
  <2>5. off <= n /\ n <= cap
    BY <1>7, <2>2, <2>3, <2>4
  <2>6. Done' = Done \cup {new}
    BY <2>1 DEF Done
  <2>7. /\ \A r \in Done : at'[r] = at[r]
        /\ at'[new] = off
    BY <2>1
  <2>8. \A r \in Done : /\ at[r] \in Nat /\ at[r] + Bytes(r) <= off /\ Bytes(r) \in Nat
                        /\ \E q \in Nat : at[r] = q * PerPage
    <3>1. \A r \in Done : Bytes(r) \in Nat
      BY <1>1, <2>3, BytesType DEF Placed
    <3> QED BY <1>1, <3>1 DEF Placed
  <2>9. \E q \in Nat : off = q * PerPage
    BY <1>1 DEF Placed
  <2>10. \A r \in Done' : /\ at'[r] \in Nat /\ at'[r] + Bytes(r) <= n
                          /\ \E q \in Nat : at'[r] = q * PerPage
    <3>1. ASSUME NEW r \in Done
          PROVE  /\ at'[r] \in Nat /\ at'[r] + Bytes(r) <= n
                 /\ \E q \in Nat : at'[r] = q * PerPage
      BY <2>3, <2>4, <2>5, <2>7, <2>8
    <3>2. /\ at'[new] \in Nat /\ at'[new] + Bytes(new) <= n
          /\ \E q \in Nat : at'[new] = q * PerPage
      BY <2>2, <2>3, <2>4, <2>7, <2>9
    <3> QED BY <3>1, <3>2, <2>6
  <2>11. \A r, q \in Done' : r # q => at'[r] + Bytes(r) <= at'[q] \/ at'[q] + Bytes(q) <= at'[r]
    <3>1. \A r, q \in Done : r # q => at[r] + Bytes(r) <= at[q] \/ at[q] + Bytes(q) <= at[r]
      BY <1>1 DEF Placed
    <3>2. ASSUME NEW r \in Done', NEW q \in Done', r # q
          PROVE  at'[r] + Bytes(r) <= at'[q] \/ at'[q] + Bytes(q) <= at'[r]
      <4>1. CASE r \in Done /\ q \in Done
        BY <4>1, <3>1, <3>2, <2>7
      <4>2. CASE r = new
        <5>1. q \in Done
          BY <4>2, <3>2, <2>6
        <5> QED BY <4>2, <5>1, <2>7, <2>8
      <4>3. CASE q = new
        <5>1. r \in Done
          BY <4>3, <3>2, <2>6
        <5> QED BY <4>3, <5>1, <2>7, <2>8
      <4> QED BY <4>1, <4>2, <4>3, <2>6
    <3> QED BY <3>2
  <2>12. Placed'
    <3>1. image' \in Nat \ {0} /\ cap' \in Nat /\ (lvl2_pages <= PerPage)' /\ DOMAIN arena' = 0 .. cap' - 1
      BY <1>1 DEF Placed, lvl2_pages, ImagePages
    <3>2. off' \in Nat /\ off' <= cap' /\ \E q \in Nat : off' = q * PerPage
      BY <1>1, <2>1, <2>4, <2>5
    <3>3. Done' \subseteq Names
      BY <2>3, <2>6
    <3>4. \A r \in Done' : /\ at'[r] \in Nat /\ at'[r] + Bytes(r)' <= off'
                           /\ \E q \in Nat : at'[r] = q * PerPage
      BY <2>1, <2>10, <1>5
    <3>5. \A r, q \in Done' : r # q => at'[r] + Bytes(r)' <= at'[q] \/ at'[q] + Bytes(q)' <= at'[r]
      BY <2>11, <1>5
    <3> QED BY <3>1, <3>2, <3>3, <3>4, <3>5 DEF Placed
  <2>13. spc' \in Filling => Done' = Names
    <3>1. SUFFICES ASSUME j = 16 PROVE Names \subseteq Done'
      BY <2>1, <2>3, <2>6 DEF Filling
    <3>2. \A x \in 1 .. 16 : Regions[x] \in Done'
      BY <3>1, <1>2, <1>4, <2>6
    <3> QED BY <3>2, NamesAre DEF Names
  <2>14. spc' \in {"fill", "alloc"} /\ Ready(spc)' = {}
    BY <2>1 DEF Ready
  <2> QED BY <2>12, <2>13, <2>14 DEF StagingInv, Placing, Filling
<1> QED BY <1>6, <1>7

LEMMA Radix3Step ==
    ASSUME StagingInv, NEW n \in Images, NEW c \in Capacities, Radix3Levels(n, c)
    PROVE  StagingInv'
<1>1. /\ spc = "idle" /\ off = 0 /\ Done = {}
      /\ image' = n /\ cap' = c /\ arena' = [x \in 0 .. c - 1 |-> Garbage]
      /\ spc' = (IF lvl2_pages' > PerPage THEN "too_large" ELSE "alloc")
      /\ off' = off /\ at' = at /\ lay' = lay
  BY DEF StagingInv, Radix3Levels
<1>2. n \in Nat \ {0} /\ c \in Nat /\ PerPage \in Nat \ {0}
  BY StagingConstants
<1>3. Ready(spc)' = {} /\ spc' \in {"too_large", "alloc"}
  BY <1>1 DEF Ready
<1>4. CASE lvl2_pages' > PerPage
  <2>1. spc' = "too_large"
    BY <1>1, <1>4
  <2> QED BY <2>1, <1>3 DEF StagingInv, Placing, Filling
<1>5. CASE ~(lvl2_pages' > PerPage)
  <2>1. Done' = {}
    BY <1>1 DEF Done
  <2>2. lvl2_pages' \in Nat
    <3>1. Up(n, PerPage) \in Nat
      BY <1>2, UpNear
    <3>2. Up(Up(n, PerPage), PerPage) \in Nat
      BY <3>1, <1>2, UpNear
    <3> QED BY <3>2, <1>1 DEF lvl2_pages, ImagePages
  <2>3. lvl2_pages' <= PerPage
    BY <2>2, <1>2, <1>5
  <2>4. off' = 0 * PerPage
    BY <1>1, <1>2
  <2>5. Placed'
    BY <1>1, <1>2, <2>1, <2>3, <2>4 DEF Placed
  <2>6. spc' = "alloc"
    BY <1>1, <1>5
  <2> QED BY <2>5, <2>6, <1>3 DEF StagingInv, Placing, Filling
<1> QED BY <1>4, <1>5

LEMMA LayoutStep ==
    ASSUME StagingInv, NEW fb \in FbSizes, NEW w \in Workspaces, NEW boot \in BootSizes,
           NEW elf \in ElfSizes, Layout(fb * MiB, w, boot, elf)
    PROVE  StagingInv'
<1>1. CASE spc' = "refused"
  BY <1>1 DEF StagingInv, Placing, Filling, Ready
<1>2. CASE spc' # "refused"
  <2>1. /\ ~NoFrts(fb * MiB, w) /\ boot # 0 /\ elf # 0
        /\ lay' = Plan(fb * MiB, w, boot, elf)
        /\ spc' = IF Sane(lay') THEN "planned" ELSE "no_room"
    BY <1>2 DEF Layout, NoSizes
  <2>2. PICK p : p = Plan(fb * MiB, w, boot, elf)
    OBVIOUS
  <2>3. fb * MiB \in Nat /\ w \in Nat /\ boot \in Nat \ {0} /\ elf \in Nat \ {0}
    BY <2>1, StagingAssumption DEF MiB
  <2>4. 2 * (fb * MiB) <= Wraps /\ 2 * boot <= Wraps /\ 2 * elf <= Wraps
    BY StagingAssumption
  <2>5. IF Sane(p) THEN WprFits(p) ELSE WprTooLarge(p)
    <3>1. PICK b \in Nat : b = fb * MiB
      BY <2>3
    <3>2. 2 * b <= Wraps /\ ~NoFrts(b, w) /\ p = Plan(b, w, boot, elf)
      BY <3>1, <2>1, <2>2, <2>4
    <3> QED BY <3>2, <2>3, <2>4, PlanIsRight
  <2>6. lay' = p
    BY <2>1, <2>2
  <2>7. /\ spc' = "planned" => WprFits(lay)'
        /\ spc' = "no_room" => WprTooLarge(lay)'
    <3>1. (WprFits(lay)' <=> WprFits(p)) /\ (WprTooLarge(lay)' <=> WprTooLarge(p))
      BY <2>6 DEF WprFits, WprTooLarge
    <3> QED BY <3>1, <2>1, <2>5, <2>6
  <2>8. spc' \in {"planned", "no_room"} /\ Ready(spc)' = {}
    BY <2>1 DEF Ready
  <2> QED BY <2>7, <2>8 DEF StagingInv, Placing, Filling
<1> QED BY <1>1, <1>2

LEMMA StagingInvStarts == StagingInit => StagingInv
<1>1. SUFFICES ASSUME StagingInit PROVE StagingInv
  OBVIOUS
<1>2. spc = "idle" /\ off = 0 /\ at = <<>>
  BY <1>1 DEF StagingInit
<1>3. Done = {} /\ Ready(spc) = {}
  BY <1>2 DEF Done, Ready
<1> QED BY <1>2, <1>3 DEF StagingInv, Placing, Filling

LEMMA StagingInvKept == StagingInv /\ [StagingNext]_svars => StagingInv'
<1>1. SUFFICES ASSUME StagingInv, [StagingNext]_svars PROVE StagingInv'
  OBVIOUS
<1>2. CASE svars' = svars
  <2>1. /\ spc' = spc /\ arena' = arena /\ cap' = cap /\ off' = off /\ at' = at
        /\ image' = image /\ lay' = lay
    BY <1>2 DEF svars
  <2>2. Placed => Placed'
    BY <2>1, SamePlaces
  <2>3. Done' = Done /\ Ready(spc)' = Ready(spc)
    BY <2>1 DEF Done, Ready
  <2>4. \A r \in Ready(spc) : Holds(arena, r)'
    <3>1. \A r \in Ready(spc) : Holds(arena, r)
      BY <1>1 DEF StagingInv
    <3>2. \A r : Holds(arena, r)' <=> Holds(arena', r)
      BY <2>1, SameLists
    <3> QED BY <3>1, <3>2, <2>1
  <2>5. (WprFits(lay)' <=> WprFits(lay)) /\ (WprTooLarge(lay)' <=> WprTooLarge(lay))
    BY <2>1 DEF WprFits, WprTooLarge
  <2> QED BY <1>1, <2>1, <2>2, <2>3, <2>4, <2>5 DEF StagingInv
<1>3. CASE \E n \in Images, c \in Capacities : Radix3Levels(n, c)
  BY <1>1, <1>3, Radix3Step
<1>4. CASE \E fb \in FbSizes, w \in Workspaces, b \in BootSizes, e \in ElfSizes :
             Layout(fb * MiB, w, b, e)
  BY <1>1, <1>4, LayoutStep
<1>5. CASE Alloc
  BY <1>1, <1>5, AllocStep
<1>6. CASE CopyImage
  BY <1>1, <1>6, CopyImageStep
<1>7. CASE FillLvl2 \/ FillLvl1 \/ FillLvl0
  BY <1>1, <1>7, LevelSteps
<1>8. CASE BuildMeta
  BY <1>1, <1>8, BuildMetaStep
<1>9. CASE BuildLibos
  BY <1>1, <1>9, BuildLibosStep
<1>10. CASE FillLogs
  BY <1>1, <1>10, FillLogsStep
<1>11. CASE InitShm
  BY <1>1, <1>11, InitShmStep
<1> QED BY <1>1, <1>2, <1>3, <1>4, <1>5, <1>6, <1>7, <1>8, <1>9, <1>10, <1>11 DEF StagingNext

\* The preparation keeps the regions apart, and what is ready in them stays.
THEOREM StagingInvariant == StagingSpec => []StagingInv
<1> QED BY StagingInvStarts, StagingInvKept, PTL DEF StagingSpec

\* What is read in a region that is ready is what the firmware looks for.
LEMMA ReadWanted ==
    ASSUME StagingInv, spc = "staged", NEW r \in Listed, NEW x \in DOMAIN Want(r)
    PROVE  Read(at[r] + x) = Want(r)[x]
<1>1. Placed /\ Done = Names /\ DOMAIN arena = 0 .. cap - 1 /\ Holds(arena, r)
  <2>1. spc \in Filling /\ Ready(spc) = Listed
    BY DEF Filling, Ready, Listed
  <2> QED BY <2>1, FillStarts
<1>2. r \in Done
  BY <1>1, NamesAre DEF Listed, Logs
<1>3. at[r] + x \in DOMAIN arena
  BY <1>1, <1>2, WantInside, CellsApart
<1> QED BY <1>1, <1>3 DEF Holds, Read

\* Places of the regions, as numbers.
LEMMA StagedPlaces ==
    ASSUME StagingInv, spc = "staged"
    PROVE  Placed /\ \A r \in Listed : at[r] \in Nat
<1>1. Placed /\ Done = Names
  <2>1. spc \in Filling
    BY DEF Filling
  <2> QED BY <2>1, FillStarts
<1>2. \A r \in Listed : r \in Done
  BY <1>1, NamesAre DEF Listed, Logs
<1> QED BY <1>1, <1>2 DEF Placed

\* What the GPU reads, region by region.
LEMMA StagedReads ==
    ASSUME StagingInv, spc = "staged"
    PROVE  /\ Read(at["meta"]) = at["lvl0"]
           /\ Read(at["lvl0"]) = at["lvl1"]
           /\ \A y \in 0 .. lvl2_pages - 1 : Read(at["lvl1"] + y) = at["lvl2"] + y * PerPage
           /\ \A y \in 0 .. ImagePages - 1 : Read(at["lvl2"] + y) = at["fwimg"] + y * PerPage
           /\ \A y \in 0 .. image - 1 : Read(at["fwimg"] + y) = Content(y)
           /\ \A y \in 0 .. 3 : Read(at["libos"] + y) = at[LibosArgs[y + 1]]
           /\ \A r \in Logs : \A y \in 1 .. LogPages : Read(at[r] + y) = at[r] + (y - 1) * PerPage
           /\ \A y \in 0 .. ptes_nr - 1 : Read(at["shm"] + y) = at["shm"] + y * PerPage
           /\ \A y \in 0 .. 3 : Read(at["rmargs"] + y) = RmArgs[y + 1]
<1>1. /\ {"fwimg", "lvl2", "lvl1", "lvl0", "meta", "libos", "shm", "rmargs"} \subseteq Listed
      /\ Logs \subseteq Listed
  BY DEF Listed
<1>2. at["meta"] \in Nat /\ at["lvl0"] \in Nat /\ at["lvl1"] \in Nat /\ PerPage \in Nat
  BY <1>1, StagedPlaces, StagingConstants
<1>3. Read(at["meta"]) = at["lvl0"]
  <2>1. 0 \in DOMAIN Want("meta") /\ Want("meta")[0] = at["lvl0"]
    BY Wanted
  <2>2. Read(at["meta"] + 0) = at["lvl0"]
    BY <2>1, <1>1, ReadWanted
  <2>3. at["meta"] + 0 = at["meta"]
    BY <1>2
  <2> QED BY <2>2, <2>3
<1>4. Read(at["lvl0"]) = at["lvl1"]
  <2>1. 0 \in DOMAIN Want("lvl0") /\ Want("lvl0")[0] = at["lvl1"] + 0 * PerPage
    BY Wanted DEF PageList
  <2>2. Read(at["lvl0"] + 0) = at["lvl1"] + 0 * PerPage
    BY <2>1, <1>1, ReadWanted
  <2>3. at["lvl0"] + 0 = at["lvl0"] /\ at["lvl1"] + 0 * PerPage = at["lvl1"]
    BY <1>2
  <2> QED BY <2>2, <2>3
<1>5. \A y \in 0 .. lvl2_pages - 1 : Read(at["lvl1"] + y) = at["lvl2"] + y * PerPage
  <2>1. Want("lvl1") = [y \in 0 .. lvl2_pages - 1 |-> at["lvl2"] + y * PerPage]
    BY Wanted DEF PageList
  <2>2. \A y \in DOMAIN Want("lvl1") : Read(at["lvl1"] + y) = Want("lvl1")[y]
    BY <1>1, ReadWanted
  <2> QED BY <2>1, <2>2
<1>6. \A y \in 0 .. ImagePages - 1 : Read(at["lvl2"] + y) = at["fwimg"] + y * PerPage
  <2>1. Want("lvl2") = [y \in 0 .. ImagePages - 1 |-> at["fwimg"] + y * PerPage]
    BY Wanted DEF PageList
  <2>2. \A y \in DOMAIN Want("lvl2") : Read(at["lvl2"] + y) = Want("lvl2")[y]
    BY <1>1, ReadWanted
  <2> QED BY <2>1, <2>2
<1>7. \A y \in 0 .. image - 1 : Read(at["fwimg"] + y) = Content(y)
  <2>1. Want("fwimg") = [y \in 0 .. image - 1 |-> Content(y)]
    BY Wanted
  <2>2. \A y \in DOMAIN Want("fwimg") : Read(at["fwimg"] + y) = Want("fwimg")[y]
    BY <1>1, ReadWanted
  <2> QED BY <2>1, <2>2
<1>8. \A y \in 0 .. 3 : Read(at["libos"] + y) = at[LibosArgs[y + 1]]
  <2>1. Want("libos") = [y \in 0 .. 3 |-> at[LibosArgs[y + 1]]]
    BY Wanted
  <2>2. \A y \in DOMAIN Want("libos") : Read(at["libos"] + y) = Want("libos")[y]
    BY <1>1, ReadWanted
  <2> QED BY <2>1, <2>2
<1>9. ASSUME NEW r \in Logs
      PROVE  \A y \in 1 .. LogPages : Read(at[r] + y) = at[r] + (y - 1) * PerPage
  <2>1. Want(r) = [y \in 1 .. LogPages |-> at[r] + (y - 1) * PerPage]
    BY Wanted
  <2>2. \A y \in DOMAIN Want(r) : Read(at[r] + y) = Want(r)[y]
    BY <1>1, ReadWanted
  <2> QED BY <2>1, <2>2
<1>10. \A y \in 0 .. ptes_nr - 1 : Read(at["shm"] + y) = at["shm"] + y * PerPage
  <2>1. Want("shm") = [y \in 0 .. ptes_nr - 1 |-> at["shm"] + y * PerPage]
    BY Wanted DEF PageList
  <2>2. \A y \in DOMAIN Want("shm") : Read(at["shm"] + y) = Want("shm")[y]
    BY <1>1, ReadWanted
  <2> QED BY <2>1, <2>2
<1>11. \A y \in 0 .. 3 : Read(at["rmargs"] + y) = RmArgs[y + 1]
  <2>1. Want("rmargs") = [y \in 0 .. 3 |-> RmArgs[y + 1]]
    BY Wanted
  <2>2. \A y \in DOMAIN Want("rmargs") : Read(at["rmargs"] + y) = Want("rmargs")[y]
    BY <1>1, ReadWanted
  <2> QED BY <2>1, <2>2
<1> QED BY <1>3, <1>4, <1>5, <1>6, <1>7, <1>8, <1>9, <1>10, <1>11

\* A quotient is below the number of pages.
LEMMA PageBelow ==
    ASSUME NEW x \in Nat, NEW n \in Nat, NEW a \in Nat \ {0}, x < n * a
    PROVE  /\ x \div a \in 0 .. n - 1 /\ x % a \in 0 .. a - 1
           /\ x = (x \div a) * a + (x % a)
<1> DEFINE q == x \div a
           r == x % a
<1>1. q \in Int /\ r \in 0 .. a - 1 /\ x = a * q + r
  <2>1. x \in Int
    OBVIOUS
  <2> QED BY <2>1, DivMod
<1>2. q \in Nat
  <2>1. x <= x
    OBVIOUS
  <2> QED BY <2>1, DivMonotone
<1> HIDE DEF q, r
<1>3. a * q = q * a /\ q * a <= x
  <2>1. a * q = q * a /\ q * a \in Nat
    BY <1>2, Z3
  <2> QED BY <2>1, <1>1
<1>4. q < n
  <2>1. SUFFICES ASSUME n <= q PROVE FALSE
    BY <1>2
  <2>2. n * a <= q * a
    BY <2>1, <1>2, Z3
  <2>3. n * a \in Nat /\ q * a \in Nat
    BY <1>2, Z3
  <2> QED BY <2>2, <2>3, <1>3
<1> QED BY <1>1, <1>2, <1>3, <1>4 DEF q, r

LEMMA ImageIsReachable ==
    ASSUME StagingInv, spc = "staged"
    PROVE  ImageReachable
<1>1. SUFFICES ASSUME NEW x \in 0 .. image - 1
               PROVE  Follow(x) = Content(x)
  BY DEF ImageReachable
<1> DEFINE page == x \div PerPage
           f == x % PerPage
           l == page \div PerPage
           g == page % PerPage
<1>2. /\ image \in Nat \ {0} /\ ImagePages \in Nat /\ lvl2_pages \in Nat /\ PerPage \in Nat \ {0}
      /\ image <= ImagePages * PerPage /\ ImagePages <= lvl2_pages * PerPage
  <2>1. image \in Nat \ {0}
    BY StagedPlaces DEF Placed
  <2> QED BY <2>1, StagedSizes, StagingConstants
<1>3. at["fwimg"] \in Nat /\ at["lvl2"] \in Nat /\ at["lvl1"] \in Nat
  BY StagedPlaces DEF Listed
<1>4. page \in 0 .. ImagePages - 1 /\ f \in 0 .. PerPage - 1 /\ x = page * PerPage + f
  <2>1. x \in Nat /\ ImagePages * PerPage \in Nat
    BY <1>2, Z3
  <2>2. x < ImagePages * PerPage
    BY <2>1, <1>2
  <2>3. PICK n \in Nat : n = ImagePages
    BY <1>2
  <2>4. x < n * PerPage
    BY <2>2, <2>3
  <2>5. x \div PerPage \in 0 .. n - 1 /\ x % PerPage \in 0 .. PerPage - 1
        /\ x = (x \div PerPage) * PerPage + (x % PerPage)
    BY <2>1, <2>4, <1>2, PageBelow
  <2> QED BY <2>3, <2>5
<1> HIDE DEF page
<1>5. l \in 0 .. lvl2_pages - 1 /\ g \in 0 .. PerPage - 1 /\ page = l * PerPage + g
  <2>1. page \in Nat /\ lvl2_pages * PerPage \in Nat
    BY <1>2, <1>4, Z3
  <2>2. page < lvl2_pages * PerPage
    BY <2>1, <1>2, <1>4
  <2>3. PICK n \in Nat : n = lvl2_pages
    BY <1>2
  <2>4. page < n * PerPage
    BY <2>2, <2>3
  <2>5. page \div PerPage \in 0 .. n - 1 /\ page % PerPage \in 0 .. PerPage - 1
        /\ page = (page \div PerPage) * PerPage + (page % PerPage)
    BY <2>1, <2>4, <1>2, PageBelow
  <2> QED BY <2>3, <2>5
<1>6. Follow(x) = Read(Read(Read(Read(Read(at["meta"])) + l) + g) + f)
  BY DEF Follow, page
<1> HIDE DEF f, l, g
<1>7. Read(Read(Read(at["meta"])) + l) = at["lvl2"] + l * PerPage
  BY <1>5, StagedReads
<1>8. at["lvl2"] + l * PerPage + g = at["lvl2"] + page
  <2>1. l * PerPage \in Nat
    BY <1>2, <1>5, Z3
  <2> QED BY <2>1, <1>2, <1>3, <1>5
<1>9. Read(at["lvl2"] + page) = at["fwimg"] + page * PerPage
  BY <1>4, StagedReads
<1>10. at["fwimg"] + page * PerPage + f = at["fwimg"] + x
  <2>1. page * PerPage \in Nat
    BY <1>2, <1>4, Z3
  <2> QED BY <2>1, <1>2, <1>3, <1>4
<1>11. Read(at["fwimg"] + x) = Content(x)
  BY StagedReads
<1> QED BY <1>6, <1>7, <1>8, <1>9, <1>10, <1>11

LEMMA ListsAreComplete ==
    ASSUME StagingInv, spc = "staged"
    PROVE  ListsComplete
<1> DEFINE Arg(x) == Read(at["libos"] + x)
           args == [x \in 0 .. 3 |-> Read(Arg(3) + x)]
<1>1. Arg(0) = at["loginit"] /\ Arg(1) = at["logintr"] /\ Arg(2) = at["logrm"] /\ Arg(3) = at["rmargs"]
  <2>1. \A y \in 0 .. 3 : Arg(y) = at[LibosArgs[y + 1]]
    BY StagedReads
  <2> HIDE DEF Arg
  <2>2. /\ Arg(0) = at[LibosArgs[1]] /\ Arg(1) = at[LibosArgs[2]]
        /\ Arg(2) = at[LibosArgs[3]] /\ Arg(3) = at[LibosArgs[4]]
    BY <2>1
  <2> QED BY <2>2 DEF LibosArgs
<1> HIDE DEF Arg
<1>2. \A y \in 0 .. 3 : args[y] = RmArgs[y + 1]
  BY <1>1, StagedReads
<1> HIDE DEF args
<1>3. /\ args[0] = at["shm"] /\ args[1] = ptes_nr /\ args[2] = ptes_size
      /\ args[3] = ptes_size + QueuePages * PerPage
  <2>1. args[0] = RmArgs[1] /\ args[1] = RmArgs[2] /\ args[2] = RmArgs[3] /\ args[3] = RmArgs[4]
    BY <1>2
  <2> QED BY <2>1 DEF RmArgs
<1>4. \A x \in 0 .. 2 : \A p \in 0 .. LogPages - 1 : Read(Arg(x) + 1 + p) = Arg(x) + p * PerPage
  <2>1. ASSUME NEW r \in Logs, NEW p \in 0 .. LogPages - 1
        PROVE  Read(at[r] + 1 + p) = at[r] + p * PerPage
    <3>1. at[r] \in Nat /\ LogPages \in Nat
      BY StagedPlaces, StagingConstants DEF Listed
    <3>2. p + 1 \in 1 .. LogPages /\ (p + 1) - 1 = p /\ at[r] + 1 + p = at[r] + (p + 1)
      BY <3>1
    <3>3. Read(at[r] + (p + 1)) = at[r] + ((p + 1) - 1) * PerPage
      BY <3>2, StagedReads
    <3> QED BY <3>2, <3>3
  <2>2. ASSUME NEW x \in 0 .. 2
        PROVE  \E r \in Logs : Arg(x) = at[r]
    <3>1. x = 0 \/ x = 1 \/ x = 2
      OBVIOUS
    <3> QED BY <3>1, <1>1 DEF Logs
  <2>3. ASSUME NEW x \in 0 .. 2, NEW p \in 0 .. LogPages - 1
        PROVE  Read(Arg(x) + 1 + p) = Arg(x) + p * PerPage
    <3>1. PICK r \in Logs : Arg(x) = at[r]
      BY <2>2
    <3> QED BY <3>1, <2>1
  <2> QED BY <2>3
<1>5. \A p \in 0 .. args[1] - 1 : Read(args[0] + p) = args[0] + p * PerPage
  BY <1>3, StagedReads
<1>6. {args[2] + p : p \in 0 .. Queues * PerPage - 1} \subseteq args[1] .. args[1] * PerPage - 1
  <2>1. /\ Queues * PerPage \in Nat /\ ptes_nr \in Nat /\ ptes_size \in Nat /\ ptes_nr <= ptes_size
        /\ ptes_size + Queues * PerPage = ptes_nr * PerPage
    BY StagedSizes
  <2>2. PICK a \in Nat, b \in Nat, c \in Nat :
           a = ptes_size /\ b = ptes_nr /\ c = Queues * PerPage
    BY <2>1
  <2>3. a + c = b * PerPage /\ b <= a
    BY <2>1, <2>2
  <2>4. {a + p : p \in 0 .. c - 1} \subseteq b .. (a + c) - 1
    BY <2>3
  <2>5. {a + p : p \in 0 .. c - 1} \subseteq b .. b * PerPage - 1
    BY <2>3, <2>4
  <2> QED BY <2>2, <2>5, <1>3
<1> QED BY <1>3, <1>4, <1>5, <1>6 DEF ListsComplete, Arg, args

LEMMA RegionsStayApart ==
    ASSUME StagingInv, spc \in Placing
    PROVE  RegionsApart
<1>1. Placed
  BY DEF StagingInv
<1>2. /\ off \in Nat /\ cap \in Nat /\ off <= cap /\ image \in Nat \ {0} /\ PerPage \in Nat \ {0}
      /\ Done \subseteq Names
  BY <1>1, StagingConstants DEF Placed
<1>3. \A r, q \in Done : r # q => at[r] + Bytes(r) <= at[q] \/ at[q] + Bytes(q) <= at[r]
  BY <1>1 DEF Placed
<1>4. ASSUME NEW r \in Done
      PROVE  at[r] % PerPage = 0 /\ at[r] + Bytes(r) <= cap
  <2>1. /\ at[r] \in Nat /\ at[r] + Bytes(r) <= off
        /\ \E q \in Nat : at[r] = q * PerPage
    BY <1>1 DEF Placed
  <2>2. Bytes(r) \in Nat
    BY <1>2, BytesType
  <2>3. at[r] + Bytes(r) <= cap
    BY <2>1, <2>2, <1>2
  <2>4. PICK v \in Nat, q \in Nat : v = at[r] /\ v = q * PerPage
    BY <2>1
  <2>5. v = PerPage * q + 0
    BY <2>4, <1>2, Z3
  <2>6. v \in Int /\ q \in Int /\ 0 \in 0 .. PerPage - 1
    BY <1>2
  <2>7. PICK z \in 0 .. PerPage - 1 : z = 0
    BY <2>6
  <2>8. v = PerPage * q + z
    BY <2>5, <2>7
  <2>9. v % PerPage = z
    BY <2>6, <2>8, <1>2, DivUnique
  <2> QED BY <2>3, <2>4, <2>7, <2>9
<1> QED BY <1>3, <1>4 DEF RegionsApart

\* The firmware finds all that was prepared for it; the plan of the protected
\* region is accepted only if its parts fit, and refused only if VRAM is too small
\* for them with their rounding: gsp_fw.c, nv_dma.h, gsp_rpc.c and fb_layout.c,
\* for images, logs and queues of any size.
THEOREM FirmwareStaged == StagingSpec => []StagedRight
<1>1. StagingInv => StagedRight
  <2>1. SUFFICES ASSUME StagingInv PROVE StagedRight
    OBVIOUS
  <2>2. spc \in {"alloc", "fill", "staged", "oom"} => RegionsApart
    BY <2>1, RegionsStayApart DEF Placing, Filling
  <2>3. spc = "staged" => ImageReachable /\ ListsComplete
    BY <2>1, ImageIsReachable, ListsAreComplete
  <2> QED BY <2>1, <2>2, <2>3 DEF StagedRight, StagingInv
<1> QED BY <1>1, StagingInvariant, PTL
=============================================================================
