--------------------------- MODULE DashboardProofs --------------------------
(***************************************************************************)
(* Theorems about RevenueReport and Dashboard, for any payments, amounts   *)
(* and calendar and any number of changes.  A sum is the cardinality of    *)
(* the units it is made of; a month is the interval between its bounds.    *)
(***************************************************************************)
EXTENDS Dashboard, FiniteSetTheorems, WellFoundedInduction, TLAPS

-----------------------------------------------------------------------------
(* Sums                                                                    *)

\* Every x of S with its units, f[x] of them.
Units(f, S) == UNION {{x} \X (1..f[x]) : x \in S}
Size(f, S) == Cardinality(Units(f, S))

\* The element the fold takes out of S, and the equation the fold solves.
Taken(S) == CHOOSE x \in S : TRUE
IsSum(g, f, S) ==
    g = [s \in SUBSET S |-> IF s = {} THEN 0 ELSE f[Taken(s)] + g[s \ {Taken(s)}]]

\* The units of a finite set are finite.
LEMMA UnitsAreFinite ==
    ASSUME NEW D, NEW f \in [D -> Nat], NEW S \in SUBSET D, IsFiniteSet(S)
    PROVE  IsFiniteSet(Units(f, S)) /\ Size(f, S) \in Nat
<1> DEFINE U == {{x} \X (1..f[x]) : x \in S}
<1>1. IsFiniteSet(U)
  <2> DEFINE g == [x \in S |-> {x} \X (1..f[x])]
  <2>1. U = {g[x] : x \in S} /\ g \in [S -> U]
    OBVIOUS
  <2>2. g \in Surjection(S, U)
    BY <2>1 DEF Surjection, Range
  <2> QED
    BY <2>2, FS_Surjection
<1>2. \A T \in U : IsFiniteSet(T)
  <2> SUFFICES ASSUME NEW x \in S PROVE IsFiniteSet({x} \X (1..f[x]))
    OBVIOUS
  <2>1. f[x] \in Nat
    OBVIOUS
  <2>2. IsFiniteSet({x})
    BY FS_Singleton
  <2>3. IsFiniteSet(1..f[x])
    BY <2>1, FS_Interval
  <2> QED
    BY <2>2, <2>3, FS_Product
<1>3. IsFiniteSet(UNION U)
  BY <1>1, <1>2, FS_UNION
<1>4. IsFiniteSet(Units(f, S))
  BY <1>3 DEF Units
<1> QED
  BY <1>4, FS_CardinalityType DEF Size

\* The units of two sets that are apart add up.
LEMMA SizeOfUnion ==
    ASSUME NEW D, NEW f \in [D -> Nat], NEW S \in SUBSET D, NEW T \in SUBSET D,
           IsFiniteSet(S), IsFiniteSet(T), S \cap T = {}
    PROVE  Size(f, S \cup T) = Size(f, S) + Size(f, T)
<1> DEFINE A == Units(f, S)
           B == Units(f, T)
<1>1. Units(f, S \cup T) = A \cup B
  BY DEF Units
<1>2. A \cap B = {}
  BY DEF Units
<1>3. IsFiniteSet(A) /\ IsFiniteSet(B) /\ Cardinality(A) \in Nat /\ Cardinality(B) \in Nat
  BY UnitsAreFinite DEF Size
<1>4. Size(f, S) = Cardinality(A) /\ Size(f, T) = Cardinality(B)
      /\ Size(f, S \cup T) = Cardinality(A \cup B)
  BY <1>1 DEF Size
<1> HIDE DEF A, B
<1>5. Cardinality(A \cup B) = Cardinality(A) + Cardinality(B) - Cardinality({})
  BY <1>2, <1>3, FS_Union
<1>6. Cardinality(A \cup B) = Cardinality(A) + Cardinality(B)
  BY <1>3, <1>5, FS_EmptySet
<1> QED
  BY <1>4, <1>6

\* One element has its own units, none has none.
LEMMA SizeOfOne ==
    ASSUME NEW D, NEW f \in [D -> Nat], NEW x \in D
    PROVE  Size(f, {x}) = f[x]
<1>1. f[x] \in Nat
  OBVIOUS
<1>2. Units(f, {x}) = {x} \X (1..f[x])
  BY DEF Units
<1>3. IsFiniteSet({x}) /\ Cardinality({x}) = 1
  BY FS_Singleton
<1>4. IsFiniteSet(1..f[x]) /\ Cardinality(1..f[x]) = f[x]
  <2>1. IsFiniteSet(1..f[x])
        /\ Cardinality(1..f[x]) = IF 1 > f[x] THEN 0 ELSE f[x] - 1 + 1
    BY <1>1, FS_Interval
  <2> QED
    BY <1>1, <2>1
<1>5. Cardinality({x} \X (1..f[x])) = Cardinality({x}) * Cardinality(1..f[x])
  BY <1>3, <1>4, FS_Product
<1>6. Cardinality({x} \X (1..f[x])) = f[x]
  <2> PICK c : c = Cardinality({x} \X (1..f[x]))
    OBVIOUS
  <2>1. c = 1 * f[x]
    BY <1>3, <1>4, <1>5
  <2> QED
    BY <1>1, <2>1
<1>7. Size(f, {x}) = Cardinality({x} \X (1..f[x]))
  BY <1>2 DEF Size
<1> QED
  BY <1>6, <1>7

\* Nothing has no units.
LEMMA SizeOfNone == ASSUME NEW f PROVE Size(f, {}) = 0
BY FS_EmptySet DEF Size, Units

\* A part has no more units than the whole.
LEMMA SizeOfPart ==
    ASSUME NEW D, NEW f \in [D -> Nat], NEW S \in SUBSET D, IsFiniteSet(S), NEW T \in SUBSET S
    PROVE  Size(f, T) <= Size(f, S)
<1>1. IsFiniteSet(T) /\ IsFiniteSet(S \ T)
  BY FS_Subset
<1>2. Size(f, T \cup (S \ T)) = Size(f, T) + Size(f, S \ T)
  BY <1>1, SizeOfUnion
<1>3. T \cup (S \ T) = S
  OBVIOUS
<1>4. Size(f, T) \in Nat /\ Size(f, S \ T) \in Nat
  BY <1>1, UnitsAreFinite
<1>5. Size(f, S) = Size(f, T) + Size(f, S \ T)
  BY <1>2, <1>3
<1> PICK a \in Nat : a = Size(f, T)
  BY <1>4
<1> PICK b \in Nat : b = Size(f, S \ T)
  BY <1>4
<1>6. Size(f, S) = a + b
  BY <1>5
<1> QED
  BY <1>6

\* The units solve the equation of the fold,
LEMMA UnitsSolve ==
    ASSUME NEW D, NEW f \in [D -> Nat], NEW S \in SUBSET D, IsFiniteSet(S)
    PROVE  IsSum([s \in SUBSET S |-> Size(f, s)], f, S)
<1> DEFINE g == [s \in SUBSET S |-> Size(f, s)]
<1>1. ASSUME NEW s \in SUBSET S, s # {}
      PROVE  Size(f, s) = f[Taken(s)] + g[s \ {Taken(s)}]
  <2> PICK x : x = Taken(s)
    OBVIOUS
  <2>1. x \in s
    BY <1>1 DEF Taken
  <2>2. IsFiniteSet({x}) /\ IsFiniteSet(s \ {x})
    BY FS_Singleton, FS_Subset
  <2>3. Size(f, {x} \cup (s \ {x})) = Size(f, {x}) + Size(f, s \ {x})
    BY <2>1, <2>2, SizeOfUnion
  <2>4. s = {x} \cup (s \ {x}) /\ Size(f, {x}) = f[x]
    BY <2>1, SizeOfOne
  <2> QED
    BY <2>3, <2>4
<1>2. \A s \in SUBSET S :
        Size(f, s) = IF s = {} THEN 0 ELSE f[Taken(s)] + g[s \ {Taken(s)}]
  BY <1>1, SizeOfNone
<1> QED
  BY <1>2 DEF IsSum

\* and nothing else does: a smallest set on which another solution differs would
\* have a smaller one.
LEMMA SolutionIsOne ==
    ASSUME NEW D, NEW f \in [D -> Nat], NEW S \in SUBSET D, IsFiniteSet(S),
           NEW g, IsSum(g, f, S), NEW h, IsSum(h, f, S)
    PROVE  g[S] = h[S]
<1> DEFINE Wrong == {s \in SUBSET S : g[s] # h[s]}
<1> SUFFICES ASSUME Wrong # {} PROVE FALSE
  OBVIOUS
<1>1. IsWellFoundedOn(StrictSubsetOrdering(S), SUBSET S)
  BY FS_StrictSubsetOrderingWellFounded, FS_FiniteSubsetsOfFinite
<1>2. PICK s \in Wrong : \A t \in Wrong : ~(<<t, s>> \in StrictSubsetOrdering(S))
  <2>1. Wrong \subseteq SUBSET S
    OBVIOUS
  <2> HIDE DEF Wrong
  <2> QED
    BY <1>1, <2>1, WFMin
<1>3. /\ g[s] = IF s = {} THEN 0 ELSE f[Taken(s)] + g[s \ {Taken(s)}]
      /\ h[s] = IF s = {} THEN 0 ELSE f[Taken(s)] + h[s \ {Taken(s)}]
  BY DEF IsSum
<1>4. s # {}
  BY <1>3
<1> PICK rest : rest = s \ {Taken(s)}
  OBVIOUS
<1>5. rest \subseteq s /\ rest # s
  BY <1>4 DEF Taken
<1>6. <<rest, s>> \in StrictSubsetOrdering(S)
  BY <1>5 DEF StrictSubsetOrdering
<1>7. g[rest] = h[rest]
  BY <1>2, <1>5, <1>6
<1> QED
  BY <1>3, <1>4, <1>7

\* The solution that the fold chooses is the number of units.
LEMMA ChosenIsSize ==
    ASSUME NEW D, NEW f \in [D -> Nat], NEW S \in SUBSET D, IsFiniteSet(S)
    PROVE  (CHOOSE g : IsSum(g, f, S))[S] = Size(f, S)
<1>1. IsSum(CHOOSE g : IsSum(g, f, S), f, S)
  BY UnitsSolve
<1>2. (CHOOSE g : IsSum(g, f, S))[S] = [s \in SUBSET S |-> Size(f, s)][S]
  BY <1>1, UnitsSolve, SolutionIsOne
<1> QED
  BY <1>2

\* A sum over a finite set counts its units.
LEMMA SumIsSize ==
    ASSUME NEW D, NEW f \in [D -> Nat], NEW S \in SUBSET D, IsFiniteSet(S)
    PROVE  MapThenSumSet(LAMBDA x : f[x], S) = Size(f, S)
<1>1. MapThenSumSet(LAMBDA x : f[x], S) = (CHOOSE g : IsSum(g, f, S))[S]
  BY DEF MapThenSumSet, MapThenFoldSet, Taken, IsSum
<1> QED
  BY <1>1, ChosenIsSize

-----------------------------------------------------------------------------
(* The calendar *)

\* The instants of a month, and of a year.
Span == DaysInMonth * InstantsInDay
SpanOfYear == MonthsInYear * DaysInMonth * InstantsInDay

\* Multiplication by a positive number keeps the order, both ways.
LEMMA Times ==
    ASSUME NEW n \in Nat \ {0}, NEW a \in Int, NEW b \in Int
    PROVE  a <= b <=> a * n <= b * n
<1>1. a <= b => a * n <= b * n
  OBVIOUS
<1>2. a > b => a * n >= (b + 1) * n
  OBVIOUS
<1>3. (b + 1) * n = b * n + n
  OBVIOUS
<1> QED
  BY <1>1, <1>2, <1>3

\* A quotient is the one multiple that lies no more than the divisor below.
LEMMA Quotient ==
    ASSUME NEW n \in Nat \ {0}, NEW t \in Int, NEW k \in Int
    PROVE  /\ t \div n \in Int
           /\ t \div n = k <=> k * n <= t /\ t < (k + 1) * n
<1> PICK q \in Int, r \in 0..(n - 1) : t = q * n + r /\ q = t \div n
  OBVIOUS
<1>1. q * n <= t /\ t < (q + 1) * n
  OBVIOUS
<1>2. ASSUME k * n <= t, t < (k + 1) * n PROVE k = q
  <2>1. k * n < (q + 1) * n /\ q * n < (k + 1) * n
    BY <1>1, <1>2
  <2>2. ~(q + 1 <= k) /\ ~(k + 1 <= q)
    BY <2>1, Times
  <2> QED
    BY <2>2
<1> QED
  BY <1>1, <1>2

\* Quotient and remainder make the number.
LEMMA Remainder ==
    ASSUME NEW n \in Nat \ {0}, NEW t \in Int
    PROVE  t % n \in 0..(n - 1) /\ t = (t \div n) * n + (t % n)
<1>1. t % n \in 0..(n - 1)
  OBVIOUS
<1>2. t = (t \div n) * n + (t % n)
  OBVIOUS
<1> QED
  BY <1>1, <1>2

\* A multiple and less than the divisor are the quotient and the remainder.
LEMMA Digits ==
    ASSUME NEW n \in Nat \ {0}, NEW k \in Int, NEW r \in 0..(n - 1)
    PROVE  (k * n + r) \div n = k /\ (k * n + r) % n = r
<1> PICK a \in Int : a = k * n
  OBVIOUS
<1> PICK t \in Int : t = a + r
  OBVIOUS
<1>1. (k + 1) * n = a + n
  OBVIOUS
<1>2. a <= t /\ t < a + n
  OBVIOUS
<1>3. t \div n = k
  BY <1>1, <1>2, Quotient
<1>4. t = a + (t % n) /\ t % n \in 0..(n - 1)
  BY <1>3, Remainder
<1> QED
  BY <1>3, <1>4

\* The lengths of a month and of a year, in instants.
LEMMA Spans ==
    /\ Span \in Nat \ {0} /\ SpanOfYear \in Nat \ {0}
    /\ SpanOfYear = MonthsInYear * Span
BY CalendarAssumption DEF Span, SpanOfYear

\* The start of a month counts the months before it; all months on is the next year.
LEMMA StartIs ==
    ASSUME NEW y \in Int, NEW m \in Int
    PROVE  /\ Start(y, m) = (y * MonthsInYear + m) * Span
           /\ Start(y, m) \in Int
           /\ Start(y, MonthsInYear) = Start(y + 1, 0)
<1>1. Start(y, m) = (y * MonthsInYear + m) * Span /\ Start(y, m) \in Int
  BY CalendarAssumption DEF Start, Span
<1>2. y * MonthsInYear + MonthsInYear = (y + 1) * MonthsInYear + 0
  BY CalendarAssumption
<1> QED
  BY <1>1, <1>2 DEF Start

\* A year starts with its first month and ends before the next year's.
LEMMA StartOfYear ==
    ASSUME NEW y \in Int
    PROVE  /\ Start(y, 0) = (y * MonthsInYear) * Span
           /\ Start(y, MonthsInYear) = ((y + 1) * MonthsInYear) * Span
           /\ Start(y, 0) \in Int /\ Start(y, MonthsInYear) \in Int
<1>1. Start(y, 0) = (y * MonthsInYear + 0) * Span
  BY StartIs
<1>2. Start(y + 1, 0) = ((y + 1) * MonthsInYear + 0) * Span /\ y + 1 \in Int
  BY StartIs
<1>3. y * MonthsInYear \in Int /\ (y + 1) * MonthsInYear \in Int
  BY CalendarAssumption
<1>4. y * MonthsInYear + 0 = y * MonthsInYear /\ (y + 1) * MonthsInYear + 0 = (y + 1) * MonthsInYear
  BY <1>3
<1>5. Start(y, MonthsInYear) = Start(y + 1, 0)
  BY StartIs
<1>6. Start(y, 0) \in Int /\ Start(y + 1, 0) \in Int
  BY StartIs
<1> QED
  BY <1>1, <1>2, <1>4, <1>5, <1>6

\* Starts are in the order of their months.
LEMMA StartsAreOrdered ==
    ASSUME NEW y \in Int, NEW m \in Int, NEW z \in Int, NEW k \in Int
    PROVE  Start(y, m) <= Start(z, k) <=> y * MonthsInYear + m <= z * MonthsInYear + k
<1> PICK a \in Int : a = y * MonthsInYear + m
  BY CalendarAssumption
<1> PICK b \in Int : b = z * MonthsInYear + k
  BY CalendarAssumption
<1>1. Start(y, m) = a * Span /\ Start(z, k) = b * Span
  BY StartIs
<1> QED
  BY <1>1, Spans, Times

\* An instant is of a year from the year's start to the next's.
LEMMA YearIs ==
    ASSUME NEW t \in Int, NEW y \in Int
    PROVE  /\ YearOf(t) \in Int
           /\ YearOf(t) = y <=> Start(y, 0) <= t /\ t < Start(y, MonthsInYear)
<1>1. YearOf(t) = t \div SpanOfYear
  BY DEF YearOf, SpanOfYear
<1>2. Start(y, 0) = y * SpanOfYear /\ Start(y + 1, 0) = (y + 1) * SpanOfYear
  <2>1. ASSUME NEW z \in Int PROVE Start(z, 0) = z * SpanOfYear
    <3>1. Start(z, 0) = (z * MonthsInYear) * Span
      BY StartIs, CalendarAssumption
    <3>2. (z * MonthsInYear) * Span = z * (MonthsInYear * Span)
      BY Spans, CalendarAssumption
    <3> QED
      BY <3>1, <3>2, Spans
  <2> QED
    BY <2>1
<1>3. YearOf(t) \in Int /\ (YearOf(t) = y <=> y * SpanOfYear <= t /\ t < (y + 1) * SpanOfYear)
  <2> PICK n \in Nat \ {0} : n = SpanOfYear
    BY Spans
  <2>1. t \div n \in Int /\ (t \div n = y <=> y * n <= t /\ t < (y + 1) * n)
    BY Quotient
  <2> QED
    BY <1>1, <2>1
<1>4. Start(y, MonthsInYear) = Start(y + 1, 0)
  BY StartIs
<1> QED
  BY <1>2, <1>3, <1>4

\* An instant is of a month of a year from the month's start to the next's.
LEMMA MonthIs ==
    ASSUME NEW t \in Int, NEW y \in Int, NEW m \in Month
    PROVE  /\ MonthOf(t) \in Month
           /\ YearOf(t) = y /\ MonthOf(t) = m <=> Start(y, m) <= t /\ t < Start(y, m + 1)
<1> PICK M \in Nat \ {0} : M = MonthsInYear
  BY CalendarAssumption
<1> PICK S \in Nat \ {0} : S = Span
  BY Spans
<1> PICK q \in Int : q = t \div S
  OBVIOUS
<1>1. q * S <= t /\ t < (q + 1) * S
  BY Quotient
<1>2. MonthOf(t) = q % M /\ MonthOf(t) \in Month
  BY DEF MonthOf, Month, Span
<1>3. YearOf(t) = q \div M
  <2> PICK z \in Int : z = q \div M
    OBVIOUS
  <2>1. z * M <= q /\ q < (z + 1) * M
    BY Quotient
  <2>2. z * M <= q /\ q + 1 <= (z + 1) * M + 0
    BY <2>1
  <2>3. (z * M) * S <= q * S /\ (q + 1) * S <= ((z + 1) * M) * S
    BY <2>2, Times
  <2>4. Start(z, 0) = (z * M) * S /\ Start(z, MonthsInYear) = ((z + 1) * M) * S
    BY StartOfYear
  <2>5. Start(z, 0) <= t /\ t < Start(z, MonthsInYear)
    <3> PICK a \in Int : a = q * S
      OBVIOUS
    <3> PICK b \in Int : b = (q + 1) * S
      OBVIOUS
    <3> PICK c \in Int : c = (z * M) * S
      OBVIOUS
    <3> PICK d \in Int : d = ((z + 1) * M) * S
      OBVIOUS
    <3>1. a <= t /\ t < b /\ c <= a /\ b <= d
      BY <1>1, <2>3
    <3> QED
      BY <2>4, <3>1
  <2> QED
    BY <2>5, YearIs
<1> PICK d \in Int : d = q \div M
  OBVIOUS
<1> PICK r \in 0..(M - 1) : r = q % M /\ q = d * M + r
  BY Remainder
<1>5. YearOf(t) = y /\ MonthOf(t) = m <=> q = y * M + m
  <2>1. YearOf(t) = y /\ MonthOf(t) = m => q = y * M + m
    BY <1>2, <1>3
  <2>2. ASSUME q = y * M + m PROVE YearOf(t) = y /\ MonthOf(t) = m
    <3>1. m \in 0..(M - 1)
      BY DEF Month
    <3>2. (y * M + m) \div M = y /\ (y * M + m) % M = m
      BY <3>1, Digits
    <3> QED
      BY <1>2, <1>3, <2>2, <3>2
  <2> QED
    BY <2>1, <2>2
<1>6. q = y * M + m <=> (y * M + m) * S <= t /\ t < (y * M + m + 1) * S
  <2> PICK k \in Int : k = y * M + m
    BY DEF Month
  <2> QED
    BY Quotient
<1>7. Start(y, m) = (y * M + m) * S /\ Start(y, m + 1) = (y * M + m + 1) * S
  <2>1. m \in Int /\ m + 1 \in Int
    BY DEF Month
  <2>2. Start(y, m + 1) = (y * M + (m + 1)) * S /\ y * M + (m + 1) = y * M + m + 1
    BY <2>1, StartIs
  <2> QED
    BY <2>1, <2>2, StartIs
<1> QED
  BY <1>2, <1>5, <1>6, <1>7

-----------------------------------------------------------------------------
(* The report *)

TableType ==
    /\ payment \in [Payment -> [status: Status \cup {"absent"}, createdAt: Int]]
    /\ now \in Int

\* The month of a payment.
MonthKey == [p \in Payment |-> MonthOf(payment[p].createdAt)]

\* The equation of the sum of the months.
IsMonthlySum(g, f, S) ==
    g = [s \in SUBSET S |-> IF s = {} THEN 0 ELSE Monthly(f, Taken(s)) + g[s \ {Taken(s)}]]

\* Payments are finitely many, and their sum counts units.
LEMMA SumIs ==
    ASSUME NEW S \in SUBSET Payment
    PROVE  IsFiniteSet(S) /\ Sum(S) = Size(Amount, S) /\ Sum(S) \in Nat
<1>1. IsFiniteSet(S) /\ Amount \in [Payment -> Nat]
  BY CalendarAssumption, FS_Subset
<1>2. Sum(S) = Size(Amount, S)
  BY <1>1, SumIsSize DEF Sum
<1> QED
  BY <1>1, <1>2, UnitsAreFinite

\* A part of some payments is about no more than they are.
LEMMA SumOfPart ==
    ASSUME NEW S \in SUBSET Payment, NEW T \in SUBSET S
    PROVE  Sum(T) <= Sum(S)
<1>1. IsFiniteSet(S) /\ Amount \in [Payment -> Nat] /\ T \in SUBSET Payment
  BY CalendarAssumption, FS_Subset
<1> QED
  BY <1>1, SizeOfPart, SumIs

\* What two sets of payments that are apart are about adds up.
LEMMA SumOfUnion ==
    ASSUME NEW S \in SUBSET Payment, NEW T \in SUBSET Payment, S \cap T = {}
    PROVE  Sum(S \cup T) = Sum(S) + Sum(T)
<1>1. IsFiniteSet(S) /\ IsFiniteSet(T) /\ Amount \in [Payment -> Nat]
  BY CalendarAssumption, FS_Subset
<1> QED
  BY <1>1, SizeOfUnion, SumIs

\* The months are finitely many numbers.
LEMMA MonthsAreFinite ==
    IsFiniteSet(Month) /\ Month \subseteq Int /\ \A S \in SUBSET Month : IsFiniteSet(S)
<1>1. 0 \in Int /\ MonthsInYear - 1 \in Int
  BY CalendarAssumption
<1>2. IsFiniteSet(0..MonthsInYear - 1)
  BY <1>1, FS_Interval
<1>3. IsFiniteSet(Month) /\ Month \subseteq Int
  BY <1>2 DEF Month
<1> QED
  BY <1>3, FS_Subset

\* Every instant is of a month and of a year.
LEMMA InstantType ==
    ASSUME NEW t \in Int PROVE MonthOf(t) \in Month /\ YearOf(t) \in Int
<1>1. 0 \in Month /\ 0 \in Int
  BY CalendarAssumption DEF Month
<1> QED
  BY <1>1, MonthIs, YearIs

\* The members of C whose key is in s.
WithKey(C, key, s) == {p \in C : key[p] \in s}

\* Sums by key of what is in C add up to the sum of C: the units of the keys of s
\* solve the equation of the fold.
LEMMA SumByKey ==
    ASSUME NEW C \in SUBSET Payment, NEW key \in [Payment -> Month], NEW S \in SUBSET Month,
           NEW F, F = [k \in Month |-> Size(Amount, WithKey(C, key, {k}))]
    PROVE  Size(F, S) = Size(Amount, WithKey(C, key, S))
<1> IsFiniteSet(C) /\ IsFiniteSet(S) /\ Amount \in [Payment -> Nat]
  BY SumIs, MonthsAreFinite, CalendarAssumption
<1> F \in [Month -> Nat]
  <2> SUFFICES ASSUME NEW k \in Month PROVE Size(Amount, WithKey(C, key, {k})) \in Nat
    OBVIOUS
  <2>1. WithKey(C, key, {k}) \in SUBSET Payment
    BY DEF WithKey
  <2> QED
    BY <2>1, SumIs
<1> DEFINE g == [s \in SUBSET S |-> Size(Amount, WithKey(C, key, s))]
<1>1. ASSUME NEW s \in SUBSET S, s # {}
      PROVE  Size(Amount, WithKey(C, key, s)) = F[Taken(s)] + g[s \ {Taken(s)}]
  <2> PICK k : k = Taken(s)
    OBVIOUS
  <2>1. k \in s /\ k \in Month
    BY <1>1 DEF Taken
  <2> DEFINE A == WithKey(C, key, {k})
             B == WithKey(C, key, s \ {k})
  <2>2. IsFiniteSet(A) /\ IsFiniteSet(B) /\ A \in SUBSET Payment /\ B \in SUBSET Payment
    BY FS_Subset DEF WithKey
  <2>3. A \cap B = {} /\ A \cup B = WithKey(C, key, s)
    BY <2>1 DEF WithKey
  <2>5. F[k] = Size(Amount, A) /\ g[s \ {k}] = Size(Amount, B)
    BY <2>1
  <2> HIDE DEF A, B, g
  <2>4. Size(Amount, A \cup B) = Size(Amount, A) + Size(Amount, B)
    BY <2>2, <2>3, SizeOfUnion
  <2> QED
    BY <2>3, <2>4, <2>5
<1>2. Size(Amount, WithKey(C, key, {})) = 0
  <2>1. WithKey(C, key, {}) = {}
    BY DEF WithKey
  <2> QED
    BY <2>1, SizeOfNone
<1>3. \A s \in SUBSET S :
        Size(Amount, WithKey(C, key, s)) = IF s = {} THEN 0 ELSE F[Taken(s)] + g[s \ {Taken(s)}]
  BY <1>1, <1>2
<1>4. IsSum(g, F, S)
  BY <1>3 DEF IsSum
<1> DEFINE h == [s \in SUBSET S |-> Size(F, s)]
<1>5. IsSum(h, F, S)
  BY UnitsSolve
<1>6. g[S] = Size(Amount, WithKey(C, key, S)) /\ h[S] = Size(F, S)
  OBVIOUS
<1> HIDE DEF g, h
<1>7. g[S] = h[S]
  BY <1>4, <1>5, SolutionIsOne
<1> QED
  BY <1>6, <1>7

\* The months' sums add up to the sum of the payments of those months.
LEMMA MonthsAddUp ==
    ASSUME TableType, NEW f, NEW S \in SUBSET Month
    PROVE  /\ \A m \in Month : Monthly(f, m) \in Nat
           /\ MapThenSumSet(LAMBDA m : Monthly(f, m), S)
                 = Sum({p \in Completed(f) : MonthOf(payment[p].createdAt) \in S})
           /\ Size([m \in Month |-> Monthly(f, m)], S)
                 = Sum({p \in Completed(f) : MonthOf(payment[p].createdAt) \in S})
<1> DEFINE F == [m \in Month |-> Monthly(f, m)]
<1>1. Completed(f) \in SUBSET Payment
  BY DEF Completed, FindCompletedPayments, Successful
<1>2. MonthKey \in [Payment -> Month]
  BY InstantType DEF MonthKey, TableType
<1>3. \A s : {p \in Completed(f) : MonthOf(payment[p].createdAt) \in s}
             = WithKey(Completed(f), MonthKey, s)
  BY <1>1 DEF WithKey, MonthKey
<1>4. ASSUME NEW m \in Month
      PROVE  /\ F[m] = Size(Amount, WithKey(Completed(f), MonthKey, {m}))
             /\ F[m] = Monthly(f, m) /\ Monthly(f, m) \in Nat
  <2>1. {p \in Completed(f) : MonthOf(payment[p].createdAt) = m}
        = WithKey(Completed(f), MonthKey, {m})
    BY <1>1 DEF WithKey, MonthKey
  <2>2. WithKey(Completed(f), MonthKey, {m}) \in SUBSET Payment
    BY <1>1 DEF WithKey
  <2>3. Monthly(f, m) = Sum(WithKey(Completed(f), MonthKey, {m}))
    BY <2>1 DEF Monthly
  <2> QED
    BY <2>2, <2>3, SumIs
<1>5. F \in [Month -> Nat]
  BY <1>4
<1>6. \A g : IsMonthlySum(g, f, S) <=> IsSum(g, F, S)
  <2>1. \A s \in SUBSET S : s # {} => Monthly(f, Taken(s)) = F[Taken(s)]
    BY DEF Taken
  <2> HIDE DEF F
  <2> QED
    BY <2>1 DEF IsMonthlySum, IsSum
<1> HIDE DEF F
<1>7. MapThenSumSet(LAMBDA m : Monthly(f, m), S) = (CHOOSE g : IsMonthlySum(g, f, S))[S]
  BY DEF MapThenSumSet, MapThenFoldSet, Taken, IsMonthlySum
<1>8. PICK h : IsSum(h, F, S) /\ h[S] = Size(F, S)
  <2> DEFINE h == [s \in SUBSET S |-> Size(F, s)]
  <2>1. IsSum(h, F, S)
    BY <1>5, MonthsAreFinite, UnitsSolve
  <2> QED
    BY <2>1
<1>9. PICK c : c = (CHOOSE g : IsMonthlySum(g, f, S)) /\ IsSum(c, F, S)
  BY <1>6, <1>8
<1>10. c[S] = h[S]
  BY <1>5, <1>8, <1>9, MonthsAreFinite, SolutionIsOne
<1>11. Size(F, S) = Size(Amount, WithKey(Completed(f), MonthKey, S))
  <2> PICK C : C = Completed(f)
    OBVIOUS
  <2> PICK key : key = MonthKey
    OBVIOUS
  <2>1. C \in SUBSET Payment
    BY <1>1
  <2>2. key \in [Payment -> Month]
    BY <1>2
  <2>3. F = [m \in Month |-> Size(Amount, WithKey(C, key, {m}))]
    BY <1>4, <1>5
  <2>4. Size(F, S) = Size(Amount, WithKey(C, key, S))
    BY <2>1, <2>2, <2>3, SumByKey
  <2> QED
    BY <2>4
<1>12. WithKey(Completed(f), MonthKey, S) \in SUBSET Payment
  BY <1>1 DEF WithKey
<1> QED
  BY <1>3, <1>4, <1>7, <1>8, <1>9, <1>10, <1>11, <1>12, SumIs DEF F

\* Years and ends of ranges are numbers.
LEMMA RangeType ==
    ASSUME TableType, NEW f \in Filters
    PROVE  CurrentYear(f) \in Int /\ RangeStart(f) \in Int /\ RangeEnd(f) \in Int
<1>1. /\ f.year \in Int \cup {None} /\ f.startDate \in Int \cup {None}
      /\ f.endDate \in Int \cup {None}
  BY FiltersAssumption
<1>2. CurrentYear(f) \in Int
  BY <1>1, InstantType DEF CurrentYear, TableType
<1>3. \A m \in Month : Start(CurrentYear(f), m) \in Int /\ EndOfMonth(CurrentYear(f), m) \in Int
  <2> SUFFICES ASSUME NEW m \in Month
               PROVE  Start(CurrentYear(f), m) \in Int /\ Start(CurrentYear(f), m + 1) \in Int
    BY DEF EndOfMonth
  <2>1. m \in Int /\ m + 1 \in Int
    BY MonthsAreFinite
  <2> QED
    BY <1>2, <2>1, StartIs
<1>4. 0 \in Month /\ MonthsInYear - 1 \in Month
  BY CalendarAssumption DEF Month
<1> QED
  BY <1>1, <1>2, <1>3, <1>4 DEF RangeStart, RangeEnd

\* A full year goes from its first month's start to the next year's.
LEMMA RangeOfYear ==
    ASSUME TableType, NEW f, CurrentYear(f) \in Int, IsFullYear(f)
    PROVE  /\ RangeStart(f) = Start(CurrentYear(f), 0)
           /\ RangeEnd(f) = Start(CurrentYear(f), MonthsInYear) - 1
           /\ Start(CurrentYear(f), 0) \in Int /\ Start(CurrentYear(f), MonthsInYear) \in Int
<1>1. MonthsInYear - 1 + 1 = MonthsInYear /\ MonthsInYear \in Int
  BY CalendarAssumption
<1>2. RangeStart(f) = Start(CurrentYear(f), 0) /\ RangeEnd(f) = Start(CurrentYear(f), MonthsInYear) - 1
  BY <1>1 DEF RangeStart, RangeEnd, IsFullYear, EndOfMonth
<1> QED
  BY <1>1, <1>2, StartIs

\* A full year has the successful payments of its instants and of the method asked for.
LEMMA CompletedOfYear ==
    ASSUME TableType, NEW f, CurrentYear(f) \in Int, IsFullYear(f)
    PROVE  Completed(f) = OfMethod({p \in Successful :
                              YearOf(payment[p].createdAt) = CurrentYear(f)}, f)
<1> PICK y \in Int : y = CurrentYear(f)
  OBVIOUS
<1>1. RangeStart(f) = Start(y, 0) /\ RangeEnd(f) = Start(y, MonthsInYear) - 1
      /\ Start(y, 0) \in Int /\ Start(y, MonthsInYear) \in Int
  BY RangeOfYear
<1>2. \A p \in Successful :
         YearOf(payment[p].createdAt) = y
         <=> RangeStart(f) <= payment[p].createdAt /\ payment[p].createdAt <= RangeEnd(f)
  <2> TAKE p \in Successful
  <2> PICK t \in Int : t = payment[p].createdAt
    BY DEF Successful, TableType
  <2>1. YearOf(t) = y <=> Start(y, 0) <= t /\ t < Start(y, MonthsInYear)
    BY YearIs
  <2> QED
    BY <1>1, <2>1
<1>3. Completed(f) = {p \in Successful :
                        /\ RangeStart(f) <= payment[p].createdAt
                        /\ payment[p].createdAt <= RangeEnd(f)
                        /\ f.method \in {None, MethodOf[p]}}
  BY DEF Completed, FindCompletedPayments
<1> QED
  BY <1>2, <1>3 DEF OfMethod

\* The report of a full year is complete and adds up in every state with a table of
\* payments (getMonthlyRevenue, lines 543-549, 584-606, 636-648).
LEMMA FullYear == TableType => FullYearSums
<1> SUFFICES ASSUME TableType, NEW f \in Answered, IsFullYear(f)
             PROVE  /\ \A m \in Month : Monthly(f, m) = Sum(OfMethod(In(CurrentYear(f), m), f))
                    /\ TotalRevenue(f) = Sum(Completed(f))
                    /\ TotalPayments(f) =
                         Cardinality(OfMethod(UNION {In(CurrentYear(f), m) : m \in Month}, f))
  BY DEF FullYearSums
<1> PICK y \in Int : y = CurrentYear(f)
  BY RangeType DEF Answered
<1>1. Completed(f) = OfMethod({p \in Successful : YearOf(payment[p].createdAt) = y}, f)
  BY CompletedOfYear
<1>2. \A p \in Completed(f) : MonthOf(payment[p].createdAt) \in Month
  BY <1>1, InstantType DEF OfMethod, Successful, TableType
<1>3. \A m \in Month : Monthly(f, m) = Sum(OfMethod(In(y, m), f))
  <2> TAKE m \in Month
  <2>1. {p \in Completed(f) : MonthOf(payment[p].createdAt) = m} = OfMethod(In(y, m), f)
    BY <1>1 DEF OfMethod, In
  <2> QED
    BY <2>1 DEF Monthly
<1>4. TotalRevenue(f) = Sum(Completed(f))
  <2>1. Shown(f) = Month
    BY DEF Shown
  <2>2. TotalRevenue(f) = MapThenSumSet(LAMBDA m : Monthly(f, m), Month)
    BY <2>1 DEF TotalRevenue
  <2>3. {p \in Completed(f) : MonthOf(payment[p].createdAt) \in Month} = Completed(f)
    BY <1>2
  <2> QED
    BY <2>2, <2>3, MonthsAddUp
<1>5. Completed(f) = OfMethod(UNION {In(y, m) : m \in Month}, f)
  BY <1>1, <1>2 DEF OfMethod, In
<1> QED
  BY <1>3, <1>4, <1>5 DEF TotalPayments

\* A month shares an instant with the range exactly when one of the three cases of
\* the filter holds (lines 620-633).
LEMMA OverlapsIs ==
    ASSUME NEW first \in Int, NEW last \in Int, NEW start \in Int, NEW end \in Int,
           first <= last, start <= end
    PROVE  Overlaps(first, last, start, end)
           <=> \E t \in Int : first <= t /\ t <= last /\ start <= t /\ t <= end
BY DEF Overlaps

\* What a range inside one year adds up to is what its shown months have (lines
\* 608-636).
LEMMA RangeInYear == TableType => RangeInYearSums
<1> SUFFICES ASSUME TableType, NEW f \in Answered,
                    YearOf(RangeStart(f)) = CurrentYear(f), YearOf(RangeEnd(f)) = CurrentYear(f)
             PROVE  /\ TotalRevenue(f) = Sum(Completed(f))
                    /\ \A p \in Completed(f) : MonthOf(payment[p].createdAt) \in Shown(f)
                    /\ \A m \in Month \ Shown(f) : Monthly(f, m) = 0
  BY DEF RangeInYearSums
<1> PICK y \in Int : y = CurrentYear(f)
  BY RangeType DEF Answered
<1> PICK start \in Int : start = RangeStart(f)
  BY RangeType DEF Answered
<1> PICK end \in Int : end = RangeEnd(f)
  BY RangeType DEF Answered
<1>1. start <= end
  BY DEF Answered, Rejected
<1>2. \A p \in Completed(f) : MonthOf(payment[p].createdAt) \in Shown(f)
  <2> TAKE p \in Completed(f)
  <2> PICK t \in Int : t = payment[p].createdAt /\ start <= t /\ t <= end
    BY DEF Completed, FindCompletedPayments, Successful, TableType
  <2> PICK first \in Int : first = Start(y, 0)
    BY StartIs
  <2> PICK last \in Int : last = Start(y, MonthsInYear)
    BY StartOfYear
  <2>1. first <= start /\ end < last
    BY YearIs
  <2>2. YearOf(t) = y
    BY <2>1, YearIs
  <2> PICK m \in Month : m = MonthOf(t)
    BY InstantType
  <2> PICK a \in Int : a = Start(y, m)
    BY StartIs, MonthsAreFinite
  <2> PICK b \in Int : b = Start(y, m + 1)
    BY StartIs, MonthsAreFinite
  <2>3. a <= t /\ t < b
    BY <2>2, MonthIs
  <2>4. Overlaps(a, b - 1, start, end)
    BY <1>1, <2>3 DEF Overlaps
  <2> QED
    BY <2>4 DEF Shown, EndOfMonth
<1>3. Shown(f) \in SUBSET Month
  BY DEF Shown
<1>4. TotalRevenue(f) = Sum(Completed(f))
  <2>1. {p \in Completed(f) : MonthOf(payment[p].createdAt) \in Shown(f)} = Completed(f)
    BY <1>2
  <2> QED
    BY <1>3, <2>1, MonthsAddUp DEF TotalRevenue
<1>5. ASSUME NEW m \in Month \ Shown(f) PROVE Monthly(f, m) = 0
  <2>1. {p \in Completed(f) : MonthOf(payment[p].createdAt) = m} = {}
    BY <1>2
  <2>2. Sum({}) = 0
    BY SumIs, SizeOfNone
  <2> QED
    BY <2>1, <2>2 DEF Monthly
<1> QED
  BY <1>2, <1>4, <1>5

-----------------------------------------------------------------------------
(* The counts *)

\* Rows that are not there have the shape of Absent; the others were made by now.
RowsAreMade ==
    \A p \in Payment : IF payment[p].status = "absent" THEN payment[p] = Absent
                       ELSE payment[p].createdAt <= now

TableInv == TableType /\ RowsAreMade

\* The rows of the table.
Rows == {p \in Payment : payment[p] # Absent}

\* The cardinality of a set of payments, with one more and with one less.
LEMMA CountsAre ==
    ASSUME NEW S \in SUBSET Payment
    PROVE  /\ IsFiniteSet(S) /\ Cardinality(S) \in Nat
           /\ \A p \in Payment \ S : Cardinality(S \cup {p}) = Cardinality(S) + 1
           /\ \A p \in S : Cardinality(S \ {p}) = Cardinality(S) - 1
<1>1. IsFiniteSet(S)
  BY CalendarAssumption, FS_Subset
<1> QED
  BY <1>1, FS_CardinalityType, FS_AddElement, FS_RemoveElement

\* The table stays well formed, whatever is created or settled.
LEMMA TableStep ==
    ASSUME TableInv, NEW p \in Payment, Create(p) \/ Settle(p)
    PROVE  TableInv' /\ now' = now
<1>1. CASE Create(p)
  <2>1. payment' = [payment EXCEPT ![p] = [status |-> "PENDING", createdAt |-> now]] /\ now' = now
    BY <1>1 DEF Create
  <2>2. TableType'
    BY <2>1 DEF TableInv, TableType, Status
  <2>3. RowsAreMade'
    BY <2>1 DEF TableInv, TableType, RowsAreMade
  <2> QED
    BY <2>1, <2>2, <2>3 DEF TableInv
<1>2. CASE Settle(p)
  <2> PICK s \in {"SUCCESS", "FAILED"} : payment' = [payment EXCEPT ![p].status = s]
    BY <1>2 DEF Settle
  <2>1. payment[p].status # "absent" /\ now' = now
    BY <1>2 DEF Settle, TableInv, RowsAreMade
  <2>2. TableType'
    BY <2>1 DEF TableInv, TableType, Status
  <2>3. \A q \in Payment : q # p => payment'[q] = payment[q]
    BY DEF TableInv, TableType
  <2>4. payment'[p].status = s /\ payment'[p].createdAt = payment[p].createdAt
    BY DEF TableInv, TableType
  <2>5. RowsAreMade'
    BY <2>1, <2>3, <2>4 DEF TableInv, TableType, RowsAreMade
  <2> QED
    BY <2>1, <2>2, <2>5 DEF TableInv
<1> QED
  BY <1>1, <1>2

\* Every query answers with a number.
LEMMA FoundType ==
    ASSUME TableType, NEW q \in Counts \cup Halves
    PROVE  Found(q) \in Nat
<1>1. \A S \in SUBSET Payment : Cardinality(S) \in Nat /\ Sum(S) \in Nat
  BY CountsAre, SumIs
<1>2. /\ Rows \in SUBSET Payment /\ Successful \in SUBSET Payment
      /\ \A status : Of(status) \in SUBSET Payment
      /\ \A start, end, method : FindCompletedPayments(start, end, method) \in SUBSET Payment
      /\ \A t : {p \in Successful : payment[p].createdAt >= t} \in SUBSET Payment
  BY DEF Rows, Successful, Of, FindCompletedPayments
<1>3. q \in {"total", "pending", "success", "failed", "revenue", "thisMonth", "lastMonth"}
  BY DEF Counts, Halves
<1> QED
  BY <1>1, <1>2, <1>3 DEF Found, Rows

\* Every row is counted once.
LEMMA RowsAreCounted ==
    ASSUME TableInv
    PROVE  Found("total") = Found("pending") + Found("success") + Found("failed")
<1> DEFINE P == Of("PENDING")
           S == Of("SUCCESS")
           F == Of("FAILED")
<1>1. Rows = (P \cup S) \cup F
  BY DEF Rows, Of, TableInv, TableType, RowsAreMade, Absent, Status
<1>2. P \cap S = {} /\ (P \cup S) \cap F = {}
  BY DEF Of
<1>3. P \in SUBSET Payment /\ S \in SUBSET Payment /\ F \in SUBSET Payment
      /\ P \cup S \in SUBSET Payment
  BY DEF Of
<1>4. Found("total") = Cardinality(Rows) /\ Found("pending") = Cardinality(P)
      /\ Found("success") = Cardinality(S) /\ Found("failed") = Cardinality(F)
  BY DEF Found, Rows
<1> HIDE DEF P, S, F
<1>5. \A A, B \in SUBSET Payment : A \cap B = {} => Cardinality(A \cup B) = Cardinality(A) + Cardinality(B)
  <2> SUFFICES ASSUME NEW A \in SUBSET Payment, NEW B \in SUBSET Payment, A \cap B = {}
               PROVE  Cardinality(A \cup B) = Cardinality(A) + Cardinality(B)
    OBVIOUS
  <2>1. IsFiniteSet(A) /\ IsFiniteSet(B) /\ Cardinality(A) \in Nat /\ Cardinality(B) \in Nat
    BY CountsAre
  <2>2. Cardinality(A \cup B) = Cardinality(A) + Cardinality(B) - Cardinality({})
    BY <2>1, FS_Union
  <2> QED
    BY <2>1, <2>2, FS_EmptySet
<1>6. Cardinality(Rows) = Cardinality(P \cup S) + Cardinality(F)
  BY <1>1, <1>2, <1>3, <1>5
<1>7. Cardinality(P \cup S) = Cardinality(P) + Cardinality(S)
  BY <1>2, <1>3, <1>5
<1> QED
  BY <1>4, <1>6, <1>7

\* A creation adds a row, a pending one.
LEMMA CreateCounts ==
    ASSUME TableInv, NEW p \in Payment, Create(p)
    PROVE  /\ Found("total")' = Found("total") + 1 /\ Found("pending")' = Found("pending") + 1
           /\ Found("success")' = Found("success") /\ Found("failed")' = Found("failed")
<1>1. payment' = [payment EXCEPT ![p] = [status |-> "PENDING", createdAt |-> now]]
      /\ payment[p] = Absent
  BY DEF Create
<1>2. /\ \A q \in Payment : q # p => payment'[q] = payment[q]
      /\ payment'[p].status = "PENDING" /\ payment[p].status = "absent"
      /\ payment'[p] # Absent
  BY <1>1 DEF TableInv, TableType, Absent
<1>3. /\ Rows' = Rows \cup {p} /\ p \notin Rows
      /\ Of("PENDING")' = Of("PENDING") \cup {p} /\ p \notin Of("PENDING")
      /\ Of("SUCCESS")' = Of("SUCCESS") /\ Of("FAILED")' = Of("FAILED")
  BY <1>1, <1>2 DEF Rows, Of
<1>4. Rows \in SUBSET Payment /\ Of("PENDING") \in SUBSET Payment
  BY DEF Rows, Of
<1>5. Cardinality(Rows \cup {p}) = Cardinality(Rows) + 1
      /\ Cardinality(Of("PENDING") \cup {p}) = Cardinality(Of("PENDING")) + 1
  BY <1>3, <1>4, CountsAre
<1> QED
  BY <1>3, <1>5 DEF Found, Rows

\* The query that counts a status.
Count(status) ==
    IF status = "PENDING" THEN "pending" ELSE IF status = "SUCCESS" THEN "success" ELSE "failed"

\* A settlement moves a row from one count to another.
LEMMA SettleCounts ==
    ASSUME TableInv, NEW p \in Payment, Settle(p)
    PROVE  \E from, to \in Status :
              /\ from # to
              /\ Found(Count(from))' = Found(Count(from)) - 1
              /\ Found(Count(to))' = Found(Count(to)) + 1
              /\ \A s \in Status \ {from, to} : Found(Count(s))' = Found(Count(s))
              /\ Found("total")' = Found("total")
<1> PICK to \in {"SUCCESS", "FAILED"} :
        payment' = [payment EXCEPT ![p].status = to] /\ to # payment[p].status
  BY DEF Settle
<1> PICK from \in Status : from = payment[p].status
  BY DEF Settle, TableInv, TableType, RowsAreMade
<1>1. /\ \A q \in Payment : q # p => payment'[q] = payment[q]
      /\ payment'[p].status = to
  BY DEF TableInv, TableType
<1>2. payment[p] # Absent /\ payment'[p] # Absent
  BY <1>1 DEF Settle, Absent
<1>3. \A s \in Status : Found(Count(s)) = Cardinality(Of(s)) /\ Found(Count(s))' = Cardinality(Of(s)')
  BY DEF Found, Count, Status
<1>4. /\ Of(from)' = Of(from) \ {p} /\ p \in Of(from)
      /\ Of(to)' = Of(to) \cup {p} /\ p \notin Of(to)
      /\ \A s \in Status \ {from, to} : Of(s)' = Of(s)
      /\ Rows' = Rows
  BY <1>1, <1>2 DEF Of, Rows
<1>5. Of(from) \in SUBSET Payment /\ Of(to) \in SUBSET Payment
  BY DEF Of
<1>6. Cardinality(Of(from)') = Cardinality(Of(from)) - 1
      /\ Cardinality(Of(to)') = Cardinality(Of(to)) + 1
  BY <1>4, <1>5, CountsAre
<1>7. Found("total")' = Found("total")
  BY <1>4 DEF Found, Rows
<1>8. to \in Status /\ from # to
  BY DEF Status
<1>9. Found(Count(from))' = Found(Count(from)) - 1 /\ Found(Count(to))' = Found(Count(to)) + 1
  BY <1>3, <1>6, <1>8
<1>10. \A s \in Status \ {from, to} : Found(Count(s))' = Found(Count(s))
  BY <1>3, <1>4
<1> QED
  BY <1>7, <1>8, <1>9, <1>10

-----------------------------------------------------------------------------
(* The inductive invariant *)

DashType ==
    /\ TableInv /\ changes \in Nat
    /\ dash \in [phase: Phase, year: Int, pending: SUBSET (Counts \cup Halves), at: Int,
                 got: [Counts \cup Halves -> Nat], monthly: [Month -> Nat]]

\* The queries under way are those of the phase.
PendingOfPhase ==
    /\ dash.phase = "counting" => dash.pending \subseteq Counts
    /\ dash.phase = "comparing" => dash.pending \subseteq Halves
    /\ dash.phase \notin {"counting", "comparing"} => dash.pending = {}

\* A query that has not answered would give what it finds now.
Cur(q) == IF q \in dash.pending THEN Found(q) ELSE dash.got[q]

CurrentDrift == Cur("total") - (Cur("pending") + Cur("success") + Cur("failed"))

\* Each change moves the counts, answered or not, one apart or none.
DriftInv == dash.phase # "idle" => CurrentDrift <= changes /\ -CurrentDrift <= changes

\* While nothing changes, what was found is what would be found now.
SnapshotInv ==
    dash.phase # "idle" /\ changes = 0 =>
        /\ \A q \in Counts : q \in dash.pending \/ dash.got[q] = Found(q)
        /\ dash.phase \in {"comparing", "done"} =>
              /\ \A q \in Halves : q \in dash.pending \/ dash.got[q] = Found(q)
              /\ dash.monthly = [m \in Month |-> Monthly(ReportOf(dash.year), m)]
              /\ \A p \in Payment : payment[p].status # "absent" => payment[p].createdAt <= dash.at

DashInv == DashType /\ PendingOfPhase /\ DriftInv /\ SnapshotInv

Tally == {"total", "pending", "success", "failed"}

\* So does every query that has answered.
LEMMA CurType ==
    ASSUME DashType, NEW q \in Counts
    PROVE  Cur(q) \in Nat
<1>1. Found(q) \in Nat /\ dash.got[q] \in Nat
  BY FoundType DEF DashType, TableInv
<1> QED
  BY <1>1 DEF Cur

\* A change of the table moves the counts one apart, or none.
LEMMA OneApart ==
    ASSUME DashType, NEW p \in Payment, Create(p) \/ Settle(p), UNCHANGED dash
    PROVE  CurrentDrift \in Int /\ \E d \in {-1, 0, 1} : CurrentDrift' = CurrentDrift + d
<1>1. TableInv /\ Tally \subseteq Counts
  BY DEF DashType, Tally, Counts
<1>2. \A q \in Tally : Cur(q) \in Nat /\ Found(q) \in Nat
  BY <1>1, CurType, FoundType DEF TableInv
<1>3. \A q \in Tally : /\ Found(q)' = Found(q) => Cur(q)' = Cur(q)
                       /\ Found(q)' = Found(q) + 1 => Cur(q)' \in {Cur(q), Cur(q) + 1}
                       /\ Found(q)' = Found(q) - 1 => Cur(q)' \in {Cur(q), Cur(q) - 1}
  BY DEF Cur
<1>4. CurrentDrift = Cur("total") - (Cur("pending") + Cur("success") + Cur("failed"))
      /\ CurrentDrift' = Cur("total")' - (Cur("pending")' + Cur("success")' + Cur("failed")')
  BY DEF CurrentDrift
<1>5. Tally = {"total", "pending", "success", "failed"}
  BY DEF Tally
<1> PICK t \in Nat : t = Cur("total")
  BY <1>2, <1>5
<1> PICK a \in Nat : a = Cur("pending")
  BY <1>2, <1>5
<1> PICK b \in Nat : b = Cur("success")
  BY <1>2, <1>5
<1> PICK c \in Nat : c = Cur("failed")
  BY <1>2, <1>5
<1>6. CASE Create(p)
  <2>1. Cur("total")' \in {t, t + 1} /\ Cur("pending")' \in {a, a + 1}
        /\ Cur("success")' = b /\ Cur("failed")' = c
    BY <1>1, <1>3, <1>5, <1>6, CreateCounts
  <2> QED
    BY <1>4, <2>1
<1>7. CASE Settle(p)
  <2> PICK from, to \in Status :
         /\ from # to
         /\ Found(Count(from))' = Found(Count(from)) - 1
         /\ Found(Count(to))' = Found(Count(to)) + 1
         /\ \A s \in Status \ {from, to} : Found(Count(s))' = Found(Count(s))
         /\ Found("total")' = Found("total")
    BY <1>1, <1>7, SettleCounts
  <2>1. \A s \in Status : Count(s) \in Tally
    BY DEF Count, Status, Tally
  <2>2. /\ Cur("total")' = t
        /\ Cur(Count(from))' \in {Cur(Count(from)), Cur(Count(from)) - 1}
        /\ Cur(Count(to))' \in {Cur(Count(to)), Cur(Count(to)) + 1}
        /\ \A s \in Status \ {from, to} : Cur(Count(s))' = Cur(Count(s))
    BY <1>3, <1>5, <2>1
  <2>3. Status = {"PENDING", "SUCCESS", "FAILED"} /\ Count("PENDING") = "pending"
        /\ Count("SUCCESS") = "success" /\ Count("FAILED") = "failed"
    BY DEF Status, Count
  <2>4. /\ a + b + c - 1 <= Cur("pending")' + Cur("success")' + Cur("failed")'
        /\ Cur("pending")' + Cur("success")' + Cur("failed")' <= a + b + c + 1
        /\ Cur("pending")' + Cur("success")' + Cur("failed")' \in Int
    BY <2>2, <2>3
  <2> PICK n \in Int : n = Cur("pending")' + Cur("success")' + Cur("failed")'
    BY <2>4
  <2> PICK r \in Nat : r = a + b + c
    OBVIOUS
  <2>5. CurrentDrift = t - r /\ CurrentDrift' = t - n
    BY <1>4, <2>2
  <2>6. r - 1 <= n /\ n <= r + 1
    BY <2>4
  <2> PICK d \in Int : d = r - n
    OBVIOUS
  <2>7. d \in {-1, 0, 1} /\ t - n = (t - r) + d
    BY <2>6
  <2> QED
    BY <2>5, <2>7
<1> QED
  BY <1>4, <1>6, <1>7

-----------------------------------------------------------------------------
(* The initial state and the steps *)

\* The first state: an empty table, and no dashboard asked for.
LEMMA StatesAndTimes ==
    /\ TableInit => TableInv
    /\ Idle \in [phase: Phase, year: Int, pending: SUBSET (Counts \cup Halves), at: Int,
                 got: [Counts \cup Halves -> Nat], monthly: [Month -> Nat]]
<1>1. Start(MinYear, 0) \in Int
  BY StartIs, CalendarAssumption
<1>2. TableInit => TableInv
  BY <1>1 DEF TableInit, TableInv, TableType, RowsAreMade, Absent
<1>3. MinYear \in Int
  BY CalendarAssumption
<1> QED
  BY <1>2, <1>3 DEF Idle, Phase

\* The invariant holds at the start.
LEMMA DashInitial == DashInit => DashInv
<1> SUFFICES ASSUME DashInit PROVE DashInv
  OBVIOUS
<1>1. TableInv /\ dash = Idle /\ changes = 0
  BY StatesAndTimes DEF DashInit
<1>2. DashType
  BY <1>1, StatesAndTimes DEF DashType
<1>3. dash.phase = "idle" /\ dash.pending = {}
  BY <1>1 DEF Idle
<1> QED
  BY <1>2, <1>3 DEF DashInv, PendingOfPhase, DriftInv, SnapshotInv

\* Of the clock, too, the table is of the past.
LEMMA TickStep ==
    ASSUME TableInv, Tick
    PROVE  TableInv' /\ UNCHANGED payment
BY DEF TableInv, TableType, RowsAreMade, Tick, Absent

\* The table of the next state is well formed.
LEMMA TableIsKept ==
    ASSUME DashInv, [DashNext]_dashVars
    PROVE  TableInv'
<1>1. TableInv
  BY DEF DashInv, DashType
<1>2. ASSUME UNCHANGED <<payment, now>> PROVE TableInv'
  BY <1>1, <1>2 DEF TableInv, TableType, RowsAreMade
<1>3. ASSUME NEW year \in Years, Ask(year) PROVE TableInv'
  BY <1>2, <1>3 DEF Ask
<1>4. ASSUME NEW q \in Counts \cup Halves, Query(q) PROVE TableInv'
  BY <1>2, <1>4 DEF Query
<1>5. ASSUME Report PROVE TableInv'
  BY <1>2, <1>5 DEF Report
<1>6. ASSUME NEW p \in Payment, CreatePayment(p) \/ UpdateStatus(p) PROVE TableInv'
  BY <1>1, <1>6, TableStep DEF CreatePayment, UpdateStatus
<1>7. ASSUME Tick PROVE TableInv'
  BY <1>1, <1>7, TickStep
<1>8. ASSUME UNCHANGED dashVars PROVE TableInv'
  BY <1>2, <1>8 DEF dashVars
<1> QED
  BY <1>3, <1>4, <1>5, <1>6, <1>7, <1>8 DEF DashNext

\* Every step keeps the shape of the dashboard.
LEMMA ShapeIsKept ==
    ASSUME DashInv, [DashNext]_dashVars
    PROVE  DashType' /\ PendingOfPhase'
<1>1. DashType /\ PendingOfPhase /\ TableType /\ TableInv'
  BY TableIsKept DEF DashInv, DashType, TableInv
<1>2. ASSUME UNCHANGED dash, changes' \in Nat PROVE DashType' /\ PendingOfPhase'
  BY <1>1, <1>2 DEF DashType, PendingOfPhase
<1>3. ASSUME NEW year \in Years, Ask(year) PROVE DashType' /\ PendingOfPhase'
  <2> PICK y : y = IF year = None THEN YearOf(now) ELSE year
    OBVIOUS
  <2>1. y \in Int
    BY <1>1, DashboardAssumption, InstantType DEF TableType
  <2>2. dash' = [Idle EXCEPT !.phase = "counting", !.pending = Counts, !.year = y] /\ changes' = 0
    BY <1>3 DEF Ask
  <2>3. dash' \in [phase: Phase, year: Int, pending: SUBSET (Counts \cup Halves), at: Int,
                   got: [Counts \cup Halves -> Nat], monthly: [Month -> Nat]]
    BY <2>1, <2>2, StatesAndTimes DEF Phase
  <2>4. dash'.phase = "counting" /\ dash'.pending = Counts
    BY <2>2 DEF Idle
  <2> QED
    BY <1>1, <2>2, <2>3, <2>4 DEF DashType, PendingOfPhase
<1>4. ASSUME NEW q \in Counts \cup Halves, Query(q) PROVE DashType' /\ PendingOfPhase'
  <2> PICK n \in Nat : n = Found(q)
    BY <1>1, FoundType
  <2> PICK ph : ph = IF dash.pending # {q} THEN dash.phase
                     ELSE IF dash.phase = "counting" THEN "reporting" ELSE "done"
    OBVIOUS
  <2>1. dash' = [dash EXCEPT !.got[q] = n, !.pending = dash.pending \ {q}, !.phase = ph]
        /\ changes' = changes /\ q \in dash.pending
    BY <1>4 DEF Query
  <2>2. ph \in Phase
    BY <1>1 DEF DashType, Phase
  <2>3. [dash.got EXCEPT ![q] = n] \in [Counts \cup Halves -> Nat]
    BY <1>1 DEF DashType
  <2>4. dash' \in [phase: Phase, year: Int, pending: SUBSET (Counts \cup Halves), at: Int,
                   got: [Counts \cup Halves -> Nat], monthly: [Month -> Nat]]
    BY <1>1, <2>1, <2>2, <2>3 DEF DashType
  <2>5. dash'.phase = ph /\ dash'.pending = dash.pending \ {q}
    BY <1>1, <2>1 DEF DashType
  <2>6. dash.phase \in {"counting", "comparing"}
    BY <1>1, <2>1 DEF PendingOfPhase
  <2>7. PendingOfPhase'
    BY <1>1, <2>1, <2>5, <2>6 DEF PendingOfPhase
  <2> QED
    BY <1>1, <2>1, <2>4, <2>7 DEF DashType
<1>5. ASSUME Report PROVE DashType' /\ PendingOfPhase'
  <2> DEFINE months == [m \in Month |-> Monthly(ReportOf(dash.year), m)]
  <2>1. months \in [Month -> Nat]
    BY <1>1, MonthsAddUp
  <2> HIDE DEF months
  <2>2. changes' = changes /\ dash.phase = "reporting"
        /\ (dash' = [dash EXCEPT !.phase = "failed"]
            \/ dash' = [dash EXCEPT !.phase = "comparing", !.pending = Halves, !.at = now,
                                    !.monthly = months])
    BY <1>5 DEF Report, months
  <2>3. dash' \in [phase: Phase, year: Int, pending: SUBSET (Counts \cup Halves), at: Int,
                   got: [Counts \cup Halves -> Nat], monthly: [Month -> Nat]]
    BY <1>1, <2>1, <2>2 DEF DashType, Phase, TableType
  <2>4. \/ dash'.phase = "failed" /\ dash'.pending = {}
        \/ dash'.phase = "comparing" /\ dash'.pending = Halves
    BY <1>1, <2>2 DEF DashType, PendingOfPhase
  <2>5. PendingOfPhase'
    BY <2>4 DEF PendingOfPhase
  <2> QED
    BY <1>1, <2>2, <2>3, <2>5 DEF DashType
<1>6. ASSUME NEW p \in Payment, CreatePayment(p) \/ UpdateStatus(p)
      PROVE  DashType' /\ PendingOfPhase'
  <2>1. UNCHANGED dash /\ changes' \in Nat
    BY <1>1, <1>6 DEF CreatePayment, UpdateStatus, Meanwhile, Before, DashType
  <2> QED
    BY <1>2, <2>1
<1>7. ASSUME Tick, UNCHANGED <<dash, changes>> PROVE DashType' /\ PendingOfPhase'
  BY <1>1, <1>2, <1>7 DEF DashType
<1>8. ASSUME UNCHANGED dashVars PROVE DashType' /\ PendingOfPhase'
  BY <1>1, <1>2, <1>8 DEF dashVars, DashType
<1> QED
  BY <1>3, <1>4, <1>5, <1>6, <1>7, <1>8 DEF DashNext

\* What is found depends on the rows, and for the months on the time compared to.
LEMMA SameRowsSameCounts ==
    ASSUME UNCHANGED payment
    PROVE  /\ \A q \in Counts : Found(q)' = Found(q)
           /\ dash'.at = dash.at => \A q \in Halves : Found(q)' = Found(q)
<1>1. /\ Successful' = Successful /\ \A s : Of(s)' = Of(s)
      /\ {p \in Payment : payment'[p] # Absent} = {p \in Payment : payment[p] # Absent}
  BY DEF Successful, Of
<1>2. \A q \in Counts : Found(q)' = Found(q)
  BY <1>1 DEF Found, Counts
<1>3. ASSUME dash'.at = dash.at PROVE \A q \in Halves : Found(q)' = Found(q)
  <2>1. {p \in Successful : payment[p].createdAt >= Start(YearOf(dash.at), MonthOf(dash.at))}'
        = {p \in Successful : payment[p].createdAt >= Start(YearOf(dash.at), MonthOf(dash.at))}
    BY <1>1, <1>3
  <2>2. FindCompletedPayments(StartOfLastMonth(dash.at), EndOfLastMonth(dash.at), None)'
        = FindCompletedPayments(StartOfLastMonth(dash.at), EndOfLastMonth(dash.at), None)
    BY <1>1, <1>3 DEF FindCompletedPayments, StartOfLastMonth, EndOfLastMonth
  <2> QED
    BY <2>1, <2>2 DEF Found, Halves
<1> QED
  BY <1>2, <1>3

\* The drift is a function of the four counts.
LEMMA SameCursSameDrift ==
    ASSUME \A q \in Tally : Cur(q)' = Cur(q)
    PROVE  CurrentDrift' = CurrentDrift
BY DEF Tally, CurrentDrift

\* No step parts the counts further than the changes.
LEMMA DriftIsKept ==
    ASSUME DashInv, [DashNext]_dashVars
    PROVE  DriftInv'
<1>1. DashType /\ PendingOfPhase /\ TableInv /\ DriftInv
  BY DEF DashInv, DashType
<1>2. Tally \subseteq Counts /\ Tally = {"total", "pending", "success", "failed"}
  BY DEF Tally, Counts
<1>3. ASSUME UNCHANGED <<payment, dash, changes>> PROVE DriftInv'
  <2>1. \A q \in Tally : Cur(q)' = Cur(q)
    BY <1>2, <1>3, SameRowsSameCounts DEF Cur
  <2> QED
    BY <1>1, <1>3, <2>1, SameCursSameDrift DEF DriftInv
<1>4. ASSUME NEW year \in Years, Ask(year) PROVE DriftInv'
  <2>1. UNCHANGED payment /\ changes' = 0 /\ dash'.pending = Counts
    BY <1>4 DEF Ask, Idle
  <2>2. \A q \in Tally : Cur(q)' = Found(q) /\ Found(q) \in Nat
    BY <1>1, <1>2, <2>1, SameRowsSameCounts, FoundType DEF Cur, TableInv
  <2>3. Found("total") = Found("pending") + Found("success") + Found("failed")
    BY <1>1, RowsAreCounted
  <2>4. CurrentDrift' = Found("total") - (Found("pending") + Found("success") + Found("failed"))
    BY <1>2, <2>2 DEF CurrentDrift
  <2>5. CurrentDrift' = 0
    BY <1>2, <2>2, <2>3, <2>4
  <2> QED
    BY <2>1, <2>5 DEF DriftInv
<1>5. ASSUME NEW q \in Counts \cup Halves, Query(q) PROVE DriftInv'
  <2>1. /\ UNCHANGED <<payment, changes>> /\ q \in dash.pending
        /\ dash'.pending = dash.pending \ {q}
        /\ dash'.got = [dash.got EXCEPT ![q] = Found(q)]
    BY <1>1, <1>5 DEF Query, DashType
  <2>2. dash.got \in [Counts \cup Halves -> Nat]
    BY <1>1 DEF DashType
  <2>3. \A r \in Tally : Cur(r)' = Cur(r)
    <3> TAKE r \in Tally
    <3>1. Found(r)' = Found(r)
      BY <1>2, <2>1, SameRowsSameCounts
    <3>2. CASE r = q
      BY <2>1, <2>2, <3>2 DEF Cur
    <3>3. CASE r # q
      <4>1. dash'.got[r] = dash.got[r] /\ (r \in dash'.pending <=> r \in dash.pending)
        BY <2>1, <2>2, <3>3
      <4> QED
        BY <3>1, <4>1 DEF Cur
    <3> QED
      BY <3>2, <3>3
  <2>4. dash.phase # "idle"
    BY <1>1, <2>1 DEF PendingOfPhase
  <2> QED
    BY <1>1, <2>1, <2>3, <2>4, SameCursSameDrift DEF DriftInv
<1>6. ASSUME Report PROVE DriftInv'
  <2>1. /\ UNCHANGED <<payment, changes>> /\ dash.phase = "reporting" /\ dash'.got = dash.got
        /\ dash'.pending \in {dash.pending, Halves}
    BY <1>1, <1>6 DEF Report, DashType
  <2>2. dash.pending = {}
    BY <1>1, <2>1 DEF PendingOfPhase
  <2>3. \A q \in Tally : Cur(q)' = Cur(q)
    BY <2>1, <2>2 DEF Cur, Tally, Halves
  <2> QED
    BY <1>1, <2>1, <2>3, SameCursSameDrift DEF DriftInv
<1>7. ASSUME NEW p \in Payment, Create(p) \/ Settle(p), Meanwhile PROVE DriftInv'
  <2>1. (Create(p) \/ Settle(p)) /\ UNCHANGED dash /\ changes' = changes + 1 /\ changes \in Nat
    BY <1>1, <1>7 DEF Meanwhile, DashType
  <2> PICK d \in {-1, 0, 1} : CurrentDrift \in Int /\ CurrentDrift' = CurrentDrift + d
    BY <1>1, <2>1, OneApart
  <2> QED
    BY <1>1, <2>1 DEF DriftInv
<1>8. ASSUME Before PROVE DriftInv'
  BY <1>8 DEF Before, DriftInv
<1>9. ASSUME Tick, UNCHANGED <<dash, changes>> PROVE DriftInv'
  BY <1>3, <1>9 DEF Tick
<1>10. ASSUME UNCHANGED dashVars PROVE DriftInv'
  BY <1>3, <1>10 DEF dashVars
<1> QED
  BY <1>4, <1>5, <1>6, <1>7, <1>8, <1>9, <1>10 DEF DashNext, CreatePayment, UpdateStatus

\* The report of a year that is given is of the rows alone, not of the clock.
LEMMA SameRowsSameReport ==
    ASSUME UNCHANGED payment, dash.year \in Int, dash'.year = dash.year
    PROVE  [m \in Month |-> Monthly(ReportOf(dash.year), m)]'
           = [m \in Month |-> Monthly(ReportOf(dash.year), m)]
<1> PICK y \in Int : y = dash.year
  OBVIOUS
<1> PICK f : f = ReportOf(y)
  OBVIOUS
<1>1. f.year = y /\ f.year # None
  BY CalendarAssumption DEF ReportOf
<1>2. CurrentYear(f)' = CurrentYear(f)
  BY <1>1 DEF CurrentYear
<1>3. RangeStart(f)' = RangeStart(f) /\ RangeEnd(f)' = RangeEnd(f)
  BY <1>2 DEF RangeStart, RangeEnd
<1>4. Successful' = Successful
  BY DEF Successful
<1>5. Completed(f)' = Completed(f)
  BY <1>3, <1>4 DEF Completed, FindCompletedPayments
<1>6. \A m \in Month : Monthly(f, m)' = Monthly(f, m)
  <2> TAKE m \in Month
  <2>1. {p \in Completed(f) : MonthOf(payment[p].createdAt) = m}'
        = {p \in Completed(f) : MonthOf(payment[p].createdAt) = m}
    BY <1>5
  <2> QED
    BY <2>1 DEF Monthly
<1> QED
  BY <1>6

\* Until something changes, what was found stays what would be found.
LEMMA SnapshotIsKept ==
    ASSUME DashInv, [DashNext]_dashVars
    PROVE  SnapshotInv'
<1>1. DashType /\ PendingOfPhase /\ TableInv /\ SnapshotInv /\ dash.year \in Int
  BY DEF DashInv, DashType
<1>2. ASSUME UNCHANGED <<payment, dash, changes>> PROVE SnapshotInv'
  <2>1. \A q \in Counts \cup Halves : Found(q)' = Found(q)
    BY <1>2, SameRowsSameCounts
  <2>2. [m \in Month |-> Monthly(ReportOf(dash.year), m)]'
        = [m \in Month |-> Monthly(ReportOf(dash.year), m)]
    BY <1>1, <1>2, SameRowsSameReport
  <2> QED
    BY <1>1, <1>2, <2>1, <2>2 DEF SnapshotInv
<1>3. ASSUME NEW year \in Years, Ask(year) PROVE SnapshotInv'
  <2>1. dash'.pending = Counts /\ dash'.phase = "counting"
    BY <1>3 DEF Ask, Idle
  <2> QED
    BY <2>1 DEF SnapshotInv
<1>4. ASSUME NEW q \in Counts \cup Halves, Query(q) PROVE SnapshotInv'
  <2>1. /\ UNCHANGED <<payment, changes>> /\ q \in dash.pending
        /\ dash'.pending = dash.pending \ {q}
        /\ dash'.got = [dash.got EXCEPT ![q] = Found(q)]
        /\ dash'.at = dash.at /\ dash'.year = dash.year /\ dash'.monthly = dash.monthly
    BY <1>1, <1>4 DEF Query, DashType
  <2>2. dash'.phase \in {"comparing", "done"} => dash.phase = "comparing"
    BY <1>1, <1>4 DEF Query, DashType, PendingOfPhase
  <2>3. dash.got \in [Counts \cup Halves -> Nat] /\ dash.phase # "idle"
    BY <1>1, <2>1 DEF DashType, PendingOfPhase
  <2>4. \A r \in Counts \cup Halves : Found(r)' = Found(r)
    BY <2>1, SameRowsSameCounts
  <2>5. [m \in Month |-> Monthly(ReportOf(dash.year), m)]'
        = [m \in Month |-> Monthly(ReportOf(dash.year), m)]
    BY <1>1, <2>1, SameRowsSameReport
  <2> SUFFICES ASSUME changes = 0 PROVE SnapshotInv'
    BY <2>1 DEF SnapshotInv
  <2>6. \A r \in Counts \cup Halves :
           (r \in dash.pending \/ dash.got[r] = Found(r))
           => (r \in dash'.pending \/ dash'.got[r] = Found(r)')
    BY <2>1, <2>3, <2>4
  <2>7. \A r \in Counts : r \in dash'.pending \/ dash'.got[r] = Found(r)'
    BY <1>1, <2>3, <2>6 DEF SnapshotInv
  <2>8. ASSUME dash'.phase \in {"comparing", "done"}
        PROVE  /\ \A r \in Halves : r \in dash'.pending \/ dash'.got[r] = Found(r)'
               /\ dash'.monthly = [m \in Month |-> Monthly(ReportOf(dash.year), m)]'
               /\ \A p \in Payment : payment'[p].status # "absent" => payment'[p].createdAt <= dash'.at
    BY <1>1, <2>1, <2>2, <2>3, <2>5, <2>6, <2>8 DEF SnapshotInv
  <2> QED
    BY <2>7, <2>8 DEF SnapshotInv
<1>5. ASSUME Report PROVE SnapshotInv'
  <2>1. /\ UNCHANGED <<payment, now, changes>> /\ dash.phase = "reporting" /\ dash.pending = {}
        /\ dash'.got = dash.got /\ dash'.year = dash.year
    BY <1>1, <1>5 DEF Report, DashType, PendingOfPhase
  <2>2. \A q \in Counts : Found(q)' = Found(q)
    BY <2>1, SameRowsSameCounts
  <2>3. changes' = 0 => \A q \in Counts : dash'.got[q] = Found(q)'
    BY <1>1, <2>1, <2>2 DEF SnapshotInv
  <2>4. ASSUME dash'.phase \in {"comparing", "done"}
        PROVE  /\ dash'.pending = Halves
               /\ dash'.monthly = [m \in Month |-> Monthly(ReportOf(dash.year), m)]
               /\ dash'.at = now
    BY <1>1, <1>5, <2>1, <2>4 DEF Report, DashType
  <2>5. [m \in Month |-> Monthly(ReportOf(dash.year), m)]'
        = [m \in Month |-> Monthly(ReportOf(dash.year), m)]
    BY <1>1, <2>1, SameRowsSameReport
  <2>6. \A p \in Payment : payment'[p].status # "absent" => payment'[p].createdAt <= now
    BY <1>1, <2>1 DEF TableInv, RowsAreMade
  <2> QED
    BY <2>3, <2>4, <2>5, <2>6 DEF SnapshotInv
<1>6. ASSUME Meanwhile PROVE SnapshotInv'
  BY <1>1, <1>6 DEF Meanwhile, SnapshotInv, DashType
<1>7. ASSUME Before PROVE SnapshotInv'
  BY <1>7 DEF Before, SnapshotInv
<1>8. ASSUME Tick, UNCHANGED <<dash, changes>> PROVE SnapshotInv'
  BY <1>2, <1>8 DEF Tick
<1>9. ASSUME UNCHANGED dashVars PROVE SnapshotInv'
  BY <1>2, <1>9 DEF dashVars
<1> QED
  BY <1>3, <1>4, <1>5, <1>6, <1>7, <1>8, <1>9 DEF DashNext, CreatePayment, UpdateStatus

-----------------------------------------------------------------------------
(* Theorems *)

\* The table, the shape of the dashboard, the drift of the counts and the snapshot
\* hold together in every reachable state.
THEOREM DashboardInvariant == DashSpec => []DashInv
<1>1. DashInit => DashInv
  BY DashInitial
<1>2. DashInv /\ [DashNext]_dashVars => DashInv'
  BY ShapeIsKept, DriftIsKept, SnapshotIsKept DEF DashInv
<1> QED
  BY <1>1, <1>2, PTL DEF DashSpec

\* The report of a full year is complete to its last instant and adds up, whatever
\* the payments and the calendar (getMonthlyRevenue, lines 543-549, 584-606, 636-648).
THEOREM ReportOfYearAdds == DashSpec => []FullYearAdds
<1>1. DashInv => FullYearAdds
  BY FullYear DEF DashInv, DashType, TableInv, FullYearAdds
<1> QED
  BY <1>1, DashboardInvariant, PTL

\* The total of a range inside its year is all revenue of the range: no month that
\* the range touches is left out (lines 608-636).
THEOREM ReportOfRangeAdds == DashSpec => []RangeInYearAdds
<1>1. DashInv => RangeInYearAdds
  BY RangeInYear DEF DashInv, DashType, TableInv, RangeInYearAdds
<1> QED
  BY <1>1, DashboardInvariant, PTL

\* The three counts miss the total by no more than the changes of the table while
\* the five queries ran, in whatever order they read it (lines 712-722).
THEOREM CountsDriftWithChanges == DashSpec => []DriftIsBounded
<1>1. DashInv => DriftIsBounded
  <2> SUFFICES ASSUME DashInv, Counted PROVE DriftIsBounded
    BY DEF DriftIsBounded
  <2>1. DashType /\ PendingOfPhase /\ DriftInv
    BY DEF DashInv
  <2>2. dash.phase # "idle" /\ dash.phase # "counting"
    BY DEF Counted
  <2>3. dash.pending \cap Counts = {}
    BY <2>1, <2>2 DEF PendingOfPhase, Counts, Halves
  <2>4. \A q \in Tally : Cur(q) = dash.got[q] /\ dash.got[q] \in Nat
    BY <2>1, <2>3 DEF Cur, Tally, Counts, DashType
  <2> PICK n : n = dash.got["total"]
                   - (dash.got["pending"] + dash.got["success"] + dash.got["failed"])
    OBVIOUS
  <2>5. n \in Int /\ n = CurrentDrift
    BY <2>4 DEF CurrentDrift, Tally
  <2>6. n <= changes /\ -n <= changes
    BY <2>1, <2>2, <2>5 DEF DriftInv
  <2> QED
    BY <2>5, <2>6 DEF DriftIsBounded, Abs
<1> QED
  BY <1>1, DashboardInvariant, PTL

\* The month before is the interval before this month's start, over a turn of the
\* year too.
LEMMA LastMonthIs ==
    ASSUME TableType, NEW t \in Int, NEW p \in Successful
    PROVE  p \in LastMonth(t)
           <=> /\ Start(YearOf(t), MonthOf(t) - 1) <= payment[p].createdAt
               /\ payment[p].createdAt < Start(YearOf(t), MonthOf(t))
<1> PICK y \in Int : y = YearOf(t)
  BY InstantType
<1> PICK m \in Month : m = MonthOf(t)
  BY InstantType
<1> PICK c \in Int : c = payment[p].createdAt
  BY DEF Successful, TableType
<1>1. \A z \in Int, k \in Month :
         p \in In(z, k) <=> Start(z, k) <= c /\ c < Start(z, k + 1)
  BY MonthIs DEF In
<1>2. CASE m = 0
  <2> PICK M \in Nat \ {0} : M = MonthsInYear
    BY CalendarAssumption
  <2>1. M - 1 \in Month /\ M - 1 + 1 = M /\ y - 1 \in Int /\ y - 1 + 1 = y
    BY DEF Month
  <2>2. Start(y - 1, M) = Start(y, 0)
    BY <2>1, StartIs
  <2>3. Start(y - 1, M - 1) = Start(y, m - 1)
    <3>1. (y - 1) * M + (M - 1) = y * M + (0 - 1)
      <4>1. (y - 1) * M = y * M - M
        OBVIOUS
      <4> PICK a \in Int : a = y * M
        OBVIOUS
      <4> QED
        BY <4>1
    <3> QED
      BY <1>2, <3>1 DEF Start
  <2> QED
    BY <1>1, <1>2, <2>1, <2>2, <2>3 DEF LastMonth
<1>3. CASE m # 0
  <2>1. m - 1 \in Month /\ m - 1 + 1 = m
    BY <1>3, CalendarAssumption DEF Month
  <2> QED
    BY <1>1, <1>3, <2>1 DEF LastMonth
<1> QED
  BY <1>2, <1>3

\* What the query of the last month adds up: all of it but its last day after
\* midnight (line 735).
LEMMA LastMonthFound ==
    ASSUME TableType, dash.at \in Int
    PROVE  Found("lastMonth") = Sum({p \in LastMonth(dash.at) : ~OnLastDay(p, dash.at)})
<1> PICK t \in Int : t = dash.at
  OBVIOUS
<1>5. YearOf(t) \in Int /\ MonthOf(t) \in Int /\ MonthOf(t) - 1 \in Int
  <2> PICK m \in Month : m = MonthOf(t)
    BY InstantType
  <2>1. m \in Int
    BY MonthsAreFinite
  <2> QED
    BY <2>1, InstantType
<1> PICK s \in Int : s = Start(YearOf(t), MonthOf(t) - 1)
  BY <1>5, StartIs
<1> PICK e \in Int : e = Start(YearOf(t), MonthOf(t))
  BY <1>5, StartIs
<1> PICK d \in Nat \ {0} : d = InstantsInDay
  BY CalendarAssumption
<1>1. LastMonth(t) \in SUBSET Successful
  BY DEF LastMonth, In
<1>2. ASSUME NEW p \in Successful
      PROVE  p \in LastMonth(t) /\ ~OnLastDay(p, t)
             <=> s <= payment[p].createdAt /\ payment[p].createdAt <= e - d
  <2> PICK c \in Int : c = payment[p].createdAt
    BY DEF Successful, TableType
  <2>1. p \in LastMonth(t) <=> s <= c /\ c < e
    BY LastMonthIs
  <2>2. OnLastDay(p, t) <=> c > e - d /\ c < e
    BY DEF OnLastDay
  <2> QED
    BY <2>1, <2>2
<1>3. FindCompletedPayments(StartOfLastMonth(t), EndOfLastMonth(t), None)
      = {p \in Successful : s <= payment[p].createdAt /\ payment[p].createdAt <= e - d}
  BY DEF FindCompletedPayments, StartOfLastMonth, EndOfLastMonth
<1>4. FindCompletedPayments(StartOfLastMonth(t), EndOfLastMonth(t), None)
      = {p \in LastMonth(t) : ~OnLastDay(p, t)}
  BY <1>1, <1>2, <1>3
<1> QED
  BY <1>4 DEF Found

\* While nothing changed, the answers of a dashboard that is done are of one table.
LEMMA DoneIsSnapshot ==
    ASSUME DashInv, dash.phase = "done", changes = 0
    PROVE  /\ \A q \in Counts \cup Halves : dash.got[q] = Found(q)
           /\ dash.monthly = [m \in Month |-> Monthly(ReportOf(dash.year), m)]
           /\ \A p \in Successful : payment[p].createdAt <= dash.at
           /\ dash.at \in Int /\ dash.year \in Int /\ TableType
BY DEF DashInv, DashType, TableInv, PendingOfPhase, SnapshotInv, Successful

\* The last month is complete but for its last day after midnight, which neither
\* month has (line 735).
THEOREM LastDayIsLost == DashSpec => []LastDayIsInNoMonth
<1>1. DashInv => LastDayIsInNoMonth
  <2> SUFFICES ASSUME DashInv, dash.phase = "done", changes = 0
               PROVE  dash.got["lastMonth"]
                      = Sum({p \in LastMonth(dash.at) : ~OnLastDay(p, dash.at)})
    BY DEF LastDayIsInNoMonth
  <2>1. dash.got["lastMonth"] = Found("lastMonth") /\ TableType /\ dash.at \in Int
    BY DoneIsSnapshot DEF Halves
  <2> QED
    BY <2>1, LastMonthFound
<1> QED
  BY <1>1, DashboardInvariant, PTL

\* What this month and the last have is apart, and all of it is revenue.
LEMMA HalvesAreApart ==
    ASSUME TableType, dash.at \in Int
    PROVE  Found("thisMonth") + Found("lastMonth") <= Found("revenue")
<1> PICK t \in Int : t = dash.at
  OBVIOUS
<1>1. YearOf(t) \in Int /\ MonthOf(t) \in Int
  BY InstantType, MonthsAreFinite
<1> PICK e \in Int : e = Start(YearOf(t), MonthOf(t))
  BY <1>1, StartIs
<1> DEFINE This == {p \in Successful : payment[p].createdAt >= e}
           Last == FindCompletedPayments(StartOfLastMonth(t), EndOfLastMonth(t), None)
<1>2. Found("thisMonth") = Sum(This) /\ Found("lastMonth") = Sum(Last)
      /\ Found("revenue") = Sum(Successful)
  BY DEF Found
<1>3. This \in SUBSET Successful /\ Last \in SUBSET Successful /\ Successful \in SUBSET Payment
  BY DEF FindCompletedPayments, Successful
<1>4. This \cap Last = {}
  <2> SUFFICES ASSUME NEW p \in Successful,
                      payment[p].createdAt >= e, payment[p].createdAt <= e - InstantsInDay
               PROVE  FALSE
    BY DEF FindCompletedPayments, EndOfLastMonth
  <2>1. payment[p].createdAt \in Int /\ InstantsInDay \in Nat \ {0}
    BY CalendarAssumption DEF Successful, TableType
  <2> QED
    BY <2>1
<1> HIDE DEF This, Last
<1>5. Sum(This \cup Last) = Sum(This) + Sum(Last)
  BY <1>3, <1>4, SumOfUnion
<1>6. Sum(This \cup Last) <= Sum(Successful)
  BY <1>3, SumOfPart
<1> QED
  BY <1>2, <1>5, <1>6

\* The query of this month has the report's entry of the month.
LEMMA ThisMonthFound ==
    ASSUME TableType, dash.at \in Int, dash.year = YearOf(dash.at),
           \A p \in Successful : payment[p].createdAt <= dash.at
    PROVE  Found("thisMonth") = Monthly(ReportOf(dash.year), MonthOf(dash.at))
<1> PICK t \in Int : t = dash.at
  OBVIOUS
<1> PICK y \in Int : y = YearOf(t)
  BY InstantType
<1> PICK m \in Month : m = MonthOf(t)
  BY InstantType
<1> PICK f : f = ReportOf(y)
  OBVIOUS
<1>1. CurrentYear(f) = y /\ IsFullYear(f) /\ f.method = None
  BY CalendarAssumption DEF CurrentYear, IsFullYear, ReportOf
<1>2. Completed(f) = {p \in Successful : YearOf(payment[p].createdAt) = y}
  BY <1>1, CompletedOfYear DEF OfMethod
<1> PICK s \in Int : s = Start(y, m)
  BY MonthsAreFinite, StartIs
<1>3. m + 1 \in Int
  BY MonthsAreFinite
<1> PICK e \in Int : e = Start(y, m + 1)
  BY <1>3, StartIs
<1>4. t < e
  BY MonthIs
<1>5. ASSUME NEW p \in Successful
      PROVE  payment[p].createdAt >= s
             <=> YearOf(payment[p].createdAt) = y /\ MonthOf(payment[p].createdAt) = m
  <2> PICK c \in Int : c = payment[p].createdAt
    BY DEF Successful, TableType
  <2>1. YearOf(c) = y /\ MonthOf(c) = m <=> s <= c /\ c < e
    BY MonthIs
  <2>2. c <= t
    OBVIOUS
  <2> QED
    BY <1>4, <2>1, <2>2
<1>6. {p \in Successful : payment[p].createdAt >= s}
      = {p \in Completed(f) : MonthOf(payment[p].createdAt) = m}
  BY <1>2, <1>5
<1>7. Found("thisMonth") = Sum({p \in Successful : payment[p].createdAt >= s})
  BY DEF Found
<1> QED
  BY <1>6, <1>7 DEF Monthly

\* A dashboard during which nothing changed is consistent: the month the growth
\* starts from is the report's entry, and neither the months nor the two amounts
\* compared are more than all revenue (lines 724-747).
THEOREM QuietDashboardIsOneTable == DashSpec => []QuietDashboardAgrees
<1>1. DashInv => QuietDashboardAgrees
  <2> SUFFICES ASSUME DashInv, dash.phase = "done", changes = 0
               PROVE  QuietDashboardAgrees
    BY DEF QuietDashboardAgrees
  <2>1. /\ \A q \in Counts \cup Halves : dash.got[q] = Found(q)
        /\ dash.monthly = [m \in Month |-> Monthly(ReportOf(dash.year), m)]
        /\ \A p \in Successful : payment[p].createdAt <= dash.at
        /\ dash.at \in Int /\ dash.year \in Int /\ TableType
    BY DoneIsSnapshot
  <2>2. dash.got["thisMonth"] = Found("thisMonth") /\ dash.got["lastMonth"] = Found("lastMonth")
        /\ dash.got["revenue"] = Found("revenue")
    BY <2>1 DEF Counts, Halves
  <2>3. dash.year = YearOf(dash.at) => dash.got["thisMonth"] = dash.monthly[MonthOf(dash.at)]
    BY <2>1, <2>2, ThisMonthFound, InstantType
  <2>4. MapThenSumSet(LAMBDA m : dash.monthly[m], Month) <= dash.got["revenue"]
    <3> PICK F : F = dash.monthly
      OBVIOUS
    <3> PICK f : f = ReportOf(dash.year)
      OBVIOUS
    <3> PICK C : C = {p \in Completed(f) : MonthOf(payment[p].createdAt) \in Month}
      OBVIOUS
    <3>1. F \in [Month -> Nat] /\ Month \in SUBSET Month
      BY DEF DashInv, DashType
    <3>2. MapThenSumSet(LAMBDA m : dash.monthly[m], Month) = Size(F, Month)
      <4>1. MapThenSumSet(LAMBDA m : F[m], Month) = (CHOOSE g : IsSum(g, F, Month))[Month]
        BY DEF MapThenSumSet, MapThenFoldSet, Taken, IsSum
      <4> QED
        BY <3>1, <4>1, MonthsAreFinite, ChosenIsSize
    <3>3. Size(F, Month) = Sum(C)
      BY <2>1, MonthsAddUp
    <3>4. C \in SUBSET Successful /\ Successful \in SUBSET Payment
      BY DEF Completed, FindCompletedPayments, Successful
    <3>5. Sum(C) <= Sum(Successful)
      BY <3>4, SumOfPart
    <3> QED
      BY <2>2, <3>2, <3>3, <3>5 DEF Found
  <2>5. dash.got["thisMonth"] + dash.got["lastMonth"] <= dash.got["revenue"]
    BY <2>1, <2>2, HalvesAreApart
  <2> QED
    BY <2>3, <2>4, <2>5 DEF QuietDashboardAgrees
<1> QED
  BY <1>1, DashboardInvariant, PTL
=============================================================================
