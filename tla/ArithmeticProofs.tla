-------------------------- MODULE ArithmeticProofs --------------------------
(***************************************************************************)
(* The laws of finite sums that the proofs about money rest on, and of the *)
(* calendar.  A sum is SumFunctionOnSet(f, S) of the community modules: a  *)
(* fold that takes the elements of S in the order CHOOSE gives them.       *)
(* Induction is on the number of elements, through the least               *)
(* counterexample: the induction theorems of the library take an operator  *)
(* as argument, WFMin does not.                                            *)
(***************************************************************************)
EXTENDS Calendar, FiniteSets, Functions, FiniteSetTheorems, WellFoundedInduction, TLAPS

\* A set of finite sets that is not empty has a member no other member is a
\* proper subset of.
LEMMA LeastSet ==
    ASSUME NEW F, F # {}, \A S \in F : IsFiniteSet(S)
    PROVE  \E S \in F : \A T \in F : T \subseteq S => T = S
<1> DEFINE All == UNION F
<1>1. F \subseteq FiniteSubsetsOf(All)
    BY DEF FiniteSubsetsOf
<1>2. PICK S \in F : \A T \in F : ~(<<T, S>> \in StrictSubsetOrdering(All))
    BY <1>1, FS_StrictSubsetOrderingWellFounded, WFMin
<1>3. ASSUME NEW T \in F, T \subseteq S PROVE T = S
    BY <1>2, <1>3 DEF StrictSubsetOrdering
<1> QED
    BY <1>3

\* The element a fold takes first.
First(S) == CHOOSE x \in S : TRUE

\* g tabulates the sums of f over the subsets of S.
Tabulates(g, f, S) ==
    g = [s \in SUBSET S |->
            IF s = {} THEN 0 ELSE f[First(s)] + g[s \ {First(s)}]]

LEMMA SumIsTabulated ==
    ASSUME NEW f, NEW S
    PROVE  SumFunctionOnSet(f, S) = (CHOOSE g : Tabulates(g, f, S))[S]
BY DEF SumFunctionOnSet, FoldFunctionOnSet, MapThenFoldSet, Tabulates, First

LEMMA TableRow ==
    ASSUME NEW g, NEW f, NEW S, Tabulates(g, f, S), NEW s \in SUBSET S
    PROVE  /\ s = {} => g[s] = 0
           /\ s # {} => First(s) \in s /\ g[s] = f[First(s)] + g[s \ {First(s)}]
BY DEF Tabulates, First

\* Two tables agree on the sets both have.
LEMMA TablesAgree ==
    ASSUME NEW f, NEW S, NEW T, NEW g, NEW h,
           Tabulates(g, f, S), Tabulates(h, f, T), IsFiniteSet(S)
    PROVE  \A s \in (SUBSET S) \cap (SUBSET T) : g[s] = h[s]
<1> DEFINE Bad == {s \in (SUBSET S) \cap (SUBSET T) : g[s] # h[s]}
<1> SUFFICES ASSUME Bad # {} PROVE FALSE
    OBVIOUS
<1>1. PICK s \in Bad : \A t \in Bad : t \subseteq s => t = s
    <2>1. \A s \in Bad : IsFiniteSet(s)
        BY FS_Subset
    <2> HIDE DEF Bad
    <2> QED
        BY <2>1, LeastSet
<1>2. s # {} /\ First(s) \in s
    BY TableRow
<1> DEFINE u == s \ {First(s)}
<1>3. u \notin Bad
    BY <1>1, <1>2
<1>4. g[u] = h[u]
    BY <1>3
<1>5. g[s] = f[First(s)] + g[u] /\ h[s] = f[First(s)] + h[u]
    BY <1>2, TableRow
<1> QED
    BY <1>4, <1>5

LEMMA TableExists ==
    ASSUME NEW f, NEW S, IsFiniteSet(S)
    PROVE  \E g : Tabulates(g, f, S)
<1> DEFINE Bad == {s \in SUBSET S : ~\E g : Tabulates(g, f, s)}
<1> SUFFICES ASSUME Bad # {} PROVE FALSE
    OBVIOUS
<1>1. PICK s \in Bad : \A t \in Bad : t \subseteq s => t = s
    <2>1. \A s \in Bad : IsFiniteSet(s)
        BY FS_Subset
    <2> HIDE DEF Bad
    <2> QED
        BY <2>1, LeastSet
<1> DEFINE Table(t) == CHOOSE g : Tabulates(g, f, t)
           g == [t \in SUBSET s |-> IF t = {} THEN 0
                    ELSE f[First(t)] + Table(t \ {First(t)})[t \ {First(t)}]]
<1>2. ASSUME NEW t \in SUBSET s, t # s PROVE Tabulates(Table(t), f, t)
    BY <1>1, <1>2
<1>3. ASSUME NEW t \in SUBSET s, t # s PROVE g[t] = Table(t)[t]
    <2>1. CASE t = {}
        BY <2>1, <1>2, <1>3, TableRow
    <2>2. CASE t # {}
        <3> DEFINE u == t \ {First(t)}
        <3>1. u \in SUBSET s /\ u # s /\ u \in SUBSET t
            BY <1>3
        <3>2. Tabulates(Table(t), f, t) /\ Tabulates(Table(u), f, u)
            BY <1>2, <1>3, <3>1
        <3>3. IsFiniteSet(t)
            BY FS_Subset
        <3>4. Table(t)[u] = Table(u)[u]
            <4> HIDE DEF u, Table
            <4> QED
                BY <3>1, <3>2, <3>3, TablesAgree
        <3>5. Table(t)[t] = f[First(t)] + Table(t)[u]
            BY <2>2, <3>2, TableRow
        <3> QED
            BY <2>2, <3>4, <3>5
    <2> QED
        BY <2>1, <2>2
<1>4. ASSUME NEW t \in SUBSET s, t # {}
      PROVE  g[t] = f[First(t)] + g[t \ {First(t)}]
    <2>1. First(t) \in t
        BY <1>4 DEF First
    <2>2. g[t \ {First(t)}] = Table(t \ {First(t)})[t \ {First(t)}]
        <3> HIDE DEF g, Table
        <3> QED
            BY <2>1, <1>3
    <2> QED
        BY <1>4, <2>2
<1>5. Tabulates(g, f, s)
    <2>1. g = [t \in SUBSET s |-> g[t]] /\ g[{}] = 0
        OBVIOUS
    <2> HIDE DEF g
    <2>2. \A t \in SUBSET s :
             g[t] = IF t = {} THEN 0 ELSE f[First(t)] + g[t \ {First(t)}]
        BY <1>4, <2>1
    <2> QED
        BY <2>1, <2>2 DEF Tabulates
<1> QED
    BY <1>5

\* A sum over no element is nothing, and over some is the first of them and
\* the sum over the others.
LEMMA SumRow ==
    ASSUME NEW f, NEW S, IsFiniteSet(S)
    PROVE  /\ S = {} => SumFunctionOnSet(f, S) = 0
           /\ S # {} => /\ First(S) \in S
                        /\ SumFunctionOnSet(f, S) =
                               f[First(S)] + SumFunctionOnSet(f, S \ {First(S)})
<1> DEFINE Table(s) == CHOOSE g : Tabulates(g, f, s)
           u == S \ {First(S)}
<1>1. IsFiniteSet(u)
    BY FS_Subset
<1>2. Tabulates(Table(S), f, S) /\ Tabulates(Table(u), f, u)
    BY <1>1, TableExists
<1>3. SumFunctionOnSet(f, S) = Table(S)[S] /\ SumFunctionOnSet(f, u) = Table(u)[u]
    BY SumIsTabulated
<1>4. Table(S)[u] = Table(u)[u]
    <2> HIDE DEF u, Table
    <2>1. u \in SUBSET S /\ u \in SUBSET u
        BY DEF u
    <2> QED
        BY <1>2, <2>1, TablesAgree
<1>5. /\ S = {} => Table(S)[S] = 0
      /\ S # {} => First(S) \in S /\ Table(S)[S] = f[First(S)] + Table(S)[u]
    <2> HIDE DEF Table
    <2> QED
        BY <1>2, TableRow
<1> QED
    BY <1>3, <1>4, <1>5

-----------------------------------------------------------------------------

Summable(f, S) == IsFiniteSet(S) /\ \A x \in S : f[x] \in Int

LEMMA SumEmpty == \A f : SumFunctionOnSet(f, {}) = 0
BY SumRow, FS_EmptySet

LEMMA SumInt ==
    ASSUME NEW f, NEW S, Summable(f, S)
    PROVE  SumFunctionOnSet(f, S) \in Int
<1> DEFINE Bad == {s \in SUBSET S : SumFunctionOnSet(f, s) \notin Int}
<1> SUFFICES ASSUME Bad # {} PROVE FALSE
    OBVIOUS
<1>1. \A s \in Bad : IsFiniteSet(s)
    BY FS_Subset DEF Summable
<1>2. PICK s \in Bad : \A t \in Bad : t \subseteq s => t = s
    <2> HIDE DEF Bad
    <2> QED
        BY <1>1, LeastSet
<1>3. s # {} /\ First(s) \in s
    BY <1>1, SumRow
<1>4. s \ {First(s)} \notin Bad
    BY <1>2, <1>3
<1>5. SumFunctionOnSet(f, s \ {First(s)}) \in Int /\ f[First(s)] \in Int
    BY <1>3, <1>4 DEF Summable
<1>6. SumFunctionOnSet(f, s) = f[First(s)] + SumFunctionOnSet(f, s \ {First(s)})
    BY <1>1, <1>3, SumRow
<1> QED
    BY <1>5, <1>6

\* Any element may be taken first.
LEMMA SumTake ==
    ASSUME NEW f, NEW S, Summable(f, S), NEW x \in S
    PROVE  SumFunctionOnSet(f, S) = f[x] + SumFunctionOnSet(f, S \ {x})
<1> DEFINE Takes(s, y) ==
        SumFunctionOnSet(f, s) = f[y] + SumFunctionOnSet(f, s \ {y})
           Bad == {s \in SUBSET S : \E y \in s : ~Takes(s, y)}
<1> SUFFICES ASSUME Bad # {} PROVE FALSE
    OBVIOUS
<1>1. \A s \in SUBSET S : IsFiniteSet(s)
    BY FS_Subset DEF Summable
<1>2. PICK s \in Bad : \A t \in Bad : t \subseteq s => t = s
    <2> HIDE DEF Bad
    <2>1. Bad \subseteq SUBSET S
        BY DEF Bad
    <2> QED
        BY <1>1, <2>1, LeastSet
<1>3. PICK y \in s : ~Takes(s, y)
    OBVIOUS
<1> DEFINE z == First(s)
<1>4. z \in s /\ Takes(s, z) /\ z # y
    BY <1>1, <1>3, SumRow
<1>5. Takes(s \ {z}, y)
    <2>1. s \ {z} \notin Bad /\ y \in s \ {z}
        BY <1>2, <1>3, <1>4
    <2> QED
        BY <2>1
<1>6. Takes(s \ {y}, z)
    <2>1. s \ {y} \notin Bad /\ z \in s \ {y}
        BY <1>2, <1>3, <1>4
    <2> QED
        BY <2>1
<1>7. (s \ {z}) \ {y} = (s \ {y}) \ {z}
    OBVIOUS
<1>8. /\ f[y] \in Int /\ f[z] \in Int
      /\ SumFunctionOnSet(f, (s \ {y}) \ {z}) \in Int
    <2>1. Summable(f, (s \ {y}) \ {z})
        BY <1>1 DEF Summable
    <2> QED
        BY <1>3, <1>4, <2>1, SumInt DEF Summable
<1> HIDE DEF z
<1>9. Takes(s, y)
    BY <1>4, <1>5, <1>6, <1>7, <1>8
<1> QED
    BY <1>3, <1>9

\* Only the values on the set matter.
LEMMA SumAgree ==
    ASSUME NEW f, NEW g, NEW S, IsFiniteSet(S), \A x \in S : f[x] = g[x]
    PROVE  SumFunctionOnSet(f, S) = SumFunctionOnSet(g, S)
<1> DEFINE Bad == {s \in SUBSET S : SumFunctionOnSet(f, s) # SumFunctionOnSet(g, s)}
<1> SUFFICES ASSUME Bad # {} PROVE FALSE
    OBVIOUS
<1>1. \A s \in Bad : IsFiniteSet(s)
    BY FS_Subset
<1>2. PICK s \in Bad : \A t \in Bad : t \subseteq s => t = s
    <2> HIDE DEF Bad
    <2> QED
        BY <1>1, LeastSet
<1>3. s # {} /\ First(s) \in s
    BY <1>1, SumRow
<1>4. s \ {First(s)} \notin Bad
    BY <1>2, <1>3
<1>5. SumFunctionOnSet(f, s) = f[First(s)] + SumFunctionOnSet(f, s \ {First(s)})
    BY <1>1, <1>3, SumRow
<1>6. SumFunctionOnSet(g, s) = g[First(s)] + SumFunctionOnSet(g, s \ {First(s)})
    BY <1>1, <1>3, SumRow
<1> QED
    BY <1>3, <1>4, <1>5, <1>6

\* An element more.
LEMMA SumAdd ==
    ASSUME NEW f, NEW S, Summable(f, S), NEW x, x \notin S, f[x] \in Int
    PROVE  SumFunctionOnSet(f, S \cup {x}) = f[x] + SumFunctionOnSet(f, S)
<1>1. Summable(f, S \cup {x}) /\ (S \cup {x}) \ {x} = S
    BY FS_AddElement DEF Summable
<1> QED
    BY <1>1, SumTake

LEMMA SumUnion ==
    ASSUME NEW f, NEW S, NEW T, Summable(f, S), Summable(f, T), S \cap T = {}
    PROVE  SumFunctionOnSet(f, S \cup T) = SumFunctionOnSet(f, S) + SumFunctionOnSet(f, T)
<1> DEFINE Splits(s) ==
        SumFunctionOnSet(f, s \cup T) = SumFunctionOnSet(f, s) + SumFunctionOnSet(f, T)
           Bad == {s \in SUBSET S : ~Splits(s)}
<1> SUFFICES ASSUME Bad # {} PROVE FALSE
    OBVIOUS
<1>1. \A s \in Bad : IsFiniteSet(s)
    BY FS_Subset DEF Summable
<1>2. PICK s \in Bad : \A t \in Bad : t \subseteq s => t = s
    <2> HIDE DEF Bad
    <2> QED
        BY <1>1, LeastSet
<1>3. s # {}
    BY SumEmpty, SumInt
<1>4. PICK x : x \in s
    BY <1>3
<1> DEFINE u == s \ {x}
<1>5. Splits(u)
    BY <1>2, <1>4
<1>6. Summable(f, s) /\ Summable(f, u) /\ Summable(f, u \cup T)
    BY <1>1, FS_Subset, FS_Union DEF Summable
<1>7. x \notin u \cup T /\ s \cup T = (u \cup T) \cup {x}
    BY <1>4
<1>8. f[x] \in Int
    BY <1>4 DEF Summable
<1> HIDE DEF u
<1>9. SumFunctionOnSet(f, s \cup T) = f[x] + SumFunctionOnSet(f, u \cup T)
    <2>1. SumFunctionOnSet(f, (u \cup T) \cup {x}) = f[x] + SumFunctionOnSet(f, u \cup T)
        BY <1>6, <1>7, <1>8, SumAdd
    <2> QED
        BY <1>7, <2>1
<1>10. SumFunctionOnSet(f, s) = f[x] + SumFunctionOnSet(f, u)
    BY <1>4, <1>6, SumTake DEF u
<1>11. SumFunctionOnSet(f, u) \in Int /\ SumFunctionOnSet(f, T) \in Int
    BY <1>6, SumInt
<1> QED
    BY <1>5, <1>8, <1>9, <1>10, <1>11

\* One set for another, element by element.
LEMMA SumReindexed ==
    ASSUME NEW f, NEW S, NEW g, NEW T, Summable(f, S), NEW j,
           \A x \in S : g[j[x]] = f[x],
           \A x, y \in S : j[x] = j[y] => x = y,
           \A x \in S : j[x] \in T, \A y \in T : \E x \in S : y = j[x]
    PROVE  SumFunctionOnSet(g, T) = SumFunctionOnSet(f, S)
<1> DEFINE Over(s) == {j[x] : x \in s}
           Bad == {s \in SUBSET S : SumFunctionOnSet(g, Over(s)) # SumFunctionOnSet(f, s)
                                    \/ ~Summable(g, Over(s))}
<1>0. Over(S) = T
    OBVIOUS
<1> SUFFICES ASSUME Bad # {} PROVE FALSE
    BY <1>0
<1>1. \A s \in Bad : IsFiniteSet(s)
    BY FS_Subset DEF Summable
<1>2. PICK s \in Bad : \A t \in Bad : t \subseteq s => t = s
    <2> HIDE DEF Bad
    <2> QED
        BY <1>1, LeastSet
<1>3. s # {}
    <2> SUFFICES ASSUME s = {} PROVE FALSE
        OBVIOUS
    <2>1. Over(s) = {}
        OBVIOUS
    <2> QED
        BY <2>1, SumEmpty, FS_EmptySet DEF Summable
<1>4. PICK x : x \in s
    BY <1>3
<1> DEFINE u == s \ {x}
<1>5. SumFunctionOnSet(g, Over(u)) = SumFunctionOnSet(f, u) /\ Summable(g, Over(u))
    BY <1>2, <1>4
<1>6. Summable(f, s) /\ f[x] \in Int /\ g[j[x]] = f[x]
    BY <1>1, <1>4 DEF Summable
<1>7. j[x] \notin Over(u) /\ Over(s) = Over(u) \cup {j[x]}
    BY <1>4
<1> HIDE DEF u
<1>8. SumFunctionOnSet(g, Over(s)) = g[j[x]] + SumFunctionOnSet(g, Over(u))
    <2> HIDE DEF Over
    <2> QED
        BY <1>5, <1>6, <1>7, SumAdd
<1>9. Summable(g, Over(s))
    <2> HIDE DEF Over
    <2> QED
        BY <1>5, <1>6, <1>7, FS_AddElement DEF Summable
<1>10. SumFunctionOnSet(f, s) = f[x] + SumFunctionOnSet(f, u)
    BY <1>4, <1>6, SumTake DEF u
<1> QED
    BY <1>5, <1>6, <1>8, <1>9, <1>10

\* The elements of S that k sorts into group i.
Group(S, k, i) == {x \in S : k[x] = i}

\* The sum of the sums of the groups.
LEMMA SumOfGroups ==
    ASSUME NEW f, NEW S, Summable(f, S), NEW k, NEW K, IsFiniteSet(K),
           \A x \in S : k[x] \in K,
           NEW g, \A i \in K : g[i] = SumFunctionOnSet(f, Group(S, k, i))
    PROVE  SumFunctionOnSet(g, K) = SumFunctionOnSet(f, S)
<1> DEFINE In(L) == {x \in S : k[x] \in L}
           Bad == {L \in SUBSET K : SumFunctionOnSet(g, L) # SumFunctionOnSet(f, In(L))}
<1>1. \A L : Summable(f, In(L))
    BY FS_Subset DEF Summable
<1>2. ASSUME Bad # {} PROVE FALSE
    <2>1. \A L \in Bad : IsFiniteSet(L)
        BY FS_Subset
    <2>2. PICK L \in Bad : \A M \in Bad : M \subseteq L => M = L
        <3> HIDE DEF Bad
        <3> QED
            BY <1>2, <2>1, LeastSet
    <2>3. L # {}
        <3> SUFFICES ASSUME L = {} PROVE FALSE
            OBVIOUS
        <3>1. In(L) = {}
            OBVIOUS
        <3> QED
            BY <3>1, SumEmpty
    <2>4. PICK i : i \in L
        BY <2>3
    <2> DEFINE M == L \ {i}
               Those == Group(S, k, i)
    <2>5. SumFunctionOnSet(g, M) = SumFunctionOnSet(f, In(M))
        BY <2>2, <2>4
    <2>6. In(L) = Those \cup In(M) /\ Those \cap In(M) = {}
        BY <2>4 DEF Group
    <2>7. Summable(f, Those) /\ Summable(f, In(M))
        <3>1. Those = In({i})
            BY DEF Group
        <3> HIDE DEF In
        <3> QED
            BY <1>1, <3>1
    <2>8. SumFunctionOnSet(f, In(L)) = SumFunctionOnSet(f, Those) + SumFunctionOnSet(f, In(M))
        <3> HIDE DEF In, Those, M
        <3>1. SumFunctionOnSet(f, Those \cup In(M)) =
                  SumFunctionOnSet(f, Those) + SumFunctionOnSet(f, In(M))
            BY <2>6, <2>7, SumUnion
        <3> QED
            BY <2>6, <3>1
    <2>9. Summable(g, L)
        <3>1. ASSUME NEW h \in L PROVE g[h] \in Int
            <4>1. Group(S, k, h) = In({h})
                BY DEF Group
            <4>2. g[h] = SumFunctionOnSet(f, In({h}))
                BY <4>1
            <4> HIDE DEF In
            <4> QED
                BY <1>1, <4>2, SumInt
        <3> QED
            BY <2>1, <3>1 DEF Summable
    <2>10. SumFunctionOnSet(g, L) = g[i] + SumFunctionOnSet(g, M)
        BY <2>4, <2>9, SumTake
    <2>11. g[i] = SumFunctionOnSet(f, Those)
        BY <2>4
    <2> QED
        BY <2>5, <2>8, <2>10, <2>11
<1>3. SumFunctionOnSet(g, K) = SumFunctionOnSet(f, In(K))
    BY <1>2
<1>4. In(K) = S
    OBVIOUS
<1> QED
    BY <1>3, <1>4

-----------------------------------------------------------------------------
(* The calendar.  Ordinal counts the days of the years before, of the       *)
(* months before and of the month, so dates compare as numbers.             *)

\* The days before a year, and before a month of it.
DaysBeforeYear(y) ==
    365 * (y - 1) + (y - 1) \div 4 - (y - 1) \div 100 + (y - 1) \div 400
DaysBeforeMonth(y, m) == DaysBefore[m] + (IF m > 2 /\ IsLeap(y) THEN 1 ELSE 0)
YearLength(y) == IF IsLeap(y) THEN 366 ELSE 365

LEMMA OrdinalParts ==
    ASSUME NEW d \in CalendarDates
    PROVE  Ordinal(d) = DaysBeforeYear(d.year) + DaysBeforeMonth(d.year, d.month) + d.day
BY DEF Ordinal, DaysBeforeYear, DaysBeforeMonth, CalendarDates, Months, DaysBefore

LEMMA YearFollows ==
    ASSUME NEW y \in Int
    PROVE  /\ DaysBeforeYear(y) \in Int
           /\ DaysBeforeYear(y + 1) = DaysBeforeYear(y) + YearLength(y)
<1>1. y \div 4 = (y - 1) \div 4 + (IF y % 4 = 0 THEN 1 ELSE 0)
    OBVIOUS
<1>2. y \div 100 = (y - 1) \div 100 + (IF y % 100 = 0 THEN 1 ELSE 0)
    OBVIOUS
<1>3. y \div 400 = (y - 1) \div 400 + (IF y % 400 = 0 THEN 1 ELSE 0)
    OBVIOUS
<1>4. (y % 400 = 0 => y % 100 = 0) /\ (y % 100 = 0 => y % 4 = 0)
    OBVIOUS
<1> QED
    BY <1>1, <1>2, <1>3, <1>4 DEF DaysBeforeYear, YearLength, IsLeap

LEMMA YearsFollow ==
    ASSUME NEW y \in Int, NEW z \in Int, y < z
    PROVE  DaysBeforeYear(y) + YearLength(y) <= DaysBeforeYear(z)
<1>1. DaysBeforeYear(y + 1) <= DaysBeforeYear(z)
    <2>1. y \div 4 <= (z - 1) \div 4
        OBVIOUS
    <2>2. (z - 1) \div 100 - y \div 100 <= z - 1 - y
        OBVIOUS
    <2>3. y \div 400 <= (z - 1) \div 400
        OBVIOUS
    <2> QED
        BY <2>1, <2>2, <2>3 DEF DaysBeforeYear
<1> QED
    BY <1>1, YearFollows

LEMMA MonthFollows ==
    ASSUME NEW y \in Int, NEW m \in Months
    PROVE  /\ DaysBeforeMonth(y, m) \in Nat /\ MonthLength(y, m) \in 28..31
           /\ m < 12 => DaysBeforeMonth(y, m + 1) = DaysBeforeMonth(y, m) + MonthLength(y, m)
           /\ m = 12 => DaysBeforeMonth(y, m) + MonthLength(y, m) = YearLength(y)
           /\ m = 1 => DaysBeforeMonth(y, m) = 0
BY DEF DaysBeforeMonth, MonthLength, YearLength, Months, DaysBefore

LEMMA MonthsFollow ==
    ASSUME NEW y \in Int, NEW m \in Months, NEW n \in Months, m < n
    PROVE  DaysBeforeMonth(y, m) + MonthLength(y, m) <= DaysBeforeMonth(y, n)
BY DEF DaysBeforeMonth, MonthLength, Months, DaysBefore

\* A date later in year, in month or in day is later.
LEMMA OrdinalOrder ==
    ASSUME NEW d \in CalendarDates, NEW e \in CalendarDates,
           \/ d.year < e.year
           \/ d.year = e.year /\ d.month < e.month
           \/ d.year = e.year /\ d.month = e.month /\ d.day < e.day
    PROVE  Ordinal(d) < Ordinal(e)
<1>1. /\ d.year \in Int /\ d.month \in Months /\ d.day \in 1..MonthLength(d.year, d.month)
      /\ e.year \in Int /\ e.month \in Months /\ e.day \in 1..MonthLength(e.year, e.month)
    BY DEF CalendarDates, IsDate
<1>2. /\ DaysBeforeMonth(d.year, d.month) + MonthLength(d.year, d.month) <= YearLength(d.year)
      /\ DaysBeforeMonth(d.year, d.month) \in Nat /\ DaysBeforeMonth(e.year, e.month) \in Nat
      /\ DaysBeforeYear(d.year) \in Int /\ DaysBeforeYear(e.year) \in Int
      /\ MonthLength(d.year, d.month) \in 28..31 /\ MonthLength(e.year, e.month) \in 28..31
      /\ YearLength(d.year) \in Int
    <2>1. d.month < 12 => /\ 12 \in Months
                          /\ DaysBeforeMonth(d.year, d.month) + MonthLength(d.year, d.month)
                                <= DaysBeforeMonth(d.year, 12)
        BY <1>1, MonthsFollow DEF Months
    <2>0. 12 \in Months
        BY DEF Months
    <2>2. DaysBeforeMonth(d.year, 12) + MonthLength(d.year, 12) = YearLength(d.year)
        BY <1>1, <2>0, MonthFollows
    <2>3. MonthLength(d.year, 12) \in 28..31 /\ DaysBeforeMonth(d.year, 12) \in Nat
        BY <1>1, <2>0, MonthFollows
    <2>4. d.month = 12 \/ d.month < 12
        BY <1>1 DEF Months
    <2> QED
        BY <1>1, <2>1, <2>2, <2>3, <2>4, MonthFollows, YearFollows DEF YearLength
<1>3. CASE d.year < e.year
    BY <1>1, <1>2, <1>3, OrdinalParts, YearsFollow
<1>4. CASE d.year = e.year /\ d.month < e.month
    BY <1>1, <1>2, <1>4, OrdinalParts, MonthsFollow
<1>5. CASE d.year = e.year /\ d.month = e.month /\ d.day < e.day
    BY <1>1, <1>2, <1>5, OrdinalParts
<1> QED
    BY <1>3, <1>4, <1>5

LEMMA OrdinalInt == \A d \in CalendarDates : Ordinal(d) \in Int
<1> SUFFICES ASSUME NEW d \in CalendarDates PROVE Ordinal(d) \in Int
    OBVIOUS
<1>1. d.year \in Int /\ d.month \in Months /\ d.day \in Int
    BY DEF CalendarDates
<1> QED
    BY <1>1, OrdinalParts, YearFollows, MonthFollows

\* A date is its number.
LEMMA OrdinalOfOne ==
    ASSUME NEW d \in CalendarDates, NEW e \in CalendarDates, Ordinal(d) = Ordinal(e)
    PROVE  d = e
<1>1. /\ d.year \in Int /\ d.month \in Int /\ d.day \in Int
      /\ e.year \in Int /\ e.month \in Int /\ e.day \in Int
    BY DEF CalendarDates, Months
<1>2. d.year = e.year /\ d.month = e.month /\ d.day = e.day
    BY <1>1, OrdinalOrder, OrdinalInt
<1> QED
    BY <1>2 DEF CalendarDates

LEMMA MonthsLaterIsADate ==
    ASSUME NEW d \in CalendarDates, NEW n \in Nat
    PROVE  /\ MonthsLater(d, n) \in CalendarDates
           /\ MonthsLater(d, n).year >= d.year
<1>1. d.year \in Int /\ d.month \in 1..12 /\ d.day \in 1..31
    BY DEF CalendarDates, Months
<1> DEFINE total == d.month - 1 + n
           year == d.year + total \div 12
           month == (total % 12) + 1
           last == MonthLength(year, month)
           day == IF d.day < last THEN d.day ELSE last
<1>2. total \in Nat
    BY <1>1
<1>3. year \in Int /\ year >= d.year
    <2> HIDE DEF total
    <2> QED
        BY <1>1, <1>2
<1>4. month \in Months
    <2> HIDE DEF total
    <2> QED
        BY <1>1, <1>2 DEF Months
<1>5. last \in 28..31
    <2> HIDE DEF year, month
    <2> QED
        BY <1>3, <1>4, MonthFollows
<1>6. day \in 1..31 /\ day \in 1..last
    <2> HIDE DEF last
    <2> QED
        BY <1>1, <1>5
<1>7. MonthsLater(d, n) = [year |-> year, month |-> month, day |-> day]
    BY DEF MonthsLater
<1> HIDE DEF year, month, day
<1>8. MonthLength(year, month) = last
    OBVIOUS
<1> HIDE DEF last
<1> QED
    BY <1>3, <1>4, <1>6, <1>7, <1>8 DEF CalendarDates, IsDate

\* More months later is later.
LEMMA MonthsLaterGrows ==
    ASSUME NEW d \in CalendarDates, NEW m \in Nat, NEW n \in Nat, m < n
    PROVE  Ordinal(MonthsLater(d, m)) < Ordinal(MonthsLater(d, n))
<1>1. d.year \in Int /\ d.month \in 1..12
    BY DEF CalendarDates, Months
<1> DEFINE one == d.month - 1 + m
           two == d.month - 1 + n
<1>2. one \in Nat /\ two \in Nat /\ one < two
    BY <1>1
<1>3. /\ MonthsLater(d, m).year = d.year + one \div 12
      /\ MonthsLater(d, m).month = (one % 12) + 1
      /\ MonthsLater(d, n).year = d.year + two \div 12
      /\ MonthsLater(d, n).month = (two % 12) + 1
    BY DEF MonthsLater
<1> HIDE DEF one, two
<1>4. \/ one \div 12 < two \div 12
      \/ one \div 12 = two \div 12 /\ one % 12 < two % 12
    BY <1>2
<1>5. one \div 12 \in Int /\ two \div 12 \in Int /\ one % 12 \in Int /\ two % 12 \in Int
    BY <1>2
<1>6. \/ MonthsLater(d, m).year < MonthsLater(d, n).year
      \/ /\ MonthsLater(d, m).year = MonthsLater(d, n).year
         /\ MonthsLater(d, m).month < MonthsLater(d, n).month
    BY <1>1, <1>3, <1>4, <1>5
<1> QED
    BY <1>6, OrdinalOrder, MonthsLaterIsADate

LEMMA OrdinalPositive ==
    ASSUME NEW d \in CalendarDates, d.year >= 1
    PROVE  Ordinal(d) \in Nat \ {0}
<1>1. d.year \in Int /\ d.month \in Months /\ d.day \in 1..31
    BY DEF CalendarDates
<1>2. DaysBeforeYear(d.year) >= 0
    BY <1>1 DEF DaysBeforeYear
<1> QED
    BY <1>1, <1>2, OrdinalParts, YearFollows, MonthFollows

\* shift: farther from the anchor is later.
LEMMA ShiftDateGrows ==
    ASSUME NEW anchor \in CalendarDates, anchor.year >= 1, NEW period \in Periods
    PROVE  /\ ShiftDate(anchor, period, 0) = Ordinal(anchor)
           /\ \A n \in Nat : ShiftDate(anchor, period, n) \in Nat
           /\ \A m, n \in Nat : m < n =>
                  ShiftDate(anchor, period, m) < ShiftDate(anchor, period, n)
<1>1. Ordinal(anchor) \in Nat
    BY OrdinalPositive
<1>2. CASE period \in {"day", "week"}
    <2> DEFINE k == PeriodDays[period]
    <2>1. k \in Nat \ {0}
        BY <1>2 DEF PeriodDays
    <2>2. \A n : ShiftDate(anchor, period, n) = Ordinal(anchor) + k * n
        BY <1>2 DEF ShiftDate, PeriodDays
    <2> HIDE DEF k
    <2>3. \A m, n \in Nat : m < n => k * m < k * n
        BY <2>1
    <2>4. \A n \in Nat : k * n \in Nat
        BY <2>1
    <2>5. k * 0 = 0
        BY <2>1
    <2> QED
        BY <1>1, <2>2, <2>3, <2>4, <2>5
<1>3. CASE period \in {"month", "year"}
    <2> DEFINE k == IF period = "year" THEN 12 ELSE 1
    <2>1. k \in Nat \ {0}
        OBVIOUS
    <2>2. \A n : ShiftDate(anchor, period, n) = Ordinal(MonthsLater(anchor, n * k))
        BY <1>3 DEF ShiftDate, PeriodDays
    <2> HIDE DEF k
    <2>3. \A m, n \in Nat : m < n => m * k < n * k
        BY <2>1
    <2>4. \A n \in Nat : n * k \in Nat
        BY <2>1
    <2>5. \A n \in Nat : /\ MonthsLater(anchor, n * k) \in CalendarDates
                         /\ MonthsLater(anchor, n * k).year >= 1
        <3> TAKE n \in Nat
        <3>1. PICK j \in Nat : j = n * k
            BY <2>4
        <3>2. MonthsLater(anchor, j) \in CalendarDates /\ MonthsLater(anchor, j).year >= anchor.year
            BY MonthsLaterIsADate
        <3>3. anchor.year \in Int /\ MonthsLater(anchor, j).year \in Int
            BY <3>2 DEF CalendarDates
        <3> QED
            BY <3>1, <3>2, <3>3
    <2>6. MonthsLater(anchor, 0 * k) = anchor
        <3>1. /\ anchor.year \in Int /\ anchor.month \in 1..12 /\ 0 * k = 0
              /\ anchor.day \in 1..MonthLength(anchor.year, anchor.month)
              /\ anchor = [year |-> anchor.year, month |-> anchor.month, day |-> anchor.day]
            BY <2>1 DEF CalendarDates, IsDate, Months
        <3>2. (anchor.month - 1 + 0) \div 12 = 0 /\ ((anchor.month - 1 + 0) % 12) + 1 = anchor.month
            BY <3>1
        <3>3. MonthLength(anchor.year, anchor.month) \in Int /\ anchor.year + 0 = anchor.year
            BY <3>1, MonthFollows DEF Months
        <3> QED
            BY <3>1, <3>2, <3>3 DEF MonthsLater
    <2> QED
        BY <2>2, <2>3, <2>4, <2>5, <2>6, OrdinalPositive, MonthsLaterGrows
<1> QED
    BY <1>2, <1>3 DEF Periods

\* The schedule of a recurrence (shift and its callers in
\* recurring/generation.py): from any starts_on, for any period and
\* repeat_every, the occurrences are days, the first is starts_on itself, and
\* each is later than the ones before: month ends and leap days, clamped,
\* never make two of them meet.
THEOREM OccurrencesGrow ==
    ASSUME NEW anchor \in CalendarDates, anchor.year >= 1,
           NEW period \in Periods, NEW every \in Nat \ {0}
    PROVE  /\ ShiftDate(anchor, period, every * 0) = Ordinal(anchor)
           /\ \A i \in Nat : ShiftDate(anchor, period, every * i) \in Nat
           /\ \A i, j \in Nat : i < j =>
                  ShiftDate(anchor, period, every * i) < ShiftDate(anchor, period, every * j)
<1>1. every * 0 = 0
    OBVIOUS
<1>2. \A i \in Nat : every * i \in Nat
    OBVIOUS
<1>3. \A i, j \in Nat : i < j => every * i < every * j
    OBVIOUS
<1> QED
    BY <1>1, <1>2, <1>3, ShiftDateGrows
=============================================================================
