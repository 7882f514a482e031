--------------------------- MODULE Workspace_proofs ---------------------------
(***************************************************************************)
(* Machine-checked proofs about what is in the database in an order: the   *)
(* tree of collections, for any number of folders and requests and every   *)
(* position that may be asked for, and workspaces with their environments. *)
(***************************************************************************)
EXTENDS CollectionTree, WorkspaceData, FiniteSetTheorems, FunctionTheorems,
        SequenceTheorems, WellFoundedInduction, TLAPS

USE RootAssumption, MaxPositionAssumption

-----------------------------------------------------------------------------
(* Tables and the positions of their rows *)

Row == [parent : Parents \union {Absent}, position : Nat]
LooseRow == [parent : Parents \union {Absent}, position : Int]

\* No two rows are at one position of a folder.
Untied(t) ==
  \A x, y \in DOMAIN t :
    t[x].parent = t[y].parent /\ t[x].parent # Absent /\ t[x].position = t[y].position => x = y

\* A table before it is compacted, and after it.
Loose(t, D) ==
  /\ t \in [D -> LooseRow]
  /\ \A x \in D : t[x].parent = Absent => t[x].position \in Nat
  /\ Untied(t)

Numbered(t, D) ==
  /\ t \in [D -> Row]
  /\ \A x \in D : t[x].parent # Absent => t[x].position < Cardinality(RowsIn(t, t[x].parent))
  /\ Untied(t)

\* As many elements as different numbers from 0.
LEMMA CountLemma ==
  ASSUME NEW S, NEW m \in Nat, NEW q,
         {q[x] : x \in S} = 0..(m - 1), \A x, y \in S : q[x] = q[y] => x = y
  PROVE  IsFiniteSet(S) /\ Cardinality(S) = m
  <1> DEFINE T == 0..(m - 1)
             f == [x \in S |-> q[x]]
  <1>1. IsFiniteSet(T) /\ Cardinality(T) = m
    <2>1. 0 \in Int /\ m - 1 \in Int
      OBVIOUS
    <2>2. IsFiniteSet(T) /\ Cardinality(T) = IF 0 > m - 1 THEN 0 ELSE (m - 1) - 0 + 1
      BY <2>1, FS_Interval
    <2> HIDE DEF T
    <2> QED
      BY ONLY <2>2, m \in Nat
  <1>2. f \in [S -> T] /\ (\A x, y \in S : f[x] = f[y] => x = y) /\ \A t \in T : \E x \in S : f[x] = t
    OBVIOUS
  <1> HIDE DEF f, T
  <1>3. f \in Injection(S, T)
    BY <1>2, Fun_IsInj
  <1>4. f \in Surjection(S, T)
    BY <1>2, Fun_IsSurj
  <1>5. IsFiniteSet(S) /\ Cardinality(S) = Cardinality(T)
    BY <1>1, <1>3, <1>4, FS_Injection
  <1> QED
    BY <1>1, <1>5

\* Different numbers below the size of a set are all the numbers below it.
LEMMA DenseLemma ==
  ASSUME NEW S, IsFiniteSet(S), NEW q,
         \A x \in S : q[x] \in 0..(Cardinality(S) - 1),
         \A x, y \in S : q[x] = q[y] => x = y
  PROVE  {q[x] : x \in S} = 0..(Cardinality(S) - 1)
  <1> DEFINE n == Cardinality(S)
             T == 0..(n - 1)
             f == [x \in S |-> q[x]]
  <1>1. n \in Nat
    BY FS_CardinalityType
  <1>2. IsFiniteSet(T) /\ Cardinality(T) = n
    <2>1. 0 \in Int /\ n - 1 \in Int
      BY <1>1
    <2>2. IsFiniteSet(T) /\ Cardinality(T) = IF 0 > n - 1 THEN 0 ELSE (n - 1) - 0 + 1
      BY <2>1, FS_Interval
    <2> HIDE DEF T
    <2> QED
      BY ONLY <1>1, <2>2
  <1>3. f \in [S -> T] /\ \A x, y \in S : f[x] = f[y] => x = y
    OBVIOUS
  <1>4. f \in Injection(S, T)
    BY <1>3, Fun_IsInj
  <1> HIDE DEF f, T, n
  <1>5. f \in Surjection(S, T)
    BY <1>2, <1>4, FS_Injection DEF n
  <1>6. \A t \in T : \E x \in S : f[x] = t
    BY <1>5, Fun_SurjectionProperties
  <1> QED
    BY <1>3, <1>6 DEF f, T, n

Before(S, q, x) == {y \in S : q[y] < q[x]}

\* Counting the elements in front of each numbers a set from 0, in its order.
LEMMA RankLemma ==
  ASSUME NEW S, IsFiniteSet(S), NEW q,
         \A x \in S : q[x] \in Int,
         \A x, y \in S : q[x] = q[y] => x = y
  PROVE  /\ \A x \in S : Cardinality(Before(S, q, x)) \in 0..(Cardinality(S) - 1)
         /\ \A x, y \in S : Cardinality(Before(S, q, x)) = Cardinality(Before(S, q, y)) => x = y
  <1>1. ASSUME NEW x \in S
        PROVE  /\ IsFiniteSet(Before(S, q, x))
               /\ Cardinality(Before(S, q, x)) \in 0..(Cardinality(S) - 1)
    <2>1. x \notin Before(S, q, x) /\ Before(S, q, x) \in SUBSET S
      BY DEF Before
    <2>2. Before(S, q, x) \in SUBSET (S \ {x})
      BY <2>1
    <2>3. IsFiniteSet(S \ {x}) /\ Cardinality(S \ {x}) = Cardinality(S) - 1
      BY FS_RemoveElement
    <2>4. /\ IsFiniteSet(Before(S, q, x))
          /\ Cardinality(Before(S, q, x)) <= Cardinality(S) - 1
      BY <2>2, <2>3, FS_Subset
    <2>5. Cardinality(Before(S, q, x)) \in Nat /\ Cardinality(S) \in Nat
      BY <2>4, FS_CardinalityType
    <2> QED
      BY ONLY <2>4, <2>5
  <1>2. ASSUME NEW x \in S, NEW y \in S, q[x] < q[y]
        PROVE  Cardinality(Before(S, q, x)) < Cardinality(Before(S, q, y))
    <2>1. /\ x \in Before(S, q, y)
          /\ Before(S, q, x) \in SUBSET (Before(S, q, y) \ {x})
      BY <1>2 DEF Before
    <2>2. /\ IsFiniteSet(Before(S, q, y) \ {x})
          /\ Cardinality(Before(S, q, y) \ {x}) = Cardinality(Before(S, q, y)) - 1
      BY <1>1, <2>1, FS_RemoveElement
    <2>3. Cardinality(Before(S, q, x)) <= Cardinality(Before(S, q, y)) - 1
      BY <2>1, <2>2, FS_Subset
    <2>4. Cardinality(Before(S, q, x)) \in Nat /\ Cardinality(Before(S, q, y)) \in Nat
      BY <1>1, FS_CardinalityType
    <2> QED
      BY ONLY <2>3, <2>4
  <1>3. ASSUME NEW x \in S, NEW y \in S, x # y
        PROVE  Cardinality(Before(S, q, x)) # Cardinality(Before(S, q, y))
    <2>1. q[x] < q[y] \/ q[y] < q[x]
      BY <1>3
    <2>2. Cardinality(Before(S, q, x)) \in Nat /\ Cardinality(Before(S, q, y)) \in Nat
      BY <1>1, FS_CardinalityType
    <2> QED
      BY <1>2, <2>1, <2>2
  <1> QED
    BY <1>1, <1>3

\* Compacting keeps the folder of every row and numbers its rows from 0.
LEMMA CompactLemma ==
  ASSUME NEW D, IsFiniteSet(D), NEW t, Loose(t, D)
  PROVE  /\ Numbered(Compact(t), D)
         /\ \A x \in D : Compact(t)[x].parent = t[x].parent
         /\ \A x \in D : t[x].parent # Absent => Compact(t)[x].position = Rank(t, x)
  <1> DEFINE S(p) == RowsIn(t, p)
             q == [x \in D |-> t[x].position]
  <1>0. /\ t \in [D -> LooseRow] /\ DOMAIN t = D
        /\ \A x \in D : /\ t[x] \in LooseRow /\ t[x].position \in Int /\ q[x] = t[x].position
                        /\ t[x].parent \in Parents \union {Absent}
    BY DEF Loose, LooseRow
  <1>1. \A p : /\ S(p) \in SUBSET D /\ \A x \in D : x \in S(p) <=> t[x].parent = p
               /\ IsFiniteSet(S(p))
    BY <1>0, FS_Subset DEF RowsIn
  <1>2. ASSUME NEW x \in D PROVE Rank(t, x) = Cardinality(Before(S(t[x].parent), q, x))
    <2>1. {y \in S(t[x].parent) : t[y].position < t[x].position} = Before(S(t[x].parent), q, x)
      BY <1>0, <1>1 DEF Before
    <2> QED
      BY <2>1 DEF Rank
  <1>3. ASSUME NEW p, p # Absent
        PROVE  /\ \A x \in S(p) : Cardinality(Before(S(p), q, x)) \in 0..(Cardinality(S(p)) - 1)
               /\ \A x, y \in S(p) :
                    Cardinality(Before(S(p), q, x)) = Cardinality(Before(S(p), q, y)) => x = y
    <2>1. /\ \A x \in S(p) : q[x] \in Int
          /\ \A x, y \in S(p) : q[x] = q[y] => x = y
      BY <1>0, <1>1, <1>3 DEF Loose, Untied
    <2> HIDE DEF q, S
    <2> QED
      BY <1>1, <2>1, RankLemma
  <1> DEFINE c == Compact(t)
  <1>4. /\ DOMAIN c = D
        /\ \A x \in D : c[x] = IF t[x].parent = Absent THEN t[x]
                               ELSE [t[x] EXCEPT !.position = Rank(t, x)]
    BY <1>0 DEF Compact
  <1>4a. c = [x \in D |-> c[x]]
    BY <1>0 DEF Compact
  <1> HIDE DEF c, S, q
  <1>5. \A x \in D : /\ c[x].parent = t[x].parent
                     /\ t[x].parent # Absent => c[x].position = Rank(t, x)
    BY <1>0, <1>4 DEF LooseRow
  <1>6. ASSUME NEW x \in D, t[x].parent # Absent
        PROVE  /\ c[x].position \in 0..(Cardinality(S(t[x].parent)) - 1)
               /\ c[x].position \in Nat
    BY <1>1, <1>2, <1>3, <1>5, <1>6
  <1>7. \A p : RowsIn(c, p) = S(p)
    BY <1>0, <1>4, <1>5 DEF RowsIn, S
  <1>8. ASSUME NEW x \in D PROVE c[x] \in Row
    <2>1. CASE t[x].parent = Absent
      BY <1>0, <1>4, <2>1 DEF Loose, LooseRow, Row
    <2>2. CASE t[x].parent # Absent
      <3>1. Rank(t, x) \in Nat
        BY <1>5, <1>6, <2>2
      <3> QED
        BY <1>0, <1>4, <2>2, <3>1 DEF LooseRow, Row
    <2> QED
      BY <2>1, <2>2
  <1>9. \A x \in D : c[x].parent # Absent => c[x].position < Cardinality(RowsIn(c, c[x].parent))
    <2>1. ASSUME NEW x \in D, t[x].parent # Absent
          PROVE  c[x].position < Cardinality(S(t[x].parent))
      <3>1. Cardinality(S(t[x].parent)) \in Nat
        BY <1>1, FS_CardinalityType
      <3> QED
        BY <1>6, <2>1, <3>1
    <2> QED
      BY <1>5, <1>7, <2>1
  <1>10. ASSUME NEW x \in D, NEW y \in D, c[x].parent = c[y].parent, c[x].parent # Absent,
                c[x].position = c[y].position
         PROVE  x = y
    BY <1>1, <1>2, <1>3, <1>5, <1>10
  <1>11. Numbered(c, D)
    BY <1>4, <1>4a, <1>8, <1>9, <1>10 DEF Numbered, Untied
  <1> QED
    BY <1>5, <1>11 DEF c

\* In a table that is numbered the positions of a folder are all from 0.
LEMMA NumberedLemma ==
  ASSUME NEW D, IsFiniteSet(D), NEW t, Numbered(t, D), NEW p, p # Absent
  PROVE  /\ {t[x].position : x \in RowsIn(t, p)} = 0..(Cardinality(RowsIn(t, p)) - 1)
         /\ IsFiniteSet(RowsIn(t, p)) /\ Cardinality(RowsIn(t, p)) \in Nat
         /\ Cardinality(RowsIn(t, p)) <= Cardinality(D)
         /\ RowsIn(t, p) \subseteq D
  <1> DEFINE S == RowsIn(t, p)
             q == [x \in D |-> t[x].position]
  <1>1. /\ S \in SUBSET D /\ \A x \in S : t[x].parent = p
        /\ \A x \in D : t[x].position \in Nat
    BY DEF Numbered, RowsIn, Row
  <1>2. IsFiniteSet(S) /\ Cardinality(S) \in Nat /\ Cardinality(S) <= Cardinality(D)
    <2> HIDE DEF S
    <2> QED
      BY <1>1, FS_Subset, FS_CardinalityType
  <1>3. \A x \in S : q[x] \in 0..(Cardinality(S) - 1)
    <2>1. \A x \in S : q[x] < Cardinality(S) /\ q[x] \in Nat
      BY <1>1 DEF Numbered
    <2> HIDE DEF S, q
    <2> QED
      BY <1>2, <2>1
  <1>4. \A x, y \in S : q[x] = q[y] => x = y
    BY <1>1 DEF Numbered, Untied
  <1>5. {q[x] : x \in S} = 0..(Cardinality(S) - 1)
    <2> HIDE DEF S, q
    <2> QED
      BY <1>2, <1>3, <1>4, DenseLemma
  <1>6. {q[x] : x \in S} = {t[x].position : x \in S}
    BY <1>1
  <1> QED
    BY <1>1, <1>2, <1>5, <1>6

-----------------------------------------------------------------------------
(* Making room for a row *)

Top == MaxPosition + Cardinality(Folders) + Cardinality(Requests)

LEMMA TopLemma ==
  /\ Cardinality(Folders) \in Nat /\ Cardinality(Requests) \in Nat /\ Top \in Nat
  /\ MaxPosition <= Top /\ Cardinality(Folders) <= Top /\ Cardinality(Requests) <= Top
  /\ \A n : From(n) = n..Top
  <1>1. Cardinality(Folders) \in Nat /\ Cardinality(Requests) \in Nat
    BY FiniteAssumption, FS_CardinalityType
  <1> QED
    BY <1>1 DEF Top, From

LEMMA ShiftLemma ==
  ASSUME NEW D, NEW t \in [D -> LooseRow], NEW p, NEW positions, NEW by \in Int
  PROVE  /\ Shift(t, p, positions, by) \in [D -> LooseRow]
         /\ \A y \in D :
              /\ Shift(t, p, positions, by)[y].parent = t[y].parent
              /\ Shift(t, p, positions, by)[y].position =
                   IF t[y].parent = p /\ t[y].position \in positions THEN t[y].position + by
                   ELSE t[y].position
  <1> DEFINE s == Shift(t, p, positions, by)
  <1>1. s = [y \in D |-> IF t[y].parent = p /\ t[y].position \in positions
                         THEN [t[y] EXCEPT !.position = @ + by] ELSE t[y]]
    BY DEF Shift
  <1>2. ASSUME NEW y \in D
        PROVE  /\ s[y] \in LooseRow /\ s[y].parent = t[y].parent
               /\ s[y].position = IF t[y].parent = p /\ t[y].position \in positions
                                  THEN t[y].position + by ELSE t[y].position
    <2>1. t[y] \in LooseRow
      OBVIOUS
    <2>2. s[y] = IF t[y].parent = p /\ t[y].position \in positions
                 THEN [t[y] EXCEPT !.position = @ + by] ELSE t[y]
      BY <1>1
    <2> HIDE DEF s
    <2> QED
      BY <2>1, <2>2 DEF LooseRow
  <1> QED
    BY <1>1, <1>2

LEMMA MakeSpaceLemma ==
  ASSUME NEW D, NEW t \in [D -> LooseRow], NEW p, NEW n \in Nat,
         \A y \in D : t[y].parent = p => t[y].position <= Top
  PROVE  /\ MakeSpace(t, p, n) \in [D -> LooseRow]
         /\ \A y \in D :
              /\ MakeSpace(t, p, n)[y].parent = t[y].parent
              /\ MakeSpace(t, p, n)[y].position =
                   IF t[y].parent = p /\ n <= t[y].position THEN t[y].position + 1
                   ELSE t[y].position
  <1>1. /\ MakeSpace(t, p, n) \in [D -> LooseRow]
        /\ \A y \in D :
             /\ MakeSpace(t, p, n)[y].parent = t[y].parent
             /\ MakeSpace(t, p, n)[y].position =
                  IF t[y].parent = p /\ t[y].position \in From(n) THEN t[y].position + 1
                  ELSE t[y].position
    BY ShiftLemma DEF MakeSpace
  <1>2. \A y \in D : t[y].parent = p => (t[y].position \in From(n) <=> n <= t[y].position)
    <2>1. \A y \in D : t[y].position \in Int
      BY DEF LooseRow
    <2> QED
      BY <2>1, TopLemma
  <1> QED
    BY <1>1, <1>2

\* Where a row stands while the row x is on its way to the position n of p.
Standing(t, x, p, n, y) ==
  LET old == t[x]  row == t[y] IN
    IF old.parent # p
    THEN IF row.parent = old.parent /\ old.position < row.position THEN row.position - 1
         ELSE IF row.parent = p /\ n <= row.position THEN row.position + 1
         ELSE row.position
    ELSE IF row.parent # p THEN row.position
    ELSE IF n < old.position
         THEN IF n <= row.position /\ row.position < old.position THEN row.position + 1
              ELSE row.position
    ELSE IF old.position < row.position /\ row.position <= n THEN row.position - 1
         ELSE row.position

LEMMA ShiftPositionsLemma ==
  ASSUME NEW D, NEW t \in [D -> Row], NEW x \in D, NEW p, NEW n \in Nat,
         \A y \in D : t[y].parent # Absent => t[y].position <= Top,
         t[x].parent # Absent, p # Absent
  PROVE  /\ ShiftPositions(t, x, p, n) \in [D -> LooseRow]
         /\ \A y \in D :
              /\ ShiftPositions(t, x, p, n)[y].parent = t[y].parent
              /\ ShiftPositions(t, x, p, n)[y].position = Standing(t, x, p, n, y)
  <1> DEFINE old == t[x]
             s == ShiftPositions(t, x, p, n)
  <1>1. t \in [D -> LooseRow] /\ \A y \in D : t[y].position \in Nat
    BY DEF Row, LooseRow
  <1>2. CASE old.parent # p
    <2> DEFINE u == Shift(t, old.parent, From(old.position + 1), -1)
    <2>1. /\ u \in [D -> LooseRow]
          /\ \A y \in D :
               /\ u[y].parent = t[y].parent
               /\ u[y].position =
                    IF t[y].parent = old.parent /\ t[y].position \in From(old.position + 1)
                    THEN t[y].position + (-1) ELSE t[y].position
      <3>1. -1 \in Int
        OBVIOUS
      <3> QED
        BY <1>1, <3>1, ShiftLemma
    <2>2. \A y \in D : t[y].parent = old.parent =>
            (t[y].position \in From(old.position + 1) <=> old.position < t[y].position)
      BY <1>1, TopLemma
    <2>3. s = MakeSpace(u, p, n)
      BY <1>2 DEF ShiftPositions
    <2> HIDE DEF s, u
    <2>4. \A y \in D : u[y].parent = p => u[y].position <= Top
      BY <1>2, <2>1
    <2>5. /\ s \in [D -> LooseRow]
          /\ \A y \in D :
               /\ s[y].parent = u[y].parent
               /\ s[y].position = IF u[y].parent = p /\ n <= u[y].position THEN u[y].position + 1
                                  ELSE u[y].position
      BY <2>1, <2>3, <2>4, MakeSpaceLemma
    <2>6. \A y \in D : s[y].position = Standing(t, x, p, n, y)
      BY <1>1, <1>2, <2>1, <2>2, <2>5 DEF Standing
    <2> QED
      BY <2>1, <2>5, <2>6 DEF s
  <1>3. CASE old.parent = p /\ n < old.position
    <2>1. s = Shift(t, p, n..(old.position - 1), 1)
      BY <1>3 DEF ShiftPositions
    <2> HIDE DEF s
    <2>2. /\ s \in [D -> LooseRow]
          /\ \A y \in D :
               /\ s[y].parent = t[y].parent
               /\ s[y].position = IF t[y].parent = p /\ t[y].position \in n..(old.position - 1)
                                  THEN t[y].position + 1 ELSE t[y].position
      BY <1>1, <2>1, ShiftLemma
    <2>3. \A y \in D : t[y].position \in n..(old.position - 1)
                         <=> n <= t[y].position /\ t[y].position < old.position
      BY <1>1
    <2>4. \A y \in D : s[y].position = Standing(t, x, p, n, y)
      BY <1>3, <2>2, <2>3 DEF Standing
    <2> QED
      BY <2>2, <2>4 DEF s
  <1>4. CASE old.parent = p /\ ~ (n < old.position)
    <2>1. s = Shift(t, p, (old.position + 1)..n, -1)
      BY <1>4 DEF ShiftPositions
    <2> HIDE DEF s
    <2>2. /\ s \in [D -> LooseRow]
          /\ \A y \in D :
               /\ s[y].parent = t[y].parent
               /\ s[y].position = IF t[y].parent = p /\ t[y].position \in (old.position + 1)..n
                                  THEN t[y].position + (-1) ELSE t[y].position
      <3>1. -1 \in Int
        OBVIOUS
      <3> QED
        BY <1>1, <2>1, <3>1, ShiftLemma
    <2>3. \A y \in D : t[y].position \in (old.position + 1)..n
                         <=> old.position < t[y].position /\ t[y].position <= n
      BY <1>1
    <2>4. \A y \in D : s[y].position = Standing(t, x, p, n, y)
      BY <1>1, <1>4, <2>2, <2>3 DEF Standing
    <2> QED
      BY <2>2, <2>4 DEF s
  <1> QED
    BY <1>2, <1>3, <1>4

\* A numbered table has no position beyond the ones that are shifted.
LEMMA BelowTop ==
  ASSUME NEW D \in {Folders, Requests}, NEW t, Numbered(t, D), NEW x \in D, t[x].parent # Absent
  PROVE  t[x].position \in Nat /\ t[x].position < Top
  <1>1. IsFiniteSet(D)
    BY FiniteAssumption
  <1>2. /\ t[x].position < Cardinality(RowsIn(t, t[x].parent))
        /\ t[x].position \in Nat
    BY DEF Numbered, Row
  <1>3. /\ Cardinality(RowsIn(t, t[x].parent)) <= Cardinality(D)
        /\ Cardinality(RowsIn(t, t[x].parent)) \in Nat
    BY <1>1, NumberedLemma
  <1> QED
    BY <1>2, <1>3, TopLemma

Moved(t, x, p, n) == [ShiftPositions(t, x, p, n) EXCEPT ![x] = At(p, n)]

\* A row that moves finds its position free, and as many rows before it as it asked
\* for, or all of them.
LEMMA MoveLemma ==
  ASSUME NEW D \in {Folders, Requests}, NEW t, Numbered(t, D),
         NEW x \in D, t[x].parent # Absent, NEW p \in Parents, NEW n \in 0..MaxPosition
  PROVE  /\ Loose(Moved(t, x, p, n), D)
         /\ Moved(t, x, p, n)[x].parent = p
         /\ \A y \in D \ {x} : Moved(t, x, p, n)[y].parent = t[y].parent
         /\ LET last == Cardinality(RowsIn(Moved(t, x, p, n), p)) - 1
            IN  Rank(Moved(t, x, p, n), x) = IF n < last THEN n ELSE last
  <1> DEFINE m == Moved(t, x, p, n)
             old == t[x]
  <1>0. /\ IsFiniteSet(D) /\ n \in Nat /\ p # Absent
        /\ t \in [D -> Row] /\ DOMAIN t = D /\ Untied(t)
        /\ \A y \in D : t[y].position \in Nat /\ t[y].parent \in Parents \union {Absent}
    BY FiniteAssumption DEF Numbered, Row, Parents
  <1>1. /\ ShiftPositions(t, x, p, n) \in [D -> LooseRow]
        /\ \A y \in D :
             /\ ShiftPositions(t, x, p, n)[y].parent = t[y].parent
             /\ ShiftPositions(t, x, p, n)[y].position = Standing(t, x, p, n, y)
    <2>1. \A y \in D : t[y].parent # Absent => t[y].position <= Top
      BY BelowTop, TopLemma, <1>0
    <2> QED
      BY <1>0, <2>1, ShiftPositionsLemma
  <1>2. /\ m \in [D -> LooseRow] /\ DOMAIN m = D
        /\ m[x].parent = p /\ m[x].position = n
        /\ \A y \in D \ {x} : /\ m[y].parent = t[y].parent
                              /\ m[y].position = Standing(t, x, p, n, y)
    <2>1. At(p, n) \in LooseRow /\ At(p, n).parent = p /\ At(p, n).position = n
      BY <1>0 DEF At, LooseRow
    <2> QED
      BY <1>1, <2>1 DEF Moved
  <1> HIDE DEF m
  <1>3. \A y, z \in D : y # z /\ t[y].parent # Absent /\ t[y].parent = t[z].parent =>
          t[y].position # t[z].position
    BY <1>0 DEF Untied
  <1>4. ASSUME NEW y \in D \ {x}, m[y].parent = p
        PROVE  m[y].position # n
    <2>1. t[y].parent = p /\ m[y].position = Standing(t, x, p, n, y)
      BY <1>2, <1>4
    <2>2. old.parent = p => t[y].position # old.position
      BY <1>0, <1>3, <2>1
    <2> QED
      BY <1>0, <2>1, <2>2 DEF Standing
  <1>5. ASSUME NEW y \in D \ {x}, NEW z \in D \ {x}, y # z,
               m[y].parent = m[z].parent, m[y].parent # Absent
        PROVE  m[y].position # m[z].position
    <2>1. /\ t[y].parent = t[z].parent /\ t[y].position # t[z].position
          /\ m[y].position = Standing(t, x, p, n, y)
          /\ m[z].position = Standing(t, x, p, n, z)
      BY <1>2, <1>3, <1>5
    <2>2. t[y].parent = old.parent =>
            t[y].position # old.position /\ t[z].position # old.position
      BY <1>0, <1>3, <2>1
    <2> QED
      BY <1>0, <2>1, <2>2 DEF Standing
  <1>6. Untied(m)
    BY <1>2, <1>4, <1>5 DEF Untied
  <1>7. \A y \in D : m[y].parent = Absent => m[y].position \in Nat
    BY <1>0, <1>2 DEF Standing
  <1>8. Loose(m, D)
    BY <1>2, <1>6, <1>7 DEF Loose
  <1> DEFINE I == RowsIn(t, p)
             k == Cardinality(I)
             last == Cardinality(RowsIn(m, p)) - 1
             r == IF n < last THEN n ELSE last
             L == {y \in RowsIn(m, p) : m[y].position < n}
             q == [y \in D |-> m[y].position]
  <1>9. /\ IsFiniteSet(I) /\ k \in Nat /\ {t[y].position : y \in I} = 0..(k - 1)
        /\ I \subseteq D /\ \A y \in D : y \in I <=> t[y].parent = p
    <2>1. \A y \in D : y \in I <=> t[y].parent = p
      BY <1>0 DEF RowsIn
    <2> QED
      BY <1>0, <2>1, NumberedLemma
  <1>10. RowsIn(m, p) = I \union {x}
    BY <1>2, <1>9 DEF RowsIn
  <1>11. last = IF old.parent = p THEN k - 1 ELSE k
    <2>1. Cardinality(I \union {x}) = IF x \in I THEN k ELSE k + 1
      BY <1>9, FS_AddElement
    <2>2. Cardinality(RowsIn(m, p)) = IF old.parent = p THEN k ELSE k + 1
      BY <1>9, <1>10, <2>1
    <2> HIDE DEF I, k
    <2> QED
      BY <1>9, <2>2
  <1>12. k > 0 \/ old.parent # p
    <2>1. old.parent = p => I # {}
      BY <1>9
    <2> QED
      BY <1>9, <2>1, FS_EmptySet
  <1> HIDE DEF k, last
  <1>13. r \in Nat
    BY <1>0, <1>9, <1>11, <1>12
  <1>14. ASSUME NEW y \in L
         PROVE  q[y] \in 0..(r - 1)
    <2>1. /\ y \in D /\ y # x /\ t[y].parent = p /\ m[y].position < n
          /\ m[y].position = Standing(t, x, p, n, y) /\ q[y] = m[y].position
      BY <1>0, <1>2, <1>9, <1>10
    <2>2. t[y].position \in 0..(k - 1)
      BY <1>9, <2>1
    <2>3. old.parent = p => old.position \in 0..(k - 1) /\ t[y].position # old.position
      BY <1>0, <1>3, <1>9, <2>1
    <2>4. m[y].position >= 0 /\ m[y].position < r
      BY <1>0, <1>9, <1>11, <2>1, <2>2, <2>3 DEF Standing
    <2>5. m[y].position \in Int
      BY <1>2, <2>1 DEF LooseRow
    <2> HIDE DEF r, q
    <2> QED
      BY <1>13, <2>1, <2>4, <2>5
  <1>15. ASSUME NEW i \in 0..(r - 1)
         PROVE  \E y \in L : q[y] = i
    <2> DEFINE j == IF old.parent = p /\ old.position <= n /\ old.position <= i THEN i + 1 ELSE i
    <2>0. i \in Nat /\ i < n /\ i < last
      BY <1>0, <1>9, <1>11, <1>13
    <2>1. j \in 0..(k - 1)
      BY <1>0, <1>9, <1>11, <2>0
    <2>2. PICK y \in I : t[y].position = j
      BY <1>9, <2>1
    <2>3. y \in D /\ t[y].parent = p
      BY <1>9
    <2>4. y # x
      BY <1>0, <2>0, <2>2, <2>3
    <2>5. m[y].position = Standing(t, x, p, n, y)
      BY <1>2, <2>3, <2>4
    <2>6. Standing(t, x, p, n, y) = i
      BY <1>0, <2>0, <2>2, <2>3 DEF Standing
    <2>7. y \in L /\ q[y] = i
      BY <1>10, <2>0, <2>3, <2>5, <2>6
    <2> QED
      BY <2>7
  <1>16. \A y, z \in L : q[y] = q[z] => y = z
    <2>1. \A y \in L : y \in D /\ m[y].parent = p /\ q[y] = m[y].position
      BY <1>2, <1>9, <1>10
    <2> HIDE DEF L, q
    <2> QED
      BY <1>0, <1>2, <1>6, <2>1 DEF Untied
  <1>17. {q[y] : y \in L} = 0..(r - 1)
    <2> HIDE DEF L, q, r
    <2> QED
      BY <1>14, <1>15
  <1>18. Cardinality(L) = r
    <2> HIDE DEF L, q, r
    <2> QED
      BY <1>13, <1>16, <1>17, CountLemma
  <1>19. Rank(m, x) = Cardinality(L)
    BY <1>2 DEF Rank
  <1> QED
    BY <1>2, <1>8, <1>18, <1>19 DEF m, last

\* In a row that is moved, copied or written nothing stands at its position.
LEMMA SpaceLemma ==
  ASSUME NEW D \in {Folders, Requests}, NEW t, Numbered(t, D), NEW p \in Parents, NEW n \in Nat
  PROVE  /\ MakeSpace(t, p, n) \in [D -> LooseRow]
         /\ \A y \in D :
              /\ MakeSpace(t, p, n)[y].parent = t[y].parent
              /\ MakeSpace(t, p, n)[y].position =
                   IF t[y].parent = p /\ n <= t[y].position THEN t[y].position + 1
                   ELSE t[y].position
  <1>1. t \in [D -> LooseRow] /\ p # Absent
    BY DEF Numbered, Row, LooseRow, Parents
  <1>2. \A y \in D : t[y].parent = p => t[y].position <= Top
    BY <1>1, BelowTop, TopLemma
  <1> QED
    BY <1>1, <1>2, MakeSpaceLemma

\* What making room at the position n of p does to the rows of a table.
Spaced(s, t, D, p, n) ==
  \A y \in D :
    /\ s[y].parent = t[y].parent
    /\ s[y].position = IF t[y].parent = p /\ n <= t[y].position THEN t[y].position + 1
                       ELSE t[y].position

\* Where room was made no row is left, and there are no ties.
LEMMA SpacedLemma ==
  ASSUME NEW D, NEW t, Numbered(t, D), NEW p, NEW n \in Nat, NEW s, Spaced(s, t, D, p, n)
  PROVE  /\ \A y, z \in D :
              s[y].parent = s[z].parent /\ s[y].parent # Absent /\ s[y].position = s[z].position
              => y = z
         /\ \A y \in D : s[y].parent = p => s[y].position # n
         /\ \A y \in D : s[y].position \in Nat
  <1>1. \A y \in D : t[y].position \in Nat
    BY DEF Numbered, Row
  <1>2. ASSUME NEW y \in D, NEW z \in D, s[y].parent = s[z].parent, s[y].parent # Absent,
               s[y].position = s[z].position
        PROVE  y = z
    <2>1. t[y].parent = t[z].parent /\ t[y].parent # Absent
      BY <1>2 DEF Spaced
    <2>2. /\ s[y].position = IF t[y].parent = p /\ n <= t[y].position THEN t[y].position + 1
                             ELSE t[y].position
          /\ s[z].position = IF t[z].parent = p /\ n <= t[z].position THEN t[z].position + 1
                             ELSE t[z].position
      BY DEF Spaced
    <2>3. /\ t[y].position \in Nat /\ t[z].position \in Nat
          /\ t[y].parent = p <=> t[z].parent = p
      BY <1>1, <2>1
    <2>3a. t[y].position = t[z].position
      <3> DEFINE a == t[y].position
                 b == t[z].position
                 here == t[y].parent = p
      <3>1. (IF here /\ n <= a THEN a + 1 ELSE a) = (IF here /\ n <= b THEN b + 1 ELSE b)
        BY <1>2, <2>2, <2>3
      <3>2. a \in Nat /\ b \in Nat
        BY <2>3
      <3> HIDE DEF a, b, here
      <3>3. a = b
        BY ONLY <3>1, <3>2, n \in Nat
      <3> QED
        BY <3>3 DEF a, b
    <2>4. Untied(t) /\ DOMAIN t = D
      BY DEF Numbered
    <2> QED
      BY <2>1, <2>3a, <2>4 DEF Untied
  <1>3. \A y \in D : (s[y].parent = p => s[y].position # n) /\ s[y].position \in Nat
    BY <1>1 DEF Spaced
  <1> QED
    BY <1>2, <1>3

\* Without some of its rows a table still has no ties.
LEMMA EraseLemma ==
  ASSUME NEW D, NEW t, Numbered(t, D), NEW gone
  PROVE  /\ Loose(Erase(t, gone), D)
         /\ \A y \in D : Erase(t, gone)[y].parent = IF y \in gone THEN Absent ELSE t[y].parent
  <1> DEFINE e == Erase(t, gone)
  <1>1. /\ t \in [D -> Row] /\ DOMAIN t = D /\ Untied(t)
        /\ e = [x \in D |-> IF x \in gone THEN NoRow ELSE t[x]]
    BY DEF Numbered, Erase
  <1>2. NoRow \in LooseRow /\ NoRow.parent = Absent /\ NoRow.position \in Nat
    BY DEF NoRow, LooseRow
  <1>3. \A y \in D : t[y] \in LooseRow /\ t[y].position \in Nat
    BY <1>1 DEF Row, LooseRow
  <1>4. \A y \in D : e[y] = IF y \in gone THEN NoRow ELSE t[y]
    BY <1>1
  <1>5. e \in [D -> LooseRow] /\ DOMAIN e = D
    BY <1>1, <1>2, <1>3
  <1> HIDE DEF e
  <1>6. Untied(e)
    BY <1>1, <1>2, <1>4, <1>5 DEF Untied
  <1>7. Loose(e, D)
    BY <1>2, <1>3, <1>4, <1>5, <1>6 DEF Loose
  <1>8. \A y \in D : e[y].parent = IF y \in gone THEN Absent ELSE t[y].parent
    BY <1>2, <1>4
  <1> QED
    BY <1>7, <1>8 DEF e

\* A new row goes behind all others of its folder.
LEMMA AddLemma ==
  ASSUME NEW D, IsFiniteSet(D), NEW t, Numbered(t, D), NEW x \in D, t[x].parent = Absent,
         NEW p \in Parents
  PROVE  Numbered([t EXCEPT ![x] = At(p, NextPosition(t, p))], D)
  <1> DEFINE I == RowsIn(t, p)
             k == Cardinality(I)
             P == {t[y].position : y \in I}
             Highest(h) == \A y \in I : t[y].position <= h
  <1>0. /\ t \in [D -> Row] /\ DOMAIN t = D /\ Untied(t) /\ p # Absent
        /\ \A y \in D : t[y].position \in Nat
    BY DEF Numbered, Row, Parents
  <1>1. IsFiniteSet(I) /\ k \in Nat /\ P = 0..(k - 1) /\ \A y \in D : y \in I <=> t[y].parent = p
    <2>1. IsFiniteSet(I) /\ k \in Nat /\ P = 0..(k - 1)
      BY <1>0, NumberedLemma
    <2>2. \A y \in D : y \in I <=> t[y].parent = p
      BY <1>0 DEF RowsIn
    <2> QED
      BY <2>1, <2>2
  <1>2. NextPosition(t, p) = k
    <2>1. CASE I = {}
      BY <2>1, FS_EmptySet DEF NextPosition
    <2>2. CASE I # {}
      <3>1. k > 0
        BY <1>1, <2>2, FS_EmptySet
      <3> DEFINE top == CHOOSE h \in P : Highest(h)
      <3>2. NextPosition(t, p) = 1 + top
        BY <2>2 DEF NextPosition
      <3>3. \A y \in I : t[y].position \in 0..(k - 1)
        BY <1>1
      <3>4. PICK z \in I : t[z].position = k - 1
        <4>1. k - 1 \in P
          <5> HIDE DEF k, P
          <5> QED
            BY <1>1, <3>1
        <4> QED
          BY <4>1
      <3>5. k - 1 \in P /\ Highest(k - 1)
        <4>1. Highest(k - 1)
          <5> HIDE DEF k, I
          <5> QED
            BY <1>1, <3>3
        <4> QED
          BY <3>4, <4>1
      <3>6. ASSUME NEW h \in P, Highest(h) PROVE h = k - 1
        <4>1. h \in 0..(k - 1)
          BY <1>1
        <4>2. k - 1 <= h
          BY <3>4, <3>6
        <4> HIDE DEF k, P, Highest
        <4> QED
          BY <1>1, <4>1, <4>2
      <3>7. top = k - 1
        <4> HIDE DEF k, P, Highest
        <4> QED
          BY ONLY <3>5, <3>6
      <3> HIDE DEF top, k
      <3> QED
        BY <1>1, <3>2, <3>7
    <2> QED
      BY <2>1, <2>2
  <1> DEFINE a == [t EXCEPT ![x] = At(p, k)]
  <1>3. /\ a \in [D -> Row] /\ DOMAIN a = D /\ a[x].parent = p /\ a[x].position = k
        /\ \A y \in D \ {x} : a[y] = t[y]
    <2>1. At(p, k) \in Row /\ At(p, k).parent = p /\ At(p, k).position = k
      BY <1>1 DEF At, Row
    <2> HIDE DEF k
    <2> QED
      BY <1>0, <2>1
  <1> HIDE DEF a, k
  <1>4. ASSUME NEW y \in D, NEW z \in D, a[y].parent = a[z].parent, a[y].parent # Absent,
               a[y].position = a[z].position
        PROVE  y = z
    <2>1. \A v \in D \ {x} : a[v].parent = p => a[v].position \in 0..(k - 1)
      BY <1>1, <1>3
    <2>2. \A v \in D \ {x} : a[v].parent = p => a[v].position # k
      BY <1>1, <2>1
    <2>3. CASE y # x /\ z # x
      BY <1>0, <1>3, <1>4, <2>3 DEF Untied
    <2>4. CASE y = x \/ z = x
      BY <1>3, <1>4, <2>2, <2>4
    <2> QED
      BY <2>3, <2>4
  <1>5. ASSUME NEW y \in D, a[y].parent # Absent
        PROVE  a[y].position < Cardinality(RowsIn(a, a[y].parent))
    <2>1. CASE a[y].parent = p
      <3>1. RowsIn(a, p) = I \union {x}
        BY <1>0, <1>1, <1>3 DEF RowsIn
      <3>2. x \notin I
        BY <1>0, <1>1
      <3>3. Cardinality(RowsIn(a, p)) = k + 1
        BY <1>1, <3>1, <3>2, FS_AddElement DEF k
      <3>4. y # x => t[y].position \in 0..(k - 1)
        BY <1>1, <1>3, <2>1
      <3>5. a[y].position <= k
        BY <1>1, <1>3, <3>4
      <3>6. a[y].position \in Nat
        BY <1>3 DEF Row
      <3> QED
        BY <1>1, <2>1, <3>3, <3>5, <3>6
    <2>2. CASE a[y].parent # p
      <3>1. y # x /\ a[y] = t[y]
        BY <1>3, <2>2
      <3>2. RowsIn(a, a[y].parent) = RowsIn(t, t[y].parent)
        BY <1>0, <1>3, <1>5, <2>2, <3>1 DEF RowsIn
      <3> QED
        BY <1>5, <3>1, <3>2 DEF Numbered
    <2> QED
      BY <2>1, <2>2
  <1> QED
    BY <1>2, <1>3, <1>4, <1>5 DEF Numbered, Untied, a

-----------------------------------------------------------------------------
(* The tree *)

\* The depth of a folder is more than that of the folder it is in.
Deeper(depth) ==
  \A f \in Rows(folderRows) :
    folderRows[f].parent # Root => depth[folderRows[f].parent] < depth[f]

Hangs ==
  /\ DOMAIN folderRows = Folders
  /\ \A f \in Rows(folderRows) : Known(folderRows[f].parent)
  /\ \E depth \in [Folders -> Nat] : Deeper(depth)

LEMMA NatMin ==
  ASSUME NEW T \in SUBSET Nat, T # {}
  PROVE  \E m \in T : \A n \in T : m <= n
  <1> DEFINE Less == {ss \in Nat \X Nat : ss[1] < ss[2]}
  <1>0. IsWellFoundedOn(Less, Nat)
    BY NatLessThanWellFounded DEF OpToRel
  <1>1. \A n, k \in Nat : n < k => <<n, k>> \in Less
    OBVIOUS
  <1> HIDE DEF Less
  <1>1a. \E m \in T : \A n \in T : ~ (<<n, m>> \in Less)
    BY <1>0, WFMin
  <1>2. PICK m \in T : \A n \in T : ~ (<<n, m>> \in Less)
    BY <1>1a
  <1>3. ASSUME NEW n \in T PROVE m <= n
    <2>1. m \in Nat /\ n \in Nat
      OBVIOUS
    <2>2. ~ (n < m)
      BY <1>1, <1>2, <2>1
    <2> QED
      BY <2>1, <2>2
  <1> QED
    BY <1>3

\* The walk over the parents.
Up(x) == IF x \in Folders THEN folderRows[x].parent ELSE Root
Walk(p, up, k) == [n \in 0..k |-> IF n = 0 THEN p ELSE Up(up[n - 1])]

LEMMA WalkExists == ASSUME NEW p, NEW k \in Nat PROVE \E up : up = Walk(p, up, k)
  <1> DEFINE T == {n \in Nat : ~ \E up : up = Walk(p, up, n)}
  <1>1. ASSUME T # {} PROVE FALSE
    <2>1. PICK m \in T : \A n \in T : m <= n
      BY <1>1, NatMin
    <2>2. m \in Nat /\ ~ \E up : up = Walk(p, up, m)
      OBVIOUS
    <2>3. m # 0
      <3>1. [n \in 0..0 |-> p] = Walk(p, [n \in 0..0 |-> p], 0)
        BY DEF Walk
      <3> QED
        BY <2>2, <3>1
    <2>4. m - 1 \in Nat /\ m - 1 \notin T
      BY <2>1, <2>2, <2>3
    <2>5. PICK up : up = Walk(p, up, m - 1)
      BY <2>4
    <2> DEFINE longer == [n \in 0..m |-> IF n < m THEN up[n] ELSE Up(up[m - 1])]
    <2>6. longer = Walk(p, longer, m)
      <3>1. ASSUME NEW n \in 0..m
            PROVE  longer[n] = IF n = 0 THEN p ELSE Up(longer[n - 1])
        <4>1. CASE n = m
          <5>1. longer[n] = Up(up[m - 1]) /\ longer[n - 1] = up[m - 1] /\ n # 0
            BY <2>2, <2>3, <4>1
          <5> QED
            BY <4>1, <5>1
        <4>2. CASE n < m
          <5>1. n \in 0..(m - 1) /\ longer[n] = up[n]
            BY <2>2, <4>2
          <5>2. up[n] = IF n = 0 THEN p ELSE Up(up[n - 1])
            BY <2>5, <5>1 DEF Walk
          <5>3. n # 0 => longer[n - 1] = up[n - 1]
            BY <2>2, <4>2
          <5> QED
            BY <5>1, <5>2, <5>3
        <4> QED
          BY <2>2, <4>1, <4>2
      <3>2. longer = [n \in 0..m |-> longer[n]]
        OBVIOUS
      <3> HIDE DEF longer
      <3> QED
        BY <3>1, <3>2 DEF Walk
    <2> QED
      BY <2>2, <2>6
  <1> QED
    BY <1>1

LEMMA AncestorsWalk ==
  ASSUME NEW p
  PROVE  \E up : /\ up = Walk(p, up, Cardinality(Folders))
                 /\ Ancestors(p) = {up[n] : n \in 0..Cardinality(Folders)} \ {Root}
  <1> DEFINE N == Cardinality(Folders)
             up == CHOOSE f : f = Walk(p, f, N)
  <1>1. up = Walk(p, up, N)
    <2>1. \E f : f = Walk(p, f, N)
      BY WalkExists, TopLemma
    <2> HIDE DEF N
    <2> QED
      BY <2>1, Zenon
  <1>2. Ancestors(p) = {up[n] : n \in 0..N} \ {Root}
    BY DEF Ancestors, Walk, Up
  <1> HIDE DEF up
  <1> QED
    BY <1>1, <1>2

\* The walk goes up all the way: it takes no more steps than there are folders.
LEMMA WalkLemma ==
  ASSUME Hangs, NEW depth \in [Folders -> Nat], Deeper(depth),
         NEW p \in Rows(folderRows) \union {Root},
         NEW up, up = Walk(p, up, Cardinality(Folders))
  PROVE  /\ up[0] = p
         /\ \A n \in 0..Cardinality(Folders) : up[n] \in Rows(folderRows) \union {Root}
         /\ \A n \in 1..Cardinality(Folders) : up[n] = Up(up[n - 1])
         /\ \A n \in 0..Cardinality(Folders) : up[n] # Root => depth[up[n]] <= depth[p] /\ p # Root
         /\ up[Cardinality(Folders)] = Root
  <1> DEFINE N == Cardinality(Folders)
  <1>0. /\ N \in Nat
        /\ Rows(folderRows) \in SUBSET Folders /\ Root \notin Folders
    BY TopLemma DEF Hangs, Rows
  <1>1. /\ up[0] = p
        /\ \A n \in 1..N : up[n] = Up(up[n - 1])
        /\ \A n \in 0..(N - 1) : up[n + 1] = Up(up[n])
    <2>1. \A n \in 0..N : up[n] = IF n = 0 THEN p ELSE Up(up[n - 1])
      BY DEF Walk
    <2> HIDE DEF N
    <2> QED
      BY <1>0, <2>1
  <1>2. /\ Up(Root) = Root
        /\ \A f \in Rows(folderRows) : Up(f) \in Rows(folderRows) \union {Root}
        /\ \A f \in Rows(folderRows) : Up(f) # Root => depth[Up(f)] < depth[f]
    BY <1>0 DEF Up, Hangs, Known, Deeper
  <1> HIDE DEF N
  <1> DEFINE R == Rows(folderRows) \union {Root}
             Good(i, n) == /\ up[n] \in R
                           /\ up[n] # Root => up[i] # Root /\ depth[up[n]] <= depth[up[i]]
                           /\ up[n] # Root /\ i < n => depth[up[n]] < depth[up[i]]
  <1>3. ASSUME NEW i \in 0..N, up[i] \in R
        PROVE  \A n \in i..N : Good(i, n)
    <2> DEFINE T == {n \in i..N : ~ Good(i, n)}
    <2>1. ASSUME T # {} PROVE FALSE
      <3>1. T \in SUBSET Nat
        BY <1>0
      <3>2. PICK m \in T : \A n \in T : m <= n
        BY <2>1, <3>1, NatMin
      <3>3. m \in i..N /\ ~ Good(i, m) /\ m \in Nat
        BY <1>0
      <3>4. depth[up[i]] <= depth[up[i]] \/ up[i] = Root
        BY <1>0, <1>3
      <3>5. m # i
        BY <1>0, <1>3, <3>3, <3>4
      <3>6. m - 1 \in i..N /\ m - 1 \notin T /\ m - 1 \in 0..(N - 1) /\ (m - 1) + 1 = m
        BY <1>0, <3>2, <3>3, <3>5
      <3>7. Good(i, m - 1) /\ up[m] = Up(up[m - 1])
        BY <1>1, <3>6
      <3>8. up[m] \in R /\ (up[m] # Root => up[m - 1] # Root /\ depth[up[m]] < depth[up[m - 1]])
        BY <1>2, <3>7
      <3>9. up[m] # Root => /\ up[i] # Root /\ depth[up[m]] < depth[up[i]]
                            /\ depth[up[m]] <= depth[up[i]]
        <4> SUFFICES ASSUME up[m] # Root
                     PROVE  /\ up[i] # Root /\ depth[up[m]] < depth[up[i]]
                            /\ depth[up[m]] <= depth[up[i]]
          OBVIOUS
        <4>1. /\ up[i] # Root /\ depth[up[m - 1]] <= depth[up[i]]
              /\ depth[up[m]] < depth[up[m - 1]]
          BY <3>7, <3>8
        <4>2. depth[up[m]] \in Nat /\ depth[up[m - 1]] \in Nat /\ depth[up[i]] \in Nat
          BY <1>0, <1>3, <3>7, <3>8, <4>1
        <4> QED
          BY <4>1, <4>2
      <3> QED
        BY <3>3, <3>8, <3>9
    <2> QED
      BY <2>1
  <1>4. 0 \in 0..N /\ up[0] \in R
    BY <1>0, <1>1
  <1>5. \A n \in 0..N : Good(0, n)
    BY <1>3, <1>4
  <1>6. up[N] = Root
    <2> SUFFICES ASSUME up[N] # Root PROVE FALSE
      OBVIOUS
    <2>1. \A n \in 0..N : up[n] \in Rows(folderRows)
      <3>1. ASSUME NEW n \in 0..N PROVE up[n] \in Rows(folderRows)
        <4>1. N \in n..N /\ up[n] \in R
          BY <1>0, <1>5
        <4>2. Good(n, N)
          BY <1>3, <4>1
        <4> QED
          BY <4>1, <4>2
      <3> QED
        BY <3>1
    <2> DEFINE f == [n \in 0..N |-> up[n]]
    <2>2. f \in [0..N -> Folders] /\ \A n \in 0..N : f[n] = up[n]
      BY <1>0, <2>1
    <2>3. IsFiniteSet(Folders) /\ Cardinality(Folders) = N
      BY FiniteAssumption DEF N
    <2>4. IsFiniteSet(0..N) /\ Cardinality(0..N) = N + 1
      <3>1. 0 \in Int /\ N \in Int
        BY <1>0
      <3>2. IsFiniteSet(0..N) /\ Cardinality(0..N) = IF 0 > N THEN 0 ELSE N - 0 + 1
        BY <3>1, FS_Interval
      <3> QED
        BY <1>0, <3>2
    <2> HIDE DEF f
    <2>5. PICK x, y \in 0..N : x # y /\ f[x] = f[y]
      <3> DEFINE I == 0..N
      <3>1. Cardinality(Folders) < Cardinality(I)
        BY <1>0, <2>3, <2>4
      <3>2. f \in [I -> Folders] /\ IsFiniteSet(I)
        BY <2>2, <2>4
      <3> HIDE DEF I
      <3>3. \E x, y \in I : x # y /\ f[x] = f[y]
        BY <2>3, <3>1, <3>2, FS_PigeonHole
      <3> QED
        BY <3>3 DEF I
    <2>6. ASSUME NEW i \in 0..N, NEW j \in 0..N, i < j
          PROVE  f[i] # f[j]
      <3>1. j \in i..N /\ up[i] \in R
        BY <1>0, <1>5, <2>6
      <3>2. Good(i, j)
        BY <1>3, <3>1
      <3>3. up[j] # Root /\ depth[up[i]] \in Nat
        BY <1>0, <2>1
      <3> QED
        BY <2>2, <2>6, <3>2, <3>3
    <2>7. x < y \/ y < x
      BY <1>0, <2>5
    <2> QED
      BY <2>5, <2>6, <2>7
  <1> QED
    BY <1>1, <1>5, <1>6 DEF N

\* The ancestors of a folder are itself and those of its parent.
LEMMA AncestorsLemma ==
  ASSUME Hangs, NEW depth \in [Folders -> Nat], Deeper(depth)
  PROVE  /\ Ancestors(Root) = {}
         /\ \A p \in Rows(folderRows) :
              /\ Ancestors(p) = {p} \union Ancestors(folderRows[p].parent)
              /\ Ancestors(p) \subseteq Rows(folderRows)
              /\ \A q \in Ancestors(p) : depth[q] <= depth[p]
  <1> DEFINE N == Cardinality(Folders)
  <1>0. N \in Nat /\ Root \notin Rows(folderRows) /\ Rows(folderRows) \in SUBSET Folders
    BY TopLemma DEF Hangs, Rows
  <1>1. Ancestors(Root) = {}
    <2>1. PICK up : /\ up = Walk(Root, up, N)
                    /\ Ancestors(Root) = {up[n] : n \in 0..N} \ {Root}
      BY AncestorsWalk
    <2>2. \A n \in 0..N : up[n] = Root
      BY <2>1, WalkLemma
    <2> HIDE DEF N
    <2> QED
      BY <2>1, <2>2
  <1>2. ASSUME NEW p \in Rows(folderRows)
        PROVE  /\ Ancestors(p) = {p} \union Ancestors(folderRows[p].parent)
               /\ Ancestors(p) \subseteq Rows(folderRows)
               /\ \A q \in Ancestors(p) : depth[q] <= depth[p]
    <2> DEFINE q == folderRows[p].parent
    <2>1. PICK up : /\ up = Walk(p, up, N)
                    /\ Ancestors(p) = {up[n] : n \in 0..N} \ {Root}
      BY AncestorsWalk
    <2>2. PICK vp : /\ vp = Walk(q, vp, N)
                    /\ Ancestors(q) = {vp[n] : n \in 0..N} \ {Root}
      BY AncestorsWalk
    <2>3. q \in Rows(folderRows) \union {Root} /\ q = Up(p) /\ p # Root
      BY <1>0 DEF Hangs, Known, Up
    <2>4. /\ up[0] = p /\ \A n \in 1..N : up[n] = Up(up[n - 1])
          /\ \A n \in 0..N : up[n] \in Rows(folderRows) \union {Root}
          /\ \A n \in 0..N : up[n] # Root => depth[up[n]] <= depth[p]
      BY <2>1, WalkLemma
    <2>5. /\ vp[0] = q /\ \A n \in 1..N : vp[n] = Up(vp[n - 1])
          /\ vp[N] = Root
      BY <2>2, <2>3, WalkLemma
    <2> HIDE DEF N, q
    <2>6. \A n \in 0..(N - 1) : vp[n] = up[n + 1]
      <3> DEFINE T == {n \in 0..(N - 1) : vp[n] # up[n + 1]}
      <3>1. ASSUME T # {} PROVE FALSE
        <4>1. T \in SUBSET Nat
          BY <1>0
        <4>2. PICK m \in T : \A n \in T : m <= n
          BY <3>1, <4>1, NatMin
        <4>3. m \in 0..(N - 1) /\ vp[m] # up[m + 1]
          OBVIOUS
        <4>4. m # 0
          <5>1. m = 0 => 1 \in 1..N /\ 1 - 1 = 0 /\ m + 1 = 1
            BY <1>0, <4>3
          <5>2. m = 0 => up[1] = Up(up[0])
            BY <2>4, <5>1
          <5> QED
            BY <2>3, <2>4, <2>5, <4>3, <5>1, <5>2
        <4>5. /\ m - 1 \in 0..(N - 1) /\ m - 1 \notin T /\ m \in 1..N
              /\ m + 1 \in 1..N /\ (m - 1) + 1 = m /\ (m + 1) - 1 = m
          BY <1>0, <4>2, <4>3, <4>4
        <4>6. vp[m] = Up(vp[m - 1]) /\ up[m + 1] = Up(up[m]) /\ vp[m - 1] = up[m]
          BY <2>4, <2>5, <4>5
        <4> QED
          BY <4>3, <4>6
      <3> QED
        BY <3>1
    <2>7. ASSUME NEW x PROVE x \in Ancestors(p) <=> x = p \/ x \in Ancestors(q)
      <3>1. ASSUME x \in Ancestors(p) PROVE x = p \/ x \in Ancestors(q)
        <4>1. PICK n \in 0..N : x = up[n] /\ x # Root
          BY <2>1, <3>1
        <4>2. CASE n = 0
          BY <2>4, <4>1, <4>2
        <4>3. CASE n # 0
          <5>1. n - 1 \in 0..(N - 1) /\ (n - 1) + 1 = n /\ n - 1 \in 0..N
            BY <1>0, <4>3
          <5>2. vp[n - 1] = up[n]
            BY <2>6, <5>1
          <5> QED
            BY <2>2, <4>1, <5>1, <5>2
        <4> QED
          BY <4>2, <4>3
      <3>2. ASSUME x \in Ancestors(q) PROVE x \in Ancestors(p)
        <4>1. PICK n \in 0..N : x = vp[n] /\ x # Root
          BY <2>2, <3>2
        <4>2. n # N
          BY <2>5, <4>1
        <4>3. n \in 0..(N - 1) /\ n + 1 \in 0..N
          BY <1>0, <4>2
        <4>4. vp[n] = up[n + 1]
          BY <2>6, <4>3
        <4> QED
          BY <2>1, <4>1, <4>3, <4>4
      <3>3. p \in Ancestors(p)
        BY <1>0, <2>1, <2>3, <2>4
      <3> QED
        BY <3>1, <3>2, <3>3
    <2>8. Ancestors(p) = {p} \union Ancestors(q)
      BY <2>7
    <2>9. \A x \in Ancestors(p) : x \in Rows(folderRows) /\ depth[x] <= depth[p]
      BY <2>1, <2>4
    <2> QED
      BY <2>8, <2>9 DEF q
  <1> QED
    BY <1>1, <1>2

\* What hangs from a folder hangs from it through its parent.
LEMMA SubtreeLemma ==
  ASSUME Hangs, NEW f \in Rows(folderRows)
  PROVE  /\ f \in Subtree(f) /\ Subtree(f) \subseteq Rows(folderRows)
         /\ folderRows[f].parent \notin Subtree(f)
         /\ \A g \in Rows(folderRows) \ {f} : g \in Subtree(f) <=> folderRows[g].parent \in Subtree(f)
         /\ \A p \in Subtree(f) : ~ MayMove(f, p)
  <1>0. PICK depth \in [Folders -> Nat] : Deeper(depth)
    BY DEF Hangs
  <1>1. /\ Ancestors(Root) = {}
        /\ \A p \in Rows(folderRows) :
             /\ Ancestors(p) = {p} \union Ancestors(folderRows[p].parent)
             /\ Ancestors(p) \subseteq Rows(folderRows)
             /\ \A q \in Ancestors(p) : depth[q] <= depth[p]
    BY <1>0, AncestorsLemma
  <1>2. \A g \in Rows(folderRows) : folderRows[g].parent \in Rows(folderRows) \union {Root}
    BY DEF Hangs, Known
  <1>3. Root \notin Rows(folderRows) /\ Rows(folderRows) \in SUBSET Folders
    BY DEF Hangs, Rows
  <1>4. f \notin Ancestors(folderRows[f].parent)
    <2>1. CASE folderRows[f].parent = Root
      BY <1>1, <2>1
    <2>2. CASE folderRows[f].parent # Root
      <3>1. folderRows[f].parent \in Rows(folderRows) /\ depth[folderRows[f].parent] < depth[f]
        BY <1>0, <1>2, <2>2 DEF Deeper
      <3>2. depth[folderRows[f].parent] \in Nat /\ depth[f] \in Nat
        BY <1>0, <1>3, <3>1
      <3> QED
        BY <1>1, <3>1, <3>2
    <2> QED
      BY <2>1, <2>2
  <1>5. ASSUME NEW g \in Rows(folderRows) \ {f}
        PROVE  g \in Subtree(f) <=> folderRows[g].parent \in Subtree(f)
    <2>1. f \in Ancestors(g) <=> f \in Ancestors(folderRows[g].parent)
      BY <1>1, <1>5
    <2> QED
      BY <1>1, <1>2, <1>3, <2>1 DEF Subtree
  <1> QED
    BY <1>1, <1>3, <1>4, <1>5 DEF Subtree, MayMove

\* Adding, moving, erasing and copying folders leaves them hanging from the workspace.
LEMMA AddHangs ==
  ASSUME Hangs, NEW f \in Folders, f \notin Rows(folderRows), NEW p, Known(p),
         DOMAIN folderRows' = Folders,
         \A g \in Folders : folderRows'[g].parent = IF g = f THEN p ELSE folderRows[g].parent
  PROVE  Hangs' /\ Rows(folderRows)' = Rows(folderRows) \union {f}
  <1>0. PICK depth \in [Folders -> Nat] : Deeper(depth)
    BY DEF Hangs
  <1>1. /\ p # Absent /\ p # f
        /\ p \in Rows(folderRows) \union {Root} /\ Rows(folderRows) \in SUBSET Folders
        /\ \A g \in Rows(folderRows) : folderRows[g].parent \in Rows(folderRows) \union {Root}
    BY DEF Hangs, Known, Rows
  <1>2. Rows(folderRows)' = Rows(folderRows) \union {f}
    BY <1>1 DEF Rows, Hangs
  <1>3. ASSUME NEW g \in Rows(folderRows)' PROVE Known(folderRows[g].parent)'
    BY <1>1, <1>2 DEF Known
  <1> DEFINE deep == [g \in Folders |-> IF g # f THEN depth[g]
                                        ELSE IF p = Root THEN 0 ELSE depth[p] + 1]
  <1>4. deep \in [Folders -> Nat]
    BY <1>0, <1>1
  <1>5. \A g \in Rows(folderRows)' :
          folderRows'[g].parent # Root => deep[folderRows'[g].parent] < deep[g]
    <2>1. ASSUME NEW g \in Rows(folderRows), folderRows[g].parent # Root
          PROVE  deep[folderRows'[g].parent] < deep[g]
      BY <1>0, <1>1, <2>1 DEF Deeper
    <2>2. p # Root => deep[p] < deep[f]
      BY <1>0, <1>1
    <2> HIDE DEF deep
    <2> QED
      BY <1>1, <1>2, <2>1, <2>2
  <1>6. \E dp \in [Folders -> Nat] : Deeper(dp)'
    BY <1>4, <1>5 DEF Deeper
  <1> QED
    BY <1>2, <1>3, <1>6 DEF Hangs

LEMMA MoveHangs ==
  ASSUME Hangs, NEW f \in Rows(folderRows), NEW p, Known(p), MayMove(f, p),
         DOMAIN folderRows' = Folders,
         \A g \in Folders : folderRows'[g].parent = IF g = f THEN p ELSE folderRows[g].parent
  PROVE  Hangs' /\ Rows(folderRows)' = Rows(folderRows)
  <1>0. PICK depth \in [Folders -> Nat] : Deeper(depth)
    BY DEF Hangs
  <1>1. /\ p # Absent /\ Root \notin Rows(folderRows)
        /\ p \in Rows(folderRows) \union {Root} /\ Rows(folderRows) \in SUBSET Folders
        /\ \A g \in Rows(folderRows) : folderRows[g].parent \in Rows(folderRows) \union {Root}
    BY DEF Hangs, Known, Rows
  <1>2. Rows(folderRows)' = Rows(folderRows)
    BY <1>1 DEF Rows, Hangs
  <1>3. ASSUME NEW g \in Rows(folderRows)' PROVE Known(folderRows[g].parent)'
    BY <1>1, <1>2 DEF Known
  <1> DEFINE more == IF p = Root THEN 0 ELSE depth[p] + 1
             deep == [g \in Folders |-> IF g \in Subtree(f) THEN depth[g] + more ELSE depth[g]]
  <1>4. deep \in [Folders -> Nat] /\ more \in Nat
    BY <1>0, <1>1
  <1>5. /\ f \in Subtree(f) /\ p \notin Subtree(f)
        /\ \A g \in Rows(folderRows) \ {f} :
             g \in Subtree(f) <=> folderRows[g].parent \in Subtree(f)
    BY SubtreeLemma
  <1>6. \A g \in Rows(folderRows)' :
          folderRows'[g].parent # Root => deep[folderRows'[g].parent] < deep[g]
    <2>1. ASSUME NEW g \in Rows(folderRows) \ {f}, folderRows[g].parent # Root
          PROVE  deep[folderRows[g].parent] < deep[g]
      <3>1. /\ folderRows[g].parent \in Folders /\ g \in Folders
            /\ depth[folderRows[g].parent] < depth[g]
            /\ depth[folderRows[g].parent] \in Nat /\ depth[g] \in Nat
        BY <1>0, <1>1, <2>1 DEF Deeper
      <3>2. /\ deep[folderRows[g].parent] = IF folderRows[g].parent \in Subtree(f)
              THEN depth[folderRows[g].parent] + more ELSE depth[folderRows[g].parent]
            /\ deep[g] = IF g \in Subtree(f) THEN depth[g] + more ELSE depth[g]
        BY <3>1
      <3> HIDE DEF deep, more
      <3> QED
        BY <1>4, <1>5, <3>1, <3>2
    <2>2. ASSUME p # Root PROVE deep[p] < deep[f]
      <3>1. depth[p] \in Nat /\ depth[f] \in Nat /\ p \in Folders /\ f \in Folders
        BY <1>0, <1>1, <2>2
      <3>2. deep[p] = depth[p] /\ deep[f] = depth[f] + more /\ more = depth[p] + 1
        BY <1>5, <2>2, <3>1
      <3> HIDE DEF deep, more
      <3> QED
        BY <3>1, <3>2
    <2> HIDE DEF deep
    <2> QED
      BY <1>1, <1>2, <2>1, <2>2
  <1>7. \E dp \in [Folders -> Nat] : Deeper(dp)'
    BY <1>4, <1>6 DEF Deeper
  <1> QED
    BY <1>2, <1>3, <1>7 DEF Hangs

LEMMA EraseHangs ==
  ASSUME Hangs, NEW f \in Rows(folderRows), DOMAIN folderRows' = Folders,
         \A g \in Folders :
           folderRows'[g].parent = IF g \in Subtree(f) THEN Absent ELSE folderRows[g].parent
  PROVE  Hangs' /\ Rows(folderRows)' = Rows(folderRows) \ Subtree(f)
  <1>0. PICK depth \in [Folders -> Nat] : Deeper(depth)
    BY DEF Hangs
  <1>1. /\ Rows(folderRows) \in SUBSET Folders
        /\ \A g \in Rows(folderRows) : folderRows[g].parent \in Rows(folderRows) \union {Root}
    BY DEF Hangs, Known, Rows
  <1>2. Rows(folderRows)' = Rows(folderRows) \ Subtree(f)
    BY <1>1 DEF Rows, Hangs
  <1>3. ASSUME NEW g \in Rows(folderRows)' PROVE Known(folderRows[g].parent)'
    <2>1. g \in Rows(folderRows) \ {f} /\ g \notin Subtree(f)
      BY <1>2, SubtreeLemma
    <2>2. folderRows[g].parent \notin Subtree(f) /\ folderRows'[g].parent = folderRows[g].parent
      BY <1>1, <2>1, SubtreeLemma
    <2> QED
      BY <1>1, <1>2, <2>1, <2>2 DEF Known
  <1>4. Deeper(depth)'
    BY <1>0, <1>1, <1>2 DEF Deeper
  <1> QED
    BY <1>0, <1>2, <1>3, <1>4 DEF Hangs

LEMMA CopyHangs ==
  ASSUME Hangs, NEW f \in Rows(folderRows), NEW c \in [Subtree(f) -> Folders \ Rows(folderRows)],
         \A g, h \in Subtree(f) : c[g] = c[h] => g = h,
         DOMAIN folderRows' = Folders,
         \A g \in Subtree(f) : folderRows'[c[g]].parent =
           IF g = f THEN folderRows[f].parent ELSE c[folderRows[g].parent],
         \A x \in Folders : (\A g \in Subtree(f) : c[g] # x) =>
           folderRows'[x].parent = folderRows[x].parent
  PROVE  /\ Hangs'
         /\ Rows(folderRows)' = Rows(folderRows) \union {c[g] : g \in Subtree(f)}
  <1>0. PICK depth \in [Folders -> Nat] : Deeper(depth)
    BY DEF Hangs
  <1>1. /\ Rows(folderRows) \in SUBSET Folders /\ Root \notin Folders
        /\ \A g \in Rows(folderRows) : folderRows[g].parent \in Rows(folderRows) \union {Root}
    BY DEF Hangs, Known, Rows
  <1>2. /\ f \in Subtree(f) /\ Subtree(f) \in SUBSET Rows(folderRows)
        /\ \A g \in Subtree(f) \ {f} : folderRows[g].parent \in Subtree(f)
    BY SubtreeLemma
  <1> DEFINE tree == Subtree(f)
             image == {c[g] : g \in tree}
             First(x) == CHOOSE g \in tree : c[g] = x
  <1>3. /\ \A g \in tree : c[g] \in Folders /\ c[g] \notin Rows(folderRows) /\ First(c[g]) = g
        /\ \A x \in image : First(x) \in tree /\ c[First(x)] = x
        /\ \A x \in Folders \ image : folderRows'[x].parent = folderRows[x].parent
    OBVIOUS
  <1>4. \A g \in tree : folderRows'[c[g]].parent # Absent
    BY <1>1, <1>2, <1>3
  <1> HIDE DEF First, tree
  <1>5. Rows(folderRows)' = Rows(folderRows) \union image
    <2>1. \A x \in Folders : x \in Rows(folderRows)' <=> folderRows'[x].parent # Absent
      BY DEF Rows
    <2>2. \A x \in Folders : x \in Rows(folderRows) <=> folderRows[x].parent # Absent
      BY DEF Rows, Hangs
    <2>3. Rows(folderRows)' \in SUBSET Folders /\ image \in SUBSET Folders
      BY <1>3 DEF Rows
    <2>4. \A x \in image : folderRows'[x].parent # Absent
      BY <1>4
    <2> HIDE DEF image
    <2> QED
      BY <1>1, <1>3, <2>1, <2>2, <2>3, <2>4
  <1>6. ASSUME NEW x \in Rows(folderRows)' PROVE Known(folderRows[x].parent)'
    <2>1. CASE x \in image
      <3>1. PICK g \in tree : x = c[g]
        BY <2>1
      <3>2. g # f => folderRows[g].parent \in tree
        BY <1>2 DEF tree
      <3> QED
        BY <1>1, <1>5, <3>1, <3>2 DEF Known, tree
    <2>2. CASE x \notin image
      BY <1>1, <1>3, <1>5, <2>2 DEF Known
    <2> QED
      BY <2>1, <2>2
  <1> DEFINE deep == [x \in Folders |-> IF x \in image THEN depth[First(x)] ELSE depth[x]]
  <1>7. deep \in [Folders -> Nat]
    BY <1>0, <1>1, <1>2, <1>3 DEF tree
  <1>8. /\ \A g \in tree : deep[c[g]] = depth[g]
        /\ \A x \in Rows(folderRows) : deep[x] = depth[x] /\ x \notin image
    BY <1>1, <1>3
  <1> HIDE DEF deep
  <1>9. \A x \in Rows(folderRows)' :
          folderRows'[x].parent # Root => deep[folderRows'[x].parent] < deep[x]
    <2>1. ASSUME NEW g \in tree, folderRows'[c[g]].parent # Root
          PROVE  deep[folderRows'[c[g]].parent] < deep[c[g]]
      <3>1. CASE g = f
        BY <1>0, <1>1, <1>2, <1>8, <2>1, <3>1 DEF Deeper, tree
      <3>2. CASE g # f
        <4>1. folderRows[g].parent \in tree /\ g \in Rows(folderRows)
          BY <1>2, <3>2 DEF tree
        <4>2. folderRows[g].parent # Root
          BY <1>1, <1>2, <4>1 DEF tree
        <4> QED
          BY <1>0, <1>8, <3>2, <4>1, <4>2 DEF Deeper, tree
      <3> QED
        BY <3>1, <3>2
    <2>2. ASSUME NEW x \in Rows(folderRows), folderRows'[x].parent # Root
          PROVE  deep[folderRows'[x].parent] < deep[x]
      BY <1>0, <1>1, <1>3, <1>8, <2>2 DEF Deeper
    <2> QED
      BY <1>5, <2>1, <2>2
  <1>10. \E dp \in [Folders -> Nat] : Deeper(dp)'
    BY <1>7, <1>9 DEF Deeper
  <1> QED
    BY <1>5, <1>6, <1>10 DEF Hangs, tree

-----------------------------------------------------------------------------
(* The commands *)

TreeInv ==
  /\ Numbered(folderRows, Folders) /\ Numbered(requestRows, Requests)
  /\ Hangs
  /\ \A r \in Rows(requestRows) : Known(requestRows[r].parent)
  /\ openTabs \subseteq Rows(requestRows)

LEMMA TreeInvGives == TreeInv => TreeTypeOK /\ PositionsAreDense /\ TreeHangsTogether
  <1> SUFFICES ASSUME TreeInv
               PROVE  TreeTypeOK /\ PositionsAreDense /\ TreeHangsTogether
    OBVIOUS
  <1>1. TreeTypeOK
    BY DEF TreeInv, Numbered, Row, TreeTypeOK, Rows
  <1>2. PositionsAreDense
    <2>1. ASSUME NEW p \in Parents
          PROVE  /\ {folderRows[x].position : x \in RowsIn(folderRows, p)}
                      = 0..(Cardinality(RowsIn(folderRows, p)) - 1)
                 /\ {requestRows[x].position : x \in RowsIn(requestRows, p)}
                      = 0..(Cardinality(RowsIn(requestRows, p)) - 1)
      <3>1. p # Absent
        BY DEF Parents
      <3> QED
        BY <3>1, FiniteAssumption, NumberedLemma DEF TreeInv
    <2> QED
      BY <2>1 DEF PositionsAreDense
  <1>3. TreeHangsTogether
    <2>1. ASSUME NEW f \in Rows(folderRows)
          PROVE  f \notin Ancestors(folderRows[f].parent)
      <3>1. PICK depth \in [Folders -> Nat] : Deeper(depth)
        BY DEF TreeInv, Hangs
      <3>2. folderRows[f].parent \notin Subtree(f)
        BY SubtreeLemma DEF TreeInv
      <3>3. folderRows[f].parent \in Rows(folderRows) \union {Root}
        BY DEF TreeInv, Hangs, Known
      <3>4. Ancestors(Root) = {}
        BY <3>1, AncestorsLemma DEF TreeInv
      <3> QED
        BY <3>2, <3>3, <3>4 DEF Subtree
    <2> QED
      BY <2>1 DEF TreeHangsTogether, TreeInv, Hangs
  <1> QED
    BY <1>1, <1>2, <1>3

LEMMA TreeInitial == TreeInit => TreeInv
  <1> SUFFICES ASSUME TreeInit PROVE TreeInv
    OBVIOUS
  <1>1. NoRow \in Row /\ NoRow.parent = Absent
    BY DEF NoRow, Row
  <1>2. Rows(folderRows) = {} /\ Rows(requestRows) = {}
    BY <1>1 DEF TreeInit, Rows
  <1>3. Numbered(folderRows, Folders) /\ Numbered(requestRows, Requests)
    BY <1>1 DEF TreeInit, Numbered, Untied
  <1>4. [f \in Folders |-> 0] \in [Folders -> Nat] /\ Deeper([f \in Folders |-> 0])
    BY <1>2 DEF Deeper
  <1> QED
    BY <1>2, <1>3, <1>4 DEF TreeInv, Hangs, TreeInit

\* The folders stay, and the requests are in folders that are there.
LEMMA SameFolders ==
  ASSUME TreeInv, folderRows' = folderRows, Numbered(requestRows', Requests),
         \A r \in Rows(requestRows)' : Known(requestRows'[r].parent),
         openTabs' \subseteq Rows(requestRows)'
  PROVE  TreeInv'
  BY DEF TreeInv, Hangs, Known, Deeper, Rows

\* The requests stay, and no folder goes.
LEMMA SameRequests ==
  ASSUME TreeInv, UNCHANGED <<requestRows, openTabs>>, Numbered(folderRows', Folders), Hangs',
         Rows(folderRows) \subseteq Rows(folderRows)'
  PROVE  TreeInv'
  <1>1. Rows(requestRows)' = Rows(requestRows) /\ requestRows' = requestRows /\ openTabs' = openTabs
    BY DEF Rows
  <1>2. \A p : Known(p) => Known(p)'
    BY DEF Known
  <1>3. \A r \in Rows(requestRows)' : Known(requestRows[r].parent)'
    BY <1>1, <1>2 DEF TreeInv, Known
  <1> QED
    BY <1>1, <1>3 DEF TreeInv

\* A command that only writes requests.
LEMMA RequestStep ==
  ASSUME TreeInv,
         \/ \E r \in Requests : CreateRequest(r) \/ OpenTab(r) \/ DeleteRequest(r)
         \/ \E r, copy \in Requests : DuplicateRequest(r, copy)
         \/ \E r \in Requests, p \in Parents, n \in 0..MaxPosition : MoveRequest(r, p, n)
  PROVE  TreeInv'
  <1>0. /\ Numbered(requestRows, Requests) /\ IsFiniteSet(Requests)
        /\ requestRows \in [Requests -> Row] /\ DOMAIN requestRows = Requests
        /\ \A r \in Requests : r \in Rows(requestRows) <=> requestRows[r].parent # Absent
        /\ Rows(requestRows) \in SUBSET Requests
        /\ \A p : Known(p) => p \in Parents /\ p # Absent
    BY FiniteAssumption DEF TreeInv, Numbered, Known, Hangs, Rows, Parents
  <1>1. ASSUME NEW r \in Requests, CreateRequest(r)
        PROVE  TreeInv'
    <2>1. requestRows[r].parent = Absent /\ Root \in Parents
      BY <1>0, <1>1 DEF CreateRequest, Unused, Parents
    <2>2. Numbered(requestRows', Requests)
      BY <1>0, <1>1, <2>1, AddLemma DEF CreateRequest
    <2>3. /\ requestRows'[r].parent = Root
          /\ \A x \in Requests \ {r} : requestRows'[x] = requestRows[x]
          /\ DOMAIN requestRows' = Requests
      BY <1>0, <1>1 DEF CreateRequest, At
    <2>4. Rows(requestRows)' = Rows(requestRows) \union {r}
      BY <1>0, <2>3 DEF Rows, Parents
    <2>5. \A x \in Rows(requestRows)' : Known(requestRows'[x].parent)
      BY <1>0, <2>3, <2>4 DEF TreeInv, Known
    <2> QED
      BY <1>1, <2>2, <2>4, <2>5, SameFolders DEF CreateRequest, TreeInv
  <1>2. ASSUME NEW r \in Requests, OpenTab(r)
        PROVE  TreeInv'
    <2>1. openTabs' \subseteq Rows(requestRows) /\ UNCHANGED <<folderRows, requestRows>>
      BY <1>2 DEF OpenTab, TreeInv
    <2> QED
      BY <2>1, SameFolders DEF TreeInv, Rows
  <1>3. ASSUME NEW r \in Requests, DeleteRequest(r)
        PROVE  TreeInv'
    <2> DEFINE e == Erase(requestRows, {r})
    <2>1. /\ Loose(e, Requests)
          /\ \A y \in Requests : e[y].parent = IF y \in {r} THEN Absent ELSE requestRows[y].parent
      BY <1>0, EraseLemma
    <2> HIDE DEF e
    <2>2. /\ Numbered(Compact(e), Requests)
          /\ \A x \in Requests : Compact(e)[x].parent = e[x].parent
      BY <1>0, <2>1, CompactLemma
    <2>3. requestRows' = Compact(e) /\ folderRows' = folderRows /\ openTabs' = openTabs \ {r}
      BY <1>3 DEF DeleteRequest, e
    <2>4. /\ DOMAIN requestRows' = Requests
          /\ \A x \in Requests : requestRows'[x].parent = IF x = r THEN Absent ELSE requestRows[x].parent
      BY <2>1, <2>2, <2>3 DEF Numbered
    <2>5. Rows(requestRows)' = Rows(requestRows) \ {r}
      BY <1>0, <2>4 DEF Rows
    <2>6. \A x \in Rows(requestRows)' : Known(requestRows'[x].parent)
      BY <1>0, <2>4, <2>5 DEF TreeInv
    <2>7. openTabs' \subseteq Rows(requestRows)'
      BY <2>3, <2>5 DEF TreeInv
    <2> QED
      BY <2>2, <2>3, <2>6, <2>7, SameFolders
  <1>4. ASSUME NEW r \in Requests, NEW copy \in Requests, DuplicateRequest(r, copy)
        PROVE  TreeInv'
    <2> DEFINE row == requestRows[r]
               p == row.parent
               n == row.position + 1
               s == MakeSpace(requestRows, p, n)
               m == [s EXCEPT ![copy] = At(p, n)]
    <2>0. /\ r \in Rows(requestRows) /\ copy \notin Rows(requestRows)
          /\ requestRows' = Compact(m) /\ UNCHANGED <<folderRows, openTabs>>
      BY <1>4 DEF DuplicateRequest, Unused
    <2>1. p \in Parents /\ p # Absent /\ n \in Nat /\ Known(p)
      BY <1>0, <2>0 DEF TreeInv, Row
    <2>2. /\ s \in [Requests -> LooseRow]
          /\ \A y \in Requests :
               /\ s[y].parent = requestRows[y].parent
               /\ s[y].position = IF requestRows[y].parent = p /\ n <= requestRows[y].position
                                  THEN requestRows[y].position + 1 ELSE requestRows[y].position
      BY <1>0, <2>1, SpaceLemma
    <2>3. /\ m \in [Requests -> LooseRow] /\ DOMAIN m = Requests
          /\ m[copy].parent = p /\ m[copy].position = n
          /\ \A y \in Requests \ {copy} : m[y] = s[y]
      <3>1. At(p, n) \in LooseRow /\ At(p, n).parent = p /\ At(p, n).position = n
        BY <2>1 DEF At, LooseRow
      <3> HIDE DEF s, p, n
      <3> QED
        BY <2>2, <3>1
    <2> HIDE DEF m, s, p, n
    <2>4. /\ \A y, z \in Requests :
               s[y].parent = s[z].parent /\ s[y].parent # Absent /\ s[y].position = s[z].position
               => y = z
          /\ \A y \in Requests : s[y].parent = p => s[y].position # n
          /\ \A y \in Requests : s[y].position \in Nat
      <3>1. /\ Numbered(requestRows, Requests) /\ n \in Nat
            /\ Spaced(s, requestRows, Requests, p, n)
        BY <1>0, <2>1, <2>2 DEF Spaced
      <3> QED
        BY ONLY <3>1, SpacedLemma
    <2>5. ASSUME NEW y \in Requests, NEW z \in Requests, m[y].parent = m[z].parent,
                 m[y].parent # Absent, m[y].position = m[z].position
          PROVE  y = z
      <3>1. CASE y # copy /\ z # copy
        BY <2>3, <2>4, <2>5, <3>1
      <3>2. \A x \in Requests \ {copy} : m[x].parent = p => m[x].position # n
        BY <2>3, <2>4
      <3>3. CASE y = copy \/ z = copy
        BY <2>3, <2>5, <3>2, <3>3
      <3> QED
        BY <3>1, <3>3
    <2>6. Loose(m, Requests)
      <3>1. \A x \in Requests : m[x].parent = Absent => m[x].position \in Nat
        BY <2>1, <2>3, <2>4
      <3> QED
        BY <2>3, <2>5, <3>1 DEF Loose, Untied
    <2>7. /\ Numbered(requestRows', Requests)
          /\ \A x \in Requests : requestRows'[x].parent = m[x].parent
      BY <1>0, <2>0, <2>6, CompactLemma
    <2>8. Rows(requestRows)' = Rows(requestRows) \union {copy}
      BY <1>0, <2>1, <2>2, <2>3, <2>7 DEF Rows, Numbered
    <2>9. \A x \in Rows(requestRows)' : Known(requestRows'[x].parent)
      BY <1>0, <2>1, <2>2, <2>3, <2>7, <2>8 DEF TreeInv
    <2> QED
      BY <2>0, <2>7, <2>8, <2>9, SameFolders DEF TreeInv
  <1>5. ASSUME NEW r \in Requests, NEW p \in Parents, NEW n \in 0..MaxPosition, MoveRequest(r, p, n)
        PROVE  TreeInv'
    <2> DEFINE m == Moved(requestRows, r, p, n)
    <2>0. /\ r \in Rows(requestRows) /\ Known(p) /\ requestRows[r].parent # Absent
          /\ requestRows' = Compact(m) /\ UNCHANGED <<folderRows, openTabs>>
      BY <1>0, <1>5 DEF MoveRequest, Moved
    <2>1. /\ Loose(m, Requests) /\ m[r].parent = p
          /\ \A y \in Requests \ {r} : m[y].parent = requestRows[y].parent
      BY <1>0, <2>0, MoveLemma
    <2> HIDE DEF m
    <2>2. /\ Numbered(requestRows', Requests)
          /\ \A x \in Requests : requestRows'[x].parent = m[x].parent
      BY <1>0, <2>0, <2>1, CompactLemma
    <2>3. Rows(requestRows)' = Rows(requestRows)
      BY <1>0, <2>0, <2>1, <2>2 DEF Rows, Numbered
    <2>4. \A x \in Rows(requestRows)' : Known(requestRows'[x].parent)
      BY <1>0, <2>0, <2>1, <2>2, <2>3 DEF TreeInv
    <2> QED
      BY <2>0, <2>2, <2>3, <2>4, SameFolders DEF TreeInv
  <1> QED
    BY <1>1, <1>2, <1>3, <1>4, <1>5

\* A copy has one original.
LEMMA CopiesLemma ==
  ASSUME NEW xs, NEW free, NEW c \in Copies(xs, free)
  PROVE  /\ c \in [xs -> free] /\ \A g, h \in xs : c[g] = c[h] => g = h
         /\ \A g \in xs : IsCopy(c, c[g]) /\ Original(c, c[g]) = g
         /\ \A x : IsCopy(c, x) => Original(c, x) \in xs /\ c[Original(c, x)] = x
         /\ \A x : ~ IsCopy(c, x) <=> \A g \in xs : c[g] # x
  BY DEF Copies, IsCopy, Original

LEMMA FolderCopies ==
  ASSUME Numbered(folderRows, Folders), Hangs, NEW f \in Rows(folderRows),
         NEW c \in Copies(Subtree(f), Unused(folderRows))
  PROVE  /\ Loose(WithFolders(f, c), Folders)
         /\ \A g \in Subtree(f) : WithFolders(f, c)[c[g]].parent =
              IF g = f THEN folderRows[f].parent ELSE c[folderRows[g].parent]
         /\ \A x \in Folders : (\A g \in Subtree(f) : c[g] # x) =>
              WithFolders(f, c)[x].parent = folderRows[x].parent
  <1> DEFINE tree == Subtree(f)
             p == folderRows[f].parent
             n == folderRows[f].position + 1
             s == MakeSpace(folderRows, p, n)
             w == WithFolders(f, c)
             P(g) == IF g = f THEN p ELSE c[folderRows[g].parent]
             RowOf(g) == At(P(g), folderRows[g].position + 1)
  <1>0. /\ folderRows \in [Folders -> Row] /\ DOMAIN folderRows = Folders
        /\ Rows(folderRows) \in SUBSET Folders /\ Untied(folderRows)
        /\ \A g \in Folders : folderRows[g].position \in Nat
    BY DEF Numbered, Rows, Row
  <1>1. /\ c \in [tree -> Folders \ Rows(folderRows)]
        /\ \A g, h \in tree : c[g] = c[h] => g = h
        /\ \A g \in tree : IsCopy(c, c[g]) /\ Original(c, c[g]) = g
        /\ \A x : IsCopy(c, x) => Original(c, x) \in tree /\ c[Original(c, x)] = x
        /\ \A x : ~ IsCopy(c, x) <=> \A g \in tree : c[g] # x
    BY <1>0, CopiesLemma DEF Unused
  <1>2. p \in Rows(folderRows) \union {Root} /\ p \in Parents /\ p # Absent /\ n \in Nat
    BY <1>0 DEF Hangs, Known, Parents
  <1>3. /\ s \in [Folders -> LooseRow] /\ Spaced(s, folderRows, Folders, p, n)
    BY <1>2, SpaceLemma DEF Spaced
  <1>4. /\ f \in tree /\ tree \in SUBSET Rows(folderRows)
        /\ \A g \in tree \ {f} : folderRows[g].parent \in tree
    BY SubtreeLemma
  <1>5. w = [x \in Folders |-> IF IsCopy(c, x) THEN RowOf(Original(c, x)) ELSE s[x]]
    BY DEF WithFolders
  <1>6. ASSUME NEW g \in tree
        PROVE  /\ P(g) \in Parents /\ P(g) # Absent
               /\ RowOf(g) \in LooseRow /\ RowOf(g).parent = P(g)
               /\ RowOf(g).position = folderRows[g].position + 1
    <2>1. P(g) \in Parents
      BY <1>1, <1>2, <1>4 DEF Parents
    <2>2. folderRows[g].position + 1 \in Int
      BY <1>0, <1>4
    <2> HIDE DEF P
    <2> QED
      BY <2>1, <2>2 DEF At, LooseRow, Parents
  <1> HIDE DEF s, tree, n, RowOf, w
  <1>7. /\ \A g \in tree : w[c[g]] = RowOf(g)
        /\ \A x \in Folders : ~ IsCopy(c, x) => w[x] = s[x]
    BY <1>1, <1>5
  <1>8. w \in [Folders -> LooseRow] /\ DOMAIN w = Folders
    BY <1>1, <1>3, <1>5, <1>6
  <1>9. /\ \A y, z \in Folders :
             s[y].parent = s[z].parent /\ s[y].parent # Absent /\ s[y].position = s[z].position
             => y = z
        /\ \A y \in Folders : s[y].parent = p => s[y].position # n
        /\ \A y \in Folders : s[y].position \in Nat
    BY <1>2, <1>3, SpacedLemma
  <1>10. \A x \in Folders : s[x].parent = folderRows[x].parent
    BY <1>3 DEF Spaced
  <1>11. ASSUME NEW g \in tree, NEW h \in tree, P(g) = P(h),
                folderRows[g].position = folderRows[h].position
         PROVE  g = h
    <2>1. CASE g = f /\ h = f
      BY <2>1
    <2>2. CASE g # f /\ h # f
      <3>1. folderRows[g].parent = folderRows[h].parent /\ folderRows[g].parent \in tree
        BY <1>1, <1>4, <1>11, <2>2
      <3>2. folderRows[g].parent # Absent
        BY <1>0, <1>4, <3>1
      <3> QED
        BY <1>0, <1>4, <1>11, <3>1, <3>2 DEF Untied
    <2>3. ASSUME NEW k \in tree, k # f PROVE P(k) # p
      <3>1. P(k) \in Folders \ Rows(folderRows)
        BY <1>1, <1>4, <2>3
      <3> QED
        BY <1>2, <3>1
    <2> QED
      BY <1>11, <2>1, <2>2, <2>3
  <1>12. ASSUME NEW g \in tree, NEW z \in Folders, w[z] = s[z], w[c[g]].parent = w[z].parent,
                w[c[g]].parent # Absent
         PROVE  w[c[g]].position # w[z].position
    <2>1. P(g) = folderRows[z].parent /\ z \in Rows(folderRows)
      BY <1>0, <1>6, <1>7, <1>10, <1>12 DEF Rows
    <2>2. P(g) \in Rows(folderRows) \union {Root}
      BY <2>1 DEF Hangs, Known
    <2>3. g = f
      BY <1>1, <1>4, <2>2
    <2> QED
      BY <1>6, <1>7, <1>9, <1>12, <2>3 DEF n
  <1>13. ASSUME NEW y \in Folders, NEW z \in Folders, w[y].parent = w[z].parent,
                w[y].parent # Absent, w[y].position = w[z].position
         PROVE  y = z
    <2>1. CASE IsCopy(c, y) /\ IsCopy(c, z)
      <3>1. PICK g \in tree, h \in tree : c[g] = y /\ c[h] = z
        BY <1>1, <2>1
      <3>2. P(g) = P(h) /\ folderRows[g].position = folderRows[h].position
        BY <1>0, <1>4, <1>6, <1>7, <1>13, <3>1
      <3> QED
        BY <1>11, <3>1, <3>2
    <2>2. CASE IsCopy(c, y) /\ ~ IsCopy(c, z)
      BY <1>1, <1>7, <1>12, <1>13, <2>2
    <2>3. CASE ~ IsCopy(c, y) /\ IsCopy(c, z)
      BY <1>1, <1>7, <1>12, <1>13, <2>3
    <2>4. CASE ~ IsCopy(c, y) /\ ~ IsCopy(c, z)
      BY <1>7, <1>9, <1>13, <2>4
    <2> QED
      BY <2>1, <2>2, <2>3, <2>4
  <1>14. \A x \in Folders : w[x].parent = Absent => w[x].position \in Nat
    <2>1. ASSUME NEW x \in Folders, IsCopy(c, x) PROVE w[x].parent # Absent
      BY <1>1, <1>6, <1>7, <2>1
    <2> QED
      BY <1>7, <1>9, <2>1
  <1>15. Loose(w, Folders)
    BY <1>8, <1>13, <1>14 DEF Loose, Untied
  <1> QED
    BY <1>1, <1>6, <1>7, <1>10, <1>15 DEF w, tree

LEMMA RequestCopies ==
  ASSUME TreeInv, NEW f \in Rows(folderRows),
         NEW c \in Copies(Subtree(f), Unused(folderRows)),
         NEW d \in Copies(Inside(Subtree(f)), Unused(requestRows))
  PROVE  /\ Loose(WithRequests(c, d), Requests)
         /\ \A r \in Inside(Subtree(f)) :
              WithRequests(c, d)[d[r]].parent = c[requestRows[r].parent]
         /\ \A x \in Requests : (\A r \in Inside(Subtree(f)) : d[r] # x) =>
              WithRequests(c, d)[x].parent = requestRows[x].parent
  <1> DEFINE tree == Subtree(f)
             inside == Inside(tree)
             v == WithRequests(c, d)
             P(r) == c[requestRows[r].parent]
             RowOf(r) == At(P(r), requestRows[r].position)
  <1>0. /\ requestRows \in [Requests -> Row] /\ DOMAIN requestRows = Requests
        /\ DOMAIN folderRows = Folders
        /\ Rows(requestRows) \in SUBSET Requests /\ Untied(requestRows)
        /\ \A r \in Requests : requestRows[r].position \in Nat
    BY DEF TreeInv, Numbered, Rows, Row
  <1>1. /\ c \in [tree -> Folders \ Rows(folderRows)]
        /\ \A g, h \in tree : c[g] = c[h] => g = h
    BY <1>0, CopiesLemma DEF Unused
  <1>2. /\ d \in [inside -> Requests \ Rows(requestRows)]
        /\ \A g \in inside : IsCopy(d, d[g]) /\ Original(d, d[g]) = g
        /\ \A x : IsCopy(d, x) => Original(d, x) \in inside /\ d[Original(d, x)] = x
        /\ \A x : ~ IsCopy(d, x) <=> \A g \in inside : d[g] # x
    BY <1>0, CopiesLemma DEF Unused
  <1>3. inside = {r \in Rows(requestRows) : requestRows[r].parent \in tree}
    BY DEF Inside
  <1>4. v = [x \in Requests |-> IF IsCopy(d, x) THEN RowOf(Original(d, x)) ELSE requestRows[x]]
    BY DEF WithRequests
  <1> HIDE DEF inside, tree, v
  <1>5. ASSUME NEW r \in inside
        PROVE  /\ P(r) \in Folders \ Rows(folderRows) /\ P(r) # Absent
               /\ RowOf(r) \in LooseRow /\ RowOf(r).parent = P(r)
               /\ RowOf(r).position = requestRows[r].position
    <2>1. P(r) \in Folders \ Rows(folderRows)
      BY <1>1, <1>3
    <2>2. requestRows[r].position \in Int
      BY <1>0, <1>3
    <2> HIDE DEF P
    <2> QED
      BY <2>1, <2>2 DEF At, LooseRow, Parents
  <1> HIDE DEF RowOf
  <1>6. /\ \A r \in inside : v[d[r]] = RowOf(r)
        /\ \A x \in Requests : ~ IsCopy(d, x) => v[x] = requestRows[x]
    BY <1>2, <1>4
  <1>7. \A x \in Requests : requestRows[x] \in LooseRow
    BY <1>0 DEF Row, LooseRow
  <1>8. v \in [Requests -> LooseRow] /\ DOMAIN v = Requests
    BY <1>2, <1>4, <1>5, <1>7
  <1>9. \A z \in Requests : requestRows[z].parent # Absent =>
          requestRows[z].parent \in Rows(folderRows) \union {Root}
    BY <1>0 DEF TreeInv, Known, Rows
  <1>10. ASSUME NEW y \in Requests, NEW z \in Requests, v[y].parent = v[z].parent,
                v[y].parent # Absent, v[y].position = v[z].position
         PROVE  y = z
    <2>1. CASE IsCopy(d, y) /\ IsCopy(d, z)
      <3>1. PICK q \in inside, r \in inside : d[q] = y /\ d[r] = z
        BY <1>2, <2>1
      <3>2. P(q) = P(r) /\ requestRows[q].position = requestRows[r].position
        BY <1>5, <1>6, <1>10, <3>1
      <3>3. requestRows[q].parent = requestRows[r].parent /\ requestRows[q].parent # Absent
        BY <1>1, <1>3, <3>2 DEF Rows
      <3> QED
        BY <1>0, <1>3, <3>1, <3>2, <3>3 DEF Untied
    <2>2. ASSUME NEW r \in inside, NEW x \in Requests, ~ IsCopy(d, x)
          PROVE  v[x].parent # v[d[r]].parent
      <3>1. v[d[r]].parent \in Folders \ Rows(folderRows) /\ v[d[r]].parent # Absent
        BY <1>5, <1>6
      <3> QED
        BY <1>6, <1>9, <2>2, <3>1
    <2>3. CASE ~ IsCopy(d, y) /\ ~ IsCopy(d, z)
      BY <1>0, <1>6, <1>10, <2>3 DEF Untied
    <2> QED
      BY <1>2, <1>10, <2>1, <2>2, <2>3
  <1>11. \A x \in Requests : v[x].parent = Absent => v[x].position \in Nat
    <2>1. ASSUME NEW x \in Requests, IsCopy(d, x) PROVE v[x].parent # Absent
      BY <1>2, <1>5, <1>6, <2>1
    <2> QED
      BY <1>0, <1>6, <2>1
  <1>12. Loose(v, Requests)
    BY <1>8, <1>10, <1>11 DEF Loose, Untied
  <1> QED
    BY <1>2, <1>5, <1>6, <1>12 DEF v, inside, tree

\* A command that writes folders.
LEMMA FolderStep ==
  ASSUME TreeInv, NEW f \in Folders,
         \/ DuplicateFolder(f) \/ DeleteFolder(f)
         \/ \E p \in Parents : CreateFolder(f, p)
         \/ \E p \in Parents, n \in 0..MaxPosition : MoveFolder(f, p, n)
  PROVE  TreeInv'
  <1>0. /\ Numbered(folderRows, Folders) /\ IsFiniteSet(Folders)
        /\ folderRows \in [Folders -> Row] /\ DOMAIN folderRows = Folders
        /\ \A g \in Folders : g \in Rows(folderRows) <=> folderRows[g].parent # Absent
        /\ Rows(folderRows) \in SUBSET Folders /\ Hangs
        /\ \A p : Known(p) => p \in Parents /\ p # Absent
    BY FiniteAssumption DEF TreeInv, Numbered, Known, Hangs, Rows, Parents
  <1>1. ASSUME NEW p \in Parents, CreateFolder(f, p)
        PROVE  TreeInv'
    <2>1. folderRows[f].parent = Absent /\ f \notin Rows(folderRows) /\ Known(p)
      BY <1>0, <1>1 DEF CreateFolder, Unused
    <2>2. Numbered(folderRows', Folders)
      BY <1>0, <1>1, <2>1, AddLemma DEF CreateFolder
    <2>3. /\ DOMAIN folderRows' = Folders
          /\ \A g \in Folders : folderRows'[g].parent = IF g = f THEN p ELSE folderRows[g].parent
      BY <1>0, <1>1 DEF CreateFolder, At
    <2>4. Hangs' /\ Rows(folderRows)' = Rows(folderRows) \union {f}
      BY <1>0, <2>1, <2>3, AddHangs
    <2> QED
      BY <1>1, <2>2, <2>4, SameRequests DEF CreateFolder
  <1>2. ASSUME NEW p \in Parents, NEW n \in 0..MaxPosition, MoveFolder(f, p, n)
        PROVE  TreeInv'
    <2> DEFINE m == Moved(folderRows, f, p, n)
    <2>0. /\ f \in Rows(folderRows) /\ Known(p) /\ folderRows[f].parent # Absent /\ MayMove(f, p)
          /\ folderRows' = Compact(m) /\ UNCHANGED <<requestRows, openTabs>>
      BY <1>0, <1>2 DEF MoveFolder, Moved
    <2>1. /\ Loose(m, Folders) /\ m[f].parent = p
          /\ \A y \in Folders \ {f} : m[y].parent = folderRows[y].parent
      BY <1>0, <2>0, MoveLemma
    <2> HIDE DEF m
    <2>2. /\ Numbered(folderRows', Folders)
          /\ \A x \in Folders : folderRows'[x].parent = m[x].parent
      BY <1>0, <2>0, <2>1, CompactLemma
    <2>3. /\ DOMAIN folderRows' = Folders
          /\ \A g \in Folders : folderRows'[g].parent = IF g = f THEN p ELSE folderRows[g].parent
      BY <2>1, <2>2 DEF Numbered
    <2>4. Hangs' /\ Rows(folderRows)' = Rows(folderRows)
      BY <1>0, <2>0, <2>3, MoveHangs
    <2> QED
      BY <2>0, <2>2, <2>4, SameRequests
  <1>3. ASSUME DeleteFolder(f)
        PROVE  TreeInv'
    <2> DEFINE tree == Subtree(f)
               e == Erase(folderRows, tree)
               lost == Inside(tree)
               k == Erase(requestRows, lost)
    <2>0. /\ f \in Rows(folderRows) /\ folderRows' = Compact(e) /\ requestRows' = Compact(k)
          /\ openTabs' = openTabs \ lost
      BY <1>3 DEF DeleteFolder
    <2>1. /\ Loose(e, Folders)
          /\ \A y \in Folders : e[y].parent = IF y \in tree THEN Absent ELSE folderRows[y].parent
      BY <1>0, EraseLemma
    <2>2. /\ Loose(k, Requests)
          /\ \A y \in Requests : k[y].parent = IF y \in lost THEN Absent ELSE requestRows[y].parent
      BY EraseLemma DEF TreeInv
    <2>3. lost = {r \in Rows(requestRows) : requestRows[r].parent \in tree}
      BY DEF Inside
    <2> HIDE DEF e, k, lost
    <2>4. /\ Numbered(folderRows', Folders)
          /\ \A x \in Folders : folderRows'[x].parent = e[x].parent
      BY <1>0, <2>0, <2>1, CompactLemma
    <2>5. /\ Numbered(requestRows', Requests)
          /\ \A x \in Requests : requestRows'[x].parent = k[x].parent
      BY FiniteAssumption, <2>0, <2>2, CompactLemma
    <2>6. /\ DOMAIN folderRows' = Folders
          /\ \A g \in Folders :
               folderRows'[g].parent = IF g \in tree THEN Absent ELSE folderRows[g].parent
      BY <2>1, <2>4 DEF Numbered
    <2>7. Hangs' /\ Rows(folderRows)' = Rows(folderRows) \ tree
      BY <1>0, <2>0, <2>6, EraseHangs
    <2>8. Rows(requestRows)' = Rows(requestRows) \ lost
      BY <2>2, <2>5 DEF Rows, Numbered, TreeInv
    <2> HIDE DEF tree
    <2>9. ASSUME NEW r \in Rows(requestRows)' PROVE Known(requestRows[r].parent)'
      <3>1. /\ r \in Rows(requestRows) /\ r \notin lost /\ r \in Requests
            /\ requestRows'[r].parent = requestRows[r].parent
        BY <2>2, <2>5, <2>8, <2>9 DEF Rows, Numbered, TreeInv
      <3>2. Known(requestRows[r].parent) /\ requestRows[r].parent \notin tree
        BY <2>3, <3>1 DEF TreeInv
      <3> QED
        BY <2>7, <3>1, <3>2 DEF Known
    <2>10. openTabs' \subseteq Rows(requestRows)'
      BY <2>0, <2>8 DEF TreeInv
    <2> QED
      BY <2>4, <2>5, <2>7, <2>9, <2>10 DEF TreeInv
  <1>4. ASSUME DuplicateFolder(f)
        PROVE  TreeInv'
    <2> DEFINE tree == Subtree(f)
               inside == Inside(tree)
    <2>0. f \in Rows(folderRows) /\ UNCHANGED openTabs
      BY <1>4 DEF DuplicateFolder
    <2>1. PICK c \in Copies(tree, Unused(folderRows)), d \in Copies(inside, Unused(requestRows)) :
            folderRows' = Compact(WithFolders(f, c)) /\ requestRows' = Compact(WithRequests(c, d))
      BY <1>4 DEF DuplicateFolder
    <2> DEFINE w == WithFolders(f, c)
               v == WithRequests(c, d)
    <2>2. /\ c \in [tree -> Folders \ Rows(folderRows)]
          /\ \A g, h \in tree : c[g] = c[h] => g = h
      BY <1>0 DEF Copies, Unused
    <2>3. /\ Loose(w, Folders)
          /\ \A g \in tree : w[c[g]].parent =
               IF g = f THEN folderRows[f].parent ELSE c[folderRows[g].parent]
          /\ \A x \in Folders : (\A g \in tree : c[g] # x) => w[x].parent = folderRows[x].parent
      BY <1>0, <2>0, FolderCopies
    <2>4. /\ Loose(v, Requests)
          /\ \A r \in inside : v[d[r]].parent = c[requestRows[r].parent]
          /\ \A x \in Requests : (\A r \in inside : d[r] # x) => v[x].parent = requestRows[x].parent
      BY <2>0, RequestCopies DEF TreeInv
    <2>5. /\ inside = {r \in Rows(requestRows) : requestRows[r].parent \in tree}
          /\ d \in [inside -> Requests \ Rows(requestRows)]
      BY DEF Inside, Copies, Unused, TreeInv, Numbered
    <2> HIDE DEF w, v, inside
    <2>6. /\ Numbered(folderRows', Folders)
          /\ \A x \in Folders : folderRows'[x].parent = w[x].parent
      BY <1>0, <2>1, <2>3, CompactLemma DEF w
    <2>7. /\ Numbered(requestRows', Requests)
          /\ \A x \in Requests : requestRows'[x].parent = v[x].parent
      BY FiniteAssumption, <2>1, <2>4, CompactLemma DEF v
    <2>8. /\ DOMAIN folderRows' = Folders
          /\ \A g \in tree : folderRows'[c[g]].parent =
               IF g = f THEN folderRows[f].parent ELSE c[folderRows[g].parent]
          /\ \A x \in Folders : (\A g \in tree : c[g] # x) =>
               folderRows'[x].parent = folderRows[x].parent
      BY <2>2, <2>3, <2>6 DEF Numbered
    <2>9. Hangs' /\ Rows(folderRows)' = Rows(folderRows) \union {c[g] : g \in tree}
      BY <1>0, <2>0, <2>2, <2>8, CopyHangs
    <2> HIDE DEF tree
    <2>10. \A p : Known(p) => Known(p)'
      BY <2>9 DEF Known
    <2>11. ASSUME NEW r \in Rows(requestRows)' PROVE Known(requestRows[r].parent)'
      <3>1. r \in Requests /\ requestRows'[r].parent = v[r].parent /\ v[r].parent # Absent
        BY <2>7, <2>11 DEF Rows, Numbered
      <3>2. CASE \A q \in inside : d[q] # r
        <4>1. v[r].parent = requestRows[r].parent /\ r \in Rows(requestRows)
          BY <2>4, <3>1, <3>2 DEF Rows, TreeInv, Numbered
        <4> QED
          BY <2>10, <3>1, <4>1 DEF TreeInv, Known
      <3>3. CASE \E q \in inside : d[q] = r
        <4>1. PICK q \in inside : d[q] = r
          BY <3>3
        <4>2. requestRows'[r].parent = c[requestRows[q].parent] /\ requestRows[q].parent \in tree
          BY <2>4, <2>5, <3>1, <4>1
        <4> QED
          BY <2>9, <4>2 DEF Known
      <3> QED
        BY <3>2, <3>3
    <2>12. openTabs' \subseteq Rows(requestRows)'
      <3>1. Rows(requestRows) \subseteq Rows(requestRows)'
        <4>1. ASSUME NEW r \in Rows(requestRows) PROVE r \in Rows(requestRows)'
          <5>1. r \in Requests /\ requestRows[r].parent # Absent /\ \A q \in inside : d[q] # r
            BY <2>5 DEF Rows, TreeInv, Numbered
          <5>2. requestRows'[r].parent # Absent
            BY <2>4, <2>7, <5>1
          <5> QED
            BY <2>7, <5>1, <5>2 DEF Rows, Numbered
        <4> QED
          BY <4>1
      <3> QED
        BY <2>0, <3>1 DEF TreeInv
    <2> QED
      BY <2>6, <2>7, <2>9, <2>11, <2>12 DEF TreeInv
  <1> QED
    BY <1>1, <1>2, <1>3, <1>4

LEMMA TreeStep == TreeInv /\ [TreeNext]_treeVars => TreeInv'
  <1> SUFFICES ASSUME TreeInv, [TreeNext]_treeVars PROVE TreeInv'
    OBVIOUS
  <1>1. ASSUME NEW f \in Folders,
               \/ DuplicateFolder(f) \/ DeleteFolder(f)
               \/ \E p \in Parents : CreateFolder(f, p)
               \/ \E p \in Parents, n \in 0..MaxPosition : MoveFolder(f, p, n)
        PROVE  TreeInv'
    BY <1>1, FolderStep
  <1>2. ASSUME \/ \E r \in Requests : CreateRequest(r) \/ OpenTab(r) \/ DeleteRequest(r)
               \/ \E r, copy \in Requests : DuplicateRequest(r, copy)
               \/ \E r \in Requests, p \in Parents, n \in 0..MaxPosition : MoveRequest(r, p, n)
        PROVE  TreeInv'
    BY <1>2, RequestStep
  <1>3. ASSUME UNCHANGED treeVars PROVE TreeInv'
    BY <1>3 DEF treeVars, TreeInv, Hangs, Known, Deeper, Rows
  <1> QED
    BY <1>1, <1>2, <1>3 DEF TreeNext

\* Compacting gives the row that moved the number of rows in front of it.
LEMMA LandedLemma ==
  ASSUME NEW D \in {Folders, Requests}, NEW t, Numbered(t, D), NEW x \in D,
         t[x].parent # Absent, NEW p \in Parents, NEW n \in 0..MaxPosition
  PROVE  Landed(Compact(Moved(t, x, p, n)), x, p, n)
  <1> DEFINE m == Moved(t, x, p, n)
             c == Compact(m)
  <1>1. /\ Loose(m, D) /\ m[x].parent = p
        /\ Rank(m, x) = IF n < Cardinality(RowsIn(m, p)) - 1 THEN n ELSE Cardinality(RowsIn(m, p)) - 1
    BY MoveLemma
  <1>2. IsFiniteSet(D) /\ p # Absent
    BY FiniteAssumption DEF Parents
  <1> HIDE DEF m
  <1>3. /\ Numbered(c, D) /\ \A y \in D : c[y].parent = m[y].parent
        /\ \A y \in D : m[y].parent # Absent => c[y].position = Rank(m, y)
    BY <1>1, <1>2, CompactLemma
  <1> HIDE DEF c
  <1>4. RowsIn(c, p) = RowsIn(m, p) /\ c[x].position = Rank(m, x)
    BY <1>1, <1>2, <1>3 DEF RowsIn, Numbered, Loose
  <1> QED
    BY <1>1, <1>4 DEF Landed, c, m

LEMMA MovesLand ==
  ASSUME TreeInv
  PROVE  /\ \A p : \A f \in Folders, n \in 0..MaxPosition :
              MoveFolder(f, p, n) => Landed(folderRows', f, p, n)
         /\ \A p : \A r \in Requests, n \in 0..MaxPosition :
              MoveRequest(r, p, n) => Landed(requestRows', r, p, n)
  <1>1. \A p : Known(p) => p \in Parents
    BY DEF TreeInv, Hangs, Known, Rows, Parents
  <1>2. ASSUME NEW f \in Folders, NEW p, NEW n \in 0..MaxPosition, MoveFolder(f, p, n)
        PROVE  Landed(folderRows', f, p, n)
    <2>1. /\ folderRows' = Compact(Moved(folderRows, f, p, n))
          /\ p \in Parents /\ folderRows[f].parent # Absent
      BY <1>1, <1>2 DEF MoveFolder, Moved, Rows
    <2> QED
      BY <2>1, LandedLemma DEF TreeInv
  <1>3. ASSUME NEW r \in Requests, NEW p, NEW n \in 0..MaxPosition, MoveRequest(r, p, n)
        PROVE  Landed(requestRows', r, p, n)
    <2>1. /\ requestRows' = Compact(Moved(requestRows, r, p, n))
          /\ p \in Parents /\ requestRows[r].parent # Absent
      BY <1>1, <1>3 DEF MoveRequest, Moved, Rows
    <2> QED
      BY <2>1, LandedLemma DEF TreeInv
  <1> QED
    BY <1>2, <1>3

\* The tree never has a cycle, a row without a parent, a gap or a tie among the
\* positions of a folder, or a tab of a request that is gone; and what is moved lands
\* where it was asked for, however many folders and requests there are
\* (repository/request_store.rs and repositories.rs).
THEOREM TreeKeepsItsPromise == TreeSpec => TreeCorrect
  <1>1. TreeInit => TreeInv
    BY TreeInitial
  <1>2. TreeInv /\ [TreeNext]_treeVars => TreeInv'
    BY TreeStep
  <1>3. TreeInv => TreeTypeOK /\ PositionsAreDense /\ TreeHangsTogether
    BY TreeInvGives
  <1>4. TreeInv =>
          /\ \A f \in Folders : LET p == folderRows'[f].parent IN
               folderRows'[f] # folderRows[f] =>
                 \A n \in 0..MaxPosition : MoveFolder(f, p, n) => Landed(folderRows', f, p, n)
          /\ \A r \in Requests : LET p == requestRows'[r].parent IN
               requestRows'[r] # requestRows[r] =>
                 \A n \in 0..MaxPosition : MoveRequest(r, p, n) => Landed(requestRows', r, p, n)
    <2> SUFFICES ASSUME TreeInv
                 PROVE  /\ \A f \in Folders, n \in 0..MaxPosition :
                             MoveFolder(f, folderRows'[f].parent, n) =>
                               Landed(folderRows', f, folderRows'[f].parent, n)
                        /\ \A r \in Requests, n \in 0..MaxPosition :
                             MoveRequest(r, requestRows'[r].parent, n) =>
                               Landed(requestRows', r, requestRows'[r].parent, n)
      BY Zenon
    <2> QED
      BY MovesLand
  <1> QED
    BY <1>1, <1>2, <1>3, <1>4, PTL DEF TreeSpec, TreeCorrect, MovesLandWhereAsked

-----------------------------------------------------------------------------
(* Lists: what an insertion and a removal leave *)

\* A list without a repetition.
Single(s) == \A i, j \in 1..Len(s) : s[i] = s[j] => i = j
SameList(s, t) == Len(s) = Len(t) /\ \A i \in 1..Len(s) : s[i] = t[i]

\* Two lists of one length with the same members in the same places are one list.
LEMMA Same ==
  ASSUME NEW S, NEW s \in Seq(S), NEW t \in Seq(S), SameList(s, t)
  PROVE  s = t
  BY SeqEqual DEF SameList

\* What insertion, removal and their order do to the members of a list.
Inserted(t, S, s, i, e) ==
  /\ t \in Seq(S) /\ Len(t) = Len(s) + 1
  /\ \A j \in 1..(Len(s) + 1) : t[j] = IF j < i THEN s[j] ELSE IF j = i THEN e ELSE s[j - 1]
Removed(t, S, s, i) ==
  /\ t \in Seq(S) /\ Len(t) = Len(s) - 1
  /\ \A j \in 1..(Len(s) - 1) : t[j] = IF j < i THEN s[j] ELSE s[j + 1]

\* Inserting into a list leaves the members before the place and shifts the others.
LEMMA InsertAtFacts ==
  ASSUME NEW S, NEW s \in Seq(S), NEW i \in 1..(Len(s) + 1), NEW e \in S
  PROVE  Inserted(Lists!InsertAt(s, i, e), S, s, i, e)
  <1> DEFINE a == SubSeq(s, 1, i - 1)
             b == <<e>>
             c == SubSeq(s, i, Len(s))
             t == Lists!InsertAt(s, i, e)
  <1>0. Len(s) \in Nat /\ i \in Int /\ i >= 1 /\ i <= Len(s) + 1 /\ \A j \in 1..Len(s) : s[j] \in S
    BY LenProperties
  <1>1. a \in Seq(S) /\ Len(a) = i - 1 /\ \A j \in 1..(i - 1) : a[j] = s[j]
    <2>1. 1 \in Int /\ i - 1 \in Int /\ \A j \in 1..(i - 1) : s[j] \in S
      BY <1>0
    <2>2. /\ SubSeq(s, 1, i - 1) \in Seq(S)
          /\ Len(SubSeq(s, 1, i - 1)) = IF 1 <= i - 1 THEN (i - 1) - 1 + 1 ELSE 0
          /\ \A j \in 1..((i - 1) - 1 + 1) : SubSeq(s, 1, i - 1)[j] = s[1 + j - 1]
      BY <2>1, SubSeqProperties
    <2>3. a \in Seq(S) /\ Len(a) = (IF 1 <= i - 1 THEN (i - 1) - 1 + 1 ELSE 0)
          /\ \A j \in 1..((i - 1) - 1 + 1) : a[j] = s[1 + j - 1]
      BY <2>2
    <2> HIDE DEF a
    <2>4. (i - 1) - 1 + 1 = i - 1 /\ \A j \in 1..(i - 1) : 1 + j - 1 = j
      BY <1>0
    <2>5. Len(a) = i - 1
      BY <1>0, <2>3
    <2> QED
      BY <2>3, <2>4, <2>5
  <1>2. b \in Seq(S) /\ Len(b) = 1 /\ b[1] = e
    OBVIOUS
  <1>3. c \in Seq(S) /\ Len(c) = Len(s) - i + 1 /\ \A j \in 1..(Len(s) - i + 1) : c[j] = s[i + j - 1]
    <2>1. Len(s) \in Int /\ i \in Int /\ \A j \in i..Len(s) : s[j] \in S
      BY <1>0
    <2>2. /\ SubSeq(s, i, Len(s)) \in Seq(S)
          /\ Len(SubSeq(s, i, Len(s))) = IF i <= Len(s) THEN Len(s) - i + 1 ELSE 0
          /\ \A j \in 1..(Len(s) - i + 1) : SubSeq(s, i, Len(s))[j] = s[i + j - 1]
      BY <2>1, SubSeqProperties
    <2>3. (IF i <= Len(s) THEN Len(s) - i + 1 ELSE 0) = Len(s) - i + 1
      BY <1>0
    <2> QED
      BY <2>2, <2>3
  <1>4. t = (a \o b) \o c
    BY DEF Lists!InsertAt
  <1> HIDE DEF a, b, c, t
  <1>5. /\ a \o b \in Seq(S) /\ Len(a \o b) = i
        /\ \A j \in 1..i : (a \o b)[j] = IF j <= i - 1 THEN a[j] ELSE b[j - (i - 1)]
    <2>1. /\ a \o b \in Seq(S) /\ Len(a \o b) = Len(a) + Len(b)
          /\ \A j \in 1..(Len(a) + Len(b)) : (a \o b)[j] = IF j <= Len(a) THEN a[j] ELSE b[j - Len(a)]
      BY <1>1, <1>2, ConcatProperties
    <2>2. Len(a) + Len(b) = i
      BY <1>0, <1>1, <1>2
    <2> QED
      BY <1>1, <2>1, <2>2
  <1>6. /\ t \in Seq(S) /\ Len(t) = Len(s) + 1
        /\ \A j \in 1..(Len(s) + 1) : t[j] = IF j <= i THEN (a \o b)[j] ELSE c[j - i]
    <2>1. /\ (a \o b) \o c \in Seq(S) /\ Len((a \o b) \o c) = Len(a \o b) + Len(c)
          /\ \A j \in 1..(Len(a \o b) + Len(c)) :
               ((a \o b) \o c)[j] = IF j <= Len(a \o b) THEN (a \o b)[j] ELSE c[j - Len(a \o b)]
      BY <1>3, <1>5, ConcatProperties
    <2>2. Len(a \o b) + Len(c) = Len(s) + 1
      BY <1>0, <1>3, <1>5
    <2> QED
      BY <1>4, <1>5, <2>1, <2>2
  <1>7. ASSUME NEW j \in 1..(Len(s) + 1)
        PROVE  t[j] = IF j < i THEN s[j] ELSE IF j = i THEN e ELSE s[j - 1]
    <2>1. CASE j < i
      <3>1. j \in 1..i /\ j <= i - 1 /\ j <= i /\ j \in 1..(i - 1)
        BY <1>0, <2>1
      <3> QED
        BY <1>1, <1>5, <1>6, <2>1, <3>1
    <2>2. CASE j = i
      <3>1. j \in 1..i /\ ~(j <= i - 1) /\ j <= i /\ j - (i - 1) = 1
        BY <1>0, <2>2
      <3> QED
        BY <1>0, <1>2, <1>5, <1>6, <2>2, <3>1
    <2>3. CASE j > i
      <3>1. ~(j <= i) /\ j - i \in 1..(Len(s) - i + 1) /\ i + (j - i) - 1 = j - 1 /\ ~(j < i) /\ j # i
        BY <1>0, <2>3
      <3> QED
        BY <1>3, <1>6, <3>1
    <2> QED
      BY <1>0, <2>1, <2>2, <2>3
  <1> QED
    BY <1>6, <1>7 DEF t, Inserted

\* Removing from a list leaves the members before the place and shifts the others back.
LEMMA RemoveAtFacts ==
  ASSUME NEW S, NEW s \in Seq(S), NEW i \in 1..Len(s)
  PROVE  Removed(Lists!RemoveAt(s, i), S, s, i)
  <1> DEFINE a == SubSeq(s, 1, i - 1)
             c == SubSeq(s, i + 1, Len(s))
             t == Lists!RemoveAt(s, i)
  <1>0. Len(s) \in Nat /\ i \in Int /\ i >= 1 /\ i <= Len(s) /\ \A j \in 1..Len(s) : s[j] \in S
    BY LenProperties
  <1>1. a \in Seq(S) /\ Len(a) = i - 1 /\ \A j \in 1..(i - 1) : a[j] = s[j]
    <2>1. 1 \in Int /\ i - 1 \in Int /\ \A j \in 1..(i - 1) : s[j] \in S
      BY <1>0
    <2>2. /\ SubSeq(s, 1, i - 1) \in Seq(S)
          /\ Len(SubSeq(s, 1, i - 1)) = IF 1 <= i - 1 THEN (i - 1) - 1 + 1 ELSE 0
          /\ \A j \in 1..((i - 1) - 1 + 1) : SubSeq(s, 1, i - 1)[j] = s[1 + j - 1]
      BY <2>1, SubSeqProperties
    <2>3. a \in Seq(S) /\ Len(a) = (IF 1 <= i - 1 THEN (i - 1) - 1 + 1 ELSE 0)
          /\ \A j \in 1..((i - 1) - 1 + 1) : a[j] = s[1 + j - 1]
      BY <2>2
    <2> HIDE DEF a
    <2>4. (i - 1) - 1 + 1 = i - 1 /\ \A j \in 1..(i - 1) : 1 + j - 1 = j
      BY <1>0
    <2>5. Len(a) = i - 1
      BY <1>0, <2>3
    <2> QED
      BY <2>3, <2>4, <2>5
  <1>3. c \in Seq(S) /\ Len(c) = Len(s) - i /\ \A j \in 1..(Len(s) - i) : c[j] = s[i + j]
    <2>1. Len(s) \in Int /\ i + 1 \in Int /\ \A j \in (i + 1)..Len(s) : s[j] \in S
      BY <1>0
    <2>2. /\ SubSeq(s, i + 1, Len(s)) \in Seq(S)
          /\ Len(SubSeq(s, i + 1, Len(s))) = IF i + 1 <= Len(s) THEN Len(s) - (i + 1) + 1 ELSE 0
          /\ \A j \in 1..(Len(s) - (i + 1) + 1) : SubSeq(s, i + 1, Len(s))[j] = s[(i + 1) + j - 1]
      BY <2>1, SubSeqProperties
    <2>3. /\ (IF i + 1 <= Len(s) THEN Len(s) - (i + 1) + 1 ELSE 0) = Len(s) - i
          /\ Len(s) - (i + 1) + 1 = Len(s) - i
          /\ \A j \in 1..(Len(s) - i) : (i + 1) + j - 1 = i + j
      BY <1>0
    <2> QED
      BY <2>2, <2>3
  <1>4. t = a \o c
    BY DEF Lists!RemoveAt
  <1> HIDE DEF a, c, t
  <1>6. /\ t \in Seq(S) /\ Len(t) = Len(s) - 1
        /\ \A j \in 1..(Len(s) - 1) : t[j] = IF j <= i - 1 THEN a[j] ELSE c[j - (i - 1)]
    <2>1. /\ a \o c \in Seq(S) /\ Len(a \o c) = Len(a) + Len(c)
          /\ \A j \in 1..(Len(a) + Len(c)) : (a \o c)[j] = IF j <= Len(a) THEN a[j] ELSE c[j - Len(a)]
      BY <1>1, <1>3, ConcatProperties
    <2>2. Len(a) + Len(c) = Len(s) - 1
      BY <1>0, <1>1, <1>3
    <2> QED
      BY <1>1, <1>4, <2>1, <2>2
  <1>7. ASSUME NEW j \in 1..(Len(s) - 1)
        PROVE  t[j] = IF j < i THEN s[j] ELSE s[j + 1]
    <2>1. CASE j < i
      <3>1. j <= i - 1 /\ j \in 1..(i - 1)
        BY <1>0, <2>1
      <3> QED
        BY <1>1, <1>6, <2>1, <3>1
    <2>2. CASE ~(j < i)
      <3>1. ~(j <= i - 1) /\ j - (i - 1) \in 1..(Len(s) - i) /\ i + (j - (i - 1)) = j + 1
        BY <1>0, <2>2
      <3> QED
        BY <1>3, <1>6, <2>2, <3>1
    <2> QED
      BY <2>1, <2>2
  <1> QED
    BY <1>6, <1>7 DEF t, Removed

LEMMA RangeIs ==
  ASSUME NEW S, NEW s \in Seq(S)
  PROVE  \A x : x \in Lists!Range(s) <=> \E i \in 1..Len(s) : s[i] = x
  BY LenProperties DEF Lists!Range

\* A list that has a member once loses just that place.
LEMMA WithoutFacts ==
  ASSUME NEW S, NEW s \in Seq(S), Single(s), NEW x
  PROVE  /\ (\A i \in 1..Len(s) : s[i] # x) => Lists!Without(s, x) = s
         /\ \A i \in 1..Len(s) : s[i] = x => Lists!Without(s, x) = Lists!RemoveAt(s, i)
  <1>1. DOMAIN s = 1..Len(s)
    BY LenProperties
  <1>2. x \in Lists!Range(s) <=> \E i \in 1..Len(s) : s[i] = x
    BY RangeIs
  <1>3. ASSUME NEW i \in 1..Len(s), s[i] = x
        PROVE  (CHOOSE j \in DOMAIN s : s[j] = x) = i
    BY <1>1, <1>3 DEF Single
  <1> QED
    BY <1>2, <1>3 DEF Lists!Without

\* A member that is put back where it was.
LEMMA PutBack ==
  ASSUME NEW S, NEW s \in Seq(S), NEW i \in 1..Len(s)
  PROVE  /\ Lists!InsertAt(Lists!RemoveAt(s, i), i, s[i]) = s
         /\ i \in 1..(Len(Lists!RemoveAt(s, i)) + 1)
  <1> DEFINE r == Lists!RemoveAt(s, i)
             t == Lists!InsertAt(r, i, s[i])
  <1>0. Len(s) \in Nat /\ i \in Int /\ i >= 1 /\ i <= Len(s) /\ s[i] \in S
    BY LenProperties
  <1>1. /\ r \in Seq(S) /\ Len(r) = Len(s) - 1
        /\ \A j \in 1..(Len(s) - 1) : r[j] = IF j < i THEN s[j] ELSE s[j + 1]
    BY RemoveAtFacts DEF Removed
  <1> HIDE DEF r
  <1>2. Len(r) + 1 = Len(s) /\ i \in 1..(Len(r) + 1)
    BY <1>0, <1>1
  <1>3. /\ t \in Seq(S) /\ Len(t) = Len(s)
        /\ \A j \in 1..Len(s) : t[j] = IF j < i THEN r[j] ELSE IF j = i THEN s[i] ELSE r[j - 1]
    <2>1. /\ t \in Seq(S) /\ Len(t) = Len(r) + 1
          /\ \A j \in 1..(Len(r) + 1) :
               t[j] = IF j < i THEN r[j] ELSE IF j = i THEN s[i] ELSE r[j - 1]
      <3>1. r \in Seq(S) /\ i \in 1..(Len(r) + 1) /\ s[i] \in S
        BY <1>0, <1>1, <1>2
      <3>2. Inserted(Lists!InsertAt(r, i, s[i]), S, r, i, s[i])
        BY ONLY <3>1, InsertAtFacts
      <3>3. Inserted(t, S, r, i, s[i])
        BY <3>2
      <3> HIDE DEF t
      <3> QED
        BY <3>3 DEF Inserted
    <2> QED
      BY ONLY <1>2, <2>1
  <1> HIDE DEF t
  <1>4. ASSUME NEW j \in 1..Len(s) PROVE t[j] = s[j]
    <2>1. CASE j < i
      <3>1. j \in 1..(Len(s) - 1)
        BY <1>0, <2>1
      <3> QED
        BY <1>1, <1>3, <2>1, <3>1
    <2>2. CASE j = i
      BY <1>0, <1>3, <2>2
    <2>3. CASE j > i
      <3>1. j - 1 \in 1..(Len(s) - 1) /\ ~(j < i) /\ j # i /\ ~(j - 1 < i) /\ (j - 1) + 1 = j
        BY <1>0, <2>3
      <3> QED
        BY <1>1, <1>3, <3>1
    <2> QED
      BY <1>0, <2>1, <2>2, <2>3
  <1>5. SameList(t, s)
    BY <1>3, <1>4 DEF SameList
  <1>6. t = s
    BY <1>3, <1>5, Same
  <1> QED
    BY <1>2, <1>6 DEF r, t

-----------------------------------------------------------------------------
(* The list of a folder is the one that has its rows in the order of positions *)

\* s has the rows of p in the order of their positions.
Sorted(t, p, s) ==
  /\ s \in Seq(RowsIn(t, p))
  /\ \A x \in RowsIn(t, p) : \E i \in 1..Len(s) : s[i] = x
  /\ \A i, j \in 1..Len(s) : i < j => t[s[i]].position < t[s[j]].position

\* Rows of one folder at one position are one row.
LEMMA TiedRows ==
  ASSUME NEW D, NEW t, Numbered(t, D), NEW p, p # Absent, NEW x \in RowsIn(t, p), NEW y \in RowsIn(t, p),
         t[x].position = t[y].position
  PROVE  x = y
  BY DEF Numbered, Untied, RowsIn

\* ListOf has the rows of a folder in the order of their positions ...
LEMMA ListOfSorted ==
  ASSUME NEW D, IsFiniteSet(D), NEW t, Numbered(t, D), NEW p \in Parents
  PROVE  /\ Sorted(t, p, ListOf(t, p))
         /\ \A i \in 1..Len(ListOf(t, p)) : t[ListOf(t, p)[i]].position = i - 1
         /\ Len(ListOf(t, p)) = Cardinality(RowsIn(t, p))
  <1> DEFINE X == RowsIn(t, p)
             n == Cardinality(X)
             s == ListOf(t, p)
  <1>0. p # Absent
    BY DEF Parents
  <1>1. /\ {t[x].position : x \in X} = 0..(n - 1) /\ n \in Nat
    BY <1>0, NumberedLemma
  <1>2. ASSUME NEW i \in 1..n PROVE s[i] \in X /\ t[s[i]].position = i - 1
    <2>1. i - 1 \in 0..(n - 1)
      BY <1>1
    <2>2. \E x \in X : t[x].position = i - 1
      BY <1>1, <2>1
    <2> HIDE DEF X, n
    <2>3. s = [k \in 1..n |-> CHOOSE x \in X : t[x].position = k - 1]
      BY DEF ListOf, X, n
    <2>4. s[i] = CHOOSE x \in X : t[x].position = i - 1
      BY <2>3
    <2> QED
      BY <2>2, <2>4
  <1>3. s \in [1..n -> X]
    <2> HIDE DEF X, n
    <2>1. s = [k \in 1..n |-> CHOOSE x \in X : t[x].position = k - 1]
      BY DEF ListOf, X, n
    <2>2. DOMAIN s = 1..n
      BY <2>1
    <2>3. \A i \in 1..n : (CHOOSE x \in X : t[x].position = i - 1) \in X
      BY <1>2, <2>1
    <2> QED
      BY <2>1, <2>3
  <1>4. s \in Seq(X) /\ Len(s) = n
    BY <1>1, <1>3
  <1>5. ASSUME NEW x \in X PROVE \E i \in 1..n : s[i] = x
    <2>1. t[x].position \in 0..(n - 1)
      BY <1>1
    <2>2. PICK i \in 1..n : i - 1 = t[x].position
      <3>1. \A k \in 0..(n - 1) : k + 1 \in 1..n /\ (k + 1) - 1 = k
        BY <1>1
      <3> QED
        BY <2>1, <3>1
    <2>3. s[i] \in X /\ t[s[i]].position = t[x].position
      BY <1>2, <2>2
    <2>4. s[i] = x
      BY <1>0, <2>3, TiedRows
    <2> QED
      BY <2>4
  <1>6. ASSUME NEW i \in 1..n, NEW j \in 1..n, i < j PROVE t[s[i]].position < t[s[j]].position
    <2>1. t[s[i]].position = i - 1 /\ t[s[j]].position = j - 1
      BY <1>2
    <2>2. i - 1 < j - 1
      BY <1>1, <1>6
    <2> QED
      BY <2>1, <2>2
  <1> QED
    BY <1>2, <1>4, <1>5, <1>6 DEF Sorted

\* There is one list that has the rows in their order.
LEMMA SortedIsListOf ==
  ASSUME NEW D, IsFiniteSet(D), NEW t, Numbered(t, D), NEW p \in Parents, NEW s, Sorted(t, p, s)
  PROVE  ListOf(t, p) = s
  <1> DEFINE X == RowsIn(t, p)
             n == Cardinality(X)
             L == ListOf(t, p)
             m == Len(s)
             q == [i \in 1..m |-> t[s[i]].position]
  <1>0. p # Absent
    BY DEF Parents
  <1>1. /\ {t[x].position : x \in X} = 0..(n - 1) /\ n \in Nat
    BY <1>0, NumberedLemma
  <1>2. /\ m \in Nat /\ \A i \in 1..m : s[i] \in X /\ q[i] = t[s[i]].position /\ q[i] \in 0..(n - 1)
    BY <1>1, LenProperties DEF Sorted
  <1>3. \A i, j \in 1..m : i < j => q[i] < q[j]
    BY <1>2 DEF Sorted
  <1>4. ASSUME NEW k \in 0..(n - 1) PROVE \E i \in 1..m : q[i] = k
    <2>1. PICK x \in X : t[x].position = k
      BY <1>1
    <2>2. PICK i \in 1..m : s[i] = x
      BY DEF Sorted
    <2> QED
      BY <1>2, <2>1, <2>2
  <1> HIDE DEF q, n, X, m
  <1>5. ASSUME NEW i \in 1..m PROVE q[i] = i - 1
    <2> DEFINE T == {j \in 1..m : q[j] # j - 1}
    <2>1. CASE T = {}
      BY <2>1
    <2>2. CASE T # {}
      <3>1. T \in SUBSET Nat
        BY <1>2
      <3>2. PICK j \in T : \A k \in T : j <= k
        BY <2>2, <3>1, NatMin
      <3>3. j \in 1..m /\ q[j] # j - 1 /\ \A k \in 1..m : k < j => q[k] = k - 1
        BY <1>2, <3>2
      <3>4. j \in Int /\ q[j] \in Int /\ q[j] >= 0 /\ q[j] <= n - 1 /\ j >= 1 /\ j <= m
        BY <1>1, <1>2, <3>3
      <3>5. q[j] >= j - 1
        <4>1. SUFFICES ASSUME q[j] < j - 1 PROVE FALSE
          BY <3>4
        <4>2. q[j] + 1 \in 1..m /\ q[j] + 1 < j
          BY <1>2, <3>4, <4>1
        <4>3. q[q[j] + 1] = (q[j] + 1) - 1
          BY <3>3, <4>2
        <4>4. q[q[j] + 1] < q[j]
          BY <1>3, <3>3, <4>2
        <4> QED
          BY <3>4, <4>3, <4>4
      <3>6. j - 1 < q[j] /\ j - 1 \in 0..(n - 1)
        BY <1>1, <3>3, <3>4, <3>5
      <3>7. PICK k \in 1..m : q[k] = j - 1
        BY <1>4, <3>6
      <3>8. CASE k < j
        BY <1>2, <3>3, <3>4, <3>7, <3>8
      <3>9. CASE k = j
        BY <3>3, <3>7, <3>9
      <3>10. CASE k > j
        <4>1. q[j] < q[k]
          BY <1>3, <3>3, <3>10
        <4> QED
          BY <3>4, <3>6, <3>7, <4>1
      <3> QED
        BY <1>2, <3>4, <3>8, <3>9, <3>10
    <2> QED
      BY <2>1, <2>2
  <1>6. m = n
    <2>1. m <= n
      <3>1. CASE m = 0
        BY <1>1, <3>1
      <3>2. CASE m # 0
        <4>1. m \in 1..m
          BY <1>2, <3>2
        <4>2. q[m] = m - 1 /\ q[m] <= n - 1 /\ q[m] \in Int
          BY <1>1, <1>2, <1>5, <4>1
        <4> QED
          BY <1>1, <1>2, <4>2
      <3> QED
        BY <3>1, <3>2
    <2>2. n <= m
      <3>1. CASE n = 0
        BY <1>2, <3>1
      <3>2. CASE n # 0
        <4>1. n - 1 \in 0..(n - 1)
          BY <1>1, <3>2
        <4>2. PICK i \in 1..m : q[i] = n - 1
          BY <1>4, <4>1
        <4>3. n - 1 = i - 1
          BY <1>5, <4>2
        <4> QED
          BY <1>1, <1>2, <4>3
      <3> QED
        BY <3>1, <3>2
    <2> QED
      BY <1>1, <1>2, <2>1, <2>2
  <1>7. /\ L \in Seq(X) /\ Len(L) = n
        /\ \A i \in 1..n : t[L[i]].position = i - 1 /\ L[i] \in X
    <2>1. Sorted(t, p, L) /\ Len(L) = n /\ \A i \in 1..Len(L) : t[L[i]].position = i - 1
      BY ListOfSorted DEF n, X
    <2>2. L \in Seq(X) /\ DOMAIN L = 1..n /\ L \in [1..n -> X]
      BY <2>1, LenProperties DEF Sorted, X
    <2> HIDE DEF L
    <2> QED
      BY <2>1, <2>2
  <1> HIDE DEF L
  <1>8. ASSUME NEW i \in 1..n PROVE L[i] = s[i]
    <2>1. L[i] \in X /\ s[i] \in X /\ t[L[i]].position = i - 1 /\ t[s[i]].position = i - 1
      BY <1>2, <1>5, <1>6, <1>7
    <2> QED
      BY <1>0, <2>1, TiedRows DEF X
  <1>9. s \in Seq(X) /\ Len(s) = n
    BY <1>6 DEF Sorted, X, m
  <1>10. SameList(L, s)
    BY <1>7, <1>8, <1>9 DEF SameList
  <1> QED
    BY <1>7, <1>9, <1>10, Same DEF L

\* Compaction numbers rows in the order of their positions ...
LEMMA RankGrows ==
  ASSUME NEW D, IsFiniteSet(D), NEW t, Loose(t, D), NEW x \in D, NEW y \in D,
         t[x].parent = t[y].parent, t[x].parent # Absent, t[x].position < t[y].position
  PROVE  Rank(t, x) < Rank(t, y)
  <1> DEFINE A == {z \in RowsIn(t, t[x].parent) : t[z].position < t[x].position}
             B == {z \in RowsIn(t, t[y].parent) : t[z].position < t[y].position}
  <1>1. DOMAIN t = D /\ \A z \in D : t[z].position \in Int
    BY DEF Loose, LooseRow
  <1>2. B \in SUBSET D /\ A \subseteq B
    BY <1>1 DEF RowsIn
  <1>3. x \in B /\ x \notin A
    BY <1>1 DEF RowsIn
  <1>4. IsFiniteSet(B) /\ A # B
    BY <1>2, <1>3, FS_Subset
  <1> HIDE DEF A, B
  <1>5. Cardinality(A) < Cardinality(B)
    <2>1. Cardinality(A) <= Cardinality(B) /\ (Cardinality(A) = Cardinality(B) => A = B)
      BY <1>2, <1>4, FS_Subset
    <2>2. Cardinality(A) \in Nat /\ Cardinality(B) \in Nat
      BY <1>2, <1>4, FS_Subset, FS_CardinalityType
    <2> QED
      BY <1>4, <2>1, <2>2
  <1> QED
    BY <1>5 DEF Rank, A, B

\* ... so only the order matters for the list of a compacted table.
LEMMA ListCompacted ==
  ASSUME NEW D, IsFiniteSet(D), NEW t, Loose(t, D), NEW p \in Parents, NEW s, Sorted(t, p, s)
  PROVE  ListOf(Compact(t), p) = s
  <1> DEFINE c == Compact(t)
  <1>1. /\ Numbered(c, D)
        /\ \A x \in D : c[x].parent = t[x].parent
        /\ \A x \in D : t[x].parent # Absent => c[x].position = Rank(t, x)
    BY CompactLemma
  <1>2. DOMAIN c = D /\ DOMAIN t = D
    BY <1>1 DEF Numbered, Loose
  <1> HIDE DEF c
  <1>3. RowsIn(c, p) = RowsIn(t, p)
    BY <1>1, <1>2 DEF RowsIn
  <1>4. ASSUME NEW i \in 1..Len(s), NEW j \in 1..Len(s), i < j
        PROVE  c[s[i]].position < c[s[j]].position
    <2>1. s[i] \in RowsIn(t, p) /\ s[j] \in RowsIn(t, p)
      BY LenProperties DEF Sorted
    <2>2. /\ s[i] \in D /\ s[j] \in D /\ t[s[i]].parent = p /\ t[s[j]].parent = p /\ p # Absent
      BY <1>2, <2>1 DEF RowsIn, Parents
    <2>4. t[s[i]].position < t[s[j]].position
      BY <1>4 DEF Sorted
    <2>3. Rank(t, s[i]) < Rank(t, s[j])
      BY <2>2, <2>4, RankGrows
    <2> QED
      BY <1>1, <2>2, <2>3
  <1>5. Sorted(c, p, s)
    BY <1>3, <1>4 DEF Sorted
  <1> QED
    BY <1>1, <1>5, SortedIsListOf DEF c

\* Two members of a sorted list are different.
LEMMA SortedSingle ==
  ASSUME NEW D, NEW t, t \in [D -> LooseRow] \/ t \in [D -> Row], NEW p, NEW s, Sorted(t, p, s)
  PROVE  Single(s)
  <1>1. \A x \in D : t[x].position \in Int
    BY DEF LooseRow, Row
  <1>2. ASSUME NEW i \in 1..Len(s), NEW j \in 1..Len(s), s[i] = s[j] PROVE i = j
    <2>1. Len(s) \in Nat /\ s[i] \in D /\ s[j] \in D
      BY LenProperties DEF Sorted, RowsIn
    <2>2. ~ (i < j) /\ ~ (j < i)
      <3>1. ~ (t[s[i]].position < t[s[j]].position) /\ ~ (t[s[j]].position < t[s[i]].position)
        BY <1>1, <1>2, <2>1
      <3> QED
        BY <3>1 DEF Sorted
    <2> QED
      BY <2>1, <2>2
  <1> QED
    BY <1>2 DEF Single

-----------------------------------------------------------------------------
(* Lists that keep their order when a table changes *)

SameOrder(t, u, X) ==
  \A x, y \in X : t[x].position < t[y].position => u[x].position < u[y].position

\* The same rows in the same order have the same list.
LEMMA SortedKept ==
  ASSUME NEW t, NEW u, NEW p, NEW s, Sorted(t, p, s),
         RowsIn(u, p) = RowsIn(t, p), SameOrder(t, u, RowsIn(t, p))
  PROVE  Sorted(u, p, s)
  <1>1. \A i \in 1..Len(s) : s[i] \in RowsIn(t, p)
    BY LenProperties DEF Sorted
  <1> QED
    BY <1>1 DEF Sorted, SameOrder

\* Without a row, the list without it.
LEMMA SortedWithout ==
  ASSUME NEW t, NEW u, NEW p, NEW s, Sorted(t, p, s), Single(s), NEW x,
         RowsIn(u, p) = RowsIn(t, p) \ {x}, SameOrder(t, u, RowsIn(u, p))
  PROVE  Sorted(u, p, Lists!Without(s, x))
  <1> DEFINE X == RowsIn(t, p)
             w == Lists!Without(s, x)
  <1>1. /\ s \in Seq(X) /\ Len(s) \in Nat /\ \A i \in 1..Len(s) : s[i] \in X
    BY LenProperties DEF Sorted
  <1>2. CASE x \notin X
    <2>1. \A i \in 1..Len(s) : s[i] # x
      BY <1>1, <1>2
    <2>2. w = s
      BY <1>1, <2>1, WithoutFacts
    <2>3. RowsIn(u, p) = RowsIn(t, p)
      BY <1>2
    <2> QED
      BY <2>2, <2>3, SortedKept
  <1>3. CASE x \in X
    <2>1. PICK k \in 1..Len(s) : s[k] = x
      BY <1>3 DEF Sorted
    <2>2. Removed(w, X, s, k)
      <3>1. w = Lists!RemoveAt(s, k)
        BY <1>1, <2>1, WithoutFacts
      <3>2. Removed(Lists!RemoveAt(s, k), X, s, k)
        BY <1>1, <2>1, RemoveAtFacts
      <3> QED
        BY <3>1, <3>2
    <2> DEFINE m == Len(s) - 1
               Old(j) == IF j < k THEN j ELSE j + 1
    <2>3. /\ w \in Seq(X) /\ Len(w) = m /\ m \in Nat
          /\ \A j \in 1..m : w[j] = s[Old(j)] /\ Old(j) \in 1..Len(s) /\ Old(j) # k
      BY <1>1, <2>1, <2>2 DEF Removed
    <2>4. \A i, j \in 1..m : i < j => Old(i) < Old(j)
      BY <1>1, <2>1
    <2>5. \A i \in 1..Len(s) : i # k => \E j \in 1..m : Old(j) = i
      <3>1. ASSUME NEW i \in 1..Len(s), i # k PROVE \E j \in 1..m : Old(j) = i
        <4>1. CASE i < k
          BY <1>1, <2>1, <4>1
        <4>2. CASE i > k
          <5>1. i - 1 \in 1..m /\ Old(i - 1) = i
            BY <1>1, <2>1, <4>2
          <5> QED
            BY <5>1
        <4> QED
          BY <1>1, <2>1, <3>1, <4>1, <4>2
      <3> QED
        BY <3>1
    <2> HIDE DEF Old, m, w, X
    <2>6. \A j \in 1..m : w[j] \in RowsIn(u, p)
      <3>1. ASSUME NEW j \in 1..m PROVE w[j] \in RowsIn(u, p)
        <4>1. w[j] = s[Old(j)] /\ Old(j) \in 1..Len(s) /\ Old(j) # k
          BY <2>3
        <4>2. s[Old(j)] \in X /\ s[Old(j)] # x
          BY <1>1, <2>1, <4>1 DEF Single
        <4> QED
          BY <4>1, <4>2 DEF X
      <3> QED
        BY <3>1
    <2>7. w \in Seq(RowsIn(u, p))
      <3>1. w \in [1..m -> X]
        BY <2>3, LenProperties
      <3>2. w \in [1..m -> RowsIn(u, p)]
        BY <2>6, <3>1
      <3> QED
        BY <2>3, <3>2
    <2>8. ASSUME NEW y \in RowsIn(u, p) PROVE \E j \in 1..m : w[j] = y
      <3>1. y \in X /\ y # x
        BY DEF X
      <3>2. PICK i \in 1..Len(s) : s[i] = y
        BY <3>1 DEF Sorted, X
      <3>3. i # k
        BY <2>1, <3>1, <3>2
      <3>4. PICK j \in 1..m : Old(j) = i
        BY <2>5, <3>3
      <3> QED
        BY <2>3, <3>2, <3>4
    <2>9. ASSUME NEW i \in 1..m, NEW j \in 1..m, i < j PROVE u[w[i]].position < u[w[j]].position
      <3>1. w[i] = s[Old(i)] /\ w[j] = s[Old(j)] /\ Old(i) \in 1..Len(s) /\ Old(j) \in 1..Len(s)
        BY <2>3
      <3>2. Old(i) < Old(j)
        BY <2>4, <2>9
      <3>3. t[w[i]].position < t[w[j]].position
        BY <3>1, <3>2 DEF Sorted
      <3>4. w[i] \in RowsIn(u, p) /\ w[j] \in RowsIn(u, p)
        BY <2>6
      <3> QED
        BY <3>3, <3>4 DEF SameOrder
    <2>10. Len(w) = m
      BY <2>3
    <2> QED
      BY <2>7, <2>8, <2>9, <2>10 DEF Sorted, w
  <1> QED
    BY <1>2, <1>3

\* With a new row, the list with that row in front of the rows that are behind it.
LEMMA SortedWith ==
  ASSUME NEW t, NEW u, NEW p, NEW s, Sorted(t, p, s), NEW x, NEW i \in 1..(Len(s) + 1),
         RowsIn(u, p) = RowsIn(t, p) \union {x}, SameOrder(t, u, RowsIn(t, p)),
         \A j \in 1..Len(s) : j < i => u[s[j]].position < u[x].position,
         \A j \in 1..Len(s) : i <= j => u[x].position < u[s[j]].position
  PROVE  Sorted(u, p, Lists!InsertAt(s, i, x))
  <1> DEFINE X == RowsIn(u, p)
             w == Lists!InsertAt(s, i, x)
             m == Len(s) + 1
  <1>1. /\ Len(s) \in Nat /\ \A j \in 1..Len(s) : s[j] \in RowsIn(t, p) /\ s[j] \in X
        /\ s \in Seq(RowsIn(t, p))
    BY LenProperties DEF Sorted
  <1>2. s \in Seq(X)
    BY <1>1, SeqMonotonic
  <1>3. x \in X /\ i \in Int /\ 1 <= i /\ i <= Len(s) + 1
    BY <1>1
  <1>4. Inserted(w, X, s, i, x)
    BY <1>2, <1>3, InsertAtFacts
  <1> HIDE DEF w, X
  <1>5. /\ w \in Seq(X) /\ Len(w) = m
        /\ \A j \in 1..m : w[j] = IF j < i THEN s[j] ELSE IF j = i THEN x ELSE s[j - 1]
    BY <1>4 DEF Inserted
  <1>6. ASSUME NEW y \in X PROVE \E j \in 1..m : w[j] = y
    <2>1. CASE y = x
      <3>1. i \in 1..m /\ w[i] = x
        BY <1>1, <1>3, <1>5
      <3> QED
        BY <2>1, <3>1
    <2>2. CASE y # x
      <3>1. y \in RowsIn(t, p)
        BY <2>2 DEF X
      <3>2. PICK j \in 1..Len(s) : s[j] = y
        BY <3>1 DEF Sorted
      <3>3. CASE j < i
        <4>1. j \in 1..m /\ w[j] = s[j]
          BY <1>1, <1>3, <1>5, <3>3
        <4> QED
          BY <3>2, <4>1
      <3>4. CASE i <= j
        <4>1. j + 1 \in 1..m /\ ~(j + 1 < i) /\ j + 1 # i /\ (j + 1) - 1 = j
          BY <1>1, <1>3, <3>4
        <4>2. w[j + 1] = s[j]
          BY <1>5, <4>1
        <4> QED
          BY <3>2, <4>1, <4>2
      <3> QED
        BY <1>1, <1>3, <3>3, <3>4
    <2> QED
      BY <2>1, <2>2
  <1>7. ASSUME NEW j \in 1..m, NEW k \in 1..m, j < k PROVE u[w[j]].position < u[w[k]].position
    <2>0. /\ w[j] = IF j < i THEN s[j] ELSE IF j = i THEN x ELSE s[j - 1]
          /\ w[k] = IF k < i THEN s[k] ELSE IF k = i THEN x ELSE s[k - 1]
      BY <1>5
    <2>9. \A a, b \in 1..Len(s) : a < b => u[s[a]].position < u[s[b]].position
      BY <1>1 DEF Sorted, SameOrder
    <2>1. CASE k < i
      <3>1. j \in 1..Len(s) /\ k \in 1..Len(s) /\ j < i
        BY <1>1, <1>3, <1>7, <2>1
      <3> QED
        BY <1>7, <2>0, <2>1, <2>9, <3>1
    <2>2. CASE k = i
      <3>1. j \in 1..Len(s) /\ j < i /\ ~(k < i)
        BY <1>1, <1>3, <1>7, <2>2
      <3> QED
        BY <2>0, <2>2, <3>1
    <2>3. CASE k > i
      <3>0. k - 1 \in 1..Len(s) /\ ~(k < i) /\ k # i
        BY <1>1, <1>3, <2>3
      <3>1. CASE j < i
        <4>1. j \in 1..Len(s) /\ j < k - 1
          BY <1>1, <1>3, <2>3, <3>1
        <4> QED
          BY <2>0, <2>9, <3>0, <3>1, <4>1
      <3>2. CASE j = i
        <4>1. i <= k - 1 /\ ~(j < i)
          BY <1>1, <1>3, <2>3, <3>2
        <4> QED
          BY <2>0, <3>0, <3>2, <4>1
      <3>3. CASE j > i
        <4>1. j - 1 \in 1..Len(s) /\ j - 1 < k - 1 /\ ~(j < i) /\ j # i
          BY <1>1, <1>3, <1>7, <3>3
        <4> QED
          BY <2>0, <2>9, <3>0, <4>1
      <3> QED
        BY <1>1, <1>3, <3>1, <3>2, <3>3
    <2> QED
      BY <1>1, <1>3, <2>1, <2>2, <2>3
  <1> QED
    BY <1>5, <1>6, <1>7 DEF Sorted, X, w

ListsOf(t) == [p \in Parents |-> ListOf(t, p)]

\* The members of the lists are the rows of the table.
LEMMA InAnyIs ==
  ASSUME NEW D, IsFiniteSet(D), NEW t, Numbered(t, D)
  PROVE  /\ Lists!InAny(ListsOf(t)) = Rows(t)
         /\ \A p \in Parents : Lists!Range(ListOf(t, p)) = RowsIn(t, p)
  <1>1. ASSUME NEW p \in Parents PROVE Lists!Range(ListOf(t, p)) = RowsIn(t, p)
    <2>1. Sorted(t, p, ListOf(t, p))
      BY ListOfSorted
    <2>2. /\ ListOf(t, p) \in Seq(RowsIn(t, p))
          /\ \A x \in RowsIn(t, p) : \E i \in 1..Len(ListOf(t, p)) : ListOf(t, p)[i] = x
          /\ \A i \in 1..Len(ListOf(t, p)) : ListOf(t, p)[i] \in RowsIn(t, p)
      BY <2>1, LenProperties DEF Sorted
    <2>3. \A x : x \in Lists!Range(ListOf(t, p)) <=> \E i \in 1..Len(ListOf(t, p)) : ListOf(t, p)[i] = x
      BY <2>2, RangeIs
    <2> QED
      BY <2>2, <2>3
  <1>2. \A x : x \in Lists!InAny(ListsOf(t)) <=> \E p \in Parents : x \in Lists!Range(ListOf(t, p))
    BY DEF Lists!InAny, Lists!Parents, ListsOf, Parents
  <1>3. \A x : x \in Rows(t) <=> \E p \in Parents : x \in RowsIn(t, p)
    BY DEF Rows, RowsIn, Numbered, Row, Parents
  <1> QED
    BY <1>1, <1>2, <1>3

-----------------------------------------------------------------------------
(* A new row is at the end of its list, a deleted row is gone from it *)

\* Appending is inserting after the last.
LEMMA AppendIsInsertAt ==
  ASSUME NEW S, NEW s \in Seq(S), NEW e \in S
  PROVE  Lists!InsertAt(s, Len(s) + 1, e) = Append(s, e)
  <1> DEFINE w == Lists!InsertAt(s, Len(s) + 1, e)
             a == Append(s, e)
             i == Len(s) + 1
  <1>1. Len(s) \in Nat
    BY LenProperties
  <1>2. Inserted(w, S, s, i, e)
    BY <1>1, InsertAtFacts
  <1>3. /\ a \in Seq(S) /\ Len(a) = i /\ \A j \in 1..Len(s) : a[j] = s[j]
        /\ a[i] = e
    BY AppendProperties
  <1> HIDE DEF w, a
  <1>4. ASSUME NEW j \in 1..i PROVE w[j] = a[j]
    <2>1. CASE j = i
      BY <1>1, <1>2, <1>3, <2>1 DEF Inserted
    <2>2. CASE j # i
      <3>1. j \in 1..Len(s) /\ j < i
        BY <1>1, <2>2
      <3>2. w[j] = s[j]
        BY <1>2, <3>1 DEF Inserted
      <3> QED
        BY <1>3, <3>1, <3>2
    <2> QED
      BY <2>1, <2>2
  <1>5. w \in Seq(S) /\ SameList(w, a)
    BY <1>2, <1>3, <1>4 DEF Inserted, SameList
  <1> QED
    BY <1>3, <1>5, Same DEF w, a

\* Facts about the lists of a numbered table.
LEMMA ListFacts ==
  ASSUME NEW D \in {Folders, Requests}, NEW t, Numbered(t, D), NEW p \in Parents
  PROVE  /\ Sorted(t, p, ListOf(t, p)) /\ Single(ListOf(t, p))
         /\ ListOf(t, p) \in Seq(RowsIn(t, p)) /\ Len(ListOf(t, p)) \in Nat
         /\ ListOf(t, p) \in Seq(D)
         /\ \A i \in 1..Len(ListOf(t, p)) :
              ListOf(t, p)[i] \in RowsIn(t, p) /\ t[ListOf(t, p)[i]].position = i - 1
         /\ \A x \in RowsIn(t, p) :
              t[x].position + 1 \in 1..Len(ListOf(t, p)) /\ ListOf(t, p)[t[x].position + 1] = x
  <1> DEFINE s == ListOf(t, p)
  <1>1. IsFiniteSet(D)
    BY FiniteAssumption
  <1>2. /\ Sorted(t, p, s)
        /\ \A i \in 1..Len(s) : t[s[i]].position = i - 1
    BY <1>1, ListOfSorted
  <1> HIDE DEF s
  <1>3. t \in [D -> Row] /\ DOMAIN t = D
    BY DEF Numbered
  <1>4. Single(s)
    BY <1>2, <1>3, SortedSingle
  <1>5. s \in Seq(RowsIn(t, p))
    BY <1>2 DEF Sorted
  <1>6. Len(s) \in Nat /\ \A i \in 1..Len(s) : s[i] \in RowsIn(t, p)
    BY <1>5, LenProperties
  <1>7. s \in Seq(D)
    BY <1>3, <1>5, SeqMonotonic DEF RowsIn
  <1>8. ASSUME NEW x \in RowsIn(t, p)
        PROVE  t[x].position + 1 \in 1..Len(s) /\ s[t[x].position + 1] = x
    <2>1. PICK i \in 1..Len(s) : s[i] = x
      BY <1>2 DEF Sorted
    <2>2. t[x].position = i - 1
      BY <1>2, <2>1
    <2>3. t[x].position + 1 = i
      BY <1>6, <2>2
    <2> QED
      BY <2>1, <2>3
  <1> QED
    BY <1>2, <1>4, <1>5, <1>6, <1>7, <1>8 DEF s

\* A row written at the next position is the last of its list.
LEMMA AddLists ==
  ASSUME NEW D \in {Folders, Requests}, NEW t, Numbered(t, D), NEW x \in D, t[x].parent = Absent,
         NEW p \in Parents
  PROVE  ListsOf([t EXCEPT ![x] = At(p, NextPosition(t, p))]) =
           [ListsOf(t) EXCEPT ![p] = Append(@, x)]
  <1> DEFINE u == [t EXCEPT ![x] = At(p, NextPosition(t, p))]
             s == ListOf(t, p)
  <1>0. IsFiniteSet(D) /\ p # Absent
    BY FiniteAssumption DEF Parents
  <1>1. Numbered(u, D)
    BY <1>0, AddLemma
  <1>2. /\ DOMAIN t = D /\ DOMAIN u = D /\ u[x].parent = p
        /\ \A y \in D \ {x} : u[y] = t[y]
        /\ \A y \in D : t[y].position \in Nat /\ u[y].position \in Nat
    BY <1>1 DEF Numbered, Row, At
  <1> HIDE DEF u
  <1>3. /\ RowsIn(u, p) = RowsIn(t, p) \union {x} /\ x \notin RowsIn(t, p)
        /\ \A q \in Parents \ {p} : RowsIn(u, q) = RowsIn(t, q) /\ x \notin RowsIn(t, q)
    BY <1>0, <1>2 DEF RowsIn, Parents
  <1>4. \A q \in Parents : SameOrder(t, u, RowsIn(t, q))
    BY <1>2, <1>3 DEF SameOrder, RowsIn
  <1>5. ASSUME NEW y \in RowsIn(t, p) PROVE u[y].position < u[x].position
    <2>1. {t[z].position : z \in RowsIn(t, p)} = 0..(Cardinality(RowsIn(t, p)) - 1)
          /\ Cardinality(RowsIn(t, p)) \in Nat
      BY <1>0, NumberedLemma
    <2>2. u[y].position = t[y].position /\ y \in D /\ y # x
      BY <1>2, <1>3 DEF RowsIn
    <2>3. ASSUME u[x].position <= u[y].position PROVE FALSE
      <3>1. t[y].position \in 0..(Cardinality(RowsIn(t, p)) - 1)
        BY <2>1
      <3>2. u[x].position \in 0..(Cardinality(RowsIn(t, p)) - 1)
        BY <1>2, <2>1, <2>2, <2>3, <3>1
      <3>3. PICK z \in RowsIn(t, p) : t[z].position = u[x].position
        BY <2>1, <3>2
      <3>4. z \in RowsIn(u, p) /\ x \in RowsIn(u, p) /\ u[z].position = u[x].position
        BY <1>2, <1>3, <3>3 DEF RowsIn
      <3>5. z = x
        BY <1>0, <1>1, <3>4, TiedRows
      <3> QED
        BY <1>3, <3>5
    <2> QED
      BY <1>2, <2>2, <2>3
  <1>6. ListOf(u, p) = Append(s, x)
    <2>1. Sorted(t, p, s) /\ s \in Seq(D) /\ Len(s) \in Nat /\ \A j \in 1..Len(s) : s[j] \in RowsIn(t, p)
      BY ListFacts
    <2>2. Sorted(u, p, Lists!InsertAt(s, Len(s) + 1, x))
      <3>1. Len(s) + 1 \in 1..(Len(s) + 1)
        BY <2>1
      <3>2. \A j \in 1..Len(s) : u[s[j]].position < u[x].position
        BY <1>5, <2>1
      <3>3. \A j \in 1..Len(s) : ~(Len(s) + 1 <= j)
        BY <2>1
      <3> HIDE DEF s
      <3> QED
        BY <1>3, <1>4, <2>1, <3>1, <3>2, <3>3, SortedWith
    <2>3. Lists!InsertAt(s, Len(s) + 1, x) = Append(s, x)
      BY <2>1, AppendIsInsertAt
    <2> QED
      BY <1>0, <1>1, <2>2, <2>3, SortedIsListOf
  <1>7. ASSUME NEW q \in Parents, q # p PROVE ListOf(u, q) = ListOf(t, q)
    <2>1. Sorted(t, q, ListOf(t, q))
      BY ListFacts
    <2>2. Sorted(u, q, ListOf(t, q))
      BY <1>3, <1>4, <1>7, <2>1, SortedKept
    <2> QED
      BY <1>0, <1>1, <2>2, SortedIsListOf
  <1> QED
    BY <1>6, <1>7 DEF ListsOf, u

\* The lists of a table that was compacted after the row x went.
LEMMA RemovedLists ==
  ASSUME NEW D \in {Folders, Requests}, NEW t, Numbered(t, D), NEW x, NEW u, Loose(u, D),
         NEW q \in Parents, RowsIn(u, q) = RowsIn(t, q) \ {x}, SameOrder(t, u, RowsIn(u, q))
  PROVE  ListOf(Compact(u), q) = Lists!Without(ListOf(t, q), x)
  <1>0. IsFiniteSet(D)
    BY FiniteAssumption
  <1>1. Sorted(t, q, ListOf(t, q)) /\ Single(ListOf(t, q))
    BY ListFacts
  <1>2. Sorted(u, q, Lists!Without(ListOf(t, q), x))
    BY <1>1, SortedWithout
  <1> QED
    BY <1>0, <1>2, ListCompacted

\* A deleted row leaves its list.
LEMMA DeleteLists ==
  ASSUME NEW D \in {Folders, Requests}, NEW t, Numbered(t, D), NEW x
  PROVE  ListsOf(Compact(Erase(t, {x}))) = Lists!AllWithout(ListsOf(t), x)
  <1> DEFINE e == Erase(t, {x})
  <1>1. /\ Loose(e, D)
        /\ \A y \in D : e[y].parent = IF y = x THEN Absent ELSE t[y].parent
    BY EraseLemma
  <1>2. /\ DOMAIN t = D /\ DOMAIN e = D
        /\ \A y \in D : y # x => e[y] = t[y]
    BY <1>1 DEF Numbered, Erase
  <1> HIDE DEF e
  <1>3. ASSUME NEW q \in Parents PROVE ListOf(Compact(e), q) = Lists!Without(ListOf(t, q), x)
    <2>1. RowsIn(e, q) = RowsIn(t, q) \ {x}
      <3>1. q # Absent
        BY DEF Parents
      <3>2. \A y \in D : e[y].parent = q <=> t[y].parent = q /\ y # x
        BY <1>1, <3>1
      <3>3. DOMAIN t = D /\ DOMAIN e = D
        BY <1>2
      <3> QED
        BY ONLY <3>2, <3>3 DEF RowsIn
    <2>2. SameOrder(t, e, RowsIn(e, q))
      BY <1>2, <2>1 DEF SameOrder, RowsIn
    <2>3. Loose(e, D)
      BY <1>1
    <2> QED
      BY <2>1, <2>2, <2>3, RemovedLists
  <1>4. Lists!AllWithout(ListsOf(t), x) = [q \in Parents |-> Lists!Without(ListOf(t, q), x)]
    BY DEF Lists!AllWithout, Lists!Parents, Parents, ListsOf
  <1> QED
    BY <1>3, <1>4 DEF ListsOf, e

-----------------------------------------------------------------------------
(* A move keeps the order of all the other rows *)

\* A move keeps the order of all other rows.
LEMMA OthersKeepOrder ==
  ASSUME NEW D \in {Folders, Requests}, NEW t, Numbered(t, D),
         NEW x \in D, t[x].parent # Absent, NEW p \in Parents, NEW n \in 0..MaxPosition,
         NEW y \in D \ {x}, NEW z \in D \ {x}, t[y].parent = t[z].parent, t[y].parent # Absent,
         Moved(t, x, p, n)[y].position < Moved(t, x, p, n)[z].position
  PROVE  t[y].position < t[z].position
  <1> DEFINE m == Moved(t, x, p, n)
             s == ShiftPositions(t, x, p, n)
  <1>1. /\ t \in [D -> Row] /\ DOMAIN t = D /\ p # Absent /\ n \in Nat
        /\ \A v \in D : t[v].position \in Nat
    BY DEF Numbered, Row, Parents
  <1>2. \A v \in D : t[v].parent # Absent => t[v].position <= Top
    BY <1>1, BelowTop, TopLemma
  <1>3. /\ s \in [D -> LooseRow]
        /\ \A v \in D : s[v].position = Standing(t, x, p, n, v)
    BY <1>1, <1>2, ShiftPositionsLemma
  <1>4. m[y] = s[y] /\ m[z] = s[z]
    BY <1>3 DEF Moved
  <1>5. Standing(t, x, p, n, y) < Standing(t, x, p, n, z)
    BY <1>3, <1>4
  <1> DEFINE a == t[y].position
             b == t[z].position
             o == t[x].position
  <1>6. a \in Nat /\ b \in Nat /\ o \in Nat /\ n \in Nat
    BY <1>1
  <1> HIDE DEF a, b, o
  <1>7. CASE t[x].parent # p
    <2>1. CASE t[y].parent = t[x].parent
      <3>1. /\ Standing(t, x, p, n, y) = IF o < a THEN a - 1 ELSE a
            /\ Standing(t, x, p, n, z) = IF o < b THEN b - 1 ELSE b
        BY <1>7, <2>1 DEF Standing, a, b, o
      <3>2. a # b => TRUE
        OBVIOUS
      <3> QED
        BY <1>5, <1>6, <3>1 DEF a, b
    <2>2. CASE t[y].parent # t[x].parent /\ t[y].parent = p
      <3>1. /\ Standing(t, x, p, n, y) = IF n <= a THEN a + 1 ELSE a
            /\ Standing(t, x, p, n, z) = IF n <= b THEN b + 1 ELSE b
        BY <1>7, <2>2 DEF Standing, a, b, o
      <3> QED
        BY <1>5, <1>6, <3>1 DEF a, b
    <2>3. CASE t[y].parent # t[x].parent /\ t[y].parent # p
      <3>1. /\ Standing(t, x, p, n, y) = a
            /\ Standing(t, x, p, n, z) = b
        BY <1>7, <2>3 DEF Standing, a, b, o
      <3> QED
        BY <1>5, <1>6, <3>1 DEF a, b
    <2> QED
      BY <2>1, <2>2, <2>3
  <1>8. CASE t[x].parent = p
    <2>1. CASE t[y].parent # p
      <3>1. /\ Standing(t, x, p, n, y) = a
            /\ Standing(t, x, p, n, z) = b
        BY <1>8, <2>1 DEF Standing, a, b, o
      <3> QED
        BY <1>5, <1>6, <3>1 DEF a, b
    <2>2. CASE t[y].parent = p /\ n < o
      <3>1. /\ Standing(t, x, p, n, y) = IF n <= a /\ a < o THEN a + 1 ELSE a
            /\ Standing(t, x, p, n, z) = IF n <= b /\ b < o THEN b + 1 ELSE b
        BY <1>8, <2>2 DEF Standing, a, b, o
      <3> QED
        BY <1>5, <1>6, <2>2, <3>1 DEF a, b
    <2>3. CASE t[y].parent = p /\ ~(n < o)
      <3>1. /\ Standing(t, x, p, n, y) = IF o < a /\ a <= n THEN a - 1 ELSE a
            /\ Standing(t, x, p, n, z) = IF o < b /\ b <= n THEN b - 1 ELSE b
        BY <1>8, <2>3 DEF Standing, a, b, o
      <3> QED
        BY <1>5, <1>6, <2>3, <3>1 DEF a, b
    <2> QED
      BY <2>1, <2>2, <2>3
  <1> QED
    BY <1>7, <1>8

\* Compaction keeps the order of rows that share a folder.
LEMMA CompactOrder ==
  ASSUME NEW D, IsFiniteSet(D), NEW t, Loose(t, D), NEW x \in D, NEW y \in D,
         t[x].parent = t[y].parent, t[x].parent # Absent,
         Compact(t)[x].position < Compact(t)[y].position
  PROVE  t[x].position < t[y].position
  <1>1. /\ Compact(t)[x].position = Rank(t, x) /\ Compact(t)[y].position = Rank(t, y)
        /\ Compact(t) \in [D -> Row]
    BY CompactLemma DEF Numbered
  <1>2. Rank(t, x) \in Nat /\ Rank(t, y) \in Nat
    <2>1. Compact(t)[x].position \in Nat /\ Compact(t)[y].position \in Nat
      BY <1>1 DEF Row
    <2> QED
      BY <1>1, <2>1
  <1>3. t[x].position \in Int /\ t[y].position \in Int
    BY DEF Loose, LooseRow
  <1>4. CASE t[y].position < t[x].position
    <2>1. Rank(t, y) < Rank(t, x)
      BY <1>4, RankGrows
    <2> QED
      BY <1>1, <1>2, <2>1
  <1>5. CASE t[y].position = t[x].position
    <2>1. x = y
      BY <1>5 DEF Loose, Untied
    <2> QED
      BY <1>1, <1>2, <2>1
  <1> QED
    BY <1>3, <1>4, <1>5

\* A move takes a row from its list and inserts it at one place of another.
LEMMA MoveLists ==
  ASSUME NEW D \in {Folders, Requests}, NEW t, Numbered(t, D),
         NEW x \in D, t[x].parent # Absent, NEW p \in Parents, NEW n \in 0..MaxPosition
  PROVE  \E i \in 1..(Len(Lists!Without(ListOf(t, p), x)) + 1) :
           ListsOf(Compact(Moved(t, x, p, n))) = Lists!Moved(ListsOf(t), x, p, i)
  <1> DEFINE m == Moved(t, x, p, n)
             c == Compact(m)
             e == Erase(t, {x})
  <1>0. IsFiniteSet(D) /\ p # Absent
    BY FiniteAssumption DEF Parents
  <1>1. /\ Loose(m, D) /\ m[x].parent = p
        /\ \A y \in D \ {x} : m[y].parent = t[y].parent
    BY MoveLemma
  <1>2. /\ Numbered(c, D) /\ \A y \in D : c[y].parent = m[y].parent
    BY <1>0, <1>1, CompactLemma
  <1>3. /\ Loose(e, D)
        /\ \A y \in D : e[y].parent = IF y = x THEN Absent ELSE t[y].parent
    BY EraseLemma
  <1>4. \A y \in D \ {x} : e[y] = t[y]
    BY DEF Numbered, Erase
  <1>5. DOMAIN t = D /\ DOMAIN c = D /\ DOMAIN e = D
    BY <1>2, <1>3 DEF Numbered, Loose
  <1>6. ASSUME NEW y \in D \ {x}, NEW z \in D \ {x}, t[y].parent = t[z].parent,
               t[y].parent # Absent, c[y].position < c[z].position
        PROVE  e[y].position < e[z].position
    <2>1. m[y].parent = m[z].parent /\ m[y].parent # Absent
      BY <1>1, <1>6
    <2>2. m[y].position < m[z].position
      BY <1>0, <1>1, <1>6, <2>1, CompactOrder
    <2>3. t[y].position < t[z].position
      BY <1>6, <2>2, OthersKeepOrder
    <2> QED
      BY <1>4, <2>3
  <1>7. ASSUME NEW q \in Parents PROVE ListOf(Compact(e), q) = Lists!Without(ListOf(c, q), x)
    <2>0. q # Absent
      BY DEF Parents
    <2>1. RowsIn(e, q) = RowsIn(c, q) \ {x}
      <3>1. \A y \in D : e[y].parent = q <=> c[y].parent = q /\ y # x
        BY <1>1, <1>2, <1>3, <2>0
      <3> QED
        BY ONLY <1>5, <3>1 DEF RowsIn
    <2>2. SameOrder(c, e, RowsIn(e, q))
      <3>1. \A y \in RowsIn(e, q) : y \in D \ {x} /\ t[y].parent = q
        BY <1>3, <1>5, <2>0 DEF RowsIn
      <3> QED
        BY <1>6, <2>0, <3>1 DEF SameOrder
    <2>3. Loose(e, D) /\ Numbered(c, D)
      BY <1>2, <1>3
    <2> HIDE DEF e, c
    <2> QED
      BY <2>1, <2>2, <2>3, RemovedLists
  <1>8. ASSUME NEW q \in Parents PROVE Lists!Without(ListOf(t, q), x) = Lists!Without(ListOf(c, q), x)
    <2>1. ListsOf(Compact(e)) = Lists!AllWithout(ListsOf(t), x)
      BY DeleteLists
    <2>2. ListsOf(Compact(e))[q] = ListOf(Compact(e), q)
      BY DEF ListsOf
    <2>3. Lists!AllWithout(ListsOf(t), x)[q] = Lists!Without(ListOf(t, q), x)
      BY DEF ListsOf, Lists!AllWithout, Lists!Parents, Parents
    <2> QED
      BY <1>7, <2>1, <2>2, <2>3
  <1> HIDE DEF m, c, e
  <1>9. ASSUME NEW q \in Parents, q # p PROVE Lists!Without(ListOf(t, q), x) = ListOf(c, q)
    <2>1. /\ ListOf(c, q) \in Seq(RowsIn(c, q)) /\ Single(ListOf(c, q))
          /\ \A i \in 1..Len(ListOf(c, q)) : ListOf(c, q)[i] \in RowsIn(c, q)
      BY <1>2, ListFacts
    <2>2. x \notin RowsIn(c, q)
      BY <1>1, <1>2, <1>9 DEF RowsIn
    <2>3. \A i \in 1..Len(ListOf(c, q)) : ListOf(c, q)[i] # x
      BY <2>1, <2>2
    <2>4. Lists!Without(ListOf(c, q), x) = ListOf(c, q)
      BY <2>1, <2>3, WithoutFacts
    <2> QED
      BY <1>8, <2>4
  <1>10. PICK i \in 1..(Len(Lists!Without(ListOf(t, p), x)) + 1) :
           Lists!InsertAt(Lists!Without(ListOf(t, p), x), i, x) = ListOf(c, p)
    <2> DEFINE s == ListOf(c, p)
               i == c[x].position + 1
    <2>1. x \in RowsIn(c, p)
      BY <1>1, <1>2, <1>5 DEF RowsIn
    <2>2. /\ s \in Seq(RowsIn(c, p)) /\ Single(s) /\ i \in 1..Len(s) /\ s[i] = x
      BY <1>2, <2>1, ListFacts
    <2>3. Lists!Without(s, x) = Lists!RemoveAt(s, i)
      BY <2>2, WithoutFacts
    <2>4. /\ Lists!InsertAt(Lists!RemoveAt(s, i), i, s[i]) = s
          /\ i \in 1..(Len(Lists!RemoveAt(s, i)) + 1)
      BY <2>2, PutBack
    <2>5. Lists!Without(ListOf(t, p), x) = Lists!RemoveAt(s, i)
      BY <1>8, <2>3
    <2> QED
      BY <2>2, <2>4, <2>5
  <1>11. Lists!AllWithout(ListsOf(t), x) = [q \in Parents |-> Lists!Without(ListOf(t, q), x)]
    BY DEF ListsOf, Lists!AllWithout, Lists!Parents, Parents
  <1>12. Lists!Moved(ListsOf(t), x, p, i)
           = [q \in Parents |-> IF q = p THEN Lists!InsertAt(Lists!Without(ListOf(t, p), x), i, x)
                                ELSE Lists!Without(ListOf(t, q), x)]
    BY <1>11 DEF Lists!Moved
  <1>13. ListsOf(c) = Lists!Moved(ListsOf(t), x, p, i)
    BY <1>9, <1>10, <1>12 DEF ListsOf
  <1> QED
    BY <1>13 DEF c, m

\* A list with the copy of one of its members behind it.
LEMMA BehindIs ==
  ASSUME NEW D \in {Folders, Requests}, NEW t, Numbered(t, D), NEW x \in D, t[x].parent # Absent,
         NEW copy
  PROVE  Lists!Behind(ListsOf(t), x, copy) =
           [q \in Parents |->
              IF q = t[x].parent THEN Lists!InsertAt(ListOf(t, q), t[x].position + 2, copy)
              ELSE ListOf(t, q)]
  <1> DEFINE P == t[x].parent
             L == ListsOf(t)
             s == ListOf(t, P)
             p == CHOOSE p \in Lists!Parents : x \in Lists!Range(L[p])
             i == CHOOSE i \in DOMAIN L[p] : L[p][i] = x
  <1>0. /\ IsFiniteSet(D) /\ DOMAIN t = D /\ P \in Parents
        /\ Lists!Parents = Parents /\ t[x].position \in Nat
    BY FiniteAssumption DEF Numbered, Row, Lists!Parents, Parents
  <1>1. \A q \in Parents : L[q] = ListOf(t, q) /\ Lists!Range(L[q]) = RowsIn(t, q)
    BY <1>0, InAnyIs DEF ListsOf
  <1>2. \A q \in Parents : x \in RowsIn(t, q) <=> q = P
    BY <1>0 DEF RowsIn
  <1>3. p = P
    <2>1. \A q \in Parents : x \in Lists!Range(L[q]) <=> q = P
      BY <1>1, <1>2
    <2> HIDE DEF L, P
    <2> QED
      BY <1>0, <2>1
  <1>4. /\ s \in Seq(D) /\ Single(s) /\ t[x].position + 1 \in 1..Len(s) /\ s[t[x].position + 1] = x
    BY <1>0, <1>2, ListFacts
  <1>5. DOMAIN s = 1..Len(s)
    BY <1>4, LenProperties
  <1>6. L[p] = s
    BY <1>0, <1>1, <1>3
  <1> HIDE DEF p, L
  <1>7. i = t[x].position + 1
    BY <1>4, <1>5, <1>6 DEF Single
  <1> HIDE DEF i
  <1>8. i + 1 = t[x].position + 2
    BY <1>0, <1>7
  <1>9. Lists!Behind(L, x, copy) = [L EXCEPT ![p] = Lists!InsertAt(@, i + 1, copy)]
    BY DEF Lists!Behind, p, i
  <1>10. Lists!Behind(L, x, copy) = [L EXCEPT ![P] = Lists!InsertAt(@, t[x].position + 2, copy)]
    BY <1>3, <1>8, <1>9
  <1>11. L = [q \in Parents |-> ListOf(t, q)]
    BY DEF L, ListsOf
  <1> QED
    BY <1>10, <1>11 DEF L

\* The list of the folder in which a row was copied.
LEMMA SortedBehind ==
  ASSUME NEW D \in {Folders, Requests}, NEW t, Numbered(t, D), NEW x \in D, t[x].parent # Absent,
         NEW copy, NEW u,
         RowsIn(u, t[x].parent) = RowsIn(t, t[x].parent) \union {copy},
         u[copy].position = t[x].position + 1,
         \A y \in RowsIn(t, t[x].parent) :
           u[y].position = IF t[x].position + 1 <= t[y].position THEN t[y].position + 1
                           ELSE t[y].position
  PROVE  Sorted(u, t[x].parent, Lists!InsertAt(ListOf(t, t[x].parent), t[x].position + 2, copy))
  <1> DEFINE P == t[x].parent
             k == t[x].position
             s == ListOf(t, P)
  <1>0. DOMAIN t = D /\ P \in Parents /\ k \in Nat /\ \A y \in D : t[y].position \in Nat
    BY DEF Numbered, Row
  <1>1. x \in RowsIn(t, P) /\ RowsIn(t, P) \subseteq D
    BY <1>0 DEF RowsIn
  <1>2. /\ Sorted(t, P, s) /\ Len(s) \in Nat /\ k + 1 \in 1..Len(s)
        /\ \A j \in 1..Len(s) : s[j] \in RowsIn(t, P) /\ t[s[j]].position = j - 1
    BY <1>0, <1>1, ListFacts
  <1>3. \A j \in 1..Len(s) : u[s[j]].position = IF k + 1 <= j - 1 THEN (j - 1) + 1 ELSE j - 1
    <2>1. ASSUME NEW j \in 1..Len(s)
          PROVE  u[s[j]].position = IF k + 1 <= j - 1 THEN (j - 1) + 1 ELSE j - 1
      <3>1. s[j] \in RowsIn(t, P) /\ t[s[j]].position = j - 1
        BY <1>2
      <3> HIDE DEF s
      <3> QED
        BY <3>1
    <2> QED
      BY <2>1
  <1>4. SameOrder(t, u, RowsIn(t, P))
    <2>1. ASSUME NEW y \in RowsIn(t, P), NEW z \in RowsIn(t, P), t[y].position < t[z].position
          PROVE  u[y].position < u[z].position
      <3> DEFINE a == t[y].position
                 b == t[z].position
      <3>1. a \in Nat /\ b \in Nat /\ a < b
        BY <1>0, <1>1, <2>1
      <3>2. /\ u[y].position = IF k + 1 <= a THEN a + 1 ELSE a
            /\ u[z].position = IF k + 1 <= b THEN b + 1 ELSE b
        OBVIOUS
      <3> HIDE DEF a, b, k
      <3> QED
        BY <1>0, <3>1, <3>2
    <2> QED
      BY <2>1 DEF SameOrder
  <1> HIDE DEF s, P
  <1>5. k + 2 \in 1..(Len(s) + 1)
    BY <1>0, <1>2
  <1>6. \A j \in 1..Len(s) : j < k + 2 => u[s[j]].position < u[copy].position
    <2>1. \A j \in 1..Len(s) : j < k + 2 => ~(k + 1 <= j - 1) /\ j - 1 < k + 1
      BY <1>0
    <2> QED
      BY <1>3, <2>1
  <1>7. \A j \in 1..Len(s) : k + 2 <= j => u[copy].position < u[s[j]].position
    <2>1. \A j \in 1..Len(s) : k + 2 <= j => k + 1 <= j - 1 /\ k + 1 < (j - 1) + 1
      BY <1>0
    <2> QED
      BY <1>3, <2>1
  <1> HIDE DEF k
  <1>8. RowsIn(u, P) = RowsIn(t, P) \union {copy}
    BY DEF P
  <1>9. Sorted(u, P, Lists!InsertAt(s, k + 2, copy))
    BY <1>2, <1>4, <1>5, <1>6, <1>7, <1>8, SortedWith
  <1> QED
    BY <1>9 DEF P, s, k

-----------------------------------------------------------------------------
(* A copy of a request is right behind it *)

\* The copy of a request is right behind it.
LEMMA DuplicateLists ==
  ASSUME NEW D \in {Folders, Requests}, NEW t, Numbered(t, D), NEW x \in D, t[x].parent # Absent,
         NEW copy \in D, t[copy].parent = Absent
  PROVE  ListsOf(Compact([MakeSpace(t, t[x].parent, t[x].position + 1)
                            EXCEPT ![copy] = At(t[x].parent, t[x].position + 1)]))
           = Lists!Behind(ListsOf(t), x, copy)
  <1> DEFINE P == t[x].parent
             n == t[x].position + 1
             s == MakeSpace(t, P, n)
             u == [s EXCEPT ![copy] = At(P, n)]
  <1>0. /\ t \in [D -> Row] /\ DOMAIN t = D /\ P \in Parents /\ P # Absent /\ n \in Nat /\ n \in Int
        /\ IsFiniteSet(D)
    BY FiniteAssumption DEF Numbered, Row
  <1>1. s \in [D -> LooseRow] /\ Spaced(s, t, D, P, n)
    BY <1>0, SpaceLemma DEF Spaced
  <1>2. /\ \A y, z \in D :
              s[y].parent = s[z].parent /\ s[y].parent # Absent /\ s[y].position = s[z].position
              => y = z
        /\ \A y \in D : s[y].parent = P => s[y].position # n
        /\ \A y \in D : s[y].position \in Nat
    BY <1>0, <1>1, SpacedLemma
  <1>3. At(P, n) \in LooseRow /\ At(P, n).parent = P /\ At(P, n).position = n
    BY <1>0 DEF At, LooseRow
  <1> HIDE DEF s, P, n
  <1>4. /\ u \in [D -> LooseRow] /\ DOMAIN u = D
        /\ u[copy].parent = P /\ u[copy].position = n
        /\ \A y \in D \ {copy} : u[y] = s[y]
    BY <1>1, <1>3
  <1> HIDE DEF u
  <1>5. Loose(u, D)
    <2>1. ASSUME NEW y \in D, NEW z \in D, u[y].parent = u[z].parent, u[y].parent # Absent,
                 u[y].position = u[z].position
          PROVE  y = z
      <3>1. CASE y # copy /\ z # copy
        <4>1. u[y] = s[y] /\ u[z] = s[z]
          BY <1>4, <3>1
        <4>2. s[y].parent = s[z].parent /\ s[y].parent # Absent /\ s[y].position = s[z].position
          BY ONLY <2>1, <4>1
        <4> QED
          BY ONLY <1>2, <4>2, y \in D, z \in D
      <3>2. ASSUME NEW v \in D, v # copy, u[v].parent = P PROVE u[v].position # n
        <4>1. v \in D \ {copy}
          BY <3>2
        <4>2. u[v] = s[v]
          BY <1>4, <4>1
        <4>3. s[v].parent = P
          BY <3>2, <4>2
        <4>4. s[v].position # n
          BY <1>2, <4>3
        <4> QED
          BY ONLY <4>2, <4>4
      <3> QED
        BY <1>4, <2>1, <3>1, <3>2
    <2>2. ASSUME NEW y \in D, u[y].parent = Absent PROVE u[y].position \in Nat
      <3>1. y # copy
        BY ONLY <1>0, <1>4, <2>2
      <3>2. u[y] = s[y]
        <4>1. y \in D \ {copy}
          BY <3>1
        <4> QED
          BY <1>4, <4>1
      <3>3. s[y].position \in Nat
        BY <1>2
      <3> QED
        BY ONLY <3>2, <3>3
    <2> QED
      BY <1>4, <2>1, <2>2 DEF Loose, Untied
  <1>6. \A y \in D \ {copy} : u[y].parent = t[y].parent
    BY <1>1, <1>4 DEF Spaced
  <1>7. ASSUME NEW q \in Parents, q # P PROVE ListOf(Compact(u), q) = ListOf(t, q)
    <2>0. q # Absent
      BY DEF Parents
    <2>1. RowsIn(u, q) = RowsIn(t, q)
      <3>1. \A y \in D : u[y].parent = q <=> t[y].parent = q
        BY <1>4, <1>6, <1>7, <2>0
      <3> QED
        BY ONLY <1>0, <1>4, <3>1 DEF RowsIn
    <2>2. SameOrder(t, u, RowsIn(t, q))
      <3>1. ASSUME NEW y \in RowsIn(t, q) PROVE u[y].position = t[y].position
        <4>1. y \in D \ {copy} /\ t[y].parent = q
          BY <1>0, <2>0 DEF RowsIn
        <4> QED
          BY <1>1, <1>4, <1>7, <4>1 DEF Spaced
      <3> QED
        BY <3>1 DEF SameOrder
    <2>3. Sorted(t, q, ListOf(t, q))
      BY ListFacts
    <2>4. Sorted(u, q, ListOf(t, q))
      BY <2>1, <2>2, <2>3, SortedKept
    <2> QED
      BY <1>0, <1>5, <2>4, ListCompacted
  <1>8. ListOf(Compact(u), P) = Lists!InsertAt(ListOf(t, P), t[x].position + 2, copy)
    <2>1. RowsIn(u, P) = RowsIn(t, P) \union {copy}
      <3>1. \A y \in D : u[y].parent = P <=> t[y].parent = P \/ y = copy
        BY <1>4, <1>6
      <3> QED
        BY ONLY <1>0, <1>4, <3>1, copy \in D DEF RowsIn
    <2>2. ASSUME NEW y \in RowsIn(t, P)
          PROVE  u[y].position = IF t[x].position + 1 <= t[y].position THEN t[y].position + 1
                                 ELSE t[y].position
      <3>1. y \in D \ {copy} /\ t[y].parent = P
        BY <1>0 DEF RowsIn
      <3> QED
        BY <1>1, <1>4, <3>1 DEF Spaced, n
    <2>3. u[copy].position = t[x].position + 1
      BY <1>4 DEF n
    <2>4. Sorted(u, P, Lists!InsertAt(ListOf(t, P), t[x].position + 2, copy))
      BY <2>1, <2>2, <2>3, SortedBehind DEF P
    <2> QED
      BY <1>0, <1>5, <2>4, ListCompacted
  <1>9. Lists!Behind(ListsOf(t), x, copy) =
           [q \in Parents |->
              IF q = P THEN Lists!InsertAt(ListOf(t, q), t[x].position + 2, copy) ELSE ListOf(t, q)]
    BY BehindIs DEF P
  <1> QED
    BY <1>7, <1>8, <1>9 DEF ListsOf, u, s, P, n

\* A list of copies is in the order of the originals.
LEMMA SortedEach ==
  ASSUME NEW t, NEW g, NEW s, Sorted(t, g, s), NEW u, NEW q, NEW c,
         RowsIn(u, q) = {c[y] : y \in RowsIn(t, g)},
         \A y, z \in RowsIn(t, g) : t[y].position < t[z].position => u[c[y]].position < u[c[z]].position
  PROVE  Sorted(u, q, Lists!Each(s, c))
  <1> DEFINE e == Lists!Each(s, c)
             X == RowsIn(u, q)
  <1>1. Len(s) \in Nat /\ DOMAIN s = 1..Len(s) /\ \A i \in 1..Len(s) : s[i] \in RowsIn(t, g)
    BY LenProperties DEF Sorted
  <1>2. e = [i \in 1..Len(s) |-> c[s[i]]]
    BY <1>1 DEF Lists!Each
  <1> HIDE DEF e
  <1>3. \A i \in 1..Len(s) : e[i] = c[s[i]] /\ e[i] \in X
    BY <1>1, <1>2
  <1> HIDE DEF X
  <1>4. e \in [1..Len(s) -> X]
    BY <1>2, <1>3
  <1>5. e \in Seq(X) /\ Len(e) = Len(s)
    BY <1>1, <1>4
  <1>6. ASSUME NEW v \in X PROVE \E i \in 1..Len(e) : e[i] = v
    <2>1. PICK y \in RowsIn(t, g) : c[y] = v
      BY DEF X
    <2>2. PICK i \in 1..Len(s) : s[i] = y
      BY DEF Sorted
    <2> QED
      BY <1>3, <1>5, <2>1, <2>2
  <1>7. ASSUME NEW i \in 1..Len(e), NEW j \in 1..Len(e), i < j PROVE u[e[i]].position < u[e[j]].position
    <2>1. i \in 1..Len(s) /\ j \in 1..Len(s) /\ s[i] \in RowsIn(t, g) /\ s[j] \in RowsIn(t, g)
      BY <1>1, <1>5
    <2>2. t[s[i]].position < t[s[j]].position
      BY <1>7, <2>1 DEF Sorted
    <2>3. u[c[s[i]]].position < u[c[s[j]]].position
      BY <2>1, <2>2
    <2> QED
      BY <1>3, <2>1, <2>3
  <1> QED
    BY <1>5, <1>6, <1>7 DEF Sorted, e, X

\* The folders below a folder are the least set that is closed under being in it.
LEMMA BelowIs ==
  ASSUME Numbered(folderRows, Folders), Hangs, NEW f \in Rows(folderRows)
  PROVE  Lists!Below(f) = Subtree(f)
  <1> DEFINE tree == Subtree(f)
             Closed(S) == f \in S /\ \A h \in S : RowsIn(folderRows, h) \subseteq S
  <1>0. /\ IsFiniteSet(Folders) /\ DOMAIN folderRows = Folders /\ Folders \subseteq Parents
        /\ Rows(folderRows) \in SUBSET Folders
    BY FiniteAssumption DEF Hangs, Parents, Rows
  <1>1. Lists!Below(f) = {g \in Folders : \A S \in SUBSET Folders : Closed(S) => g \in S}
    <2>1. ASSUME NEW S \in SUBSET Folders, NEW h \in S
          PROVE  Lists!Range(ListOf(folderRows, h)) = RowsIn(folderRows, h)
      <3>1. h \in Parents
        BY <1>0
      <3> QED
        BY <1>0, <3>1, InAnyIs
    <2>2. ASSUME NEW S \in SUBSET Folders
          PROVE  Closed(S) <=> f \in S /\ \A h \in S :
                   Lists!Range([p \in Parents |-> ListOf(folderRows, p)][h]) \subseteq S
      <3>1. ASSUME NEW h \in S
            PROVE  Lists!Range([p \in Parents |-> ListOf(folderRows, p)][h]) = RowsIn(folderRows, h)
        <4>1. h \in Parents
          BY <1>0
        <4>2. [p \in Parents |-> ListOf(folderRows, p)][h] = ListOf(folderRows, h)
          BY <4>1
        <4> QED
          BY <2>1, <4>2
      <3> QED
        BY <3>1
    <2> HIDE DEF Closed
    <2> QED
      BY <2>2 DEF Lists!Below
  <1>2. /\ f \in tree /\ tree \subseteq Rows(folderRows)
        /\ \A g \in Rows(folderRows) \ {f} : g \in tree <=> folderRows[g].parent \in tree
    BY SubtreeLemma
  <1>3. Closed(tree)
    <2>1. ASSUME NEW h \in tree, NEW y \in RowsIn(folderRows, h) PROVE y \in tree
      <3>1. y \in Folders /\ folderRows[y].parent = h
        BY <1>0 DEF RowsIn
      <3>2. h # Absent
        BY <1>0, <1>2
      <3>3. y \in Rows(folderRows)
        BY <1>0, <3>1, <3>2 DEF Rows
      <3> QED
        BY <1>2, <3>1, <3>3
    <2> HIDE DEF tree
    <2> QED
      BY <1>2, <2>1
  <1> HIDE DEF tree
  <1>4. ASSUME NEW S \in SUBSET Folders, Closed(S), NEW g \in tree, g \notin S PROVE FALSE
    <2>1. PICK depth \in [Folders -> Nat] : Deeper(depth)
      BY DEF Hangs
    <2> DEFINE T == {depth[h] : h \in tree \ S}
    <2>2. \A h \in tree : h \in Folders /\ depth[h] \in Nat
      BY <1>0, <1>2
    <2>3. T \in SUBSET Nat /\ T # {}
      BY <1>4, <2>2
    <2>4. PICK m \in T : \A k \in T : m <= k
      BY <2>3, NatMin
    <2>5. PICK h \in tree \ S : depth[h] = m
      BY <2>4
    <2>6. h # f /\ h \in Rows(folderRows)
      BY <1>2, <1>4, <2>5
    <2> DEFINE p == folderRows[h].parent
    <2>7. p \in tree
      BY <1>2, <2>5, <2>6
    <2>8. p \notin S
      <3>1. h \in RowsIn(folderRows, p)
        BY <1>0, <2>6 DEF RowsIn
      <3> HIDE DEF p
      <3> QED
        BY <1>4, <2>5, <3>1
    <2>9. depth[p] < depth[h]
      <3>1. p # Root
        BY <1>0, <1>2, <2>7
      <3> QED
        BY <2>1, <2>6, <3>1 DEF Deeper
    <2> HIDE DEF p
    <2>10. m <= depth[p] /\ depth[p] \in Nat /\ depth[h] \in Nat
      BY <2>2, <2>4, <2>5, <2>7, <2>8
    <2> QED
      BY <2>5, <2>9, <2>10
  <1>5. tree \in SUBSET Folders
    BY <1>0, <1>2
  <1> HIDE DEF Closed
  <1> QED
    BY <1>1, <1>3, <1>4, <1>5 DEF tree

-----------------------------------------------------------------------------
(* A copy of a folder has copies of all that is below it, in order *)

\* Where the rows are after the copies of a folder were written.
LEMMA FolderPlaces ==
  ASSUME Numbered(folderRows, Folders), Hangs, NEW f \in Rows(folderRows),
         NEW c \in Copies(Subtree(f), Unused(folderRows))
  PROVE  /\ \A g \in Subtree(f) : WithFolders(f, c)[c[g]].position = folderRows[g].position + 1
         /\ \A x \in Folders : (\A g \in Subtree(f) : c[g] # x) =>
              WithFolders(f, c)[x].position =
                IF folderRows[x].parent = folderRows[f].parent
                   /\ folderRows[f].position + 1 <= folderRows[x].position
                THEN folderRows[x].position + 1 ELSE folderRows[x].position
  <1> DEFINE tree == Subtree(f)
             p == folderRows[f].parent
             n == folderRows[f].position + 1
             s == MakeSpace(folderRows, p, n)
             w == WithFolders(f, c)
             P(g) == IF g = f THEN p ELSE c[folderRows[g].parent]
             RowOf(g) == At(P(g), folderRows[g].position + 1)
  <1>0. /\ folderRows \in [Folders -> Row] /\ DOMAIN folderRows = Folders
        /\ Rows(folderRows) \in SUBSET Folders
        /\ \A g \in Folders : folderRows[g].position \in Nat
    BY DEF Numbered, Rows, Row
  <1>1. /\ c \in [tree -> Folders \ Rows(folderRows)]
        /\ \A g \in tree : IsCopy(c, c[g]) /\ Original(c, c[g]) = g
        /\ \A x : ~ IsCopy(c, x) <=> \A g \in tree : c[g] # x
    BY <1>0, CopiesLemma DEF Unused
  <1>2. p \in Parents /\ n \in Nat
    BY <1>0 DEF Hangs, Known, Parents
  <1>3. /\ s \in [Folders -> LooseRow] /\ Spaced(s, folderRows, Folders, p, n)
    BY <1>2, SpaceLemma DEF Spaced
  <1>4. w = [x \in Folders |-> IF IsCopy(c, x) THEN RowOf(Original(c, x)) ELSE s[x]]
    BY DEF WithFolders
  <1>5. \A g \in tree : RowOf(g).position = folderRows[g].position + 1
    BY DEF At
  <1> HIDE DEF s, tree, RowOf, w
  <1>6. /\ \A g \in tree : w[c[g]] = RowOf(g)
        /\ \A x \in Folders : (\A g \in tree : c[g] # x) => w[x] = s[x]
    BY <1>1, <1>4
  <1>7. \A g \in tree : w[c[g]].position = folderRows[g].position + 1
    BY <1>5, <1>6
  <1>8. \A x \in Folders : (\A g \in tree : c[g] # x) =>
          w[x].position = IF folderRows[x].parent = p /\ n <= folderRows[x].position
                          THEN folderRows[x].position + 1 ELSE folderRows[x].position
    BY <1>3, <1>6 DEF Spaced
  <1> QED
    BY <1>7, <1>8 DEF w, tree

\* Where the requests are after the copies were written.
LEMMA RequestPlaces ==
  ASSUME TreeInv, NEW f \in Rows(folderRows),
         NEW c \in Copies(Subtree(f), Unused(folderRows)),
         NEW d \in Copies(Inside(Subtree(f)), Unused(requestRows))
  PROVE  /\ \A r \in Inside(Subtree(f)) : WithRequests(c, d)[d[r]].position = requestRows[r].position
         /\ \A x \in Requests : (\A r \in Inside(Subtree(f)) : d[r] # x) =>
              WithRequests(c, d)[x].position = requestRows[x].position
  <1> DEFINE inside == Inside(Subtree(f))
             v == WithRequests(c, d)
             RowOf(r) == At(c[requestRows[r].parent], requestRows[r].position)
  <1>0. DOMAIN requestRows = Requests
    BY DEF TreeInv, Numbered
  <1>1. /\ d \in [inside -> Requests \ Rows(requestRows)]
        /\ \A g \in inside : IsCopy(d, d[g]) /\ Original(d, d[g]) = g
        /\ \A x : ~ IsCopy(d, x) <=> \A g \in inside : d[g] # x
    BY <1>0, CopiesLemma DEF Unused
  <1>4. v = [x \in Requests |-> IF IsCopy(d, x) THEN RowOf(Original(d, x)) ELSE requestRows[x]]
    BY DEF WithRequests
  <1>5. \A g \in inside : RowOf(g).position = requestRows[g].position
    BY DEF At
  <1> HIDE DEF inside, RowOf, v
  <1>6. /\ \A g \in inside : v[d[g]] = RowOf(g)
        /\ \A x \in Requests : (\A g \in inside : d[g] # x) => v[x] = requestRows[x]
    BY <1>1, <1>4
  <1>7. \A g \in inside : v[d[g]].position = requestRows[g].position
    BY <1>5, <1>6
  <1> QED
    BY <1>6, <1>7 DEF v, inside

\* The folders of the tree are in lists of their own, and so are their copies.
LEMMA FolderCopyLists ==
  ASSUME TreeInv, NEW f \in Rows(folderRows),
         NEW c \in Copies(Subtree(f), Unused(folderRows))
  PROVE  ListsOf(Compact(WithFolders(f, c)))
           = Lists!InCopies(ListsOf(folderRows), c, Lists!Behind(ListsOf(folderRows), f, c[f]), c)
  <1> DEFINE t == folderRows
             tree == Subtree(f)
             P == t[f].parent
             w == WithFolders(f, c)
             Copy(q) == \E g \in tree : c[g] = q
  <1>0. /\ Numbered(t, Folders) /\ Hangs /\ IsFiniteSet(Folders) /\ Folders \in {Folders, Requests}
        /\ t \in [Folders -> Row] /\ DOMAIN t = Folders /\ Rows(t) \in SUBSET Folders
        /\ \A x \in Folders : x \in Rows(t) <=> t[x].parent # Absent
    BY FiniteAssumption DEF TreeInv, Numbered, Rows
  <1>1. /\ c \in [tree -> Folders \ Rows(t)] /\ \A g, h \in tree : c[g] = c[h] => g = h
    BY <1>0, CopiesLemma DEF Unused
  <1>2. /\ f \in tree /\ tree \subseteq Rows(t) /\ P \notin tree
        /\ \A g \in Rows(t) \ {f} : g \in tree <=> t[g].parent \in tree
    BY <1>0, SubtreeLemma
  <1>3. /\ Loose(w, Folders)
        /\ \A g \in tree : w[c[g]].parent = IF g = f THEN P ELSE c[t[g].parent]
        /\ \A x \in Folders : ~Copy(x) => w[x].parent = t[x].parent
    BY <1>0, FolderCopies
  <1>4. /\ \A g \in tree : w[c[g]].position = t[g].position + 1
        /\ \A x \in Folders : ~Copy(x) =>
             w[x].position = IF t[x].parent = P /\ t[f].position + 1 <= t[x].position
                             THEN t[x].position + 1 ELSE t[x].position
    BY <1>0, FolderPlaces
  <1>5. \A x \in Rows(t) : t[x].parent \in Rows(t) \union {Root}
    BY <1>0 DEF Hangs, Known
  <1>6. DOMAIN w = Folders
    BY <1>3 DEF Loose
  <1>7. \A x : Copy(x) => x \in Folders /\ x \notin Rows(t) /\ x # Root /\ t[x].parent = Absent
    BY <1>0, <1>1
  <1> HIDE DEF w, tree, t
  <1>8. P \in Parents /\ P # Absent /\ ~Copy(P)
    <2>1. f \in Rows(t)
      BY <1>2
    <2>2. P \in Rows(t) \union {Root}
      BY <1>5, <2>1
    <2> HIDE DEF P, Copy
    <2> QED
      BY <1>0, <1>7, <2>2 DEF Parents
  <1>9. ASSUME NEW q \in Parents, NEW g \in tree, c[g] = q
        PROVE  ListOf(Compact(w), q) = Lists!Each(ListOf(t, g), c)
    <2>1. \A y \in Folders : w[y].parent = q => \E h \in RowsIn(t, g) : y = c[h]
      <3>1. ASSUME NEW y \in Folders, w[y].parent = q PROVE \E h \in RowsIn(t, g) : y = c[h]
        <4>0. Copy(q) /\ q \notin Rows(t) /\ q # Root /\ q # Absent
          BY <1>7, <1>9
        <4>1. Copy(y)
          <5>1. ASSUME ~Copy(y) PROVE FALSE
            <6>1. t[y].parent = q
              BY <1>3, <3>1, <5>1
            <6>2. y \in Rows(t)
              BY <1>0, <4>0, <6>1
            <6> QED
              BY <1>5, <4>0, <6>1, <6>2
          <5> QED
            BY <5>1
        <4>2. PICK h \in tree : c[h] = y
          BY <4>1
        <4>3. h # f
          BY <1>3, <1>8, <3>1, <4>0, <4>2
        <4>4. c[t[h].parent] = q /\ t[h].parent \in tree
          BY <1>2, <1>3, <3>1, <4>2, <4>3
        <4>5. t[h].parent = g
          BY <1>1, <1>9, <4>4
        <4>6. h \in RowsIn(t, g)
          BY <1>0, <1>2, <4>5 DEF RowsIn
        <4> QED
          BY <4>2, <4>6
      <3> QED
        BY <3>1
    <2>2. ASSUME NEW h \in RowsIn(t, g) PROVE h \in tree /\ c[h] \in RowsIn(w, q)
      <3>1. h \in Folders /\ t[h].parent = g /\ g # Absent
        BY <1>0, <1>2, <1>9 DEF RowsIn
      <3>2. h \in Rows(t) /\ h # f
        BY <1>0, <1>2, <1>9, <3>1
      <3>3. h \in tree
        BY <1>2, <1>9, <3>1, <3>2
      <3>4. w[c[h]].parent = q /\ c[h] \in Folders
        BY <1>1, <1>3, <1>9, <3>1, <3>2, <3>3
      <3> QED
        BY <1>6, <3>3, <3>4 DEF RowsIn
    <2>3. RowsIn(w, q) = {c[h] : h \in RowsIn(t, g)}
      <3>1. \A y \in RowsIn(w, q) : y \in Folders /\ w[y].parent = q
        BY <1>6 DEF RowsIn
      <3> QED
        BY <2>1, <2>2, <3>1
    <2>4. ASSUME NEW y \in RowsIn(t, g), NEW z \in RowsIn(t, g), t[y].position < t[z].position
          PROVE  w[c[y]].position < w[c[z]].position
      <3>1. w[c[y]].position = t[y].position + 1 /\ w[c[z]].position = t[z].position + 1
        BY <1>4, <2>2
      <3>2. t[y].position \in Nat /\ t[z].position \in Nat
        BY <1>0 DEF RowsIn, Row
      <3>3. t[y].position + 1 < t[z].position + 1
        BY <2>4, <3>2
      <3> QED
        BY <3>1, <3>3
    <2>5. g \in Parents
      BY <1>0, <1>2, <1>9 DEF Parents
    <2>6. Sorted(t, g, ListOf(t, g))
      BY <1>0, <2>5, ListFacts
    <2>7. Sorted(w, q, Lists!Each(ListOf(t, g), c))
      BY <2>3, <2>4, <2>6, SortedEach
    <2> QED
      BY <1>0, <1>3, <2>7, ListCompacted
  <1>10. ASSUME NEW q \in Parents, ~Copy(q), q # P
         PROVE  ListOf(Compact(w), q) = ListOf(t, q)
    <2>0. q # Absent
      BY DEF Parents
    <2>1. RowsIn(w, q) = RowsIn(t, q)
      <3>1. ASSUME NEW y \in Folders PROVE w[y].parent = q <=> t[y].parent = q
        <4>1. CASE ~Copy(y)
          BY <1>3, <4>1
        <4>2. CASE Copy(y)
          <5>1. t[y].parent # q
            BY <1>7, <2>0, <4>2
          <5>2. PICK h \in tree : c[h] = y
            BY <4>2
          <5>3. CASE h = f
            BY <1>3, <1>10, <5>1, <5>2, <5>3
          <5>4. CASE h # f
            <6>1. t[h].parent \in tree /\ w[y].parent = c[t[h].parent]
              BY <1>2, <1>3, <5>2, <5>4
            <6> QED
              BY <1>10, <5>1, <6>1
          <5> QED
            BY <5>3, <5>4
        <4> QED
          BY <4>1, <4>2
      <3> QED
        BY ONLY <1>0, <1>6, <3>1 DEF RowsIn
    <2>2. SameOrder(t, w, RowsIn(t, q))
      <3>1. ASSUME NEW y \in RowsIn(t, q) PROVE w[y].position = t[y].position
        <4>1. y \in Folders /\ t[y].parent = q
          BY <1>0 DEF RowsIn
        <4>2. ~Copy(y)
          BY <1>7, <2>0, <4>1
        <4> QED
          BY <1>4, <1>10, <4>1, <4>2
      <3> QED
        BY <3>1 DEF SameOrder
    <2>3. Sorted(t, q, ListOf(t, q))
      BY <1>0, ListFacts
    <2>4. Sorted(w, q, ListOf(t, q))
      BY <2>1, <2>2, <2>3, SortedKept
    <2> QED
      BY <1>0, <1>3, <2>4, ListCompacted
  <1>11. ListOf(Compact(w), P) = Lists!InsertAt(ListOf(t, P), t[f].position + 2, c[f])
    <2>1. RowsIn(w, P) = RowsIn(t, P) \union {c[f]}
      <3>1. ASSUME NEW y \in Folders PROVE w[y].parent = P <=> t[y].parent = P \/ y = c[f]
        <4>1. CASE ~Copy(y)
          BY <1>2, <1>3, <4>1
        <4>2. CASE Copy(y)
          <5>1. t[y].parent # P
            BY <1>7, <1>8, <4>2
          <5>2. PICK h \in tree : c[h] = y
            BY <4>2
          <5>3. CASE h = f
            BY <1>3, <5>2, <5>3
          <5>4. CASE h # f
            <6>1. t[h].parent \in tree /\ w[y].parent = c[t[h].parent] /\ y # c[f]
              BY <1>1, <1>2, <1>3, <5>2, <5>4
            <6> QED
              BY <1>8, <5>1, <6>1
          <5> QED
            BY <5>3, <5>4
        <4> QED
          BY <4>1, <4>2
      <3>2. c[f] \in Folders
        BY <1>1, <1>2
      <3> HIDE DEF P
      <3> QED
        BY ONLY <1>0, <1>6, <3>1, <3>2 DEF RowsIn
    <2>2. ASSUME NEW y \in RowsIn(t, P)
          PROVE  w[y].position = IF t[f].position + 1 <= t[y].position THEN t[y].position + 1
                                 ELSE t[y].position
      <3>1. y \in Folders /\ t[y].parent = P
        BY <1>0 DEF RowsIn
      <3>2. ~Copy(y)
        BY <1>7, <1>8, <3>1
      <3> QED
        BY <1>4, <3>1, <3>2
    <2>3. w[c[f]].position = t[f].position + 1
      BY <1>2, <1>4
    <2>4. f \in Folders /\ t[f].parent # Absent
      BY <1>0, <1>2
    <2>5. Sorted(w, P, Lists!InsertAt(ListOf(t, P), t[f].position + 2, c[f]))
      BY <1>0, <2>1, <2>2, <2>3, <2>4, SortedBehind
    <2> QED
      BY <1>0, <1>3, <1>8, <2>5, ListCompacted
  <1>12. Lists!Behind(ListsOf(t), f, c[f]) =
           [q \in Parents |->
              IF q = P THEN Lists!InsertAt(ListOf(t, q), t[f].position + 2, c[f]) ELSE ListOf(t, q)]
    <2>1. f \in Folders /\ t[f].parent # Absent
      BY <1>0, <1>2
    <2> QED
      BY <1>0, <2>1, BehindIs
  <1> DEFINE B == Lists!Behind(ListsOf(t), f, c[f])
             K == Lists!InCopies(ListsOf(t), c, B, c)
  <1>13. K = [q \in Parents |-> IF \E g \in tree : c[g] = q
                 THEN Lists!Each(ListsOf(t)[CHOOSE g \in tree : c[g] = q], c) ELSE B[q]]
    <2>1. DOMAIN c = tree
      BY <1>1
    <2> HIDE DEF B
    <2> QED
      BY <2>1 DEF Lists!InCopies, Lists!Parents, Parents
  <1>14. ASSUME NEW q \in Parents PROVE K[q] = ListOf(Compact(w), q)
    <2>1. CASE Copy(q)
      <3> DEFINE g == CHOOSE g \in tree : c[g] = q
      <3>1. g \in tree /\ c[g] = q
        BY <2>1
      <3>2. K[q] = Lists!Each(ListsOf(t)[g], c)
        BY <1>13, <2>1
      <3> HIDE DEF g
      <3>3. ListsOf(t)[g] = ListOf(t, g)
        BY <1>0, <1>2, <3>1 DEF ListsOf, Parents
      <3> QED
        BY <1>9, <3>1, <3>2, <3>3
    <2>2. CASE ~Copy(q)
      <3>1. K[q] = B[q]
        BY <1>13, <2>2
      <3> QED
        BY <1>10, <1>11, <1>12, <2>2, <3>1
    <2> QED
      BY <2>1, <2>2
  <1>15. ListsOf(Compact(w)) = [q \in Parents |-> K[q]]
    <2> HIDE DEF K
    <2> QED
      BY <1>14 DEF ListsOf
  <1>16. K = [q \in Parents |-> K[q]]
    BY <1>13
  <1> QED
    BY <1>15, <1>16 DEF w, t

\* The requests in copied folders keep the order of the originals.
LEMMA RequestCopyLists ==
  ASSUME TreeInv, NEW f \in Rows(folderRows),
         NEW c \in Copies(Subtree(f), Unused(folderRows)),
         NEW d \in Copies(Inside(Subtree(f)), Unused(requestRows))
  PROVE  ListsOf(Compact(WithRequests(c, d)))
           = Lists!InCopies(ListsOf(requestRows), c, ListsOf(requestRows), d)
  <1> DEFINE t == requestRows
             tree == Subtree(f)
             inside == Inside(tree)
             v == WithRequests(c, d)
             Copy(q) == \E g \in tree : c[g] = q
             RequestCopy(x) == \E r \in inside : d[r] = x
  <1>0. /\ Numbered(t, Requests) /\ IsFiniteSet(Requests) /\ Requests \in {Folders, Requests}
        /\ t \in [Requests -> Row] /\ DOMAIN t = Requests /\ DOMAIN folderRows = Folders
        /\ \A x \in Requests : x \in Rows(t) <=> t[x].parent # Absent
        /\ Rows(folderRows) \in SUBSET Folders
        /\ \A g \in Folders : g \in Rows(folderRows) <=> folderRows[g].parent # Absent
    BY FiniteAssumption DEF TreeInv, Numbered, Rows
  <1>1. /\ c \in [tree -> Folders \ Rows(folderRows)] /\ \A g, h \in tree : c[g] = c[h] => g = h
    BY <1>0, CopiesLemma DEF Unused
  <1>2. /\ d \in [inside -> Requests \ Rows(t)]
    BY <1>0, CopiesLemma DEF Unused
  <1>3. /\ Loose(v, Requests)
        /\ \A r \in inside : v[d[r]].parent = c[t[r].parent]
        /\ \A x \in Requests : ~RequestCopy(x) => v[x].parent = t[x].parent
    BY RequestCopies
  <1>4. /\ \A r \in inside : v[d[r]].position = t[r].position
        /\ \A x \in Requests : ~RequestCopy(x) => v[x].position = t[x].position
    BY RequestPlaces
  <1>5. \A x \in Rows(t) : t[x].parent \in Rows(folderRows) \union {Root}
    BY DEF TreeInv, Known
  <1>6. DOMAIN v = Requests
    BY <1>3 DEF Loose
  <1>7. inside = {r \in Rows(t) : t[r].parent \in tree}
    BY DEF Inside
  <1>8. tree \subseteq Rows(folderRows)
    BY SubtreeLemma DEF TreeInv
  <1>9. /\ \A q : Copy(q) => q \in Folders /\ q \notin Rows(folderRows) /\ q # Root /\ q # Absent
        /\ \A x : RequestCopy(x) => x \in Requests /\ t[x].parent = Absent
    BY <1>0, <1>1, <1>2
  <1> HIDE DEF v, inside, tree, t
  <1>10. ASSUME NEW q \in Parents, NEW g \in tree, c[g] = q
         PROVE  ListOf(Compact(v), q) = Lists!Each(ListOf(t, g), d)
    <2>0. q \in Folders /\ q \notin Rows(folderRows) /\ q # Root /\ q # Absent
      BY <1>9, <1>10
    <2>1. ASSUME NEW y \in Requests, v[y].parent = q PROVE \E h \in RowsIn(t, g) : y = d[h]
      <3>1. ASSUME ~RequestCopy(y) PROVE FALSE
        <4>1. t[y].parent = q
          BY <1>3, <2>1, <3>1
        <4>2. y \in Rows(t)
          BY <1>0, <2>0, <4>1
        <4> QED
          BY <1>5, <2>0, <4>1, <4>2
      <3>2. PICK h \in inside : d[h] = y
        BY <3>1
      <3>3. c[t[h].parent] = q /\ t[h].parent \in tree
        BY <1>3, <1>7, <2>1, <3>2
      <3>4. t[h].parent = g
        BY <1>1, <1>10, <3>3
      <3>5. h \in RowsIn(t, g)
        BY <1>0, <1>7, <3>4 DEF RowsIn, Rows
      <3> QED
        BY <3>2, <3>5
    <2>2. ASSUME NEW h \in RowsIn(t, g) PROVE h \in inside /\ d[h] \in RowsIn(v, q)
      <3>1. h \in Requests /\ t[h].parent = g /\ g # Absent
        BY <1>0, <1>8, <1>10 DEF RowsIn
      <3>2. h \in inside
        BY <1>0, <1>7, <1>10, <3>1
      <3>3. v[d[h]].parent = q /\ d[h] \in Requests
        BY <1>2, <1>3, <1>10, <3>1, <3>2
      <3> QED
        BY <1>6, <3>2, <3>3 DEF RowsIn
    <2>3. RowsIn(v, q) = {d[h] : h \in RowsIn(t, g)}
      <3>1. \A y \in RowsIn(v, q) : y \in Requests /\ v[y].parent = q
        BY <1>6 DEF RowsIn
      <3> QED
        BY <2>1, <2>2, <3>1
    <2>4. ASSUME NEW y \in RowsIn(t, g), NEW z \in RowsIn(t, g), t[y].position < t[z].position
          PROVE  v[d[y]].position < v[d[z]].position
      BY <1>4, <2>2, <2>4
    <2>5. g \in Parents
      BY <1>0, <1>8, <1>10 DEF Parents
    <2>6. Sorted(t, g, ListOf(t, g))
      BY <1>0, <2>5, ListFacts
    <2>7. Sorted(v, q, Lists!Each(ListOf(t, g), d))
      BY <2>3, <2>4, <2>6, SortedEach
    <2> QED
      BY <1>0, <1>3, <2>7, ListCompacted
  <1>11. ASSUME NEW q \in Parents, ~Copy(q)
         PROVE  ListOf(Compact(v), q) = ListOf(t, q)
    <2>0. q # Absent
      BY DEF Parents
    <2>1. RowsIn(v, q) = RowsIn(t, q)
      <3>1. ASSUME NEW y \in Requests PROVE v[y].parent = q <=> t[y].parent = q
        <4>1. CASE ~RequestCopy(y)
          BY <1>3, <4>1
        <4>2. CASE RequestCopy(y)
          <5>1. t[y].parent # q
            BY <1>9, <2>0, <4>2
          <5>2. PICK h \in inside : d[h] = y
            BY <4>2
          <5>3. t[h].parent \in tree /\ v[y].parent = c[t[h].parent]
            BY <1>3, <1>7, <5>2
          <5> QED
            BY <1>11, <5>1, <5>3
        <4> QED
          BY <4>1, <4>2
      <3> QED
        BY ONLY <1>0, <1>6, <3>1 DEF RowsIn
    <2>2. SameOrder(t, v, RowsIn(t, q))
      <3>1. ASSUME NEW y \in RowsIn(t, q) PROVE v[y].position = t[y].position
        <4>1. y \in Requests /\ t[y].parent = q
          BY <1>0 DEF RowsIn
        <4>2. ~RequestCopy(y)
          BY <1>9, <2>0, <4>1
        <4> QED
          BY <1>4, <4>1, <4>2
      <3> QED
        BY <3>1 DEF SameOrder
    <2>3. Sorted(t, q, ListOf(t, q))
      BY <1>0, ListFacts
    <2>4. Sorted(v, q, ListOf(t, q))
      BY <2>1, <2>2, <2>3, SortedKept
    <2> QED
      BY <1>0, <1>3, <2>4, ListCompacted
  <1> DEFINE K == Lists!InCopies(ListsOf(t), c, ListsOf(t), d)
  <1>13. K = [q \in Parents |-> IF \E g \in tree : c[g] = q
                 THEN Lists!Each(ListsOf(t)[CHOOSE g \in tree : c[g] = q], d) ELSE ListsOf(t)[q]]
    <2>1. DOMAIN c = tree
      BY <1>1
    <2> QED
      BY <2>1 DEF Lists!InCopies, Lists!Parents, Parents
  <1>14. ASSUME NEW q \in Parents PROVE K[q] = ListOf(Compact(v), q)
    <2>1. CASE Copy(q)
      <3> DEFINE g == CHOOSE g \in tree : c[g] = q
      <3>1. g \in tree /\ c[g] = q
        BY <2>1
      <3>2. K[q] = Lists!Each(ListsOf(t)[g], d)
        BY <1>13, <2>1
      <3> HIDE DEF g
      <3>3. ListsOf(t)[g] = ListOf(t, g)
        BY <1>0, <1>8, <3>1 DEF ListsOf, Parents
      <3> QED
        BY <1>10, <3>1, <3>2, <3>3
    <2>2. CASE ~Copy(q)
      <3>1. K[q] = ListsOf(t)[q]
        BY <1>13, <2>2
      <3>2. ListsOf(t)[q] = ListOf(t, q)
        BY DEF ListsOf
      <3> QED
        BY <1>11, <2>2, <3>1, <3>2
    <2> QED
      BY <2>1, <2>2
  <1>15. ListsOf(Compact(v)) = [q \in Parents |-> K[q]]
    <2> HIDE DEF K
    <2> QED
      BY <1>14 DEF ListsOf
  <1>16. K = [q \in Parents |-> K[q]]
    BY <1>13
  <1> QED
    BY <1>15, <1>16 DEF v, t

\* A folder without rows has the empty list.
LEMMA NoRowsNoList ==
  ASSUME NEW u, NEW q, RowsIn(u, q) = {}
  PROVE  Sorted(u, q, <<>>)
  BY DEF Sorted

\* The lists that are left when a folder is deleted.
LEMMA DeleteFolderLists ==
  ASSUME TreeInv, NEW f \in Rows(folderRows)
  PROVE  /\ ListsOf(Compact(Erase(folderRows, Subtree(f)))) =
              [q \in Parents |-> IF q \in Subtree(f) THEN <<>> ELSE Lists!Without(ListOf(folderRows, q), f)]
         /\ ListsOf(Compact(Erase(requestRows, Inside(Subtree(f))))) =
              [q \in Parents |-> IF q \in Subtree(f) THEN <<>> ELSE ListOf(requestRows, q)]
  <1> DEFINE t == folderRows
             tree == Subtree(f)
             u == Erase(t, tree)
             inside == Inside(tree)
             v == Erase(requestRows, inside)
  <1>0. /\ Numbered(t, Folders) /\ IsFiniteSet(Folders) /\ Folders \in {Folders, Requests}
        /\ DOMAIN t = Folders /\ Rows(t) \in SUBSET Folders
        /\ \A x \in Folders : x \in Rows(t) <=> t[x].parent # Absent
    BY FiniteAssumption DEF TreeInv, Numbered, Rows
  <1>1. /\ Numbered(requestRows, Requests) /\ IsFiniteSet(Requests) /\ Requests \in {Folders, Requests}
        /\ DOMAIN requestRows = Requests
        /\ \A x \in Requests : x \in Rows(requestRows) <=> requestRows[x].parent # Absent
    BY FiniteAssumption DEF TreeInv, Numbered, Rows
  <1>2. /\ f \in tree /\ tree \subseteq Rows(t) /\ t[f].parent \notin tree
        /\ \A g \in Rows(t) \ {f} : g \in tree <=> t[g].parent \in tree
    BY SubtreeLemma DEF TreeInv
  <1>3. /\ Loose(u, Folders)
        /\ \A y \in Folders : u[y].parent = IF y \in tree THEN Absent ELSE t[y].parent
    BY <1>0, EraseLemma
  <1>4. /\ Loose(v, Requests)
        /\ \A y \in Requests : v[y].parent = IF y \in inside THEN Absent ELSE requestRows[y].parent
    BY <1>1, EraseLemma
  <1>5. /\ \A y \in Folders : y \notin tree => u[y] = t[y]
        /\ \A y \in Requests : y \notin inside => v[y] = requestRows[y]
    BY <1>0, <1>1 DEF Erase
  <1>6. DOMAIN u = Folders /\ DOMAIN v = Requests
    BY <1>3, <1>4 DEF Loose
  <1>7. \A r \in Requests : r \in inside <=> requestRows[r].parent # Absent /\ requestRows[r].parent \in tree
    BY <1>1 DEF Inside
  <1> HIDE DEF t, tree, u, inside, v
  <1>8. ASSUME NEW q \in Parents, q \in tree
        PROVE  ListOf(Compact(u), q) = <<>> /\ ListOf(Compact(v), q) = <<>>
    <2>0. q # Absent
      BY DEF Parents
    <2>1. ASSUME NEW y \in Folders PROVE u[y].parent # q
      <3>1. SUFFICES ASSUME u[y].parent = q PROVE FALSE
        OBVIOUS
      <3>2. y \notin tree /\ t[y].parent = q
        BY <1>3, <2>0, <3>1
      <3>3. y \in Rows(t) \ {f}
        BY <1>0, <1>2, <2>0, <3>2
      <3> QED
        BY <1>2, <1>8, <3>2, <3>3
    <2>2. ASSUME NEW y \in Requests PROVE v[y].parent # q
      BY <1>4, <1>7, <1>8, <2>0
    <2>3. RowsIn(u, q) = {} /\ RowsIn(v, q) = {}
      BY <1>6, <2>1, <2>2 DEF RowsIn
    <2>4. Sorted(u, q, <<>>) /\ Sorted(v, q, <<>>)
      BY <2>3, NoRowsNoList
    <2>5. ListOf(Compact(u), q) = <<>>
      BY <1>0, <1>3, <2>4, ListCompacted
    <2>6. ListOf(Compact(v), q) = <<>>
      BY <1>1, <1>4, <2>4, ListCompacted
    <2> QED
      BY <2>5, <2>6
  <1>9. ASSUME NEW q \in Parents, q \notin tree
        PROVE  ListOf(Compact(u), q) = Lists!Without(ListOf(t, q), f)
    <2>0. q # Absent
      BY DEF Parents
    <2>1. RowsIn(u, q) = RowsIn(t, q) \ {f}
      <3>1. ASSUME NEW y \in Folders PROVE u[y].parent = q <=> t[y].parent = q /\ y # f
        BY <1>0, <1>2, <1>3, <1>9, <2>0
      <3> QED
        BY ONLY <1>0, <1>6, <3>1 DEF RowsIn
    <2>2. SameOrder(t, u, RowsIn(u, q))
      <3>1. ASSUME NEW y \in RowsIn(u, q) PROVE u[y] = t[y]
        <4>1. y \in Folders /\ y \notin tree
          BY <1>3, <1>6, <2>0 DEF RowsIn
        <4> QED
          BY <1>5, <4>1
      <3> QED
        BY <3>1 DEF SameOrder
    <2>3. Folders \in {Folders, Requests} /\ Loose(u, Folders) /\ Numbered(t, Folders)
      BY <1>0, <1>3
    <2> QED
      BY <2>1, <2>2, <2>3, RemovedLists
  <1>10. ASSUME NEW q \in Parents, q \notin tree
         PROVE  ListOf(Compact(v), q) = ListOf(requestRows, q)
    <2>0. q # Absent
      BY DEF Parents
    <2>1. RowsIn(v, q) = RowsIn(requestRows, q)
      <3>1. ASSUME NEW y \in Requests PROVE v[y].parent = q <=> requestRows[y].parent = q
        BY <1>4, <1>7, <1>10, <2>0
      <3> QED
        BY ONLY <1>1, <1>6, <3>1 DEF RowsIn
    <2>2. SameOrder(requestRows, v, RowsIn(requestRows, q))
      <3>1. ASSUME NEW y \in RowsIn(requestRows, q) PROVE v[y] = requestRows[y]
        <4>1. y \in Requests /\ requestRows[y].parent = q
          BY <1>1 DEF RowsIn
        <4> QED
          BY <1>5, <1>7, <1>10, <4>1
      <3> QED
        BY <3>1 DEF SameOrder
    <2>3. Sorted(requestRows, q, ListOf(requestRows, q))
      BY <1>1, ListFacts
    <2>4. Sorted(v, q, ListOf(requestRows, q))
      BY <2>1, <2>2, <2>3, SortedKept
    <2> QED
      BY <1>1, <1>4, <2>4, ListCompacted
  <1> QED
    BY <1>8, <1>9, <1>10 DEF ListsOf, u, v, t, tree, inside

-----------------------------------------------------------------------------
(* Every command on the tables is a step of the lists *)

\* What the lists show of the tables.
LEMMA ListsShow ==
  ASSUME TreeInv
  PROVE  /\ Lists!InAny(ListsOf(folderRows)) = Rows(folderRows)
         /\ Lists!InAny(ListsOf(requestRows)) = Rows(requestRows)
         /\ \A p : Lists!Known(p) <=> Known(p)
         /\ Lists!Parents = Parents
         /\ \A f \in Rows(folderRows) : Lists!Below(f) = Subtree(f)
         /\ \A f \in Rows(folderRows) :
              UNION {Lists!Range(ListsOf(requestRows)[g]) : g \in Subtree(f)} = Inside(Subtree(f))
         /\ \A x : Known(x) => x \in Parents /\ x # Absent
  <1>0. /\ Numbered(folderRows, Folders) /\ Numbered(requestRows, Requests) /\ Hangs
        /\ IsFiniteSet(Folders) /\ IsFiniteSet(Requests)
        /\ DOMAIN folderRows = Folders /\ DOMAIN requestRows = Requests
        /\ Rows(folderRows) \in SUBSET Folders
    BY FiniteAssumption DEF TreeInv, Numbered, Rows
  <1>1. /\ Lists!InAny(ListsOf(folderRows)) = Rows(folderRows)
        /\ Lists!InAny(ListsOf(requestRows)) = Rows(requestRows)
    BY <1>0, InAnyIs
  <1>2. \A p : Lists!Known(p) <=> Known(p)
    BY <1>1 DEF Lists!Known, Known, ListsOf
  <1>3. Lists!Parents = Parents
    BY DEF Lists!Parents, Parents
  <1>4. \A f \in Rows(folderRows) : Lists!Below(f) = Subtree(f)
    BY <1>0, BelowIs
  <1>5. ASSUME NEW f \in Rows(folderRows)
        PROVE  UNION {Lists!Range(ListsOf(requestRows)[g]) : g \in Subtree(f)} = Inside(Subtree(f))
    <2>1. Subtree(f) \subseteq Rows(folderRows)
      BY <1>0, SubtreeLemma
    <2>2. ASSUME NEW g \in Subtree(f)
          PROVE  Lists!Range(ListsOf(requestRows)[g]) = RowsIn(requestRows, g) /\ g # Absent
      <3>1. g \in Parents /\ g # Absent
        BY <1>0, <2>1 DEF Parents
      <3>2. Lists!Range(ListOf(requestRows, g)) = RowsIn(requestRows, g)
        BY <1>0, <3>1, InAnyIs
      <3> QED
        BY <3>1, <3>2 DEF ListsOf
    <2>3. \A r : r \in Inside(Subtree(f)) <=> \E g \in Subtree(f) : r \in RowsIn(requestRows, g)
      BY <2>2 DEF Inside, RowsIn, Rows
    <2> QED
      BY <2>2, <2>3
  <1>6. \A x : Known(x) => x \in Parents /\ x # Absent
    BY <1>0 DEF Known, Parents
  <1> QED
    BY <1>1, <1>2, <1>3, <1>4, <1>5, <1>6

\* The lists before and after a step.
FolderLists == [p \in Parents |-> ListOf(folderRows, p)]
RequestLists == [p \in Parents |-> ListOf(requestRows, p)]

LEMMA ListsAre ==
  /\ FolderLists = ListsOf(folderRows) /\ FolderLists' = ListsOf(folderRows')
  /\ RequestLists = ListsOf(requestRows) /\ RequestLists' = ListsOf(requestRows')
  BY DEF FolderLists, RequestLists, ListsOf

\* Each command on a request is the step of the lists with its name.
LEMMA RequestListsStep ==
  ASSUME TreeInv, NEW r \in Requests
  PROVE  /\ CreateRequest(r) => Lists!AddRequest(r, Root)
         /\ DeleteRequest(r) => Lists!DeleteRequest(r)
         /\ \A copy \in Requests : DuplicateRequest(r, copy) => Lists!DuplicateRequest(r, copy)
         /\ \A p \in Parents, n \in 0..MaxPosition : MoveRequest(r, p, n) => Lists!MoveRequest(r)
  <1>0. /\ Numbered(requestRows, Requests) /\ Requests \in {Folders, Requests}
        /\ DOMAIN requestRows = Requests
        /\ \A x \in Requests : x \in Rows(requestRows) <=> requestRows[x].parent # Absent
    BY DEF TreeInv, Numbered, Rows
  <1>1. /\ Lists!InAny(RequestLists) = Rows(requestRows)
        /\ \A p : Lists!Known(p) <=> Known(p)
        /\ Lists!Parents = Parents
        /\ \A x : Known(x) => x \in Parents /\ x # Absent
    BY ListsShow, ListsAre
  <1>2. ASSUME UNCHANGED folderRows PROVE FolderLists' = FolderLists
    BY <1>2, ListsAre
  <1>3. ASSUME CreateRequest(r) PROVE Lists!AddRequest(r, Root)
    <2>1. /\ r \notin Rows(requestRows) /\ requestRows[r].parent = Absent /\ Root \in Parents
          /\ requestRows' = [requestRows EXCEPT ![r] = At(Root, NextPosition(requestRows, Root))]
          /\ UNCHANGED folderRows
      BY <1>0, <1>3 DEF CreateRequest, Unused, Parents
    <2>2. ListsOf(requestRows') = [ListsOf(requestRows) EXCEPT ![Root] = Append(@, r)]
      <3>1. /\ Requests \in {Folders, Requests} /\ Numbered(requestRows, Requests) /\ r \in Requests
            /\ requestRows[r].parent = Absent /\ Root \in Parents
        BY <1>0, <2>1
      <3>2. ListsOf([requestRows EXCEPT ![r] = At(Root, NextPosition(requestRows, Root))]) =
              [ListsOf(requestRows) EXCEPT ![Root] = Append(@, r)]
        BY ONLY <3>1, AddLists
      <3> QED
        BY ONLY <2>1, <3>2
    <2>3. RequestLists' = [RequestLists EXCEPT ![Root] = Append(@, r)]
      BY <2>2, ListsAre
    <2>4. FolderLists' = FolderLists
      BY <1>2, <2>1
    <2>5. Lists!Known(Root)
      BY <1>1 DEF Known
    <2> QED
      BY <1>1, <2>1, <2>3, <2>4, <2>5 DEF Lists!AddRequest, RequestLists, FolderLists
  <1>4. ASSUME DeleteRequest(r) PROVE Lists!DeleteRequest(r)
    <2>1. /\ r \in Rows(requestRows) /\ requestRows' = Compact(Erase(requestRows, {r}))
          /\ UNCHANGED folderRows
      BY <1>4 DEF DeleteRequest
    <2>2. ListsOf(requestRows') = Lists!AllWithout(ListsOf(requestRows), r)
      BY <1>0, <2>1, DeleteLists
    <2>3. RequestLists' = Lists!AllWithout(RequestLists, r) /\ FolderLists' = FolderLists
      BY <1>2, <2>1, <2>2, ListsAre
    <2> QED
      BY <1>1, <2>1, <2>3 DEF Lists!DeleteRequest, RequestLists, FolderLists
  <1>5. ASSUME NEW copy \in Requests, DuplicateRequest(r, copy)
        PROVE  Lists!DuplicateRequest(r, copy)
    <2>1. /\ r \in Rows(requestRows) /\ copy \notin Rows(requestRows)
          /\ requestRows' = Compact([MakeSpace(requestRows, requestRows[r].parent, requestRows[r].position + 1)
                              EXCEPT ![copy] = At(requestRows[r].parent, requestRows[r].position + 1)])
          /\ UNCHANGED folderRows
      BY <1>5 DEF DuplicateRequest, Unused
    <2>2. requestRows[r].parent # Absent /\ requestRows[copy].parent = Absent
      BY <1>0, <2>1
    <2>3. ListsOf(requestRows') = Lists!Behind(ListsOf(requestRows), r, copy)
      BY <1>0, <2>1, <2>2, DuplicateLists
    <2>4. RequestLists' = Lists!Behind(RequestLists, r, copy) /\ FolderLists' = FolderLists
      BY <1>2, <2>1, <2>3, ListsAre
    <2> QED
      BY <1>1, <2>1, <2>4 DEF Lists!DuplicateRequest, RequestLists, FolderLists
  <1>6. ASSUME NEW p \in Parents, NEW n \in 0..MaxPosition, MoveRequest(r, p, n)
        PROVE  Lists!MoveRequest(r)
    <2>1. /\ r \in Rows(requestRows) /\ Known(p)
          /\ requestRows' = Compact(Moved(requestRows, r, p, n))
          /\ UNCHANGED folderRows
      BY <1>6 DEF MoveRequest, Moved
    <2>2. requestRows[r].parent # Absent
      BY <1>0, <2>1
    <2>3. PICK i \in 1..(Len(Lists!Without(ListOf(requestRows, p), r)) + 1) :
            ListsOf(Compact(Moved(requestRows, r, p, n))) = Lists!Moved(ListsOf(requestRows), r, p, i)
      BY <1>0, <2>2, MoveLists
    <2>4. RequestLists' = Lists!Moved(RequestLists, r, p, i) /\ FolderLists' = FolderLists
      BY <1>2, <2>1, <2>3, ListsAre
    <2>5. RequestLists[p] = ListOf(requestRows, p) /\ Lists!Known(p) /\ p \in Lists!Parents
      BY <1>1, <2>1 DEF RequestLists
    <2>6. i \in 1..(Len(Lists!Without(RequestLists[p], r)) + 1)
      BY <2>5
    <2> QED
      BY <1>1, <2>1, <2>4, <2>5, <2>6 DEF Lists!MoveRequest, RequestLists, FolderLists
  <1> QED
    BY <1>3, <1>4, <1>5, <1>6

\* Each command on a folder is the step of the lists with its name.
LEMMA FolderListsStep ==
  ASSUME TreeInv, NEW f \in Folders
  PROVE  /\ \A p \in Parents : CreateFolder(f, p) => Lists!AddFolder(f, p)
         /\ \A p \in Parents, n \in 0..MaxPosition : MoveFolder(f, p, n) => Lists!MoveFolder(f)
         /\ DuplicateFolder(f) => Lists!DuplicateFolder(f)
         /\ DeleteFolder(f) => Lists!DeleteFolder(f)
  <1>0. /\ Numbered(folderRows, Folders) /\ Folders \in {Folders, Requests} /\ Hangs
        /\ DOMAIN folderRows = Folders /\ DOMAIN requestRows = Requests
        /\ \A x \in Folders : x \in Rows(folderRows) <=> folderRows[x].parent # Absent
    BY DEF TreeInv, Numbered, Rows
  <1>1. /\ Lists!InAny(FolderLists) = Rows(folderRows)
        /\ Lists!InAny(RequestLists) = Rows(requestRows)
        /\ \A p : Lists!Known(p) <=> Known(p)
        /\ Lists!Parents = Parents
        /\ \A x : Known(x) => x \in Parents /\ x # Absent
        /\ f \in Rows(folderRows) => Lists!Below(f) = Subtree(f)
        /\ f \in Rows(folderRows) =>
             UNION {Lists!Range(RequestLists[g]) : g \in Subtree(f)} = Inside(Subtree(f))
    BY ListsShow, ListsAre
  <1>2. ASSUME UNCHANGED requestRows PROVE RequestLists' = RequestLists
    BY <1>2, ListsAre
  <1>3. ASSUME NEW p \in Parents, CreateFolder(f, p) PROVE Lists!AddFolder(f, p)
    <2>1. /\ f \notin Rows(folderRows) /\ folderRows[f].parent = Absent /\ Known(p)
          /\ folderRows' = [folderRows EXCEPT ![f] = At(p, NextPosition(folderRows, p))]
          /\ UNCHANGED requestRows
      BY <1>0, <1>3 DEF CreateFolder, Unused
    <2>2. ListsOf(folderRows') = [ListsOf(folderRows) EXCEPT ![p] = Append(@, f)]
      <3>1. /\ Folders \in {Folders, Requests} /\ Numbered(folderRows, Folders) /\ f \in Folders
            /\ folderRows[f].parent = Absent /\ p \in Parents
        BY <1>0, <2>1
      <3>2. ListsOf([folderRows EXCEPT ![f] = At(p, NextPosition(folderRows, p))]) =
              [ListsOf(folderRows) EXCEPT ![p] = Append(@, f)]
        BY ONLY <3>1, AddLists
      <3> QED
        BY ONLY <2>1, <3>2
    <2>3. FolderLists' = [FolderLists EXCEPT ![p] = Append(@, f)]
      BY <2>2, ListsAre
    <2>4. RequestLists' = RequestLists
      BY <1>2, <2>1
    <2> QED
      BY <1>1, <2>1, <2>3, <2>4 DEF Lists!AddFolder, RequestLists, FolderLists
  <1>4. ASSUME NEW p \in Parents, NEW n \in 0..MaxPosition, MoveFolder(f, p, n)
        PROVE  Lists!MoveFolder(f)
    <2>1. /\ f \in Rows(folderRows) /\ Known(p) /\ MayMove(f, p)
          /\ folderRows' = Compact(Moved(folderRows, f, p, n))
          /\ UNCHANGED requestRows
      BY <1>4 DEF MoveFolder, Moved
    <2>2. folderRows[f].parent # Absent
      BY <1>0, <2>1
    <2>3. PICK i \in 1..(Len(Lists!Without(ListOf(folderRows, p), f)) + 1) :
            ListsOf(Compact(Moved(folderRows, f, p, n))) = Lists!Moved(ListsOf(folderRows), f, p, i)
      BY <1>0, <2>2, MoveLists
    <2>4. FolderLists' = Lists!Moved(FolderLists, f, p, i) /\ RequestLists' = RequestLists
      BY <1>2, <2>1, <2>3, ListsAre
    <2>5. FolderLists[p] = ListOf(folderRows, p) /\ Lists!Known(p)
      BY <1>1, <2>1 DEF FolderLists
    <2>6. i \in 1..(Len(Lists!Without(FolderLists[p], f)) + 1)
      BY <2>5
    <2>7. p \in Lists!Parents \ Lists!Below(f)
      <3>1. p \notin Subtree(f)
        BY <1>0, <2>1, SubtreeLemma
      <3> QED
        BY <1>1, <2>1, <3>1
    <2> QED
      BY <1>1, <2>1, <2>4, <2>5, <2>6, <2>7 DEF Lists!MoveFolder, RequestLists, FolderLists
  <1>5. ASSUME DuplicateFolder(f) PROVE Lists!DuplicateFolder(f)
    <2>1. f \in Rows(folderRows)
      BY <1>5 DEF DuplicateFolder
    <2>2. PICK c \in Copies(Subtree(f), Unused(folderRows)) :
            \E d \in Copies(Inside(Subtree(f)), Unused(requestRows)) :
              /\ folderRows' = Compact(WithFolders(f, c))
              /\ requestRows' = Compact(WithRequests(c, d))
      BY <1>5 DEF DuplicateFolder
    <2>3. PICK d \in Copies(Inside(Subtree(f)), Unused(requestRows)) :
              /\ folderRows' = Compact(WithFolders(f, c))
              /\ requestRows' = Compact(WithRequests(c, d))
      BY <2>2
    <2>4. FolderLists' = Lists!InCopies(FolderLists, c, Lists!Behind(FolderLists, f, c[f]), c)
      BY <2>1, <2>3, FolderCopyLists, ListsAre
    <2>5. RequestLists' = Lists!InCopies(RequestLists, c, RequestLists, d)
      BY <2>1, <2>3, RequestCopyLists, ListsAre
    <2>6. c \in Lists!Copies(Lists!Below(f), Folders \ Lists!InAny(FolderLists))
      <3>1. c \in Lists!Copies(Subtree(f), Folders \ Rows(folderRows))
        BY <1>0 DEF Copies, Lists!Copies, Lists!IsInjective, Unused
      <3> QED
        BY <1>1, <2>1, <3>1
    <2>7. d \in Lists!Copies(UNION {Lists!Range(RequestLists[g]) : g \in Lists!Below(f)},
                             Requests \ Lists!InAny(RequestLists))
      <3>1. d \in Lists!Copies(Inside(Subtree(f)), Requests \ Rows(requestRows))
        BY <1>0 DEF Copies, Lists!Copies, Lists!IsInjective, Unused
      <3> QED
        BY <1>1, <2>1, <3>1
    <2> QED
      BY <1>1, <2>1, <2>4, <2>5, <2>6, <2>7 DEF Lists!DuplicateFolder, RequestLists, FolderLists
  <1>6. ASSUME DeleteFolder(f) PROVE Lists!DeleteFolder(f)
    <2>1. /\ f \in Rows(folderRows)
          /\ folderRows' = Compact(Erase(folderRows, Subtree(f)))
          /\ requestRows' = Compact(Erase(requestRows, Inside(Subtree(f))))
      BY <1>6 DEF DeleteFolder
    <2>2. FolderLists' = [q \in Parents |-> IF q \in Subtree(f) THEN <<>> ELSE Lists!Without(ListOf(folderRows, q), f)]
      BY <2>1, DeleteFolderLists, ListsAre
    <2>3. RequestLists' = [q \in Parents |-> IF q \in Subtree(f) THEN <<>> ELSE ListOf(requestRows, q)]
      BY <2>1, DeleteFolderLists, ListsAre
    <2>4. \A q \in Parents : FolderLists[q] = ListOf(folderRows, q) /\ RequestLists[q] = ListOf(requestRows, q)
      BY DEF FolderLists, RequestLists
    <2>5. FolderLists' = [q \in Lists!Parents |-> IF q \in Lists!Below(f) THEN <<>> ELSE Lists!Without(FolderLists[q], f)]
      BY <1>1, <2>1, <2>2, <2>4
    <2>6. RequestLists' = [q \in Lists!Parents |-> IF q \in Lists!Below(f) THEN <<>> ELSE RequestLists[q]]
      BY <1>1, <2>1, <2>3, <2>4
    <2> QED
      BY <1>1, <2>1, <2>5, <2>6 DEF Lists!DeleteFolder, RequestLists, FolderLists
  <1> QED
    BY <1>3, <1>4, <1>5, <1>6

\* A step of the tables is a step of the lists or leaves them alone.
LEMMA ListsStep ==
  ASSUME TreeInv, [TreeNext]_treeVars
  PROVE  [Lists!Next]_(Lists!listVars)
  <1>1. ASSUME UNCHANGED <<folderRows, requestRows>> PROVE UNCHANGED Lists!listVars
    <2>1. FolderLists' = FolderLists /\ RequestLists' = RequestLists
      BY <1>1, ListsAre
    <2> QED
      BY <2>1 DEF Lists!listVars, FolderLists, RequestLists
  <1>2. ASSUME NEW f \in Folders,
               \/ DuplicateFolder(f) \/ DeleteFolder(f)
               \/ \E p \in Parents :
                    CreateFolder(f, p) \/ \E n \in 0..MaxPosition : MoveFolder(f, p, n)
        PROVE  Lists!Next
    <2>1. \/ Lists!DuplicateFolder(f) \/ Lists!DeleteFolder(f) \/ Lists!MoveFolder(f)
          \/ \E p \in Parents : Lists!AddFolder(f, p)
      BY <1>2, FolderListsStep
    <2> QED
      BY <2>1 DEF Lists!Next, Lists!Parents, Parents
  <1>3. ASSUME NEW r \in Requests,
               \/ CreateRequest(r) \/ DeleteRequest(r)
               \/ \E copy \in Requests : DuplicateRequest(r, copy)
               \/ \E p \in Parents, n \in 0..MaxPosition : MoveRequest(r, p, n)
        PROVE  Lists!Next
    <2>1. \/ Lists!AddRequest(r, Root) \/ Lists!DeleteRequest(r) \/ Lists!MoveRequest(r)
          \/ \E copy \in Requests : Lists!DuplicateRequest(r, copy)
      BY <1>3, RequestListsStep
    <2>2. Root \in Lists!Parents
      BY DEF Lists!Parents
    <2> QED
      BY <2>1, <2>2 DEF Lists!Next
  <1>4. ASSUME NEW r \in Requests, OpenTab(r) PROVE UNCHANGED Lists!listVars
    BY <1>1, <1>4 DEF OpenTab
  <1> QED
    BY <1>1, <1>2, <1>3, <1>4 DEF TreeNext, treeVars

\* Empty tables are empty lists.
LEMMA ListsInit == TreeInit => Lists!Init
  <1> SUFFICES ASSUME TreeInit PROVE Lists!Init
    OBVIOUS
  <1>1. TreeInv
    BY TreeInitial
  <1>2. ASSUME NEW q \in Parents
        PROVE  ListOf(folderRows, q) = <<>> /\ ListOf(requestRows, q) = <<>>
    <2>1. RowsIn(folderRows, q) = {} /\ RowsIn(requestRows, q) = {}
      BY DEF TreeInit, RowsIn, NoRow, Parents
    <2>2. Sorted(folderRows, q, <<>>) /\ Sorted(requestRows, q, <<>>)
      BY <2>1, NoRowsNoList
    <2>3. Numbered(folderRows, Folders) /\ Numbered(requestRows, Requests)
      BY <1>1 DEF TreeInv
    <2> QED
      BY <2>2, <2>3, FiniteAssumption, SortedIsListOf
  <1> QED
    BY <1>2 DEF Lists!Init, Lists!Parents, Parents

\* The tables implement the lists: every command, with the positions it shifts, the
\* compaction and the recursive copies and deletions, is one insertion, removal, move or
\* ordered copy in the lists of the tree, however many folders and requests there are
\* and whatever position is asked for (repository/request_store.rs and repositories.rs).
THEOREM TreeImplementsLists == TreeSpec => ListsAreKept
  <1>1. TreeInit => TreeInv
    BY TreeInitial
  <1>2. TreeInv /\ [TreeNext]_treeVars => TreeInv'
    BY TreeStep
  <1>3. TreeInit => Lists!Init
    BY ListsInit
  <1>4. TreeInv /\ [TreeNext]_treeVars => [Lists!Next]_(Lists!listVars)
    BY ListsStep
  <1> QED
    BY <1>1, <1>2, <1>3, <1>4, PTL DEF TreeSpec, ListsAreKept, Lists!Spec

-----------------------------------------------------------------------------
(* Workspaces and environments *)

USE NotThereAssumption, EnvRowAssumption, SpaceIdsAssumption, MaxEnvPositionAssumption

Once(s) == \A i, j \in 1..Len(s) : s[i] = s[j] => i = j

\* A list of workspaces that got one more.
LEMMA InsertedSpace ==
  ASSUME NEW S, NEW s \in Seq(S), Once(s), NEW w \in S, w \notin ToSet(s),
         NEW i \in 1..(Len(s) + 1)
  PROVE  /\ InsertAt(s, i, w) \in Seq(S) /\ Once(InsertAt(s, i, w))
         /\ ToSet(InsertAt(s, i, w)) = ToSet(s) \union {w}
  <1> DEFINE t == InsertAt(s, i, w)
             n == Len(s)
  <1>1. n \in Nat /\ i \in Nat /\ 1 <= i /\ i <= n + 1
    OBVIOUS
  <1>5. t \in Seq(S) /\ Len(t) = n + 1
        /\ (\A k \in 1..(i - 1) : t[k] = s[k]) /\ t[i] = w
        /\ (\A k \in (i + 1)..(n + 1) : t[k] = s[k - 1])
    <2>1. Inserted(t, S, s, i, w)
      BY InsertAtFacts DEF InsertAt, Lists!InsertAt
    <2> QED
      BY <1>1, <2>1 DEF Inserted
  <1> HIDE DEF t
  <1>6. \A k \in 1..n : s[k] # w
    BY DEF ToSet
  <1> HIDE DEF n
  <1>7. Once(t)
    <2> SUFFICES ASSUME NEW j \in 1..(n + 1), NEW k \in 1..(n + 1), t[j] = t[k], j < k
                 PROVE  FALSE
      BY <1>1, <1>5 DEF Once
    <2>1. \A p, q \in 1..n : s[p] = s[q] => p = q
      BY DEF Once, n
    <2>2. CASE j < i /\ k < i
      BY <1>1, <1>5, <2>1, <2>2
    <2>3. CASE j < i /\ k = i
      <3>1. j \in 1..(i - 1) /\ j \in 1..n
        BY <1>1, <2>3
      <3> QED
        BY <1>5, <1>6, <2>3, <3>1
    <2>4. CASE j < i /\ k > i
      BY <1>1, <1>5, <2>1, <2>4
    <2>5. CASE j = i
      <3>1. k \in (i + 1)..(n + 1) /\ k - 1 \in 1..n
        BY <1>1, <2>5
      <3> QED
        BY <1>5, <1>6, <2>5, <3>1
    <2>6. CASE j > i
      BY <1>1, <1>5, <2>1, <2>6
    <2> QED
      BY <1>1, <2>2, <2>3, <2>4, <2>5, <2>6
  <1>8. ToSet(t) = ToSet(s) \union {w}
    <2>1. DOMAIN t = 1..(n + 1) /\ DOMAIN s = 1..n
      BY <1>5 DEF n
    <2>2. ASSUME NEW x \in ToSet(t) PROVE x \in ToSet(s) \union {w}
      <3>1. PICK k \in 1..(n + 1) : t[k] = x
        BY <2>1, <2>2 DEF ToSet
      <3>2. k < i => k \in 1..n /\ s[k] = x
        BY <1>1, <1>5, <3>1
      <3>3. k > i => k - 1 \in 1..n /\ s[k - 1] = x
        BY <1>1, <1>5, <3>1
      <3>4. k = i => x = w
        BY <1>5, <3>1
      <3>5. (\E j \in 1..n : s[j] = x) \/ x = w
        BY <1>1, <3>1, <3>2, <3>3, <3>4
      <3> QED
        BY <2>1, <3>5 DEF ToSet
    <2>3. ASSUME NEW x \in ToSet(s) \union {w} PROVE x \in ToSet(t)
      <3>1. CASE x = w
        BY <1>1, <1>5, <2>1, <3>1 DEF ToSet
      <3>2. CASE x \in ToSet(s)
        <4>1. PICK k \in 1..n : s[k] = x
          BY <2>1, <3>2 DEF ToSet
        <4>2. k < i => k \in 1..(n + 1) /\ t[k] = x
          BY <1>1, <1>5, <4>1
        <4>3. k >= i => k + 1 \in 1..(n + 1) /\ t[k + 1] = x
          BY <1>1, <1>5, <4>1
        <4> QED
          BY <1>1, <2>1, <4>1, <4>2, <4>3 DEF ToSet
      <3> QED
        BY <2>3, <3>1, <3>2
    <2> QED
      BY <2>2, <2>3
  <1> QED
    BY <1>5, <1>7, <1>8 DEF t

\* A list of workspaces without one of them.
LEMMA RemovedSpace ==
  ASSUME NEW S, NEW s \in Seq(S), Once(s), NEW i \in 1..Len(s)
  PROVE  /\ RemoveAt(s, i) \in Seq(S) /\ Once(RemoveAt(s, i))
         /\ ToSet(RemoveAt(s, i)) = ToSet(s) \ {s[i]}
         /\ Len(RemoveAt(s, i)) = Len(s) - 1
  <1> DEFINE t == RemoveAt(s, i)
             n == Len(s)
  <1>1. n \in Nat /\ i \in Nat /\ 1 <= i /\ i <= n
    OBVIOUS
  <1>5. t \in Seq(S) /\ Len(t) = n - 1
        /\ (\A k \in 1..(i - 1) : t[k] = s[k])
        /\ (\A k \in i..(n - 1) : t[k] = s[k + 1])
    <2>1. Removed(t, S, s, i)
      BY RemoveAtFacts DEF RemoveAt, Lists!RemoveAt
    <2> QED
      BY <1>1, <2>1 DEF Removed
  <1> HIDE DEF t
  <1> HIDE DEF n
  <1>6. \A p, q \in 1..n : s[p] = s[q] => p = q
    BY DEF Once, n
  <1>7. Once(t)
    <2> SUFFICES ASSUME NEW j \in 1..(n - 1), NEW k \in 1..(n - 1), t[j] = t[k], j < k
                 PROVE  FALSE
      BY <1>1, <1>5 DEF Once
    <2>2. CASE j < i /\ k < i
      BY <1>1, <1>5, <1>6, <2>2
    <2>4. CASE j < i /\ k >= i
      BY <1>1, <1>5, <1>6, <2>4
    <2>6. CASE j >= i
      BY <1>1, <1>5, <1>6, <2>6
    <2> QED
      BY <1>1, <2>2, <2>4, <2>6
  <1>8. ToSet(t) = ToSet(s) \ {s[i]}
    <2>1. DOMAIN t = 1..(n - 1) /\ DOMAIN s = 1..n
      BY <1>5 DEF n
    <2>2. ASSUME NEW x \in ToSet(t) PROVE x \in ToSet(s) \ {s[i]}
      <3>1. PICK k \in 1..(n - 1) : t[k] = x
        BY <2>1, <2>2 DEF ToSet
      <3>2. k < i => k \in 1..n /\ s[k] = x /\ k # i
        BY <1>1, <1>5, <3>1
      <3>3. k >= i => k + 1 \in 1..n /\ s[k + 1] = x /\ k + 1 # i
        BY <1>1, <1>5, <3>1
      <3>4. \E j \in 1..n : s[j] = x /\ j # i
        BY <1>1, <3>1, <3>2, <3>3
      <3> QED
        BY <1>1, <1>6, <2>1, <3>4 DEF ToSet
    <2>3. ASSUME NEW x \in ToSet(s) \ {s[i]} PROVE x \in ToSet(t)
      <3>1. PICK k \in 1..n : s[k] = x
        BY <2>1, <2>3 DEF ToSet
      <3>2. k < i => k \in 1..(n - 1) /\ t[k] = x
        BY <1>1, <1>5, <3>1
      <3>3. k > i => k - 1 \in 1..(n - 1) /\ t[k - 1] = x
        BY <1>1, <1>5, <3>1
      <3>4. k # i
        BY <2>3, <3>1
      <3> QED
        BY <1>1, <2>1, <3>1, <3>2, <3>3, <3>4 DEF ToSet
    <2> QED
      BY <2>2, <2>3
  <1> QED
    BY <1>5, <1>7, <1>8 DEF t, n

\* Types, own selections and positions that differ are kept together.
SpacesInv ==
  /\ SpacesTypeOK /\ SelectionsAreOwn /\ EnvironmentsHaveAnOrder

\* The workspaces but one.
LEMMA OthersAre ==
  ASSUME SpacesTypeOK, NEW w \in ToSet(spaceList)
  PROVE  /\ Others(w) \in Seq(SpaceIds) /\ IsInjective(Others(w))
         /\ ToSet(Others(w)) = ToSet(spaceList) \ {w}
         /\ Len(spaceList) > 1 => Head(Others(w)) \in ToSet(Others(w))
  <1> DEFINE i == CHOOSE i \in DOMAIN spaceList : spaceList[i] = w
             t == Others(w)
  <1>1. spaceList \in Seq(SpaceIds) /\ Once(spaceList)
    BY DEF SpacesTypeOK, IsInjective, Once
  <1>2. i \in 1..Len(spaceList) /\ spaceList[i] = w
    <2>1. \E k \in DOMAIN spaceList : spaceList[k] = w
      BY DEF ToSet
    <2> QED
      BY <1>1, <2>1
  <1>3. t = RemoveAt(spaceList, i)
    BY DEF Others
  <1> HIDE DEF i, t
  <1>4. /\ t \in Seq(SpaceIds) /\ Once(t) /\ ToSet(t) = ToSet(spaceList) \ {w}
        /\ Len(t) = Len(spaceList) - 1
    BY <1>1, <1>2, <1>3, RemovedSpace
  <1>5. IsInjective(t)
    BY <1>4 DEF IsInjective, Once
  <1>6. Len(spaceList) > 1 => Head(t) \in ToSet(t)
    <2> SUFFICES ASSUME Len(spaceList) > 1 PROVE Head(t) \in ToSet(t)
      OBVIOUS
    <2>1. Len(t) >= 1 /\ DOMAIN t = 1..Len(t) /\ Len(t) \in Nat
      BY <1>1, <1>4
    <2>2. Head(t) = t[1] /\ 1 \in DOMAIN t
      BY <1>4, <2>1
    <2> QED
      BY <2>2 DEF ToSet
  <1> QED
    BY <1>4, <1>5, <1>6 DEF t

\* Replacement is another workspace of the list.
LEMMA ReplacementIs ==
  ASSUME SpacesTypeOK, NEW w \in ToSet(spaceList), Len(spaceList) > 1
  PROVE  Replacement(w) \in ToSet(spaceList) \ {w}
  BY OthersAre DEF Replacement, SpacesTypeOK

\* A position after those of all environments of the workspace.
LEMMA NextEnvPositionIs ==
  ASSUME SpacesTypeOK, NEW w \in SpaceIds
  PROVE  /\ NextEnvPosition(w) \in Nat
         /\ \A e \in EnvironmentsOf(w) : envRows[e].position < NextEnvPosition(w)
  <1> DEFINE P == {envRows[e].position : e \in EnvironmentsOf(w)} \union {-1}
             Q == {n \in Nat : \A x \in P : x < n}
  <1>1. \A e \in EnvironmentsOf(w) : envRows[e].position \in 0..MaxEnvPosition
    BY DEF SpacesTypeOK, EnvironmentsOf, EnvRow
  <1>2. MaxEnvPosition + 1 \in Q
    BY <1>1
  <1>3. PICK m \in Q : \A n \in Q : m <= n
    <2>1. Q \subseteq Nat /\ Q # {}
      BY <1>2
    <2> HIDE DEF Q
    <2> QED
      BY <2>1, NatMin
  <1>4. m - 1 \in P /\ \A x \in P : m - 1 >= x
    <2>1. P \subseteq Int /\ -1 \in P /\ \A x \in P : x >= -1
      BY <1>1
    <2>2. m \in Nat /\ \A x \in P : x < m
      OBVIOUS
    <2> HIDE DEF P
    <2>3. \A x \in P : m - 1 >= x
      BY <2>1, <2>2
    <2>4. ASSUME m - 1 \notin P PROVE FALSE
      <3>1. \A x \in P : x < m - 1
        BY <2>1, <2>2, <2>4
      <3>2. m - 1 \in Nat
        BY <2>1, <2>2, <3>1
      <3>3. m - 1 \in Q
        BY <3>1, <3>2
      <3> QED
        BY <1>3, <2>2, <3>3
    <2> QED
      BY <2>3, <2>4
  <1>5. Max(P) \in P /\ \A x \in P : Max(P) >= x
    BY <1>4 DEF Max
  <1>6. NextEnvPosition(w) = Max(P) + 1
    BY DEF NextEnvPosition
  <1>7. Max(P) \in Int /\ Max(P) >= -1
    BY <1>1, <1>5
  <1>8. \A e \in EnvironmentsOf(w) : envRows[e].position \in P
    OBVIOUS
  <1>9. \A e \in EnvironmentsOf(w) : envRows[e].position <= Max(P) /\ envRows[e].position \in Int
    BY <1>1, <1>5, <1>8
  <1> HIDE DEF P
  <1> QED
    BY <1>6, <1>7, <1>9

LEMMA SpacesInitInv == SpacesInit => SpacesInv
  <1> SUFFICES ASSUME SpacesInit PROVE SpacesInv
    OBVIOUS
  <1>1. current \in SpaceIds /\ spaceList = <<current>> /\ \A w \in SpaceIds : picked[w] = NotThere
        /\ \A e \in EnvIds : envRows[e] = NotThere
    BY DEF SpacesInit
  <1>2. spaceList \in Seq(SpaceIds) /\ IsInjective(spaceList) /\ current \in ToSet(spaceList)
    BY <1>1 DEF IsInjective, ToSet
  <1>3. SpacesTypeOK
    BY <1>1, <1>2 DEF SpacesTypeOK, SpacesInit
  <1>4. SelectionsAreOwn /\ EnvironmentsHaveAnOrder
    BY <1>1 DEF SelectionsAreOwn, EnvironmentsHaveAnOrder, EnvironmentsOf
  <1> QED
    BY <1>3, <1>4 DEF SpacesInv

\* Each command keeps this.
LEMMA CreateSpaceStep ==
  ASSUME SpacesInv, NEW w \in SpaceIds, CreateSpace(w)
  PROVE  SpacesInv'
  <1>1. /\ spaceList \in Seq(SpaceIds) /\ Once(spaceList) /\ w \notin ToSet(spaceList)
    BY DEF SpacesInv, SpacesTypeOK, IsInjective, Once, CreateSpace, IsSpace
  <1>2. PICK i \in 1..(Len(spaceList) + 1) : spaceList' = InsertAt(spaceList, i, w)
    BY DEF CreateSpace
  <1>3. spaceList' \in Seq(SpaceIds) /\ Once(spaceList') /\ ToSet(spaceList') = ToSet(spaceList) \union {w}
    BY <1>1, <1>2, InsertedSpace
  <1>4. IsInjective(spaceList)'
    BY <1>3 DEF IsInjective, Once
  <1>5. current' = w /\ UNCHANGED <<envRows, picked>>
    BY DEF CreateSpace
  <1>6. SpacesTypeOK'
    BY <1>3, <1>4, <1>5 DEF SpacesInv, SpacesTypeOK
  <1>7. SelectionsAreOwn' /\ EnvironmentsHaveAnOrder'
    BY <1>3, <1>5 DEF SpacesInv, SelectionsAreOwn, EnvironmentsHaveAnOrder, EnvironmentsOf, IsSpace
  <1> QED
    BY <1>6, <1>7 DEF SpacesInv

LEMMA SwitchSpaceStep ==
  ASSUME SpacesInv, NEW w \in SpaceIds, SwitchSpace(w)
  PROVE  SpacesInv'
  BY DEF SpacesInv, SpacesTypeOK, SelectionsAreOwn, EnvironmentsHaveAnOrder, EnvironmentsOf, IsSpace, SwitchSpace

\* Rows that a deletion does not take stay as they are.
LEMMA CascadedIs ==
  ASSUME SpacesInv, NEW w \in SpaceIds
  PROVE  /\ \A e \in EnvIds : Cascaded(w, envRows)[e] =
              IF e \in EnvironmentsOf(w) THEN NotThere ELSE envRows[e]
         /\ \A v \in SpaceIds : Cascaded(w, picked)[v] = IF v = w THEN NotThere ELSE picked[v]
         /\ DOMAIN Cascaded(w, envRows) = EnvIds /\ DOMAIN Cascaded(w, picked) = SpaceIds
  <1>1. DOMAIN envRows = EnvIds /\ DOMAIN picked = SpaceIds /\ EnvironmentsOf(w) \subseteq EnvIds
    BY DEF SpacesInv, SpacesTypeOK, EnvironmentsOf
  <1> QED
    BY <1>1 DEF Cascaded

LEMMA DeleteSpaceStep ==
  ASSUME SpacesInv, NEW w \in SpaceIds, DeleteSpace(w)
  PROVE  SpacesInv'
  <1>0. SpacesTypeOK /\ SelectionsAreOwn /\ EnvironmentsHaveAnOrder
        /\ w \in ToSet(spaceList) /\ Len(spaceList) > 1
    BY DEF SpacesInv, DeleteSpace, IsSpace
  <1>1. /\ spaceList' \in Seq(SpaceIds) /\ IsInjective(spaceList)'
        /\ ToSet(spaceList)' = ToSet(spaceList) \ {w}
    BY <1>0, OthersAre DEF DeleteSpace
  <1>2. current' \in ToSet(spaceList)'
    BY <1>0, <1>1, ReplacementIs DEF DeleteSpace
  <1>3. /\ envRows' = Cascaded(w, envRows) /\ picked' = Cascaded(w, picked)
    BY DEF DeleteSpace
  <1>4. /\ DOMAIN envRows' = EnvIds /\ DOMAIN picked' = SpaceIds
        /\ \A e \in EnvIds : envRows'[e] = IF e \in EnvironmentsOf(w) THEN NotThere ELSE envRows[e]
        /\ \A v \in SpaceIds : picked'[v] = IF v = w THEN NotThere ELSE picked[v]
    BY <1>3, CascadedIs
  <1>5. envRows' \in [EnvIds -> EnvRow \union {NotThere}] /\ picked' \in [SpaceIds -> EnvIds \union {NotThere}]
    <2>1. envRows' = [e \in EnvIds |-> envRows'[e]] /\ picked' = [v \in SpaceIds |-> picked'[v]]
      BY <1>3, <1>4 DEF Cascaded
    <2> QED
      BY <1>0, <1>4, <2>1 DEF SpacesTypeOK
  <1>6. SpacesTypeOK'
    BY <1>1, <1>2, <1>5 DEF SpacesTypeOK
  <1>7. \A v \in SpaceIds \ {w} : EnvironmentsOf(v)' = EnvironmentsOf(v)
    BY <1>4 DEF EnvironmentsOf
  <1>8. EnvironmentsOf(w)' = {}
    BY <1>4 DEF EnvironmentsOf
  <1>9. SelectionsAreOwn'
    <2>1. ASSUME NEW e \in EnvIds, envRows'[e] # NotThere PROVE envRows'[e].of \in ToSet(spaceList)'
      <3>1. envRows'[e] = envRows[e] /\ envRows[e].of # w
        BY <1>4, <2>1 DEF EnvironmentsOf
      <3> QED
        BY <1>0, <1>1, <2>1, <3>1 DEF SelectionsAreOwn, IsSpace
    <2>2. ASSUME NEW v \in SpaceIds, picked'[v] # NotThere PROVE picked'[v] \in EnvironmentsOf(v)'
      BY <1>0, <1>4, <1>7, <2>2 DEF SelectionsAreOwn
    <2> QED
      BY <2>1, <2>2 DEF SelectionsAreOwn, IsSpace
  <1>10. EnvironmentsHaveAnOrder'
    <2>1. ASSUME NEW v \in SpaceIds, NEW e \in EnvironmentsOf(v)', NEW f \in EnvironmentsOf(v)', e # f
          PROVE  envRows'[e].position # envRows'[f].position
      <3>1. v # w /\ e \in EnvironmentsOf(v) /\ f \in EnvironmentsOf(v) /\ e \in EnvIds /\ f \in EnvIds
        BY <1>7, <1>8, <2>1 DEF EnvironmentsOf
      <3>2. envRows'[e] = envRows[e] /\ envRows'[f] = envRows[f]
        BY <1>4, <3>1 DEF EnvironmentsOf
      <3> QED
        BY <1>0, <2>1, <3>1, <3>2 DEF EnvironmentsHaveAnOrder
    <2> QED
      BY <2>1 DEF EnvironmentsHaveAnOrder
  <1> QED
    BY <1>6, <1>9, <1>10 DEF SpacesInv

LEMMA CreateEnvironmentStep ==
  ASSUME SpacesInv, NEW w \in SpaceIds, NEW e \in EnvIds, CreateEnvironment(w, e)
  PROVE  SpacesInv'
  <1> DEFINE n == NextEnvPosition(w)
  <1>0. SpacesTypeOK /\ SelectionsAreOwn /\ EnvironmentsHaveAnOrder
    BY DEF SpacesInv
  <1>1. /\ n \in Nat /\ \A f \in EnvironmentsOf(w) : envRows[f].position < n
    BY <1>0, NextEnvPositionIs
  <1>2. /\ IsSpace(w) /\ envRows[e] = NotThere /\ n <= MaxEnvPosition
        /\ envRows' = [envRows EXCEPT ![e] = [of |-> w, position |-> n]]
        /\ picked' = [picked EXCEPT ![w] = e]
        /\ UNCHANGED <<spaceList, current>>
    BY DEF CreateEnvironment
  <1> HIDE DEF n
  <1>3. [of |-> w, position |-> n] \in EnvRow
    BY <1>1, <1>2 DEF EnvRow
  <1>4. SpacesTypeOK'
    BY <1>0, <1>2, <1>3 DEF SpacesTypeOK
  <1>5. /\ envRows'[e] = [of |-> w, position |-> n] /\ picked'[w] = e
        /\ \A f \in EnvIds \ {e} : envRows'[f] = envRows[f]
        /\ \A v \in SpaceIds \ {w} : picked'[v] = picked[v]
    BY <1>0, <1>2 DEF SpacesTypeOK
  <1>6. envRows'[e] # NotThere
    BY <1>3, <1>5, EnvRowAssumption
  <1>7. /\ EnvironmentsOf(w)' = EnvironmentsOf(w) \union {e} /\ e \notin EnvironmentsOf(w)
        /\ \A v \in SpaceIds \ {w} : EnvironmentsOf(v)' = EnvironmentsOf(v) /\ e \notin EnvironmentsOf(v)
    BY <1>2, <1>5, <1>6 DEF EnvironmentsOf
  <1>8. SelectionsAreOwn'
    <2>1. ASSUME NEW f \in EnvIds, envRows'[f] # NotThere PROVE envRows'[f].of \in ToSet(spaceList')
      <3>1. CASE f = e
        BY <1>2, <1>5, <3>1 DEF IsSpace
      <3>2. CASE f # e
        <4>1. envRows'[f] = envRows[f]
          BY <1>5, <3>2
        <4>2. envRows[f].of \in ToSet(spaceList)
          BY <1>0, <2>1, <4>1 DEF SelectionsAreOwn, IsSpace
        <4> QED
          BY <1>2, <4>1, <4>2 DEF IsSpace
      <3> QED
        BY <3>1, <3>2
    <2>2. ASSUME NEW v \in SpaceIds, picked'[v] # NotThere PROVE picked'[v] \in EnvironmentsOf(v)'
      <3>1. CASE v = w
        BY <1>5, <1>7, <3>1
      <3>2. CASE v # w
        <4>1. picked'[v] = picked[v] /\ EnvironmentsOf(v)' = EnvironmentsOf(v)
          BY <1>5, <1>7, <3>2
        <4>2. picked[v] \in EnvironmentsOf(v)
          BY <1>0, <2>2, <4>1 DEF SelectionsAreOwn
        <4> QED
          BY <4>1, <4>2
      <3> QED
        BY <3>1, <3>2
    <2> QED
      BY <2>1, <2>2 DEF SelectionsAreOwn, IsSpace
  <1>9. EnvironmentsHaveAnOrder'
    <2>1. ASSUME NEW v \in SpaceIds, NEW f \in EnvironmentsOf(v)', NEW g \in EnvironmentsOf(v)', f # g
          PROVE  envRows'[f].position # envRows'[g].position
      <3>1. f \in EnvIds /\ g \in EnvIds
        BY DEF EnvironmentsOf
      <3>2. CASE f # e /\ g # e
        BY <1>0, <1>5, <1>7, <2>1, <3>1, <3>2 DEF EnvironmentsHaveAnOrder
      <3>3. CASE f = e \/ g = e
        <4>1. v = w
          BY <1>7, <3>3
        <4>2. \A h \in EnvironmentsOf(w) : h \in EnvIds \ {e} /\ envRows'[h].position < n /\ envRows'[h].position \in Nat
          <5>1. \A h \in EnvironmentsOf(w) : h \in EnvIds \ {e} /\ envRows[h] \in EnvRow
            BY <1>0, <1>7 DEF EnvironmentsOf, SpacesTypeOK
          <5> QED
            BY <1>1, <1>5, <5>1 DEF EnvRow
        <4>3. envRows'[e].position = n
          BY <1>5
        <4> QED
          BY <1>1, <1>7, <2>1, <3>3, <4>1, <4>2, <4>3
      <3> QED
        BY <3>2, <3>3
    <2> QED
      BY <2>1 DEF EnvironmentsHaveAnOrder
  <1> QED
    BY <1>4, <1>8, <1>9 DEF SpacesInv

LEMMA SelectEnvironmentStep ==
  ASSUME SpacesInv, NEW w \in SpaceIds, NEW e \in EnvIds \union {NotThere}, SelectEnvironment(w, e)
  PROVE  SpacesInv'
  <1>1. /\ MayPick(w, e) /\ picked' = [picked EXCEPT ![w] = e] /\ UNCHANGED <<spaceList, current, envRows>>
    BY DEF SelectEnvironment
  <1>2. SpacesTypeOK' /\ EnvironmentsHaveAnOrder'
    BY <1>1 DEF SpacesInv, SpacesTypeOK, EnvironmentsHaveAnOrder, EnvironmentsOf
  <1>3. SelectionsAreOwn'
    BY <1>1 DEF SpacesInv, SpacesTypeOK, SelectionsAreOwn, EnvironmentsOf, IsSpace, MayPick
  <1> QED
    BY <1>2, <1>3 DEF SpacesInv

LEMMA RemoveEnvironmentStep ==
  ASSUME SpacesInv, NEW w \in SpaceIds, NEW e \in EnvIds, RemoveEnvironment(w, e)
  PROVE  SpacesInv'
  <1>0. SpacesTypeOK /\ SelectionsAreOwn /\ EnvironmentsHaveAnOrder
    BY DEF SpacesInv
  <1>1. /\ envRows' = [envRows EXCEPT ![e] = NotThere] /\ e \in EnvironmentsOf(w)
        /\ picked' = [v \in SpaceIds |-> IF picked[v] = e THEN NotThere ELSE picked[v]]
        /\ UNCHANGED <<spaceList, current>>
    BY DEF RemoveEnvironment
  <1>2. SpacesTypeOK'
    BY <1>0, <1>1 DEF SpacesTypeOK
  <1>3. /\ \A f \in EnvIds : envRows'[f] = IF f = e THEN NotThere ELSE envRows[f]
        /\ \A v \in SpaceIds : picked'[v] = IF picked[v] = e THEN NotThere ELSE picked[v]
    BY <1>0, <1>1 DEF SpacesTypeOK
  <1>4. \A v \in SpaceIds : EnvironmentsOf(v)' = EnvironmentsOf(v) \ {e}
    BY <1>3 DEF EnvironmentsOf
  <1>5. SelectionsAreOwn'
    <2>1. ASSUME NEW f \in EnvIds, envRows'[f] # NotThere PROVE envRows'[f].of \in ToSet(spaceList')
      <3>1. envRows'[f] = envRows[f] /\ spaceList' = spaceList
        BY <1>1, <1>3, <2>1
      <3>2. envRows[f].of \in ToSet(spaceList)
        BY <1>0, <2>1, <3>1 DEF SelectionsAreOwn, IsSpace
      <3> QED
        BY <3>1, <3>2 DEF IsSpace
    <2>2. ASSUME NEW v \in SpaceIds, picked'[v] # NotThere PROVE picked'[v] \in EnvironmentsOf(v)'
      <3>1. picked'[v] = picked[v] /\ picked[v] # e /\ picked[v] # NotThere
        BY <1>3, <2>2
      <3>2. picked[v] \in EnvironmentsOf(v)
        BY <1>0, <3>1 DEF SelectionsAreOwn
      <3> QED
        BY <1>4, <3>1, <3>2
    <2> QED
      BY <2>1, <2>2 DEF SelectionsAreOwn, IsSpace
  <1>6. EnvironmentsHaveAnOrder'
    <2>1. \A v \in SpaceIds : \A f \in EnvironmentsOf(v) : f \in EnvIds /\ (f # e => envRows'[f] = envRows[f])
      BY <1>3 DEF EnvironmentsOf
    <2> QED
      BY <1>0, <1>4, <2>1 DEF EnvironmentsHaveAnOrder
  <1> QED
    BY <1>2, <1>5, <1>6 DEF SpacesInv

LEMMA SpacesNextInv ==
  ASSUME SpacesInv, [SpacesNext]_spaceVars
  PROVE  SpacesInv'
  <1>1. CASE UNCHANGED spaceVars
    BY <1>1 DEF spaceVars, SpacesInv, SpacesTypeOK, SelectionsAreOwn, EnvironmentsHaveAnOrder,
                EnvironmentsOf, IsSpace
  <1>2. ASSUME NEW w \in SpaceIds,
               \/ CreateSpace(w) \/ SwitchSpace(w) \/ DeleteSpace(w)
               \/ \E e \in EnvIds : CreateEnvironment(w, e) \/ RemoveEnvironment(w, e)
               \/ \E e \in EnvIds \union {NotThere} : SelectEnvironment(w, e)
        PROVE  SpacesInv'
    BY <1>2, CreateSpaceStep, SwitchSpaceStep, DeleteSpaceStep, CreateEnvironmentStep,
       RemoveEnvironmentStep, SelectEnvironmentStep
  <1> QED
    BY <1>1, <1>2 DEF SpacesNext

\* What a command leaves of the workspace w.
Keeps(w) == Held(w)' = Held(w)

LEMMA HeldSame ==
  ASSUME NEW w \in SpaceIds, picked'[w] = picked[w], EnvironmentsOf(w)' = EnvironmentsOf(w),
         \A e \in EnvironmentsOf(w) : envRows'[e] = envRows[e]
  PROVE  Keeps(w)
  BY DEF Keeps, Held

\* A command about one workspace leaves what the others have.
LEMMA OthersHold ==
  ASSUME SpacesInv, NEW u \in SpaceIds,
         \/ CreateSpace(u) \/ SwitchSpace(u) \/ DeleteSpace(u)
         \/ \E e \in EnvIds : CreateEnvironment(u, e) \/ RemoveEnvironment(u, e)
         \/ \E e \in EnvIds \union {NotThere} : SelectEnvironment(u, e),
         NEW w \in ToSet(spaceList)
  PROVE  /\ w # u => Keeps(w)
         /\ CreateSpace(u) \/ SwitchSpace(u) => Keeps(w)
         /\ DeleteSpace(u) => u \notin ToSet(spaceList)'
         /\ DeleteSpace(u) \/ CreateSpace(u) \/ SwitchSpace(u) \/ UNCHANGED <<spaceList, current>>
  <1>0. SpacesTypeOK /\ SelectionsAreOwn /\ w \in SpaceIds
    BY DEF SpacesInv, SpacesTypeOK, ToSet
  <1>1. ASSUME CreateSpace(u) \/ SwitchSpace(u) PROVE Keeps(w)
    BY <1>1 DEF CreateSpace, SwitchSpace, Keeps, Held, EnvironmentsOf
  <1>2. ASSUME DeleteSpace(u) PROVE u \notin ToSet(spaceList)' /\ (w # u => Keeps(w))
    <2>1. ToSet(spaceList)' = ToSet(spaceList) \ {u}
      <3>1. u \in ToSet(spaceList) /\ spaceList' = Others(u)
        BY <1>2 DEF DeleteSpace, IsSpace
      <3> QED
        BY <1>0, <3>1, OthersAre
    <2>2. ASSUME w # u PROVE Keeps(w)
      <3>1. envRows' = Cascaded(u, envRows) /\ picked' = Cascaded(u, picked)
        BY <1>2 DEF DeleteSpace
      <3>2. /\ \A e \in EnvIds : envRows'[e] = IF e \in EnvironmentsOf(u) THEN NotThere ELSE envRows[e]
            /\ picked'[w] = picked[w]
        BY <1>0, <2>2, <3>1, CascadedIs
      <3>3. EnvironmentsOf(w)' = EnvironmentsOf(w) /\ \A e \in EnvironmentsOf(w) : envRows'[e] = envRows[e]
        BY <2>2, <3>2 DEF EnvironmentsOf
      <3> QED
        BY <1>0, <3>2, <3>3, HeldSame
    <2> QED
      BY <2>1, <2>2
  <1>3. ASSUME NEW e \in EnvIds, CreateEnvironment(u, e), w # u PROVE Keeps(w)
    <2>1. /\ envRows[e] = NotThere /\ envRows' = [envRows EXCEPT ![e] = [of |-> u, position |-> NextEnvPosition(u)]]
          /\ picked' = [picked EXCEPT ![u] = e]
      BY <1>3 DEF CreateEnvironment
    <2>2. picked'[w] = picked[w] /\ envRows'[e].of = u /\ \A f \in EnvIds \ {e} : envRows'[f] = envRows[f]
      BY <1>0, <1>3, <2>1 DEF SpacesTypeOK
    <2>3. EnvironmentsOf(w)' = EnvironmentsOf(w) /\ \A f \in EnvironmentsOf(w) : envRows'[f] = envRows[f]
      BY <1>3, <2>1, <2>2 DEF EnvironmentsOf
    <2> QED
      BY <1>0, <2>2, <2>3, HeldSame
  <1>4. ASSUME NEW e \in EnvIds, RemoveEnvironment(u, e), w # u PROVE Keeps(w)
    <2>1. /\ envRows' = [envRows EXCEPT ![e] = NotThere] /\ e \in EnvironmentsOf(u)
          /\ picked' = [v \in SpaceIds |-> IF picked[v] = e THEN NotThere ELSE picked[v]]
      BY <1>4 DEF RemoveEnvironment
    <2>2. e \notin EnvironmentsOf(w) /\ \A f \in EnvIds \ {e} : envRows'[f] = envRows[f]
      BY <1>0, <1>4, <2>1 DEF EnvironmentsOf, SpacesTypeOK
    <2>3. picked[w] # e
      BY <1>0, <2>1, <2>2 DEF SelectionsAreOwn, EnvironmentsOf
    <2>4. picked'[w] = picked[w] /\ envRows'[e] = NotThere
      BY <1>0, <2>1, <2>3 DEF SpacesTypeOK, EnvironmentsOf
    <2>5. EnvironmentsOf(w)' = EnvironmentsOf(w) /\ \A f \in EnvironmentsOf(w) : envRows'[f] = envRows[f]
      BY <2>2, <2>4 DEF EnvironmentsOf
    <2> QED
      BY <1>0, <2>4, <2>5, HeldSame
  <1>5. ASSUME NEW e \in EnvIds \union {NotThere}, SelectEnvironment(u, e), w # u PROVE Keeps(w)
    <2>1. picked' = [picked EXCEPT ![u] = e] /\ UNCHANGED envRows
      BY <1>5 DEF SelectEnvironment
    <2>2. picked'[w] = picked[w] /\ EnvironmentsOf(w)' = EnvironmentsOf(w)
      BY <1>0, <1>5, <2>1 DEF SpacesTypeOK, EnvironmentsOf
    <2> QED
      BY <1>0, <2>1, <2>2, HeldSame
  <1>6. w # u => Keeps(w)
    BY <1>1, <1>2, <1>3, <1>4, <1>5
  <1>7. DeleteSpace(u) \/ CreateSpace(u) \/ SwitchSpace(u) \/ UNCHANGED <<spaceList, current>>
    BY DEF CreateEnvironment, RemoveEnvironment, SelectEnvironment
  <1> QED
    BY <1>1, <1>2, <1>6, <1>7

\* So of two workspaces that stay, a command is about one at most.
LEMMA OthersStep ==
  ASSUME SpacesInv, SpacesNext, NEW w \in ToSet(spaceList), NEW v \in ToSet(spaceList), w # v,
         w \in ToSet(spaceList'), v \in ToSet(spaceList')
  PROVE  /\ Held(w)' = Held(w) \/ Held(v)' = Held(v)
         /\ (spaceList' # spaceList \/ current' # current) => Held(w)' = Held(w)
  <1>1. PICK u \in SpaceIds :
          \/ CreateSpace(u) \/ SwitchSpace(u) \/ DeleteSpace(u)
          \/ \E e \in EnvIds : CreateEnvironment(u, e) \/ RemoveEnvironment(u, e)
          \/ \E e \in EnvIds \union {NotThere} : SelectEnvironment(u, e)
    BY DEF SpacesNext
  <1>2. /\ w # u => Keeps(w)
        /\ CreateSpace(u) \/ SwitchSpace(u) => Keeps(w)
        /\ DeleteSpace(u) => u \notin ToSet(spaceList)'
        /\ DeleteSpace(u) \/ CreateSpace(u) \/ SwitchSpace(u) \/ UNCHANGED <<spaceList, current>>
    BY <1>1, OthersHold
  <1>3. v # u => Keeps(v)
    BY <1>1, OthersHold
  <1> QED
    BY <1>2, <1>3 DEF Keeps

\* Whatever workspaces and environments are created, selected and deleted: something
\* is selected, of its own workspace, positions differ, every workspace but the last
\* can be deleted, and the others keep what they have (repositories.rs, with the
\* foreign keys of migrations.rs).
THEOREM SpacesKeepTheirPromise == SpacesSpec => SpacesCorrect
  <1>1. SpacesInit => SpacesInv
    BY SpacesInitInv
  <1>2. SpacesInv /\ [SpacesNext]_spaceVars => SpacesInv'
    BY SpacesNextInv
  <1>3. SpacesInv => SpacesTypeOK /\ SelectionsAreOwn /\ EnvironmentsHaveAnOrder /\ AllButTheLastCanGo
    BY ReplacementIs DEF SpacesInv, AllButTheLastCanGo
  <1>4. SpacesInv /\ [SpacesNext]_spaceVars =>
          [\A w, v \in ToSet(spaceList) : w # v /\ w \in ToSet(spaceList') /\ v \in ToSet(spaceList') =>
             /\ Held(w)' = Held(w) \/ Held(v)' = Held(v)
             /\ spaceList' # spaceList \/ current' # current => Held(w)' = Held(w)]_spaceVars
    BY OthersStep
  <1> QED
    BY <1>1, <1>2, <1>3, <1>4, PTL DEF SpacesSpec, SpacesCorrect, OthersAreLeftAlone

=============================================================================
