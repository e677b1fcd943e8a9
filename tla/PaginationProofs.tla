-------------------------- MODULE PaginationProofs --------------------------
(***************************************************************************)
(* Proofs about listings in pages, for every table, limit and number of    *)
(* changes: the order of the rows and what the keyset condition leaves of  *)
(* it, then the walks of a client over a table that changes.               *)
(***************************************************************************)
EXTENDS Pagination, FiniteSetTheorems, SequenceTheorems, WellFoundedInduction, TLAPS

(* The values of the rows, and an order they can be asked for in. *)
Valued == value \in [Ids -> Values]
Ordered(s, by, dir) ==
  \A m, n \in DOMAIN s : m < n => Before(by, dir, s[m], s[n])

(* s is a listing of S; every row of S is in s. *)
Listing(s, S, by, dir) == s \in [1..Cardinality(S) -> S] /\ Ordered(s, by, dir)
Shows(s, S) == \A i \in S : \E m \in 1..Cardinality(S) : s[m] = i

(* The row of S that comes before the others. *)
FirstOf(i, S, by, dir) == i \in S /\ \A j \in S \ {i} : Before(by, dir, i, j)

-----------------------------------------------------------------------------
(* orderBy is a strict total order of the rows: the cursor field breaks the
   ties of the sort field. *)
LEMMA OrderTotal ==
  ASSUME Valued, NEW by \in Fields, NEW dir \in Directions
  PROVE  /\ \A i \in Ids : ~Before(by, dir, i, i)
         /\ \A i, j \in Ids : i # j => Before(by, dir, i, j) \/ Before(by, dir, j, i)
         /\ \A i, j, k \in Ids :
              Before(by, dir, i, j) /\ Before(by, dir, j, k) => Before(by, dir, i, k)
<1>1. \A i \in Ids : i \in Int /\ value[i] \in Int
  <2>1. \A i \in Ids : value[i] \in Values
    BY DEF Valued
  <2>2. Ids \subseteq Int /\ Values \subseteq Int
    BY PaginationAssumption
  <2> QED
    BY <2>1, <2>2
<1>2. \A i \in Ids : ~Before(by, dir, i, i)
  BY <1>1 DEF Before, Less, Directions
<1>3. \A i, j \in Ids : i # j => Before(by, dir, i, j) \/ Before(by, dir, j, i)
  BY <1>1 DEF Before, Less, Directions
<1>4. ASSUME NEW i \in Ids, NEW j \in Ids, NEW k \in Ids,
             Before(by, dir, i, j), Before(by, dir, j, k)
      PROVE  Before(by, dir, i, k)
  BY <1>1, <1>4 DEF Before, Less, Directions
<1> QED
  BY <1>2, <1>3, <1>4

(* A set of sets of rows has one that includes no other of them. *)
LEMMA SmallestSet ==
  ASSUME NEW Bad \in SUBSET SUBSET Ids, Bad # {}
  PROVE  \E T \in Bad : \A U \in Bad : U \subseteq T => U = T
<1>1. Bad \subseteq FiniteSubsetsOf(Ids)
  BY PaginationAssumption, FS_Subset DEF FiniteSubsetsOf
<1>2. PICK T \in Bad : \A U \in Bad : ~(<<U, T>> \in StrictSubsetOrdering(Ids))
  BY <1>1, FS_StrictSubsetOrderingWellFounded, WFMin
<1> QED
  BY <1>2 DEF StrictSubsetOrdering

(* Rows that there are have a first. *)
LEMMA HasFirst ==
  ASSUME Valued, NEW by \in Fields, NEW dir \in Directions,
         NEW S \in SUBSET Ids, S # {}
  PROVE  \E i \in S : FirstOf(i, S, by, dir)
<1> DEFINE Bad == {T \in SUBSET Ids : T # {} /\ ~\E i \in T : FirstOf(i, T, by, dir)}
<1> SUFFICES ASSUME Bad # {} PROVE FALSE
  OBVIOUS
<1>1. PICK T \in Bad : \A U \in Bad : U \subseteq T => U = T
  <2>1. Bad \in SUBSET SUBSET Ids
    OBVIOUS
  <2> HIDE DEF Bad
  <2> QED
    BY <2>1, SmallestSet
<1>2. T \subseteq Ids /\ T # {} /\ ~\E i \in T : FirstOf(i, T, by, dir)
  OBVIOUS
<1>3. PICK i \in T : TRUE
  BY <1>2
<1>4. CASE T \ {i} = {}
  BY <1>2, <1>3, <1>4 DEF FirstOf
<1>5. CASE T \ {i} # {}
  <2>1. T \ {i} \notin Bad
    BY <1>1, <1>3
  <2>2. PICK j \in T \ {i} : FirstOf(j, T \ {i}, by, dir)
    BY <1>2, <1>5, <2>1
  <2>3. i \in Ids /\ j \in Ids /\ i # j
    BY <1>2, <1>3
  <2>4. CASE Before(by, dir, i, j)
    <3>1. ASSUME NEW k \in T \ {i} PROVE Before(by, dir, i, k)
      BY <1>2, <2>2, <2>3, <2>4, OrderTotal DEF FirstOf
    <3> QED
      BY <1>2, <1>3, <3>1 DEF FirstOf
  <2>5. CASE Before(by, dir, j, i)
    BY <1>2, <2>2, <2>5 DEF FirstOf
  <2> QED
    BY <2>3, <2>4, <2>5, OrderTotal
<1> QED
  BY <1>4, <1>5

(* Rows can be listed in order. *)
LEMMA HasListing ==
  ASSUME Valued, NEW by \in Fields, NEW dir \in Directions, NEW S \in SUBSET Ids
  PROVE  \E s \in [1..Cardinality(S) -> S] : Ordered(s, by, dir)
<1> DEFINE Listed(T) == \E s \in [1..Cardinality(T) -> T] : Ordered(s, by, dir)
           Bad == {T \in SUBSET Ids : ~Listed(T)}
<1> SUFFICES ASSUME Bad # {} PROVE FALSE
  OBVIOUS
<1>1. PICK T \in Bad : \A U \in Bad : U \subseteq T => U = T
  <2>1. Bad \in SUBSET SUBSET Ids
    OBVIOUS
  <2> HIDE DEF Bad
  <2> QED
    BY <2>1, SmallestSet
<1>2. T \subseteq Ids /\ ~Listed(T)
  OBVIOUS
<1> HIDE DEF Listed
<1>3. IsFiniteSet(T)
  BY <1>2, PaginationAssumption, FS_Subset
<1>4. T # {}
  <2> SUFFICES ASSUME T = {} PROVE FALSE
    OBVIOUS
  <2>1. Cardinality(T) = 0 /\ 1..0 = {}
    BY FS_EmptySet
  <2>2. <<>> \in [1..0 -> T] /\ DOMAIN <<>> = 1..0
    OBVIOUS
  <2>3. Ordered(<<>>, by, dir)
    BY <2>1, <2>2 DEF Ordered
  <2> QED
    BY <1>2, <2>1, <2>2, <2>3 DEF Listed
<1>5. PICK i \in T : FirstOf(i, T, by, dir)
  BY <1>2, <1>4, HasFirst
<1> DEFINE n == Cardinality(T \ {i})
<1>6. Listed(T \ {i})
  BY <1>1, <1>2
<1>7. n \in Nat /\ Cardinality(T) = n + 1
  <2>1. /\ IsFiniteSet(T \ {i}) /\ n = Cardinality(T) - 1
        /\ Cardinality(T) \in Nat
    BY <1>3, <1>5, FS_RemoveElement, FS_CardinalityType
  <2>2. n \in Nat
    BY <2>1, FS_CardinalityType
  <2> QED
    BY <2>1, <2>2
<1>8. PICK s \in [1..n -> T \ {i}] : Ordered(s, by, dir)
  BY <1>6 DEF Listed
<1> HIDE DEF n
<1> DEFINE r == [m \in 1..(n + 1) |-> IF m = 1 THEN i ELSE s[m - 1]]
<1>9. ASSUME NEW m \in 1..(n + 1), m # 1 PROVE m - 1 \in 1..n /\ s[m - 1] \in T \ {i}
  BY <1>7, <1>8, <1>9
<1>10. r \in [1..Cardinality(T) -> T]
  BY <1>5, <1>7, <1>9
<1>11. ASSUME NEW a \in 1..(n + 1), NEW b \in 1..(n + 1), a < b
       PROVE  Before(by, dir, r[a], r[b])
  <2>1. b # 1 /\ r[b] = s[b - 1]
    BY <1>7, <1>11
  <2>2. CASE a = 1
    BY <1>5, <1>9, <2>1, <2>2 DEF FirstOf
  <2>3. CASE a # 1
    <3>1. r[a] = s[a - 1] /\ a - 1 < b - 1
      BY <1>7, <1>11, <2>3
    <3>2. a - 1 \in 1..n /\ b - 1 \in 1..n
      BY <1>9, <2>1, <2>3
    <3> QED
      BY <1>8, <2>1, <3>1, <3>2 DEF Ordered
  <2> QED
    BY <2>2, <2>3
<1>12. Ordered(r, by, dir)
  BY <1>11 DEF Ordered
<1> QED
  BY <1>2, <1>10, <1>12 DEF Listed

(* A listing shows each of the rows. *)
LEMMA ListingComplete ==
  ASSUME Valued, NEW by \in Fields, NEW dir \in Directions, NEW S \in SUBSET Ids,
         NEW s, Listing(s, S, by, dir)
  PROVE  Shows(s, S)
<1>1. IsFiniteSet(S) /\ Cardinality(S) \in Nat
  BY PaginationAssumption, FS_Subset, FS_CardinalityType
<1> USE DEF Listing
<1> DEFINE n == Cardinality(S)
<1>2. IsFiniteSet(1..n) /\ Cardinality(1..n) = n
  BY <1>1, FS_Interval
<1> HIDE DEF n
<1>3. ASSUME NEW a \in 1..n, NEW b \in 1..n, s[a] = s[b] PROVE a = b
  <2> SUFFICES ASSUME NEW c \in 1..n, NEW d \in 1..n, s[c] = s[d], c < d
               PROVE  FALSE
    BY <1>1, <1>3 DEF n
  <2>1. Before(by, dir, s[c], s[d]) /\ s[c] \in Ids
    BY DEF Ordered, n
  <2> QED
    BY <2>1, OrderTotal
<1>4. s \in Injection(1..n, S)
  BY <1>3 DEF Injection, IsInjective, n
<1>5. s \in Surjection(1..n, S)
  BY <1>1, <1>2, <1>4, FS_Injection DEF n
<1> QED
  BY <1>5 DEF Surjection, Shows, n

(* What Sorted gives: a sequence of all the rows, in order. *)
LEMMA SortedLists ==
  ASSUME Valued, NEW by \in Fields, NEW dir \in Directions, NEW S \in SUBSET Ids
  PROVE  /\ Sorted(S, by, dir) \in Seq(S) /\ Len(Sorted(S, by, dir)) = Cardinality(S)
         /\ Cardinality(S) \in Nat /\ Cardinality(S) <= Cardinality(Ids)
         /\ Ordered(Sorted(S, by, dir), by, dir)
         /\ Shows(Sorted(S, by, dir), S)
<1> DEFINE n == Cardinality(S)
           s == Sorted(S, by, dir)
<1>1. n \in Nat /\ n <= Cardinality(Ids)
  BY PaginationAssumption, FS_Subset, FS_CardinalityType
<1>2. \E t \in [1..n -> S] :
        \A a, b \in 1..n : a < b => Before(by, dir, t[a], t[b])
  BY HasListing DEF Ordered
<1>3. /\ s \in [1..n -> S]
      /\ \A a, b \in 1..n : a < b => Before(by, dir, s[a], s[b])
  BY <1>2 DEF Sorted
<1> HIDE DEF s
<1>4. Ordered(s, by, dir)
  BY <1>3 DEF Ordered
<1>5. Shows(s, S)
  BY <1>3, <1>4, ListingComplete DEF Listing
<1>6. s \in Seq(S) /\ Len(s) = n
  BY <1>1, <1>3
<1> QED
  BY <1>1, <1>4, <1>5, <1>6 DEF s

(* The listing of a walk is the same while the rows and their values are. *)
LEMMA SortedKept ==
  ASSUME UNCHANGED <<value, rows>>, walk'.by = walk.by, walk'.dir = walk.dir
  PROVE  Sorted(rows, walk.by, walk.dir)' = Sorted(rows, walk.by, walk.dir)
<1> DEFINE Of(v, S, by, dir) ==
             CHOOSE s \in [1..Cardinality(S) -> S] :
               \A m, n \in 1..Cardinality(S) :
                 m < n => IF by = "value" /\ v[s[m]] # v[s[n]]
                            THEN Less(dir, v[s[m]], v[s[n]]) ELSE Less(dir, s[m], s[n])
<1>1. Sorted(rows, walk.by, walk.dir) = Of(value, rows, walk.by, walk.dir)
  BY DEF Sorted, Before
<1>2. Sorted(rows, walk.by, walk.dir)' = Of(value', rows', walk'.by, walk'.dir)
  BY DEF Sorted, Before
<1> HIDE DEF Of
<1> QED
  BY <1>1, <1>2

-----------------------------------------------------------------------------
(* Numbers of rows and pages. *)

(* A factor is kept or grows. *)
LEMMA TimesGrows ==
  ASSUME NEW l \in Nat \ {0}, NEW p \in Nat, NEW q \in Nat, p <= q
  PROVE  p * l \in Nat /\ q * l \in Nat /\ p * l <= q * l /\ p <= p * l
         /\ (p + 1) * l = p * l + l
OBVIOUS

(* What \div gives. *)
LEMMA DivBounds ==
  ASSUME NEW l \in Nat \ {0}, NEW n \in Nat
  PROVE  /\ n \div l \in Nat
         /\ (n \div l) * l <= n
         /\ n < (n \div l) * l + l
OBVIOUS

(* totalPages: a page before the last one leaves rows to show, the last one
   leaves none, and there are no more pages than rows. *)
LEMMA TotalPagesCounts ==
  ASSUME NEW l \in Nat \ {0}, NEW t \in Nat, NEW p \in Nat
  PROVE  /\ p < TotalPages(t, l) => p * l < t /\ p + 1 <= t
         /\ ~(p < TotalPages(t, l)) => t <= p * l
<1> DEFINE q == TotalPages(t, l)
<1>1. q \in Nat /\ q * l <= t + l - 1 /\ t + l - 1 < q * l + l
  BY DivBounds DEF TotalPages
<1> HIDE DEF q
<1>2. CASE p < q
  <2>1. (p + 1) * l <= q * l /\ p <= p * l /\ (p + 1) * l = p * l + l /\ p * l \in Nat
    BY <1>1, <1>2, TimesGrows
  <2> QED
    BY <1>1, <1>2, <2>1 DEF q
<1>3. CASE ~(p < q)
  <2>1. q * l <= p * l /\ p * l \in Nat /\ q * l \in Nat
    BY <1>1, <1>3, TimesGrows
  <2> QED
    BY <1>1, <1>3, <2>1 DEF q
<1> QED
  BY <1>2, <1>3

(* Whole pages and one page more are whole pages. *)
LEMMA WholePages ==
  ASSUME NEW l \in Nat \ {0}, NEW n \in Nat, n % l = 0
  PROVE  (n + l) % l = 0
<1> DEFINE q == n \div l
           k == (n + l) \div l
           r == (n + l) % l
<1>1. q \in Nat /\ n = q * l
  OBVIOUS
<1>2. k \in Nat /\ r \in Nat /\ r < l /\ n + l = k * l + r
  OBVIOUS
<1> HIDE DEF q, k, r
<1>3. (q + 1) * l = k * l + r
  BY <1>1, <1>2, TimesGrows
<1>4. CASE k < q + 1
  <2>1. (k + 1) * l <= (q + 1) * l /\ (k + 1) * l = k * l + l /\ k * l \in Nat
    BY <1>1, <1>2, <1>4, TimesGrows
  <2> QED
    BY <1>2, <1>3, <2>1
<1>5. CASE q + 1 <= k
  <2>1. (q + 1) * l <= k * l /\ k * l \in Nat /\ (q + 1) * l \in Nat
    BY <1>1, <1>2, <1>5, TimesGrows
  <2> QED
    BY <1>2, <1>3, <2>1 DEF r
<1> QED
  BY <1>1, <1>2, <1>4, <1>5

(* A page put behind what was shown. *)
LEMMA PageShown ==
  ASSUME NEW S, NEW s \in Seq(S), NEW all \in Seq(S),
         NEW a \in Nat, NEW b \in Nat, b <= Len(all)
  PROVE  LET part == SubSeq(all, a + 1, b)
             r == s \o part
         IN
         /\ part \in Seq(S) /\ Len(part) = IF a <= b THEN b - a ELSE 0
         /\ \A m \in 1..Len(part) : part[m] = all[a + m]
         /\ r \in Seq(S) /\ Len(r) = Len(s) + Len(part)
         /\ \A m \in 1..Len(s) : r[m] = s[m]
         /\ \A m \in 1..Len(part) : r[Len(s) + m] = all[a + m]
<1> DEFINE part == SubSeq(all, a + 1, b)
<1>1. \A m \in (a + 1)..b : all[m] \in S
  BY ElementOfSeq
<1>2. /\ part \in Seq(S)
      /\ Len(part) = IF a + 1 <= b THEN b - (a + 1) + 1 ELSE 0
      /\ \A m \in 1..b - (a + 1) + 1 : part[m] = all[a + 1 + m - 1]
  BY <1>1, SubSeqProperties
<1> HIDE DEF part
<1>3. Len(part) = IF a <= b THEN b - a ELSE 0
  BY <1>2
<1>4. ASSUME NEW m \in 1..Len(part) PROVE part[m] = all[a + m]
  <2>1. m \in 1..b - (a + 1) + 1 /\ a + 1 + m - 1 = a + m
    BY <1>3
  <2> QED
    BY <1>2, <2>1
<1>5. /\ s \o part \in Seq(S) /\ Len(s \o part) = Len(s) + Len(part)
      /\ \A m \in 1..Len(s) + Len(part) :
           (s \o part)[m] = IF m <= Len(s) THEN s[m] ELSE part[m - Len(s)]
  BY <1>2, ConcatProperties
<1>6. Len(s) \in Nat /\ Len(part) \in Nat
  BY <1>2, LenProperties
<1>7. ASSUME NEW m \in 1..Len(s) PROVE (s \o part)[m] = s[m]
  BY <1>5, <1>6
<1>8. ASSUME NEW m \in 1..Len(part) PROVE (s \o part)[Len(s) + m] = all[a + m]
  <2>1. /\ Len(s) + m \in 1..Len(s) + Len(part) /\ ~(Len(s) + m <= Len(s))
        /\ Len(s) + m - Len(s) = m
    BY <1>6
  <2> QED
    BY <1>4, <1>5, <2>1
<1> QED
  BY <1>2, <1>3, <1>4, <1>5, <1>7, <1>8 DEF part

-----------------------------------------------------------------------------
(* The invariant *)

Keyset == walk.mode \in {"keyset", "keysetDone"}
Offset == walk.mode \in {"offset", "count", "offsetDone"}

(* What there is before the first request, and the limit of an accepted one. *)
Asks ==
  /\ walk.mode \in {"none", "refused"} => shown = <<>>
  /\ walk.mode = "none" => quiet
  /\ Keyset \/ Offset => asked \in {0, walk.limit}

(* The cursor stands at the last row that was shown; until one is, it is the
   token the client came with. *)
Stands ==
  walk.mode = "keyset" =>
    /\ Len(shown) % walk.limit = 0
    /\ walk.cursor = None => shown = <<>>
    /\ walk.cursor # None /\ shown = <<>> => walk.by = "id"
    /\ walk.cursor # None /\ shown # <<>> =>
         walk.cursor = [value |-> value[shown[Len(shown)]], id |-> shown[Len(shown)]]

(* A row that is there from the beginning was shown, or the cursor leaves it. *)
Seen ==
  Keyset => \A i \in kept :
    \/ \E m \in 1..Len(shown) : shown[m] = i
    \/ walk.mode = "keyset" /\ i \in Matching(walk)

(* A walk by page number has shown the first rows of the listing. *)
Least(a, b) == IF a <= b THEN a ELSE b
Pages ==
  Offset /\ quiet =>
    LET all == Sorted(rows, walk.by, walk.dir)
        total == Cardinality(rows)
    IN
    /\ Len(shown) <= total
    /\ \A m \in 1..Len(shown) : shown[m] = all[m]
    /\ walk.mode = "offset" => Len(shown) = (walk.page - 1) * walk.limit
    /\ walk.mode = "count" => Len(shown) = Least(walk.page * walk.limit, total)
    /\ walk.mode = "offsetDone" => Len(shown) = total

PInv == TypeOK /\ Asks /\ KeysetOrdered /\ Stands /\ Seen /\ Pages

(* A query that is accepted: the limit is the one asked for, unless that is 0,
   and within its bounds, and a query with a cursor gives no page by number. *)
LEMMA TransformGives ==
  ASSUME NEW page \in Params, NEW limit \in Params, NEW hasCursor \in BOOLEAN
  PROVE  LET q == Transform(page, limit, hasCursor) IN
         /\ q.mode \in {"cursor", "offset", "refused"}
         /\ q.limit \in 1..MaxLimit
         /\ q.mode # "refused" => AsksFor(limit) \in {0, q.limit}
         /\ q.mode = "offset" => ~hasCursor
<1>1. page.n \in Int /\ limit.n \in Int
  BY PaginationAssumption DEF Params, Param
<1>2. MaxLimit \in Nat \ {0} /\ DefaultLimit \in 1..MaxLimit
  BY PaginationAssumption
<1>3. Number(limit, DefaultLimit) \in Int
  BY <1>1, <1>2 DEF Number
<1>4. AsksFor(limit) \in {0, Number(limit, DefaultLimit)}
  BY DEF AsksFor, Number, Params, Param
<1> QED
  BY <1>2, <1>3, <1>4 DEF Transform, Refused, CreatePagination, Clamp

(* Before the first request. *)
LEMMA PInit == Init => PInv
<1> SUFFICES ASSUME Init PROVE PInv
  OBVIOUS
<1>1. shown = <<>> /\ Len(<<>>) = 0 /\ 1..0 = {}
  BY DEF Init
<1>2. Cardinality(Ids) \in Nat
  BY PaginationAssumption, FS_CardinalityType
<1>3. TypeOK
  BY <1>2, PaginationAssumption DEF Init, TypeOK, NoWalk, Walk, Modes, Fields, Directions
<1> QED
  BY <1>3 DEF PInv, Init, NoWalk, Walk, Asks, KeysetOrdered, Stands, Seen, Pages, Keyset, Offset

(* The first request shows nothing yet. *)
LEMMA PBegin == PInv /\ Begin => PInv'
<1> SUFFICES ASSUME PInv, Begin PROVE PInv'
  OBVIOUS
<1>1. PICK page \in Params, limit \in Params, by \in Fields, dir \in Directions,
           cursor \in {None} \cup [value : {None}, id : Ids] :
       LET q == Transform(page, limit, cursor # None)
           first == Walk(IF q.mode = "cursor" THEN "keyset" ELSE q.mode,
                         by, dir, q.limit, q.page, cursor)
           refused == q.mode = "refused" \/ (cursor # None /\ by # "id")
       IN
       /\ q.page = 1
       /\ walk' = IF refused THEN Walk("refused", by, dir, 1, 1, None) ELSE first
       /\ kept' = IF refused THEN {} ELSE Matching(first)
       /\ asked' = AsksFor(limit)
  BY DEF Begin
<1> DEFINE q == Transform(page, limit, cursor # None)
           refused == q.mode = "refused" \/ (cursor # None /\ by # "id")
           first == Walk(IF q.mode = "cursor" THEN "keyset" ELSE q.mode,
                         by, dir, q.limit, q.page, cursor)
<1>2. /\ q.mode \in {"cursor", "offset", "refused"} /\ q.limit \in 1..MaxLimit
      /\ q.mode # "refused" => AsksFor(limit) \in {0, q.limit}
      /\ q.mode = "offset" => cursor = None
  BY TransformGives
<1>3. /\ q.page = 1 /\ asked' = AsksFor(limit)
      /\ walk' = IF refused THEN Walk("refused", by, dir, 1, 1, None) ELSE first
      /\ kept' = IF refused THEN {} ELSE Matching(first)
  BY <1>1
<1> HIDE DEF q
<1>4. /\ walk.mode = "none" /\ shown = <<>> /\ quiet
      /\ UNCHANGED <<value, rows, used, changes, shown, quiet>>
  BY DEF Begin, PInv, Asks, table
<1>5. shown' = <<>> /\ Len(shown') = 0 /\ quiet' /\ 1..0 = {}
  BY <1>4
<1>6. /\ walk'.by = by /\ walk'.dir = dir /\ walk'.page = 1
      /\ walk'.limit = (IF refused THEN 1 ELSE q.limit)
      /\ walk'.cursor = (IF refused THEN None ELSE cursor)
      /\ walk'.mode = IF refused THEN "refused"
                      ELSE IF q.mode = "cursor" THEN "keyset" ELSE q.mode
      /\ walk'.mode \in {"refused", "keyset", "offset"}
  BY <1>2, <1>3 DEF Walk
<1>7. TypeOK'
  <2>1. walk' \in [limit : 1..MaxLimit, mode : Modes, page : 1..(1 + Cardinality(Ids)),
                   by : Fields, dir : Directions, cursor : {None} \cup Cursors]
    <3>1. cursor \in {None} \cup Cursors
      BY DEF Cursors
    <3>2. 1 \in 1..(1 + Cardinality(Ids)) /\ 1 \in 1..MaxLimit
      BY PaginationAssumption, FS_CardinalityType
    <3>3. \A mode \in Modes, n \in 1..MaxLimit, c \in {None} \cup Cursors :
            Walk(mode, by, dir, n, 1, c) \in
              [limit : 1..MaxLimit, mode : Modes, page : 1..(1 + Cardinality(Ids)),
               by : Fields, dir : Directions, cursor : {None} \cup Cursors]
      BY <3>2 DEF Walk
    <3>4. CASE refused
      BY <1>3, <3>2, <3>3, <3>4 DEF Modes
    <3>5. CASE ~refused
      BY <1>2, <1>3, <3>1, <3>3, <3>5 DEF Modes
    <3> QED
      BY <3>4, <3>5
  <2>2. kept' \subseteq rows
    BY <1>3 DEF Matching
  <2> QED
    BY <1>4, <1>6, <2>1, <2>2 DEF PInv, TypeOK
<1>8. Asks'
  BY <1>2, <1>3, <1>4, <1>6 DEF Asks, Keyset, Offset
<1>9. Seen'
  <2>1. ASSUME walk'.mode = "keyset" PROVE kept' = Matching(walk)'
    <3>1. ~refused /\ walk' = first /\ kept' = Matching(first)
      BY <1>3, <1>6, <2>1
    <3> QED
      BY <1>4, <3>1 DEF Matching, Beyond
  <2> QED
    BY <1>6, <2>1 DEF Seen, Keyset
<1>10. Stands'
  <2>1. walk'.mode = "keyset" /\ walk'.cursor # None => walk'.by = "id"
    BY <1>6
  <2>2. walk'.limit \in Nat \ {0}
    BY <1>7, PaginationAssumption DEF TypeOK
  <2> QED
    BY <1>5, <2>1, <2>2 DEF Stands
<1>11. Pages'
  <2>1. walk'.mode # "count" /\ walk'.mode # "offsetDone" /\ (walk'.page - 1) * walk'.limit = 0
    BY <1>6, <1>7, PaginationAssumption DEF TypeOK
  <2>2. Cardinality(rows') \in Nat
    BY <1>7, PaginationAssumption, FS_Subset, FS_CardinalityType DEF TypeOK
  <2> QED
    BY <1>5, <2>1, <2>2 DEF Pages
<1> QED
  BY <1>5, <1>7, <1>8, <1>9, <1>10, <1>11 DEF PInv, KeysetOrdered

-----------------------------------------------------------------------------
(* Pages by cursor *)

(* keysetWhere of the cursor of a row leaves the rows orderBy puts behind it. *)
LEMMA BeyondRow ==
  ASSUME Valued, NEW by \in Fields, NEW dir \in Directions,
         NEW i \in Ids, NEW j \in Ids
  PROVE  Beyond([value |-> value[i], id |-> i], by, dir, j) <=> Before(by, dir, i, j)
<1>1. \A k \in Ids : k \in Int /\ value[k] \in Int
  <2>1. \A k \in Ids : value[k] \in Values
    BY DEF Valued
  <2>2. Ids \subseteq Int /\ Values \subseteq Int
    BY PaginationAssumption
  <2> QED
    BY <2>1, <2>2
<1> QED
  BY <1>1 DEF Beyond, Before, Less, Directions, Fields

(* A row is no cursor that is None. *)
LEMMA RowCursor ==
  ASSUME Valued, NEW i \in Ids
  PROVE  /\ [value |-> value[i], id |-> i] \in Cursors
         /\ [value |-> value[i], id |-> i] # None
<1>1. value[i] \in Values
  BY DEF Valued
<1> QED
  BY <1>1, PaginationAssumption DEF Cursors

(* What the cursor leaves comes behind all that was shown. *)
LEMMA CursorLeaves ==
  ASSUME PInv, walk.mode = "keyset"
  PROVE  /\ Matching(walk) \subseteq rows /\ Matching(walk) \subseteq Ids
         /\ \A i \in Matching(walk), m \in 1..Len(shown) :
              Before(walk.by, walk.dir, shown[m], i)
<1>1. /\ Valued /\ walk.by \in Fields /\ walk.dir \in Directions
      /\ rows \subseteq Ids /\ shown \in Seq(Ids)
  BY DEF PInv, TypeOK, Valued
<1>2. Matching(walk) \subseteq rows
  BY DEF Matching
<1>3. ASSUME NEW i \in Matching(walk), NEW m \in 1..Len(shown)
      PROVE  Before(walk.by, walk.dir, shown[m], i)
  <2> DEFINE len == Len(shown)
             last == shown[len]
  <2>1. len \in Nat /\ len >= 1 /\ shown # <<>> /\ len \in 1..len
    BY <1>1, <1>3, LenProperties, EmptySeq
  <2>2. last \in Ids /\ shown[m] \in Ids /\ i \in Ids
    BY <1>1, <1>2, <2>1, ElementOfSeq
  <2>3. walk.cursor # None /\ walk.cursor = [value |-> value[last], id |-> last]
    BY <2>1 DEF PInv, Stands
  <2>4. Beyond(walk.cursor, walk.by, walk.dir, i)
    BY <2>3 DEF Matching
  <2>5. Before(walk.by, walk.dir, last, i)
    BY <1>1, <2>2, <2>3, <2>4, BeyondRow
  <2>6. CASE m = len
    BY <2>5, <2>6
  <2>7. CASE m # len
    <3>1. m < len
      BY <2>1, <2>7
    <3>2. Before(walk.by, walk.dir, shown[m], last)
      BY <2>1, <3>1 DEF PInv, KeysetOrdered
    <3> QED
      BY <1>1, <2>2, <2>5, <3>2, OrderTotal
  <2> QED
    BY <2>6, <2>7
<1> QED
  BY <1>1, <1>2, <1>3

(* A page by cursor: the rows that are left, up to the limit. *)
LEMMA PKeysetPage == PInv /\ KeysetPage => PInv'
<1> SUFFICES ASSUME PInv, KeysetPage PROVE PInv'
  OBVIOUS
<1> DEFINE M == Matching(walk)
           all == Sorted(M, walk.by, walk.dir)
           n == Cardinality(M)
           l == walk.limit
           d == IF n > l THEN l ELSE n
           len == Len(shown)
           data == SubSeq(all, 1, d)
<1>1. /\ Valued /\ walk.by \in Fields /\ walk.dir \in Directions
      /\ rows \subseteq Ids /\ shown \in Seq(Ids) /\ l \in Nat \ {0}
      /\ walk.mode = "keyset" /\ asked \in {0, l} /\ len \in Nat /\ kept \subseteq rows
  BY PaginationAssumption, LenProperties DEF PInv, TypeOK, Valued, KeysetPage, Asks, Keyset
<1>2. /\ M \subseteq rows /\ M \subseteq Ids
      /\ \A i \in M, m \in 1..len : Before(walk.by, walk.dir, shown[m], i)
  BY <1>1, CursorLeaves
<1>3. /\ all \in Seq(M) /\ Len(all) = n /\ n \in Nat /\ Shows(all, M)
      /\ \A a, b \in 1..n : a < b => Before(walk.by, walk.dir, all[a], all[b])
  <2>1. /\ all \in Seq(M) /\ Len(all) = n /\ n \in Nat /\ Shows(all, M)
        /\ Ordered(all, walk.by, walk.dir)
    BY <1>1, <1>2, SortedLists
  <2>2. DOMAIN all = 1..n
    BY <2>1, LenProperties
  <2> QED
    BY <2>1, <2>2 DEF Ordered
<1>4. /\ shown' = shown \o data /\ UNCHANGED <<value, rows, used, changes, asked, kept, quiet>>
      /\ walk' = IF n > l
                   THEN Walk("keyset", walk.by, walk.dir, l, walk.page,
                             [value |-> value[data[Len(data)]], id |-> data[Len(data)]])
                   ELSE Walk("keysetDone", walk.by, walk.dir, l, walk.page, walk.cursor)
  <2> DEFINE e == IF Len(all) > l THEN l ELSE Len(all)
             part == SubSeq(all, 1, e)
  <2>1. /\ shown' = shown \o part
        /\ UNCHANGED <<value, rows, used, changes, asked, kept, quiet>>
        /\ walk' = IF Len(all) > l
                     THEN Walk("keyset", walk.by, walk.dir, l, walk.page,
                               [value |-> value[part[Len(part)]], id |-> part[Len(part)]])
                     ELSE Walk("keysetDone", walk.by, walk.dir, l, walk.page, walk.cursor)
    <3>1. UNCHANGED <<value, rows, used, changes, asked, kept, quiet>>
      BY DEF KeysetPage, table
    <3>2. shown' = shown \o part
      BY DEF KeysetPage, Take
    <3>3. walk' = IF Len(all) > l
                     THEN Walk("keyset", walk.by, walk.dir, l, walk.page,
                               [value |-> value[part[Len(part)]], id |-> part[Len(part)]])
                     ELSE Walk("keysetDone", walk.by, walk.dir, l, walk.page, walk.cursor)
      <4> DEFINE page == Take(all, l)
                 last == page.data[Len(page.data)]
      <4>1. walk' = IF page.hasNext
                     THEN Walk("keyset", walk.by, walk.dir, l, walk.page,
                               [value |-> value[last], id |-> last])
                     ELSE Walk("keysetDone", walk.by, walk.dir, l, walk.page, walk.cursor)
        BY DEF KeysetPage
      <4>2. page.hasNext = (Len(all) > l) /\ page.data = part
        BY Zenon DEF Take
      <4> HIDE DEF page, part, all
      <4>3. CASE Len(all) > l
        BY <4>1, <4>2, <4>3
      <4>4. CASE ~(Len(all) > l)
        BY <4>1, <4>2, <4>4
      <4> QED
        BY <4>3, <4>4
    <3> QED
      BY <3>1, <3>2, <3>3
  <2> HIDE DEF M, all, n
  <2> QED
    BY <1>3, <2>1
<1> HIDE DEF M, all, n
<1>5. d \in Nat /\ d <= n /\ (n > l => d = l) /\ (~(n > l) => d = n)
  BY <1>1, <1>3
<1> HIDE DEF d
<1>6. /\ Len(data) = d /\ data \in Seq(M) /\ shown' \in Seq(Ids) /\ Len(shown') = len + d
      /\ \A m \in 1..d : data[m] = all[m]
      /\ \A m \in 1..len : shown'[m] = shown[m]
      /\ \A m \in 1..d : shown'[len + m] = all[m]
  <2>1. all \in Seq(Ids) /\ 0 \in Nat /\ 0 + 1 = 1 /\ 0 <= d /\ d - 0 = d
    BY <1>2, <1>3, <1>5, SeqMonotonic
  <2>2. /\ Len(data) = d /\ shown' \in Seq(Ids) /\ Len(shown') = len + d
        /\ \A m \in 1..d : data[m] = all[0 + m]
        /\ \A m \in 1..len : shown'[m] = shown[m]
        /\ \A m \in 1..d : shown'[len + m] = all[0 + m]
    BY <1>1, <1>3, <1>4, <1>5, <2>1, PageShown
  <2>3. \A m \in 1..d : 0 + m = m
    BY <1>5
  <2>4. data \in Seq(M)
    BY <1>3, <1>5, <2>1, PageShown
  <2> QED
    BY <2>2, <2>3, <2>4
<1> HIDE DEF data
<1>7. \A m \in 1..n : all[m] \in M
  BY <1>3, ElementOfSeq
<1>8. /\ walk'.by = walk.by /\ walk'.dir = walk.dir /\ walk'.limit = l
      /\ walk'.page = walk.page
      /\ walk'.mode = IF n > l THEN "keyset" ELSE "keysetDone"
  BY <1>4 DEF Walk
<1>9. KeysetOrdered'
  <2>1. ASSUME NEW a \in 1..(len + d), NEW b \in 1..(len + d), a < b
        PROVE  Before(walk.by, walk.dir, shown'[a], shown'[b])
    <3>1. ASSUME NEW m \in 1..(len + d), ~(m <= len)
          PROVE  m - len \in 1..d /\ m - len \in 1..n /\ shown'[m] = all[m - len]
      <4>1. m - len \in 1..d /\ m - len \in 1..n /\ len + (m - len) = m
        BY <1>1, <1>3, <1>5, <3>1
      <4> QED
        BY <1>6, <4>1
    <3>2. CASE b <= len
      <4>1. a \in 1..len /\ b \in 1..len
        BY <1>1, <1>5, <2>1, <3>2
      <4> QED
        BY <1>1, <1>6, <2>1, <4>1 DEF PInv, KeysetOrdered
    <3>3. CASE a <= len /\ ~(b <= len)
      <4>1. a \in 1..len
        BY <1>1, <1>5, <3>3
      <4> QED
        BY <1>2, <1>6, <1>7, <3>1, <3>3, <4>1
    <3>4. CASE ~(a <= len)
      <4>1. ~(b <= len) /\ a - len < b - len
        BY <1>1, <1>5, <2>1, <3>4
      <4> QED
        BY <1>3, <3>1, <3>4, <4>1
    <3> QED
      BY <3>2, <3>3, <3>4
  <2> SUFFICES ASSUME NEW a \in 1..(len + d), NEW b \in 1..(len + d), a < b
               PROVE  Before(walk.by, walk.dir, shown[a], shown[b])'
    BY <1>6 DEF KeysetOrdered
  <2>2. Before(walk.by, walk.dir, shown'[a], shown'[b])
    BY <2>1
  <2> QED
    BY <1>4, <1>8, <2>2 DEF Before
<1>10. /\ asked' \in {0, walk'.limit} /\ walk'.mode \in {"keyset", "keysetDone"}
       /\ Asks' /\ Pages'
  BY <1>1, <1>4, <1>8 DEF Asks, Pages, Keyset, Offset
<1>11. ASSUME walk'.mode \in Modes, walk'.cursor \in {None} \cup Cursors,
              walk' = Walk(walk'.mode, walk.by, walk.dir, l, walk.page, walk'.cursor)
       PROVE  TypeOK'
  <2>1. walk' \in [limit : 1..MaxLimit, mode : Modes, page : 1..(1 + Cardinality(Ids)),
                   by : Fields, dir : Directions, cursor : {None} \cup Cursors]
    BY <1>11 DEF PInv, TypeOK, Walk
  <2> QED
    BY <1>4, <1>6, <1>8, <2>1 DEF PInv, TypeOK
<1>12. CASE n > l
  <2>1. d = l /\ l \in 1..n /\ l \in 1..d
    BY <1>1, <1>3, <1>5, <1>12
  <2>2. /\ data[Len(data)] = all[l] /\ all[l] \in Ids /\ shown'[Len(shown')] = all[l]
    BY <1>2, <1>6, <1>7, <2>1
  <2>3. /\ walk' = Walk("keyset", walk.by, walk.dir, l, walk.page,
                        [value |-> value[all[l]], id |-> all[l]])
        /\ walk'.cursor = [value |-> value[all[l]], id |-> all[l]]
        /\ walk'.cursor \in Cursors /\ walk'.cursor # None
    BY <1>1, <1>4, <1>12, <2>2, RowCursor DEF Walk
  <2>4. TypeOK'
    BY <1>8, <1>11, <1>12, <2>3 DEF Modes
  <2>5. Stands'
    <3>1. Len(shown') % l = 0
      BY <1>1, <1>6, <2>1, WholePages DEF PInv, Stands
    <3>2. shown' # <<>>
      BY <1>1, <1>6, <2>1, EmptySeq
    <3> QED
      BY <1>4, <1>8, <2>2, <2>3, <3>1, <3>2 DEF Stands
  <2>6. ASSUME NEW i \in kept
        PROVE  \/ \E m \in 1..(len + d) : shown'[m] = i
               \/ i \in Matching(walk)'
    <3>1. CASE \E m \in 1..len : shown[m] = i
      <4>1. PICK m \in 1..len : shown[m] = i
        BY <3>1
      <4>2. m \in 1..(len + d) /\ shown'[m] = i
        BY <1>1, <1>5, <1>6, <4>1
      <4> QED
        BY <4>2
    <3>2. CASE i \in M
      <4>1. PICK m \in 1..n : all[m] = i
        BY <1>3, <3>2 DEF Shows, n
      <4>2. CASE m <= l
        <5>1. m \in 1..d /\ len + m \in 1..(len + d)
          BY <1>1, <1>3, <2>1, <4>2
        <5> QED
          BY <1>6, <4>1, <5>1
      <4>3. CASE ~(m <= l)
        <5>1. l < m
          BY <1>1, <1>3, <4>3
        <5>2. Before(walk.by, walk.dir, all[l], i)
          BY <1>3, <2>1, <4>1, <5>1
        <5>3. Beyond(walk'.cursor, walk.by, walk.dir, i)
          BY <1>1, <1>2, <2>2, <2>3, <3>2, <5>2, BeyondRow
        <5> QED
          BY <1>2, <1>4, <1>8, <2>3, <3>2, <5>3 DEF Matching, Beyond
      <4> QED
        BY <4>2, <4>3
    <3> QED
      BY <1>1, <3>1, <3>2 DEF PInv, Seen, Keyset, M
  <2>7. Seen'
    BY <1>4, <1>6, <1>8, <1>12, <2>6 DEF Seen
  <2> QED
    BY <1>9, <1>10, <2>4, <2>5, <2>7 DEF PInv
<1>13. CASE ~(n > l)
  <2>1. walk' = Walk("keysetDone", walk.by, walk.dir, l, walk.page, walk.cursor)
    BY <1>4, <1>13
  <2>2. walk'.mode = "keysetDone" /\ walk'.cursor = walk.cursor
    BY <2>1 DEF Walk
  <2>3. TypeOK'
    BY <1>11, <2>1, <2>2 DEF PInv, TypeOK, Modes
  <2>4. Stands'
    BY <2>2 DEF Stands
  <2>5. ASSUME NEW i \in kept PROVE \E m \in 1..(len + d) : shown'[m] = i
    <3>1. CASE \E m \in 1..len : shown[m] = i
      <4>1. PICK m \in 1..len : shown[m] = i
        BY <3>1
      <4>2. m \in 1..(len + d) /\ shown'[m] = i
        BY <1>1, <1>5, <1>6, <4>1
      <4> QED
        BY <4>2
    <3>2. CASE i \in M
      <4>1. PICK m \in 1..n : all[m] = i
        BY <1>3, <3>2 DEF Shows, n
      <4>2. m \in 1..d /\ len + m \in 1..(len + d)
        BY <1>1, <1>3, <1>5, <1>13
      <4> QED
        BY <1>6, <4>1, <4>2
    <3> QED
      BY <1>1, <3>1, <3>2 DEF PInv, Seen, Keyset, M
  <2>6. Seen'
    BY <1>4, <1>6, <2>5 DEF Seen
  <2> QED
    BY <1>9, <1>10, <2>3, <2>4, <2>6 DEF PInv
<1> QED
  BY <1>12, <1>13

-----------------------------------------------------------------------------
(* Pages by number *)

(* A page by number: from where the pages before it end, up to the limit. *)
LEMMA POffsetPage == PInv /\ OffsetPage => PInv'
<1> SUFFICES ASSUME PInv, OffsetPage PROVE PInv'
  OBVIOUS
<1> DEFINE all == Sorted(rows, walk.by, walk.dir)
           total == Cardinality(rows)
           l == walk.limit
           skip == (walk.page - 1) * l
           e == IF skip + l > total THEN total ELSE skip + l
           len == Len(shown)
           part == SubSeq(all, skip + 1, e)
<1>1. /\ Valued /\ walk.by \in Fields /\ walk.dir \in Directions
      /\ rows \subseteq Ids /\ shown \in Seq(Ids) /\ l \in Nat \ {0}
      /\ walk.page \in Nat \ {0}
      /\ walk.mode = "offset" /\ asked \in {0, l} /\ len \in Nat
  BY PaginationAssumption, LenProperties, FS_CardinalityType
     DEF PInv, TypeOK, Valued, OffsetPage, Asks, Offset
<1>2. all \in Seq(Ids) /\ Len(all) = total /\ total \in Nat
  <2>1. all \in Seq(rows) /\ Len(all) = total /\ total \in Nat
    BY <1>1, SortedLists
  <2> QED
    BY <1>1, <2>1, SeqMonotonic
<1>3. /\ shown' = shown \o part
      /\ UNCHANGED <<value, rows, used, changes, asked, kept, quiet>>
      /\ walk' = Walk("count", walk.by, walk.dir, l, walk.page, None)
  <2>1. /\ UNCHANGED <<value, rows, used, changes, asked, kept, quiet>>
        /\ walk' = Walk("count", walk.by, walk.dir, l, walk.page, None)
    BY DEF OffsetPage, table
  <2>2. shown' = shown \o SubSeq(all, skip + 1,
                                 IF skip + l > Len(all) THEN Len(all) ELSE skip + l)
    BY DEF OffsetPage, Skip
  <2> QED
    BY <1>2, <2>1, <2>2
<1>4. Sorted(rows, walk.by, walk.dir)' = all
  BY <1>3, SortedKept DEF Walk
<1> HIDE DEF all, total
<1>5. skip \in Nat /\ walk.page * l = skip + l
  <2>1. walk.page - 1 \in Nat /\ (walk.page - 1) + 1 = walk.page
    BY <1>1
  <2> QED
    BY <1>1, <2>1, TimesGrows
<1> HIDE DEF skip
<1>6. e \in Nat /\ e <= total
  BY <1>1, <1>2, <1>5
<1>7. /\ shown' \in Seq(Ids) /\ Len(shown') = len + Len(part)
      /\ Len(part) = IF skip <= e THEN e - skip ELSE 0
      /\ \A m \in 1..len : shown'[m] = shown[m]
      /\ \A m \in 1..Len(part) : shown'[len + m] = all[skip + m]
  <2> HIDE DEF e
  <2> QED
    BY <1>1, <1>2, <1>3, <1>5, <1>6, PageShown
<1>8. /\ walk'.by = walk.by /\ walk'.dir = walk.dir /\ walk'.limit = l
      /\ walk'.page = walk.page /\ walk'.mode = "count"
  BY <1>3 DEF Walk
<1>9. TypeOK'
  <2>1. walk' \in [limit : 1..MaxLimit, mode : Modes, page : 1..(1 + Cardinality(Ids)),
                   by : Fields, dir : Directions, cursor : {None} \cup Cursors]
    BY <1>3 DEF PInv, TypeOK, Walk, Modes
  <2> QED
    BY <1>3, <1>7, <1>8, <2>1 DEF PInv, TypeOK
<1>10. ASSUME quiet
       PROVE  /\ Len(shown') = Least(walk.page * l, total) /\ Len(shown') <= total
              /\ \A m \in 1..Len(shown') : shown'[m] = all[m]
  <2>1. /\ len = skip /\ len <= total
        /\ \A m \in 1..len : shown[m] = all[m]
    BY <1>1, <1>10 DEF PInv, Pages, Offset, all, total, skip
  <2>2. Len(part) = e - len /\ Len(shown') = e /\ len <= e
    BY <1>1, <1>2, <1>5, <1>6, <1>7, <2>1
  <2>3. ASSUME NEW m \in 1..e PROVE shown'[m] = all[m]
    <3>1. CASE m <= len
      <4>1. m \in 1..len
        BY <1>1, <1>6, <3>1
      <4> QED
        BY <1>7, <2>1, <4>1
    <3>2. CASE ~(m <= len)
      <4> HIDE DEF e, part, len
      <4>1. m - len \in 1..Len(part) /\ len + (m - len) = m /\ skip + (m - len) = m
        BY <1>1, <1>6, <2>1, <2>2, <3>2
      <4> QED
        BY <1>7, <4>1 DEF len
    <3> QED
      BY <3>1, <3>2
  <2>4. e = Least(walk.page * l, total)
    <3>1. Least(walk.page * l, total) = Least(skip + l, total)
      BY <1>5
    <3>2. l \in Nat /\ skip + l \in Nat
      BY <1>1, <1>5
    <3> HIDE DEF l
    <3>3. e = Least(skip + l, total)
      BY <1>2, <3>2 DEF Least
    <3> QED
      BY <3>1, <3>3 DEF l
  <2> QED
    BY <1>6, <2>2, <2>3, <2>4
<1>11. Pages'
  BY <1>3, <1>4, <1>8, <1>10 DEF Pages, all, total
<1> QED
  BY <1>1, <1>3, <1>8, <1>9, <1>11
     DEF PInv, Asks, KeysetOrdered, Stands, Seen, Keyset, Offset

(* The count: on to the next page, or the end. *)
LEMMA POffsetCount == PInv /\ OffsetCount => PInv'
<1> SUFFICES ASSUME PInv, OffsetCount PROVE PInv'
  OBVIOUS
<1> DEFINE total == Cardinality(rows)
           l == walk.limit
           p == walk.page
           more == p < TotalPages(total, l)
<1>1. /\ rows \subseteq Ids /\ l \in Nat \ {0} /\ p \in Nat \ {0}
      /\ walk.mode = "count" /\ asked \in {0, l} /\ Cardinality(Ids) \in Nat
  BY PaginationAssumption, FS_CardinalityType
     DEF PInv, TypeOK, OffsetCount, Asks, Offset
<1>2. total \in Nat /\ total <= Cardinality(Ids)
  BY <1>1, PaginationAssumption, FS_Subset, FS_CardinalityType
<1>3. /\ UNCHANGED <<value, rows, used, changes, asked, shown, kept, quiet>>
      /\ walk' = IF more THEN Walk("offset", walk.by, walk.dir, l, p + 1, None)
                         ELSE Walk("offsetDone", walk.by, walk.dir, l, p, None)
  BY DEF OffsetCount, table
<1>4. /\ walk'.by = walk.by /\ walk'.dir = walk.dir /\ walk'.limit = l
      /\ walk'.page = (IF more THEN p + 1 ELSE p)
      /\ walk'.mode = IF more THEN "offset" ELSE "offsetDone"
  BY <1>3 DEF Walk
<1>5. Sorted(rows, walk.by, walk.dir)' = Sorted(rows, walk.by, walk.dir)
  BY <1>3, <1>4, SortedKept
<1>6. /\ more => p * l < total /\ p + 1 <= total
      /\ ~more => total <= p * l
  BY <1>1, <1>2, TotalPagesCounts
<1> HIDE DEF total, more
<1>7. TypeOK'
  <2>1. more => p + 1 \in 1..(1 + Cardinality(Ids)) /\ p + 1 <= Cardinality(Ids)
    BY <1>1, <1>2, <1>6
  <2>2. walk' \in [limit : 1..MaxLimit, mode : Modes, page : 1..(1 + Cardinality(Ids)),
                   by : Fields, dir : Directions, cursor : {None} \cup Cursors]
    BY <1>3, <2>1 DEF PInv, TypeOK, Walk, Modes
  <2> QED
    BY <1>3, <1>4, <2>1, <2>2 DEF PInv, TypeOK
<1>8. quiet => /\ Len(shown) = Least(p * l, total)
               /\ more => Len(shown) = p * l /\ (p + 1 - 1) * l = p * l
               /\ ~more => Len(shown) = total
  <2>1. p * l \in Nat /\ p + 1 - 1 = p
    BY <1>1, TimesGrows
  <2>2. quiet => Len(shown) = Least(p * l, total)
    BY <1>1 DEF PInv, Pages, Offset, total
  <2> QED
    BY <1>2, <1>6, <2>1, <2>2 DEF Least
<1>9. Pages'
  BY <1>1, <1>3, <1>4, <1>5, <1>8 DEF PInv, Pages, Offset, total
<1> QED
  BY <1>1, <1>3, <1>4, <1>7, <1>9
     DEF PInv, Asks, KeysetOrdered, Stands, Seen, Keyset, Offset

-----------------------------------------------------------------------------
(* Other requests *)

(* A row that comes or goes leaves what was shown in order, and what the cursor
   leaves changes by that row only. *)
LEMMA PChange ==
  ASSUME PInv, NEW i \in Ids, Insert(i) \/ Delete(i)
  PROVE  PInv'
<1>1. /\ UNCHANGED <<value, walk, asked, shown>>
      /\ quiet' = (walk.mode = "none") /\ changes' \in 0..MaxChanges
  BY PaginationAssumption DEF PInv, TypeOK, Insert, Delete, Changed
<1>2. /\ rows' \subseteq used' /\ used' \subseteq Ids /\ kept' \subseteq rows'
      /\ kept' \subseteq kept
  BY DEF PInv, TypeOK, Insert, Delete
<1>3. TypeOK'
  BY <1>1, <1>2 DEF PInv, TypeOK
<1>4. ASSUME NEW k \in kept', k \in Matching(walk) PROVE k \in Matching(walk)'
  BY <1>1, <1>2, <1>3, <1>4 DEF Matching, Beyond, TypeOK
<1>5. Seen'
  <2> SUFFICES ASSUME Keyset', NEW k \in kept'
               PROVE  \/ \E m \in 1..Len(shown') : shown'[m] = k
                      \/ walk'.mode = "keyset" /\ k \in Matching(walk)'
    BY DEF Seen
  <2>1. Keyset /\ k \in kept
    BY <1>1, <1>2 DEF Keyset
  <2>2. \/ \E m \in 1..Len(shown) : shown[m] = k
        \/ walk.mode = "keyset" /\ k \in Matching(walk)
    BY <2>1 DEF PInv, Seen
  <2> QED
    BY <1>1, <1>4, <2>2
<1>6. KeysetOrdered' /\ Stands'
  <2>1. KeysetOrdered'
    BY <1>1 DEF PInv, KeysetOrdered, Before
  <2>2. Stands'
    BY <1>1 DEF PInv, Stands
  <2> QED
    BY <2>1, <2>2
<1>7. Asks' /\ Pages'
  BY <1>1 DEF PInv, Asks, Pages, Keyset, Offset
<1> QED
  BY <1>3, <1>5, <1>6, <1>7 DEF PInv

(* Every step keeps the invariant. *)
LEMMA PStep == PInv /\ [Next]_vars => PInv'
<1> SUFFICES ASSUME PInv, [Next]_vars PROVE PInv'
  OBVIOUS
<1>1. CASE Begin
  BY <1>1, PBegin
<1>2. CASE KeysetPage
  BY <1>2, PKeysetPage
<1>3. CASE OffsetPage
  BY <1>3, POffsetPage
<1>4. CASE OffsetCount
  BY <1>4, POffsetCount
<1>5. CASE \E i \in Ids : Insert(i) \/ Delete(i)
  BY <1>5, PChange
<1>6. CASE UNCHANGED vars
  <2>1. UNCHANGED <<value, rows, used, changes, walk, asked, shown, kept, quiet>>
    BY <1>6 DEF vars, table
  <2>2. TypeOK' /\ Asks' /\ KeysetOrdered' /\ Stands'
    <3>1. TypeOK'
      BY <2>1 DEF PInv, TypeOK
    <3>2. Asks' /\ KeysetOrdered' /\ Stands'
      BY <2>1 DEF PInv, Asks, KeysetOrdered, Before, Stands, Keyset, Offset
    <3> QED
      BY <3>1, <3>2
  <2>3. Seen'
    BY <2>1 DEF PInv, Seen, Keyset, Matching, Beyond
  <2>4. Pages'
    <3>1. Sorted(rows, walk.by, walk.dir)' = Sorted(rows, walk.by, walk.dir)
      BY <2>1, SortedKept
    <3> QED
      BY <2>1, <3>1 DEF PInv, Pages, Offset
  <2> QED
    BY <2>2, <2>3, <2>4 DEF PInv
<1> QED
  BY <1>1, <1>2, <1>3, <1>4, <1>5, <1>6 DEF Next

(* The invariant always holds. *)
LEMMA PAlways == Spec => []PInv
BY PInit, PStep, PTL DEF Spec

-----------------------------------------------------------------------------
(* Types, and no page past the rows there can be, however large the table:
   prismaPaginate and its client. *)
THEOREM TypeCorrect == Spec => []TypeOK
<1>1. PInv => TypeOK
  BY DEF PInv
<1> QED
  BY <1>1, PAlways, PTL

(* A walk by cursor shows the rows in order and none twice, whatever other
   requests insert and delete: keysetWhere and orderBy agree. *)
THEOREM CursorWalkOrdered == Spec => []KeysetOrdered
<1>1. PInv => KeysetOrdered
  BY DEF PInv
<1> QED
  BY <1>1, PAlways, PTL

(* A walk by cursor that has ended has shown every row that was there all the
   time, for every limit, sort field and direction, and number of ties. *)
THEOREM CursorWalkComplete == Spec => []KeysetComplete
<1>1. PInv => KeysetComplete
  <2> SUFFICES ASSUME PInv, walk.mode = "keysetDone" PROVE kept \subseteq Range(shown)
    BY DEF KeysetComplete
  <2>1. \A i \in kept : \E m \in 1..Len(shown) : shown[m] = i
    BY DEF PInv, Seen, Keyset
  <2>2. DOMAIN shown = 1..Len(shown)
    BY LenProperties DEF PInv, TypeOK
  <2> QED
    BY <2>1, <2>2 DEF Range
<1> QED
  BY <1>1, PAlways, PTL

(* A walk by page number over a table at rest shows the rows of the listing,
   and at its end all of them: skip, take and totalPages fit together. *)
THEOREM PageWalkComplete == Spec => []OffsetComplete
<1>1. PInv => OffsetComplete
  <2> SUFFICES ASSUME PInv, Offset, quiet
               PROVE  /\ IsPrefix(shown, Sorted(rows, walk.by, walk.dir))
                      /\ walk.mode = "offsetDone" => Len(shown) = Cardinality(rows)
    BY DEF OffsetComplete, Offset
  <2> DEFINE all == Sorted(rows, walk.by, walk.dir)
             len == Len(shown)
  <2>1. /\ Valued /\ walk.by \in Fields /\ walk.dir \in Directions
        /\ rows \subseteq Ids /\ shown \in Seq(Ids)
    BY DEF PInv, TypeOK, Valued
  <2>2. all \in Seq(rows) /\ Len(all) = Cardinality(rows) /\ Cardinality(rows) \in Nat
    BY <2>1, SortedLists
  <2>3. /\ len <= Cardinality(rows) /\ \A m \in 1..len : shown[m] = all[m]
        /\ walk.mode = "offsetDone" => len = Cardinality(rows)
    BY DEF PInv, Pages
  <2> HIDE DEF all
  <2>4. len \in Nat /\ all \in Seq(Ids) /\ \A m \in 1..len : all[m] \in Ids
    <3>1. len \in Nat /\ all \in Seq(Ids)
      BY <2>1, <2>2, LenProperties, SeqMonotonic
    <3> QED
      BY <2>2, <2>3, <3>1, ElementOfSeq
  <2>5. /\ SubSeq(all, 1, len) \in Seq(Ids) /\ Len(SubSeq(all, 1, len)) = len
        /\ \A m \in 1..len : SubSeq(all, 1, len)[m] = all[m]
    BY <2>2, <2>3, <2>4, SubSeqProperties
  <2>6. SubSeq(all, 1, len) = shown
    BY <2>1, <2>3, <2>5, SeqEqual
  <2>7. SubSeq(shown, 1, len) = shown
    BY <2>1, SubSeqFull
  <2> QED
    BY <2>2, <2>3, <2>6, <2>7 DEF IsPrefix, all
<1> QED
  BY <1>1, PAlways, PTL

(* No page but the last differs from the limit the client asked for, unless
   that is 0, and no limit out of bounds is served: what the pipe lets through,
   createPagination leaves as it is. *)
THEOREM PagesFull == Spec => []FullPages
<1>1. PInv => FullPages
  <2> SUFFICES ASSUME PInv PROVE FullPages
    OBVIOUS
  <2>1. walk.mode \in Modes /\ walk.limit \in 1..MaxLimit
    BY DEF PInv, TypeOK
  <2>2. walk.mode \notin {"none", "refused"} => asked \in {0, walk.limit}
    BY <2>1 DEF PInv, Asks, Keyset, Offset, Modes
  <2>3. asked \notin 0..MaxLimit => shown = <<>>
    BY <2>1, <2>2, PaginationAssumption DEF PInv, Asks
  <2>4. asked # 0 /\ walk.mode = "keyset" => Len(shown) % asked = 0
    BY <2>2 DEF PInv, Stands
  <2>5. asked # 0 /\ walk.mode = "offset" /\ quiet => Len(shown) = (walk.page - 1) * asked
    BY <2>2 DEF PInv, Pages, Offset
  <2> QED
    BY <2>3, <2>4, <2>5 DEF FullPages
<1> QED
  BY <1>1, PAlways, PTL
=============================================================================
