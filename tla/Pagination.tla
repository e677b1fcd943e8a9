----------------------------- MODULE Pagination -----------------------------
(***************************************************************************)
(* Listings in pages: PaginationPipe and createPagination read the query,  *)
(* prismaPaginate makes the page, a client asks for page after page while  *)
(* other requests insert and delete rows.                                  *)
(*                                                                         *)
(* Rows have an id, the cursorField, and a value, the sortField.  Values   *)
(* are not null, do not change and survive JSON, so that Init chooses them *)
(* for the rows to come as well; ids are not used again.                   *)
(* The order of offset pages is the caller's args.orderBy, by value and    *)
(* id; keyset pages use the order prismaPaginate makes.                    *)
(***************************************************************************)
EXTENDS Integers, Sequences, FiniteSets, SequencesExt

CONSTANTS Ids, Values,
          DefaultLimit, MaxLimit,  \* 10 and 150
          MaxChanges,              \* bound on inserts and deletes
          None

ASSUME PaginationAssumption ==
  /\ Ids \subseteq Nat /\ IsFiniteSet(Ids)
  /\ Values \subseteq Nat /\ MaxChanges \in Nat
  /\ MaxLimit \in Nat \ {0} /\ DefaultLimit \in 1..MaxLimit
  /\ None \notin [value : Values, id : Ids]

VARIABLES
  value,    \* id -> value of its row
  rows,     \* the ids with a row
  used,     \* the ids that were given to a row
  changes,  \* the number of inserts and deletes
  walk,     \* the client: its next request
  asked,    \* history: the limit it asked for, 0 if that is no number
  shown,    \* history: the rows it was shown
  kept,     \* history: the rows that are there since it began
  quiet     \* history: nothing changed since it began

table == <<value, rows, used, changes>>
vars == <<table, walk, asked, shown, kept, quiet>>

-----------------------------------------------------------------------------
(* The query: a parameter is given or not, may be the empty string, and reads
   as a number, 0 when parseInt finds none. *)

Param(given, empty, n) == [given |-> given, empty |-> empty, n |-> n]
Params == {Param(FALSE, TRUE, 0), Param(TRUE, TRUE, 0)}
          \cup {Param(TRUE, FALSE, n) : n \in -1..(MaxLimit + 1)}

(* What a client asks for: the default when it gives no limit. *)
AsksFor(limit) == IF limit.empty THEN DefaultLimit ELSE limit.n

(* parseInt(text) || fallback *)
Number(param, fallback) == IF param.n = 0 THEN fallback ELSE param.n

Refused == [mode |-> "refused", page |-> 1, limit |-> 1]
Clamp(low, n, high) == IF n < low THEN low ELSE IF n > high THEN high ELSE n

CreatePagination(page, limit, hasCursor, preferCursor) ==
  [mode |-> IF hasCursor \/ preferCursor THEN "cursor" ELSE "offset",
   page |-> IF page < 1 THEN 1 ELSE page,
   limit |-> Clamp(1, limit, MaxLimit)]

(* Fault: the limit has no upper bound but the one that clamps it. *)
TransformClamping(pageParam, limitParam, hasCursor) ==
  LET page == Number(pageParam, 1)
      limit == Number(limitParam, DefaultLimit)
  IN
  IF \/ ~hasCursor /\ page < 1
     \/ limit < 1
     \/ hasCursor /\ ~pageParam.empty
  THEN Refused
  ELSE CreatePagination(page, limit, hasCursor, ~pageParam.given)

(* PaginationPipe.transform *)
Transform(pageParam, limitParam, hasCursor) ==
  LET page == Number(pageParam, 1)
      limit == Number(limitParam, DefaultLimit)
  IN
  IF \/ ~hasCursor /\ page < 1
     \/ limit < 1 \/ limit > MaxLimit
     \/ hasCursor /\ ~pageParam.empty
  THEN Refused
  ELSE CreatePagination(page, limit, hasCursor, ~pageParam.given)

-----------------------------------------------------------------------------
(* The rows in order, and the ones a cursor leaves *)

Fields == {"id", "value"}
Directions == {"asc", "desc"}
Less(dir, a, b) == IF dir = "asc" THEN a < b ELSE a > b

(* orderBy: the sort field, then the cursor field. *)
Before(by, dir, i, j) ==
  IF by = "value" /\ value[i] # value[j] THEN Less(dir, value[i], value[j])
                                         ELSE Less(dir, i, j)
Sorted(S, by, dir) ==
  CHOOSE s \in [1..Cardinality(S) -> S] :
    \A m, n \in 1..Cardinality(S) : m < n => Before(by, dir, s[m], s[n])

(* Fault: the condition compares the sort field only. *)
BeyondNoTie(c, by, dir, i) ==
  IF by = "value" THEN Less(dir, c.value, value[i]) ELSE Less(dir, c.id, i)

(* Fault: the row of the cursor is taken in. *)
BeyondOrAt(c, by, dir, i) ==
  IF by = "value"
    THEN Less(dir, c.value, value[i]) \/ (value[i] = c.value /\ ~Less(dir, i, c.id))
    ELSE ~Less(dir, i, c.id)

(* keysetWhere: past the sort value, or at it and past the cursor value. *)
Beyond(c, by, dir, i) ==
  IF by = "value"
    THEN Less(dir, c.value, value[i]) \/ (value[i] = c.value /\ Less(dir, c.id, i))
    ELSE Less(dir, c.id, i)

(* A decoded cursor.  Old clients send plain ids, without a value. *)
Cursors == [value : Values \cup {None}, id : Ids]
Matching(w) == IF w.cursor = None THEN rows
               ELSE {i \in rows : Beyond(w.cursor, w.by, w.dir, i)}

Modes == {"none", "refused", "keyset", "keysetDone", "offset", "count", "offsetDone"}
Walk(mode, by, dir, limit, page, cursor) ==
  [limit |-> limit, mode |-> mode, page |-> page, by |-> by, dir |-> dir,
   cursor |-> cursor]
NoWalk == Walk("none", "id", "asc", 1, 1, None)

Init ==
  /\ value \in [Ids -> Values]
  /\ rows \in SUBSET Ids /\ used = rows /\ changes = 0
  /\ walk = NoWalk /\ asked = 1 /\ shown = <<>> /\ kept = {} /\ quiet = TRUE

(* The first request.  A plain token is refused when rows are not sorted by
   the cursor field. *)
Begin ==
  /\ walk.mode = "none"
  /\ \E page, limit \in Params, by \in Fields, dir \in Directions,
        cursor \in {None} \cup [value : {None}, id : Ids] :
       LET q == Transform(page, limit, cursor # None)
           first == Walk(IF q.mode = "cursor" THEN "keyset" ELSE q.mode,
                         by, dir, q.limit, q.page, cursor)
           refused == q.mode = "refused" \/ (cursor # None /\ by # "id")
       IN
       /\ q.page = 1
       /\ walk' = IF refused THEN Walk("refused", by, dir, 1, 1, None) ELSE first
       /\ kept' = IF refused THEN {} ELSE Matching(first)
       /\ asked' = AsksFor(limit)
  /\ UNCHANGED <<table, shown, quiet>>

(* findMany takes one row more than the page. *)
Take(left, limit) ==
  [data |-> SubSeq(left, 1, IF Len(left) > limit THEN limit ELSE Len(left)),
   hasNext |-> Len(left) > limit]

(* mode cursor: the client goes on with nextCursor until there is none. *)
KeysetPage ==
  LET w == walk
      page == Take(Sorted(Matching(w), w.by, w.dir), w.limit)
      last == page.data[Len(page.data)]
  IN
  /\ w.mode = "keyset"
  /\ shown' = shown \o page.data
  /\ walk' = IF page.hasNext
               THEN Walk("keyset", w.by, w.dir, w.limit, w.page,
                         [value |-> value[last], id |-> last])
               ELSE Walk("keysetDone", w.by, w.dir, w.limit, w.page, w.cursor)
  /\ UNCHANGED <<table, asked, kept, quiet>>

(* Fault: skip counts the page itself. *)
SkipPages(page, limit) == page * limit
Skip(page, limit) == (page - 1) * limit

(* mode offset: findMany with skip and take, *)
OffsetPage ==
  LET w == walk
      all == Sorted(rows, w.by, w.dir)
      skip == Skip(w.page, w.limit)
      to == skip + w.limit
  IN
  /\ w.mode = "offset"
  /\ shown' = shown \o SubSeq(all, skip + 1, IF to > Len(all) THEN Len(all) ELSE to)
  /\ walk' = Walk("count", w.by, w.dir, w.limit, w.page, None)
  /\ UNCHANGED <<table, asked, kept, quiet>>

(* Fault: rounded down, and one more. *)
TotalPagesFloor(total, limit) == (total \div limit) + 1
TotalPages(total, limit) == (total + limit - 1) \div limit

(* then count: the client goes on while page < totalPages. *)
OffsetCount ==
  LET w == walk IN
  /\ w.mode = "count"
  /\ walk' = IF w.page < TotalPages(Cardinality(rows), w.limit)
               THEN Walk("offset", w.by, w.dir, w.limit, w.page + 1, None)
               ELSE Walk("offsetDone", w.by, w.dir, w.limit, w.page, None)
  /\ UNCHANGED <<table, asked, shown, kept, quiet>>

(* Other requests. *)
Changed ==
  /\ changes < MaxChanges
  /\ changes' = changes + 1
  /\ quiet' = (walk.mode = "none")
  /\ UNCHANGED <<value, walk, asked, shown>>
Insert(i) ==
  /\ Changed /\ i \notin used
  /\ rows' = rows \cup {i} /\ used' = used \cup {i}
  /\ UNCHANGED kept
Delete(i) ==
  /\ Changed /\ i \in rows
  /\ rows' = rows \ {i} /\ kept' = kept \ {i}
  /\ UNCHANGED used

Next ==
  \/ Begin \/ KeysetPage \/ OffsetPage \/ OffsetCount
  \/ \E i \in Ids : Insert(i) \/ Delete(i)

Spec == Init /\ [][Next]_vars

-----------------------------------------------------------------------------
(* Types; the page asked for is never past the rows there can be. *)
TypeOK ==
  /\ value \in [Ids -> Values] /\ rows \subseteq used /\ used \subseteq Ids
  /\ changes \in 0..MaxChanges
  /\ walk \in [limit : 1..MaxLimit, mode : Modes, page : 1..(1 + Cardinality(Ids)),
               by : Fields, dir : Directions, cursor : {None} \cup Cursors]
  /\ walk.page <= Cardinality(Ids) \/ walk.page = 1
  /\ shown \in Seq(Ids) /\ kept \subseteq rows /\ quiet \in BOOLEAN

(* A walk by cursor shows the rows in order and none twice, whatever is
   inserted and deleted between its pages. *)
KeysetOrdered ==
  walk.mode \in {"keyset", "keysetDone"} =>
    \A m, n \in 1..Len(shown) : m < n => Before(walk.by, walk.dir, shown[m], shown[n])

(* A walk by cursor that has ended has shown every row that was there from
   its beginning to its end: no tie of sort values across two pages, and no
   deleted cursor row, hides one. *)
KeysetComplete ==
  walk.mode = "keysetDone" => kept \subseteq Range(shown)

(* A walk by page number over a table at rest shows every row once, in order.
   It promises nothing more: a change shifts its pages. *)
OffsetComplete ==
  walk.mode \in {"offset", "count", "offsetDone"} /\ quiet =>
    /\ IsPrefix(shown, Sorted(rows, walk.by, walk.dir))
    /\ walk.mode = "offsetDone" => Len(shown) = Cardinality(rows)

(* No page but the last is shorter or longer than the limit the client asked
   for, and a limit below 0 or above the maximum is refused: the pipe accepts
   none that createPagination then cuts.  The limit 0, and a text that is no
   number, is neither: the pipe takes it for no limit given, although
   pagination.json:3 and the @Min(1) of pagination.dto.ts refuse it. *)
FullPages ==
  /\ asked \notin 0..MaxLimit => shown = <<>>
  /\ asked # 0 =>
       /\ walk.mode = "keyset" => Len(shown) % asked = 0
       /\ walk.mode = "offset" /\ quiet => Len(shown) = (walk.page - 1) * asked
=============================================================================
