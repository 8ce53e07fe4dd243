---------------------------- MODULE PagesProofs ----------------------------
(***************************************************************************)
(* The audit log on its screen, for any number of writers, rows, pages and *)
(* mutations: what is proved of Pages.                                     *)
(*                                                                         *)
(* The argument: ids are given out under SQLite's write lock, so that a    *)
(* row that comes is above every row that came before (Appending, Grows).  *)
(* What a page said of the log when it was read then stays true (PageOf,   *)
(* PageStays), and as long as nothing is fetched again each page goes on   *)
(* where the one before it ended (Chained).  The list is put together by   *)
(* recursion over the pages, and shown in order and without gaps by        *)
(* induction over them (PageJoins, ListInOrder).                           *)
(***************************************************************************)
EXTENDS Pages, Inductions, SequenceTheorems, FiniteSetTheorems

-----------------------------------------------------------------------------
\* The newest rows.

\* The rows above one.
Newer(rows, id) == {newer \in rows : newer > id}

\* Numbers up to a bound are finitely many.
LEMMA NumbersUpTo ==
    ASSUME NEW M \in Nat, NEW rows \in SUBSET (0 .. M)
    PROVE  rows \in SUBSET Nat /\ IsFiniteSet(rows)
  <1>1. IsFiniteSet(0 .. M)
    <2>1. 0 \in Int /\ M \in Int
      OBVIOUS
    <2>. QED BY <2>1, FS_Interval
  <1>2. IsFiniteSet(rows)
    BY <1>1, FS_Subset
  <1>. QED BY <1>2

\* How many rows are newer tells rows apart, and orders them.
LEMMA NewerCounts ==
    ASSUME NEW rows \in SUBSET Nat, IsFiniteSet(rows), NEW a \in rows
    PROVE  /\ IsFiniteSet(Newer(rows, a)) /\ Cardinality(Newer(rows, a)) \in Nat
           /\ Cardinality(rows) \in Nat
           /\ Cardinality(Newer(rows, a)) < Cardinality(rows)
           /\ \A b \in rows : a < b => Cardinality(Newer(rows, b)) < Cardinality(Newer(rows, a))
  <1>1. /\ \A b \in rows : IsFiniteSet(Newer(rows, b)) /\ Cardinality(Newer(rows, b)) \in Nat
        /\ Cardinality(rows) \in Nat
    BY FS_Subset, FS_CardinalityType DEF Newer
  <1>2. ASSUME NEW b \in rows, NEW S \in SUBSET rows, Newer(rows, b) \cup {b} \subseteq S
        PROVE  Cardinality(Newer(rows, b)) < Cardinality(S)
    <2>1. Cardinality(Newer(rows, b) \cup {b}) = Cardinality(Newer(rows, b)) + 1
      <3>1. b \notin Newer(rows, b)
        BY DEF Newer
      <3>. QED BY <1>1, <3>1, FS_AddElement
    <2>2. IsFiniteSet(S) /\ Cardinality(Newer(rows, b) \cup {b}) <= Cardinality(S)
      BY <1>2, FS_Subset
    <2>3. Cardinality(S) \in Nat
      BY <2>2, FS_CardinalityType
    <2>. QED BY <1>1, <2>1, <2>2, <2>3
  <1>3. Cardinality(Newer(rows, a)) < Cardinality(rows)
    <2>1. Newer(rows, a) \cup {a} \subseteq rows
      BY DEF Newer
    <2>. QED BY <1>2, <2>1
  <1>4. ASSUME NEW b \in rows, a < b
        PROVE  Cardinality(Newer(rows, b)) < Cardinality(Newer(rows, a))
    <2>1. ASSUME NEW e \in Newer(rows, b) \cup {b}
          PROVE  e \in Newer(rows, a)
      <3>1. e \in rows /\ (e = b \/ e > b)
        BY DEF Newer
      <3>2. e \in Nat /\ a \in Nat /\ b \in Nat
        BY <3>1
      <3>3. e > a
        BY <1>4, <3>1, <3>2
      <3>. QED BY <3>1, <3>3 DEF Newer
    <2>2. Newer(rows, a) \subseteq rows
      BY DEF Newer
    <2>. QED BY <1>2, <2>1, <2>2
  <1>. QED BY <1>1, <1>3, <1>4

\* For every number below the count there is a row with so many newer ones.
LEMMA NewestExist ==
    ASSUME NEW M \in Nat, NEW rows \in SUBSET (0 .. M),
           NEW k \in Nat, k < Cardinality(rows)
    PROVE  \E id \in rows : Cardinality(Newer(rows, id)) = k
  <1>1. rows \in SUBSET Nat /\ IsFiniteSet(rows)
    BY NumbersUpTo
  <1>. DEFINE n == Cardinality(rows) - 1
              A == {i \in 0 .. n : \E id \in rows : Cardinality(Newer(rows, id)) = i}
  <1>2. Cardinality(rows) \in Nat /\ n \in Nat /\ k \in 0 .. n
    BY <1>1, FS_CardinalityType
  <1>3. 0 \in A
    <2>1. rows # {}
      BY <1>2, FS_EmptySet
    <2>2. PICK id \in rows : \A m \in rows : m <= id
      BY <2>1, GreatestNumber
    <2>3. Newer(rows, id) = {}
      <3>1. ASSUME NEW m \in rows PROVE ~(m > id)
        <4>1. m \in Nat /\ id \in Nat /\ m <= id
          BY <1>1, <2>2
        <4>. QED BY <4>1
      <3>. QED BY <3>1 DEF Newer
    <2>4. Cardinality(Newer(rows, id)) = 0
      BY <2>3, FS_EmptySet
    <2>. QED BY <1>2, <2>4
  <1>4. ASSUME NEW i \in 1 .. n, i - 1 \in A
        PROVE  i \in A
    <2>. HIDE DEF n
    <2>1. PICK id \in rows : Cardinality(Newer(rows, id)) = i - 1
      BY <1>4
    <2>. DEFINE older == {m \in rows : m < id}
                upto == Newer(rows, id) \cup {id}
    <2>2. IsFiniteSet(Newer(rows, id)) /\ id \notin Newer(rows, id)
      BY <1>1, NewerCounts DEF Newer
    <2>3. Cardinality(upto) = i
      <3>1. Cardinality(upto) = (i - 1) + 1
        BY <2>1, <2>2, FS_AddElement
      <3>. QED BY <3>1
    <2>4. older # {}
      <3>. SUFFICES ASSUME older = {} PROVE FALSE
        OBVIOUS
      <3>1. ASSUME NEW m \in rows PROVE m \in upto
        <4>1. m \in Nat /\ id \in Nat /\ ~(m < id)
          BY <1>1
        <4>2. m = id \/ m > id
          BY <4>1
        <4>. QED BY <4>2 DEF Newer
      <3>3. rows = upto
        BY <3>1 DEF Newer
      <3>2. Cardinality(rows) = i
        BY <2>3, <3>3
      <3>. QED BY <1>2, <3>2 DEF n
    <2>5. older \in SUBSET (0 .. M)
      OBVIOUS
    <2>6. PICK m \in older : \A o \in older : o <= m
      <3>. HIDE DEF older
      <3>. QED BY <2>4, <2>5, GreatestNumber
    <2>9. m \in rows /\ m < id /\ m \in Nat /\ id \in Nat
      BY <1>1
    <2>10. ASSUME NEW e \in rows
           PROVE  e > m <=> e = id \/ e > id
      <3>1. e \in Nat /\ (e < id => e <= m)
        BY <1>1, <2>6
      <3>. HIDE DEF older, upto
      <3>. QED BY <2>9, <3>1
    <2>7. Newer(rows, m) = upto /\ m \in rows
      <3>. HIDE DEF older
      <3>. QED BY <2>9, <2>10 DEF Newer
    <2>8. i \in 0 .. n
      OBVIOUS
    <2>. HIDE DEF upto, older
    <2>. QED BY <2>3, <2>7, <2>8
  <1>. HIDE DEF A
  <1>5. k \in A
    BY <1>2, <1>3, <1>4, UpToBySteps
  <1>. QED BY <1>5 DEF A

\* What is listed: the newest rows below the cursor, so many of them, in order.
Listing(list, rows, limit) ==
    /\ list \in Seq(rows) /\ Len(list) \in Nat
    /\ Len(list) <= limit
    /\ \A i, j \in 1 .. Len(list) : i < j => list[i] > list[j]
    /\ \A k \in 1 .. Len(list) : \A id \in rows :
          id >= list[k] => \E j \in 1 .. k : list[j] = id
    /\ Len(list) < limit => \A id \in rows : \E j \in 1 .. Len(list) : list[j] = id

\* DBListAuditLog lists so.
LEMMA ListingFacts ==
    ASSUME NEW M \in Nat, DOMAIN log \subseteq 0 .. M, NEW before, NEW limit \in Nat
    PROVE  Listing(DBListAuditLog(before, limit), Below(before), limit)
  <1>. DEFINE rows == Below(before)
              count == Cardinality(rows)
              n == IF limit < count THEN limit ELSE count
              list == DBListAuditLog(before, limit)
  <1>1. rows \in SUBSET (0 .. M) /\ rows \in SUBSET Nat /\ IsFiniteSet(rows)
    <2>1. rows \in SUBSET (0 .. M)
      BY DEF Below
    <2>. HIDE DEF rows
    <2>. QED BY <2>1, NumbersUpTo
  <1>2. list = [k \in 1 .. n |-> CHOOSE id \in rows : Cardinality(Newer(rows, id)) = k - 1]
    BY DEF DBListAuditLog, Newer
  <1>. HIDE DEF rows, list
  <1>3. count \in Nat /\ n \in Nat /\ n <= limit /\ n <= count /\ (n < limit => n = count)
    BY <1>1, FS_CardinalityType
  <1>4. ASSUME NEW k \in 1 .. n
        PROVE  list[k] \in rows /\ Cardinality(Newer(rows, list[k])) = k - 1
    <2>1. k - 1 \in Nat /\ k - 1 < count
      BY <1>3
    <2>2. \E id \in rows : Cardinality(Newer(rows, id)) = k - 1
      BY <1>1, <2>1, NewestExist
    <2>. QED BY <1>2, <2>2
  <1>. HIDE DEF n
  <1>5. list \in Seq(rows) /\ Len(list) = n
    <2>1. list \in [1 .. n -> rows]
      BY <1>2, <1>4
    <2>. QED BY <1>3, <2>1, IsASeq
  <1>6. ASSUME NEW i \in 1 .. n, NEW j \in 1 .. n, i < j
        PROVE  list[i] > list[j]
    <2>1. list[i] \in Nat /\ list[j] \in Nat /\ list[i] \in rows /\ list[j] \in rows
      BY <1>1, <1>4
    <2>2. list[i] # list[j]
      BY <1>3, <1>4, <1>6
    <2>4. list[i] < list[j] => Cardinality(Newer(rows, list[j])) < Cardinality(Newer(rows, list[i]))
      BY <1>1, <2>1, NewerCounts
    <2>3. ~(list[i] < list[j])
      <3>. DEFINE a == Cardinality(Newer(rows, list[i]))
                  b == Cardinality(Newer(rows, list[j]))
      <3>1. a = i - 1 /\ b = j - 1 /\ i \in Int /\ j \in Int
        BY <1>3, <1>4
      <3>2. ~(b < a)
        <4>. HIDE DEF a, b
        <4>. QED BY <1>6, <3>1
      <3>. QED BY <2>4, <3>2
    <2>. QED BY <2>1, <2>2, <2>3
  <1>7. ASSUME NEW id \in rows, NEW r \in 1 .. n, Cardinality(Newer(rows, id)) = r - 1
        PROVE  list[r] = id
    <2>1. list[r] \in rows /\ Cardinality(Newer(rows, list[r])) = r - 1 /\ r - 1 \in Nat
      BY <1>3, <1>4
    <2>4. /\ list[r] < id => Cardinality(Newer(rows, id)) < Cardinality(Newer(rows, list[r]))
          /\ id < list[r] => Cardinality(Newer(rows, list[r])) < Cardinality(Newer(rows, id))
      BY <1>1, <2>1, NewerCounts
    <2>2. ~(list[r] < id) /\ ~(id < list[r])
      BY <1>7, <2>1, <2>4
    <2>3. id \in Nat /\ list[r] \in Nat
      BY <1>1, <2>1
    <2>. QED BY <2>2, <2>3
  <1>8. ASSUME NEW k \in 1 .. n, NEW id \in rows, id >= list[k]
        PROVE  \E j \in 1 .. k : list[j] = id
    <2>. DEFINE r == Cardinality(Newer(rows, id)) + 1
    <2>0. Cardinality(Newer(rows, id)) \in Nat
      BY <1>1, NewerCounts
    <2>1. Cardinality(Newer(rows, id)) <= k - 1
      <3>1. list[k] \in rows /\ list[k] \in Nat /\ id \in Nat /\ Cardinality(Newer(rows, list[k])) = k - 1
        BY <1>1, <1>4
      <3>2. CASE id = list[k]
        BY <3>1, <3>2
      <3>3. CASE list[k] < id
        <4>1. Cardinality(Newer(rows, id)) < Cardinality(Newer(rows, list[k]))
          BY <1>1, <3>1, <3>3, NewerCounts
        <4>. QED BY <1>3, <2>0, <3>1, <4>1
      <3>. QED BY <1>8, <3>1, <3>2, <3>3
    <2>2. r \in 1 .. k /\ r \in 1 .. n /\ Cardinality(Newer(rows, id)) = r - 1
      BY <1>3, <2>0, <2>1
    <2>. HIDE DEF r
    <2>3. list[r] = id
      BY <1>7, <2>2
    <2>. QED BY <2>2, <2>3
  <1>9. ASSUME n < limit, NEW id \in rows
        PROVE  \E j \in 1 .. n : list[j] = id
    <2>. DEFINE r == Cardinality(Newer(rows, id)) + 1
    <2>1. Cardinality(Newer(rows, id)) \in Nat /\ Cardinality(Newer(rows, id)) < count
      BY <1>1, NewerCounts
    <2>2. r \in 1 .. n /\ Cardinality(Newer(rows, id)) = r - 1
      BY <1>3, <1>9, <2>1
    <2>. HIDE DEF r
    <2>3. list[r] = id
      BY <1>7, <2>2
    <2>. QED BY <2>2, <2>3
  <1>10. Listing(list, rows, limit)
    BY <1>3, <1>5, <1>6, <1>8, <1>9 DEF Listing
  <1>. QED BY <1>10 DEF list, rows
-----------------------------------------------------------------------------
\* The inductive invariant.

\* Ids up to here are in the log, or were; the one above it, if there is one, is of
\* the row that the holder of the lock inserts.
Committed == IF lock = 0 THEN sequence ELSE sequence - 1

Appending ==
    /\ sequence \in Nat /\ DOMAIN writer = Writers
    /\ lock # 0 => /\ lock \in Writers /\ writer[lock].step = "inserting"
                   /\ writer[lock].id = sequence /\ sequence >= 1
    /\ \A w \in Writers : writer[w].step = "inserting" => lock = w
    /\ DOMAIN log \subseteq 1 .. Committed

Descending(s) == \A i, j \in 1 .. Len(s) : i < j => s[i] > s[j]

\* No row is passed over between the first and the last.
Gapless(s, rows) ==
    s # <<>> => \A id \in rows :
                   id <= s[1] /\ id >= s[Len(s)] => \E j \in 1 .. Len(s) : s[j] = id

\* What a page that was read after this cursor says of the log, then and later.
PageOf(b, page, rows, upto) ==
    /\ b \in 0 .. upto
    /\ page.nodes \in Seq(1 .. upto) /\ Descending(page.nodes) /\ Gapless(page.nodes, rows)
    /\ page.has_next \in BOOLEAN
    /\ page.end_cursor = IF page.nodes = <<>> THEN 0 ELSE page.nodes[Len(page.nodes)]
    /\ b # 0 => /\ \A i \in 1 .. Len(page.nodes) : page.nodes[i] < b
                /\ page.nodes # <<>> =>
                      \A id \in rows : id < b /\ id >= page.end_cursor =>
                          \E j \in 1 .. Len(page.nodes) : page.nodes[j] = id
    /\ page.has_next => page.nodes # <<>>
    /\ ~page.has_next =>
          \A id \in rows : id >= (IF page.nodes = <<>> THEN b ELSE page.end_cursor)

Pending == fetch.stage \in {"asked", "read"}

Showing ==
    /\ size \in PageSizes
    /\ cursors \in Seq(0 .. Committed) /\ Len(cursors) \in Nat \ {0}
    /\ \A b \in DOMAIN pages : PageOf(b, pages[b], DOMAIN log, Committed)
    /\ fetch = [stage |-> fetch.stage, before |-> fetch.before, page |-> fetch.page]
    /\ Pending => fetch.before \in 0 .. Committed
    /\ fetch.stage = "read" => PageOf(fetch.before, fetch.page, DOMAIN log, Committed)

\* As long as nothing was fetched again, each page goes on where the one before
\* ended, and only the last is still to be fetched.
Chained ==
    ~refetched =>
        /\ \A i \in 1 .. Len(cursors) - 1 :
              /\ cursors[i] \in DOMAIN pages
              /\ pages[cursors[i]].has_next
              /\ cursors[i + 1] = pages[cursors[i]].end_cursor
        /\ Pending => /\ fetch.before = cursors[Len(cursors)]
                      /\ fetch.before \notin DOMAIN pages

PInv == Appending /\ Showing /\ Chained

-----------------------------------------------------------------------------
\* Pages.

\* A row that comes later is above every page that was read: what a page says of the
\* log stays true when rows are appended or purged.
LEMMA PageStays ==
    ASSUME NEW upto \in Nat, NEW later \in Nat, upto <= later,
           NEW rows, NEW rows2 \in SUBSET Nat, \A id \in rows2 : id \in rows \/ id > upto,
           NEW b, NEW page, PageOf(b, page, rows, upto)
    PROVE  PageOf(b, page, rows2, later)
  <1>. DEFINE nodes == page.nodes
              n == Len(nodes)
  <1>1. /\ b \in 0 .. upto /\ nodes \in Seq(1 .. upto) /\ Descending(nodes)
        /\ Gapless(nodes, rows) /\ page.has_next \in BOOLEAN
        /\ page.end_cursor = IF nodes = <<>> THEN 0 ELSE nodes[n]
        /\ b # 0 => /\ \A i \in 1 .. n : nodes[i] < b
                    /\ nodes # <<>> => \A id \in rows : id < b /\ id >= page.end_cursor =>
                                          \E j \in 1 .. n : nodes[j] = id
        /\ page.has_next => nodes # <<>>
        /\ ~page.has_next =>
              \A id \in rows : id >= (IF nodes = <<>> THEN b ELSE page.end_cursor)
    BY DEF PageOf
  <1>2. n \in Nat /\ (nodes # <<>> => n >= 1) /\ \A i \in 1 .. n : nodes[i] \in 1 .. upto
    <2>1. n \in Nat
      BY <1>1, LenProperties
    <2>2. nodes # <<>> => n \in Nat \ {0}
      BY <1>1, EmptySeq
    <2>3. \A i \in 1 .. n : nodes[i] \in 1 .. upto
      BY <1>1, ElementOfSeq
    <2>. QED BY <2>1, <2>2, <2>3
  <1>. HIDE DEF nodes, n
  <1>3. b \in 0 .. later /\ nodes \in Seq(1 .. later)
    <2>1. b \in 0 .. later /\ 1 .. upto \subseteq 1 .. later
      BY <1>1
    <2>. QED BY <1>1, <2>1, SeqMonotonic
  <1>4. ASSUME nodes # <<>>, NEW id \in rows2, id <= nodes[1], id >= nodes[n]
        PROVE  \E j \in 1 .. n : nodes[j] = id
    <2>1. id \in Nat /\ nodes[1] \in 1 .. upto
      BY <1>2, <1>4
    <2>2. id \in rows
      BY <1>4, <2>1
    <2>. QED BY <1>1, <1>4, <2>2 DEF Gapless, n
  <1>5. ASSUME b # 0, nodes # <<>>, NEW id \in rows2, id < b, id >= page.end_cursor
        PROVE  \E j \in 1 .. n : nodes[j] = id
    <2>1. id \in Nat /\ b \in Nat /\ b <= upto
      BY <1>1
    <2>2. id \in rows
      BY <1>5, <2>1
    <2>. QED BY <1>1, <1>5, <2>2
  <1>6. ASSUME ~page.has_next, NEW id \in rows2
        PROVE  id >= (IF nodes = <<>> THEN b ELSE page.end_cursor)
    <2>1. CASE id \in rows
      BY <1>1, <1>6, <2>1
    <2>2. CASE id > upto
      <3>1. id \in Nat /\ b \in 0 .. upto /\ (nodes # <<>> => page.end_cursor \in 1 .. upto)
        BY <1>1, <1>2
      <3>. QED BY <2>2, <3>1
    <2>. QED BY <2>1, <2>2
  <1>7. Gapless(nodes, rows2)
    BY <1>4 DEF Gapless, n
  <1>. QED BY <1>1, <1>3, <1>5, <1>6, <1>7 DEF PageOf, nodes, n

\* The limit is a number from 1.
LEMMA ClampBounds ==
    ASSUME NEW asked \in Int
    PROVE  Clamp(asked) \in Nat \ {0}
  BY PagesAssumption DEF Clamp

\* What listauditlog.Resolve reads is a page of the log as it is.
LEMMA ReadPage ==
    ASSUME NEW upto \in Nat, DOMAIN log \subseteq 1 .. upto, NEW b \in 0 .. upto,
           size \in PageSizes
    PROVE  PageOf(b, ListAuditLog(b), DOMAIN log, upto)
  <1>. DEFINE limit == Clamp(size)
              rows == DBListAuditLog(b, limit + 1)
              n == IF limit < Len(rows) THEN limit ELSE Len(rows)
              nodes == SubSeq(rows, 1, n)
              page == ListAuditLog(b)
  <1>1. /\ page.nodes = nodes /\ page.has_next = (Len(rows) > limit)
        /\ page.end_cursor = IF nodes = <<>> THEN 0 ELSE nodes[Len(nodes)]
    BY DEF ListAuditLog
  <1>2. limit \in Nat /\ limit >= 1
    <2>1. size \in Int
      BY PagesAssumption
    <2>2. limit \in Nat \ {0}
      BY <2>1, ClampBounds
    <2>. HIDE DEF limit
    <2>. QED BY <2>2
  <1>. HIDE DEF limit
  <1>3. Listing(rows, Below(b), limit + 1)
    <2>1. DOMAIN log \subseteq 0 .. upto /\ limit + 1 \in Nat
      BY <1>2
    <2>. QED BY <2>1, ListingFacts
  <1>. HIDE DEF rows, page
  <1>4. Below(b) \subseteq 1 .. upto /\ Below(b) \subseteq DOMAIN log
    BY DEF Below
  <1>5. /\ rows \in Seq(1 .. upto) /\ Len(rows) \in Nat /\ Len(rows) <= limit + 1
        /\ \A i \in 1 .. Len(rows) : rows[i] \in Below(b) /\ rows[i] \in 1 .. upto
        /\ \A i, j \in 1 .. Len(rows) : i < j => rows[i] > rows[j]
        /\ \A k \in 1 .. Len(rows) : \A id \in Below(b) :
              id >= rows[k] => \E j \in 1 .. k : rows[j] = id
        /\ Len(rows) < limit + 1 => \A id \in Below(b) : \E j \in 1 .. Len(rows) : rows[j] = id
    <2>1. rows \in Seq(Below(b))
      BY <1>3 DEF Listing
    <2>2. rows \in Seq(1 .. upto)
      BY <1>4, <2>1, SeqMonotonic
    <2>3. \A i \in 1 .. Len(rows) : rows[i] \in Below(b)
      BY <2>1, ElementOfSeq
    <2>. QED BY <1>3, <1>4, <2>2, <2>3 DEF Listing
  <1>6. n \in Nat /\ n <= Len(rows) /\ (~(Len(rows) > limit) => n = Len(rows))
    BY <1>2, <1>5
  <1>7. n = 0 => Len(rows) = 0
    BY <1>2, <1>5
  <1>. HIDE DEF n
  <1>8. /\ nodes \in Seq(1 .. upto) /\ Len(nodes) = n
        /\ \A i \in 1 .. n : nodes[i] = rows[i]
    <2>1. \A i \in 1 .. n : rows[i] \in 1 .. upto
      BY <1>5, <1>6
    <2>2. /\ nodes \in Seq(1 .. upto)
          /\ Len(nodes) = IF 1 <= n THEN n - 1 + 1 ELSE 0
          /\ \A i \in 1 .. n - 1 + 1 : nodes[i] = rows[1 + i - 1]
      <3>1. 1 \in Int /\ n \in Int
        BY <1>6
      <3>. QED BY <2>1, <3>1, SubSeqProperties
    <2>3. Len(nodes) = n
      BY <1>6, <2>2
    <2>4. ASSUME NEW i \in 1 .. n PROVE nodes[i] = rows[i]
      <3>1. i \in 1 .. n - 1 + 1 /\ 1 + i - 1 = i
        BY <1>6
      <3>. QED BY <2>2, <3>1
    <2>. QED BY <2>2, <2>3, <2>4
  <1>. HIDE DEF nodes
  <1>9. nodes # <<>> <=> n >= 1
    <2>1. nodes # <<>> => Len(nodes) \in Nat \ {0}
      BY <1>8, EmptySeq
    <2>2. nodes = <<>> => Len(nodes) = 0
      BY EmptySeq
    <2>. QED BY <1>6, <1>8, <2>1, <2>2
  <1>19. ASSUME NEW i \in 1 .. n
         PROVE  i \in 1 .. Len(rows) /\ nodes[i] = rows[i] /\ nodes[i] \in Below(b)
    <2>1. i \in 1 .. Len(rows)
      BY <1>5, <1>6
    <2>2. nodes[i] = rows[i]
      BY <1>8
    <2>3. rows[i] \in Below(b)
      BY <1>5, <2>1
    <2>. QED BY <2>1, <2>2, <2>3
  <1>10. Descending(nodes)
    <2>. SUFFICES ASSUME NEW i \in 1 .. n, NEW j \in 1 .. n, i < j
                  PROVE  nodes[i] > nodes[j]
      BY <1>8 DEF Descending
    <2>1. rows[i] > rows[j]
      BY <1>5, <1>19
    <2>. QED BY <1>19, <2>1
  <1>11. ASSUME NEW id \in Below(b), n >= 1, id >= nodes[n]
         PROVE  \E j \in 1 .. n : nodes[j] = id
    <2>1. n \in 1 .. Len(rows) /\ n \in 1 .. n /\ nodes[n] = rows[n]
      BY <1>5, <1>6, <1>8, <1>11
    <2>2. PICK j \in 1 .. n : rows[j] = id
      BY <1>5, <1>11, <2>1
    <2>. QED BY <1>8, <2>2
  <1>12. ASSUME NEW id \in DOMAIN log, n >= 1, b = 0 \/ id < b, id >= nodes[n]
         PROVE  \E j \in 1 .. n : nodes[j] = id
    <2>1. id \in Below(b)
      BY <1>12 DEF Below
    <2>. QED BY <1>11, <1>12, <2>1
  <1>13. ASSUME b # 0, NEW i \in 1 .. n
         PROVE  nodes[i] < b
    <2>1. nodes[i] \in Below(b)
      BY <1>19
    <2>. QED BY <1>13, <2>1 DEF Below
  <1>14. Gapless(nodes, DOMAIN log)
    <2>. SUFFICES ASSUME nodes # <<>>, NEW id \in DOMAIN log, id <= nodes[1], id >= nodes[n]
                  PROVE  \E j \in 1 .. n : nodes[j] = id
      BY <1>8 DEF Gapless
    <2>1. n >= 1 /\ 1 \in 1 .. n
      BY <1>6, <1>9
    <2>2. b = 0 \/ id < b
      <3>1. nodes[1] \in 1 .. upto /\ id \in 1 .. upto
        BY <1>5, <1>6, <1>8, <2>1
      <3>2. b # 0 => nodes[1] < b
        BY <1>13, <2>1
      <3>. QED BY <3>1, <3>2
    <2>. QED BY <1>12, <2>1, <2>2
  <1>15. ASSUME ~(Len(rows) > limit), NEW id \in DOMAIN log
         PROVE  id >= (IF nodes = <<>> THEN b ELSE nodes[n])
    <2>0. id \in 1 .. upto
      OBVIOUS
    <2>1. CASE id \in Below(b)
      <3>1. PICK j \in 1 .. Len(rows) : rows[j] = id
        BY <1>2, <1>5, <1>15, <2>1
      <3>2. n = Len(rows) /\ n >= 1 /\ j \in 1 .. n /\ n \in 1 .. n
        BY <1>5, <1>6, <1>15
      <3>3. nodes[j] = id /\ nodes[n] \in 1 .. upto
        BY <1>5, <1>6, <1>8, <3>1, <3>2
      <3>6. n \in Nat /\ j <= n
        BY <1>6, <3>2
      <3>4. j < n => nodes[j] > nodes[n]
        BY <1>8, <1>10, <3>2 DEF Descending
      <3>5. id >= nodes[n]
        BY <2>0, <3>3, <3>4, <3>6
      <3>. QED BY <1>9, <3>2, <3>5
    <2>2. CASE id \notin Below(b)
      <3>1. b # 0 /\ id >= b
        BY <2>0, <2>2 DEF Below
      <3>2. nodes # <<>> => nodes[n] < b /\ nodes[n] \in 1 .. upto
        BY <1>5, <1>6, <1>8, <1>9, <1>13, <3>1
      <3>. QED BY <2>0, <3>1, <3>2
    <2>. QED BY <2>1, <2>2
  <1>16. Len(rows) > limit => nodes # <<>>
    <2>. SUFFICES ASSUME Len(rows) > limit PROVE n >= 1
      BY <1>9
    <2>. QED BY <1>2, <1>5, <1>6, <1>7
  <1>17. (Len(rows) > limit) \in BOOLEAN
    OBVIOUS
  <1>18. PageOf(b, page, DOMAIN log, upto)
    <2>1. page.end_cursor = IF nodes = <<>> THEN 0 ELSE nodes[n]
      BY <1>1, <1>8 DEF nodes
    <2>2. page.nodes = nodes /\ page.has_next = (Len(rows) > limit) /\ Len(nodes) = n
      BY <1>1, <1>8 DEF nodes
    <2>3. b # 0 => /\ \A i \in 1 .. n : nodes[i] < b
                   /\ nodes # <<>> => \A id \in DOMAIN log : id < b /\ id >= page.end_cursor =>
                                         \E j \in 1 .. n : nodes[j] = id
      BY <1>9, <1>12, <1>13, <2>1
    <2>4. ~page.has_next => \A id \in DOMAIN log :
             id >= (IF nodes = <<>> THEN b ELSE page.end_cursor)
      BY <1>15, <2>1, <2>2
    <2>. QED BY <1>8, <1>10, <1>14, <1>16, <1>17, <2>1, <2>2, <2>3, <2>4 DEF PageOf
  <1>. QED BY <1>18 DEF page

-----------------------------------------------------------------------------
\* The steps of the log.

CommittedNumber == Committed \in Nat /\ DOMAIN log \in SUBSET Nat

\* The invariant makes ids numbers.
LEMMA AppendingNumbers ==
    ASSUME Appending
    PROVE  CommittedNumber
  BY DEF Appending, Committed, CommittedNumber

\* What a step does to the rows: those that come are above all that came before.
Grows ==
    /\ Committed <= Committed'
    /\ \A id \in DOMAIN log' : id \in DOMAIN log \/ id > Committed

\* One lemma for each step of the log: the invariant, and that rows come in order.
LEMMA StampAppends ==
    ASSUME Appending, NEW w \in Writers, Stamp(w)
    PROVE  Appending' /\ Grows
  BY DEF Appending, Committed, Grows, Stamp

LEMMA InsertAppends ==
    ASSUME Appending, NEW w \in Writers, Insert(w)
    PROVE  Appending' /\ Grows
  <1>0. w # 0
    BY PagesAssumption
  <1>1. /\ lock = 0 /\ lock' = w /\ sequence' = sequence + 1 /\ log' = log
        /\ DOMAIN writer' = Writers
        /\ writer'[w].step = "inserting" /\ writer'[w].id = sequence + 1
        /\ \A v \in Writers : v # w => writer'[v] = writer[v]
    BY DEF Appending, Insert
  <1>2. Committed' = sequence /\ Committed = sequence
    <2>1. Committed' = sequence' - 1
      BY <1>0, <1>1 DEF Committed
    <2>2. Committed = sequence
      BY <1>1 DEF Committed
    <2>. QED BY <1>1, <2>1, <2>2 DEF Appending
  <1>3. ASSUME NEW v \in Writers, writer'[v].step = "inserting"
        PROVE  lock' = v
    <2>1. v # w => writer[v].step = "inserting" /\ lock = v
      BY <1>1, <1>3 DEF Appending
    <2>2. v # 0
      BY PagesAssumption
    <2>. QED BY <1>1, <2>1, <2>2
  <1>4. sequence \in Nat /\ DOMAIN log \subseteq 1 .. Committed
    BY DEF Appending
  <1>. QED BY <1>1, <1>2, <1>3, <1>4 DEF Appending, Grows

LEMMA CommitAppends ==
    ASSUME Appending, NEW w \in Writers, Commit(w)
    PROVE  Appending' /\ Grows
  <1>0. /\ lock = w /\ w # 0 /\ writer[w].id = sequence /\ sequence \in Nat /\ sequence >= 1
        /\ DOMAIN log \subseteq 1 .. sequence - 1 /\ Committed = sequence - 1
    BY PagesAssumption DEF Appending, Commit, Committed
  <1>1. /\ lock' = 0 /\ sequence' = sequence
        /\ DOMAIN writer' = Writers
        /\ writer'[w].step = "new"
        /\ \A v \in Writers : v # w => writer'[v] = writer[v]
    BY DEF Appending, Commit
  <1>2. Committed' = sequence
    BY <1>1 DEF Committed
  <1>3. DOMAIN log' = {sequence} \cup DOMAIN log
    BY <1>0 DEF Commit
  <1>4. ASSUME NEW v \in Writers, writer'[v].step = "inserting"
        PROVE  FALSE
    <2>1. v # w => writer[v].step = "inserting" /\ lock = v
      BY <1>1, <1>4 DEF Appending
    <2>. QED BY <1>0, <1>1, <1>4, <2>1
  <1>5. DOMAIN log' \subseteq 1 .. Committed'
    BY <1>0, <1>2, <1>3
  <1>6. Grows
    BY <1>0, <1>2, <1>3 DEF Grows
  <1>. QED BY <1>0, <1>1, <1>4, <1>5, <1>6 DEF Appending

LEMMA PurgeAppends ==
    ASSUME Appending, Purge
    PROVE  Appending' /\ Grows
  <1>1. DOMAIN log' \subseteq DOMAIN log /\ UNCHANGED <<sequence, lock, writer>>
    BY DEF Purge
  <1>2. Committed' = Committed
    BY <1>1 DEF Committed
  <1>. QED BY <1>1, <1>2, AppendingNumbers DEF Appending, Grows, CommittedNumber

LEMMA TableUnchangedAppends ==
    ASSUME Appending, UNCHANGED <<log, sequence, lock, writer>>
    PROVE  Appending' /\ Grows
  <1>1. Committed' = Committed
    BY DEF Committed
  <1>. QED BY <1>1, AppendingNumbers DEF Appending, Grows, CommittedNumber

-----------------------------------------------------------------------------
\* The steps of the screen.

ScreenStep == Fetch \/ Read \/ Receive \/ Fail \/ Reopen \/ More \/ Mutation

\* A step of the system is one of the log or one of the screen.
LEMMA NextSteps ==
    ASSUME Appending, [Next]_vars
    PROVE  /\ Appending' /\ Grows
           /\ UNCHANGED screen \/ (ScreenStep /\ UNCHANGED table)
  <1>1. ASSUME NEW w \in Writers, Stamp(w)
        PROVE  Appending' /\ Grows /\ UNCHANGED screen
    BY <1>1, StampAppends DEF Stamp
  <1>2. ASSUME NEW w \in Writers, Insert(w)
        PROVE  Appending' /\ Grows /\ UNCHANGED screen
    BY <1>2, InsertAppends DEF Insert
  <1>3. ASSUME NEW w \in Writers, Commit(w)
        PROVE  Appending' /\ Grows /\ UNCHANGED screen
    BY <1>3, CommitAppends DEF Commit
  <1>4. ASSUME Purge
        PROVE  Appending' /\ Grows /\ UNCHANGED screen
    BY <1>4, PurgeAppends DEF Purge
  <1>5. ASSUME Tick
        PROVE  Appending' /\ Grows /\ UNCHANGED screen
    BY <1>5, TableUnchangedAppends DEF Tick
  <1>6. ASSUME UNCHANGED vars
        PROVE  Appending' /\ Grows /\ UNCHANGED screen
    BY <1>6, TableUnchangedAppends DEF vars, table
  <1>7. ASSUME ScreenStep
        PROVE  Appending' /\ Grows /\ UNCHANGED table
    <2>1. UNCHANGED table
      BY <1>7 DEF ScreenStep, Fetch, Read, Receive, Fail, Reopen, More, Mutation
    <2>. QED BY <2>1, TableUnchangedAppends DEF table
  <1>. QED BY <1>1, <1>2, <1>3, <1>4, <1>5, <1>6, <1>7 DEF Next, ScreenStep

\* Whatever happens to the log, the pages at hand still say the truth.
LEMMA ShowingStays ==
    ASSUME Appending, Appending', Grows, Showing, UNCHANGED screen
    PROVE  Showing'
  <1>. PICK rows, upto : rows = DOMAIN log' /\ upto = Committed'
    OBVIOUS
  <1>1. /\ Committed \in Nat /\ upto \in Nat /\ rows \in SUBSET Nat /\ Committed <= upto
        /\ \A id \in rows : id \in DOMAIN log \/ id > Committed
    <2>1. Committed' \in Nat /\ DOMAIN log' \in SUBSET Nat
      <3>1. /\ sequence' \in Nat /\ (lock' # 0 => sequence' >= 1)
            /\ DOMAIN log' \subseteq 1 .. Committed'
        BY DEF Appending
      <3>2. Committed' = sequence' \/ (lock' # 0 /\ Committed' = sequence' - 1)
        BY DEF Committed
      <3>3. Committed' \in Nat
        BY <3>1, <3>2
      <3>. QED BY <3>1, <3>3
    <2>2. Committed \in Nat
      BY AppendingNumbers DEF CommittedNumber
    <2>3. /\ Committed <= Committed'
          /\ \A id \in DOMAIN log' : id \in DOMAIN log \/ id > Committed
      BY DEF Grows
    <2>. QED BY <2>1, <2>2, <2>3
  <1>2. ASSUME NEW b, NEW page, PageOf(b, page, DOMAIN log, Committed)
        PROVE  PageOf(b, page, rows, upto)
    BY <1>1, <1>2, PageStays
  <1>3. cursors \in Seq(0 .. upto)
    <2>1. 0 .. Committed \subseteq 0 .. upto
      BY <1>1
    <2>. QED BY <2>1, SeqMonotonic DEF Showing
  <1>4. \A b \in DOMAIN pages : PageOf(b, pages[b], rows, upto)
    BY <1>2 DEF Showing
  <1>5. fetch.stage = "read" => PageOf(fetch.before, fetch.page, rows, upto)
    BY <1>2 DEF Showing
  <1>6. Pending => fetch.before \in 0 .. upto
    BY <1>1 DEF Showing
  <1>. QED BY <1>3, <1>4, <1>5, <1>6 DEF Showing, screen, Pending

\* Nor does the log break the chain of the pages.
LEMMA ChainedStays ==
    ASSUME Chained, UNCHANGED screen
    PROVE  Chained'
  BY DEF Chained, screen, Pending

\* The log as it is, for the steps that leave it alone.
Still == DOMAIN log' = DOMAIN log /\ Committed' = Committed

\* A step of the screen leaves it so.
LEMMA TableStill ==
    ASSUME UNCHANGED table
    PROVE  Still
  BY DEF table, Still, Committed

\* The parts of Showing', one by one.
LEMMA ShowingNext ==
    ASSUME Still,
           size' \in PageSizes,
           cursors' \in Seq(0 .. Committed), Len(cursors') \in Nat \ {0},
           \A b \in DOMAIN pages' : PageOf(b, pages'[b], DOMAIN log, Committed),
           fetch' = [stage |-> fetch'.stage, before |-> fetch'.before, page |-> fetch'.page],
           fetch'.stage \in {"asked", "read"} => fetch'.before \in 0 .. Committed,
           fetch'.stage = "read" => PageOf(fetch'.before, fetch'.page, DOMAIN log, Committed)
    PROVE  Showing'
  BY DEF Still, Showing, Pending

\* There is a cursor, and all are ids that were given out, or 0.
LEMMA CursorFacts ==
    ASSUME Appending, Showing
    PROVE  /\ Committed \in Nat /\ Len(cursors) \in Nat /\ Len(cursors) >= 1
           /\ DOMAIN cursors = 1 .. Len(cursors)
           /\ \A i \in 1 .. Len(cursors) : cursors[i] \in 0 .. Committed
  <1>1. cursors \in Seq(0 .. Committed) /\ Len(cursors) \in Nat \ {0}
    BY DEF Showing
  <1>2. DOMAIN cursors = 1 .. Len(cursors)
    BY <1>1, LenProperties
  <1>3. \A i \in 1 .. Len(cursors) : cursors[i] \in 0 .. Committed
    BY <1>1, ElementOfSeq
  <1>. QED BY <1>1, <1>2, <1>3, AppendingNumbers DEF CommittedNumber

\* One lemma for each step of the screen.
LEMMA FetchShows ==
    ASSUME Appending, Showing, Chained, Fetch, UNCHANGED table
    PROVE  Showing' /\ Chained'
  <1>. DEFINE first == CHOOSE i \in Wanted : \A j \in Wanted : i <= j
              n == Len(cursors)
  <1>1. /\ Wanted # {}
        /\ fetch' = [stage |-> "asked", before |-> cursors[first], page |-> NoPage]
        /\ UNCHANGED <<size, cursors, pages, refetched>>
    BY DEF Fetch
  <1>2. /\ n \in Nat /\ n >= 1 /\ Wanted \subseteq 1 .. n
        /\ \A i \in 1 .. n : cursors[i] \in 0 .. Committed
    BY CursorFacts DEF Wanted
  <1>3. first \in Wanted
    <2>1. Wanted \in SUBSET Nat
      BY <1>2
    <2>2. \E i \in Wanted : \A j \in Wanted : i <= j
      BY <1>1, <2>1, LeastNumber
    <2>. QED BY <2>2
  <1>. HIDE DEF first
  <1>4. first \in 1 .. n /\ cursors[first] \in 0 .. Committed /\ cursors[first] \notin DOMAIN pages
    BY <1>2, <1>3 DEF Wanted
  <1>5. Showing'
    <2>1. Still
      BY TableStill
    <2>. QED BY <1>1, <1>4, <2>1, ShowingNext DEF Showing
  <1>6. ASSUME ~refetched
        PROVE  first = n
    <2>1. first \in 1 .. n - 1 => cursors[first] \in DOMAIN pages
      BY <1>6 DEF Chained
    <2>. QED BY <1>2, <1>4, <2>1
  <1>7. Chained'
    BY <1>1, <1>4, <1>6 DEF Chained, Pending
  <1>. QED BY <1>5, <1>7

LEMMA ReadShows ==
    ASSUME Appending, Showing, Chained, Read, UNCHANGED table
    PROVE  Showing' /\ Chained'
  <1>1. /\ fetch.stage = "asked" /\ UNCHANGED <<size, cursors, pages, refetched>>
        /\ fetch'.stage = "read" /\ fetch'.before = fetch.before
        /\ fetch'.page = ListAuditLog(fetch.before)
        /\ fetch' = [stage |-> fetch'.stage, before |-> fetch'.before, page |-> fetch'.page]
    <2>1. fetch = [stage |-> fetch.stage, before |-> fetch.before, page |-> fetch.page]
      BY DEF Showing
    <2>2. /\ fetch.stage = "asked" /\ UNCHANGED <<size, cursors, pages, refetched>>
          /\ fetch' = [fetch EXCEPT !.stage = "read", !.page = ListAuditLog(fetch.before)]
      BY DEF Read
    <2>. PICK page : page = ListAuditLog(fetch.before)
      OBVIOUS
    <2>3. fetch' = [stage |-> "read", before |-> fetch.before, page |-> page]
      BY <2>1, <2>2
    <2>. QED BY <2>2, <2>3
  <1>2. fetch.before \in 0 .. Committed /\ size \in PageSizes
    BY <1>1 DEF Showing, Pending
  <1>3. Committed \in Nat /\ DOMAIN log \subseteq 1 .. Committed
    BY AppendingNumbers DEF Appending, CommittedNumber
  <1>4. PageOf(fetch.before, ListAuditLog(fetch.before), DOMAIN log, Committed)
    <2>. PICK b, upto : b = fetch.before /\ upto = Committed
      OBVIOUS
    <2>. QED BY <1>2, <1>3, ReadPage
  <1>5. Showing'
    <2>1. Still
      BY TableStill
    <2>. QED BY <1>1, <1>2, <1>4, <2>1, ShowingNext DEF Showing
  <1>6. Chained'
    BY <1>1 DEF Chained, Pending
  <1>. QED BY <1>5, <1>6

LEMMA ReceiveShows ==
    ASSUME Appending, Showing, Chained, Receive, UNCHANGED table
    PROVE  Showing' /\ Chained'
  <1>. PICK b, page : b = fetch.before /\ page = fetch.page
    OBVIOUS
  <1>1. /\ fetch.stage = "read" /\ fetch' = Idle /\ UNCHANGED <<size, cursors, refetched>>
        /\ DOMAIN pages' = DOMAIN pages \cup {b} /\ pages'[b] = page
        /\ \A c \in DOMAIN pages : c # b => pages'[c] = pages[c]
    BY DEF Receive
  <1>2. PageOf(b, page, DOMAIN log, Committed)
    BY <1>1 DEF Showing
  <1>3. \A c \in DOMAIN pages' : PageOf(c, pages'[c], DOMAIN log, Committed)
    BY <1>1, <1>2 DEF Showing
  <1>4. fetch' = [stage |-> fetch'.stage, before |-> fetch'.before, page |-> fetch'.page]
        /\ fetch'.stage = "idle"
    BY <1>1 DEF Idle
  <1>5. Showing'
    <2>1. Still
      BY TableStill
    <2>. QED BY <1>1, <1>3, <1>4, <2>1, ShowingNext DEF Showing
  <1>6. Chained'
    <2>. SUFFICES ASSUME ~refetched', NEW i \in 1 .. Len(cursors') - 1
                  PROVE  /\ cursors'[i] \in DOMAIN pages'
                         /\ pages'[cursors'[i]].has_next
                         /\ cursors'[i + 1] = pages'[cursors'[i]].end_cursor
      BY <1>4 DEF Chained, Pending
    <2>1. /\ cursors[i] \in DOMAIN pages /\ pages[cursors[i]].has_next
          /\ cursors[i + 1] = pages[cursors[i]].end_cursor
      BY <1>1 DEF Chained
    <2>2. b \notin DOMAIN pages
      BY <1>1 DEF Chained, Pending
    <2>. QED BY <1>1, <2>1, <2>2
  <1>. QED BY <1>5, <1>6

\* No page at hand, no request under way: there is nothing to be wrong about.
LEMMA IdleShows ==
    ASSUME Still, Showing, UNCHANGED size,
           cursors' \in Seq(0 .. Committed), Len(cursors') \in Nat \ {0},
           \A b \in DOMAIN pages' : b \in DOMAIN pages /\ pages'[b] = pages[b],
           fetch' \in {Idle, [Idle EXCEPT !.stage = "failed"]}
    PROVE  Showing'
  <1>1. /\ fetch' = [stage |-> fetch'.stage, before |-> fetch'.before, page |-> fetch'.page]
        /\ fetch'.stage \in {"idle", "failed"}
    BY DEF Idle
  <1>2. \A b \in DOMAIN pages' : PageOf(b, pages'[b], DOMAIN log, Committed)
    BY DEF Showing
  <1>. QED BY <1>1, <1>2, ShowingNext DEF Showing

LEMMA FailShows ==
    ASSUME Appending, Showing, Chained, Fail, UNCHANGED table
    PROVE  Showing' /\ Chained'
  <1>1. /\ UNCHANGED <<size, cursors, pages, refetched>>
        /\ fetch' = [Idle EXCEPT !.stage = "failed"]
    BY DEF Fail
  <1>2. fetch'.stage = "failed"
    BY <1>1 DEF Idle
  <1>3. Showing'
    BY <1>1, TableStill, IdleShows DEF Showing
  <1>4. Chained'
    BY <1>1, <1>2 DEF Chained, Pending
  <1>. QED BY <1>3, <1>4

LEMMA ReopenShows ==
    ASSUME Appending, Showing, Chained, Reopen, UNCHANGED table
    PROVE  Showing' /\ Chained'
  <1>1. UNCHANGED size /\ cursors' = <<0>> /\ pages' = <<>> /\ fetch' = Idle
    BY DEF Reopen
  <1>2. cursors' \in Seq(0 .. Committed) /\ Len(cursors') = 1 /\ DOMAIN pages' = {}
    BY <1>1, AppendingNumbers DEF CommittedNumber
  <1>3. fetch'.stage = "idle"
    BY <1>1 DEF Idle
  <1>4. Showing'
    BY <1>1, <1>2, TableStill, IdleShows
  <1>5. Chained'
    BY <1>2, <1>3 DEF Chained, Pending
  <1>. QED BY <1>4, <1>5

LEMMA MoreShows ==
    ASSUME Appending, Showing, Chained, More, UNCHANGED table
    PROVE  Showing' /\ Chained'
  <1>. DEFINE n == Len(cursors)
              last == cursors[n]
  <1>1. /\ fetch = Idle /\ Wanted = {} /\ LastPage.has_next
        /\ cursors' = Append(cursors, LastPage.end_cursor)
        /\ UNCHANGED <<size, pages, fetch, refetched>>
    BY DEF More, HasNext, Settled
  <1>2. /\ n \in Nat /\ n >= 1 /\ n \in 1 .. n /\ DOMAIN cursors = 1 .. n
    BY CursorFacts
  <1>3. last \in DOMAIN pages
    BY <1>1, <1>2 DEF Wanted
  <1>4. LastPage.end_cursor \in 0 .. Committed
    <2>. PICK page : page = pages[last]
      OBVIOUS
    <2>1. PageOf(last, page, DOMAIN log, Committed)
      BY <1>3 DEF Showing
    <2>2. /\ page.nodes \in Seq(1 .. Committed)
          /\ page.end_cursor = IF page.nodes = <<>> THEN 0 ELSE page.nodes[Len(page.nodes)]
      BY <2>1 DEF PageOf
    <2>3. page.nodes # <<>> => page.nodes[Len(page.nodes)] \in 1 .. Committed
      <3>1. page.nodes # <<>> => Len(page.nodes) \in Nat \ {0}
        BY <2>2, EmptySeq
      <3>2. \A i \in 1 .. Len(page.nodes) : page.nodes[i] \in 1 .. Committed
        BY <2>2, ElementOfSeq
      <3>. QED BY <3>1, <3>2
    <2>4. Committed \in Nat
      BY AppendingNumbers DEF CommittedNumber
    <2>. QED BY <2>2, <2>3, <2>4 DEF LastPage
  <1>5. /\ cursors' \in Seq(0 .. Committed) /\ Len(cursors') = n + 1
        /\ \A i \in 1 .. n : cursors'[i] = cursors[i]
        /\ cursors'[n + 1] = LastPage.end_cursor
    <2>1. cursors \in Seq(0 .. Committed)
      BY DEF Showing
    <2>. QED BY <1>1, <1>4, <2>1, AppendProperties
  <1>6. fetch' = Idle /\ fetch'.stage = "idle"
    BY <1>1 DEF Idle
  <1>7. Showing'
    BY <1>1, <1>2, <1>5, <1>6, TableStill, IdleShows
  <1>8. Chained'
    <2>. SUFFICES ASSUME ~refetched', NEW i \in 1 .. n
                  PROVE  /\ cursors'[i] \in DOMAIN pages'
                         /\ pages'[cursors'[i]].has_next
                         /\ cursors'[i + 1] = pages'[cursors'[i]].end_cursor
      BY <1>2, <1>5, <1>6 DEF Chained, Pending
    <2>1. CASE i = n
      BY <1>1, <1>2, <1>3, <1>5, <2>1 DEF LastPage
    <2>2. CASE i \in 1 .. n - 1
      <3>1. /\ cursors[i] \in DOMAIN pages /\ pages[cursors[i]].has_next
            /\ cursors[i + 1] = pages[cursors[i]].end_cursor
        BY <1>1, <2>2 DEF Chained
      <3>2. i + 1 \in 1 .. n
        BY <1>2, <2>2
      <3>. QED BY <1>1, <1>5, <3>1, <3>2
    <2>. QED BY <1>2, <2>1, <2>2
  <1>. QED BY <1>7, <1>8

LEMMA MutationShows ==
    ASSUME Appending, Showing, Chained, Mutation, UNCHANGED table
    PROVE  Showing' /\ Chained'
  <1>1. /\ UNCHANGED <<size, cursors>> /\ DOMAIN pages' = {} /\ refetched' = TRUE
        /\ fetch' = Idle \/ fetch' = fetch
    BY DEF Mutation
  <1>2. Still
    BY TableStill
  <1>3. Showing'
    <2>1. CASE fetch' = Idle
      BY <1>1, <1>2, <2>1, IdleShows DEF Showing
    <2>2. CASE fetch' = fetch
      <3>1. /\ fetch' = [stage |-> fetch'.stage, before |-> fetch'.before, page |-> fetch'.page]
            /\ fetch'.stage \in {"asked", "read"} => fetch'.before \in 0 .. Committed
            /\ fetch'.stage = "read" =>
                  PageOf(fetch'.before, fetch'.page, DOMAIN log, Committed)
        BY <2>2 DEF Showing, Pending
      <3>. QED BY <1>1, <1>2, <3>1, ShowingNext DEF Showing
    <2>. QED BY <1>1, <2>1, <2>2
  <1>4. Chained'
    BY <1>1 DEF Chained
  <1>. QED BY <1>3, <1>4

\* The three parts hold together.
LEMMA PagesInvariant ==
    Spec => []PInv
  <1>1. Init => PInv
    <2>. SUFFICES ASSUME Init PROVE PInv
      OBVIOUS
    <2>1. Committed = Rows /\ Rows \in Nat
      BY PagesAssumption DEF Init, Committed
    <2>2. Appending
      BY <2>1 DEF Init, Appending
    <2>3. Showing
      <3>1. cursors \in Seq(0 .. Committed) /\ Len(cursors) = 1 /\ DOMAIN pages = {}
        BY <2>1 DEF Init
      <3>2. fetch = [stage |-> fetch.stage, before |-> fetch.before, page |-> fetch.page]
            /\ fetch.stage = "idle"
        BY DEF Init, Idle
      <3>. QED BY <3>1, <3>2 DEF Init, Showing, Pending
    <2>4. Chained
      BY DEF Init, Chained, Idle, Pending
    <2>. QED BY <2>2, <2>3, <2>4 DEF PInv
  <1>2. PInv /\ [Next]_vars => PInv'
    <2>. SUFFICES ASSUME PInv, [Next]_vars PROVE PInv'
      OBVIOUS
    <2>1. /\ Appending /\ Showing /\ Chained /\ Appending' /\ Grows
          /\ UNCHANGED screen \/ (ScreenStep /\ UNCHANGED table)
      BY NextSteps DEF PInv
    <2>2. CASE UNCHANGED screen
      BY <2>1, <2>2, ShowingStays, ChainedStays DEF PInv
    <2>3. CASE ScreenStep /\ UNCHANGED table
      <3>1. Showing' /\ Chained'
        BY <2>1, <2>3, FetchShows, ReadShows, ReceiveShows, FailShows, ReopenShows,
           MoreShows, MutationShows DEF ScreenStep
      <3>. QED BY <2>1, <3>1 DEF PInv
    <2>. QED BY <2>1, <2>2, <2>3
  <1>. QED BY <1>1, <1>2, PTL DEF Spec

-----------------------------------------------------------------------------
\* The page that is last offers nothing more only when nothing older is in the log:
\* hasNextPage, once it said no, stays right however long the page is kept, since the
\* rows that come are above it.
LEMMA LastPageEnds ==
    ASSUME PInv
    PROVE  TheEndIsTheEnd
  <1>. SUFFICES ASSUME Settled, ~HasNext
                PROVE  LET c == cursors[Len(cursors)]
                           end == IF LastPage.nodes = <<>> THEN c ELSE LastPage.end_cursor
                       IN \A id \in DOMAIN log : id >= end
    BY DEF TheEndIsTheEnd
  <1>. PICK c, page : c = cursors[Len(cursors)] /\ page = LastPage
    OBVIOUS
  <1>1. c \in DOMAIN pages
    BY CursorFacts DEF PInv, Settled, Wanted
  <1>2. PageOf(c, page, DOMAIN log, Committed)
    BY <1>1 DEF PInv, Showing, LastPage
  <1>3. ~page.has_next
    BY DEF HasNext
  <1>. QED BY <1>2, <1>3 DEF PageOf

\* When nothing more is offered there is nothing older, whatever was fetched again,
\* appended or purged before (listauditlog.Resolve asks for one row more than a page).
THEOREM NothingOlder ==
    Spec => []TheEndIsTheEnd
  <1>1. PInv => TheEndIsTheEnd
    BY LastPageEnds
  <1>. QED BY <1>1, PagesInvariant, PTL

-----------------------------------------------------------------------------
\* The list of the screen: the pages, one after the other.

\* What FlattenSeq builds, page by page.
Joins(f, seqs, S) ==
    /\ FlattenSeq(seqs) = f[Len(seqs)]
    /\ f[1] = seqs[1]
    /\ \A i \in 2 .. Len(seqs) : f[i] = f[i - 1] \o seqs[i]

\* The recursion of FlattenSeq has such a solution.
LEMMA FlattenJoins ==
    ASSUME NEW S, NEW seqs \in Seq(Seq(S)), seqs # <<>>
    PROVE  \E f : Joins(f, seqs, S)
  <1>. DEFINE N == Len(seqs)
              step == [p \in (1 .. N) \X Seq(S) |->
                          IF p[1] = 1 THEN seqs[1] ELSE p[2] \o seqs[p[1]]]
              Flat(f) == f = [i \in 1 .. N |-> IF i = 1 THEN seqs[i] ELSE f[i - 1] \o seqs[i]]
              flatten == CHOOSE f : Flat(f)
  <1>1. N \in Nat /\ N >= 1 /\ \A i \in 1 .. N : seqs[i] \in Seq(S)
    <2>1. N \in Nat \ {0}
      BY EmptySeq
    <2>2. \A i \in 1 .. N : seqs[i] \in Seq(S)
      BY ElementOfSeq
    <2>. QED BY <2>1, <2>2
  <1>2. <<>> \in Seq(S) /\ step \in [(1 .. N) \X Seq(S) -> Seq(S)]
    <2>. HIDE DEF N
    <2>1. ASSUME NEW i \in 1 .. N, NEW prev \in Seq(S)
          PROVE  (IF i = 1 THEN seqs[1] ELSE prev \o seqs[i]) \in Seq(S)
      <3>1. 1 \in 1 .. N
        BY <1>1
      <3>. QED BY <1>1, <3>1, ConcatProperties
    <2>2. <<>> \in Seq(S)
      BY EmptySeq
    <2>. QED BY <2>1, <2>2
  <1>3. \E f : Flat(f)
    <2>. HIDE DEF step, N
    <2>1. PICK w : Builds(w, N, Seq(S), <<>>, step)
      BY <1>1, <1>2, RecursionExists
    <2>2. ASSUME NEW i \in 1 .. N
          PROVE  w[i] = IF i = 1 THEN seqs[i] ELSE w[i - 1] \o seqs[i]
      <3>0. i - 1 \in 0 .. N /\ w \in [0 .. N -> Seq(S)]
        BY <1>1, <2>1 DEF Builds
      <3>3. w[i - 1] \in Seq(S)
        BY <3>0
      <3>1. <<i, w[i - 1]>> \in (1 .. N) \X Seq(S)
        BY <3>3
      <3>2. step[<<i, w[i - 1]>>] = IF i = 1 THEN seqs[1] ELSE w[i - 1] \o seqs[i]
        BY <3>1 DEF step
      <3>. QED BY <2>1, <3>2 DEF Builds
    <2>. DEFINE v == [i \in 1 .. N |-> w[i]]
    <2>3. ASSUME NEW i \in 1 .. N
          PROVE  v[i] = IF i = 1 THEN seqs[i] ELSE v[i - 1] \o seqs[i]
      <3>1. v[i] = w[i]
        OBVIOUS
      <3>2. i # 1 => v[i - 1] = w[i - 1]
        BY <1>1
      <3>. QED BY <2>2, <3>1, <3>2
    <2>4. v = [i \in 1 .. N |-> v[i]]
      OBVIOUS
    <2>. HIDE DEF v
    <2>5. Flat(v)
      BY <2>3, <2>4
    <2>. QED BY <2>5
  <1>4. FlattenSeq(seqs) = flatten[N]
    BY <1>1 DEF FlattenSeq
  <1>5. Flat(flatten)
    <2>. HIDE DEF Flat
    <2>. QED BY <1>3
  <1>. HIDE DEF flatten
  <1>6. \A i \in 1 .. N : flatten[i] = IF i = 1 THEN seqs[i] ELSE flatten[i - 1] \o seqs[i]
    BY <1>5
  <1>7. Joins(flatten, seqs, S)
    <2>1. 1 \in 1 .. N /\ 2 .. N \subseteq 1 .. N
      BY <1>1
    <2>2. flatten[1] = seqs[1]
      BY <1>6, <2>1
    <2>3. ASSUME NEW i \in 2 .. N
          PROVE  flatten[i] = flatten[i - 1] \o seqs[i]
      <3>1. i \in 1 .. N /\ i # 1
        BY <1>1
      <3>. QED BY <1>6, <3>1
    <2>. QED BY <1>4, <2>2, <2>3 DEF Joins
  <1>. QED BY <1>7

\* A page that goes on where the list ended keeps it in order and without gaps.
LEMMA PageJoins ==
    ASSUME NEW rows \in SUBSET Nat,
           NEW s \in Seq(Nat), s # <<>>, Descending(s), Gapless(s, rows),
           NEW t \in Seq(Nat), Descending(t), \A i \in 1 .. Len(t) : t[i] < s[Len(s)],
           t # <<>> => \A id \in rows : id < s[Len(s)] /\ id >= t[Len(t)] =>
                           \E j \in 1 .. Len(t) : t[j] = id
    PROVE  /\ s \o t \in Seq(Nat) /\ s \o t # <<>>
           /\ Descending(s \o t) /\ Gapless(s \o t, rows)
           /\ t # <<>> => (s \o t)[Len(s \o t)] = t[Len(t)]
  <1>. DEFINE m == Len(s)
              n == Len(t)
              u == s \o t
  <1>1. /\ m \in Nat /\ m >= 1 /\ n \in Nat /\ (t # <<>> <=> n >= 1)
        /\ \A i \in 1 .. m : s[i] \in Nat
        /\ \A i \in 1 .. n : t[i] \in Nat
    <2>1. m \in Nat \ {0} /\ n \in Nat /\ (t # <<>> => n \in Nat \ {0})
      BY EmptySeq, LenProperties
    <2>2. t = <<>> => n = 0
      BY EmptySeq
    <2>3. \A i \in 1 .. m : s[i] \in Nat
      BY ElementOfSeq
    <2>4. \A i \in 1 .. n : t[i] \in Nat
      BY ElementOfSeq
    <2>. QED BY <2>1, <2>2, <2>3, <2>4
  <1>2. /\ u \in Seq(Nat) /\ Len(u) = m + n
        /\ \A i \in 1 .. m + n : u[i] = IF i <= m THEN s[i] ELSE t[i - m]
    BY ConcatProperties
  <1>. HIDE DEF m, n, u
  <1>3. u # <<>>
    <2>1. u = <<>> => Len(u) = 0
      BY EmptySeq
    <2>. QED BY <1>1, <1>2, <2>1
  <1>4. \A i \in 1 .. m : i \in 1 .. m + n /\ u[i] = s[i]
    BY <1>1, <1>2
  <1>5. ASSUME NEW j \in 1 .. n
        PROVE  m + j \in 1 .. m + n /\ u[m + j] = t[j] /\ t[j] < s[m]
    <2>. DEFINE k == m + j
    <2>1. k \in 1 .. m + n /\ ~(k <= m) /\ k - m = j
      BY <1>1
    <2>. HIDE DEF k
    <2>2. u[k] = t[k - m]
      BY <1>2, <2>1
    <2>. QED BY <2>1, <2>2 DEF k, m, n
  <1>6. ASSUME NEW i \in 1 .. m + n, i > m
        PROVE  i - m \in 1 .. n /\ u[i] = t[i - m]
    BY <1>1, <1>2, <1>6
  <1>7. ASSUME NEW i \in 1 .. m
        PROVE  s[i] >= s[m]
    <2>1. m \in 1 .. m /\ (i < m => s[i] > s[m]) /\ s[i] \in Nat /\ s[m] \in Nat
      BY <1>1 DEF Descending, m
    <2>. QED BY <1>1, <2>1
  <1>8. ASSUME NEW i \in 1 .. m + n, NEW j \in 1 .. m + n, i < j
        PROVE  u[i] > u[j]
    <2>1. CASE j <= m
      <3>1. i \in 1 .. m /\ j \in 1 .. m
        BY <1>1, <1>8, <2>1
      <3>. QED BY <1>4, <1>8, <3>1 DEF Descending, m
    <2>2. CASE i <= m /\ j > m
      <3>1. i \in 1 .. m
        BY <1>1, <2>2
      <3>. DEFINE k == j - m
      <3>2. k \in 1 .. n /\ u[j] = t[k]
        BY <1>6, <2>2
      <3>. HIDE DEF k
      <3>3. u[i] = s[i] /\ s[i] >= s[m] /\ t[k] < s[m] /\ s[i] \in Nat /\ t[k] \in Nat
        BY <1>1, <1>4, <1>5, <1>7, <3>1, <3>2
      <3>4. s[m] \in Nat
        BY <1>1
      <3>. QED BY <3>2, <3>3, <3>4
    <2>3. CASE i > m
      <3>. DEFINE a == i - m
                  b == j - m
      <3>1. j > m /\ a < b
        BY <1>1, <1>8, <2>3
      <3>2. a \in 1 .. n /\ b \in 1 .. n /\ u[i] = t[a] /\ u[j] = t[b]
        BY <1>6, <2>3, <3>1
      <3>. HIDE DEF a, b
      <3>. QED BY <3>1, <3>2 DEF Descending, n
    <2>. QED BY <1>1, <2>1, <2>2, <2>3
  <1>9. Descending(u)
    BY <1>2, <1>8 DEF Descending
  <1>10. /\ n >= 1 => u[m + n] = t[n]
         /\ n = 0 => u[m + n] = s[m]
    <2>1. CASE n >= 1
      <3>1. n \in 1 .. n
        BY <1>1, <2>1
      <3>. QED BY <1>5, <2>1, <3>1
    <2>2. CASE n = 0
      BY <1>1, <1>4, <2>2
    <2>. QED BY <1>1, <2>1, <2>2
  <1>11. ASSUME NEW id \in rows, id <= u[1], id >= u[m + n]
         PROVE  \E j \in 1 .. m + n : u[j] = id
    <2>0. id \in Nat /\ 1 \in 1 .. m /\ m \in 1 .. m /\ u[1] = s[1] /\ s[m] \in Nat
      BY <1>1, <1>4
    <2>1. CASE id >= s[m]
      <3>1. PICK j \in 1 .. m : s[j] = id
        BY <1>11, <2>0, <2>1 DEF Gapless, m
      <3>. QED BY <1>4, <3>1
    <2>2. CASE id < s[m]
      <3>0. n = 0 => id >= s[m]
        BY <1>10, <1>11
      <3>1. n >= 1
        BY <1>1, <2>0, <2>2, <3>0
      <3>2. PICK j \in 1 .. n : t[j] = id
        BY <1>1, <1>10, <1>11, <2>2, <3>1 DEF m, n
      <3>. QED BY <1>5, <3>2
    <2>. QED BY <2>0, <2>1, <2>2
  <1>12. Gapless(u, rows)
    BY <1>2, <1>11 DEF Gapless
  <1>. QED BY <1>1, <1>2, <1>3, <1>9, <1>10, <1>12 DEF u, m, n

\* The page at hand for a cursor, as a part of the list.
LEMMA PartFacts ==
    ASSUME PInv, Settled, NEW i \in 1 .. Len(cursors)
    PROVE  /\ PageOf(cursors[i], pages[cursors[i]], DOMAIN log, Committed)
           /\ pages[cursors[i]].nodes \in Seq(Nat)
  <1>1. cursors[i] \in DOMAIN pages
    BY CursorFacts DEF PInv, Settled, Wanted
  <1>2. PageOf(cursors[i], pages[cursors[i]], DOMAIN log, Committed)
    BY <1>1 DEF PInv, Showing
  <1>3. pages[cursors[i]].nodes \in Seq(Nat)
    <2>1. pages[cursors[i]].nodes \in Seq(1 .. Committed) /\ 1 .. Committed \subseteq Nat
      BY <1>2 DEF PageOf
    <2>. QED BY <2>1, SeqMonotonic
  <1>. QED BY <1>2, <1>3

\* Where one page goes on to the next.
LEMMA NextPart ==
    ASSUME PInv, Settled, ~refetched, NEW i \in 1 .. Len(cursors) - 1
    PROVE  /\ pages[cursors[i]].nodes # <<>>
           /\ cursors[i + 1] \in Nat \ {0}
           /\ cursors[i + 1] = pages[cursors[i]].nodes[Len(pages[cursors[i]].nodes)]
  <1>1. /\ pages[cursors[i]].has_next
        /\ cursors[i + 1] = pages[cursors[i]].end_cursor
    BY DEF PInv, Chained
  <1>. PICK page : page = pages[cursors[i]]
    OBVIOUS
  <1>2. PageOf(cursors[i], page, DOMAIN log, Committed)
    <2>1. i \in 1 .. Len(cursors)
      BY CursorFacts DEF PInv
    <2>. QED BY <2>1, PartFacts
  <1>3. /\ page.nodes \in Seq(1 .. Committed) /\ page.nodes # <<>>
        /\ cursors[i + 1] = page.nodes[Len(page.nodes)]
    BY <1>1, <1>2 DEF PageOf
  <1>4. page.nodes[Len(page.nodes)] \in 1 .. Committed
    <2>1. Len(page.nodes) \in Nat \ {0}
      BY <1>3, EmptySeq
    <2>2. Len(page.nodes) \in 1 .. Len(page.nodes)
      BY <2>1
    <2>. QED BY <1>3, <2>2, ElementOfSeq
  <1>. QED BY <1>3, <1>4

\* What the list is up to some page.
Joined(f, k) ==
    /\ f[k] \in Seq(Nat) /\ Descending(f[k]) /\ Gapless(f[k], DOMAIN log)
    /\ k < Len(cursors) => f[k] # <<>> /\ f[k][Len(f[k])] = cursors[k + 1]

\* By induction over the pages.
LEMMA ListInOrder ==
    ASSUME PInv, Settled, ~refetched
    PROVE  Items \in Seq(Nat) /\ Descending(Items) /\ Gapless(Items, DOMAIN log)
  <1>. DEFINE n == Len(cursors)
              parts == [i \in DOMAIN cursors |-> pages[cursors[i]].nodes]
  <1>1. /\ n \in Nat /\ n >= 1 /\ DOMAIN cursors = 1 .. n /\ DOMAIN log \in SUBSET Nat
    BY CursorFacts, AppendingNumbers DEF PInv, CommittedNumber
  <1>2. /\ parts \in Seq(Seq(Nat)) /\ Len(parts) = n /\ parts # <<>>
        /\ \A i \in 1 .. n : parts[i] = pages[cursors[i]].nodes
    <2>1. \A i \in 1 .. n : parts[i] = pages[cursors[i]].nodes /\ parts[i] \in Seq(Nat)
      BY <1>1, PartFacts
    <2>. HIDE DEF n
    <2>2. parts \in [1 .. n -> Seq(Nat)]
      BY <1>1, <2>1
    <2>. HIDE DEF parts
    <2>3. parts \in Seq(Seq(Nat)) /\ Len(parts) = n
      BY <1>1, <2>2
    <2>4. parts = <<>> => Len(parts) = 0
      BY EmptySeq
    <2>. QED BY <1>1, <2>1, <2>3, <2>4
  <1>3. Items = FlattenSeq(parts)
    BY DEF Items
  <1>. HIDE DEF parts
  <1>4. PICK f : Joins(f, parts, Nat)
    BY <1>2, FlattenJoins
  <1>5. Items = f[n] /\ f[1] = parts[1] /\ \A i \in 2 .. n : f[i] = f[i - 1] \o parts[i]
    BY <1>2, <1>3, <1>4 DEF Joins
  <1>. DEFINE A == {k \in 0 .. n - 1 : Joined(f, k + 1)}
  <1>6. 0 \in A
    <2>1. /\ PageOf(cursors[1], pages[cursors[1]], DOMAIN log, Committed)
          /\ pages[cursors[1]].nodes \in Seq(Nat) /\ f[1] = pages[cursors[1]].nodes
      <3>1. 1 \in 1 .. n
        BY <1>1
      <3>. QED BY <1>2, <1>5, <3>1, PartFacts
    <2>2. 1 < n => f[1] # <<>> /\ f[1][Len(f[1])] = cursors[1 + 1]
      <3>1. 1 < n => 1 \in 1 .. n - 1
        BY <1>1
      <3>. QED BY <2>1, <3>1, NextPart
    <2>3. Joined(f, 1)
      BY <2>1, <2>2 DEF Joined, PageOf
    <2>. QED BY <1>1, <2>3
  <1>7. ASSUME NEW k \in 1 .. n - 1, k - 1 \in A
        PROVE  k \in A
    <2>. HIDE DEF n
    <2>0. k \in Nat /\ k >= 1 /\ k < n /\ k + 1 \in 2 .. n /\ k + 1 - 1 = k /\ (k - 1) + 1 = k
      BY <1>1
    <2>1. Joined(f, k)
      BY <1>7, <2>0
    <2>. PICK s, t, c : s = f[k] /\ t = parts[k + 1] /\ c = cursors[k + 1]
      OBVIOUS
    <2>2. s \in Seq(Nat) /\ Descending(s) /\ Gapless(s, DOMAIN log) /\ s # <<>> /\ s[Len(s)] = c
      BY <2>0, <2>1 DEF Joined, n
    <2>3. f[k + 1] = s \o t
      <3>. DEFINE h == k + 1
      <3>1. h \in 2 .. n /\ h - 1 = k
        BY <2>0
      <3>. HIDE DEF h
      <3>2. f[h] = f[h - 1] \o parts[h]
        BY <1>5, <3>1
      <3>. QED BY <3>1, <3>2 DEF h
    <2>4. t = pages[c].nodes /\ t \in Seq(Nat) /\ PageOf(c, pages[c], DOMAIN log, Committed)
      <3>1. k + 1 \in 1 .. n
        BY <2>0
      <3>. QED BY <1>2, <3>1, PartFacts DEF n
    <2>5. c \in Nat \ {0}
      <3>1. k \in 1 .. n - 1
        OBVIOUS
      <3>. QED BY <3>1, NextPart DEF n
    <2>6. /\ Descending(t) /\ \A i \in 1 .. Len(t) : t[i] < c
          /\ t # <<>> => \A id \in DOMAIN log : id < c /\ id >= t[Len(t)] =>
                             \E j \in 1 .. Len(t) : t[j] = id
      <3>. PICK page : page = pages[c]
        OBVIOUS
      <3>1. /\ Descending(t) /\ page.end_cursor = IF t = <<>> THEN 0 ELSE t[Len(t)]
            /\ c # 0 => /\ \A i \in 1 .. Len(t) : t[i] < c
                        /\ t # <<>> =>
                              \A id \in DOMAIN log : id < c /\ id >= page.end_cursor =>
                                  \E j \in 1 .. Len(t) : t[j] = id
        BY <2>4 DEF PageOf
      <3>2. c # 0
        BY <2>5
      <3>3. t # <<>> => page.end_cursor = t[Len(t)]
        BY <3>1
      <3>. QED BY <3>1, <3>2, <3>3
    <2>7. /\ s \o t \in Seq(Nat) /\ s \o t # <<>>
          /\ Descending(s \o t) /\ Gapless(s \o t, DOMAIN log)
          /\ t # <<>> => (s \o t)[Len(s \o t)] = t[Len(t)]
      <3>1. /\ \A i \in 1 .. Len(t) : t[i] < s[Len(s)]
            /\ t # <<>> => \A id \in DOMAIN log : id < s[Len(s)] /\ id >= t[Len(t)] =>
                               \E j \in 1 .. Len(t) : t[j] = id
        BY <2>2, <2>6
      <3>2. Descending(t) /\ t \in Seq(Nat) /\ DOMAIN log \in SUBSET Nat
        BY <1>1, <2>4, <2>6
      <3>. PICK rows : rows = DOMAIN log
        OBVIOUS
      <3>3. /\ rows \in SUBSET Nat /\ s \in Seq(Nat) /\ t \in Seq(Nat)
            /\ s # <<>> /\ Descending(s) /\ Gapless(s, rows) /\ Descending(t)
        BY <2>2, <3>2
      <3>4. t # <<>> => \A id \in rows : id < s[Len(s)] /\ id >= t[Len(t)] =>
                           \E j \in 1 .. Len(t) : t[j] = id
        BY <3>1
      <3>5. /\ s \o t \in Seq(Nat) /\ s \o t # <<>>
            /\ Descending(s \o t) /\ Gapless(s \o t, rows)
            /\ t # <<>> => (s \o t)[Len(s \o t)] = t[Len(t)]
        BY <3>1, <3>3, <3>4, PageJoins
      <3>. QED BY <3>5
    <2>8. k + 1 < n => t # <<>> /\ t[Len(t)] = cursors[k + 1 + 1]
      <3>. SUFFICES ASSUME k + 1 < n
                    PROVE  t # <<>> /\ t[Len(t)] = cursors[k + 1 + 1]
        OBVIOUS
      <3>. DEFINE h == k + 1
      <3>1. h \in 1 .. n - 1
        BY <1>1, <2>0
      <3>2. c = cursors[h]
        OBVIOUS
      <3>. HIDE DEF h
      <3>3. /\ pages[cursors[h]].nodes # <<>>
            /\ cursors[h + 1] = pages[cursors[h]].nodes[Len(pages[cursors[h]].nodes)]
        BY <3>1, NextPart DEF n
      <3>. QED BY <2>4, <3>2, <3>3 DEF h
    <2>9. Joined(f, k + 1)
      <3>1. k + 1 < n => /\ s \o t # <<>>
                         /\ (s \o t)[Len(s \o t)] = cursors[k + 1 + 1]
        BY <2>7, <2>8
      <3>. PICK h, u : h = k + 1 /\ u = s \o t
        OBVIOUS
      <3>2. u \in Seq(Nat) /\ Descending(u) /\ Gapless(u, DOMAIN log)
        BY <2>7
      <3>3. h < n => u # <<>> /\ u[Len(u)] = cursors[h + 1]
        BY <3>1
      <3>4. Joined(f, h)
        BY <2>3, <3>2, <3>3 DEF Joined, n
      <3>. QED BY <3>4
    <2>. QED BY <2>9
  <1>. HIDE DEF A
  <1>8. n - 1 \in A
    <2>1. n - 1 \in Nat /\ n - 1 \in 0 .. n - 1
      BY <1>1
    <2>2. \A k \in 0 .. n - 1 : k \in A
      <3>. HIDE DEF n
      <3>. PICK N : N = n - 1
        OBVIOUS
      <3>. QED BY <1>6, <1>7, <2>1, UpToBySteps
    <2>. QED BY <2>1, <2>2
  <1>9. Joined(f, n)
    <2>1. Joined(f, n - 1 + 1) /\ n - 1 + 1 = n
      BY <1>1, <1>8 DEF A
    <2>. QED BY <2>1
  <1>. QED BY <1>5, <1>9 DEF Joined

\* However writers, the purge and the pages fall between each other, the list shows
\* no row twice and the newest first, as long as no page was fetched again: a page
\* starts below the cursor that the page before it ended with.
THEOREM ListNewestFirst ==
    Spec => []NoRowTwice
  <1>1. PInv => NoRowTwice
    <2>. SUFFICES ASSUME PInv, Settled, ~refetched
                  PROVE  \A i, j \in DOMAIN Items : i < j => Items[i] > Items[j]
      BY DEF NoRowTwice
    <2>1. Items \in Seq(Nat) /\ Descending(Items)
      BY ListInOrder
    <2>2. DOMAIN Items = 1 .. Len(Items)
      BY <2>1, LenProperties
    <2>. QED BY <2>1, <2>2 DEF Descending
  <1>. QED BY <1>1, PagesInvariant, PTL

\* Nor does the list pass over a row of the log: SQLite's write lock makes ids be
\* given out and committed in the same order, so that a row that appears late is above
\* every page read before it (flushAudit, DBListAuditLog).
THEOREM ListWithoutGaps ==
    Spec => []NoRowSkipped
  <1>1. PInv => NoRowSkipped
    <2>. SUFFICES ASSUME PInv, Settled, ~refetched, NEW id \in DOMAIN log,
                         Items # <<>>, Items[1] >= id, id >= Items[Len(Items)]
                  PROVE  id \in ToSet(Items)
      BY DEF NoRowSkipped
    <2>1. Items \in Seq(Nat) /\ Gapless(Items, DOMAIN log)
      BY ListInOrder
    <2>2. DOMAIN Items = 1 .. Len(Items)
      BY <2>1, LenProperties
    <2>3. id \in Nat /\ Items[1] \in Nat
      <3>1. id \in Nat
        BY AppendingNumbers DEF PInv, CommittedNumber
      <3>2. Len(Items) \in Nat \ {0}
        BY <2>1, EmptySeq
      <3>3. 1 \in 1 .. Len(Items)
        BY <3>2
      <3>. QED BY <2>1, <3>1, <3>3, ElementOfSeq
    <2>4. PICK j \in 1 .. Len(Items) : Items[j] = id
      BY <2>1, <2>3 DEF Gapless
    <2>. QED BY <2>2, <2>4 DEF ToSet
  <1>. QED BY <1>1, PagesInvariant, PTL
=============================================================================
