------------------------- MODULE IngestorQueryProofs -------------------------
(***************************************************************************)
(* Proofs about the GET endpoints of the ingestor, for tables of any       *)
(* length: the ORDER BY of store.go ranks the rows, queryLast returns the  *)
(* first of them and queryRecent the first few.  That the k-th newest row  *)
(* exists needs no induction: the number of newer rows is an injection of  *)
(* the matching rows into as many ranks, hence every rank is taken.        *)
(***************************************************************************)
EXTENDS IngestorProofs

(* The groups of variables that a step leaves alone stand for their members.*)
USE DEF lifeVars, contextVars, dataVars, handlerVars

-----------------------------------------------------------------------------
(* The order of the rows.                                                  *)

LEMMA TableTimes ==
  ASSUME table \in Seq(Row)
  PROVE  /\ Len(table) \in Nat
         /\ \A i \in 1 .. Len(table) : table[i] \in Row /\ table[i].at \in Nat
<1>1. \A i \in 1 .. Len(table) : table[i] \in Row
  OBVIOUS
<1>2. \A r \in Row : r.at \in Nat
  BY IngestorAssumption DEF IngestorAssumption, Row
<1>3. QED
  BY <1>1, <1>2

(* Newer is a strict total order: no two rows are ever tied, since the id  *)
(* breaks the ties of received_at.                                         *)
LEMMA NewerIsOrder ==
  ASSUME table \in Seq(Row),
         NEW i \in 1 .. Len(table), NEW j \in 1 .. Len(table)
  PROVE  /\ ~Newer(i, i)
         /\ i # j => Newer(i, j) \/ Newer(j, i)
         /\ \A k \in 1 .. Len(table) :
                Newer(i, j) /\ Newer(j, k) => Newer(i, k)
BY TableTimes DEF Newer

LEMMA MatchingFinite ==
  ASSUME table \in Seq(Row), NEW filter
  PROVE  /\ Matching(filter) \subseteq 1 .. Len(table)
         /\ IsFiniteSet(Matching(filter))
         /\ Cardinality(Matching(filter)) \in Nat
<1>1. Len(table) \in Nat
  OBVIOUS
<1>2. Matching(filter) \in SUBSET (1 .. Len(table))
  BY DEF Matching
<1>3. IsFiniteSet(1 .. Len(table))
  BY <1>1, FS_Interval
<1>4. QED
  BY <1>2, <1>3, FS_Subset, FS_CardinalityType

-----------------------------------------------------------------------------
(* Ranks: how many of the rows are newer than this one.                    *)

Before(rows, i) == {j \in rows : Newer(j, i)}

Rank(rows, i) == Cardinality(Before(rows, i))

LEMMA BeforeFinite ==
  ASSUME table \in Seq(Row), NEW rows \in SUBSET (1 .. Len(table)),
         IsFiniteSet(rows), NEW i \in rows
  PROVE  /\ IsFiniteSet(Before(rows, i)) /\ Rank(rows, i) \in Nat
         /\ Rank(rows, i) <= Cardinality(rows) - 1
         /\ Cardinality(rows) \in Nat
<1>1. Before(rows, i) \in SUBSET (rows \ {i})
  BY NewerIsOrder DEF Before
<1>2. /\ IsFiniteSet(rows \ {i})
      /\ Cardinality(rows \ {i}) = Cardinality(rows) - 1
  BY FS_RemoveElement
<1>3. /\ IsFiniteSet(Before(rows, i))
      /\ Cardinality(Before(rows, i)) <= Cardinality(rows \ {i})
  BY <1>1, <1>2, FS_Subset
<1>4. Cardinality(rows) \in Nat /\ Cardinality(Before(rows, i)) \in Nat
  BY <1>3, FS_CardinalityType
<1>5. QED
  BY <1>2, <1>3, <1>4 DEF Rank

(* A newer row has a smaller rank.                                         *)
LEMMA NewerRanksLower ==
  ASSUME table \in Seq(Row), NEW rows \in SUBSET (1 .. Len(table)),
         IsFiniteSet(rows), NEW i \in rows, NEW j \in rows, Newer(i, j)
  PROVE  Rank(rows, i) < Rank(rows, j)
<1>1. Before(rows, i) \in SUBSET (Before(rows, j) \ {i})
  BY NewerIsOrder DEF Before
<1>2. i \in Before(rows, j)
  BY DEF Before
<1>3. IsFiniteSet(Before(rows, j)) /\ Rank(rows, i) \in Nat /\ Rank(rows, j) \in Nat
  BY BeforeFinite
<1>4. /\ IsFiniteSet(Before(rows, j) \ {i})
      /\ Cardinality(Before(rows, j) \ {i}) = Rank(rows, j) - 1
  BY <1>2, <1>3, FS_RemoveElement DEF Rank
<1>5. Rank(rows, i) <= Rank(rows, j) - 1
  BY <1>1, <1>4, FS_Subset DEF Rank
<1>6. QED
  BY <1>3, <1>5

(* Every rank below the number of rows is the rank of exactly one row.     *)
LEMMA EveryRankTaken ==
  ASSUME table \in Seq(Row), NEW rows \in SUBSET (1 .. Len(table)),
         IsFiniteSet(rows), NEW r \in 0 .. Cardinality(rows) - 1
  PROVE  \E i \in rows : Rank(rows, i) = r
<1> DEFINE ranks == 0 .. Cardinality(rows) - 1
           f == [i \in rows |-> Rank(rows, i)]
<1>1. Cardinality(rows) \in Nat
  BY FS_CardinalityType
<1>2. \A i \in rows : Rank(rows, i) \in ranks
  BY <1>1, BeforeFinite
<1>3. \A i, j \in rows : Rank(rows, i) = Rank(rows, j) => i = j
  <2> SUFFICES ASSUME NEW i \in rows, NEW j \in rows, i # j
               PROVE  Rank(rows, i) # Rank(rows, j)
    OBVIOUS
  <2>1. Newer(i, j) \/ Newer(j, i)
    BY NewerIsOrder
  <2>2. Rank(rows, i) \in Nat /\ Rank(rows, j) \in Nat
    BY BeforeFinite
  <2>3. QED
    BY <2>1, <2>2, NewerRanksLower
<1>4. f \in Injection(rows, ranks)
  BY <1>2, <1>3 DEF Injection, IsInjective
<1>5. IsFiniteSet(ranks) /\ Cardinality(ranks) = Cardinality(rows)
  BY <1>1, FS_Interval
<1>6. f \in Surjection(rows, ranks)
  BY <1>4, <1>5, FS_Injection
<1>7. \E i \in rows : f[i] = r
  BY <1>6 DEF Surjection
<1>8. QED
  BY <1>7

-----------------------------------------------------------------------------
(* What the queries return.                                                *)

(* queryLast returns the newest of the rows that match, if any does.       *)
LEMMA LastIsNewest ==
  ASSUME table \in Seq(Row), NEW filter
  PROVE  /\ Matching(filter) = {} => QueryLast(filter) = 0
         /\ Matching(filter) # {} =>
                /\ QueryLast(filter) \in Matching(filter)
                /\ \A j \in Matching(filter) \ {QueryLast(filter)} :
                       Newer(QueryLast(filter), j)
         /\ QueryLast(filter) = 0 <=> Matching(filter) = {}
<1> DEFINE rows == Matching(filter)
           Newest(i) == \A j \in rows \ {i} : Newer(i, j)
<1>1. /\ rows \in SUBSET (1 .. Len(table)) /\ IsFiniteSet(rows)
      /\ Cardinality(rows) \in Nat
  BY MatchingFinite
<1>2. rows = {} => QueryLast(filter) = 0
  BY DEF QueryLast
<1>3. ASSUME rows # {}
      PROVE  QueryLast(filter) \in rows /\ Newest(QueryLast(filter))
  <2>1. 0 \in 0 .. Cardinality(rows) - 1
    <3> HIDE DEF rows
    <3>1. Cardinality(rows) # 0
      BY <1>1, <1>3, FS_EmptySet
    <3>2. QED
      BY <1>1, <3>1
  <2>2. PICK i \in rows : Rank(rows, i) = 0
    BY <1>1, <2>1, EveryRankTaken
  <2>3. IsFiniteSet(Before(rows, i))
    BY <1>1, BeforeFinite
  <2>4. Before(rows, i) = {}
    BY <2>2, <2>3, FS_EmptySet DEF Rank
  <2>5. Newest(i)
    BY <1>1, <2>4, NewerIsOrder DEF Before
  <2>6. QueryLast(filter) = CHOOSE k \in rows : Newest(k)
    BY <1>3, Zenon DEF QueryLast
  <2> HIDE DEF rows, Newest
  <2>7. QED
    BY <2>5, <2>6, Zenon
<1>4. \A i \in 1 .. Len(table) : i # 0
  OBVIOUS
<1>5. QueryLast(filter) = 0 => rows = {}
  BY <1>1, <1>3, <1>4
<1>6. QED
  BY <1>2, <1>3, <1>5

Least(m, n) == IF m < n THEN m ELSE n

(* queryRecent returns, up to the limit, the rows of rank 0, 1, 2, ...     *)
LEMMA RecentIsRanked ==
  ASSUME table \in Seq(Row), NEW filter, NEW limit \in Nat
  PROVE  LET recent == QueryRecent(filter, limit)
             size   == Least(Cardinality(Matching(filter)), limit)
         IN  /\ size \in Nat /\ recent \in Seq(Matching(filter))
             /\ Len(recent) = size
             /\ \A k \in 1 .. size : /\ recent[k] \in Matching(filter)
                                     /\ Rank(Matching(filter), recent[k]) = k - 1
<1> DEFINE rows == Matching(filter)
           size == Least(Cardinality(rows), limit)
           pick(k) == CHOOSE i \in rows : Rank(rows, i) = k - 1
<1>1. /\ rows \in SUBSET (1 .. Len(table)) /\ IsFiniteSet(rows)
      /\ Cardinality(rows) \in Nat
  BY MatchingFinite
<1>2. size \in Nat /\ size <= Cardinality(rows)
  BY <1>1 DEF Least
<1>3. ASSUME NEW k \in 1 .. size
      PROVE  pick(k) \in rows /\ Rank(rows, pick(k)) = k - 1
  <2>1. k - 1 \in 0 .. Cardinality(rows) - 1
    BY <1>1, <1>2
  <2>2. \E i \in rows : Rank(rows, i) = k - 1
    BY <1>1, <2>1, EveryRankTaken
  <2> HIDE DEF rows
  <2>3. QED
    BY <2>2, Zenon
<1>4. QueryRecent(filter, limit) = [k \in 1 .. size |-> pick(k)]
  BY DEF QueryRecent, Least, Rank, Before
<1> HIDE DEF pick, rows, size
<1>5. QueryRecent(filter, limit) \in [1 .. size -> rows]
  BY <1>3, <1>4
<1>6. /\ QueryRecent(filter, limit) \in Seq(rows)
      /\ Len(QueryRecent(filter, limit)) = size
  BY <1>2, <1>5
<1>7. QED
  BY <1>2, <1>3, <1>4, <1>6 DEF rows, size

(* The first of queryRecent, which is empty only if nothing matches.       *)
LEMMA RecentAndLast ==
  ASSUME table \in Seq(Row), NEW filter, NEW limit \in Nat \ {0}
  PROVE  LET recent == QueryRecent(filter, limit)
         IN  /\ recent = <<>> <=> QueryLast(filter) = 0
             /\ recent # <<>> => /\ Len(recent) \in Nat \ {0}
                                 /\ recent[1] = QueryLast(filter)
             /\ recent \in Seq(Matching(filter))
<1> DEFINE rows == Matching(filter)
           recent == QueryRecent(filter, limit)
           size == Least(Cardinality(rows), limit)
<1>1. /\ rows \in SUBSET (1 .. Len(table)) /\ IsFiniteSet(rows)
      /\ Cardinality(rows) \in Nat
  BY MatchingFinite
<1>2. /\ size \in Nat /\ recent \in Seq(rows) /\ Len(recent) = size
      /\ \A k \in 1 .. size : recent[k] \in rows /\ Rank(rows, recent[k]) = k - 1
  BY RecentIsRanked
<1>3. rows = {} <=> Cardinality(rows) = 0
  <2> HIDE DEF rows
  <2>1. QED
    BY <1>1, FS_EmptySet
<1>4. size = 0 <=> rows = {}
  BY <1>1, <1>3 DEF Least
<1> HIDE DEF recent, size
<1>5. recent = <<>> <=> rows = {}
  BY <1>2, <1>4
<1>6. ASSUME recent # <<>>
      PROVE  Len(recent) \in Nat \ {0} /\ recent[1] = QueryLast(filter)
  <2>1. 1 \in 1 .. size /\ rows # {}
    BY <1>2, <1>4, <1>5, <1>6
  <2>2. recent[1] \in rows /\ Rank(rows, recent[1]) = 0
    BY <1>2, <2>1
  <2>3. Before(rows, recent[1]) = {}
    BY <1>1, <2>2, BeforeFinite, FS_EmptySet DEF Rank
  <2>4. /\ QueryLast(filter) \in rows
        /\ \A j \in rows \ {QueryLast(filter)} : Newer(QueryLast(filter), j)
    BY <2>1, LastIsNewest
  <2>5. recent[1] = QueryLast(filter)
    BY <2>2, <2>3, <2>4 DEF Before
  <2>6. QED
    BY <1>2, <2>1, <2>5
<1>7. QueryLast(filter) = 0 <=> rows = {}
  BY LastIsNewest
<1>8. QED
  BY <1>2, <1>5, <1>6, <1>7 DEF recent

(* No row is given twice or out of order, and none is left out but older   *)
(* ones, once the limit is reached.                                        *)
LEMMA RecentComplete ==
  ASSUME table \in Seq(Row), NEW filter, NEW limit \in Nat
  PROVE  LET recent == QueryRecent(filter, limit)
             given  == {recent[k] : k \in 1 .. Len(recent)}
         IN  /\ Len(recent) <= limit /\ given \subseteq Matching(filter)
             /\ \A k \in 1 .. Len(recent) - 1 :
                    Newer(recent[k], recent[k + 1])
             /\ \A i \in Matching(filter) \ given :
                    Len(recent) = limit /\ \A j \in given : Newer(j, i)
<1> DEFINE rows == Matching(filter)
           recent == QueryRecent(filter, limit)
           given == {recent[k] : k \in 1 .. Len(recent)}
           size == Least(Cardinality(rows), limit)
<1>1. /\ rows \in SUBSET (1 .. Len(table)) /\ IsFiniteSet(rows)
      /\ Cardinality(rows) \in Nat
  BY MatchingFinite
<1>2. /\ size \in Nat /\ Len(recent) = size
      /\ \A k \in 1 .. size : recent[k] \in rows /\ Rank(rows, recent[k]) = k - 1
  BY RecentIsRanked
<1>3. \/ size = Cardinality(rows) /\ size <= limit
      \/ size = limit
  BY <1>1 DEF Least
<1> HIDE DEF rows, recent, size
<1>4. given \subseteq rows
  BY <1>2
<1>5. ASSUME NEW i \in rows, NEW j \in rows, Rank(rows, i) < Rank(rows, j)
      PROVE  Newer(i, j)
  <2>1. Rank(rows, i) \in Nat /\ Rank(rows, j) \in Nat
    BY <1>1, BeforeFinite
  <2>2. i # j /\ ~Newer(j, i)
    BY <1>1, <1>5, <2>1, NewerRanksLower
  <2>3. QED
    BY <1>1, <2>2, NewerIsOrder
<1>6. ASSUME NEW k \in 1 .. Len(recent) - 1
      PROVE  Newer(recent[k], recent[k + 1])
  <2>1. k \in 1 .. size /\ k + 1 \in 1 .. size
    BY <1>2
  <2>2. /\ recent[k] \in rows /\ recent[k + 1] \in rows
        /\ Rank(rows, recent[k]) = k - 1 /\ Rank(rows, recent[k + 1]) = k
    BY <1>2, <2>1
  <2>3. Rank(rows, recent[k]) < Rank(rows, recent[k + 1])
    BY <2>1, <2>2
  <2>4. QED
    BY <1>5, <2>2, <2>3
<1>7. ASSUME NEW i \in rows, i \notin given
      PROVE  Len(recent) = limit /\ \A j \in given : Newer(j, i)
  <2>1. /\ Rank(rows, i) \in Nat /\ Rank(rows, i) <= Cardinality(rows) - 1
    BY <1>1, BeforeFinite
  <2>2. Rank(rows, i) >= size
    <3> SUFFICES ASSUME Rank(rows, i) < size PROVE FALSE
      BY <1>2, <2>1
    <3> DEFINE k == Rank(rows, i) + 1
    <3>1. k \in 1 .. size
      BY <1>2, <2>1
    <3>2. recent[k] \in rows /\ Rank(rows, recent[k]) = k - 1
      BY <1>2, <3>1
    <3>3. recent[k] \in given
      BY <1>2, <3>1
    <3> DEFINE j == recent[k]
    <3> HIDE DEF j
    <3>4. j \in rows /\ j # i /\ Rank(rows, j) = Rank(rows, i)
      BY <1>7, <2>1, <3>2, <3>3 DEF j
    <3>5. Newer(i, j) \/ Newer(j, i)
      BY <1>1, <3>4, NewerIsOrder
    <3>6. Rank(rows, i) < Rank(rows, j) \/ Rank(rows, j) < Rank(rows, i)
      BY <1>1, <3>4, <3>5, NewerRanksLower
    <3>7. QED
      BY <2>1, <3>4, <3>6
  <2>3. Len(recent) = limit
    BY <1>1, <1>2, <1>3, <2>1, <2>2
  <2>4. ASSUME NEW j \in given PROVE Newer(j, i)
    <3>1. PICK k \in 1 .. size : j = recent[k]
      BY <1>2, <2>4
    <3>2. j \in rows /\ Rank(rows, j) = k - 1
      BY <1>2, <3>1
    <3>3. Rank(rows, j) < Rank(rows, i)
      BY <1>2, <2>1, <2>2, <3>2
    <3>4. QED
      BY <1>5, <3>2, <3>3
  <2>5. QED
    BY <2>3, <2>4
<1>8. Len(recent) <= limit
  BY <1>1, <1>2, <1>3
<1>9. QED
  BY <1>4, <1>6, <1>7, <1>8 DEF rows, recent

-----------------------------------------------------------------------------
(* What a client sees.                                                     *)

\* In every state /recent gives the newest rows that match, in order and up to
\* the limit, starting with the one /last finds: whatever the order in which
\* the handlers inserted.
THEOREM RecentIsNewest == Spec => []RecentNewestFirst
<1>1. ASSUME TypeOK, NEW filter, NEW limit \in 1 .. 3
      PROVE  LET recent == QueryRecent(filter, limit)
                 given  == {recent[k] : k \in 1 .. Len(recent)}
             IN  /\ Len(recent) <= limit /\ given \subseteq Matching(filter)
                 /\ \A k \in 1 .. Len(recent) - 1 :
                        Newer(recent[k], recent[k + 1])
                 /\ \A i \in Matching(filter) \ given :
                        Len(recent) = limit /\ \A j \in given : Newer(j, i)
                 /\ QueryLast(filter) = IF recent = <<>> THEN 0 ELSE recent[1]
  <2>1. table \in Seq(Row)
    BY <1>1 DEF TypeOK
  <2>2. limit \in Nat \ {0} /\ limit \in Nat
    OBVIOUS
  <2>3. LET recent == QueryRecent(filter, limit)
        IN  /\ recent = <<>> <=> QueryLast(filter) = 0
            /\ recent # <<>> => recent[1] = QueryLast(filter)
    BY <2>1, <2>2, RecentAndLast
  <2>4. LET recent == QueryRecent(filter, limit)
            given  == {recent[k] : k \in 1 .. Len(recent)}
        IN  /\ Len(recent) <= limit /\ given \subseteq Matching(filter)
            /\ \A k \in 1 .. Len(recent) - 1 :
                   Newer(recent[k], recent[k + 1])
            /\ \A i \in Matching(filter) \ given :
                   Len(recent) = limit /\ \A j \in given : Newer(j, i)
    BY <2>1, <2>2, RecentComplete
  <2>5. QED
    BY <2>3, <2>4, Zenon
<1>2. TypeOK => RecentNewestFirst
  BY <1>1, Zenon DEF RecentNewestFirst
<1>3. QED
  BY <1>2, TypeCorrect, PTL

(* With the database answering, /recent of one row and /last are one reply.*)
LEMMA LastAndRecentAgree ==
  ASSUME TypeOK, store = "open", NEW filter, Matching(filter) # {}
  PROVE  /\ QueryLast(filter) \in Matching(filter)
         /\ GetLast(filter, TRUE) = Reply("200", <<table[QueryLast(filter)]>>)
         /\ GetRecent(filter, 1, TRUE) = GetLast(filter, TRUE)
<1> DEFINE recent == QueryRecent(filter, 1)
           found == [k \in DOMAIN recent |-> table[recent[k]]]
<1>1. table \in Seq(Row) /\ 1 \in Nat \ {0} /\ 1 \in Nat
  BY DEF TypeOK
<1>2. Answers(TRUE) /\ store # "nil"
  BY DEF Answers
<1>3. GetRecent(filter, 1, TRUE) = Reply("200", found)
  BY <1>2, Zenon DEF GetRecent
<1>4. QueryLast(filter) \in Matching(filter) /\ QueryLast(filter) # 0
  BY <1>1, LastIsNewest
<1>5. GetLast(filter, TRUE) = Reply("200", <<table[QueryLast(filter)]>>)
  BY <1>2, <1>4, Zenon DEF GetLast
<1>6. /\ recent # <<>> /\ Len(recent) \in Nat \ {0}
      /\ recent[1] = QueryLast(filter) /\ recent \in Seq(Matching(filter))
  BY <1>1, <1>4, RecentAndLast
<1>7. Len(recent) <= 1
  BY <1>1, RecentComplete
<1> HIDE DEF recent
<1>8. Len(recent) = 1 /\ DOMAIN recent = {1}
  <2> HIDE DEF found
  <2>1. Len(recent) = 1
    <3>1. Len(recent) \in Nat \ {0} /\ Len(recent) <= 1
      BY <1>6, <1>7, Zenon
    <3>2. \A n \in Nat \ {0} : n <= 1 => n = 1
      OBVIOUS
    <3>3. QED
      BY <3>1, <3>2, Zenon
  <2>2. DOMAIN recent = 1 .. Len(recent)
    BY <1>6
  <2>3. QED
    BY <2>1, <2>2
<1>9. found = <<table[QueryLast(filter)]>>
  <2>1. table[QueryLast(filter)] \in Row
    BY <1>1, <1>4, MatchingFinite, TableTimes
  <2>2. found \in [1 .. 1 -> Row] /\ found[1] = table[QueryLast(filter)]
    BY <1>6, <1>8, <2>1
  <2>3. found \in Seq(Row) /\ Len(found) = 1
    BY <2>2
  <2> HIDE DEF found
  <2>4. QED
    BY <2>2, <2>3
<1>10. QED
  BY <1>3, <1>4, <1>5, <1>9

\* The row of a handler past its insert is in the table.
HeldInv ==
  \A h \in InState(InsertedStates) : \E i \in 1 .. Len(table) :
      table[i].device = body[h].device /\ table[i].at = at[h]

(* A step of one handler leaves the others' readings alone; a handler      *)
(* comes to be past the insert by a row of its own.                        *)
LEMMA HandlerInserts ==
  ASSUME TypeOK, NEW h \in Handlers,
         Handler(h) \/ \E b \in Body : Post(h, b)
  PROVE  /\ \A k \in Handlers \ {h} :
                pc'[k] = pc[k] /\ body'[k] = body[k] /\ at'[k] = at[k]
         /\ pc'[h] \in InsertedStates =>
                /\ body'[h] = body[h] /\ at'[h] = at[h]
                /\ \/ pc[h] \in InsertedStates
                   \/ table' = Append(table, [device |-> body[h].device,
                                              at |-> at[h]])
<1>a. /\ pc \in [Handlers -> HandlerStates]
      /\ body \in [Handlers -> Body \cup {NoBody}]
      /\ at \in [Handlers -> 0 .. MaxTime]
  BY DEF TypeOK
<1> USE <1>a DEF HandlerAt, HandlerGoto, InsertedStates, localVars
<1>1. CASE Check(h) \/ Accept(h)
  <2>1. \/ \E status : Answer(h, status)
        \/ HandlerGoto(h, "stamp") /\ UNCHANGED localVars
    BY <1>1 DEF Check, Accept
  <2>2. QED
    BY <2>1 DEF Answer
<1>2. CASE Stamp(h) \/ \E b \in Body : Post(h, b)
  BY <1>2 DEF Stamp, Post
<1>3. CASE Insert(h)
  BY <1>3 DEF Insert
<1>4. CASE CountFailure(h) \/ SetDown(h) \/ SetLast(h) \/ SetMemory(h)
  BY <1>4 DEF CountFailure, SetDown, SetLast, SetMemory
<1>5. CASE CountRow(h) \/ SetLastWrite(h) \/ SetUp(h) \/ SetRows(h)
  BY <1>5 DEF CountRow, SetLastWrite, SetUp, SetRows
<1>6. CASE LoadRows(h) \/ LoadLast(h)
  BY <1>6 DEF LoadRows, LoadLast
<1>7. QED
  BY <1>1, <1>2, <1>3, <1>4, <1>5, <1>6 DEF Handler

LEMMA HandlerKeepsHeld ==
  ASSUME TypeOK, HeldInv, NEW h \in Handlers,
         Handler(h) \/ \E b \in Body : Post(h, b)
  PROVE  HeldInv'
<1>1. table \in Seq(Row) /\ Len(table) \in Nat
  BY DEF TypeOK
<1>2. \A i \in 1 .. Len(table) : i \in 1 .. Len(table') /\ table'[i] = table[i]
  BY <1>1, HandlerGrowsTable
<1>3. SUFFICES ASSUME NEW k \in Handlers, pc'[k] \in InsertedStates
               PROVE  \E i \in 1 .. Len(table') :
                          table'[i].device = body'[k].device
                              /\ table'[i].at = at'[k]
  BY DEF HeldInv, InState
<1>4. body'[k] = body[k] /\ at'[k] = at[k]
  BY <1>3, HandlerInserts
<1>5. CASE pc[k] \in InsertedStates
  BY <1>2, <1>4, <1>5 DEF HeldInv, InState
<1>6. CASE pc[k] \notin InsertedStates
  <2> DEFINE row == [device |-> body[k].device, at |-> at[k]]
  <2>1. table' = Append(table, row)
    BY <1>3, <1>6, HandlerInserts
  <2>2. row.device = body[k].device /\ row.at = at[k]
    OBVIOUS
  <2> HIDE DEF row
  <2>3. Len(table') = Len(table) + 1 /\ table'[Len(table) + 1] = row
    BY <1>1, <2>1
  <2>4. Len(table) + 1 \in 1 .. Len(table')
    BY <1>1, <2>3
  <2>5. QED
    BY <1>4, <2>2, <2>3, <2>4
<1>7. QED
  BY <1>5, <1>6

LEMMA RowsHeld == Spec => []HeldInv
<1>1. Init => HeldInv
  BY DEF Init, HeldInv, InState, AllIdle, InsertedStates
<1>2. TypeOK /\ LifeInv /\ HeldInv /\ [Next]_vars => HeldInv'
  <2> SUFFICES ASSUME TypeOK, LifeInv, HeldInv, [Next]_vars PROVE HeldInv'
    OBVIOUS
  <2>1. CASE UNCHANGED <<table, pc, body, at>>
    BY <2>1 DEF HeldInv, InState
  <2>2. ASSUME \A h \in Handlers : pc'[h] = "idle" PROVE HeldInv'
    BY <2>2 DEF HeldInv, InState, InsertedStates
  <2>3. CASE \/ Tick \/ StopServing \/ StartWithoutStore \/ ShutdownReturns
             \/ CloseStore \/ UNCHANGED vars
             \/ \E n \in {0, Len(table)} : StartWithStore(n)
    BY <2>1, <2>3 DEF Tick, StopServing, StartWithoutStore, ShutdownReturns,
                      CloseStore, StartWithStore, vars, localVars
  <2>4. CASE VolumeLost
    BY <2>2, <2>4 DEF VolumeLost, LifeInv, Idle
  <2>5. CASE Crash \/ Exit
    BY <2>2, <2>5 DEF Crash, Exit, Die, AllIdle
  <2>6. ASSUME NEW h \in Handlers, Handler(h) \/ \E b \in Body : Post(h, b)
        PROVE  HeldInv'
    BY <2>6, HandlerKeepsHeld
  <2>7. QED
    BY <2>3, <2>4, <2>5, <2>6 DEF Next, World, Main
<1>3. QED
  BY <1>1, <1>2, TypeCorrect, ProcessLife, PTL DEF Spec

LEMMA ReplyParts ==
  \A status, rows : /\ Reply(status, rows).status = status
                    /\ Reply(status, rows).rows = rows
BY DEF Reply

\* A client reads what it wrote: a row of its device, as new or newer, is what
\* /last and /recent both return once the INSERT has.
THEOREM InsertedIsFound == Spec => []InsertedFound
<1>1. TypeOK /\ HeldInv => InsertedFound
  <2> SUFFICES ASSUME TypeOK, HeldInv, store = "open",
                      NEW h \in InState(InsertedStates)
               PROVE  LET last == GetLast(body[h].device, TRUE)
                      IN  /\ last.status = "200"
                          /\ last.rows[1].device = body[h].device
                          /\ last.rows[1].at >= at[h]
                          /\ GetRecent(body[h].device, 1, TRUE) = last
    BY Zenon DEF InsertedFound
  <2> DEFINE d == body[h].device
             l == QueryLast(d)
  <2>1. table \in Seq(Row) /\ d \in Devices /\ d # ""
    <3>1. body[h] \in Reading
      BY DEF TypeOK, InState, InsertedStates
    <3>2. QED
      BY <3>1, DevicesAssumption DEF TypeOK, Reading, DevicesAssumption
  <2>2. PICK i \in 1 .. Len(table) : table[i].device = d /\ table[i].at = at[h]
    BY DEF HeldInv
  <2>3. i \in Matching(d)
    BY <2>2 DEF Matching
  <2>4. /\ l \in Matching(d)
        /\ GetLast(d, TRUE) = Reply("200", <<table[l]>>)
        /\ GetRecent(d, 1, TRUE) = GetLast(d, TRUE)
    BY <2>3, LastAndRecentAgree
  <2>5. l \in 1 .. Len(table) /\ table[l].device = d
    BY <2>1, <2>4 DEF Matching
  <2>6. table[l].at >= at[h]
    <3>1. table[i].at \in Nat /\ table[l].at \in Nat
      BY <2>1, <2>5, TableTimes
    <3>2. i = l \/ Newer(l, i)
      BY <2>1, <2>3, LastIsNewest
    <3>3. table[l].at >= table[i].at
      BY <3>1, <3>2 DEF Newer
    <3>4. QED
      BY <2>2, <3>3
  <2> HIDE DEF d, l
  <2>7. /\ GetLast(d, TRUE).status = "200"
        /\ GetLast(d, TRUE).rows[1] = table[l]
    <3>1. /\ GetLast(d, TRUE).status = "200"
          /\ GetLast(d, TRUE).rows = <<table[l]>>
      BY <2>4, ReplyParts, Zenon
    <3>2. <<table[l]>>[1] = table[l]
      OBVIOUS
    <3>3. QED
      BY <3>1, <3>2, Zenon
  <2>8. /\ GetLast(d, TRUE).rows[1].device = d
        /\ GetLast(d, TRUE).rows[1].at >= at[h]
    BY <2>5, <2>6, <2>7
  <2>9. QED
    BY <2>4, <2>7, <2>8, Zenon DEF d
<1>2. QED
  BY <1>1, RowsHeld, TypeCorrect, PTL

-----------------------------------------------------------------------------
(* How the answers change from one step to the next.                       *)

\* In every state queryLast's row is at least as new as every other row that matches.
NewestInv ==
  \A filter : Matching(filter) # {} =>
     /\ QueryLast(filter) \in Matching(filter)
     /\ \A j \in Matching(filter) \ {QueryLast(filter)} :
            Newer(QueryLast(filter), j)

(* A step leaves the table, adds a row at its end, or empties it.          *)
LEMMA TableStep ==
  ASSUME TypeOK, [Next]_vars
  PROVE  \/ table' = table
         \/ \E row \in Row : table' = Append(table, row)
         \/ table' = <<>>
<1>1. ASSUME NEW h \in Handlers, Handler(h) \/ \E b \in Body : Post(h, b)
      PROVE  table' = table \/ \E row \in Row : table' = Append(table, row)
  BY <1>1, HandlerGrowsTable
<1>2. CASE VolumeLost
  BY <1>2 DEF VolumeLost
<1>3. CASE \/ Tick \/ StopServing \/ StartWithoutStore
           \/ ShutdownReturns \/ CloseStore \/ Crash \/ Exit
           \/ \E n \in {0, Len(table)} : StartWithStore(n)
           \/ UNCHANGED vars
  BY <1>3 DEF Tick, StopServing, StartWithoutStore, ShutdownReturns,
              CloseStore, Crash, Exit, Die, StartWithStore, vars
<1>4. QED
  BY <1>1, <1>2, <1>3 DEF Next, World, Main

LEMMA StillMatches ==
  ASSUME NEW filter, NEW i \in Matching(filter), i \in 1 .. Len(table'),
         table'[i] = table[i]
  PROVE  i \in Matching(filter)'
BY Zenon DEF Matching

LEMMA LastKept ==
  ASSUME table \in Seq(Row), table' \in Seq(Row), NewestInv, NewestInv',
         \/ table' = table
         \/ \E row \in Row : table' = Append(table, row),
         NEW filter, Matching(filter) # {}
  PROVE  table'[QueryLast(filter)'].at >= table[QueryLast(filter)].at
<1> DEFINE last == QueryLast(filter)
<1>1. last \in Matching(filter) /\ last \in 1 .. Len(table)
  BY MatchingFinite DEF NewestInv
<1>2. last \in 1 .. Len(table') /\ table'[last] = table[last]
  BY <1>1
<1>3. last \in Matching(filter)'
  BY <1>1, <1>2, StillMatches
<1> HIDE DEF last
<1>4. /\ QueryLast(filter)' \in Matching(filter)'
      /\ \A j \in Matching(filter)' \ {QueryLast(filter)'} :
             \/ table'[QueryLast(filter)'].at > table'[j].at
             \/ table'[QueryLast(filter)'].at = table'[j].at
  BY <1>3 DEF NewestInv, Newer
<1>5. \/ table'[QueryLast(filter)'].at > table'[last].at
      \/ table'[QueryLast(filter)'].at = table'[last].at
  BY <1>3, <1>4
<1>6. table[last].at \in Nat
  BY <1>1, TableTimes
<1>7. QueryLast(filter)' \in 1 .. Len(table')
  BY <1>4, Zenon DEF Matching
<1>8. table'[QueryLast(filter)'].at \in Nat
  <2>1. \A r \in Row : r.at \in Nat
    BY IngestorAssumption DEF IngestorAssumption, Row
  <2>2. table'[QueryLast(filter)'] \in Row
    BY <1>7
  <2>3. QED
    BY <2>1, <2>2
<1>9. QED
  BY <1>2, <1>5, <1>6, <1>8 DEF last

\* The row queryLast selects never goes back in time for any filter, while the
\* volume lasts: handlers may insert in any order after they took their
\* timestamps, and a restart changes nothing.
THEOREM StoredLastIsMonotonic == Spec => StoredLastNeverGoesBack
<1>1. TypeOK => NewestInv
  <2>1. TypeOK => table \in Seq(Row)
    BY DEF TypeOK
  <2>2. QED
    BY <2>1, LastIsNewest DEF NewestInv
<1>2. ASSUME TypeOK, TypeOK', NewestInv, NewestInv', [Next]_vars,
             NEW filter, Matching(filter) # {}, Len(table') >= Len(table)
      PROVE  table'[QueryLast(filter)'].at >= table[QueryLast(filter)].at
  <2>1. table \in Seq(Row) /\ table' \in Seq(Row)
    BY <1>2 DEF TypeOK
  <2>2. Len(table) # 0
    <3>1. \E i \in 1 .. Len(table) : TRUE
      BY <1>2, <2>1, MatchingFinite
    <3>2. QED
      BY <3>1
  <2>3. table' # <<>>
    BY <1>2, <2>1, <2>2
  <2>4. QED
    BY <1>2, <2>1, <2>3, TableStep, LastKept
<1> DEFINE Kept == \A filter \in Devices \cup {""} :
             Matching(filter) # {} /\ Len(table') >= Len(table) =>
                 table'[QueryLast(filter)'].at >= table[QueryLast(filter)].at
<1>3. TypeOK /\ TypeOK' /\ NewestInv /\ NewestInv' /\ [Next]_vars => [Kept]_vars
  BY <1>2, Zenon
<1>4. QED
  BY <1>1, <1>3, TypeCorrect, PTL DEF Spec, StoredLastNeverGoesBack
=========================================================================
