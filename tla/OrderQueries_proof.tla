---- MODULE OrderQueries_proof ----
(***************************************************************************)
(* Proofs about OrderQueries, for any orders, products, filters and page   *)
(* sizes.  That a walk is complete rests on two facts: the place of an     *)
(* order in the list only ever grows, and a page that is not the last one  *)
(* is full.                                                                *)
(***************************************************************************)
EXTENDS OrderQueries, FiniteSetTheorems, FunctionTheorems, TLAPS

USE DEF tableVars, walkVars

\* A subset of the orders can be counted.
LEMMA Countable ==
    ASSUME NEW S \in SUBSET Orders
    PROVE  IsFiniteSet(S) /\ Cardinality(S) \in Nat
BY OrdersAssumption, FS_Subset, FS_CardinalityType

LEMMA Smaller ==
    ASSUME NEW S \in SUBSET Orders, NEW T \in SUBSET S
    PROVE  /\ Cardinality(T) <= Cardinality(S)
           /\ S # T => Cardinality(T) < Cardinality(S)
<1>1. IsFiniteSet(S) /\ IsFiniteSet(T) /\ Cardinality(S) \in Nat /\ Cardinality(T) \in Nat
  BY Countable
<1> QED BY <1>1, FS_Subset

-----------------------------------------------------------------------------
(* The list at one moment.                                                 *)

\* Orders that have begun did so at different times.
TimesInv ==
    /\ clock \in Nat
    /\ created \in [Orders -> Nat]
    /\ \A o \in Orders : created[o] <= clock
    /\ \A o, p \in Orders : created[o] = created[p] /\ created[o] # 0 => o = p
    /\ \A o \in Orders : status[o] # "none" => created[o] # 0

\* No two orders have the same place, and the places have no gaps.
LEMMA RankIsBijective ==
    ASSUME TimesInv, NEW filter
    PROVE  LET M == Matching(filter)
               f == [o \in M |-> Rank(filter, o)]
           IN  /\ f \in Injection(M, 0 .. Cardinality(M) - 1)
               /\ f \in Surjection(M, 0 .. Cardinality(M) - 1)
<1> DEFINE M == Matching(filter)
           n == Cardinality(M)
           f == [o \in M |-> Rank(filter, o)]
<1>1. M \in SUBSET Orders /\ IsFiniteSet(M) /\ n \in Nat
  BY Countable DEF Matching
<1>2. ASSUME NEW o \in M PROVE Rank(filter, o) \in 0 .. n - 1
  <2>1. Newer(filter, o) \in SUBSET M /\ o \notin Newer(filter, o)
    BY <1>1, <1>2 DEF Newer, TimesInv
  <2>2. Cardinality(Newer(filter, o)) < n
    BY <1>1, <1>2, <2>1, Smaller
  <2>3. Cardinality(Newer(filter, o)) \in Nat
    BY <1>1, <2>1, Countable
  <2> QED BY <1>1, <2>2, <2>3 DEF Rank
<1>3. ASSUME NEW a \in M, NEW b \in M, created[a] < created[b]
      PROVE  Rank(filter, b) < Rank(filter, a)
  <2>1. created[a] \in Nat /\ created[b] \in Nat
    BY <1>1 DEF TimesInv
  <2>2. Newer(filter, b) \in SUBSET Newer(filter, a)
    BY <1>1, <1>3, <2>1 DEF Newer, TimesInv
  <2>3. b \in Newer(filter, a) /\ b \notin Newer(filter, b)
    BY <1>3, <2>1 DEF Newer
  <2>4. Newer(filter, a) \in SUBSET Orders
    BY <1>1 DEF Newer
  <2> QED BY <2>2, <2>3, <2>4, Smaller DEF Rank
<1>4. ASSUME NEW a \in M, NEW b \in M, Rank(filter, a) = Rank(filter, b) PROVE a = b
  <2>1. Rank(filter, a) \in Nat /\ Rank(filter, b) \in Nat
    BY <1>1, <1>2
  <2>2. ~ (created[a] < created[b]) /\ ~ (created[b] < created[a])
    BY <1>3, <1>4, <2>1
  <2>3. created[a] \in Nat /\ created[b] \in Nat /\ created[a] # 0
    BY <1>1 DEF TimesInv, Matching, Matches
  <2>4. created[a] = created[b]
    BY <2>2, <2>3
  <2> QED BY <1>1, <2>3, <2>4 DEF TimesInv
<1>5. f \in Injection(M, 0 .. n - 1)
  BY <1>2, <1>4 DEF Injection, IsInjective
<1>6. IsFiniteSet(0 .. n - 1) /\ Cardinality(0 .. n - 1) = n
  BY <1>1, FS_Interval
<1>7. f \in Surjection(M, 0 .. n - 1)
  BY <1>5, <1>6, FS_Injection
<1> QED BY <1>5, <1>7

\* A page from offset k on that is not full is the last one.
LEMMA PageIsFull ==
    ASSUME TimesInv, NEW filter, NEW k \in Nat, NEW l \in Nat \ {0},
           NEW o \in Matching(filter), Rank(filter, o) >= k + l
    PROVE  LET P == {p \in Matching(filter) : Rank(filter, p) \in k .. k + l - 1}
           IN  IsFiniteSet(P) /\ Cardinality(P) \in Nat /\ l <= Cardinality(P)
<1> DEFINE M == Matching(filter)
           n == Cardinality(M)
           f == [p \in M |-> Rank(filter, p)]
           P == {p \in M : Rank(filter, p) \in k .. k + l - 1}
           g == [i \in k .. k + l - 1 |-> CHOOSE p \in M : f[p] = i]
<1>1. M \in SUBSET Orders /\ P \in SUBSET Orders
  BY DEF Matching
<1>2. IsFiniteSet(P) /\ Cardinality(P) \in Nat /\ n \in Nat
  BY <1>1, Countable
<1>3. f \in [M -> 0 .. n - 1] /\ \A i \in 0 .. n - 1 : \E p \in M : f[p] = i
  <2>1. f \in Surjection(M, 0 .. n - 1)
    BY RankIsBijective
  <2> QED BY <2>1 DEF Surjection
<1>4. k .. k + l - 1 \subseteq 0 .. n - 1
  <2>1. Rank(filter, o) \in 0 .. n - 1
    BY <1>3
  <2> QED BY <1>2, <2>1
<1>5. \A i \in k .. k + l - 1 : g[i] \in P /\ Rank(filter, g[i]) = i
  BY <1>3, <1>4
<1> HIDE DEF P
<1>6. g \in Injection(k .. k + l - 1, P)
  <2> DEFINE D == k .. k + l - 1
  <2>1. g \in [D -> P] /\ \A i \in D : Rank(filter, g[i]) = i
    BY <1>5
  <2> HIDE DEF g, D
  <2>2. g \in Injection(D, P)
    <3>1. \A i, j \in D : g[i] = g[j] => i = j
      BY <2>1
    <3> QED BY <2>1, <3>1 DEF Injection, IsInjective
  <2> QED BY <2>2 DEF D
<1>7. Cardinality(k .. k + l - 1) = l
  BY FS_Interval
<1>8. Cardinality(k .. k + l - 1) <= Cardinality(P)
  BY <1>2, <1>6, FS_Injection
<1> QED BY <1>2, <1>7, <1>8 DEF P

-----------------------------------------------------------------------------
(* The steps.                                                              *)

TableStep ==
    \E o \in Orders : BeginOrder(o) \/ CommitOrder(o) \/ FailOrder(o) \/ ProcessOrder(o)

LEMMA TypeStep ==
    ASSUME TypeOK, [Next]_vars PROVE TypeOK'
<1> USE DEF TypeOK
<1>1. ASSUME NEW o \in Orders, BeginOrder(o) PROVE TypeOK'
  <2>1. clock' = clock + 1 /\ clock' \in Nat /\ 0 .. clock \subseteq 0 .. clock'
    BY <1>1 DEF BeginOrder
  <2>2. created' \in [Orders -> 0 .. clock']
    BY <1>1, <2>1 DEF BeginOrder
  <2> QED BY <1>1, <2>1, <2>2 DEF BeginOrder
<1>2. ASSUME NEW o \in Orders, CommitOrder(o) \/ FailOrder(o) \/ ProcessOrder(o)
      PROVE  TypeOK'
  <2>1. status' \in [Orders -> Statuses \cup {"none"}]
    BY <1>2 DEF CommitOrder, FailOrder, ProcessOrder, Move, Statuses
  <2> QED BY <1>2, <2>1 DEF CommitOrder, FailOrder, ProcessOrder, Move
<1>3. ASSUME NEW filter \in Filters, NEW limit \in Limits, StartWalk(filter, limit)
      PROVE  TypeOK'
  <2>1. walk' \in [filter : Filters, limit : 1 .. MaxLimit, offset : Nat]
    BY <1>3 DEF StartWalk, ValidLimit
  <2>2. due' \subseteq Orders
    BY <1>3 DEF StartWalk, Matching
  <2> QED BY <1>3, <2>1, <2>2 DEF StartWalk, Places
<1>4. CASE FindIds
  <2>1. ids' \subseteq Orders
    BY <1>4 DEF FindIds, Matching
  <2> QED BY <1>4, <2>1 DEF FindIds, Places
<1>5. CASE FindRows
  <2>1. page' \subseteq Orders
    BY <1>5 DEF FindRows
  <2> QED BY <1>5, <2>1 DEF FindRows, Places
<1>6. CASE LoadProducts
  <2>1. ProductIds \subseteq Products
    BY ItemsAssumption DEF ProductIds
  <2>2. \A id \in DOMAIN products' : products'[id] \in Products \cup {None}
    <3>1. PICK keys \in Listings(ProductIds), rows \in Listings(found') :
              products' = [id \in ProductIds |->
                              ByKey(keys, rows)[CHOOSE i \in DOMAIN keys : keys[i] = id]]
      BY <1>6 DEF LoadProducts
    <3>2. ASSUME NEW id \in ProductIds PROVE products'[id] \in Products \cup {None}
      <4>1. PICK i \in DOMAIN keys : keys[i] = id
        BY DEF Listings
      <4>2. (CHOOSE j \in DOMAIN keys : keys[j] = id) \in DOMAIN keys
        BY <4>1
      <4>3. \A j \in DOMAIN keys : keys[j] \in Products
        BY <2>1 DEF Listings
      <4> QED BY <3>1, <4>2, <4>3 DEF ByKey
    <3> QED BY <3>1, <3>2
  <2> QED BY <1>6, <2>1, <2>2 DEF LoadProducts, Places
<1>7. CASE NextPage
  <2>1. walk' \in [filter : Filters, limit : 1 .. MaxLimit, offset : Nat]
    BY <1>7 DEF NextPage
  <2>2. listed' \subseteq Orders
    BY <1>7 DEF NextPage
  <2> QED BY <1>7, <2>1, <2>2 DEF NextPage, Places
<1>8. CASE ReadMetric
  <2>1. \A f \in {"processed", "messages"} : CountOf(f) \in Nat
    BY Countable DEF CountOf, Processed
  <2>2. metrics' \in [reads : 0 .. 2, processed : Nat, messages : Nat]
    BY <1>8, <2>1 DEF ReadMetric, Reading
  <2> QED BY <1>8, <2>2 DEF ReadMetric
<1>9. CASE UNCHANGED vars
  BY <1>9 DEF vars
<1> QED BY <1>1, <1>2, <1>3, <1>4, <1>5, <1>6, <1>7, <1>8, <1>9 DEF Next

\* Every variable has its type, over any number of orders.
THEOREM QueriesTypeCorrect == Spec => []TypeOK
<1>1. Init => TypeOK
  BY DEF Init, TypeOK, Places
<1> QED BY <1>1, TypeStep, PTL DEF Spec

-----------------------------------------------------------------------------

\* A step of the walk or of the scraper leaves the tables alone.
LEMMA StepKinds ==
    [Next]_vars => \/ TableStep /\ UNCHANGED <<walkVars, metrics>>
                   \/ UNCHANGED tableVars
BY DEF Next, TableStep, BeginOrder, CommitOrder, FailOrder, ProcessOrder, Move, StartWalk,
       FindIds, FindRows, LoadProducts, NextPage, ReadMetric, vars

LEMMA TimesStep ==
    ASSUME TimesInv, TypeOK, [Next]_vars PROVE TimesInv'
<1> USE DEF TimesInv
<1>1. ASSUME NEW o \in Orders, BeginOrder(o) PROVE TimesInv'
  BY <1>1 DEF BeginOrder
<1>2. ASSUME NEW o \in Orders, CommitOrder(o) \/ FailOrder(o) \/ ProcessOrder(o)
      PROVE  TimesInv'
  <2>1. UNCHANGED <<clock, created>> /\ created[o] # 0
    BY <1>2 DEF CommitOrder, FailOrder, ProcessOrder, Move
  <2>2. \A p \in Orders : p # o => status'[p] = status[p]
    BY <1>2 DEF CommitOrder, FailOrder, ProcessOrder, Move, TypeOK
  <2> QED BY <2>1, <2>2
<1>3. CASE UNCHANGED tableVars
  BY <1>3
<1> QED BY <1>1, <1>2, <1>3, StepKinds DEF TableStep

-----------------------------------------------------------------------------
(* getMetrics.                                                             *)

\* What a scrape has read, and the rows it reads.
MetricsInv ==
    /\ Processed \subseteq processedMessages
    /\ metrics.reads = 1 => metrics.processed <= Cardinality(processedMessages)
    /\ MetricsNeverAhead

LEMMA MetricsStep ==
    ASSUME MetricsInv, TypeOK, TypeOK', [Next]_vars PROVE MetricsInv'
<1>1. ASSUME TableStep, UNCHANGED metrics PROVE MetricsInv'
  <2>1. processedMessages \subseteq processedMessages' /\ Processed' \subseteq processedMessages'
    BY <1>1 DEF MetricsInv, Processed, TableStep, BeginOrder, CommitOrder, FailOrder,
                ProcessOrder, Move, TypeOK
  <2>2. Cardinality(processedMessages) <= Cardinality(processedMessages')
    BY <2>1, Smaller DEF TypeOK
  <2>3. /\ Cardinality(processedMessages) \in Nat
        /\ Cardinality(processedMessages') \in Nat
        /\ metrics.processed \in Nat
    BY Countable DEF TypeOK
  <2> QED BY <1>1, <2>1, <2>2, <2>3 DEF MetricsInv, MetricsNeverAhead
<1>2. CASE ReadMetric
  <2>1. Cardinality(Processed) <= Cardinality(processedMessages)
    BY Smaller DEF MetricsInv, TypeOK
  <2>2. metrics.reads # 1 => metrics'.reads = 1 /\ metrics'.processed = Cardinality(Processed)
    BY <1>2 DEF ReadMetric, Reading, Counts, CountOf
  <2>3. metrics.reads = 1 => /\ metrics'.reads = 2
                             /\ metrics'.processed = metrics.processed
                             /\ metrics'.messages = Cardinality(processedMessages)
    BY <1>2 DEF ReadMetric, Reading, Counts, CountOf
  <2>4. UNCHANGED <<Processed, processedMessages>>
    BY <1>2 DEF ReadMetric, Processed
  <2> QED BY <2>1, <2>2, <2>3, <2>4 DEF MetricsInv, MetricsNeverAhead
<1>3. CASE UNCHANGED <<tableVars, metrics>>
  BY <1>3 DEF MetricsInv, MetricsNeverAhead, Processed
<1> QED
  BY <1>1, <1>2, <1>3 DEF Next, TableStep, BeginOrder, CommitOrder, FailOrder, ProcessOrder,
     Move, StartWalk, FindIds, FindRows, LoadProducts, NextPage, vars

\* A scrape counts no more processed orders than processed messages, since it
\* counts the orders first and messages are never taken away.
THEOREM MetricsAgree == Spec => []MetricsNeverAhead
<1>1. Init => MetricsInv
  BY FS_EmptySet, Countable DEF Init, MetricsInv, MetricsNeverAhead, Processed
<1>2. MetricsInv => MetricsNeverAhead
  BY DEF MetricsInv
<1>3. MetricsInv /\ TypeOK /\ TypeOK' /\ [Next]_vars => MetricsInv'
  BY MetricsStep
<1> QED BY <1>1, <1>2, <1>3, QueriesTypeCorrect, PTL DEF Spec

-----------------------------------------------------------------------------
(* What a page shows.                                                      *)

PageInv ==
    /\ pc = "idle" => page = {}
    /\ ItemShowsItsProduct

LEMMA PageStep ==
    ASSUME PageInv, [Next]_vars PROVE PageInv'
<1> USE DEF PageInv, ItemShowsItsProduct, ProductIds
<1>1. CASE UNCHANGED walkVars
  BY <1>1
<1>2. ASSUME NEW filter \in Filters, NEW limit \in Limits, StartWalk(filter, limit)
      PROVE  PageInv'
  BY <1>2 DEF StartWalk
<1>3. CASE FindIds
  BY <1>3 DEF FindIds
<1>4. CASE FindRows
  BY <1>4 DEF FindRows, StillMatches, Matches
<1>5. CASE LoadProducts
  <2> HIDE DEF ProductIds
  <2>1. PICK keys \in Listings(ProductIds), rows \in Listings(found') :
            products' = [id \in ProductIds |->
                            ByKey(keys, rows)[CHOOSE i \in DOMAIN keys : keys[i] = id]]
    BY <1>5 DEF LoadProducts
  <2>2. ASSUME NEW id \in ProductIds
        PROVE  products'[id] = IF id \in found' THEN id ELSE None
    <3>1. PICK i \in DOMAIN keys : keys[i] = id
      BY DEF Listings
    <3> DEFINE j == CHOOSE k \in DOMAIN keys : keys[k] = id
    <3>2. j \in DOMAIN keys /\ keys[j] = id
      BY <3>1
    <3>3. {rows[k] : k \in DOMAIN rows} = found'
      BY DEF Listings
    <3>4. products'[id] = ByKey(keys, rows)[j]
      BY <2>1
    <3> QED BY <3>2, <3>3, <3>4 DEF ByKey
  <2>3. ProductIds' = ProductIds /\ UNCHANGED <<page, walk>> /\ pc = "products" /\ pc' = "answered"
    BY <1>5 DEF LoadProducts, ProductIds
  <2> QED BY <2>2, <2>3
<1>6. CASE NextPage
  BY <1>6 DEF NextPage
<1> QED
  BY <1>1, <1>2, <1>3, <1>4, <1>5, <1>6 DEF Next, BeginOrder, CommitOrder, FailOrder,
     ProcessOrder, Move, ReadMetric, vars

LEMMA PageAlways == Spec => []PageInv
<1>1. Init => PageInv
  BY DEF Init, PageInv, ItemShowsItsProduct
<1> QED BY <1>1, PageStep, PTL DEF Spec

\* Every item shows its own product, for any order of the keys and the rows.
THEOREM ItemsShowTheirProducts == Spec => []ItemShowsItsProduct
<1>1. PageInv => ItemShowsItsProduct
  BY DEF PageInv
<1> QED BY <1>1, PageAlways, PTL

-----------------------------------------------------------------------------
(* A walk shows every order.                                               *)

\* The orders a walk still owes its client.
Owed == due \ listed

\* They lie at or behind the page the walk is at, and those behind it leave it
\* no room for less than a full page.
WalkInv ==
    pc # "idle" /\ walk.filter.status # "pending" =>
        /\ due \subseteq Matching(walk.filter)
        /\ pc = "ids" => \A o \in Owed : Rank(walk.filter, o) >= walk.offset
        /\ pc \in {"rows", "products", "answered"} =>
               \A o \in Owed :
                   \/ o \in ids
                   \/ /\ Rank(walk.filter, o) >= walk.offset + walk.limit
                      /\ Cardinality(ids) >= walk.limit
        /\ pc = "rows" => ids \subseteq Matching(walk.filter)
        /\ pc \in {"products", "answered"} =>
               page = ids
        /\ pc = "done" => due \subseteq listed

\* An order on the list stays on it, and never moves to an earlier place.
LEMMA PlacesGrow ==
    ASSUME TypeOK, TimesInv, TableStep, UNCHANGED walkVars, walk.filter.status # "pending",
           NEW o \in Matching(walk.filter)
    PROVE  /\ o \in Matching(walk.filter)'
           /\ Rank(walk.filter, o) \in Nat /\ Rank(walk.filter, o)' \in Nat
           /\ Rank(walk.filter, o)' >= Rank(walk.filter, o)
<1>1. ASSUME NEW p \in Matching(walk.filter)
      PROVE  p \in Matching(walk.filter)' /\ created'[p] = created[p]
  <2>1. p \in Orders /\ status[p] # "none" /\ created[p] # 0
    BY DEF Matching, Matches, TimesInv
  <2>2. created'[p] = created[p]
    BY <2>1 DEF TableStep, BeginOrder, CommitOrder, FailOrder, ProcessOrder, Move, TypeOK
  <2>3. status'[p] # "none"
    BY <2>1 DEF TableStep, BeginOrder, CommitOrder, FailOrder, ProcessOrder, Move, TypeOK
  <2>4. walk.filter.status # None => status'[p] = walk.filter.status
    BY <2>1 DEF TableStep, BeginOrder, CommitOrder, FailOrder, ProcessOrder, Move, TypeOK,
                Matching, Matches
  <2> QED BY <2>1, <2>2, <2>3, <2>4 DEF Matching, Matches
<1>2. Newer(walk.filter, o) \in SUBSET Newer(walk.filter, o)'
  BY <1>1 DEF Newer
<1>3. Newer(walk.filter, o) \in SUBSET Orders /\ Newer(walk.filter, o)' \in SUBSET Orders
  BY DEF Newer, Matching
<1> QED BY <1>1, <1>2, <1>3, Smaller, Countable DEF Rank

LEMMA WalkStep ==
    ASSUME WalkInv, TypeOK, TypeOK', TimesInv, [Next]_vars PROVE WalkInv'
<1> SUFFICES ASSUME pc' # "idle", walk'.filter.status # "pending" PROVE WalkInv'
  BY DEF WalkInv
<1>1. CASE TableStep /\ UNCHANGED walkVars
  <2>1. pc # "idle" /\ walk.filter.status # "pending" /\ due \in SUBSET Matching(walk.filter)
    BY <1>1 DEF WalkInv
  <2>2. \A o \in due : /\ o \in Matching(walk.filter)'
                       /\ Rank(walk.filter, o) \in Nat /\ Rank(walk.filter, o)' \in Nat
                       /\ Rank(walk.filter, o)' >= Rank(walk.filter, o)
    BY <1>1, <2>1, PlacesGrow
  <2>3. pc = "rows" => ids \subseteq Matching(walk.filter)'
    BY <1>1, <2>1, PlacesGrow DEF WalkInv
  <2>4. walk.offset \in Nat /\ walk.limit \in Nat
    BY <2>1, LimitsAssumption DEF TypeOK
  <2>5. Owed' = Owed /\ Owed \subseteq due
    BY <1>1 DEF Owed
  <2>6. pc = "ids" => \A o \in Owed : Rank(walk.filter, o)' >= walk.offset
    BY <2>1, <2>2, <2>4, <2>5 DEF WalkInv
  <2>7. pc \in {"rows", "products", "answered"} =>
           \A o \in Owed :
               \/ o \in ids
               \/ /\ Rank(walk.filter, o)' >= walk.offset + walk.limit
                  /\ Cardinality(ids) >= walk.limit
    BY <2>1, <2>2, <2>4, <2>5 DEF WalkInv
  <2> QED BY <1>1, <2>1, <2>2, <2>3, <2>5, <2>6, <2>7 DEF WalkInv
<1>2. ASSUME NEW filter \in Filters, NEW limit \in Limits, StartWalk(filter, limit)
      PROVE  WalkInv'
  <2>1. /\ walk' = [filter |-> filter, limit |-> limit, offset |-> 0]
        /\ due' = Matching(filter) /\ pc' = "ids" /\ UNCHANGED tableVars
    BY <1>2 DEF StartWalk
  <2>2. walk'.filter = filter /\ walk'.offset = 0
    BY <2>1
  <2>3. Matching(walk.filter)' = Matching(filter)
    BY <2>1, <2>2 DEF Matching, Matches
  <2>4. \A o \in due' : Rank(walk.filter, o)' \in Nat
    BY Countable DEF Rank, Newer, Matching
  <2> QED BY <2>1, <2>2, <2>3, <2>4 DEF WalkInv, Owed
<1>3. CASE FindIds
  <2> DEFINE f == walk.filter
             k == walk.offset
             l == walk.limit
  <2>1. pc = "ids" /\ pc' = "rows" /\ UNCHANGED <<tableVars, walk, due, listed, page>>
    BY <1>3 DEF FindIds
  <2>2. k \in Nat /\ l \in Nat \ {0} /\ PageSize(l) = l
    BY <2>1, LimitsAssumption DEF TypeOK, PageSize
  <2>3. ids' = {p \in Matching(f) : Rank(f, p) \in k .. k + l - 1}
    BY <1>3, <2>2 DEF FindIds
  <2>4. ASSUME NEW o \in Owed, o \notin ids'
        PROVE  Rank(f, o) >= k + l /\ Cardinality(ids') >= l
    <3>1. o \in Matching(f) /\ Rank(f, o) >= k
      BY <2>1 DEF WalkInv, Owed
    <3>2. Rank(f, o) \in Nat
      BY Countable DEF Rank, Newer, Matching
    <3>3. Rank(f, o) >= k + l
      BY <2>2, <2>3, <2>4, <3>1, <3>2
    <3>4. l <= Cardinality(ids') /\ Cardinality(ids') \in Nat
      BY <2>2, <2>3, <3>1, <3>3, PageIsFull
    <3> QED BY <2>2, <3>3, <3>4
  <2>5. Matching(walk.filter)' = Matching(f) /\ \A o : Rank(walk.filter, o)' = Rank(f, o)
    BY <2>1 DEF Matching, Matches, Rank, Newer
  <2>6. Owed' = Owed /\ due \subseteq Matching(f)
    BY <2>1 DEF Owed, WalkInv
  <2> QED BY <2>1, <2>3, <2>4, <2>5, <2>6 DEF WalkInv
<1>4. CASE FindRows
  <2>1. pc = "rows" /\ pc' = "products" /\ UNCHANGED <<tableVars, walk, due, listed, ids>>
    BY <1>4 DEF FindRows
  <2>2. ids \in SUBSET Orders /\ \A o \in ids : StillMatches(o)
    BY <2>1 DEF WalkInv, Matching, StillMatches
  <2>3. page' = ids
    BY <1>4, <2>2 DEF FindRows
  <2>4. Matching(walk.filter)' = Matching(walk.filter)
        /\ \A o : Rank(walk.filter, o)' = Rank(walk.filter, o)
    BY <2>1 DEF Matching, Matches, Rank, Newer
  <2>5. Owed' = Owed
    BY <2>1 DEF Owed
  <2> QED BY <2>1, <2>3, <2>4, <2>5 DEF WalkInv
<1>5. CASE LoadProducts
  <2>1. pc = "products" /\ pc' = "answered"
        /\ UNCHANGED <<tableVars, walk, due, listed, ids, page>>
    BY <1>5 DEF LoadProducts
  <2> QED BY <2>1 DEF WalkInv, Matching, Matches, Rank, Newer, Owed
<1>6. CASE NextPage
  <2>1. /\ pc = "answered" /\ UNCHANGED <<tableVars, due>> /\ listed' = listed \cup page
        /\ walk'.filter = walk.filter
    <3>1. walk \in [filter : Filters, limit : 1 .. MaxLimit, offset : Nat]
      BY <1>6 DEF NextPage, TypeOK
    <3> QED BY <1>6, <3>1 DEF NextPage
  <2>2. page = ids /\ Cardinality(ids) \in Nat
        /\ walk.limit \in Nat
    BY <2>1, Countable, LimitsAssumption DEF WalkInv, TypeOK
  <2>3. Owed' \subseteq Owed /\ \A o \in Owed' : o \notin ids
    BY <2>1, <2>2 DEF Owed
  <2>4. \A o \in Owed' : /\ Rank(walk.filter, o) >= walk.offset + walk.limit
                         /\ Cardinality(ids) >= walk.limit
    BY <2>1, <2>3 DEF WalkInv
  <2>5. Matching(walk.filter)' = Matching(walk.filter)
        /\ \A o : Rank(walk.filter, o)' = Rank(walk.filter, o)
    BY <2>1 DEF Matching, Matches, Rank, Newer
  <2>6. CASE Cardinality(page) < walk.limit
    <3>1. Owed' = {} /\ pc' = "done"
      BY <1>6, <2>2, <2>4, <2>6 DEF NextPage
    <3> QED BY <2>1, <2>5, <3>1 DEF WalkInv, Owed
  <2>7. CASE ~ (Cardinality(page) < walk.limit)
    <3>1. pc' = "ids" /\ walk' = [walk EXCEPT !.offset = @ + walk.limit]
      BY <1>6, <2>7 DEF NextPage
    <3>2. walk'.offset = walk.offset + walk.limit
      BY <2>1, <3>1 DEF TypeOK
    <3> QED BY <2>1, <2>4, <2>5, <3>1, <3>2 DEF WalkInv
  <2> QED BY <2>6, <2>7
<1>7. CASE UNCHANGED <<tableVars, walkVars>>
  BY <1>7 DEF WalkInv, Matching, Matches, Rank, Newer, Owed
<1> QED
  BY <1>1, <1>2, <1>3, <1>4, <1>5, <1>6, <1>7, StepKinds DEF Next, TableStep, BeginOrder,
     CommitOrder, FailOrder, ProcessOrder, Move, ReadMetric, vars

\* A finished walk has shown every order that was on the list when it began,
\* for any number of orders and any page size.
THEOREM WalksAreComplete == Spec => []WalkIsComplete
<1>1. Init => TimesInv /\ WalkInv
  BY DEF Init, TimesInv, WalkInv
<1>2. WalkInv => WalkIsComplete
  BY DEF WalkInv, WalkIsComplete
<1>3. TimesInv /\ WalkInv /\ TypeOK /\ TypeOK' /\ [Next]_vars => TimesInv' /\ WalkInv'
  BY TimesStep, WalkStep
<1> QED BY <1>1, <1>2, <1>3, QueriesTypeCorrect, PTL DEF Spec

====
