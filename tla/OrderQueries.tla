---- MODULE OrderQueries ----
(***************************************************************************)
(* The reading side: a GraphQL client that walks the list of orders page   *)
(* by page (findOrders, then the products of the items through the         *)
(* DataLoader), and the scraper of getMetrics, over tables that change all *)
(* the while.                                                              *)
(*                                                                         *)
(* Every read is several statements without a transaction around them, so  *)
(* each statement sees the tables of its own moment.                       *)
(***************************************************************************)
EXTENDS Integers, FiniteSets, Sequences

CONSTANTS Orders, Products,
          ItemsOf,      \* the products of an order's items, in order
          Filters,      \* [status, from, to]: the filters the client may use
          Limits,       \* the page sizes it may ask for
          MaxLimit,     \* 100
          None          \* no status, no product, no walk

ASSUME OrdersAssumption == IsFiniteSet(Orders)
ASSUME ItemsAssumption == ItemsOf \in [Orders -> Seq(Products)] /\ None \notin Products
ASSUME LimitsAssumption == Limits \subseteq Int /\ MaxLimit \in Nat \ {0}

Statuses == {"pending", "processed", "failed"}

VARIABLES clock,        \* now(): no two transactions start at one instant
          created,      \* orders.createdAt, 0 before the transaction starts
          status,       \* orders.status, "none" before the commit
          processedMessages,    \* rows of processed_messages
          pc,           \* where the walk is
          walk,         \* [filter, limit, offset]
          due,          \* the orders that matched when the walk began
          listed,       \* the orders it has been shown
          ids,          \* the orders on the page it has asked for
          page,         \* the orders whose rows came back for it
          found,        \* the products whose rows came back for it
          products,     \* the product shown for each productId of the page
          metrics       \* [reads, processed, messages]

tableVars == <<clock, created, status, processedMessages>>
walkVars  == <<pc, walk, due, listed, ids, page, found, products>>
vars      == <<tableVars, walkVars, metrics>>

Places == {"idle", "ids", "rows", "products", "answered", "done"}

Init ==
    /\ clock = 0
    /\ created = [o \in Orders |-> 0]
    /\ status = [o \in Orders |-> "none"]
    /\ processedMessages = {}
    /\ pc = "idle"
    /\ walk = None
    /\ due = {} /\ listed = {} /\ ids = {} /\ page = {} /\ found = {}
    /\ products = <<>>
    /\ metrics = [reads |-> 0, processed |-> 0, messages |-> 0]

-----------------------------------------------------------------------------
(* The tables, as createOrder, failOrderAndReleaseStock and the worker     *)
(* change them.                                                            *)

\* createdAt is the time of the transaction's start, not of its commit.
BeginOrder(o) ==
    /\ created[o] = 0
    /\ clock' = clock + 1
    /\ created' = [created EXCEPT ![o] = clock']
    /\ UNCHANGED <<status, processedMessages, walkVars, metrics>>

Move(o, from, to) ==
    /\ status[o] = from
    /\ status' = [status EXCEPT ![o] = to]
    /\ UNCHANGED <<clock, created, walkVars, metrics>>

CommitOrder(o) ==
    created[o] # 0 /\ Move(o, "none", "pending") /\ UNCHANGED processedMessages

FailOrder(o) == Move(o, "pending", "failed") /\ UNCHANGED processedMessages

ProcessOrder(o) ==
    /\ Move(o, "pending", "processed")
    /\ processedMessages' = processedMessages \cup {o}

-----------------------------------------------------------------------------
(* findOrders, once per page.                                              *)

\* The validation of OrdersPaginationInput.
ValidLimit(limit) == limit \in 1 .. MaxLimit

\* findOrders clamps what it gets and tells nobody.
PageSize(limit) ==
    IF limit < 1 THEN 1 ELSE IF limit > MaxLimit THEN MaxLimit ELSE limit

Matches(filter, o) ==
    /\ status[o] # "none"
    /\ filter.status # None => status[o] = filter.status
    /\ created[o] \in filter.from .. filter.to

Matching(filter) == {o \in Orders : Matches(filter, o)}

Newer(filter, o) == {p \in Matching(filter) : created[p] > created[o]}

\* Mutant: limit and offset count the rows of the join with the items.
RankOfRows(filter, o) ==
    Cardinality(UNION {{p} \X DOMAIN ItemsOf[p] : p \in Newer(filter, o)})

\* The place of an order in the list, newest first.
Rank(filter, o) == Cardinality(Newer(filter, o))

StartWalk(filter, limit) ==
    /\ pc = "idle"
    /\ ValidLimit(limit)
    /\ walk' = [filter |-> filter, limit |-> limit, offset |-> 0]
    /\ due' = Matching(filter)
    /\ pc' = "ids"
    /\ UNCHANGED <<tableVars, listed, ids, page, found, products, metrics>>

\* The first statement of getMany, for take and skip: the ids of the page.
FindIds ==
    /\ pc = "ids"
    /\ ids' = {o \in Matching(walk.filter) :
                  Rank(walk.filter, o) \in
                      walk.offset .. walk.offset + PageSize(walk.limit) - 1}
    /\ pc' = "rows"
    /\ UNCHANGED <<tableVars, walk, due, listed, page, found, products, metrics>>

\* The second statement asks for the filter once more: an order that stopped
\* matching since the first is missing, and the page is shorter than its ids.
StillMatches(o) == Matches(walk.filter, o)

FindRows ==
    /\ pc = "rows"
    /\ page' = {o \in ids : StillMatches(o)}
    /\ pc' = "products"
    /\ UNCHANGED <<tableVars, walk, due, listed, ids, found, products, metrics>>

-----------------------------------------------------------------------------
(* The field product of every item: one DataLoader per request, which      *)
(* gathers the ids of the page and hands each over once.                   *)

ProductIds == UNION {{ItemsOf[o][i] : i \in DOMAIN ItemsOf[o]} : o \in page}

\* S as a sequence, in any order.
Listings(S) == {f \in [1 .. Cardinality(S) -> S] : {f[i] : i \in DOMAIN f} = S}

\* Mutant: the rows as the database returned them.
AsReturned(keys, rows) ==
    [i \in DOMAIN keys |-> IF i \in DOMAIN rows THEN rows[i] ELSE None]

\* The batch function: for each key its row or null, in the order of the keys.
ByKey(keys, rows) ==
    [i \in DOMAIN keys |->
        IF keys[i] \in {rows[j] : j \in DOMAIN rows} THEN keys[i] ELSE None]

\* The database returns the rows of findBy in any order, and fewer than the keys
\* when some have none.  (The foreign key of the items, ON DELETE RESTRICT, keeps
\* the row of every product; the loader does not rely on it, and no more does
\* the model.)
LoadProducts ==
    /\ pc = "products"
    /\ found' \in SUBSET ProductIds
    /\ \E keys \in Listings(ProductIds), rows \in Listings(found') :
          products' = [id \in ProductIds |->
                          ByKey(keys, rows)[CHOOSE i \in DOMAIN keys : keys[i] = id]]
    /\ pc' = "answered"
    /\ UNCHANGED <<tableVars, walk, due, listed, ids, page, metrics>>

\* The client asks for the next page unless this one was short.
NextPage ==
    /\ pc = "answered"
    /\ listed' = listed \cup page
    /\ IF Cardinality(page) < walk.limit
       THEN pc' = "done" /\ UNCHANGED walk
       ELSE pc' = "ids" /\ walk' = [walk EXCEPT !.offset = @ + walk.limit]
    /\ ids' = {} /\ page' = {} /\ found' = {} /\ products' = <<>>
    /\ UNCHANGED <<tableVars, due, metrics>>

-----------------------------------------------------------------------------
(* getMetrics: two counts, one after the other.                            *)

\* Mutant: processed_messages is counted first.
MessagesFirst == <<"messages", "processed">>

Counts == <<"processed", "messages">>

Processed == {o \in Orders : status[o] = "processed"}

CountOf(field) ==
    Cardinality(IF field = "messages" THEN processedMessages ELSE Processed)

Reading(field, n) == IF Counts[n] = field THEN CountOf(field) ELSE metrics[field]

ReadMetric ==
    /\ LET n == IF metrics.reads = 1 THEN 2 ELSE 1
       IN  metrics' = [reads     |-> n,
                       processed |-> Reading("processed", n),
                       messages  |-> Reading("messages", n)]
    /\ UNCHANGED <<tableVars, walkVars>>

-----------------------------------------------------------------------------

Next ==
    \/ \E o \in Orders : BeginOrder(o) \/ CommitOrder(o) \/ FailOrder(o) \/ ProcessOrder(o)
    \/ \E filter \in Filters, limit \in Limits : StartWalk(filter, limit)
    \/ FindIds \/ FindRows \/ LoadProducts \/ NextPage
    \/ ReadMetric

Spec == Init /\ [][Next]_vars

-----------------------------------------------------------------------------
(* Properties.                                                             *)

\* Every variable has its type.
TypeOK ==
    /\ clock \in Nat
    /\ created \in [Orders -> 0 .. clock]
    /\ status \in [Orders -> Statuses \cup {"none"}]
    /\ processedMessages \subseteq Orders
    /\ pc \in Places
    /\ pc # "idle" => walk \in [filter : Filters, limit : 1 .. MaxLimit, offset : Nat]
    /\ due \subseteq Orders /\ listed \subseteq Orders /\ ids \subseteq Orders
    /\ page \subseteq Orders /\ found \subseteq Products
    /\ \A id \in DOMAIN products : products[id] \in Products \cup {None}
    /\ metrics \in [reads : 0 .. 2, processed : Nat, messages : Nat]

\* A walk shows every order that matched when it began, whatever is created,
\* processed or failed between its pages or between the two statements of one:
\* new orders only push older ones to later pages.  (Orders leave the list of the pending ones, and a walk of
\* those may miss some.)
WalkIsComplete ==
    pc = "done" /\ walk.filter.status # "pending" => due \subseteq listed

\* Every item shows the product it is of, whatever the order of the rows, and no
\* product when there is no row for it, whichever others are missing.
ItemShowsItsProduct ==
    pc = "answered" =>
        \A id \in ProductIds : products[id] = IF id \in found THEN id ELSE None

\* A scrape never reports more processed orders than processed messages.
MetricsNeverAhead == metrics.reads = 2 => metrics.processed <= metrics.messages

====
