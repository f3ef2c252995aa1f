------------------------- MODULE StatusPagesProofs --------------------------
(***************************************************************************)
(* StatusPages: type correctness, that the buttons send no campaign        *)
(* without an approval, and that a list answered in order shows what is    *)
(* stored on a page that exists, for any number of rows, page sizes, steps *)
(* and faults.                                                             *)
(*                                                                         *)
(* The handlers do not look at the status a row has, so OnlyApprovedSent   *)
(* rests on what lists and requests can contain: every status in a list,   *)
(* in an answer on its way or behind a button pressed is one the row has   *)
(* had, and only a row that was approved ever offers to be sent.  A row    *)
(* set to sending without the page is in direct, and offers nothing.       *)
(***************************************************************************)
EXTENDS StatusPages, FiniteSetTheorems, TLAPS

ItemsOK(items) == \A item \in items : item.status \in had[item.row]

\* Lists, shown or on their way, hold statuses that their rows have had.
ListsOK ==
    /\ ItemsOK(page.list.items)
    /\ \A i \in DOMAIN loads : \A reply \in loads[i].reply : ItemsOK(reply.items)

\* A change on its way was offered for a status the row has had.
UpdateOK(u) ==
    IF u.row = 0 THEN u.to = First ELSE \E s \in had[u.row] : u.to \in Offered(s)

UpdatesOK == \A i \in DOMAIN updates : UpdateOK(updates[i])

\* At most one creation is on its way, and there is room for its row.
CreationOK ==
    \A i \in DOMAIN updates : updates[i].row = 0 =>
        /\ rows < MaxRows
        /\ \A j \in DOMAIN updates : updates[j].row = 0 => i = j

\* A row has had the status it has, and was approved before the buttons sent it.
HistoryOK ==
    \A r \in RowIds :
        /\ status[r] \in had[r]
        /\ "sending" \in had[r] => "approved" \in had[r] \/ r \in direct

IndInv == TypeOK /\ ListsOK /\ UpdatesOK /\ CreationOK /\ HistoryOK

-----------------------------------------------------------------------------
\* What is offered for a status of a page is a status of that page, and sending
\* is offered for approved campaigns only.
LEMMA OfferedFacts ==
    ASSUME kind \in Kinds, NEW s, NEW to \in Offered(s)
    PROVE  to \in Statuses /\ (to = "sending" => s = "approved")
BY DEF Kinds, Offered, Statuses, CampaignStatuses, QueueStatuses, TenantStatuses

LEMMA FirstFacts ==
    ASSUME kind \in Kinds
    PROVE  First \in Statuses /\ First # "sending"
BY DEF Kinds, First, Statuses, CampaignStatuses, QueueStatuses, TenantStatuses

\* An answer holds stored rows with the statuses they have.
LEMMA AnswerFacts ==
    ASSUME rows \in 0..MaxRows, status \in [RowIds -> Statuses], HistoryOK, NEW q \in Query
    PROVE  Answer(q) \in Reply /\ ItemsOK(Answer(q).items)
<1>1. Matching(q.filter) \subseteq RowIds
  BY StatusPagesConstants DEF Matching, RowIds
<1>2. Cardinality(Matching(q.filter)) \in Nat
  <2>1. IsFiniteSet(1..MaxRows)
    BY FS_Interval, StatusPagesConstants
  <2> QED BY <1>1, <2>1, FS_Subset, FS_CardinalityType DEF RowIds
<1>3. ASSUME NEW item \in Answer(q).items
      PROVE  item \in Item /\ item.status \in had[item.row]
  <2>1. PICK r \in Matching(q.filter) : item = [row |-> r, status |-> status[r]]
    BY <1>3 DEF Answer
  <2> QED BY <2>1, <1>1 DEF HistoryOK, Item
<1>4. Answer(q).total = Cardinality(Matching(q.filter)) /\ Answer(q) = [items |-> Answer(q).items, total |-> Answer(q).total]
  BY DEF Answer
<1> QED BY <1>2, <1>3, <1>4 DEF Reply, ItemsOK

\* Taking one request out of a sequence keeps the others.
LEMMA WithoutFacts ==
    ASSUME NEW S, NEW s \in Seq(S), NEW i \in DOMAIN s
    PROVE  /\ Without(s, i) \in Seq(S)
           /\ DOMAIN Without(s, i) = 1..(Len(s) - 1)
           /\ \A j \in DOMAIN Without(s, i) :
                 \E k \in DOMAIN s : Without(s, i)[j] = s[k] /\ k = IF j < i THEN j ELSE j + 1
<1>1. Len(s) \in Nat /\ DOMAIN s = 1..Len(s) /\ Len(s) - 1 \in Nat OBVIOUS
<1>2. DOMAIN Without(s, i) = 1..(Len(s) - 1) BY DEF Without
<1>3. ASSUME NEW j \in 1..(Len(s) - 1)
      PROVE \E k \in DOMAIN s : Without(s, i)[j] = s[k] /\ k = IF j < i THEN j ELSE j + 1
  BY <1>1 DEF Without
<1>4. \A j \in 1..(Len(s) - 1) : Without(s, i)[j] \in S BY <1>3
<1>5. Without(s, i) \in Seq(S)
  BY <1>1, <1>4 DEF Without
<1> QED BY <1>2, <1>3, <1>5

\* The page does not change, and with it its statuses and buttons.
LEMMA SameKind ==
    ASSUME kind' = kind
    PROVE  /\ Statuses' = Statuses /\ First' = First
           /\ Item' = Item /\ Reply' = Reply /\ Load' = Load /\ Update' = Update /\ Page' = Page
           /\ \A s : Offered(s)' = Offered(s)
<1>1. Statuses' = Statuses /\ First' = First BY DEF Statuses, First
<1>2. Item' = Item /\ Update' = Update BY <1>1 DEF Item, Update
<1>3. Reply' = Reply BY <1>2 DEF Reply
<1>4. Load' = Load /\ Page' = Page BY <1>3 DEF Load, Page
<1>5. \A s : Offered(s)' = Offered(s) BY DEF Offered
<1> QED BY <1>1, <1>2, <1>3, <1>4, <1>5

LEMMA KindStep == ASSUME [Next]_vars PROVE kind' = kind
<1>1. ASSUME AnswerStep PROVE kind' = kind
  BY <1>1 DEF AnswerStep, ListRead, ListArrives, ListFails, UpdateSucceeds, UpdateFails, System, Fault
<1>2. ASSUME PersonStep PROVE kind' = kind
  BY <1>2 DEF PersonStep, ChangeFilter, GoToPage, SetSize, Turn, ChangeStatus, Create, Ask,
              OtherChanges, OtherWrites, Person
<1> QED BY <1>1, <1>2 DEF Next, vars

-----------------------------------------------------------------------------
\* Storing a status that was offered, or is noted in direct, keeps the history of
\* the rows.
LEMMA StoredFacts ==
    ASSUME IndInv, kind' = kind, direct \subseteq direct',
           NEW r \in RowIds \cup {0}, NEW to \in Statuses,
           r = 0 => to = First /\ rows < MaxRows,
           r # 0 => (to = "sending" => r \in direct') \/ \E s \in had[r] : to \in Offered(s),
           Stored(r, to)
    PROVE  /\ rows' \in 0..MaxRows /\ rows' >= rows
           /\ r # 0 => rows' = rows
           /\ status' \in [RowIds -> Statuses] /\ had' \in [RowIds -> SUBSET Statuses]
           /\ shrunk' \in BOOLEAN
           /\ \A x \in RowIds : had[x] \subseteq had'[x]
           /\ HistoryOK'
<1> DEFINE id == IF r = 0 THEN rows + 1 ELSE r
<1>1. rows \in 0..MaxRows /\ MaxRows \in Nat
  BY StatusPagesConstants DEF IndInv, TypeOK
<1>2. id \in RowIds BY <1>1 DEF RowIds
<1>3. rows' = (IF r = 0 THEN rows + 1 ELSE rows) /\ status' = [status EXCEPT ![id] = to]
      /\ had' = [had EXCEPT ![id] = @ \cup {to}] /\ shrunk' \in BOOLEAN
  BY DEF Stored, IndInv, TypeOK
<1> HIDE DEF id
<1>4. status \in [RowIds -> Statuses] /\ had \in [RowIds -> SUBSET Statuses] /\ kind \in Kinds
  BY DEF IndInv, TypeOK
<1>5. rows' \in 0..MaxRows /\ rows' >= rows /\ (r # 0 => rows' = rows) BY <1>1, <1>3
<1>6. status' \in [RowIds -> Statuses] /\ had' \in [RowIds -> SUBSET Statuses]
      /\ \A x \in RowIds : had[x] \subseteq had'[x]
  BY <1>2, <1>3, <1>4
<1>7. to = "sending" => "approved" \in had[id] \/ id \in direct'
  <2>1. CASE r = 0 BY <2>1, <1>4, FirstFacts
  <2>2. CASE r # 0 /\ (to = "sending" => r \in direct') BY <2>2 DEF id
  <2>3. CASE r # 0 /\ \E s \in had[r] : to \in Offered(s)
    <3>1. PICK s \in had[r] : to \in Offered(s) BY <2>3
    <3>2. to = "sending" => s = "approved" BY <3>1, <1>4, OfferedFacts
    <3> QED BY <2>3, <3>1, <3>2 DEF id
  <2> QED BY <2>1, <2>2, <2>3
<1>8. HistoryOK'
  <2> SUFFICES ASSUME NEW x \in RowIds
               PROVE  /\ status'[x] \in had'[x]
                      /\ "sending" \in had'[x] => "approved" \in had'[x] \/ x \in direct'
    BY DEF HistoryOK, RowIds
  <2>1. /\ status[x] \in had[x]
        /\ "sending" \in had[x] => "approved" \in had[x] \/ x \in direct'
    BY DEF IndInv, HistoryOK
  <2> QED BY <2>1, <1>2, <1>3, <1>4, <1>7
<1> QED BY <1>3, <1>5, <1>6, <1>8

\* What lists hold stays true while the rows' histories grow.
LEMMA Grows ==
    ASSUME IndInv, \A x \in RowIds : had[x] \subseteq had'[x]
    PROVE  \A items \in SUBSET Item : ItemsOK(items) => ItemsOK(items)'
BY DEF ItemsOK, Item

\* So the updates under way stay what rows offered.
LEMMA UpdatesKept ==
    ASSUME kind' = kind, \A x \in RowIds : had[x] \subseteq had'[x],
           updates' \in Seq(Update), \A j \in DOMAIN updates' : UpdateOK(updates'[j])
    PROVE  UpdatesOK'
<1> SUFFICES ASSUME NEW j \in DOMAIN updates'
             PROVE  IF updates'[j].row = 0 THEN updates'[j].to = First'
                    ELSE \E s \in had'[updates'[j].row] : updates'[j].to \in Offered(s)'
  BY DEF UpdatesOK, UpdateOK
<1>1. updates'[j] \in Update /\ UpdateOK(updates'[j]) OBVIOUS
<1>2. updates'[j].row \in RowIds \cup {0} BY <1>1 DEF Update
<1>3. CASE updates'[j].row = 0 BY <1>1, <1>3, SameKind DEF UpdateOK
<1>4. CASE updates'[j].row # 0
  <2>1. PICK s \in had[updates'[j].row] : updates'[j].to \in Offered(s) BY <1>1, <1>4 DEF UpdateOK
  <2>2. s \in had'[updates'[j].row] /\ updates'[j].to \in Offered(s)' BY <2>1, <1>2, <1>4, SameKind
  <2> QED BY <1>4, <2>2
<1> QED BY <1>3, <1>4

-----------------------------------------------------------------------------
\* New list requests have no reply yet.
LEMMA RequestsFacts ==
    ASSUME TypeOK, NEW qs \in Seq(Query)
    PROVE  /\ loads \o Requests(qs) \in Seq(Load)
           /\ \A i \in DOMAIN (loads \o Requests(qs)) :
                 \/ i \in DOMAIN loads /\ (loads \o Requests(qs))[i] = loads[i]
                 \/ (loads \o Requests(qs))[i].reply = {}
<1>1. Requests(qs) \in Seq(Load) /\ \A i \in DOMAIN Requests(qs) : Requests(qs)[i].reply = {}
  <2>1. Len(qs) \in Nat /\ DOMAIN qs = 1..Len(qs) OBVIOUS
  <2>2. \A i \in 1..Len(qs) : [query |-> qs[i], reply |-> {}] \in Load BY DEF Load
  <2>3. Requests(qs) = [i \in 1..Len(qs) |-> [query |-> qs[i], reply |-> {}]] BY <2>1 DEF Requests
  <2> QED BY <2>1, <2>2, <2>3
<1>2. loads \in Seq(Load) BY DEF TypeOK
<1> QED BY <1>1, <1>2

\* Changing the filter, the page or the size keeps the invariant.
LEMMA TurnStep ==
    ASSUME IndInv, NEW qs \in Seq(Query), qs # << >>, Turn(qs),
           shrunk' \in BOOLEAN, strayed' \in BOOLEAN
    PROVE  IndInv'
<1>0. TypeOK /\ kind' = kind BY DEF IndInv, Turn, Person
<1>1. UNCHANGED <<kind, rows, status, had, updates, foreign, direct, faults>> BY DEF Turn, Person
<1>2. qs[Len(qs)] \in Query OBVIOUS
<1>3. page' = [page EXCEPT !.query = qs[Len(qs)], !.loading = TRUE] BY DEF Turn
<1>4. page' \in Page /\ page'.list = page.list BY <1>0, <1>2, <1>3 DEF TypeOK, Page
<1>5. loads' \in Seq(Load)
      /\ \A i \in DOMAIN loads' : (i \in DOMAIN loads /\ loads'[i] = loads[i]) \/ loads'[i].reply = {}
  BY <1>0, RequestsFacts DEF Turn
<1>6. disorder' \in BOOLEAN BY <1>0 DEF Turn, Restarted, TypeOK
<1>7. ops' \in 0..MaxOps BY <1>0, StatusPagesConstants DEF Turn, Person, TypeOK
<1>8. TypeOK' BY <1>0, <1>1, <1>4, <1>5, <1>6, <1>7, SameKind DEF TypeOK
<1>9. ListsOK' BY <1>1, <1>4, <1>5 DEF IndInv, ListsOK, ItemsOK
<1>10. UpdatesOK' BY <1>0, <1>1, SameKind DEF IndInv, UpdatesOK, UpdateOK
<1>11. CreationOK' /\ HistoryOK' BY <1>1 DEF IndInv, CreationOK, HistoryOK
<1> QED BY <1>8, <1>9, <1>10, <1>11 DEF IndInv

LEMMA FieldFacts ==
    ASSUME NEW q \in Query, NEW f \in AllStatuses \cup {"all"}, NEW n \in Nat \ {0}, NEW z \in Sizes
    PROVE  /\ [q EXCEPT !.filter = f] \in Query
           /\ [q EXCEPT !.number = n] \in Query
           /\ [q EXCEPT !.size = z] \in Query
BY DEF Query

LEMMA QueryFacts ==
    ASSUME NEW q \in Query, NEW f \in AllStatuses \cup {"all"}, NEW n \in Nat \ {0}, NEW z \in Sizes
    PROVE  /\ [q EXCEPT !.filter = f] \in Query
           /\ [q EXCEPT !.number = n] \in Query
           /\ [q EXCEPT !.filter = f, !.number = 1] \in Query
           /\ [q EXCEPT !.size = z, !.number = 1] \in Query
<1>1. PICK q1 \in Query : q1 = [q EXCEPT !.filter = f] BY FieldFacts
<1>2. PICK q2 \in Query : q2 = [q EXCEPT !.size = z] BY FieldFacts
<1>3. [q1 EXCEPT !.number = 1] \in Query /\ [q2 EXCEPT !.number = 1] \in Query BY DEF Query
<1>4. [q EXCEPT !.filter = f, !.number = 1] = [q1 EXCEPT !.number = 1] BY <1>1
<1>5. [q EXCEPT !.size = z, !.number = 1] = [q2 EXCEPT !.number = 1] BY <1>2
<1> QED BY <1>3, <1>4, <1>5, FieldFacts

\* The sequence of queries that a new filter, page or size renders.
LEMMA RenderedFacts ==
    ASSUME TypeOK, NEW f \in AllStatuses \cup {"all"}
    PROVE  Rendered(page.query, f) \in Seq(Query) /\ Rendered(page.query, f) # << >>
<1>1. page.query \in Query BY DEF TypeOK, Page
<1>2. [page.query EXCEPT !.filter = f] \in Query /\ [page.query EXCEPT !.filter = f, !.number = 1] \in Query
  <2>1. page.query.size \in Sizes /\ page.query.number \in Nat \ {0} BY <1>1 DEF Query
  <2> QED BY <1>1, <2>1, QueryFacts
<1> QED BY <1>2 DEF Rendered

LEMMA FilterStep == ASSUME IndInv, NEW f \in Statuses \cup {"all"}, ChangeFilter(f) PROVE IndInv'
<1>1. TypeOK /\ f \in AllStatuses \cup {"all"} BY DEF IndInv, TypeOK, Kinds, Statuses, AllStatuses
<1>2. Rendered(page.query, f) \in Seq(Query) /\ Rendered(page.query, f) # << >> BY <1>1, RenderedFacts
<1> QED BY <1>2, TurnStep DEF ChangeFilter

LEMMA PageStep == ASSUME IndInv, NEW n \in 1..MaxRows, GoToPage(n) PROVE IndInv'
<1>0. page.query \in Query /\ n \in Nat \ {0} BY StatusPagesConstants DEF IndInv, TypeOK, Page
<1>1. << [page.query EXCEPT !.number = n] >> \in Seq(Query)
  <2>1. page.query.size \in Sizes BY <1>0 DEF Query
  <2>2. [page.query EXCEPT !.number = n] \in Query BY <1>0, <2>1, QueryFacts
  <2> QED BY <2>2
<1>2. shrunk' \in BOOLEAN /\ strayed' \in BOOLEAN BY DEF GoToPage, IndInv, TypeOK
<1>3. << [page.query EXCEPT !.number = n] >> # << >> OBVIOUS
<1> QED BY <1>1, <1>2, <1>3, TurnStep DEF GoToPage

LEMMA SizeStep == ASSUME IndInv, NEW z \in Sizes, SetSize(z) PROVE IndInv'
<1>0. page.query \in Query BY DEF IndInv, TypeOK, Page
<1>1. << [page.query EXCEPT !.size = z, !.number = 1] >> \in Seq(Query)
  <2>1. page.query.number \in Nat \ {0} /\ page.query.filter \in AllStatuses \cup {"all"}
    BY <1>0 DEF Query
  <2>2. [page.query EXCEPT !.size = z, !.number = 1] \in Query BY <1>0, <2>1, QueryFacts
  <2> QED BY <2>2
<1>2. shrunk' \in BOOLEAN /\ strayed' \in BOOLEAN BY DEF SetSize
<1>3. << [page.query EXCEPT !.size = z, !.number = 1] >> # << >> OBVIOUS
<1> QED BY <1>1, <1>2, <1>3, TurnStep DEF SetSize

-----------------------------------------------------------------------------
\* Reading, showing or losing a list keeps the invariant.
LEMMA ReadStep == ASSUME IndInv, NEW i \in DOMAIN loads, ListRead(i) PROVE IndInv'
<1>0. TypeOK /\ HistoryOK /\ kind' = kind BY DEF IndInv, ListRead, System
<1>1. UNCHANGED <<kind, rows, status, had, page, updates, disorder, shrunk, strayed, direct, ops, faults>>
  BY DEF ListRead, System
<1>2. loads \in Seq(Load) /\ loads[i] \in Load /\ loads[i].query \in Query
  <2>1. loads \in Seq(Load) /\ loads[i] \in Load BY <1>0 DEF TypeOK
  <2> QED BY <2>1 DEF Load
<1>3. PICK a \in Reply : a = Answer(loads[i].query) /\ ItemsOK(a.items)
  BY <1>0, <1>2, AnswerFacts DEF TypeOK
<1>4. loads' = [loads EXCEPT ![i].reply = {a}] BY <1>3 DEF ListRead
<1>5. [loads[i] EXCEPT !.reply = {a}] \in Load BY <1>2, <1>3 DEF Load
<1>6. loads' \in Seq(Load) /\ DOMAIN loads' = DOMAIN loads
      /\ \A j \in DOMAIN loads : j # i => loads'[j] = loads[j]
  BY <1>2, <1>4, <1>5
<1>7. loads'[i].reply = {a} BY <1>2, <1>4 DEF Load
<1>8. foreign' \in BOOLEAN BY <1>0 DEF ListRead, TypeOK
<1>9. TypeOK' BY <1>0, <1>1, <1>6, <1>8, SameKind DEF TypeOK
<1>10. ListsOK' BY <1>1, <1>3, <1>6, <1>7 DEF IndInv, ListsOK, ItemsOK
<1>11. UpdatesOK' BY <1>0, <1>1, SameKind DEF IndInv, UpdatesOK, UpdateOK
<1>12. CreationOK' /\ HistoryOK' BY <1>1 DEF IndInv, CreationOK, HistoryOK
<1> QED BY <1>9, <1>10, <1>11, <1>12 DEF IndInv

\* A request leaves: those that remain were there before.
LEMMA LoadsLeft ==
    ASSUME IndInv, NEW i \in DOMAIN loads, loads' = Without(loads, i), had' = had, kind' = kind
    PROVE  /\ loads' \in Seq(Load)
           /\ \A j \in DOMAIN loads' : \A reply \in loads'[j].reply : ItemsOK(reply.items)'
<1>1. loads \in Seq(Load) BY DEF IndInv, TypeOK
<1>2. loads' \in Seq(Load) /\ \A j \in DOMAIN loads' : \E k \in DOMAIN loads : loads'[j] = loads[k]
  BY <1>1, WithoutFacts
<1> QED BY <1>2 DEF IndInv, ListsOK, ItemsOK

LEMMA ArriveStep == ASSUME IndInv, NEW i \in DOMAIN loads, ListArrives(i) PROVE IndInv'
<1>0. TypeOK /\ kind' = kind BY DEF IndInv, ListArrives, System
<1>1. UNCHANGED <<kind, rows, status, had, updates, foreign, shrunk, strayed, direct, ops, faults>>
  BY DEF ListArrives, System
<1>2. loads[i] \in Load BY <1>0 DEF TypeOK
<1>3. PICK reply \in loads[i].reply :
        page' = [page EXCEPT !.list = reply, !.shown = loads[i].query, !.loading = FALSE]
  BY DEF ListArrives
<1>4. page' \in Page /\ page'.list = reply
  <2>1. reply \in Reply /\ loads[i].query \in Query BY <1>2, <1>3 DEF Load
  <2>2. page \in Page BY <1>0 DEF TypeOK
  <2>3. PICK p1 \in Page : p1 = [page EXCEPT !.list = reply] /\ p1.list = reply
    <3>1. [page EXCEPT !.list = reply] \in Page BY <2>1, <2>2 DEF Page
    <3>2. [page EXCEPT !.list = reply].list = reply BY <2>2 DEF Page
    <3> QED BY <3>1, <3>2
  <2>4. PICK p2 \in Page : p2 = [p1 EXCEPT !.shown = loads[i].query] /\ p2.list = reply
    BY <2>1, <2>3 DEF Page
  <2>5. PICK p3 \in Page : p3 = [p2 EXCEPT !.loading = FALSE] /\ p3.list = reply
    BY <2>4 DEF Page
  <2> QED BY <1>3, <2>3, <2>4, <2>5
<1>5. ItemsOK(page'.list.items) BY <1>4 DEF IndInv, ListsOK
<1>6. /\ loads' \in Seq(Load)
      /\ \A j \in DOMAIN loads' : \A a \in loads'[j].reply : ItemsOK(a.items)'
  BY <1>0, <1>1, LoadsLeft DEF ListArrives
<1>7. disorder' \in BOOLEAN BY <1>0 DEF ListArrives, TypeOK
<1>8. TypeOK' BY <1>0, <1>1, <1>4, <1>6, <1>7, SameKind DEF TypeOK
<1>9. ListsOK' BY <1>1, <1>5, <1>6 DEF ListsOK, ItemsOK
<1>10. UpdatesOK' BY <1>0, <1>1, SameKind DEF IndInv, UpdatesOK, UpdateOK
<1>11. CreationOK' /\ HistoryOK' BY <1>1 DEF IndInv, CreationOK, HistoryOK
<1> QED BY <1>8, <1>9, <1>10, <1>11 DEF IndInv

LEMMA FailStep == ASSUME IndInv, NEW i \in DOMAIN loads, ListFails(i) PROVE IndInv'
<1>0. TypeOK /\ kind' = kind BY DEF IndInv, ListFails, Fault
<1>1. UNCHANGED <<kind, rows, status, had, updates, foreign, shrunk, strayed, direct, ops>> /\ disorder' = TRUE
  BY DEF ListFails, Fault
<1>2. page' = [page EXCEPT !.loading = FALSE] BY DEF ListFails
<1>3. page' \in Page /\ page'.list = page.list BY <1>0, <1>2 DEF TypeOK, Page
<1>4. faults' \in 0..MaxFaults BY <1>0, StatusPagesConstants DEF ListFails, Fault, TypeOK
<1>5. /\ loads' \in Seq(Load)
      /\ \A j \in DOMAIN loads' : \A a \in loads'[j].reply : ItemsOK(a.items)'
  BY <1>0, <1>1, LoadsLeft DEF ListFails
<1>6. TypeOK' BY <1>0, <1>1, <1>3, <1>4, <1>5, SameKind DEF TypeOK
<1>7. ListsOK' BY <1>1, <1>3, <1>5 DEF IndInv, ListsOK, ItemsOK
<1>8. UpdatesOK' BY <1>0, <1>1, SameKind DEF IndInv, UpdatesOK, UpdateOK
<1>9. CreationOK' /\ HistoryOK' BY <1>1 DEF IndInv, CreationOK, HistoryOK
<1> QED BY <1>6, <1>7, <1>8, <1>9 DEF IndInv

-----------------------------------------------------------------------------
\* Asking for a change keeps the invariant when the change is one on offer.
LEMMA AskStep ==
    ASSUME IndInv, NEW row \in RowIds \cup {0}, NEW to \in Statuses, Ask(row, to),
           row = 0 => to = First /\ rows < MaxRows /\ \A i \in DOMAIN updates : updates[i].row # 0,
           row # 0 => \E s \in had[row] : to \in Offered(s)
    PROVE  IndInv'
<1>0. TypeOK /\ kind' = kind BY DEF IndInv, Ask, Person
<1>1. UNCHANGED <<kind, rows, status, had, loads, disorder, foreign, shrunk, strayed, direct, faults>>
  BY DEF Ask, Person
<1> DEFINE u == [row |-> row, to |-> to, query |-> page.query]
<1>2. page \in Page /\ page.query \in Query BY <1>0 DEF TypeOK, Page
<1>3. u \in Update /\ u.row = row /\ u.to = to BY <1>2 DEF Update
<1>4. updates' = Append(updates, u) BY DEF Ask
<1> HIDE DEF u
<1>5. updates \in Seq(Update) BY <1>0 DEF TypeOK
<1>6. /\ updates' \in Seq(Update) /\ Len(updates') = Len(updates) + 1
      /\ DOMAIN updates = 1..Len(updates) /\ DOMAIN updates' = 1..(Len(updates) + 1)
      /\ updates'[Len(updates) + 1] = u
      /\ \A i \in DOMAIN updates : updates'[i] = updates[i]
  BY <1>3, <1>4, <1>5
<1>7. page' = [page EXCEPT !.saving = IF row = 0 THEN page.saving ELSE row] BY DEF Ask
<1>8. page' \in Page /\ page'.list = page.list
  BY <1>2, <1>7 DEF Page
<1>9. ops' \in 0..MaxOps BY <1>0, StatusPagesConstants DEF Ask, Person, TypeOK
<1>10. TypeOK' BY <1>0, <1>1, <1>6, <1>8, <1>9, SameKind DEF TypeOK
<1>11. ListsOK' /\ HistoryOK' BY <1>1, <1>8 DEF IndInv, ListsOK, ItemsOK, HistoryOK
<1>12. UpdateOK(u) BY <1>3 DEF UpdateOK
<1>13. UpdatesOK'
  <2>1. \A j \in DOMAIN updates' : UpdateOK(updates'[j]) BY <1>5, <1>6, <1>12 DEF IndInv, UpdatesOK
  <2>2. \A x \in RowIds : had[x] \subseteq had'[x] BY <1>1
  <2> QED BY <1>0, <1>6, <2>1, <2>2, UpdatesKept
<1>14. CreationOK'
  <2> SUFFICES ASSUME NEW i \in DOMAIN updates', updates'[i].row = 0
               PROVE  rows' < MaxRows /\ \A j \in DOMAIN updates' : updates'[j].row = 0 => i = j
    BY DEF CreationOK
  <2>1. CASE row = 0 BY <2>1, <1>1, <1>5, <1>6
  <2>2. CASE row # 0
    <3>1. \A j \in DOMAIN updates' : updates'[j].row = 0 => j \in DOMAIN updates /\ updates[j].row = 0
      BY <2>2, <1>3, <1>5, <1>6
    <3> QED BY <3>1, <1>1 DEF IndInv, CreationOK
  <2> QED BY <2>1, <2>2
<1> QED BY <1>10, <1>11, <1>13, <1>14 DEF IndInv

LEMMA ChangeStep ==
    ASSUME IndInv, NEW item \in page.list.items, NEW to \in Statuses, ChangeStatus(item, to)
    PROVE  IndInv'
<1>1. page.list \in Reply BY DEF IndInv, TypeOK, Page
<1>2. item \in Item BY <1>1 DEF Reply
<1>3. item.row \in RowIds /\ item.row # 0 BY <1>2 DEF Item, RowIds
<1>4. item.status \in had[item.row] BY DEF IndInv, ListsOK, ItemsOK
<1>5. to \in Offered(item.status) /\ Ask(item.row, to) BY DEF ChangeStatus
<1> QED BY <1>3, <1>4, <1>5, AskStep

LEMMA CreateStep == ASSUME IndInv, Create PROVE IndInv'
<1>1. kind \in Kinds BY DEF IndInv, TypeOK
<1>2. First \in Statuses BY <1>1, FirstFacts
<1>3. Ask(0, First) /\ rows < MaxRows /\ \A i \in DOMAIN updates : updates[i].row # 0 BY DEF Create
<1> QED BY <1>2, <1>3, AskStep

-----------------------------------------------------------------------------
LEMMA ListItems ==
    ASSUME TypeOK
    PROVE  /\ page.list.items \in SUBSET Item
           /\ \A j \in DOMAIN loads : \A a \in loads[j].reply : a.items \in SUBSET Item
<1>1. page.list \in Reply BY DEF TypeOK, Page
<1>2. ASSUME NEW j \in DOMAIN loads, NEW a \in loads[j].reply PROVE a \in Reply
  <2>1. loads[j] \in Load BY DEF TypeOK
  <2> QED BY <1>2, <2>1 DEF Load
<1> QED BY <1>1, <1>2 DEF Reply

\* An update leaves: the others are still on offer.
LEMMA UpdateLeft ==
    ASSUME IndInv, NEW i \in DOMAIN updates, updates' = Without(updates, i), kind' = kind,
           \A x \in RowIds : had[x] \subseteq had'[x],
           rows' # rows => updates[i].row = 0 /\ rows' \in Nat
    PROVE  updates' \in Seq(Update) /\ UpdatesOK' /\ CreationOK'
<1>1. updates \in Seq(Update) BY DEF IndInv, TypeOK
<1>2. /\ updates' \in Seq(Update)
      /\ DOMAIN updates' = 1..(Len(updates) - 1)
      /\ \A j \in DOMAIN updates' :
            \E k \in DOMAIN updates : updates'[j] = updates[k] /\ k = IF j < i THEN j ELSE j + 1
  BY <1>1, WithoutFacts
<1>3. UpdatesOK'
  <2>1. \A j \in DOMAIN updates' : UpdateOK(updates'[j]) BY <1>2 DEF IndInv, UpdatesOK
  <2> QED BY <1>2, <2>1, UpdatesKept
<1>4. CreationOK'
  <2> SUFFICES ASSUME NEW j \in DOMAIN updates', updates'[j].row = 0
               PROVE  rows' < MaxRows /\ \A l \in DOMAIN updates' : updates'[l].row = 0 => j = l
    BY DEF CreationOK
  <2>0. i \in Nat /\ j \in Nat BY <1>1, <1>2
  <2>1. PICK k \in DOMAIN updates : updates'[j] = updates[k] /\ k = IF j < i THEN j ELSE j + 1
    BY <1>2
  <2>2. k # i BY <2>0, <2>1
  <2>3. rows < MaxRows /\ \A m \in DOMAIN updates : updates[m].row = 0 => k = m
    BY <2>1 DEF IndInv, CreationOK
  <2>4. rows' = rows BY <2>2, <2>3
  <2>5. ASSUME NEW l \in DOMAIN updates', updates'[l].row = 0 PROVE j = l
    <3>0. l \in Nat BY <1>1, <1>2
    <3>1. PICK m \in DOMAIN updates : updates'[l] = updates[m] /\ m = IF l < i THEN l ELSE l + 1
      BY <1>2
    <3>2. k = m BY <2>3, <2>5, <3>1
    <3> QED BY <2>0, <2>1, <3>0, <3>1, <3>2
  <2> QED BY <2>3, <2>4, <2>5
<1> QED BY <1>2, <1>3, <1>4

\* What a change on its way asks for may be stored.
LEMMA UpdateFacts ==
    ASSUME IndInv, NEW i \in DOMAIN updates
    PROVE  /\ updates[i].row \in RowIds \cup {0} /\ updates[i].to \in Statuses
           /\ updates[i].query \in Query
           /\ updates[i].row = 0 => updates[i].to = First /\ rows < MaxRows
           /\ updates[i].row # 0 => \E s \in had[updates[i].row] : updates[i].to \in Offered(s)
<1>1. updates[i] \in Update BY DEF IndInv, TypeOK
<1>2. updates[i].row \in RowIds \cup {0} /\ updates[i].to \in Statuses /\ updates[i].query \in Query
  BY <1>1 DEF Update
<1>3. UpdateOK(updates[i]) BY DEF IndInv, UpdatesOK
<1> QED BY <1>2, <1>3 DEF UpdateOK, IndInv, CreationOK

LEMMA SucceedStep == ASSUME IndInv, NEW i \in DOMAIN updates, UpdateSucceeds(i) PROVE IndInv'
<1>0. TypeOK /\ kind' = kind BY DEF IndInv, UpdateSucceeds, System
<1>1. UNCHANGED <<kind, foreign, strayed, direct, ops, faults>> /\ updates' = Without(updates, i)
      /\ Stored(updates[i].row, updates[i].to) /\ Reloaded(updates[i])
  BY DEF UpdateSucceeds, System
<1>2. /\ rows' \in 0..MaxRows
      /\ updates[i].row # 0 => rows' = rows
      /\ status' \in [RowIds -> Statuses] /\ had' \in [RowIds -> SUBSET Statuses]
      /\ shrunk' \in BOOLEAN
      /\ \A x \in RowIds : had[x] \subseteq had'[x]
      /\ HistoryOK'
  BY <1>0, <1>1, UpdateFacts, StoredFacts
<1>3. updates' \in Seq(Update) /\ UpdatesOK' /\ CreationOK'
  BY <1>0, <1>1, <1>2, UpdateLeft
<1>4. page' \in Page /\ page'.list = page.list
  <2>1. page \in Page BY <1>0 DEF TypeOK
  <2>2. page' = [page EXCEPT !.saving = SavingAfter(updates[i]), !.loading = TRUE] BY <1>1 DEF Reloaded
  <2>3. SavingAfter(updates[i]) \in RowIds \cup {0} BY <2>1 DEF SavingAfter, Page
  <2> QED BY <2>1, <2>2, <2>3 DEF Page
<1>5. loads' \in Seq(Load)
      /\ \A j \in DOMAIN loads' : (j \in DOMAIN loads /\ loads'[j] = loads[j]) \/ loads'[j].reply = {}
  <2>1. << updates[i].query >> \in Seq(Query) BY UpdateFacts
  <2> QED BY <1>0, <1>1, <2>1, RequestsFacts DEF Reloaded
<1>6. disorder' \in BOOLEAN BY <1>0, <1>1 DEF Reloaded, Restarted, TypeOK
<1>7. TypeOK' BY <1>0, <1>1, <1>2, <1>3, <1>4, <1>5, <1>6, SameKind DEF TypeOK
<1>8. ListsOK'
  <2>1. page.list.items \in SUBSET Item /\ \A j \in DOMAIN loads : \A a \in loads[j].reply : a.items \in SUBSET Item
    BY <1>0, ListItems
  <2> QED BY <1>2, <1>4, <1>5, <2>1, Grows DEF IndInv, ListsOK, ItemsOK
<1> QED BY <1>2, <1>3, <1>7, <1>8 DEF IndInv

LEMMA UpdateFailsStep == ASSUME IndInv, NEW i \in DOMAIN updates, UpdateFails(i) PROVE IndInv'
<1>0. TypeOK /\ kind' = kind BY DEF IndInv, UpdateFails, Fault
<1>1. UNCHANGED <<kind, loads, foreign, strayed, direct, ops>> /\ updates' = Without(updates, i) /\ disorder' = TRUE
  BY DEF UpdateFails, Fault
<1>2. /\ rows' \in 0..MaxRows
      /\ updates[i].row # 0 => rows' = rows
      /\ status' \in [RowIds -> Statuses] /\ had' \in [RowIds -> SUBSET Statuses]
      /\ shrunk' \in BOOLEAN
      /\ \A x \in RowIds : had[x] \subseteq had'[x]
      /\ HistoryOK'
  <2>1. CASE Stored(updates[i].row, updates[i].to) BY <1>0, <1>1, <2>1, UpdateFacts, StoredFacts
  <2>2. CASE UNCHANGED <<rows, status, had, shrunk>>
    BY <1>0, <1>1, <2>2 DEF TypeOK, IndInv, HistoryOK
  <2> QED BY <2>1, <2>2 DEF UpdateFails
<1>3. updates' \in Seq(Update) /\ UpdatesOK' /\ CreationOK'
  BY <1>0, <1>1, <1>2, UpdateLeft
<1>4. page' \in Page /\ page'.list = page.list
  <2>1. page \in Page BY <1>0 DEF TypeOK
  <2>2. page' = [page EXCEPT !.saving = SavingAfter(updates[i])] BY DEF UpdateFails
  <2>3. SavingAfter(updates[i]) \in RowIds \cup {0} BY <2>1 DEF SavingAfter, Page
  <2> QED BY <2>1, <2>2, <2>3 DEF Page
<1>5. faults' \in 0..MaxFaults BY <1>0, StatusPagesConstants DEF UpdateFails, Fault, TypeOK
<1>6. TypeOK' BY <1>0, <1>1, <1>2, <1>3, <1>4, <1>5, SameKind DEF TypeOK
<1>7. ListsOK'
  <2>1. page.list.items \in SUBSET Item /\ \A j \in DOMAIN loads : \A a \in loads[j].reply : a.items \in SUBSET Item
    BY <1>0, ListItems
  <2> QED BY <1>1, <1>2, <1>4, <2>1, Grows DEF IndInv, ListsOK, ItemsOK
<1> QED BY <1>2, <1>3, <1>6, <1>7 DEF IndInv

\* What others do: a status of a stored row is written, from a button or noted in direct.
OtherWrote(r, to) ==
    /\ Person /\ Stored(r, to)
    /\ foreign' = TRUE
    /\ UNCHANGED <<page, loads, updates, disorder, strayed>>

LEMMA OtherStep ==
    ASSUME IndInv, NEW r \in 1..rows, NEW to \in Statuses, OtherWrote(r, to),
           direct \subseteq direct', direct' \subseteq RowIds,
           (to = "sending" => r \in direct') \/ \E s \in had[r] : to \in Offered(s)
    PROVE  IndInv'
<1>0. TypeOK /\ kind' = kind BY DEF IndInv, OtherWrote, Person
<1>1. UNCHANGED <<kind, page, loads, updates, disorder, strayed, faults>> /\ foreign' = TRUE
      /\ Stored(r, to)
  BY DEF OtherWrote, Person
<1>2. r \in RowIds /\ r # 0 BY <1>0, StatusPagesConstants DEF TypeOK, RowIds
<1>3. /\ rows' \in 0..MaxRows /\ rows' = rows
      /\ status' \in [RowIds -> Statuses] /\ had' \in [RowIds -> SUBSET Statuses]
      /\ shrunk' \in BOOLEAN
      /\ \A x \in RowIds : had[x] \subseteq had'[x]
      /\ HistoryOK'
  BY <1>0, <1>1, <1>2, StoredFacts
<1>4. ops' \in 0..MaxOps BY <1>0, StatusPagesConstants DEF OtherWrote, Person, TypeOK
<1>5. TypeOK' BY <1>0, <1>1, <1>3, <1>4, SameKind DEF TypeOK
<1>6. UpdatesOK'
  <2>1. updates' \in Seq(Update) /\ \A j \in DOMAIN updates' : UpdateOK(updates'[j])
    BY <1>0, <1>1 DEF TypeOK, IndInv, UpdatesOK
  <2> QED BY <1>0, <1>3, <2>1, UpdatesKept
<1>7. CreationOK' BY <1>1, <1>3 DEF IndInv, CreationOK
<1>8. ListsOK'
  <2>1. page.list.items \in SUBSET Item /\ \A j \in DOMAIN loads : \A a \in loads[j].reply : a.items \in SUBSET Item
    BY <1>0, ListItems
  <2> QED BY <1>1, <1>3, <2>1, Grows DEF IndInv, ListsOK, ItemsOK
<1> QED BY <1>3, <1>5, <1>6, <1>7, <1>8 DEF IndInv

LEMMA OtherChangesStep ==
    ASSUME IndInv, NEW r \in 1..rows, NEW s \in Statuses, NEW to \in Statuses, OtherChanges(r, s, to)
    PROVE  IndInv'
<1>1. OtherWrote(r, to) /\ direct' = direct BY DEF OtherChanges, OtherWrote
<1>2. direct' \subseteq RowIds BY <1>1 DEF IndInv, TypeOK
<1>3. s \in had[r] /\ to \in Offered(s) BY DEF OtherChanges
<1> QED BY <1>1, <1>2, <1>3, OtherStep

LEMMA OtherWritesStep ==
    ASSUME IndInv, NEW r \in 1..rows, NEW to \in Statuses, OtherWrites(r, to)
    PROVE  IndInv'
<1>1. OtherWrote(r, to) BY DEF OtherWrites, OtherWrote
<1>2. r \in RowIds /\ direct \subseteq RowIds
  BY StatusPagesConstants DEF IndInv, TypeOK, RowIds
<1>3. direct \subseteq direct' /\ direct' \subseteq RowIds /\ (to = "sending" => r \in direct')
  BY <1>2 DEF OtherWrites
<1> QED BY <1>1, <1>3, OtherStep

-----------------------------------------------------------------------------
LEMMA InitHolds == ASSUME Init PROVE IndInv
<1>1. kind \in Kinds /\ rows = InitRows /\ InitRows \in Nat /\ MaxRows \in Nat /\ InitRows <= MaxRows
  BY StatusPagesConstants DEF Init
<1>2. status = [r \in RowIds |-> First] /\ had = [r \in RowIds |-> {First}] BY DEF Init
<1>3. First \in Statuses /\ First # "sending" BY <1>1, FirstFacts
<1>4. HistoryOK BY <1>2, <1>3 DEF HistoryOK
<1>5. status \in [RowIds -> Statuses] /\ had \in [RowIds -> SUBSET Statuses] BY <1>2, <1>3
<1>6. PICK size \in Sizes :
        page = [query |-> [filter |-> "all", number |-> 1, size |-> size],
                shown |-> [filter |-> "all", number |-> 1, size |-> size],
                list |-> Answer([filter |-> "all", number |-> 1, size |-> size]),
                loading |-> FALSE, saving |-> 0]
  BY DEF Init
<1> DEFINE q == [filter |-> "all", number |-> 1, size |-> size]
<1>7. q \in Query BY DEF Query
<1> HIDE DEF q
<1>8. rows \in 0..MaxRows BY <1>1
<1>9. Answer(q) \in Reply /\ ItemsOK(Answer(q).items) BY <1>4, <1>5, <1>7, <1>8, AnswerFacts
<1>10. page = [query |-> q, shown |-> q, list |-> Answer(q), loading |-> FALSE, saving |-> 0]
  BY <1>6 DEF q
<1>11. page \in Page /\ page.list = Answer(q) BY <1>7, <1>9, <1>10 DEF Page
<1>12. loads = << >> /\ updates = << >> /\ ops = 0 /\ faults = 0
       /\ disorder = FALSE /\ foreign = FALSE /\ shrunk = FALSE /\ strayed = FALSE /\ direct = {}
  BY DEF Init
<1>13. TypeOK
  <2>1. loads \in Seq(Load) /\ updates \in Seq(Update) BY <1>12
  <2>2. ops \in 0..MaxOps /\ faults \in 0..MaxFaults BY <1>12, StatusPagesConstants
  <2> QED BY <1>1, <1>5, <1>8, <1>11, <1>12, <2>1, <2>2 DEF TypeOK
<1>14. ListsOK /\ UpdatesOK /\ CreationOK BY <1>9, <1>11, <1>12 DEF ListsOK, UpdatesOK, CreationOK
<1> QED BY <1>4, <1>13, <1>14 DEF IndInv

LEMMA StutterStep == ASSUME IndInv, UNCHANGED vars PROVE IndInv'
<1>1. UNCHANGED <<kind, rows, status, had, page, loads, updates, ops, faults,
                  disorder, foreign, shrunk, strayed, direct>>
  BY DEF vars
<1>2. TypeOK' BY <1>1, SameKind DEF IndInv, TypeOK
<1>3. UpdatesOK' BY <1>1, SameKind DEF IndInv, UpdatesOK, UpdateOK
<1>4. ListsOK' /\ CreationOK' /\ HistoryOK'
  BY <1>1 DEF IndInv, ListsOK, ItemsOK, CreationOK, HistoryOK
<1> QED BY <1>2, <1>3, <1>4 DEF IndInv

LEMMA InductiveStep == ASSUME IndInv, [Next]_vars PROVE IndInv'
<1>1. CASE AnswerStep
  BY <1>1, ReadStep, ArriveStep, FailStep, SucceedStep, UpdateFailsStep DEF AnswerStep
<1>2. CASE PersonStep
  BY <1>2, FilterStep, PageStep, SizeStep, ChangeStep, CreateStep,
     OtherChangesStep, OtherWritesStep DEF PersonStep
<1>3. CASE UNCHANGED vars BY <1>3, StutterStep
<1> QED BY <1>1, <1>2, <1>3 DEF Next

\* The page, the lists on their way and the changes asked for hold existing rows,
\* statuses and queries only, whatever is answered late, twice or not at all.
THEOREM StatusTypeCorrect == Spec => []TypeOK
<1>1. Init => IndInv BY InitHolds
<1>2. IndInv /\ [Next]_vars => IndInv' BY InductiveStep
<1>3. IndInv => TypeOK BY DEF IndInv
<1> QED BY <1>1, <1>2, <1>3, PTL DEF Spec

\* campaignStatusTransition does not look at the campaign it updates, and yet the
\* buttons send no campaign that nobody ever approved, for any number of campaigns,
\* however old the lists are that the administrators act on and whatever statuses
\* UpdateCampaign writes.  Only a request that writes sending itself can.
THEOREM SentOnlyAfterApproval == Spec => []OnlyApprovedSent
<1>1. Init => IndInv BY InitHolds
<1>2. IndInv /\ [Next]_vars => IndInv' BY InductiveStep
<1>3. IndInv => OnlyApprovedSent
  <2> SUFFICES ASSUME IndInv, NEW r \in 1..rows, status[r] = "sending"
               PROVE  "approved" \in had[r] \/ r \in direct
    BY DEF OnlyApprovedSent
  <2>1. r \in RowIds BY StatusPagesConstants DEF IndInv, TypeOK, RowIds
  <2> QED BY <2>1 DEF IndInv, HistoryOK
<1> QED BY <1>1, <1>2, <1>3, PTL DEF Spec

-----------------------------------------------------------------------------
(***************************************************************************)
(* What the list shows.  As long as nothing came out of order, the newest  *)
(* list request, or the list itself when none is under way, is the one for *)
(* the query on the screen and was read after the last own change; and     *)
(* unless a row left the filter or a page was turned on a wrong list, the  *)
(* page number is one the stored rows, and therefore that answer, fill.    *)
(***************************************************************************)
Last == loads[Len(loads)]
Fresh(reply) == ~foreign => reply = Answer(page.query)

CurrentOK ==
    ~disorder =>
        IF loads = << >> THEN page.shown = page.query /\ Fresh(page.list)
        ELSE Last.query = page.query /\ \A reply \in Last.reply : Fresh(reply)

Count == Cardinality(Matching(page.query.filter))
Within(total) == page.query.number <= TotalPages(total, page.query.size)
Fills(reply) == reply.total <= Count /\ Within(reply.total)

\* Nothing has happened since the page began at 1 that excuses a page beyond the last.
Kept == ~shrunk /\ ~strayed

RangeOK ==
    Kept =>
        /\ Within(Count)
        /\ ~disorder =>
             IF loads = << >> THEN Fills(page.list) ELSE \A reply \in Last.reply : Fills(reply)

ShownInv == IndInv /\ CurrentOK /\ RangeOK

-----------------------------------------------------------------------------
\* More rows never make fewer pages, and there is always a first page.
LEMMA TotalPagesFacts ==
    ASSUME NEW m \in Nat, NEW n \in Nat, m <= n, NEW z \in Nat \ {0}
    PROVE  /\ TotalPages(m, z) \in Nat /\ TotalPages(n, z) \in Nat
           /\ 1 <= TotalPages(m, z) /\ TotalPages(m, z) <= TotalPages(n, z)
<1>1. ASSUME NEW k \in Nat, k # 0
      PROVE  (k + z - 1) \div z \in Nat /\ (k + z - 1) \div z >= 1
  <2>1. ASSUME NEW a \in Nat, a >= z PROVE a \div z \in Nat /\ a \div z >= 1 BY <2>1
  <2>2. k + z - 1 \in Nat /\ k + z - 1 >= z BY <1>1
  <2> QED BY <2>1, <2>2
<1>2. m # 0 => (m + z - 1) \div z <= (n + z - 1) \div z
  <2>1. m + z - 1 \in Nat \/ m = 0 OBVIOUS
  <2>2. n + z - 1 \in Nat \/ m = 0 OBVIOUS
  <2>3. ASSUME NEW a \in Nat, NEW b \in Nat, a <= b PROVE a \div z <= b \div z BY <2>3
  <2> QED BY <2>1, <2>2, <2>3
<1>3. CASE m = 0 BY <1>1, <1>3 DEF TotalPages
<1>4. CASE m # 0 BY <1>1, <1>2, <1>4 DEF TotalPages
<1> QED BY <1>3, <1>4

\* The matching rows are finitely many stored rows.
LEMMA MatchingFacts ==
    ASSUME rows \in 0..MaxRows, NEW f
    PROVE  IsFiniteSet(Matching(f)) /\ Cardinality(Matching(f)) \in Nat
<1>1. Matching(f) \subseteq 1..MaxRows BY StatusPagesConstants DEF Matching
<1>2. IsFiniteSet(1..MaxRows) BY FS_Interval, StatusPagesConstants
<1>3. IsFiniteSet(Matching(f)) BY <1>1, <1>2, FS_Subset
<1> QED BY <1>3, FS_CardinalityType

\* The parts of the page that the invariant is about.
LEMMA PageFacts ==
    ASSUME IndInv
    PROVE  /\ page.query \in Query /\ page.query.number \in Nat \ {0}
           /\ page.query.size \in Sizes /\ page.query.size \in Nat \ {0}
           /\ page.list \in Reply /\ page.list.total \in Nat /\ Count \in Nat
           /\ loads \in Seq(Load)
           /\ \A i \in DOMAIN loads : \A reply \in loads[i].reply : reply.total \in Nat
<1>1. page \in Page /\ loads \in Seq(Load) /\ rows \in 0..MaxRows BY DEF IndInv, TypeOK
<1>2. page.query \in Query /\ page.list \in Reply BY <1>1 DEF Page
<1>3. page.query.number \in Nat \ {0} /\ page.query.size \in Sizes BY <1>2 DEF Query
<1>4. ASSUME NEW i \in DOMAIN loads, NEW reply \in loads[i].reply PROVE reply.total \in Nat
  <2>1. loads[i] \in Load BY <1>1
  <2>2. reply \in Reply BY <1>4, <2>1 DEF Load
  <2> QED BY <2>2 DEF Reply
<1>5. Count \in Nat BY <1>1, MatchingFacts DEF Count
<1> QED BY <1>1, <1>2, <1>3, <1>4, <1>5, StatusPagesConstants DEF Reply

\* The answers depend on the stored rows only.
LEMMA SameAnswers ==
    ASSUME UNCHANGED <<kind, rows, status>>
    PROVE  /\ \A q : Answer(q)' = Answer(q)
           /\ \A f : Matching(f)' = Matching(f)
BY DEF Answer, Matching, Place

\* After a request for the query on the screen, or out of order, there is
\* nothing to say about the answer.
LEMMA NewLast ==
    ASSUME ~disorder' => loads' # << >> /\ Last'.query = page'.query /\ Last'.reply = {},
           Kept' => Within(Count)'
    PROVE  CurrentOK' /\ RangeOK'
<1>1. CurrentOK' BY DEF CurrentOK
<1>2. RangeOK' BY DEF RangeOK
<1> QED BY <1>1, <1>2

\* The last of new requests is for the last query.
LEMMA LastRequest ==
    ASSUME loads \in Seq(Load), NEW qs \in Seq(Query), qs # << >>
    PROVE  LET s == loads \o Requests(qs) IN
           s # << >> /\ s[Len(s)].query = qs[Len(qs)] /\ s[Len(s)].reply = {}
<1>1. Len(qs) \in Nat \ {0} /\ DOMAIN qs = 1..Len(qs) /\ Len(loads) \in Nat OBVIOUS
<1>2. Requests(qs) = [i \in 1..Len(qs) |-> [query |-> qs[i], reply |-> {}]] BY <1>1 DEF Requests
<1>3. Requests(qs) \in Seq(Load) /\ Len(Requests(qs)) = Len(qs)
  <2> DEFINE e(i) == [query |-> qs[i], reply |-> {}]
             n == Len(qs)
  <2>1. \A i \in 1..n : e(i) \in Load BY <1>1 DEF Load
  <2>2. Requests(qs) = [i \in 1..n |-> e(i)] /\ n \in Nat BY <1>1, <1>2
  <2> HIDE DEF e, n
  <2>3. [i \in 1..n |-> e(i)] \in Seq(Load) /\ Len([i \in 1..n |-> e(i)]) = n BY <2>1, <2>2
  <2> QED BY <2>2, <2>3 DEF n
<1>4. Requests(qs)[Len(qs)] = [query |-> qs[Len(qs)], reply |-> {}]
  <2>1. Len(qs) \in 1..Len(qs) BY <1>1
  <2> QED BY <1>2, <2>1, Zenon
<1> HIDE DEF Requests
<1>5. /\ Len(loads \o Requests(qs)) = Len(loads) + Len(qs)
      /\ (loads \o Requests(qs))[Len(loads) + Len(qs)] = Requests(qs)[Len(qs)]
  BY <1>1, <1>3
<1>6. loads \o Requests(qs) # << >> BY <1>1, <1>3, <1>5
<1> QED BY <1>4, <1>5, <1>6

-----------------------------------------------------------------------------
\* A new query.
LEMMA TurnShown ==
    ASSUME ShownInv, NEW qs \in Seq(Query), qs # << >>, Turn(qs), Kept' => Within(Count)'
    PROVE  CurrentOK' /\ RangeOK'
<1>1. loads \in Seq(Load) /\ page \in Page BY DEF ShownInv, IndInv, TypeOK
<1>2. loads' = loads \o Requests(qs) BY DEF Turn
<1>3. page'.query = qs[Len(qs)] BY <1>1 DEF Turn, Page
<1>4. loads' # << >> /\ Last'.query = page'.query /\ Last'.reply = {}
  BY <1>1, <1>2, <1>3, LastRequest DEF Last
<1> QED BY <1>4, NewLast

\* The first page always exists.
LEMMA FirstPage ==
    ASSUME IndInv', page'.query.number = 1
    PROVE  Within(Count)'
<1>1. page' \in Page' /\ rows' \in 0..MaxRows BY DEF IndInv, TypeOK
<1>2. page'.query \in Query BY <1>1 DEF Page
<1>3. page'.query.size \in Nat \ {0} BY <1>2, StatusPagesConstants DEF Query
<1>4. Count' \in Nat
  <2>1. Matching(page.query.filter)' \subseteq 1..MaxRows BY <1>1, StatusPagesConstants DEF Matching
  <2>2. IsFiniteSet(1..MaxRows) BY FS_Interval, StatusPagesConstants
  <2> QED BY <2>1, <2>2, FS_Subset, FS_CardinalityType DEF Count
<1>5. 1 <= TotalPages(Count', page'.query.size) BY <1>3, <1>4, TotalPagesFacts
<1> QED BY <1>5 DEF Within, TotalPages

LEMMA FilterShown ==
    ASSUME ShownInv, IndInv', NEW f \in Statuses \cup {"all"}, ChangeFilter(f)
    PROVE  CurrentOK' /\ RangeOK'
<1>1. TypeOK /\ f \in AllStatuses \cup {"all"}
  BY DEF ShownInv, IndInv, TypeOK, Kinds, Statuses, AllStatuses
<1>2. Rendered(page.query, f) \in Seq(Query) /\ Rendered(page.query, f) # << >> BY <1>1, RenderedFacts
<1>3. page.query \in Query /\ page \in Page BY <1>1 DEF TypeOK, Page
<1>4. Rendered(page.query, f)[Len(Rendered(page.query, f))].number = 1
  <2>1. CASE page.query.number = 1
    <3>1. [page.query EXCEPT !.filter = f].number = 1 BY <1>3, <2>1 DEF Query
    <3> QED BY <2>1, <3>1 DEF Rendered
  <2>2. CASE page.query.number # 1
    <3> DEFINE a == [page.query EXCEPT !.filter = f]
               b == [page.query EXCEPT !.filter = f, !.number = 1]
    <3>1. b.number = 1 BY <1>3 DEF Query
    <3>2. Rendered(page.query, f) = << a, b >> BY <2>2 DEF Rendered
    <3> HIDE DEF a, b
    <3>3. Len(<< a, b >>) = 2 /\ << a, b >>[2] = b OBVIOUS
    <3> QED BY <3>1, <3>2, <3>3
  <2> QED BY <2>1, <2>2
<1>5. page'.query.number = 1 BY <1>3, <1>4 DEF ChangeFilter, Turn, Page
<1> QED BY <1>2, <1>5, FirstPage, TurnShown DEF ChangeFilter

LEMMA SizeShown ==
    ASSUME ShownInv, IndInv', NEW z \in Sizes, SetSize(z)
    PROVE  CurrentOK' /\ RangeOK'
<1>0. page \in Page /\ page.query \in Query BY DEF ShownInv, IndInv, TypeOK, Page
<1> DEFINE q == [page.query EXCEPT !.size = z, !.number = 1]
<1>1. q \in Query
  <2>1. page.query.number \in Nat \ {0} /\ page.query.filter \in AllStatuses \cup {"all"}
    BY <1>0 DEF Query
  <2> QED BY <1>0, <2>1, QueryFacts
<1>2. q.number = 1 BY <1>0 DEF Query
<1>3. Turn(<< q >>) BY DEF SetSize
<1> HIDE DEF q
<1>4. << q >> \in Seq(Query) /\ << q >> # << >> /\ << q >>[Len(<< q >>)] = q BY <1>1
<1>5. page'.query.number = 1 BY <1>0, <1>2, <1>3, <1>4 DEF Turn, Page
<1> QED BY <1>3, <1>4, <1>5, FirstPage, TurnShown

\* Next is offered by the list shown, whose total the stored rows still have.
LEMMA PageShown ==
    ASSUME ShownInv, NEW n \in 1..MaxRows, GoToPage(n)
    PROVE  CurrentOK' /\ RangeOK'
<1>0. IndInv /\ page \in Page /\ n \in Nat \ {0}
  BY StatusPagesConstants DEF ShownInv, IndInv, TypeOK
<1> DEFINE q == [page.query EXCEPT !.number = n]
<1>1. q \in Query /\ q.number = n /\ q.filter = page.query.filter /\ q.size = page.query.size
  BY <1>0, PageFacts DEF Query
<1>2. Turn(<< q >>) /\ Reachable(n) BY DEF GoToPage
<1> HIDE DEF q
<1>3. << q >> \in Seq(Query) /\ << q >> # << >> /\ << q >>[Len(<< q >>)] = q BY <1>1
<1>4. page'.query = q BY <1>0, <1>2, <1>3 DEF Turn, Page
<1>5. Count' = Count
  <2>1. UNCHANGED <<kind, rows, status>> BY <1>2 DEF Turn, Person
  <2> QED BY <1>1, <1>4, <2>1, SameAnswers DEF Count
<1>6. ASSUME Kept' PROVE Within(Count)'
  <2>1. Kept /\ ~disorder /\ loads = << >> BY <1>6 DEF GoToPage, Kept
  <2>2. page.shown = page.query BY <2>1 DEF ShownInv, CurrentOK
  <2>3. page.list.total <= Count /\ page.query.number <= TotalPages(Count, page.query.size)
    BY <2>1 DEF ShownInv, RangeOK, Fills, Within
  <2>4. /\ TotalPages(page.list.total, page.query.size) <= TotalPages(Count, page.query.size)
        /\ TotalPages(page.list.total, page.query.size) \in Nat
        /\ TotalPages(Count, page.query.size) \in Nat
    BY <1>0, <2>3, PageFacts, TotalPagesFacts
  <2>5. n <= TotalPages(Count, page.query.size)
    BY <1>0, <1>2, <2>2, <2>3, <2>4, PageFacts DEF Reachable
  <2> QED BY <1>1, <1>4, <1>5, <2>5 DEF Within, TotalPages
<1> QED BY <1>2, <1>3, <1>6, TurnShown

-----------------------------------------------------------------------------
\* The API reads the rows: the newest answer is that of now.
LEMMA ReadShown ==
    ASSUME ShownInv, NEW i \in DOMAIN loads, ListRead(i)
    PROVE  CurrentOK' /\ RangeOK'
<1>0. loads \in Seq(Load) /\ loads[i] \in Load /\ IndInv BY DEF ShownInv, IndInv, TypeOK
<1>1. UNCHANGED <<kind, rows, status, page, disorder, Kept>> BY DEF ListRead, System, Kept
<1>2. /\ loads' = [loads EXCEPT ![i].reply = {Answer(loads[i].query)}]
      /\ foreign' = (foreign /\ i # Len(loads))
  BY DEF ListRead
<1>3. /\ \A q : Answer(q)' = Answer(q)
      /\ Count' = Count
  BY <1>1, SameAnswers DEF Count
<1>4. Len(loads') = Len(loads) /\ loads' # << >> /\ loads # << >> BY <1>0, <1>2
<1>5. CASE i # Len(loads)
  <2>1. Last' = Last BY <1>0, <1>2, <1>4, <1>5 DEF Last
  <2>2. foreign' = foreign BY <1>2, <1>5 DEF ShownInv, IndInv, TypeOK
  <2>3. CurrentOK' BY <1>1, <1>3, <1>4, <2>1, <2>2 DEF ShownInv, CurrentOK, Fresh
  <2>4. RangeOK' BY <1>1, <1>3, <1>4, <2>1 DEF ShownInv, RangeOK, Fills, Within, TotalPages
  <2> QED BY <2>3, <2>4
<1>6. CASE i = Len(loads)
  <2> DEFINE a == Answer(loads[i].query)
  <2>1. Last'.query = Last.query /\ Last'.reply = {a} /\ Last = loads[i]
    BY <1>0, <1>2, <1>4, <1>6 DEF Last, Load
  <2>2. a.total = Cardinality(Matching(loads[i].query.filter)) BY DEF Answer
  <2> HIDE DEF a
  <2>3. ~disorder => loads[i].query = page.query BY <1>4, <2>1 DEF ShownInv, CurrentOK
  <2>4. CurrentOK'
    <3> SUFFICES ASSUME ~disorder' PROVE Last'.query = page'.query /\ a = Answer(page.query)'
      BY <1>4, <2>1 DEF CurrentOK, Fresh
    <3> QED BY <1>1, <1>3, <2>1, <2>3 DEF a
  <2>5. RangeOK'
    <3>1. Kept => Within(Count) BY DEF ShownInv, RangeOK
    <3>2. ~disorder => a.total = Count BY <2>2, <2>3 DEF Count
    <3>3. Count \in Nat BY <1>0, PageFacts
    <3>4. Kept => page'.query.number <= TotalPages(Count, page'.query.size)
      BY <1>1, <3>1 DEF Within
    <3>5. Kept => Within(Count)' BY <1>3, <3>4 DEF Within, TotalPages
    <3>6. ASSUME Kept, ~disorder, NEW reply, reply = a PROVE Fills(reply)'
      <4>1. reply.total = Count BY <3>2, <3>6
      <4>2. reply.total <= Count' BY <1>3, <3>3, <4>1
      <4>3. page'.query.number <= TotalPages(reply.total, page'.query.size) BY <3>4, <3>6, <4>1
      <4> QED BY <4>2, <4>3 DEF Fills, Within, TotalPages
    <3> QED BY <1>1, <1>4, <2>1, <3>5, <3>6 DEF RangeOK
  <2> QED BY <2>4, <2>5
<1> QED BY <1>5, <1>6

\* The answer to the oldest request is shown.
LEMMA ArriveShown ==
    ASSUME ShownInv, NEW i \in DOMAIN loads, ListArrives(i)
    PROVE  CurrentOK' /\ RangeOK'
<1>0. loads \in Seq(Load) /\ page \in Page /\ IndInv BY DEF ShownInv, IndInv, TypeOK
<1>1. UNCHANGED <<kind, rows, status, foreign, Kept>> /\ loads' = Without(loads, i)
      /\ disorder' = (disorder \/ i # 1)
  BY DEF ListArrives, System, Kept
<1>2. PICK reply \in loads[i].reply :
        page' = [page EXCEPT !.list = reply, !.shown = loads[i].query, !.loading = FALSE]
  BY DEF ListArrives
<1>3. page'.query = page.query /\ page'.list = reply /\ page'.shown = loads[i].query
  BY <1>0, <1>2 DEF Page
<1>4. (\A q : Answer(q)' = Answer(q)) /\ Count' = Count
  BY <1>1, <1>3, SameAnswers DEF Count
<1>5. Kept => Within(Count)' BY <1>3, <1>4 DEF ShownInv, RangeOK, Within, TotalPages
<1>6. CASE disorder' BY <1>1, <1>5, <1>6 DEF CurrentOK, RangeOK
<1>7. CASE ~disorder' /\ Len(loads) = 1
  <2>0. ~disorder /\ i = 1 BY <1>1, <1>7, Zenon
  <2>1. i = 1 /\ ~disorder /\ loads # << >> /\ Last = loads[i] BY <1>0, <1>7, <2>0 DEF Last
  <2>2. loads' = << >> BY <1>0, <1>1, <1>7 DEF Without
  <2>3. loads[i].query = page.query /\ Fresh(reply) BY <2>1 DEF ShownInv, CurrentOK
  <2>4. Kept => Fills(reply) BY <2>1 DEF ShownInv, RangeOK
  <2>5. CurrentOK' BY <1>1, <1>3, <1>4, <2>2, <2>3 DEF CurrentOK, Fresh
  <2>6. Kept => Fills(page.list)' BY <1>3, <1>4, <2>4 DEF Fills, Within, TotalPages
  <2>7. RangeOK' BY <1>1, <1>5, <2>2, <2>6 DEF RangeOK
  <2> QED BY <2>5, <2>7
<1>8. CASE ~disorder' /\ Len(loads) # 1
  <2>0. ~disorder /\ i = 1 BY <1>1, <1>8, Zenon
  <2>1. i = 1 /\ ~disorder /\ loads # << >> /\ Len(loads) \in Nat /\ Len(loads) > 1
    <3>1. Len(loads) \in Nat /\ DOMAIN loads = 1..Len(loads) BY <1>0
    <3>2. Len(loads) > 1 BY <1>8, <2>0, <3>1
    <3>3. loads # << >> BY <3>2
    <3> QED BY <2>0, <3>1, <3>2, <3>3
  <2>2. DOMAIN loads' = 1..(Len(loads) - 1) /\ loads' \in Seq(Load) BY <1>0, <1>1, WithoutFacts
  <2>3. Len(loads') = Len(loads) - 1 /\ loads' # << >> BY <2>1, <2>2
  <2>4. Last' = Last BY <1>1, <2>1, <2>3 DEF Last, Without
  <2>5. CurrentOK' BY <1>1, <1>3, <1>4, <2>1, <2>3, <2>4 DEF ShownInv, CurrentOK, Fresh
  <2>6. Kept => \A a \in Last'.reply : Fills(a)'
    BY <1>3, <1>4, <2>1, <2>4 DEF ShownInv, RangeOK, Fills, Within, TotalPages
  <2>7. RangeOK' BY <1>1, <1>5, <2>3, <2>6 DEF RangeOK
  <2> QED BY <2>5, <2>7
<1> QED BY <1>6, <1>7, <1>8

LEMMA FailShown ==
    ASSUME ShownInv, NEW i \in DOMAIN loads, ListFails(i)
    PROVE  CurrentOK' /\ RangeOK'
<1>1. UNCHANGED <<kind, rows, status, Kept>> /\ disorder' = TRUE BY DEF ListFails, Fault, Kept
<1>2. page'.query = page.query BY DEF ListFails, ShownInv, IndInv, TypeOK, Page
<1>3. Count' = Count BY <1>1, <1>2, SameAnswers DEF Count
<1>4. Kept' => Within(Count)' BY <1>1, <1>2, <1>3 DEF ShownInv, RangeOK, Within, TotalPages
<1> QED BY <1>1, <1>4, NewLast

-----------------------------------------------------------------------------
\* A stored change leaves the page number in range, unless it took a row out of
\* the filter.
LEMMA StoredWithin ==
    ASSUME ShownInv, IndInv', NEW r \in RowIds \cup {0}, NEW to, Stored(r, to),
           page'.query = page.query, strayed' = strayed, Kept'
    PROVE  Within(Count)' /\ Count <= Count' /\ Count' \in Nat /\ Kept
<1>0. /\ IndInv /\ rows \in 0..MaxRows /\ rows' \in 0..MaxRows /\ MaxRows \in Nat
      /\ status \in [RowIds -> Statuses]
  BY StatusPagesConstants DEF ShownInv, IndInv, TypeOK
<1>1. Kept /\ (r # 0 => page.query.filter # status[r] \/ to = status[r]) BY DEF Stored, Kept
<1> DEFINE f == page.query.filter
<1>2. Matching(f) \subseteq Matching(f)'
  <2> SUFFICES ASSUME NEW x \in 1..rows, f = "all" \/ f = status[x]
               PROVE  x \in 1..rows' /\ (f = "all" \/ f = status'[x])
    <3>1. \A g : Matching(g) = {x \in 1..rows : g \in {"all", status[x]}} BY DEF Matching
    <3>2. Matching(f)' = {x \in 1..rows' : f \in {"all", status'[x]}} BY DEF Matching
    <3> QED BY <3>1, <3>2
  <2>1. x \in 1..rows' /\ x \in RowIds BY <1>0 DEF Stored, RowIds
  <2>2. CASE r = 0
    <3>1. status' = [status EXCEPT ![rows + 1] = to] BY <2>2 DEF Stored
    <3>2. x # rows + 1 BY <1>0
    <3> QED BY <1>0, <2>1, <3>1, <3>2
  <2>3. CASE r # 0
    <3>1. status' = [status EXCEPT ![r] = to] BY <2>3 DEF Stored
    <3> QED BY <1>0, <1>1, <2>1, <2>3, <3>1
  <2> QED BY <2>2, <2>3
<1>3. Count = Cardinality(Matching(f)) /\ Count' = Cardinality(Matching(f)') BY DEF Count
<1>4. Count <= Count' /\ Count' \in Nat
  <2>1. Matching(f)' \subseteq 1..MaxRows BY <1>0 DEF Matching
  <2>2. IsFiniteSet(1..MaxRows) BY <1>0, FS_Interval
  <2>3. IsFiniteSet(Matching(f)') BY <2>1, <2>2, FS_Subset
  <2> QED BY <1>2, <1>3, <2>3, FS_Subset, FS_CardinalityType
<1> HIDE DEF f
<1>5. page.query.number <= TotalPages(Count, page.query.size)
  BY <1>1 DEF ShownInv, RangeOK, Within
<1>6. /\ TotalPages(Count, page.query.size) <= TotalPages(Count', page.query.size)
      /\ TotalPages(Count, page.query.size) \in Nat /\ TotalPages(Count', page.query.size) \in Nat
  BY <1>0, <1>4, PageFacts, TotalPagesFacts
<1>7. page.query.number <= TotalPages(Count', page.query.size) BY <1>0, <1>5, <1>6, PageFacts
<1> QED BY <1>1, <1>4, <1>7 DEF Within, TotalPages

LEMMA SucceedShown ==
    ASSUME ShownInv, IndInv', NEW i \in DOMAIN updates, UpdateSucceeds(i)
    PROVE  CurrentOK' /\ RangeOK'
<1>0. IndInv /\ page \in Page /\ loads \in Seq(Load) BY DEF ShownInv, IndInv, TypeOK
<1> DEFINE q == updates[i].query
<1>1. q \in Query BY <1>0, UpdateFacts
<1>2. /\ Stored(updates[i].row, updates[i].to)
      /\ page' = [page EXCEPT !.saving = SavingAfter(updates[i]), !.loading = TRUE]
      /\ loads' = loads \o Requests(<< q >>) /\ disorder' = Restarted(q, page.query)
  BY DEF UpdateSucceeds, Reloaded
<1> HIDE DEF q
<1>3. page'.query = page.query BY <1>0, <1>2 DEF Page
<1>4. ~disorder' => q = page.query BY <1>2 DEF Restarted
<1>5. << q >> \in Seq(Query) /\ << q >> # << >> /\ << q >>[Len(<< q >>)] = q BY <1>1
<1>6. ~disorder' => loads' # << >> /\ Last'.query = page'.query /\ Last'.reply = {}
  BY <1>0, <1>2, <1>3, <1>4, <1>5, LastRequest DEF Last
<1>7. Kept' => Within(Count)'
  <2>1. updates[i].row \in RowIds \cup {0} /\ strayed' = strayed BY <1>0, UpdateFacts DEF UpdateSucceeds
  <2> QED BY <1>2, <1>3, <2>1, StoredWithin
<1> QED BY <1>6, <1>7, NewLast

LEMMA UpdateFailsShown ==
    ASSUME ShownInv, IndInv', NEW i \in DOMAIN updates, UpdateFails(i)
    PROVE  CurrentOK' /\ RangeOK'
<1>1. disorder' = TRUE /\ kind' = kind BY DEF UpdateFails, Fault
<1>2. page'.query = page.query BY DEF UpdateFails, ShownInv, IndInv, TypeOK, Page
<1>3. Kept' => Within(Count)'
  <2>0. updates[i].row \in RowIds \cup {0} /\ strayed' = strayed
    BY UpdateFacts DEF UpdateFails, ShownInv
  <2>1. CASE Stored(updates[i].row, updates[i].to) BY <1>2, <2>0, <2>1, StoredWithin
  <2>2. CASE UNCHANGED <<rows, status, had, shrunk>>
    <3>1. Count' = Count BY <1>1, <1>2, <2>2, SameAnswers DEF Count
    <3> QED BY <1>2, <2>0, <2>2, <3>1 DEF ShownInv, RangeOK, Kept, Within, TotalPages
  <2> QED BY <2>1, <2>2 DEF UpdateFails
<1> QED BY <1>1, <1>3, NewLast

LEMMA OtherShown ==
    ASSUME ShownInv, IndInv', NEW r \in 1..rows, NEW to \in Statuses, OtherWrote(r, to)
    PROVE  CurrentOK' /\ RangeOK'
<1>0. r \in RowIds \cup {0} BY StatusPagesConstants DEF ShownInv, IndInv, TypeOK, RowIds
<1>1. UNCHANGED <<page, loads, disorder, strayed>> /\ foreign' = TRUE /\ Stored(r, to)
  BY DEF OtherWrote
<1>2. Last' = Last BY <1>1 DEF Last
<1>3. CurrentOK' BY <1>1, <1>2 DEF ShownInv, CurrentOK, Fresh
<1>4. RangeOK'
  <2> SUFFICES ASSUME Kept'
               PROVE  /\ Within(Count)'
                      /\ ~disorder' =>
                           IF loads' = << >> THEN Fills(page.list)'
                           ELSE \A reply \in Last'.reply : Fills(reply)'
    BY DEF RangeOK
  <2>1. Within(Count)' /\ Count <= Count' /\ Count' \in Nat /\ Kept BY <1>0, <1>1, StoredWithin
  <2>2. IndInv BY DEF ShownInv
  <2>3. ASSUME NEW a, a.total \in Nat, Fills(a) PROVE Fills(a)'
    BY <1>1, <2>1, <2>2, <2>3, PageFacts DEF Fills, Within, TotalPages
  <2>4. loads # << >> => \A a \in Last.reply : a.total \in Nat
    BY <2>2, PageFacts DEF Last
  <2> QED BY <1>1, <1>2, <2>1, <2>2, <2>3, <2>4, PageFacts DEF ShownInv, RangeOK
<1> QED BY <1>3, <1>4

\* Asking for a change touches neither the query nor the list.
LEMMA SameShown ==
    ASSUME ShownInv, UNCHANGED <<kind, rows, status, loads, disorder, foreign, shrunk, strayed>>,
           page'.query = page.query, page'.shown = page.shown, page'.list = page.list
    PROVE  CurrentOK' /\ RangeOK'
<1>1. (\A q : Answer(q)' = Answer(q)) /\ Count' = Count BY SameAnswers DEF Count
<1>2. Last' = Last BY DEF Last
<1>3. CurrentOK' BY <1>1, <1>2 DEF ShownInv, CurrentOK, Fresh
<1>4. RangeOK' BY <1>1, <1>2 DEF ShownInv, RangeOK, Kept, Fills, Within, TotalPages
<1> QED BY <1>3, <1>4

LEMMA AskShown == ASSUME ShownInv, NEW row, NEW to, Ask(row, to) PROVE CurrentOK' /\ RangeOK'
<1>1. page'.query = page.query /\ page'.shown = page.shown /\ page'.list = page.list
  BY DEF Ask, ShownInv, IndInv, TypeOK, Page
<1>2. UNCHANGED <<kind, rows, status, loads, disorder, foreign, shrunk, strayed>> BY DEF Ask, Person
<1> QED BY <1>1, <1>2, SameShown

-----------------------------------------------------------------------------
LEMMA InitShown == ASSUME Init PROVE ShownInv
<1>1. IndInv BY InitHolds
<1>2. PICK size \in Sizes :
        page = [query |-> [filter |-> "all", number |-> 1, size |-> size],
                shown |-> [filter |-> "all", number |-> 1, size |-> size],
                list |-> Answer([filter |-> "all", number |-> 1, size |-> size]),
                loading |-> FALSE, saving |-> 0]
  BY DEF Init
<1>3. page.shown = page.query /\ page.list = Answer(page.query) /\ page.query.number = 1 BY <1>2
<1>4. loads = << >> BY DEF Init
<1>5. CurrentOK BY <1>3, <1>4 DEF CurrentOK, Fresh
<1>6. page.list.total = Count
  <2>1. \A q : Answer(q).total = Cardinality(Matching(q.filter)) BY DEF Answer
  <2> QED BY <1>3, <2>1 DEF Count
<1>7. Within(Count)
  <2>0. Count \in Nat /\ Count <= Count /\ page.query.size \in Nat \ {0} BY <1>1, PageFacts
  <2>1. 1 <= TotalPages(Count, page.query.size) BY <2>0, TotalPagesFacts
  <2> QED BY <1>3, <2>1 DEF Within
<1>8. RangeOK BY <1>1, <1>4, <1>6, <1>7, PageFacts DEF RangeOK, Fills
<1> QED BY <1>1, <1>5, <1>8 DEF ShownInv

LEMMA ShownStep == ASSUME ShownInv, [Next]_vars PROVE ShownInv'
<1>1. IndInv' BY InductiveStep DEF ShownInv
<1>2. CASE AnswerStep
  BY <1>1, <1>2, ReadShown, ArriveShown, FailShown, SucceedShown, UpdateFailsShown
     DEF AnswerStep, ShownInv
<1>3. CASE PersonStep
  BY <1>1, <1>3, FilterShown, PageShown, SizeShown, AskShown, OtherShown
     DEF PersonStep, ShownInv, ChangeStatus, Create, OtherChanges, OtherWrites, OtherWrote
<1>4. CASE UNCHANGED vars BY <1>1, <1>4, SameShown DEF vars, ShownInv
<1> QED BY <1>2, <1>3, <1>4 DEF Next

\* When the requests of a page are answered in order, the list ends up as the
\* one of the filter, page and size on the screen, with the administrator's own
\* changes in it.
THEOREM ListShowsStored == Spec => []ListIsCurrent
<1>1. Init => ShownInv BY InitShown
<1>2. ShownInv /\ [Next]_vars => ShownInv' BY ShownStep
<1>3. ShownInv => ListIsCurrent BY DEF ShownInv, CurrentOK, Fresh, ListIsCurrent, Settled
<1> QED BY <1>1, <1>2, <1>3, PTL DEF Spec

\* usePagination's reset and the bounds of TablePagination keep the page within
\* the list, unless a row left the filter or a page was turned on a list that was
\* not, or not for long, that of the query.
THEOREM PageStaysInRange == Spec => []PageInRange
<1>1. Init => ShownInv BY InitShown
<1>2. ShownInv /\ [Next]_vars => ShownInv' BY ShownStep
<1>3. ShownInv => PageInRange BY DEF ShownInv, RangeOK, Kept, Fills, Within, PageInRange, Settled
<1> QED BY <1>1, <1>2, <1>3, PTL DEF Spec

=============================================================================
