---------------------------- MODULE StatusPages ----------------------------
(***************************************************************************)
(* The Campaigns, Tenants and Queue Controls pages: filtered, paged lists  *)
(* whose rows change status.  All follow one pattern (listPage,            *)
(* usePagination, TablePagination and the API's DataTableQuery); a         *)
(* behaviour is about one of the pages, open for one administrator while   *)
(* others change the same rows, with the page or without it.               *)
(*                                                                         *)
(* A filter is a status or "all": the search text, which is looked up in   *)
(* the encoded row, and the status filter come to that.  Nothing cancels   *)
(* an older list request, and a status change repeats the query of the     *)
(* time it was asked for.                                                  *)
(***************************************************************************)
EXTENDS Naturals, Sequences, FiniteSets

CONSTANTS
    Sizes,      \* rows per page on offer
    InitRows,   \* rows stored at first
    MaxRows,    \* rows stored in one behaviour
    MaxOps,     \* steps of the persons in one behaviour
    MaxFaults   \* failed requests in one behaviour

ASSUME StatusPagesConstants ==
    /\ Sizes \subseteq Nat \ {0} /\ Sizes # {}
    /\ InitRows \in Nat /\ MaxRows \in Nat /\ InitRows <= MaxRows
    /\ MaxOps \in Nat /\ MaxFaults \in Nat

VARIABLES
    kind,      \* which of the pages
    rows,      \* number of rows stored, numbered in the order of their creation
    status,    \* row -> its status
    had,       \* row -> the statuses it has had
    page,      \* state of the page
    loads,     \* list requests under way, oldest first
    updates,   \* status changes and creations under way
    ops, faults,
    disorder,  \* history: the list took an answer out of order, of a query
               \* repeated after it changed, or missed one
    foreign,   \* history: a row was changed by another since the newest list was read
    shrunk,    \* history: a row left the filter since the page began at 1
    strayed,   \* history: a page was turned by the total of a list out of order or about
               \* to be replaced
    direct     \* history: the rows set to sending by a request made without the page

vars == <<kind, rows, status, had, page, loads, updates, ops, faults,
          disorder, foreign, shrunk, strayed, direct>>

CampaignStatuses == {"draft", "approved", "sending", "cancelled"}
QueueStatuses == {"active", "paused", "stopped"}
TenantStatuses == {"active", "disabled", "suspended"}
AllStatuses == CampaignStatuses \cup QueueStatuses \cup TenantStatuses
Kinds == {"campaigns", "tenants", "queues"}
Statuses ==
    CASE kind = "campaigns" -> CampaignStatuses
      [] kind = "tenants" -> TenantStatuses
      [] kind = "queues" -> QueueStatuses

RowIds == 1..MaxRows
Query == [filter: AllStatuses \cup {"all"}, number: Nat \ {0}, size: Sizes]
Item == [row: RowIds, status: Statuses]
Reply == [items: SUBSET Item, total: Nat]

\* A list request; its reply is empty until the API has read the rows.
Load == [query: Query, reply: SUBSET Reply]

\* An update of row 0 creates a row.
Update == [row: RowIds \cup {0}, to: Statuses, query: Query]

Page == [query: Query, shown: Query, list: Reply, loading: BOOLEAN, saving: RowIds \cup {0}]

\* Only rows, statuses and queries that exist are ever stored, shown or asked for.
TypeOK ==
    /\ kind \in Kinds
    /\ rows \in 0..MaxRows
    /\ status \in [RowIds -> Statuses] /\ had \in [RowIds -> SUBSET Statuses]
    /\ page \in Page
    /\ loads \in Seq(Load) /\ updates \in Seq(Update)
    /\ ops \in 0..MaxOps /\ faults \in 0..MaxFaults
    /\ disorder \in BOOLEAN /\ foreign \in BOOLEAN /\ shrunk \in BOOLEAN /\ strayed \in BOOLEAN
    /\ direct \subseteq RowIds

-----------------------------------------------------------------------------
(* The API *)

Matching(f) == {r \in 1..rows : f \in {"all", status[r]}}

\* The place of r: ORDER BY created_at DESC, or by name.
Place(r, f) ==
    Cardinality({x \in Matching(f) : IF kind = "queues" THEN x <= r ELSE x >= r})

\* DataTableQuery: a page beyond the end is empty.
Answer(q) ==
    LET start == (q.number - 1) * q.size
        here == {r \in Matching(q.filter) : Place(r, q.filter) \in (start + 1)..(start + q.size)}
    IN [items |-> {[row |-> r, status |-> status[r]] : r \in here},
        total |-> Cardinality(Matching(q.filter))]

TotalPages(total, size) == IF total = 0 THEN 1 ELSE (total + size - 1) \div size

-----------------------------------------------------------------------------
First == IF kind = "campaigns" THEN "draft" ELSE "active"

Init ==
    /\ kind \in Kinds
    /\ rows = InitRows
    /\ status = [r \in RowIds |-> First]
    /\ had = [r \in RowIds |-> {First}]
    /\ \E size \in Sizes :
          LET q == [filter |-> "all", number |-> 1, size |-> size] IN
          page = [query |-> q, shown |-> q, list |-> Answer(q), loading |-> FALSE, saving |-> 0]
    /\ loads = << >> /\ updates = << >>
    /\ ops = 0 /\ faults = 0
    /\ disorder = FALSE /\ foreign = FALSE /\ shrunk = FALSE /\ strayed = FALSE
    /\ direct = {}

Person == ops < MaxOps /\ ops' = ops + 1 /\ UNCHANGED <<faults, kind>>
Fault == faults < MaxFaults /\ faults' = faults + 1 /\ UNCHANGED <<ops, kind>>
System == UNCHANGED <<ops, faults, kind>>

\* The list is in order again when the only request under way is for the query shown.
Restarted(q, current) ==
    IF q = current THEN disorder /\ loads # << >> ELSE TRUE

Requests(qs) == [i \in DOMAIN qs |-> [query |-> qs[i], reply |-> {}]]

Without(s, i) == [j \in 1..(Len(s) - 1) |-> IF j < i THEN s[j] ELSE s[j + 1]]

\* The confirmation dialog covers the page until the answer; Queue Controls has none.
Uncovered == kind # "queues" => page.saving = 0

TableShown == Uncovered /\ ~page.loading /\ page.list.items # {}

-----------------------------------------------------------------------------
(* Filters and pages *)

\* The effect on the query: load() for each query rendered in turn.
Turn(qs) ==
    /\ page' = [page EXCEPT !.query = qs[Len(qs)], !.loading = TRUE]
    /\ loads' = loads \o Requests(qs)
    /\ disorder' = Restarted(qs[Len(qs)], qs[Len(qs)])
    /\ Person
    /\ UNCHANGED <<rows, status, had, updates, foreign, direct>>

\* Mutant: the page number survives a change of the filter.
RenderedKeepPage(q, f) == << [q EXCEPT !.filter = f] >>

\* usePagination resets the page in an effect, so a new filter is first loaded
\* with the old page number.
Rendered(q, f) ==
    IF q.number = 1 THEN << [q EXCEPT !.filter = f] >>
    ELSE << [q EXCEPT !.filter = f], [q EXCEPT !.filter = f, !.number = 1] >>

ChangeFilter(f) ==
    /\ Uncovered /\ f # page.query.filter
    /\ Turn(Rendered(page.query, f))
    /\ shrunk' = FALSE /\ strayed' = FALSE

\* Previous and Next, bounded by the number of pages of the list shown.
Reachable(n) ==
    \/ n = page.query.number - 1 /\ page.query.number > 1
    \/ n = page.query.number + 1 /\ page.query.number < TotalPages(page.list.total, page.shown.size)

GoToPage(n) ==
    /\ TableShown /\ Reachable(n)
    /\ Turn(<< [page.query EXCEPT !.number = n] >>)
    /\ strayed' = (strayed \/ disorder \/ loads # << >>)
    /\ UNCHANGED shrunk

\* setPerPage sets the size and the page number at once.
SetSize(s) ==
    /\ TableShown /\ s # page.query.size
    /\ Turn(<< [page.query EXCEPT !.size = s, !.number = 1] >>)
    /\ shrunk' = FALSE /\ strayed' = FALSE

-----------------------------------------------------------------------------
(* List answers *)

ListRead(i) ==
    /\ loads[i].reply = {}
    /\ loads' = [loads EXCEPT ![i].reply = {Answer(loads[i].query)}]
    /\ foreign' = (foreign /\ i # Len(loads))
    /\ System
    /\ UNCHANGED <<rows, status, had, page, updates, disorder, shrunk, strayed, direct>>

\* Whatever the query is by now, the answer is shown and ends the loading state.
ListArrives(i) ==
    /\ \E reply \in loads[i].reply :
          page' = [page EXCEPT !.list = reply, !.shown = loads[i].query, !.loading = FALSE]
    /\ loads' = Without(loads, i)
    /\ disorder' = (disorder \/ i # 1)
    /\ System
    /\ UNCHANGED <<rows, status, had, updates, foreign, shrunk, strayed, direct>>

\* Mutant: only an answer ends the loading state.
ListFailsLoading(i) ==
    /\ Fault
    /\ loads' = Without(loads, i)
    /\ disorder' = TRUE
    /\ UNCHANGED <<rows, status, had, page, updates, foreign, shrunk, strayed, direct>>

ListFails(i) ==
    /\ Fault
    /\ page' = [page EXCEPT !.loading = FALSE]
    /\ loads' = Without(loads, i)
    /\ disorder' = TRUE
    /\ UNCHANGED <<rows, status, had, updates, foreign, shrunk, strayed, direct>>

-----------------------------------------------------------------------------
(* Status changes and new rows *)

\* Mutant: a draft can be sent.
OfferedAlways(s) ==
    CASE kind = "queues" -> QueueStatuses \ {s}
      [] kind = "tenants" -> {IF s = "active" THEN "disabled" ELSE "active"}
      [] kind = "campaigns" -> {"approved", "sending", "cancelled"}

\* The buttons of a row with status s.
Offered(s) ==
    CASE kind = "queues" -> QueueStatuses \ {s}
      [] kind = "tenants" -> {IF s = "active" THEN "disabled" ELSE "active"}
      [] kind = "campaigns" /\ s = "draft" -> {"approved", "cancelled"}
      [] kind = "campaigns" /\ s = "approved" -> {"sending", "cancelled"}
      [] OTHER -> {}

Ask(row, to) ==
    /\ updates' = Append(updates, [row |-> row, to |-> to, query |-> page.query])
    /\ page' = [page EXCEPT !.saving = IF row = 0 THEN @ ELSE row]
    /\ Person
    /\ UNCHANGED <<rows, status, had, loads, disorder, foreign, shrunk, strayed, direct>>

\* A click, confirmed except on Queue Controls.  saving remembers one row only.
ChangeStatus(item, to) ==
    /\ TableShown /\ to \in Offered(item.status)
    /\ page.saving # item.row
    /\ Ask(item.row, to)

Create ==
    /\ kind # "queues" /\ Uncovered
    /\ rows < MaxRows
    /\ \A i \in DOMAIN updates : updates[i].row # 0
    /\ Ask(0, First)

\* The handlers look at the row's existence, not at its status.
Stored(r, to) ==
    LET id == IF r = 0 THEN rows + 1 ELSE r IN
    /\ rows' = IF r = 0 THEN rows + 1 ELSE rows
    /\ status' = [status EXCEPT ![id] = to]
    /\ had' = [had EXCEPT ![id] = @ \cup {to}]
    /\ shrunk' = (shrunk \/ (r # 0 /\ page.query.filter = status[r] /\ to # status[r]))

SavingAfter(u) == IF u.row = 0 THEN page.saving ELSE 0

\* Mutant: the list is not loaded again.
UpdatedOnly(u) ==
    /\ page' = [page EXCEPT !.saving = SavingAfter(u)]
    /\ UNCHANGED <<loads, disorder>>

\* load() of the render in which the change was asked for.
Reloaded(u) ==
    /\ page' = [page EXCEPT !.saving = SavingAfter(u), !.loading = TRUE]
    /\ loads' = loads \o Requests(<< u.query >>)
    /\ disorder' = Restarted(u.query, page.query)

UpdateSucceeds(i) ==
    /\ Stored(updates[i].row, updates[i].to)
    /\ Reloaded(updates[i])
    /\ updates' = Without(updates, i)
    /\ System
    /\ UNCHANGED <<foreign, strayed, direct>>

\* The request fails, with or without effect; the list is not loaded.
UpdateFails(i) ==
    /\ Fault
    /\ \/ Stored(updates[i].row, updates[i].to)
       \/ UNCHANGED <<rows, status, had, shrunk>>
    /\ page' = [page EXCEPT !.saving = SavingAfter(updates[i])]
    /\ disorder' = TRUE
    /\ updates' = Without(updates, i)
    /\ UNCHANGED <<loads, foreign, strayed, direct>>

\* Another administrator's change arrives, made with the buttons of the page.  His
\* list may show any status that the row has had, and the handler does not look at
\* the one it has.
OtherChanges(r, s, to) ==
    /\ Person
    /\ s \in had[r] /\ to \in Offered(s)
    /\ Stored(r, to)
    /\ foreign' = TRUE
    /\ UNCHANGED <<page, loads, updates, disorder, strayed, direct>>

\* A request made without the page, which may ask for any status: UpdateCampaign
\* writes the one in its body, and the other handlers do not compare the one they
\* write with the one that is stored.
OtherWrites(r, to) ==
    /\ Person
    /\ Stored(r, to)
    /\ foreign' = TRUE
    /\ direct' = IF to = "sending" THEN direct \cup {r} ELSE direct
    /\ UNCHANGED <<page, loads, updates, disorder, strayed>>

-----------------------------------------------------------------------------
AnswerStep ==
    \/ \E i \in DOMAIN loads : ListRead(i) \/ ListArrives(i) \/ ListFails(i)
    \/ \E i \in DOMAIN updates : UpdateSucceeds(i) \/ UpdateFails(i)

PersonStep ==
    \/ \E f \in Statuses \cup {"all"} : ChangeFilter(f)
    \/ \E n \in 1..MaxRows : GoToPage(n)
    \/ \E s \in Sizes : SetSize(s)
    \/ \E item \in page.list.items, to \in Statuses : ChangeStatus(item, to)
    \/ Create
    \/ \E r \in 1..rows, s \in Statuses, to \in Statuses : OtherChanges(r, s, to)
    \/ \E r \in 1..rows, to \in Statuses : OtherWrites(r, to)

Next == AnswerStep \/ PersonStep

Spec == Init /\ [][Next]_vars

\* Every request is answered or fails; the persons are free.
FairSpec == Spec /\ WF_vars(AnswerStep)

-----------------------------------------------------------------------------
(* Properties *)

Settled == loads = << >> /\ updates = << >> /\ ~disorder

\* When everything asked for has been answered in order, the list is that of the
\* filter, page and size on the screen, and unless somebody else changed a row
\* since it was read it shows what is stored: an administrator's own changes are
\* never missing from the list.
ListIsCurrent ==
    Settled =>
        /\ page.shown = page.query
        /\ ~foreign => page.list = Answer(page.query)

\* Paging and filtering never end on a page beyond the last one, which looks like
\* an empty list without any control to leave it, except in two cases: a row left
\* the filter, or Previous or Next was pressed while the list on the screen was not
\* that of the query, or was about to be replaced.  The second happens without any
\* row leaving: the list of the old filter stays after a failed load, and the reload
\* of a creation or change asked for under the old filter overwrites the new list;
\* Next then goes by the total of the wrong list.
PageInRange ==
    Settled /\ ~shrunk /\ ~strayed =>
        page.query.number <= TotalPages(page.list.total, page.query.size)

\* The buttons send a campaign only after an approval, however old the list is and
\* whatever is done meanwhile: a campaign in sending was approved at some time, or a
\* request made without the page (UpdateCampaign, POST .../send) put it there, which
\* the API does not prevent.  The approval need not be the last word: a campaign
\* cancelled since is still sent from an old list.
OnlyApprovedSent ==
    \A r \in 1..rows : status[r] = "sending" => "approved" \in had[r] \/ r \in direct

\* The page leaves the loading state and the dialog closes, whatever fails.
PagesSettle ==
    /\ page.loading ~> ~page.loading
    /\ ~Uncovered ~> Uncovered

=============================================================================
