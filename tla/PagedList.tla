------------------------------- MODULE PagedList -------------------------------
(***************************************************************************)
(* The pages that show one page of a long list: nodes, operation logs and    *)
(* proxy request logs.  What is shown depends on the view - the search text  *)
(* once React has caught up with it, the filters, the page and its size -    *)
(* and each view is a query of its own in the cache.  The three pages differ *)
(* in what they show while a view's first answer is on its way.              *)
(*                                                                         *)
(* An answer may be anything: the rows change all the time, and the server   *)
(* counts them and selects a page of them in two statements.                 *)
(***************************************************************************)
EXTENDS Console

CONSTANTS
    Rows,       \* the ids of rows
    Totals,     \* how many rows the server counts
    Filters, NoFilter,
    Sizes, FirstSize

ASSUME ListAssumption ==
    NoFilter \in Filters /\ FirstSize \in Sizes /\ Sizes \subseteq Nat \ {0} /\ Totals \subseteq Nat

NodesPage == [keepsPrevious |-> TRUE, clampsOnSuccess |-> TRUE, selects |-> TRUE]
OperationLogsPage == [keepsPrevious |-> FALSE, clampsOnSuccess |-> FALSE, selects |-> FALSE]
ProxyRequestLogsPage == [keepsPrevious |-> FALSE, clampsOnSuccess |-> FALSE, selects |-> FALSE]

ListPages ==
    [page \in {"nodes", "operation-logs", "proxy-request-logs"} |->
        CASE page = "nodes"          -> NodesPage
          [] page = "operation-logs" -> OperationLogsPage
          [] OTHER                   -> ProxyRequestLogsPage]

NoData == [ids |-> {}, total |-> 0, size |-> 0]

NoEntry == [data |-> NoData, fetching |-> FALSE, failed |-> FALSE]

(* at: the page mounted.  deferred: the text the view is for.  last: the data *)
(* of the view before, while there is none for this one.  seen: history, the  *)
(* rows shown since the admin last changed the view.  batch: a batch in       *)
(* flight, of this mount or another.  entries: the cache, by view; it outlives *)
(* the page.                                                                  *)
NoList == [at |-> "none", param |-> "", text |-> "", deferred |-> "", filter |-> NoFilter,
           page |-> 1, size |-> FirstSize, last |-> NoData, selected |-> {}, seen |-> {},
           confirm |-> FALSE, batch |-> "none", entries |-> <<>>]

View(l) == [at |-> l.at, text |-> l.deferred, filter |-> l.filter, page |-> l.page, size |-> l.size]

EntryOf(l, view) == IF view \in DOMAIN l.entries THEN l.entries[view] ELSE NoEntry

Own(l) == EntryOf(l, View(l))

(* A view without data shows what the view before showed, until it fails.    *)
Shown(l) ==
    IF Own(l).data # NoData \/ Own(l).failed \/ ~ListPages[l.at].keepsPrevious
    THEN Own(l).data ELSE l.last

IsSuccess(l) == ~Own(l).failed /\ Shown(l) # NoData

PagesOf(data) ==
    IF data.total = 0 THEN 1 ELSE (data.total + data.size - 1) \div data.size

(* Mutant: whether there is an answer is not asked.                          *)
MutantClampDue(l) == l.at # "none" /\ l.page > PagesOf(Shown(l))

ClampDue(l) ==
    /\ l.at # "none"
    /\ l.page > PagesOf(Shown(l))
    /\ ListPages[l.at].clampsOnSuccess => IsSuccess(l)

-------------------------------------------------------------------------------
(* Observing a view fetches what is missing or, if it is stale, again.       *)
Refreshed(entry) ==
    IF entry.data = NoData THEN {[entry EXCEPT !.fetching = TRUE, !.failed = FALSE]}
    ELSE {entry, [entry EXCEPT !.fetching = TRUE]}

Looked(l) ==
    IF l.at = "none" THEN l
    ELSE [l EXCEPT !.seen = @ \cup Shown(l).ids,
                   !.last = IF Own(l).data = NoData THEN @ ELSE NoData]

Put(entries, view, entry) ==
    [v \in DOMAIN entries \cup {view} |-> IF v = view THEN entry ELSE entries[v]]

(* l becomes m, and the view may change with it.                             *)
Observing(l, m) ==
    IF m.at = "none" \/ (l.at = m.at /\ View(l) = View(m)) THEN {Looked(m)}
    ELSE {Looked([m EXCEPT
            !.entries = Put(@, View(m), entry),
            !.last = IF l.at = m.at /\ Own(l).data # NoData THEN Own(l).data ELSE @]) :
          entry \in Refreshed(Own(m))}

ListOnly == UNCHANGED <<route, search, dialog, credentials, store>>

(* The effect of a render has run: it does before anything else is rendered. *)
Settled == ~ClampDue(list)

(* No dialog covers the page.                                                *)
ListFree == list.at # "none" /\ Settled /\ ~list.confirm

-------------------------------------------------------------------------------
(* The route changes: the page is left, entered, or sees a new parameter.    *)
Mounted(l, page, param) ==
    [NoList EXCEPT !.at = page, !.param = param, !.text = param, !.deferred = param,
                   !.entries = l.entries, !.batch = IF l.batch = "mine" THEN "old" ELSE l.batch]

FollowLink(l, param) ==
    IF param = l.param THEN l
    ELSE [l EXCEPT !.param = param, !.text = param, !.page = 1, !.selected = {}, !.seen = {}]

ListVisits(page, param) ==
    list' \in Observing(list,
        IF page \notin DOMAIN ListPages THEN Mounted(list, "none", "")
        ELSE IF page = list.at THEN FollowLink(list, param)
        ELSE Mounted(list, page, param))

(* useDeferredValue catches up.                                              *)
Defer ==
    /\ list.at # "none" /\ Settled /\ list.deferred # list.text
    /\ list' \in Observing(list, [list EXCEPT !.deferred = list.text])
    /\ ListOnly

ClampPage ==
    /\ ClampDue(list)
    /\ list' \in Observing(list, [list EXCEPT !.page = PagesOf(Shown(list))])
    /\ ListOnly

-------------------------------------------------------------------------------
(* The admin changes the view.                                               *)
Turned(l) == [l EXCEPT !.page = 1, !.selected = {}, !.seen = {}]

Searches(l) == {[Turned(l) EXCEPT !.text = text] : text \in Texts \ {l.text}}

NodesFilters(l) ==
    {[Turned(l) EXCEPT !.filter = filter] : filter \in Filters}
    \cup {[Turned(l) EXCEPT !.text = "", !.filter = NoFilter]}

OperationLogsFilters(l) == {[Turned(l) EXCEPT !.filter = filter] : filter \in Filters \ {l.filter}}

ProxyRequestLogsFilters(l) == {[Turned(l) EXCEPT !.filter = filter] : filter \in Filters \ {l.filter}}

ChangeSearch ==
    /\ ListFree
    /\ \E m \in Searches(list) : list' \in Observing(list, m)
    /\ ListOnly

(* Mutant: the selection survives a change of filter.                        *)
MutantChangeFilter ==
    /\ ListFree
    /\ \E filter \in Filters :
        list' \in Observing(list, [list EXCEPT !.filter = filter, !.page = 1, !.seen = {}])
    /\ ListOnly

ChangeFilter ==
    /\ ListFree
    /\ \E m \in {m \in NodesFilters(list) : list.at = "nodes"}
                \cup {m \in OperationLogsFilters(list) : list.at = "operation-logs"}
                \cup {m \in ProxyRequestLogsFilters(list) : list.at = "proxy-request-logs"} :
        list' \in Observing(list, m)
    /\ ListOnly

(* First, previous, next and last.                                           *)
PaginationBar(l) ==
    LET pages == PagesOf(Shown(l))
    IN  {page \in {1, l.page - 1} : l.page > 1} \cup {page \in {l.page + 1, pages} : l.page < pages}

ChangePage ==
    /\ ListFree
    /\ \E page \in PaginationBar(list) :
        list' \in Observing(list, [Turned(list) EXCEPT !.page = page])
    /\ ListOnly

ChangePageSize ==
    /\ ListFree
    /\ \E size \in Sizes \ {list.size} :
        list' \in Observing(list, [Turned(list) EXCEPT !.size = size])
    /\ ListOnly

-------------------------------------------------------------------------------
(* Answers.  A changed row, a batch and a timer ask for the view again.      *)
Answers(view) ==
    {[ids |-> ids, total |-> total, size |-> view.size] :
        ids \in {ids \in SUBSET Rows : Cardinality(ids) <= view.size}, total \in Totals}

Arrive ==
    /\ Settled
    /\ \E view \in DOMAIN list.entries :
        /\ list.entries[view].fetching
        /\ \E data \in Answers(view) :
            list' = Looked([list EXCEPT !.entries[view] =
                [data |-> data, fetching |-> FALSE, failed |-> FALSE]])
    /\ ListOnly

FetchFails ==
    /\ Settled
    /\ \E view \in DOMAIN list.entries :
        /\ list.entries[view].fetching
        /\ list' = Looked([list EXCEPT !.entries[view] =
                [data |-> @.data, fetching |-> FALSE, failed |-> TRUE]])
    /\ ListOnly

Reasked(l) ==
    IF l.at = "none" THEN l
    ELSE Looked([l EXCEPT !.entries[View(l)] =
            [data |-> Own(l).data, fetching |-> TRUE,
             failed |-> Own(l).failed /\ Own(l).data # NoData]])

Refetch ==
    /\ list.at # "none" /\ Settled /\ ~Own(list).fetching
    /\ list' = Reasked(list)
    /\ ListOnly

-------------------------------------------------------------------------------
(* Rows are selected, and a batch is confirmed and sent for what is selected *)
(* at that moment.  BOUND: one batch in flight.                              *)
ToggleSelected ==
    /\ ListFree /\ ListPages[list.at].selects
    /\ \E id \in Shown(list).ids :
        list' = [list EXCEPT !.selected = IF id \in @ THEN @ \ {id} ELSE @ \cup {id}]
    /\ ListOnly

SelectAll ==
    /\ ListFree /\ ListPages[list.at].selects
    /\ LET ids == Shown(list).ids
       IN  /\ ids # {}
           /\ list' = [list EXCEPT !.selected = IF Cardinality(@) = Cardinality(ids) THEN {}
                                                ELSE ids]
    /\ ListOnly

RequestBatch ==
    /\ ListFree /\ list.selected # {} /\ list.batch = "none"
    /\ list' = [list EXCEPT !.confirm = TRUE]
    /\ ListOnly

AnswerConfirm ==
    /\ list.confirm /\ Settled
    /\ \E batch \in {"none", "mine"} : list' = [list EXCEPT !.confirm = FALSE, !.batch = batch]
    /\ ListOnly

BatchSucceeds ==
    /\ list.batch # "none" /\ Settled
    /\ LET done == [list EXCEPT !.batch = "none",
                                !.selected = IF list.batch = "mine" THEN {} ELSE @]
       IN  list' = IF list.at = "nodes" THEN Reasked(done) ELSE done
    /\ ListOnly

BatchFails ==
    /\ list.batch # "none" /\ Settled
    /\ list' = [list EXCEPT !.batch = "none"]
    /\ ListOnly

ListNext ==
    \/ Defer
    \/ ClampPage
    \/ ChangeSearch
    \/ ChangeFilter
    \/ ChangePage
    \/ ChangePageSize
    \/ Arrive
    \/ FetchFails
    \/ Refetch
    \/ ToggleSelected
    \/ SelectAll
    \/ RequestBatch
    \/ AnswerConfirm
    \/ BatchSucceeds
    \/ BatchFails

-------------------------------------------------------------------------------
Data == {NoData} \cup UNION {Answers([size |-> size]) : size \in Sizes}

Views == [at : DOMAIN ListPages, text : Texts, filter : Filters, page : Nat \ {0}, size : Sizes]

Entries == [data : Data, fetching : BOOLEAN, failed : BOOLEAN]

ListTypeOK ==
    /\ list \in [at : {"none"} \cup DOMAIN ListPages, param : Texts, text : Texts,
                 deferred : Texts, filter : Filters, page : Nat \ {0}, size : Sizes,
                 last : Data, selected : SUBSET Rows, seen : SUBSET Rows, confirm : BOOLEAN,
                 batch : {"none", "mine", "old"}, entries : {list.entries}]
    /\ DOMAIN list.entries \subseteq Views
    /\ \A view \in DOMAIN list.entries : list.entries[view] \in Entries
    /\ list.at # "none" => View(list) \in DOMAIN list.entries

(* Whatever answers are late, missing or torn, the page the admin turned to is *)
(* left only when an answer for that page, or a later one, says that the list  *)
(* ends before it: the answer for what is shown now or, until there is one,    *)
(* that for what was shown before, if it could not be fetched again.           *)
ClampOnlyBeyondEnd ==
    [][ClampPage =>
        \E view \in DOMAIN list.entries :
            LET entry == list.entries[view]
            IN  /\ view = View(list) \/ (entry.failed /\ entry.data = list.last)
                /\ view.page >= list.page
                /\ entry.data # NoData
                /\ list.page > PagesOf(entry.data)]_list

(* What is selected, and so what a batch is sent for, has been on the screen   *)
(* since the admin last changed what is shown: a batch never reaches rows that *)
(* were selected in another view.                                              *)
SelectionWasShown == list.selected \subseteq list.seen

===============================================================================
