--------------------------- MODULE HistoryWorkbench ---------------------------
(* The history of one project in one browser tab: the timeline of a layer and  *)
(* the history of a cell, two paged lists in the query cache; the details of   *)
(* one expanded batch, fetched page by page under a token; the filter draft.   *)
(* A list is told from another of its key by how much of the log its first     *)
(* page saw: the cursor carries that snapshot to the later pages.  Every       *)
(* change is listed under every layer and filter.                              *)
EXTENDS Naturals, FiniteSets

CONSTANTS Layers, NoLayer,    \* layers of the sheet; none is chosen before the first render
          Filters, NoFilter,  \* filter settings; a draft that is none is invalid
          Cell, NoCell,       \* a cell of the sheet; no cell is selected
          Batches,            \* entries of the log that have details
          DetailPages,        \* pages of such details
          FirstLog,           \* entries at the start
          MaxHistorySteps            \* bound: actions of users and failures

\* What the constants must satisfy.
HistoryConstants ==
    /\ NoLayer \notin Layers /\ Filters # {} /\ NoFilter \notin Filters /\ Cell # NoCell
    /\ FirstLog \in Nat /\ Batches \subseteq 1..FirstLog /\ DetailPages \in Nat \ {0}
    /\ MaxHistorySteps \in Nat

VARIABLES log,      \* number of entries on the server
          own,      \* entry of an own change whose answer is under way, or 0
          told,     \* the latest own entry this tab was told of
          lists,    \* cached list and request in flight, per key
          pages,    \* cached detail pages and requests in flight
          view,     \* the controller's state and the panel's filter draft
          wait,     \* the detail request whose token is the present one
          historySteps

historyVars == <<log, own, told, lists, pages, view, wait, historySteps>>

Keys == ((Layers \cup {NoLayer}) \X Filters) \cup {Cell}
Pages == 1..DetailPages
Default == CHOOSE f \in Filters : TRUE

NewList == [snap |-> 0, n |-> 0, stale |-> FALSE, ask |-> "none", read |-> 0, failed |-> "none"]
NewPage == [at |-> 0, sent |-> FALSE, read |-> 0]
NoPages == [b \in Batches |-> [i \in Pages |-> NewPage]]
NoDetails == [b \in Batches |-> [n |-> 0, at |-> 0]]
NoWait == [batch |-> 0, page |-> 0, status |-> "idle"]

CreateState == [on |-> FALSE, mode |-> "timeline", layer |-> NoLayer, filter |-> Default,
                draft |-> Default, form |-> FALSE, cell |-> NoCell, open |-> 0,
                details |-> NoDetails]

HistoryInit == /\ log = FirstLog /\ own = 0 /\ told = 0 /\ historySteps = 0
               /\ lists = [k \in Keys |-> NewList] /\ pages = NoPages
               /\ view = CreateState /\ wait = NoWait

HistoryStep == historySteps < MaxHistorySteps /\ historySteps' = historySteps + 1

-----------------------------------------------------------------------------
(* The reducer.                                                              *)

ReplaceFilters(v, layer, f) ==
    [v EXCEPT !.layer = layer, !.filter = f, !.open = 0, !.details = NoDetails,
              !.draft = IF layer = v.layer /\ f = v.filter THEN @ ELSE f]
ReplaceLayerScope(v, layer) ==
    [ReplaceFilters(v, layer, v.filter) EXCEPT !.mode = "timeline", !.cell = NoCell]
ToggleBatch(v, b) == IF v.open = b THEN [v EXCEPT !.open = 0]
                     ELSE [v EXCEPT !.open = b, !.mode = "timeline"]
StoreDetail(v, b, n, at) == [v EXCEPT !.details[b] = [n |-> n, at |-> at]]
KeepDetails(v) == [v EXCEPT !.draft = v.filter]
InvalidateDetails(v) == [v EXCEPT !.open = 0, !.details = NoDetails, !.draft = v.filter]
RememberCell(v, c) ==
    IF c = NoCell /\ v.mode = "cell"
    THEN [v EXCEPT !.mode = "timeline", !.cell = NoCell, !.open = 0]
    ELSE [v EXCEPT !.cell = c]

-----------------------------------------------------------------------------
(* What the panel offers.                                                    *)

ScopeOffered(v, mode) == v.on /\ (mode = "cell" => v.cell # NoCell)
FormShown(v) == v.on /\ v.mode = "timeline" /\ v.form
ValidDraft(v) == v.draft # NoFilter
Failed(e) == e.failed = "all"
TimelineRetryOffered(v) == v.on /\ v.mode = "timeline" /\ Failed(lists[<<v.layer, v.filter>>])
CellRetryOffered(v) == v.on /\ v.mode = "cell" /\ Failed(lists[Cell])
HasMore(e) == e.n # 0 /\ e.n < e.snap
TimelineMoreOffered(v) ==
    LET e == lists[<<v.layer, v.filter>>] IN v.mode = "timeline" /\ HasMore(e) /\ e.ask # "next"
CellMoreOffered(v) ==
    LET e == lists[Cell] IN v.mode = "cell" /\ HasMore(e) /\ e.ask # "next"
Listed(b) == LET e == lists[<<view.layer, view.filter>>] IN e.snap - e.n < b /\ b <= e.snap
BatchOffered(v, b) == v.on /\ v.mode = "timeline" /\ Listed(b)
DetailState(v, b) ==
    IF v.open # b THEN "closed"
    ELSE IF v.details[b].n # 0 THEN "listed"
    ELSE IF wait.batch = b /\ wait.status = "error" THEN "error" ELSE "none"
MoreDetailOffered(v, b) == DetailState(v, b) = "listed" /\ v.details[b].n < DetailPages

-----------------------------------------------------------------------------
(* The two lists.                                                            *)

TimelineEnabled(v) == v.on /\ v.mode = "timeline" /\ v.layer # NoLayer
CellEnabled(v) == v.on /\ v.mode = "cell" /\ v.cell # NoCell
Observed(v) == (IF TimelineEnabled(v) THEN {<<v.layer, v.filter>>} ELSE {})
               \cup (IF CellEnabled(v) THEN {Cell} ELSE {})

(* A new request replaces one in flight for its key once there is data.       *)
Refetch(e) == [e EXCEPT !.ask = "all", !.read = 0, !.failed = IF e.n = 0 THEN "none" ELSE @]
Observe(q, v) == [k \in Keys |-> IF k \in Observed(v) \ Observed(view)
                                   /\ q[k].ask = "none" /\ (q[k].n = 0 \/ q[k].stale)
                                 THEN Refetch(q[k]) ELSE q[k]]

ListRead(k) == /\ lists[k].ask # "none" /\ lists[k].read = 0
               /\ lists' = [lists EXCEPT ![k].read = log]
               /\ UNCHANGED <<log, own, told, pages, view, wait, historySteps>>

(* A refetch walks all pages again behind its own first page; a next page is  *)
(* appended behind the last. Either makes the cached list valid.              *)
ListArrives(k) ==
    LET e == lists[k]
    IN  /\ e.read # 0
        /\ lists' = [lists EXCEPT ![k] =
              IF e.ask = "next" THEN [NewList EXCEPT !.snap = e.snap, !.n = e.n + 1]
              ELSE [NewList EXCEPT !.snap = e.read, !.n = IF e.n = 0 THEN 1 ELSE e.n]]
        /\ UNCHANGED <<log, own, told, pages, view, wait, historySteps>>

ListFails(k) ==
    /\ HistoryStep /\ lists[k].ask # "none"
    /\ lists' = [lists EXCEPT ![k].ask = "none", ![k].read = 0, ![k].failed = lists[k].ask]
    /\ UNCHANGED <<log, own, told, pages, view, wait>>

(* The next page is asked for once at a time and only behind the last page on *)
(* screen.  It replaces a refetch in flight.                                  *)
LoadMore(k) ==
    /\ HistoryStep /\ k \in Observed(view)
    /\ IF k = Cell THEN CellMoreOffered(view) ELSE TimelineMoreOffered(view)
    /\ lists' = [lists EXCEPT ![k].ask = "next", ![k].read = 0]
    /\ UNCHANGED <<log, own, told, pages, view, wait>>

RetryList(k) ==
    /\ HistoryStep /\ k \in Observed(view)
    /\ IF k = Cell THEN CellRetryOffered(view) ELSE TimelineRetryOffered(view)
    /\ (lists[k].ask # "none" => lists[k].n # 0)
    /\ lists' = [lists EXCEPT ![k] = Refetch(lists[k])]
    /\ UNCHANGED <<log, own, told, pages, view, wait>>

-----------------------------------------------------------------------------
(* Details of a batch.  fetchQuery answers from the cache when it can, and    *)
(* joins a request in flight for the same page.  Only the holder of the last   *)
(* token may publish: when the token moves on, nobody waits any more.  The     *)
(* revision and the generation of an authority change only together with it.   *)

Authority(v, b) == v.on /\ v.mode = "timeline" /\ v.open = b

RequestDetail(v, b, i) ==
    /\ view' = v
    /\ IF wait.batch = b /\ wait.status = "loading" THEN UNCHANGED <<wait, pages>>
       ELSE /\ wait' = [batch |-> b, page |-> i, status |-> "loading"]
            /\ pages' = IF pages[b][i].at # 0 \/ pages[b][i].sent THEN pages
                        ELSE [pages EXCEPT ![b][i].sent = TRUE]

PageRead(b, i) == /\ pages[b][i].sent /\ pages[b][i].read = 0
                  /\ pages' = [pages EXCEPT ![b][i].read = log]
                  /\ UNCHANGED <<log, own, told, lists, view, wait, historySteps>>
PageArrives(b, i) ==
    /\ pages[b][i].read # 0
    /\ pages' = [pages EXCEPT ![b][i] = [NewPage EXCEPT !.at = pages[b][i].read]]
    /\ UNCHANGED <<log, own, told, lists, view, wait, historySteps>>

Publish ==
    LET b == wait.batch  i == wait.page  d == view.details[b]  at == pages[b][i].at
    IN  /\ wait.status = "loading" /\ at # 0
        /\ IF Authority(view, b) /\ (i > 1 => d.n = i - 1)
           THEN /\ wait' = [wait EXCEPT !.status = "ready"]
                /\ view' = StoreDetail(view, b, i, IF i > 1 /\ d.at < at THEN d.at ELSE at)
           ELSE UNCHANGED <<wait, view>>
        /\ UNCHANGED <<log, own, told, lists, pages, historySteps>>

PageFails(b, i) ==
    /\ HistoryStep /\ pages[b][i].sent
    /\ pages' = [pages EXCEPT ![b][i] = NewPage]
    /\ wait' = IF wait.batch = b /\ wait.page = i /\ wait.status = "loading" /\ Authority(view, b)
               THEN [wait EXCEPT !.status = "error"] ELSE wait
    /\ UNCHANGED <<log, own, told, lists, view>>

(* Opening a batch whose details are kept shows them and leaves the token.    *)
BatchToggle(b) ==
    /\ HistoryStep /\ TimelineEnabled(view) /\ BatchOffered(view, b)
    /\ LET v == ToggleBatch(view, b)
       IN  \/ /\ v.open = 0
              /\ view' = v /\ wait' = NoWait /\ UNCHANGED pages
           \/ /\ v.open = b /\ v.details[b].n # 0
              /\ view' = v /\ UNCHANGED pages
              /\ wait' = [batch |-> b, page |-> 1, status |-> "ready"]
           \/ /\ v.open = b /\ v.details[b].n = 0
              /\ RequestDetail(v, b, 1)
    /\ UNCHANGED <<log, own, told, lists>>

RetryDetail(b) ==
    /\ HistoryStep /\ Authority(view, b) /\ BatchOffered(view, b)
    /\ DetailState(view, b) = "error" /\ wait.page = 1
    /\ RequestDetail(view, b, 1)
    /\ UNCHANGED <<log, own, told, lists>>

LoadMoreDetail(b) ==
    /\ HistoryStep /\ Authority(view, b) /\ BatchOffered(view, b) /\ MoreDetailOffered(view, b)
    /\ RequestDetail(view, b, view.details[b].n + 1)
    /\ UNCHANGED <<log, own, told, lists>>

-----------------------------------------------------------------------------
(* The sheet page and the user.                                              *)

(* A change of what is shown moves the token on.                              *)
Show(v) == /\ view' = v /\ wait' = NoWait /\ lists' = Observe(lists, v)
           /\ UNCHANGED <<log, own, told, pages>>

(* Closing the panel also drops its draft.                                    *)
SetOpen(on) ==
    /\ HistoryStep /\ view.on # on
    /\ Show(IF on THEN [view EXCEPT !.on = TRUE]
            ELSE [view EXCEPT !.on = FALSE, !.open = 0, !.form = FALSE, !.draft = view.filter])
SetLayer(layer) == HistoryStep /\ layer # view.layer /\ Show(ReplaceLayerScope(view, layer))
SetMode(mode) ==
    /\ HistoryStep /\ view.mode # mode /\ ScopeOffered(view, mode)
    /\ Show([view EXCEPT !.mode = mode, !.open = IF mode = "cell" THEN 0 ELSE @])
SelectCell(c) ==
    /\ HistoryStep /\ view.layer # NoLayer /\ c # view.cell
    /\ LET v == RememberCell(view, c)
       IN  IF view.mode = "timeline" /\ c # NoCell
           THEN /\ view' = v /\ lists' = Observe(lists, v)
                /\ UNCHANGED <<log, own, told, pages, wait>>
           ELSE Show(v)

ToggleForm == /\ HistoryStep /\ TimelineEnabled(view)
              /\ view' = [view EXCEPT !.form = ~@]
              /\ UNCHANGED <<log, own, told, lists, pages, wait>>
EditDraft(f) == /\ HistoryStep /\ FormShown(view) /\ f # view.draft
                /\ view' = [view EXCEPT !.draft = f]
                /\ UNCHANGED <<log, own, told, lists, pages, wait>>
ApplyFilters == /\ HistoryStep /\ FormShown(view) /\ ValidDraft(view)
                /\ Show(ReplaceFilters(view, view.layer, view.draft))
ResetFilters == /\ HistoryStep /\ FormShown(view)
                /\ Show([ReplaceFilters(view, view.layer, Default) EXCEPT !.draft = Default])

OtherCommits == /\ HistoryStep /\ log' = log + 1
                /\ UNCHANGED <<own, told, lists, pages, view, wait>>
OwnCommits == /\ HistoryStep /\ own = 0 /\ log' = log + 1 /\ own' = log'
              /\ UNCHANGED <<told, lists, pages, view, wait>>

(* The answer of an own change cancels every history request of the project,  *)
(* removes the details and has the lists on screen fetched again.              *)
Persisted ==
    /\ own # 0 /\ told' = own /\ own' = 0
    /\ pages' = NoPages
    /\ lists' = [k \in Keys |->
                   LET e == [lists[k] EXCEPT !.ask = "none", !.read = 0, !.stale = TRUE]
                   IN  IF k \in Observed(view) THEN Refetch(e) ELSE e]
    /\ view' = InvalidateDetails(view) /\ wait' = NoWait
    /\ UNCHANGED <<log, historySteps>>

Answers == \/ Persisted \/ Publish
           \/ \E k \in Keys : ListRead(k) \/ ListArrives(k)
           \/ \E b \in Batches, i \in Pages : PageRead(b, i) \/ PageArrives(b, i)
User == \/ \E on \in BOOLEAN : SetOpen(on)
        \/ \E layer \in Layers : SetLayer(layer)
        \/ \E mode \in {"timeline", "cell"} : SetMode(mode)
        \/ \E c \in {Cell, NoCell} : SelectCell(c)
        \/ \E f \in Filters \cup {NoFilter} : EditDraft(f)
        \/ ToggleForm \/ ApplyFilters \/ ResetFilters
        \/ \E k \in Keys : LoadMore(k) \/ RetryList(k) \/ ListFails(k)
        \/ \E b \in Batches : \/ BatchToggle(b) \/ RetryDetail(b) \/ LoadMoreDetail(b)
                              \/ \E i \in Pages : PageFails(b, i)
HistoryNext == Answers \/ User \/ OtherCommits \/ OwnCommits

HistorySpec == HistoryInit /\ [][HistoryNext]_historyVars

-----------------------------------------------------------------------------
(* Details on screen, page by page, were read after the latest own change this *)
(* tab was told of: their jump targets do not lead to a row it has deleted.    *)
DetailsFollowOwnChanges ==
    \A b \in Batches : view.details[b].n # 0 => view.details[b].at >= told

(* "Loading" is never left standing: it is shown for the batch that is open,   *)
(* and the page it waits for is on its way or already in the cache.            *)
LoadingIsPursued ==
    wait.status = "loading" =>
        /\ Authority(view, wait.batch) /\ wait.page = view.details[wait.batch].n + 1
        /\ pages[wait.batch][wait.page].sent \/ pages[wait.batch][wait.page].at # 0

(* Details of the history are read after the latest own change, and what the   *)
(* panel waits for is under way.                                               *)
DetailsHold == DetailsFollowOwnChanges /\ LoadingIsPursued

(* A list on screen that was read before the latest own change is being        *)
(* fetched again, known to be stale, or has failed to be.                      *)
OwnChangesAreListed ==
    \A k \in Observed(view) : lists[k].n # 0 /\ lists[k].snap < told =>
        lists[k].stale \/ lists[k].ask = "all"
=============================================================================
