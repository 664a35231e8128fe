---------------------------- MODULE DiffWorkbench ----------------------------
(* The backbone comparison of one project in one browser tab: the controller   *)
(* that fetches its root, branch (rows of a layer) and cell pages through the  *)
(* query cache, the ledger of tokens that decides which cached page may be     *)
(* published, the reducer of what is open, and the panel that opens it.        *)
(* The cache and its requests are the query library's; the server answers a    *)
(* branch or cell request only while the basis of its scope is the present one.*)
EXTENDS Naturals, FiniteSetsExt

CONSTANTS Filters,      \* root query options the user can choose
          Layers,       \* layers of the comparison, each with one row
          NoLayer,      \* nothing is open
          PageCount,    \* pages of a branch and of a cell list
          MaxDiffSteps, \* bound: actions of users and failures
          MaxMounts     \* bound: mounts of the sheet page

\* What the constants must satisfy.
WorkbenchConstants ==
    /\ Filters # {} /\ NoLayer \notin Layers /\ PageCount \in Nat \ {0}
    /\ MaxDiffSteps \in Nat /\ MaxMounts \in Nat \ {0}

VARIABLES compared,   \* basis of the comparison on the server, a new one per change
          own,      \* basis made by a save of this page not yet answered, or 0
          page,     \* the sheet page: its count of own changes and the basis of the last
          ledger,   \* tokens of root requests: the last, issued and accepted per key
          roots,    \* cached root result and request in flight, per key
          lanes,    \* cached pages and request in flight, per lane and key
          view,     \* the controller's state and the panel's expanded layer and row
          floor,    \* basis of the latest change this tab has fenced off
          diffSteps

diffVars == <<compared, own, page, ledger, roots, lanes, view, floor, diffSteps>>

Lanes == {"branch", "cell"}
NoPages == [basis |-> 0, layer |-> NoLayer, n |-> 0]

NewRoot == [token |-> 0, basis |-> 0, stale |-> FALSE, failed |-> FALSE, sent |-> 0, read |-> 0]
NewLane == [token |-> 0, n |-> 0, sent |-> 0, want |-> 0, error |-> "none",
            issued |-> 0, accepted |-> 0]
NoLanes == [l \in Lanes |-> [k \in Layers |-> NewLane]]

RootOnly == [mode |-> "root", layer |-> NoLayer, cell |-> FALSE]
NothingShown == [l \in Lanes |-> NoPages]
NewView == [on |-> FALSE, filter |-> CHOOSE f \in Filters : TRUE, rev |-> 0, gen |-> 0,
            basis |-> 0, open |-> RootOnly, shown |-> NothingShown,
            expanded |-> NoLayer, row |-> FALSE]
WorkbenchInit == /\ compared = 1 /\ own = 0 /\ floor = 0 /\ diffSteps = 0
                 /\ page = [count |-> 0, seen |-> 0, told |-> 0, mounts |-> 1]
                 /\ ledger = [seq |-> 0, fence |-> 0, issued |-> [f \in Filters |-> 0],
                               accepted |-> [f \in Filters |-> 0]]
                 /\ roots = [f \in Filters |-> NewRoot]
                 /\ lanes = NoLanes /\ view = NewView

WorkbenchStep == diffSteps < MaxDiffSteps /\ diffSteps' = diffSteps + 1

-----------------------------------------------------------------------------
(* The reducer.  What is open is the root alone, the list of a layer, or also *)
(* the list of its row; a list that is hidden, not closed, keeps its pages.    *)

Mode(v, mode) == [v EXCEPT !.open = [mode |-> mode, layer |-> v.open.layer, cell |-> v.open.cell]]
Showing(v, l, pages) == [v EXCEPT !.shown = [v.shown EXCEPT ![l] = pages]]

CloseCell(v) ==
    IF v.open.mode # "cell" THEN v
    ELSE Showing([v EXCEPT !.open = [mode |-> "branch", layer |-> v.open.layer, cell |-> FALSE]],
                 "cell", NoPages)

ToRootKeepingPages(v) == [v EXCEPT !.open = RootOnly]
ToRoot(v) == [[v EXCEPT !.open = RootOnly] EXCEPT !.shown = NothingShown]

CloseBranch(v) == IF v.open.mode # "branch" THEN v ELSE ToRoot(v)

OpenBranch(v, layer) ==
    IF v.open.layer = layer
    THEN IF v.open.mode = "branch" THEN ToRoot(v) ELSE Mode(v, "branch")
    ELSE [ToRoot(v) EXCEPT !.open = [mode |-> "branch", layer |-> layer, cell |-> FALSE]]

OpenCell(v) ==
    IF v.open.cell THEN Mode(v, IF v.open.mode = "cell" THEN "branch" ELSE "cell")
    ELSE Showing([v EXCEPT !.open = [mode |-> "cell", layer |-> v.open.layer, cell |-> TRUE]],
                 "cell", NoPages)

ClearOpenScopes(v) == IF v.open.layer = NoLayer THEN v ELSE [ToRoot(v) EXCEPT !.rev = v.rev + 1]

Fold(v) == [[v EXCEPT !.expanded = NoLayer] EXCEPT !.row = FALSE]
Query(v, f, basis) == [[[v EXCEPT !.filter = f] EXCEPT !.rev = v.rev + 1] EXCEPT !.basis = basis]

ReplaceFilters(v, f) == Query(ToRoot(v), f, 0)

(* A result of another basis closes what was open under the old one, and the   *)
(* panel folds its expanded layer when the basis it shows changes.             *)
SetRootResult(v, basis) ==
    IF v.basis = basis THEN v ELSE Fold(Query(ToRoot(v), v.filter, basis))

-----------------------------------------------------------------------------
(* Requests and tokens.                                                      *)

(* A root request takes the next token of the ledger and replaces a request in *)
(* flight for its key, whose answer the cache then ignores.                    *)
RootToken(led, q, f) == Max({led.seq, led.issued[f], q[f].token}) + 1
Requested(r, token) ==
    [[[r EXCEPT !.sent = token] EXCEPT !.read = 0] EXCEPT !.failed = r.failed /\ r.token # 0]
Issued(led, f, token) ==
    [[led EXCEPT !.seq = token] EXCEPT !.issued = [led.issued EXCEPT ![f] = token]]
Fetch(q, led, f) == [q EXCEPT ![f] = Requested(q[f], RootToken(led, q, f))]
Issue(q, led, f) == Issued(led, f, RootToken(led, q, f))

(* Cancelling and invalidating every root of the project: requests in flight  *)
(* are dropped, pages are stale, and the root on screen is asked for again.    *)
Cancelled(r) == [[r EXCEPT !.sent = 0] EXCEPT !.read = 0]
Invalid(q) == [f \in Filters |-> [Cancelled(q[f]) EXCEPT !.stale = TRUE]]
CancelRoots(led) == roots' = Invalid(roots) /\ ledger' = led
InvalidateRoots(led) ==
    /\ roots' = IF view.on THEN Fetch(Invalid(roots), led, view.filter) ELSE Invalid(roots)
    /\ ledger' = IF view.on THEN Issue(Invalid(roots), led, view.filter) ELSE led

(* An observed key without a page, or with a stale one, is fetched.            *)
Observe(v) ==
    LET f == v.filter
    IN  IF v.on /\ roots[f].sent = 0 /\ (roots[f].token = 0 \/ roots[f].stale)
        THEN roots' = Fetch(roots, ledger, f) /\ ledger' = Issue(roots, ledger, f)
        ELSE UNCHANGED <<roots, ledger>>

(* Lists are cached by basis and layer; a basis never returns, so only those of *)
(* the root on screen are kept here.                                           *)
LaneOn(v, l) == /\ v.on /\ v.basis # 0
                /\ \/ l = "branch" /\ v.open.mode # "root"
                   \/ l = "cell" /\ v.open.mode = "cell"
LaneNow(l) == lanes[l][view.open.layer]
SetLane(l, k, e) == lanes' = [lanes EXCEPT ![l] = [lanes[l] EXCEPT ![k] = e]]
LaneRequest(e, want, token) ==
    [token |-> e.token, n |-> e.n, sent |-> token, want |-> want, error |-> "none",
     issued |-> token, accepted |-> e.accepted]
LaneFetch(l, want) ==
    LET e == LaneNow(l)
    IN  SetLane(l, view.open.layer, LaneRequest(e, want, Max({e.issued, e.token}) + 1))

(* Every known root key gets a token no request holds, so that a page cached  *)
(* before is neither issued nor accepted.                                      *)
FenceLedger ==
    LET known == {f \in Filters : ledger.issued[f] > 0 \/ ledger.accepted[f] > 0}
        token == Max({ledger.seq} \cup {ledger.issued[f] : f \in known}
                                  \cup {ledger.accepted[f] : f \in known}) + 1
    IN  [seq |-> token, fence |-> ledger.fence,
         issued |-> [f \in Filters |-> IF f \in known THEN token ELSE ledger.issued[f]],
         accepted |-> [f \in Filters |-> IF f \in known THEN 0 ELSE ledger.accepted[f]]]

ApplyProjectFence == view' = [ClearOpenScopes(view) EXCEPT !.gen = view.gen + 1]

-----------------------------------------------------------------------------
(* What the panel lists and offers.                                          *)

FilterOffered(v, f) == v.on /\ f # v.filter
RootRetryOffered(v) == v.on /\ roots[v.filter].failed
LayerListed(v) == v.on /\ v.basis # 0
HasLayerBranch(v, layer) == v.basis # 0 /\ v.open.layer = layer
HasCellBranch(v) == v.basis # 0 /\ v.open.cell
RowListed(v) == /\ v.on /\ v.expanded # NoLayer /\ HasLayerBranch(v, v.expanded)
                /\ v.shown["branch"] # NoPages
FailedWhole(e) == e.error # "none" /\ (e.n = 0 \/ e.want = e.n)
ConditionsRetryOffered(v) == v.expanded # NoLayer /\ HasLayerBranch(v, v.expanded) /\ FailedWhole(LaneNow("branch"))
CellsRetryOffered(v) == RowListed(v) /\ v.row /\ HasCellBranch(v) /\ FailedWhole(LaneNow("cell"))
MoreConditionsOffered(v) == RowListed(v) /\ v.shown["branch"].n < PageCount /\ ~FailedWhole(LaneNow("branch"))
MoreCellsOffered(v) ==
    /\ RowListed(v) /\ v.row /\ HasCellBranch(v) /\ v.shown["cell"] # NoPages
    /\ v.shown["cell"].n < PageCount /\ ~FailedWhole(LaneNow("cell"))

-----------------------------------------------------------------------------
(* The server and the sheet page.                                            *)

OtherCommits == /\ WorkbenchStep /\ compared' = compared + 1
                /\ UNCHANGED <<own, page, ledger, roots, lanes, view, floor>>

OwnCommits == /\ WorkbenchStep /\ own = 0 /\ compared' = compared + 1 /\ own' = compared'
              /\ UNCHANGED <<page, ledger, roots, lanes, view, floor>>

(* The answer of an own change raises the count the controller is rendered    *)
(* with and invalidates the project's comparison.                              *)
Persisted ==
    /\ own # 0 /\ own' = 0
    /\ page' = [[page EXCEPT !.count = page.count + 1] EXCEPT !.told = own]
    /\ InvalidateRoots(ledger) /\ lanes' = NoLanes
    /\ UNCHANGED <<compared, view, floor, diffSteps>>

(* The page is left and opened again; the cache and its ledger live on.       *)
Remount ==
    /\ WorkbenchStep /\ page.mounts < MaxMounts /\ own = 0 /\ page.count = page.seen
    /\ page' = [count |-> 0, seen |-> 0, told |-> 0, mounts |-> page.mounts + 1]
    /\ view' = NewView
    /\ UNCHANGED <<compared, own, ledger, roots, lanes, floor>>

(* The cache drops a root nobody observes, and the ledger forgets its tokens. *)
Forgotten(f) ==
    [seq |-> ledger.seq,
     fence |-> IF \A g \in Filters \ {f} : ledger.issued[g] = 0 /\ ledger.accepted[g] = 0
               THEN 0 ELSE ledger.fence,
     issued |-> [ledger.issued EXCEPT ![f] = 0],
     accepted |-> [ledger.accepted EXCEPT ![f] = 0]]
CollectRoot(f) ==
    /\ WorkbenchStep /\ f # view.filter /\ roots[f] # NewRoot /\ roots[f].sent = 0
    /\ roots' = [roots EXCEPT ![f] = NewRoot]
    /\ ledger' = Forgotten(f)
    /\ UNCHANGED <<compared, own, page, lanes, view, floor>>

ReadRoot(f) == /\ roots[f].sent # 0 /\ roots[f].read = 0
               /\ roots' = [roots EXCEPT ![f] = [roots[f] EXCEPT !.read = compared]]
               /\ UNCHANGED <<compared, own, page, ledger, lanes, view, floor, diffSteps>>
RootArrives(f) ==
    /\ roots[f].read # 0
    /\ roots' = [roots EXCEPT ![f] = [[NewRoot EXCEPT !.token = roots[f].sent]
                                         EXCEPT !.basis = roots[f].read]]
    /\ UNCHANGED <<compared, own, page, ledger, lanes, view, floor, diffSteps>>
RootFails(f) ==
    /\ WorkbenchStep /\ roots[f].sent # 0
    /\ roots' = [roots EXCEPT ![f] = [Cancelled(roots[f]) EXCEPT !.failed = TRUE]]
    /\ UNCHANGED <<compared, own, page, ledger, lanes, view, floor>>

LaneFilled(e) == [[[e EXCEPT !.sent = 0] EXCEPT !.n = e.want] EXCEPT !.token = e.sent]
LaneFailed(e, error) == [[e EXCEPT !.sent = 0] EXCEPT !.error = error]
LaneArrives(l, k) ==
    LET e == lanes[l][k]
    IN  /\ e.sent # 0
        /\ SetLane(l, k, IF view.basis = compared THEN LaneFilled(e) ELSE LaneFailed(e, "changed"))
        /\ UNCHANGED <<compared, own, page, ledger, roots, view, floor, diffSteps>>
LaneFails(l, k) ==
    /\ WorkbenchStep /\ lanes[l][k].sent # 0
    /\ SetLane(l, k, LaneFailed(lanes[l][k], "network"))
    /\ UNCHANGED <<compared, own, page, ledger, roots, view, floor>>

-----------------------------------------------------------------------------
(* The layout effects of the controller. They run after every render, in this  *)
(* order: the fence of a new own change, the root result, the lists. Each      *)
(* publishes only while the state is still the one that was rendered, so an    *)
(* effect that changed it leaves the later ones to the next render.            *)

(* A new count of own changes fences the ledger, unless the ledger has fenced *)
(* that very count before.                                                     *)
FenceOnRevision ==
    /\ page.count # page.seen
    /\ page' = [page EXCEPT !.seen = page.count]
    /\ ApplyProjectFence /\ floor' = page.told
    /\ IF ledger.fence # page.count
       THEN InvalidateRoots([FenceLedger EXCEPT !.fence = page.count]) /\ lanes' = NoLanes
       ELSE UNCHANGED <<ledger, roots, lanes>>
    /\ UNCHANGED <<compared, own, diffSteps>>

RootIsReady ==
    LET f == view.filter
    IN  /\ view.on /\ roots[f].token # 0
        /\ roots[f].token \in {ledger.accepted[f], ledger.issued[f]}
        /\ ledger.accepted[f] # roots[f].token \/ view.basis # roots[f].basis
(* What an effect was rendered with is what the state still is, for the root  *)
(* and for the lists.                                                          *)
RootAuthority == page.count = page.seen
ListAuthority == RootAuthority /\ ~RootIsReady

PublishRoot ==
    /\ RootAuthority /\ RootIsReady
    /\ ledger' = [ledger EXCEPT !.accepted = [ledger.accepted EXCEPT ![view.filter] = roots[view.filter].token]]
    /\ view' = SetRootResult(view, roots[view.filter].basis)
    /\ lanes' = IF view'.basis = view.basis THEN lanes ELSE NoLanes
    /\ UNCHANGED <<compared, own, page, roots, floor, diffSteps>>

(* An open branch or cell list was refused because the basis has changed.     *)
FenceOnError(l) ==
    /\ ListAuthority
    /\ LaneOn(view, l) /\ LaneNow(l).error = "changed"
    /\ ApplyProjectFence /\ floor' = Max({floor, view.basis + 1})
    /\ InvalidateRoots(FenceLedger) /\ lanes' = NoLanes
    /\ UNCHANGED <<compared, own, page, diffSteps>>

PublishLane(l) ==
    LET e == LaneNow(l)  pages == [basis |-> view.basis, layer |-> view.open.layer, n |-> e.n]
    IN  /\ ListAuthority
        /\ LaneOn(view, l) /\ e.n # 0 /\ e.token \in {e.accepted, e.issued}
        /\ e.accepted # e.token \/ view.shown[l] # pages
        /\ SetLane(l, view.open.layer, [e EXCEPT !.accepted = e.token])
        /\ view' = Showing(view, l, pages)
        /\ UNCHANGED <<compared, own, page, ledger, roots, floor, diffSteps>>

(* A list that has just been opened asks for its first page.                  *)
FirstPage(l) == /\ LaneOn(view, l) /\ LaneNow(l).n = 0 /\ LaneNow(l).sent = 0 /\ ~LaneNow(l).error = "changed"
                /\ LaneFetch(l, 1)
                /\ UNCHANGED <<compared, own, page, ledger, roots, view, floor, diffSteps>>

-----------------------------------------------------------------------------
(* The user.                                                                 *)

SetOpen(on) == /\ WorkbenchStep /\ view.on # on
               /\ view' = [view EXCEPT !.on = on] /\ Observe(view')
               /\ UNCHANGED <<compared, own, page, lanes, floor>>

ChangeFilters(f) == /\ WorkbenchStep /\ FilterOffered(view, f)
                    /\ view' = Fold(ReplaceFilters(view, f))
                    /\ lanes' = NoLanes /\ Observe(view')
                    /\ UNCHANGED <<compared, own, page, floor>>

RetryRoot == /\ WorkbenchStep /\ RootRetryOffered(view)
             /\ roots' = Fetch(roots, ledger, view.filter) /\ ledger' = Issue(roots, ledger, view.filter)
             /\ UNCHANGED <<compared, own, page, lanes, view, floor>>

FoldLayer(v) == Fold(CloseBranch(IF v.row THEN CloseCell(v) ELSE v))

ToggleLayer(layer) ==
    /\ WorkbenchStep /\ LayerListed(view)
    /\ LET v == IF view.expanded = NoLayer THEN view ELSE FoldLayer(view)
       IN  view' = IF view.expanded = layer THEN v
                   ELSE [(IF HasLayerBranch(view, layer) THEN v ELSE OpenBranch(v, layer))
                           EXCEPT !.expanded = layer]
    /\ UNCHANGED <<compared, own, page, ledger, roots, lanes, floor>>

(* A row is listed only under an expanded layer whose pages are shown.        *)
ToggleRow ==
    /\ WorkbenchStep /\ RowListed(view)
    /\ view' = IF view.row THEN [CloseCell(view) EXCEPT !.row = FALSE]
               ELSE [(IF HasCellBranch(view) THEN view ELSE OpenCell(view)) EXCEPT !.row = TRUE]
    /\ UNCHANGED <<compared, own, page, ledger, roots, lanes, floor>>

LoadMore(l) == /\ WorkbenchStep /\ LaneOn(view, l)
               /\ IF l = "cell" THEN MoreCellsOffered(view) ELSE MoreConditionsOffered(view)
               /\ LaneNow(l).n \in 1..(PageCount - 1) /\ LaneNow(l).sent = 0
               /\ LaneFetch(l, LaneNow(l).n + 1)
               /\ UNCHANGED <<compared, own, page, ledger, roots, view, floor>>

RetryLane(l) == /\ WorkbenchStep /\ LaneOn(view, l)
                /\ IF l = "cell" THEN CellsRetryOffered(view) ELSE ConditionsRetryOffered(view)
                /\ LaneFetch(l, Max({1, LaneNow(l).n}))
                /\ UNCHANGED <<compared, own, page, ledger, roots, view, floor>>

Effects == \/ FenceOnRevision \/ PublishRoot
           \/ \E l \in Lanes : FenceOnError(l) \/ PublishLane(l) \/ FirstPage(l)
Answers == \/ Persisted
           \/ \E f \in Filters : ReadRoot(f) \/ RootArrives(f)
           \/ \E l \in Lanes, k \in Layers : LaneArrives(l, k)
User == \/ \E on \in BOOLEAN : SetOpen(on)
        \/ \E f \in Filters : ChangeFilters(f) \/ CollectRoot(f) \/ RootFails(f)
        \/ \E layer \in Layers : ToggleLayer(layer)
        \/ ToggleRow \/ RetryRoot
        \/ \E l \in Lanes : LoadMore(l) \/ RetryLane(l) \/ \E k \in Layers : LaneFails(l, k)
WorkbenchNext == Effects \/ Answers \/ User \/ OtherCommits \/ OwnCommits \/ Remount

WorkbenchSpec == WorkbenchInit /\ [][WorkbenchNext]_diffVars /\ WF_diffVars(Effects) /\ WF_diffVars(Answers)

-----------------------------------------------------------------------------
Modes == {"root", "branch", "cell"}
LayerOrNone == Layers \cup {NoLayer}
PageList == [basis : Nat, layer : LayerOrNone, n : Nat]
Root == [token : Nat, basis : Nat, stale : BOOLEAN, failed : BOOLEAN, sent : Nat, read : Nat]
Lane == [token : Nat, n : Nat, sent : Nat, want : Nat, error : {"none", "network", "changed"},
         issued : Nat, accepted : Nat]

ViewType == [on : BOOLEAN, filter : Filters, rev : Nat, gen : Nat, basis : Nat,
             open : [mode : Modes, layer : LayerOrNone, cell : BOOLEAN],
             shown : [Lanes -> PageList], expanded : LayerOrNone, row : BOOLEAN]

WorkbenchTypeOK ==
    /\ compared \in Nat \ {0} /\ diffSteps \in Nat
    /\ {own, floor, page.told, view.basis} \subseteq 0..compared
    /\ page \in [count : Nat, seen : Nat, told : Nat, mounts : Nat \ {0}]
    /\ ledger \in [seq : Nat, fence : Nat, issued : [Filters -> Nat], accepted : [Filters -> Nat]]
    /\ roots \in [Filters -> Root] /\ lanes \in [Lanes -> [Layers -> Lane]]
    /\ view \in ViewType

(* Once the tab has seen that the comparison changed (its own change came     *)
(* back, or a list was refused), no root that was read before that change is   *)
(* published any more, whatever is cached, in flight or rendered.              *)
NoRootFromBeforeTheFence ==
    [][view'.basis \notin {view.basis, 0} => view'.basis >= floor]_diffVars

(* The same on the page that is opened first.  A page opened again counts its  *)
(* changes from the start, and may take a change of its own for one that the   *)
(* ledger has fenced off already.                                              *)
FirstPageKeepsTheFence ==
    [][page.mounts = 1 /\ view'.basis \notin {view.basis, 0} => view'.basis >= floor]_diffVars

(* The pages on screen are those of the list that is open, of the basis of the *)
(* root on screen: a list of another layer or of an older basis never shows.   *)
PagesMatchTheRoot ==
    \A l \in Lanes : view.shown[l] # NoPages =>
        /\ view.shown[l].basis = view.basis /\ view.shown[l].layer = view.open.layer
        /\ l = "cell" => view.open.cell

(* A root on screen that is older than a change the tab has seen is replaced,  *)
(* unless its request failed and the retry button is offered.                  *)
Outdated == /\ view.on /\ view.basis < floor /\ ~roots[view.filter].failed
OutdatedRootIsReplaced == Outdated ~> ~Outdated
=============================================================================
