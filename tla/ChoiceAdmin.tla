----------------------------- MODULE ChoiceAdmin -----------------------------
(* The administration of a choice set by one administrator while others change *)
(* it: the service of the set, the reading of its options page by page, the    *)
(* cache of the browser, the order draft of the page, and the dialogs that     *)
(* edit an option, the set, or import a CSV.  `versions' tells what the set was *)
(* at each version; a summary is the number of the version it tells of.        *)
EXTENDS Naturals, Sequences, FiniteSets, SequencesExt

CONSTANTS Codes,    \* codes of options, numbers so that they have an order
          Initial,  \* codes that exist at first
          Added,    \* the code that creations and imports bring
          Restarts, \* how often the reading of the options starts again (MAX_VERSION_RESTARTS)
          Absent,
          MaxVersion, \* bound: others change the set up to this version
          MaxAdminSteps  \* bound: actions of the administrator and failures

\* What the constants must satisfy.
AdminConstants == /\ Codes \subseteq Nat /\ Initial \subseteq Codes /\ Added \in Codes
                  /\ {Restarts, MaxVersion, MaxAdminSteps} \subseteq Nat /\ IsFiniteSet(Codes)
                  /\ Absent \notin Nat /\ Absent \notin [s : Nat, c : Codes]

VARIABLES versions,     \* the set at every version: whether it is active, and its options
          sum,     \* the summary in the cache, Absent when not read
          listed,  \* the summary in the cached list of sets
          sread,   \* the summary a request under way will bring
          aggregates,   \* aggregates of options, by version
          reading,   \* the reading of the options for the page
          failed,  \* the version whose options could not be read
          reload,  \* the reading of an exact snapshot for the page or a dialog
          page,    \* "list" or "detail"
          find,    \* whether the page lists active options alone
          order,   \* the order draft
          dialog,  \* the dialog that is open, with its session
          mut,     \* the mutation under way
          adminSteps

adminVars == <<versions, sum, listed, sread, aggregates, reading, failed, reload, page, find, order, dialog, mut, adminSteps>>

AdminStep == adminSteps < MaxAdminSteps /\ adminSteps' = adminSteps + 1
StepUnless(free) == IF free THEN UNCHANGED adminSteps ELSE AdminStep

-----------------------------------------------------------------------------
(* The service.                                                               *)

Version == Len(versions)
Now == versions[Version]
(* Options come in the order of sort_order and code.                          *)
Precedes(opts, c, d) == opts[c].s < opts[d].s \/ (opts[c].s = opts[d].s /\ c < d)
SortedCodes(opts) ==
    [i \in 1..Cardinality(DOMAIN opts) |->
        CHOOSE c \in DOMAIN opts : Cardinality({d \in DOMAIN opts : Precedes(opts, d, c)}) = i - 1]
WithOption(opts, c, o) == [d \in DOMAIN opts \cup {c} |-> IF d = c THEN o ELSE opts[d]]
RequireNothing(e) == TRUE
RequireExpectedVersion(e) == e = Version
Bump(set) == versions' = Append(versions, set)

Beyond(opts, after) == {c \in DOMAIN opts : \/ after = Absent \/ opts[c].s > after.s
                                             \/ (opts[c].s = after.s /\ c > after.c)}
First(opts, codes) == CHOOSE c \in codes : \A d \in codes : d = c \/ Precedes(opts, c, d)
APage(v, rest) == [conflict |-> FALSE, v |-> v, more |-> \E c, d \in rest : c # d,
                   code |-> IF rest = {} THEN Absent ELSE First(Now.opts, rest)]
ListOptionsAnyVersion(v, after) == APage(v, Beyond(Now.opts, after))
(* A page: the first option after the cursor, under the version of the cursor. *)
ListOptions(v, after) == IF v # Version THEN [conflict |-> TRUE, v |-> Version]
                         ELSE APage(Version, Beyond(Now.opts, after))

CreateOption(r) == IF ~Now.on \/ r.code \in DOMAIN Now.opts THEN Absent
                   ELSE [Now EXCEPT !.opts = WithOption(@, r.code, r.option)]
PatchOption(r) ==
    LET old == Now.opts[r.code]
        new == IF r.fields = "all" THEN r.option ELSE [old EXCEPT !.on = FALSE]
    IN IF new.on /\ ~old.on /\ ~Now.on THEN Absent
       ELSE [Now EXCEPT !.opts = [@ EXCEPT ![r.code] = new]]
ReorderOptions(r) ==
    IF ToSet(r.codes) # DOMAIN Now.opts THEN Absent
    ELSE [Now EXCEPT !.opts = [c \in DOMAIN @ |->
            [@[c] EXCEPT !.s = (CHOOSE i \in DOMAIN r.codes : r.codes[i] = c) - 1]]]
PatchSet(r) == [Now EXCEPT !.on = r.on, !.name = r.name]

(* The plan of an import; an inactive set takes no new option and none back.   *)
Row == [l |-> 0, s |-> 1, on |-> TRUE]
ImportPlan(set, csv) ==
    [created |-> {Added} \ DOMAIN set.opts,
     updated |-> DOMAIN set.opts \cap {Added},
     errors |-> \/ csv = "faulty"
                \/ ~set.on /\ (Added \in DOMAIN set.opts => ~set.opts[Added].on)]
ImportApply(r) == IF ImportPlan(Now, r.csv).errors THEN Absent
                  ELSE [Now EXCEPT !.opts = WithOption(@, Added, Row)]

Result(r) == CASE r.op = "create" -> CreateOption(r)
               [] r.op = "patch" -> PatchOption(r)
               [] r.op = "order" -> ReorderOptions(r)
               [] r.op = "set" -> PatchSet(r)
               [] r.op = "import" -> ImportApply(r)

-----------------------------------------------------------------------------
(* The cache of the browser, and what the page makes of it.                    *)

ActiveOf(opts) == {c \in DOMAIN opts : opts[c].on}
IsExactChoiceSetAdminSnapshot(v, agg) ==
    agg.v = v /\ Cardinality(DOMAIN agg.opts) = Cardinality(DOMAIN versions[v].opts)
              /\ Cardinality(ActiveOf(agg.opts)) = Cardinality(ActiveOf(versions[v].opts))
NoSnapshot == [v |-> Absent, opts |-> <<>>]
ExactSnapshot(v, aggs) == IF \E a \in aggs : v # Absent /\ IsExactChoiceSetAdminSnapshot(v, a)
                          THEN CHOOSE a \in aggs : a.v = v ELSE NoSnapshot
Snapshot == ExactSnapshot(sum, aggregates)
(* The latest data of a key replaces what was cached under it.                 *)
Cached(a) == {b \in aggregates : b.v # a.v} \cup {a}

NoRead == [want |-> Absent, restarts |-> 0, v |-> Absent, opts |-> <<>>, after |-> Absent]
StartRead(v, restarts) == [NoRead EXCEPT !.want = v, !.restarts = restarts]
NoOrder == [base |-> Absent, seq |-> <<>>, opts |-> <<>>, conflict |-> Absent, dirty |-> FALSE, rebased |-> FALSE]
StartChoiceOrderSession(a) == [NoOrder EXCEPT !.base = a.v, !.seq = SortedCodes(a.opts), !.opts = a.opts]
NoDialog == [kind |-> "none"]
NoMut == [op |-> "none", phase |-> "none"]
NoReload == [phase |-> "none", read |-> NoRead, v |-> Absent, tries |-> 0]

AdminInit == /\ \E on \in BOOLEAN :
                   versions = <<[on |-> on, name |-> 1, opts |-> [c \in Initial |-> [l |-> 1, s |-> c, on |-> TRUE]]]>>
             /\ sum = Absent /\ listed = Absent /\ sread = Absent /\ aggregates = {} /\ reading = NoRead /\ failed = Absent
             /\ reload = NoReload /\ page \in {"list", "detail"} /\ find = "all" /\ order = NoOrder /\ dialog = NoDialog
             /\ mut = NoMut /\ adminSteps = 0

StayServer == UNCHANGED versions
StayCache == UNCHANGED <<sum, listed, sread, aggregates, reading, failed>>
StayPage == UNCHANGED <<page, find, order, dialog>>
StayCalls == UNCHANGED <<reload, mut>>

-----------------------------------------------------------------------------
(* Other administrators.                                                      *)

OtherAdminWrites ==
    /\ Version < MaxVersion
    /\ \/ \E c \in DOMAIN Now.opts :
             \/ Bump([Now EXCEPT !.opts = WithOption(@, c, [Now.opts[c] EXCEPT !.l = Version + 1])])
             \/ /\ Now.on \/ Now.opts[c].on
                /\ Bump([Now EXCEPT !.opts = WithOption(@, c, [Now.opts[c] EXCEPT !.on = ~@])])
             \/ Bump([Now EXCEPT !.opts = [d \in DOMAIN @ |->
                        [@[d] EXCEPT !.s = Cardinality({e \in DOMAIN Now.opts : e > d})]]])
       \/ /\ Now.on /\ Added \notin DOMAIN Now.opts
          /\ Bump([Now EXCEPT !.opts = WithOption(@, Added, [l |-> Version + 1, s |-> 0, on |-> TRUE])])
       \/ Bump([Now EXCEPT !.on = ~@])
    /\ StayCache /\ StayPage /\ StayCalls /\ UNCHANGED adminSteps

-----------------------------------------------------------------------------
(* The reads of the page.                                                     *)

SetsRead == /\ page = "list" /\ listed # Version
            /\ StepUnless(listed = Absent)
            /\ listed' = Version
            /\ StayServer /\ StayPage /\ StayCalls /\ UNCHANGED <<sum, sread, aggregates, reading, failed>>
(* At the mount, and whenever the window is focused again.                     *)
SummaryRequested == /\ page = "detail" /\ sread = Absent
                    /\ StepUnless(sum = Absent)
                    /\ sread' = Version
                    /\ StayServer /\ StayPage /\ StayCalls /\ UNCHANGED <<sum, listed, aggregates, reading, failed>>

(* The effect of a new snapshot: a clean order starts again, a draft made on   *)
(* another version is in conflict.                                            *)
HasUnsavedChoiceOrder(o) == o.dirty \/ o.conflict # Absent
OrderSeen(o, a) == IF a.v = Absent THEN o
                   ELSE IF ~HasUnsavedChoiceOrder(o) THEN StartChoiceOrderSession(a)
                   ELSE IF o.base # a.v /\ o.conflict = Absent THEN [o EXCEPT !.conflict = a.v]
                   ELSE o
SeeSnapshot(v, aggs) == order' = IF page = "detail" /\ ExactSnapshot(v, aggs) # Snapshot
                                 THEN OrderSeen(order, ExactSnapshot(v, aggs)) ELSE order

SummaryAnswered == /\ sread # Absent /\ mut.phase # "refreshing"
                   /\ sum' = sread /\ sread' = Absent /\ SeeSnapshot(sread, aggregates)
                   /\ StayServer /\ StayCalls
                   /\ UNCHANGED <<listed, aggregates, reading, failed, page, find, dialog, adminSteps>>

(* The options of the version of the summary, unless they are there.           *)
ChoiceOptionQuery == /\ page = "detail" /\ sum # Absent /\ reading = NoRead /\ failed # sum
                     /\ ~\E a \in aggregates : a.v = sum
                     /\ reading' = StartRead(sum, 0)
                     /\ StayServer /\ StayPage /\ StayCalls
                     /\ UNCHANGED <<sum, listed, sread, aggregates, failed, adminSteps>>

(* What a page of options does to a reading: the next version to ask for, the  *)
(* aggregate so far, or the end of it.                                        *)
CanRestart(r) == r.restarts < Restarts
TakePage(r, p) ==
    IF p.conflict THEN StartRead(p.v, r.restarts + 1)
    ELSE [r EXCEPT !.v = p.v, !.after = IF p.code = Absent THEN Absent
                                        ELSE [s |-> Now.opts[p.code].s, c |-> p.code],
                   !.opts = IF p.code = Absent THEN @ ELSE WithOption(@, p.code, Now.opts[p.code])]
VersionAsked(r) == IF r.v = Absent THEN r.want ELSE r.v
NextPage(r) == ListOptions(VersionAsked(r), r.after)
MalformedPage(r, p) == ~p.conflict /\ ((r.v # Absent /\ p.v # r.v) \/ p.code \in DOMAIN r.opts)
ReadingFails(r, p) == MalformedPage(r, p) \/ (p.conflict /\ ~CanRestart(r))
Ends(p) == ~p.conflict /\ ~p.more

(* An aggregate of another version goes under its own key, and the summary is  *)
(* read again.                                                                *)
FetchPage ==
    /\ reading # NoRead
    /\ LET p == NextPage(reading)
           r == TakePage(reading, p)
           agg == [v |-> r.v, opts |-> r.opts]
       IN \/ /\ ReadingFails(reading, p)
             /\ reading' = NoRead /\ failed' = sum /\ UNCHANGED <<aggregates, sread, order>>
          \/ /\ ~ReadingFails(reading, p) /\ ~Ends(p)
             /\ reading' = r /\ UNCHANGED <<aggregates, sread, failed, order>>
          \/ /\ ~ReadingFails(reading, p) /\ Ends(p)
             /\ reading' = NoRead /\ aggregates' = Cached(agg)
             /\ IF agg.v = sum THEN UNCHANGED <<sread, failed>>
                ELSE sread' = Version /\ failed' = sum
             /\ SeeSnapshot(sum, Cached(agg))
    /\ StayServer /\ StayCalls /\ UNCHANGED <<sum, listed, page, find, dialog, adminSteps>>
OptionsFail == /\ reading # NoRead /\ AdminStep
               /\ reading' = NoRead /\ failed' = sum
               /\ StayServer /\ StayCalls /\ StayPage /\ UNCHANGED <<sum, listed, sread, aggregates>>

-----------------------------------------------------------------------------
(* The page of a set: what it offers, and its order draft.                     *)

ReorderPending == mut.op = "order" \/ (reload.phase # "none" /\ dialog.kind = "none")
DisplayOptions == IF order # NoOrder THEN order.opts ELSE Snapshot.opts
FilterChoiceOptions(opts) == {c \in DOMAIN opts : find = "all" \/ opts[c].on}
IsChoiceReorderAvailable == find = "all"
ReorderDisabled == Snapshot.v = Absent \/ order = NoOrder \/ ReorderPending \/ order.conflict # Absent
                   \/ ~IsChoiceReorderAvailable
MayOpen == page = "detail" /\ sum # Absent /\ dialog.kind = "none" /\ Snapshot.v # Absent
OnDetail == page = "detail" /\ sum # Absent /\ dialog.kind = "none"

(* The rows, their buttons, and the alerts of the page.                        *)
Rows == FilterChoiceOptions(DisplayOptions)
MoveOffered(i) == ~ReorderDisabled /\ i < Len(order.seq)
DeactivateOffered(c) == DisplayOptions[c].on

MoveOption(seq, i, j) == [seq EXCEPT ![i] = seq[j], ![j] = seq[i]]
Moved(o, i, j) == [o EXCEPT !.seq = MoveOption(@, i, j), !.dirty = TRUE]
BuildChoiceReorderSubmission(o) ==
    IF o.conflict # Absent \/ ~o.dirty \/ o.base # Snapshot.v \/ ToSet(o.seq) # DOMAIN Snapshot.opts
    THEN NoMut
    ELSE [op |-> "order", phase |-> "sent", base |-> o.base, codes |-> o.seq]

Reorder == /\ OnDetail /\ AdminStep /\ mut = NoMut
           /\ \E i \in {j \in DOMAIN order.seq : MoveOffered(j)} :
                 /\ order' = Moved(order, i, i + 1)
                 /\ mut' = BuildChoiceReorderSubmission(Moved(order, i, i + 1))
           /\ StayServer /\ StayCache /\ UNCHANGED <<reload, page, find, dialog>>
RebasedSaveOffered == order.rebased /\ order.dirty /\ ~ReorderPending
RetryReorder == /\ OnDetail /\ AdminStep /\ RebasedSaveOffered /\ Snapshot.v # Absent /\ mut = NoMut
                /\ mut' = BuildChoiceReorderSubmission(order) /\ mut' # NoMut
                /\ StayServer /\ StayCache /\ StayPage /\ UNCHANGED reload
ReloadLatestOffered == order.conflict # Absent /\ mut.op # "order"
ReloadLatestOrder == /\ OnDetail /\ AdminStep /\ ReloadLatestOffered /\ reload = NoReload
                     /\ reload' = [NoReload EXCEPT !.phase = "summary"]
                     /\ StayServer /\ StayCache /\ StayPage /\ UNCHANGED mut
ChangeActive == /\ OnDetail /\ AdminStep
                /\ find' = IF find = "all" THEN "active" ELSE "all"
                /\ StayServer /\ StayCache /\ StayCalls /\ UNCHANGED <<page, order, dialog>>

(* The draft on the latest snapshot: kept while the codes are the same.        *)
OrderReloaded(o, a) ==
    LET same == ToSet(o.seq) = DOMAIN a.opts
    IN [NoOrder EXCEPT !.base = a.v, !.seq = IF same THEN o.seq ELSE SortedCodes(a.opts),
                       !.opts = a.opts, !.dirty = same /\ o.dirty, !.rebased = same /\ o.dirty]

-----------------------------------------------------------------------------
(* The dialogs.  The option dialog owns the snapshot of its opening.           *)

OptionSession(kind, snap, code, draft) ==
    [kind |-> kind, snap |-> snap, base |-> snap.v, conflict |-> Absent, code |-> code,
     draft |-> draft, touched |-> {}]
OpenOptionEditor ==
    /\ MayOpen /\ AdminStep
    /\ \/ dialog' = OptionSession("create", Snapshot, Added, Row)
       \/ \E c \in Rows, kind \in {"edit", "deactivate"} :
             /\ kind = "deactivate" => DeactivateOffered(c)
             /\ dialog' = OptionSession(kind, Snapshot, c, DisplayOptions[c])
    /\ StayServer /\ StayCache /\ StayCalls /\ UNCHANGED <<page, find, order>>
ImportSession(snap) == [kind |-> "import", snap |-> snap, base |-> snap.v, conflict |-> Absent,
                        csv |-> "none", preview |-> Absent]
OpenImport == /\ MayOpen /\ AdminStep /\ dialog' = ImportSession(Snapshot)
              /\ StayServer /\ StayCache /\ StayCalls /\ UNCHANGED <<page, find, order>>
(* The drawer of the set needs no options: the summary of the row or the page. *)
SetSession(v) == [kind |-> "set", base |-> v, conflict |-> Absent, on |-> versions[v].on, name |-> versions[v].name]
EditRowOffered == page = "list" /\ listed # Absent
OpenSetEditor == /\ dialog.kind = "none" /\ AdminStep
                 /\ \/ EditRowOffered /\ dialog' = SetSession(listed)
                    \/ OnDetail /\ dialog' = SetSession(sum)
                 /\ StayServer /\ StayCache /\ StayCalls /\ UNCHANGED <<page, find, order>>

InDialog == dialog.kind # "none" /\ mut = NoMut /\ reload = NoReload
IsOption == dialog.kind \in {"create", "edit", "deactivate"}
WriteAuthorized == dialog.snap.v = Snapshot.v /\ Snapshot.v # Absent
ObservedConflict == sum # Absent /\ sum > dialog.snap.v

(* What the forms let be changed: the fields of the option (active only in an  *)
(* active set), the acknowledgement of a deactivation, the set, or the CSV.    *)
OptionFields == IF versions[dialog.snap.v].on THEN {"l", "on"} ELSE {"l"}
Retyped(draft, f) == [draft EXCEPT ![f] = IF f = "l" THEN 0 ELSE ~@]
ChangeOption(f) == /\ dialog.kind \in {"create", "edit"}
                   /\ dialog' = [dialog EXCEPT !.touched = @ \cup {f},
                                 !.draft = Retyped(@, f)]
AcknowledgeImpact == dialog.kind = "deactivate" /\ dialog' = [dialog EXCEPT !.touched = {"on"}]
ChangeSet == /\ dialog.kind = "set"
             /\ dialog' \in {[dialog EXCEPT !.on = ~@], [dialog EXCEPT !.name = 0]}
ChangeCsv == /\ dialog.kind = "import"
             /\ \E csv \in {"good", "faulty"} \ {dialog.csv} : dialog' = [dialog EXCEPT !.csv = csv]
ChangeField ==
    /\ InDialog /\ AdminStep
    /\ \/ IsOption /\ \E f \in OptionFields : ChangeOption(f)
       \/ AcknowledgeImpact \/ ChangeSet \/ ChangeCsv
    /\ StayServer /\ StayCache /\ StayCalls /\ UNCHANGED <<page, find, order>>

BuildChoiceOptionSubmission ==
    IF dialog.base # dialog.snap.v \/ dialog.conflict # Absent
       \/ (dialog.kind # "create" /\ dialog.code \notin DOMAIN dialog.snap.opts)
       \/ (dialog.kind = "deactivate" /\ dialog.touched = {})
    THEN NoMut
    ELSE [op |-> IF dialog.kind = "create" THEN "create" ELSE "patch", phase |-> "sent",
          base |-> dialog.base, code |-> dialog.code, option |-> dialog.draft,
          fields |-> IF dialog.kind = "deactivate" THEN "on" ELSE "all", touched |-> dialog.touched]
BuildChoiceSetEditorSubmission == [op |-> "set", phase |-> "sent", base |-> dialog.base,
                                   on |-> dialog.on, name |-> dialog.name]
OptionSubmitOffered == IsOption /\ WriteAuthorized /\ BuildChoiceOptionSubmission # NoMut
SubmitOption == /\ InDialog /\ AdminStep /\ OptionSubmitOffered /\ mut' = BuildChoiceOptionSubmission
                /\ StayServer /\ StayCache /\ StayPage /\ UNCHANGED reload
SetSubmitOffered == dialog.kind = "set" /\ dialog.conflict = Absent
SubmitSet == /\ InDialog /\ SetSubmitOffered /\ AdminStep
             /\ mut' = BuildChoiceSetEditorSubmission
             /\ StayServer /\ StayCache /\ StayPage /\ UNCHANGED reload

(* A preview is good for the CSV and the version it was made of.               *)
IsCurrentChoicePreview == /\ dialog.preview # Absent
                          /\ dialog.preview.csv = dialog.csv /\ dialog.preview.v = dialog.snap.v
CanApplyChoicePreview == IsCurrentChoicePreview /\ ~dialog.preview.plan.errors
PreviewOffered == /\ dialog.kind = "import" /\ WriteAuthorized /\ dialog.csv # "none"
                  /\ dialog.conflict = Absent /\ ~ObservedConflict
Preview == /\ InDialog /\ PreviewOffered /\ AdminStep
           /\ mut' = [op |-> "preview", phase |-> "sent", base |-> dialog.snap.v, csv |-> dialog.csv]
           /\ StayServer /\ StayCache /\ StayPage /\ UNCHANGED reload
ApplyOffered == /\ dialog.kind = "import" /\ WriteAuthorized
                /\ dialog.conflict = Absent /\ CanApplyChoicePreview
ApplyImport == /\ InDialog /\ ApplyOffered /\ AdminStep
               /\ mut' = [op |-> "import", phase |-> "sent", base |-> dialog.preview.v,
                          csv |-> dialog.preview.csv, plan |-> dialog.preview.plan]
               /\ StayServer /\ StayCache /\ StayPage /\ UNCHANGED reload

(* The latest version: read again, except for the drawer of the set, which     *)
(* takes the summary its conflict brought.                                     *)
ReloadOffered == (IsOption \/ dialog.kind = "import")
                 /\ (dialog.conflict # Absent \/ ObservedConflict \/ ~WriteAuthorized)
ReloadDialog == /\ InDialog /\ AdminStep
                /\ \/ ReloadOffered /\ reload' = [NoReload EXCEPT !.phase = "summary"] /\ UNCHANGED dialog
                   \/ /\ dialog.kind = "set" /\ dialog.conflict # Absent
                      /\ dialog' = SetSession(dialog.conflict) /\ UNCHANGED reload
                /\ StayServer /\ StayCache /\ UNCHANGED <<page, find, order, mut>>
CloseDialog == /\ InDialog /\ dialog' = NoDialog
               /\ StayServer /\ StayCache /\ StayCalls /\ UNCHANGED <<page, find, order, adminSteps>>

-----------------------------------------------------------------------------
(* The reading of an exact snapshot: a summary, then all options, three times. *)

ReloadSummary == /\ reload.phase = "summary"
                 /\ reload' = [reload EXCEPT !.phase = "options", !.v = Version, !.tries = @ + 1,
                                             !.read = StartRead(Version, 0)]
                 /\ StayServer /\ StayCache /\ StayPage /\ UNCHANGED <<mut, adminSteps>>

DialogReloaded(a) ==
    IF dialog.kind \notin {"create", "edit", "deactivate", "import"} THEN dialog
    ELSE IF dialog.kind = "import" THEN [dialog EXCEPT !.snap = a, !.base = a.v, !.conflict = Absent]
    ELSE [dialog EXCEPT !.snap = a, !.base = a.v, !.conflict = Absent, !.touched = {},
                        !.draft = IF dialog.kind = "create" \/ dialog.code \notin DOMAIN a.opts THEN Row
                                  ELSE a.opts[dialog.code]]
(* The snapshot goes to the cache, to the dialog, and to the order draft.      *)
ReloadLoaded(a) ==
    /\ reload' = NoReload /\ sum' = a.v /\ aggregates' = Cached(a)
    /\ IF dialog.kind = "none"
       THEN /\ order' = IF order = NoOrder THEN StartChoiceOrderSession(a) ELSE OrderReloaded(order, a)
            /\ UNCHANGED dialog
       ELSE dialog' = DialogReloaded(a) /\ SeeSnapshot(a.v, Cached(a))
LoadExactSnapshot ==
    /\ reload.phase = "options"
    /\ LET p == NextPage(reload.read)
           r == TakePage(reload.read, p)
           agg == [v |-> r.v, opts |-> r.opts]
       IN \/ /\ ReadingFails(reload.read, p)
             /\ reload' = NoReload /\ UNCHANGED <<sum, aggregates, order, dialog>>
          \/ /\ ~ReadingFails(reload.read, p) /\ ~Ends(p)
             /\ reload' = [reload EXCEPT !.read = r] /\ UNCHANGED <<sum, aggregates, order, dialog>>
          \/ /\ ~ReadingFails(reload.read, p) /\ Ends(p)
             /\ IF IsExactChoiceSetAdminSnapshot(reload.v, agg) THEN ReloadLoaded(agg)
                ELSE /\ reload' = IF reload.tries < 3 THEN [reload EXCEPT !.phase = "summary"] ELSE NoReload
                     /\ UNCHANGED <<sum, aggregates, order, dialog>>
    /\ StayServer /\ UNCHANGED <<listed, sread, reading, failed, page, find, mut, adminSteps>>

-----------------------------------------------------------------------------
(* The mutations at the service, and what their answers do.  A dialog that was  *)
(* opened while a reordering is under way waits for it.                        *)

Handle ==
    /\ mut.phase = "sent"
    /\ IF ~RequireExpectedVersion(mut.base)
       THEN mut' = [op |-> mut.op, phase |-> "conflict", latest |-> Version] /\ StayServer
       ELSE IF mut.op = "preview"
       THEN /\ mut' = [op |-> "preview", phase |-> "accepted", base |-> mut.base,
                      csv |-> mut.csv, plan |-> ImportPlan(Now, mut.csv)]
            /\ StayServer
       ELSE IF Result(mut) = Absent
       THEN mut' = [mut EXCEPT !.phase = "refused"] /\ StayServer
       ELSE mut' = [mut EXCEPT !.phase = "accepted"] /\ Bump(Result(mut))
    /\ StayCache /\ StayPage /\ UNCHANGED <<reload, adminSteps>>

SettlePreview == /\ mut.phase = "accepted" /\ mut.op = "preview" /\ mut' = NoMut
                 /\ dialog' = [dialog EXCEPT !.conflict = Absent,
                                 !.preview = [csv |-> mut.csv, v |-> mut.base, plan |-> mut.plan]]
                 /\ StayServer /\ StayCache /\ UNCHANGED <<reload, page, find, order, adminSteps>>
(* A change that was accepted: options under way are dropped, and the list and *)
(* the summary are read again before the options are forgotten.                *)
InvalidateChoiceSetMutation ==
    /\ mut.phase = "accepted" /\ mut.op # "preview"
    /\ mut' = [mut EXCEPT !.phase = "refreshing"]
    /\ reading' = NoRead
    /\ IF page = "detail" THEN sread' = Version /\ UNCHANGED listed
       ELSE listed' = Version /\ UNCHANGED sread
    /\ order' = IF mut.op = "order" THEN [order EXCEPT !.base = Version, !.conflict = Absent,
                                                       !.dirty = FALSE, !.rebased = FALSE]
                ELSE order
    /\ StayServer /\ UNCHANGED <<sum, aggregates, failed, reload, page, find, dialog, adminSteps>>
CompleteChoiceSetMutation ==
    /\ mut.phase = "refreshing" /\ mut' = NoMut
    /\ dialog' = IF mut.op = "order" THEN dialog ELSE NoDialog
    /\ sread' = Absent /\ aggregates' = {} /\ failed' = Absent
    /\ \/ sum' = (IF sread = Absent THEN sum ELSE sread) /\ UNCHANGED adminSteps
       \/ sread # Absent /\ UNCHANGED sum /\ AdminStep
    /\ StayServer /\ UNCHANGED <<listed, reading, reload, page, find, order>>
MutationConflict ==
    /\ mut.phase = "conflict" /\ mut' = NoMut
    /\ IF mut.op = "order" THEN order' = [order EXCEPT !.conflict = mut.latest] /\ UNCHANGED dialog
       ELSE dialog' = [dialog EXCEPT !.conflict = mut.latest] /\ UNCHANGED order
    /\ StayServer /\ StayCache /\ UNCHANGED <<reload, page, find, adminSteps>>
(* An answer that is lost leaves the draft, whatever the service did.          *)
MutationFails == /\ mut.phase \in {"sent", "accepted", "refused"} /\ mut' = NoMut
                 /\ StepUnless(mut.phase = "refused")
                 /\ StayServer /\ StayCache /\ StayPage /\ UNCHANGED reload

-----------------------------------------------------------------------------
(* Routes: a page that is pending is not left; drafts are left on demand.      *)

Navigate == /\ AdminStep /\ mut = NoMut /\ reload = NoReload /\ dialog.kind = "none"
            /\ page' = IF page = "list" THEN "detail" ELSE "list"
            /\ find' = "all" /\ failed' = Absent /\ reading' = NoRead
            /\ order' = IF page' = "detail" /\ Snapshot.v # Absent
                             THEN StartChoiceOrderSession(Snapshot) ELSE NoOrder
            /\ StayServer /\ UNCHANGED <<sum, listed, sread, aggregates, reload, dialog, mut>>

AdminNext == \/ OtherAdminWrites \/ SetsRead \/ SummaryRequested \/ SummaryAnswered \/ ChoiceOptionQuery
             \/ FetchPage \/ OptionsFail \/ Reorder \/ RetryReorder \/ ReloadLatestOrder \/ ChangeActive
             \/ OpenOptionEditor \/ OpenImport \/ OpenSetEditor \/ ChangeField \/ SubmitOption \/ SubmitSet
             \/ Preview \/ ApplyImport \/ ReloadDialog \/ CloseDialog \/ ReloadSummary \/ LoadExactSnapshot
             \/ Handle \/ SettlePreview \/ InvalidateChoiceSetMutation \/ CompleteChoiceSetMutation
             \/ MutationConflict \/ MutationFails \/ Navigate

AdminSpec == AdminInit /\ [][AdminNext]_adminVars

-----------------------------------------------------------------------------
(* What is cached as the options of a version is what the set had at that      *)
(* version, although it was read page by page while others changed the set.    *)
AggregateMatchesVersion == \A a \in aggregates : a.v <= Version /\ a.opts = versions[a.v].opts

Accepted(op) == mut.op = op /\ mut.phase = "sent" /\ mut'.phase = "accepted"
(* An import that is applied creates and updates exactly what its last preview *)
(* announced to the administrator, who saw no error in it.                     *)
AppliedAsPreviewed ==
    [][Accepted("import") =>
         /\ ~mut.plan.errors
         /\ mut.plan.created = DOMAIN versions'[Len(versions')].opts \ DOMAIN Now.opts
         /\ mut.plan.updated = {Added} \cap DOMAIN Now.opts]_adminVars
(* A change of an option leaves every field alone that the administrator did   *)
(* not touch.                                                                 *)
NoUnseenOverwrite ==
    [][Accepted("patch") =>
         \A f \in {"l", "on"} : versions'[Len(versions')].opts[mut.code][f] # Now.opts[mut.code][f] => f \in mut.touched]_adminVars
=============================================================================
