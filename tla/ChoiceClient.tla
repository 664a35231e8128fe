----------------------------- MODULE ChoiceClient -----------------------------
(* Choosing an option of a shared choice set while administrators change it:   *)
(* the cache of summaries and options, the resource of a form field or of the  *)
(* columns of a sheet, and the searchable chooser over it.  Every opening of   *)
(* the chooser must first confirm the latest version.  A version is a place in *)
(* the log; requests carry what the service answered when it handled them.     *)
EXTENDS Naturals, Sequences, FiniteSets

CONSTANTS Codes,      \* codes of the options
          Restarts,   \* OPEN_VERSION_RESTARTS
          Unknown,
          LateRenders, \* whether the user may open before an answer is rendered
          MaxVersion, \* bound: the last version of the set
          MaxClientSteps    \* bound: actions of the user, of timers, and failures

\* What the constants must satisfy.
ClientConstants == /\ {Restarts, MaxVersion, MaxClientSteps} \subseteq Nat /\ Unknown \notin Nat
                   /\ LateRenders \in BOOLEAN

VARIABLES log,     \* at every version: whether the set is active, and its active options
          kind,    \* "form" or "sheet": which resource the chooser has
          sum,     \* the version of the cached summary
          sumErr,  \* the last read of the summary failed
          sreq,    \* the answer of a summary request under way
          aggs,    \* versions whose options are in the cache
          areq,    \* requests for options: version asked for, version answered
          aerr,    \* versions whose options could not be read, and why
          loads,   \* confirmations under way: of openings, and in the background
          prep,    \* generation of the latest preparation, whether it runs or failed
          epoch,   \* the version that a confirmation authorised (form)
          settled, \* the version the background confirmation was started for, and one it failed for
          target,  \* the version the sheet reads options of (sheet)
          live,    \* the resource as the open editor sees it
          chooser,
          chosen,  \* the last choice: the code, its version, and what was current at the opening
          clientSteps

cache == <<sum, sumErr, sreq, aggs, areq, aerr>>
hooks == <<loads, prep, epoch, settled, target, live>>
clientVars == <<log, kind, cache, hooks, chooser, chosen, clientSteps>>

ClientStep == clientSteps < MaxClientSteps /\ clientSteps' = clientSteps + 1
Current == Len(log)
Latest(a, b) == IF a = Unknown \/ (b # Unknown /\ b > a) THEN b ELSE a

NoView == [t |-> 1, s |-> Unknown, v |-> Unknown, on |-> FALSE, ready |-> FALSE, err |-> FALSE, loading |-> TRUE]
Closed == [open |-> FALSE, gen |-> 0, preparing |-> FALSE, ready |-> Unknown, err |-> FALSE, since |-> Unknown,
           offered |-> FALSE]

ClientInit == /\ \E act \in SUBSET Codes : log = <<[on |-> TRUE, act |-> act]>>
              /\ kind \in {"form", "sheet"}
              /\ sum = Unknown /\ sumErr = FALSE /\ sreq = 1 /\ aggs = {} /\ aerr = {}
              /\ areq = IF kind = "sheet" THEN {<<1, 1>>} ELSE {}
              /\ loads = {} /\ prep = [gen |-> 0, on |-> FALSE, err |-> FALSE] /\ epoch = Unknown
              /\ settled = [v |-> Unknown, failed |-> Unknown] /\ target = 1 /\ live = NoView
              /\ chooser = Closed /\ chosen = Unknown /\ clientSteps = 0

OtherAdminWrites == /\ Current < MaxVersion
                    /\ \E on \in BOOLEAN, act \in SUBSET Codes :
                          /\ <<on, act>> # <<log[Current].on, log[Current].act>>
                          /\ log' = Append(log, [on |-> on, act |-> act])
                    /\ UNCHANGED <<kind, cache, hooks, chooser, chosen, clientSteps>>

-----------------------------------------------------------------------------
(* The cache.                                                                 *)

AskedFor(v) == v \in {r[1] : r \in areq}
Failed(v) == v \in {e[1] : e \in aerr}
Advanced(v) == <<v, "advanced">> \in aerr
(* The options of a version are asked for, unless they are there or under way. *)
Fetching(v, reqs) == IF v \in aggs \/ AskedFor(v) THEN reqs ELSE reqs \cup {<<v, Current>>}
Superseded(v) == 1..(v - 1)
(* Asking for a version forgets its failure, unless its options are there.     *)
Forgetting(v) == {e \in aerr : e[1] # v \/ v \in aggs}
(* A refetch abandons the request under way, but joins the very first one.     *)
Refetched == IF sum = Unknown /\ sreq # Unknown THEN sreq ELSE Current

(* The focus of the window reads the summary again, and the clock of a sheet.  *)
RefetchSummary == /\ sreq = Unknown /\ sreq' = Current
                  /\ UNCHANGED <<log, kind, sum, sumErr, aggs, areq, aerr, hooks, chooser, chosen>>
WindowFocused == ClientStep /\ RefetchSummary
PollSummary == kind = "sheet" /\ RefetchSummary /\ UNCHANGED clientSteps

(* Confirmations that wait for the summary go on with it, or fail with it; the *)
(* columns of the sheet refuse a summary older than theirs.                    *)
RefusesSummary(l, v) == kind = "sheet" /\ v < l.floor
SettlePreparation(ls) == IF \E l \in ls : l.who = "open" /\ l.gen = prep.gen
                         THEN [gen |-> prep.gen, on |-> FALSE, err |-> TRUE] ELSE prep
(* The chooser with another state of its preparation.                          *)
Preparing(c, gen, preparing, ready, err) ==
    [open |-> c.open, gen |-> gen, preparing |-> preparing, ready |-> ready, err |-> err,
     since |-> c.since, offered |-> c.offered]
PrepareFailed(ls) == IF chooser.open /\ \E l \in ls : l.who = "open" /\ l.turn = chooser.gen
                     THEN Preparing(chooser, chooser.gen, FALSE, Unknown, TRUE) ELSE chooser
LoadsFail(ls) ==
    /\ prep' = SettlePreparation(ls)
    /\ chooser' = PrepareFailed(ls)
    /\ settled' = IF \E l \in ls : l.who = "auth" THEN [settled EXCEPT !.failed = settled.v] ELSE settled
Waiting == {l \in loads : l.phase = "summary"}
Refused == {l \in Waiting : RefusesSummary(l, sreq)}
Going(l, v, tries, phase) == [who |-> l.who, gen |-> l.gen, turn |-> l.turn, floor |-> l.floor,
                              v |-> v, tries |-> tries, phase |-> phase]
(* The sheet asks for the options at once, the form first drops older ones.    *)
Confirmed(l) == Going(l, sreq, l.tries, IF kind = "sheet" THEN "wait" ELSE "options")
SummaryAnswered ==
    /\ sreq # Unknown /\ sum' = sreq /\ sumErr' = FALSE /\ sreq' = Unknown
    /\ loads' = (loads \ Waiting) \cup {Confirmed(l) : l \in Waiting \ Refused}
    /\ LoadsFail(Refused)
    /\ IF kind = "sheet" /\ Waiting # Refused
       THEN areq' = Fetching(sreq, areq) /\ aerr' = Forgetting(sreq)
       ELSE UNCHANGED <<areq, aerr>>
    /\ UNCHANGED <<log, kind, aggs, epoch, target, live, chosen, clientSteps>>
SummaryFails ==
    /\ ClientStep /\ sreq # Unknown /\ sreq' = Unknown /\ sumErr' = TRUE
    /\ loads' = loads \ Waiting /\ LoadsFail(Waiting)
    /\ UNCHANGED <<log, kind, sum, aggs, areq, aerr, epoch, target, live, chosen>>

(* Options of another version than was asked for are kept as that version's,   *)
(* and the summary is read again.                                             *)
AggregateAnswered ==
    \E r \in areq :
       /\ areq' = areq \ {r} /\ aggs' = aggs \cup {r[2]}
       /\ IF r[1] = r[2] THEN /\ aerr' = {e \in aerr : e[1] # r[2]} /\ UNCHANGED sreq
          ELSE /\ aerr' = {e \in aerr : e[1] # r[2]} \cup {<<r[1], "advanced">>} /\ sreq' = Refetched
       /\ UNCHANGED <<log, kind, sum, sumErr, hooks, chooser, chosen, clientSteps>>
AggregateFails ==
    /\ ClientStep
    /\ \E r \in areq : areq' = areq \ {r} /\ aerr' = aerr \cup {<<r[1], "failed">>}
    /\ UNCHANGED <<log, kind, sum, sumErr, sreq, aggs, hooks, chooser, chosen>>

-----------------------------------------------------------------------------
(* A confirmation: the summary, then the options of its version, again when    *)
(* the set moves on.                                                          *)

LoadAsks ==
    \E l \in loads :
       /\ l.phase = "options"
       /\ loads' = (loads \ {l}) \cup {Going(l, l.v, l.tries, "wait")}
       /\ aggs' = aggs \ Superseded(l.v)
       /\ areq' = Fetching(l.v, {r \in areq : r[1] \notin Superseded(l.v)})
       /\ aerr' = {e \in Forgetting(l.v) : e[1] \notin Superseded(l.v)}
       /\ UNCHANGED <<log, kind, sum, sumErr, sreq, prep, epoch, settled, target, live, chooser, chosen, clientSteps>>

MovedOn(l) == Advanced(l.v) \/ ~(l.v \in aggs \/ AskedFor(l.v) \/ Failed(l.v))
LoadRestarts ==
    \E l \in loads :
       /\ l.phase = "wait" /\ l.v \notin aggs /\ MovedOn(l)
       /\ IF l.tries < Restarts
          THEN /\ loads' = (loads \ {l}) \cup {Going(l, l.v, l.tries + 1, "summary")}
               /\ sreq' = Refetched /\ UNCHANGED <<prep, chooser, settled>>
          ELSE loads' = loads \ {l} /\ LoadsFail({l}) /\ UNCHANGED sreq
       /\ UNCHANGED <<log, kind, sum, sumErr, aggs, areq, aerr, epoch, target, live, chosen, clientSteps>>
LoadFails ==
    \E l \in loads :
       /\ l.phase = "wait" /\ l.v \notin aggs /\ <<l.v, "failed">> \in aerr
       /\ loads' = loads \ {l} /\ LoadsFail({l})
       /\ UNCHANGED <<log, kind, cache, epoch, target, live, chosen, clientSteps>>

(* The chooser notices that its options are trusted no more, or again.         *)
ReadinessLost == Preparing(chooser, chooser.gen + 1, FALSE, Unknown, chooser.err)
ReadinessRestored == IF chooser.preparing \/ chooser.err THEN chooser ELSE [chooser EXCEPT !.ready = chooser.gen]
NoticeReadinessLost(was, is) == IF chooser.open /\ was /\ ~is THEN ReadinessLost ELSE chooser
NoticeReadiness(was, is) ==
    IF chooser.open /\ was /\ ~is THEN ReadinessLost
    ELSE IF chooser.open /\ ~was /\ is THEN ReadinessRestored ELSE chooser

(* The chooser takes the end of the preparation of its present generation.     *)
PrepareSucceeded(c, l) ==
    IF c.open /\ l.turn = c.gen THEN Preparing(c, c.gen, FALSE, l.turn, FALSE) ELSE c

(* What the resource of the sheet says; it never goes back to an older version. *)
SheetChoiceTargetVersion(t) == IF sumErr THEN t ELSE Latest(t, sum)
DeriveSheetChoiceResource ==
    LET t == SheetChoiceTargetVersion(target)
        ready == /\ target = t /\ target \in aggs /\ ~Failed(target)
                 /\ ~sumErr /\ sum = t /\ log[t].on
    IN [t |-> t, s |-> IF sumErr THEN Unknown ELSE sum,
        v |-> IF target \in aggs THEN target ELSE live.v,
        on |-> ~sumErr /\ sum # Unknown /\ log[sum].on, ready |-> ready,
        err |-> sumErr \/ <<target, "failed">> \in aerr,
        loading |-> (sum = Unknown /\ ~sumErr) \/ ~(target \in aggs \/ Failed(target))]
PublishLiveChoiceResource(r) ==
    IF r.t < live.t \/ (r.s # Unknown /\ live.s # Unknown /\ r.s < live.s) THEN live ELSE r
PreparedResource(l) ==
    [t |-> Latest(target, l.v), s |-> l.v, v |-> l.v, on |-> log[l.v].on,
     ready |-> log[l.v].on /\ Latest(target, l.v) = l.v, err |-> FALSE, loading |-> FALSE]

(* A background confirmation counts only for the version it was started for.   *)
Authorized(l) ==
    /\ loads' = loads \ {l}
    /\ epoch' = IF l.v = settled.v THEN l.v ELSE epoch
    /\ settled' = IF l.v = settled.v THEN [settled EXCEPT !.failed = Unknown] ELSE settled
    /\ UNCHANGED <<prep, target, live, chooser>>
(* That of an opening counts while it is the latest and its summary is cached. *)
IsCurrentPreparation(l) == l.gen = prep.gen /\ prep.on /\ sum = l.v

LoadSucceeds ==
    \E l \in loads :
       /\ l.phase = "wait" /\ l.v \in aggs
       /\ IF l.who = "auth" THEN Authorized(l)
          ELSE IF kind = "form"
          THEN LET current == IsCurrentPreparation(l) IN
               /\ epoch' = IF current THEN l.v ELSE epoch
               /\ settled' = IF current THEN [settled EXCEPT !.failed = Unknown] ELSE settled
               /\ loads' = {m \in loads \ {l} : current => m.who # "auth"}
               /\ prep' = IF l.gen = prep.gen THEN [gen |-> prep.gen, on |-> FALSE, err |-> FALSE] ELSE prep
               /\ chooser' = PrepareSucceeded(chooser, l)
               /\ UNCHANGED <<target, live>>
          ELSE /\ loads' = loads \ {l}
               /\ target' = Latest(target, l.v)
               /\ live' = IF l.gen = prep.gen THEN PublishLiveChoiceResource(PreparedResource(l)) ELSE live
               /\ prep' = IF l.gen = prep.gen THEN [prep EXCEPT !.on = FALSE] ELSE prep
               /\ chooser' = PrepareSucceeded(NoticeReadiness(live.ready, live'.ready), l)
               /\ UNCHANGED <<epoch, settled>>
       /\ UNCHANGED <<log, kind, cache, chosen, clientSteps>>

-----------------------------------------------------------------------------
(* A rendering: what the resource says now, and the effects that follow.       *)

AuthorizationSettled(v) == epoch = v
OptionsError == \/ prep.err \/ sumErr \/ (sum # Unknown /\ settled.failed = sum)
                \/ <<sum, "failed">> \in aerr
DeriveChoiceSetOptionsState ==
    LET trusted == sum # Unknown /\ ~sumErr /\ ~prep.on /\ ~prep.err
    IN [t |-> 1, s |-> sum, v |-> IF ~sumErr /\ sum \in aggs THEN sum ELSE live.v,
        on |-> trusted /\ log[sum].on,
        ready |-> trusted /\ sum \in aggs /\ ~Failed(sum) /\ AuthorizationSettled(sum) /\ log[sum].on,
        err |-> OptionsError,
        loading |-> ~sumErr /\ (sum = Unknown \/ ~(sum \in aggs \/ Failed(sum)))]
Derived == IF kind = "form" THEN DeriveChoiceSetOptionsState
           ELSE PublishLiveChoiceResource(DeriveSheetChoiceResource)

(* The form confirms in the background every summary it comes to see, and      *)
(* gives this up when it sees another one or none; the sheet moves to a newer  *)
(* summary once its options were tried.                                        *)
Seen == IF sumErr THEN Unknown ELSE sum
StartAuthorization == kind = "form" /\ settled.v # Seen
AuthLoad == [who |-> "auth", gen |-> 0, turn |-> 0, floor |-> 0, v |-> sum, tries |-> 0, phase |-> "options"]
AdvanceSheetChoiceTarget == IF target \in aggs \/ Failed(target) THEN SheetChoiceTargetVersion(target) ELSE target
ObservedVersion == IF kind = "form" THEN Seen ELSE AdvanceSheetChoiceTarget

(* The sheet drops the versions before the one it reads options of.            *)
Dropped == IF kind = "sheet" THEN Superseded(AdvanceSheetChoiceTarget) ELSE {}
Kept == {r \in areq : r[1] \notin Dropped}

(* The options that a rendering lets the user take.                            *)
GenerationOpen(c, r) == c.open /\ r.ready /\ ~r.loading /\ ~r.err
GenerationReady(c, r) == /\ c.open /\ ~c.preparing /\ ~c.err /\ c.ready = c.gen
                         /\ r.ready /\ ~r.loading /\ ~r.err
Offering(c, r) == [c EXCEPT !.offered = GenerationReady(c, r)]

Render ==
    /\ live' = Derived
    /\ chooser' = Offering(NoticeReadiness(live.ready, Derived.ready), Derived)
    /\ settled' = IF StartAuthorization THEN [settled EXCEPT !.v = Seen] ELSE settled
    /\ loads' = IF ~StartAuthorization THEN loads
                ELSE {l \in loads : l.who # "auth"} \cup (IF Seen = Unknown THEN {} ELSE {AuthLoad})
    /\ target' = IF kind = "sheet" THEN AdvanceSheetChoiceTarget ELSE target
    /\ aggs' = aggs \ Dropped
    /\ aerr' = {e \in aerr : e[1] \notin Dropped}
    /\ areq' = IF ObservedVersion = Unknown \/ Failed(ObservedVersion) THEN Kept
               ELSE Fetching(ObservedVersion, Kept)
    /\ <<live, chooser, settled, loads, target, aggs, areq>>' # <<live, chooser, settled, loads, target, aggs, areq>>
    /\ UNCHANGED <<log, kind, sum, sumErr, sreq, prep, epoch, chosen, clientSteps>>
(* What the cache has is on display.                                          *)
Rendered == live = Derived /\ Kept = areq

-----------------------------------------------------------------------------
(* The chooser.                                                               *)

CanCommitChoice(c) == chooser.offered /\ live.on /\ live.v # Unknown /\ c \in log[live.v].act

(* Opening asks for the summary at once.                                       *)
BeginPreparation == [gen |-> prep.gen + 1, on |-> TRUE, err |-> FALSE]
PrepareToOpen(turn) ==
    /\ prep' = BeginPreparation
    /\ sreq' = Refetched
    /\ loads' = loads \cup {[who |-> "open", gen |-> prep.gen + 1, turn |-> turn, floor |-> target,
                             v |-> Unknown, tries |-> 0, phase |-> "summary"]}
    /\ UNCHANGED <<sum, sumErr, aggs, areq, aerr, epoch, settled, target, live>>
BeginOpen(force) ==
    /\ ~chooser.open \/ force
    /\ LateRenders \/ Rendered
    /\ chooser' = [open |-> TRUE, gen |-> chooser.gen + 1, preparing |-> TRUE, ready |-> Unknown,
                   err |-> FALSE, since |-> Refetched, offered |-> FALSE]
    /\ PrepareToOpen(chooser.gen + 1)
OpenChooser == ClientStep /\ BeginOpen(FALSE) /\ UNCHANGED <<log, kind, chosen>>
PrepareAgain == ClientStep /\ (chooser.err \/ live.err) /\ BeginOpen(TRUE) /\ UNCHANGED <<log, kind, chosen>>
CloseState == [Closed EXCEPT !.gen = chooser.gen + 1]
CancelChoice == /\ ClientStep /\ chooser.open /\ chooser' = CloseState
                /\ UNCHANGED <<log, kind, cache, hooks, chosen>>
Choose == /\ \E c \in Codes : CanCommitChoice(c) /\ chosen' = [code |-> c, since |-> chooser.since, v |-> live.v]
          /\ chooser' = CloseState
          /\ UNCHANGED <<log, kind, cache, hooks, clientSteps>>

ClientNext == \/ OtherAdminWrites \/ WindowFocused \/ PollSummary \/ SummaryAnswered \/ SummaryFails
              \/ AggregateAnswered \/ AggregateFails \/ LoadAsks \/ LoadRestarts \/ LoadFails \/ LoadSucceeds
              \/ Render \/ OpenChooser \/ PrepareAgain \/ CancelChoice \/ Choose

(* Requests are answered, confirmations go on, the page is drawn, the clock of *)
(* a sheet ticks; nobody has to open, choose, retry or change the set.         *)
ClientSpec == /\ ClientInit /\ [][ClientNext]_clientVars
              /\ WF_clientVars(PollSummary) /\ WF_clientVars(SummaryAnswered) /\ WF_clientVars(AggregateAnswered) /\ WF_clientVars(Render)
              /\ WF_clientVars(LoadAsks) /\ WF_clientVars(LoadRestarts) /\ WF_clientVars(LoadFails) /\ WF_clientVars(LoadSucceeds)

-----------------------------------------------------------------------------
(* A chosen option was active in the active set at a version that is not older *)
(* than what the service has for the request that the opening makes, or joins  *)
(* if it is the first: what another administrator withdrew before cannot be    *)
(* chosen, however answers are delayed (loadChoiceSetOptionsForOpen, the       *)
(* generations of the chooser).                                                *)
ChoiceIsCurrent == chosen # Unknown => /\ chosen.v >= chosen.since
                                       /\ log[chosen.v].on /\ chosen.code \in log[chosen.v].act

(* An open chooser does not wait for ever: it comes to offer options, to show  *)
(* an error that can be retried, or the set is not active.                     *)
Explained == chooser.err \/ live.err \/ ~live.on
OpeningSettles == (chooser.open /\ chooser.preparing) ~> (~chooser.open \/ chooser.offered \/ Explained)
=============================================================================
