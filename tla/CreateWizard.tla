----------------------------- MODULE CreateWizard -----------------------------
(* The creation of a project in one browser tab: a route of three steps in the *)
(* address, the reads of the process, of the backbone and of the preview that  *)
(* each of them calls for, the matches the user overrides, the form, and one   *)
(* submission whose answer may be lost.  The page is entered by any address;   *)
(* the browser goes back and forth over the routes it has seen, also while the *)
(* submission is under way.                                                    *)
EXTENDS Naturals, FiniteSets

CONSTANTS Processes, Backbones,   \* what may be selected
          ProcessLayers, Sources, \* layers of the process, and what may fill them
          Parts,                  \* Part IDs
          Unset,
          MaxWizardSteps          \* bound: actions of the user, deletions and failures

\* What the constants must satisfy.
WizardConstants ==
    /\ Unset \notin Processes \cup Backbones \cup Sources \cup Parts /\ MaxWizardSteps \in Nat

VARIABLES routeState, \* step, process and backbone in the address
          visited,    \* routes the browser may go back to
          reads,      \* status of the reads of processes and backbones
          deleted,    \* processes and backbones that exist no more
          over,       \* matches overridden, with the selection they were made for
          preview,    \* the preview shown, and the status of the one asked for
          form,       \* Part ID, and whether the required choices are made
          requiredChoices, \* whether the sets of the required choices are at hand
          create,     \* the submission
          projects,   \* process and Part ID of the projects the server has created
          wizardSteps

wizardVars == <<routeState, visited, reads, deleted, over, preview, form, requiredChoices, create,
                projects, wizardSteps>>

WizardStep == wizardSteps < MaxWizardSteps /\ wizardSteps' = wizardSteps + 1

StartRoute == [step |-> 1, process |-> Unset, backbone |-> Unset]
NoOverride == [map |-> [l \in ProcessLayers |-> Unset], by |-> <<Unset, Unset>>]
NoDraft == [process |-> Unset, backbone |-> Unset, over |-> NoOverride, part |-> Unset]
NoSubmission == [stage |-> "none", sent |-> NoDraft, lost |-> FALSE, done |-> FALSE]
NoForm == [part |-> Unset, choice |-> FALSE]

Route == [step : 1..3, process : Processes \cup {Unset}, backbone : Backbones \cup {Unset}]
Selected(r) == {r.process, r.backbone}
Selection(r) == <<r.process, r.backbone>>
Fingerprint(r, o) == <<r.process, r.backbone, o.map>>

(* An address is whatever a link says; the browser comes from one other.      *)
WizardInit == /\ routeState \in Route /\ visited \in {{routeState, r} : r \in Route}
              /\ deleted = {} /\ wizardSteps = 0
              /\ reads = [x \in Processes \cup Backbones |->
                            IF x \in Selected(routeState) THEN "asked" ELSE "none"]
              /\ over = NoOverride
              /\ preview = [of |-> <<>>, status |-> "none"]
              /\ form = NoForm
              /\ requiredChoices \in {"ready", "waiting"}
              /\ create = NoSubmission /\ projects = {}

-----------------------------------------------------------------------------
(* What a selection makes ready.  What was read stays so while it is read     *)
(* again; a failed read makes it not ready.                                   *)

Read(x) == reads[x] \in {"ok", "again"}
ProcessReady(r) == r.process # Unset /\ Read(r.process)
BackboneReady(r) == r.backbone # Unset => Read(r.backbone)
PreviewEnabled(r) == ProcessReady(r) /\ BackboneReady(r)
CanVisitStep(s, r) == (s > 1 => ProcessReady(r)) /\ (s > 2 => BackboneReady(r))
RenderedStep == IF routeState.process = Unset \/ reads[routeState.process] \in {"gone", "error"}
                THEN 1 ELSE routeState.step

Locked == create.stage \in {"sent", "created"}
DraftDirty == create.stage # "created"
              /\ (form # NoForm \/ \E l \in ProcessLayers : over.map[l] # Unset)

(* What the pages of the steps offer.                                         *)
StepperOffers == {s \in (1..3) \ {RenderedStep} : ~Locked /\ CanVisitStep(s, routeState)}
ProcessStepOffers == {s \in {2} : RenderedStep = 1 /\ ~Locked /\ ProcessReady(routeState)}
BackboneStepOffers == {s \in {1, 3} : /\ RenderedStep = 2 /\ ~Locked
                                     /\ s = 3 => PreviewEnabled(routeState)}
PreviewStepOffers == {s \in {2} : RenderedStep = 3 /\ ~Locked /\ ProcessReady(routeState)}
ProcessesOffered == RenderedStep = 1 /\ ~Locked
BackbonesOffered == RenderedStep = 2 /\ ~Locked /\ ProcessReady(routeState)
MatchesOffered == RenderedStep = 3 /\ ~Locked /\ ProcessReady(routeState) /\ preview.of # <<>>
FormOffered == RenderedStep = 3 /\ ~Locked /\ ProcessReady(routeState)
RetryOffered(x) == reads[x] = "error" /\ (x = routeState.backbone => RenderedStep # 1)
ChoiceOffered == requiredChoices = "ready"

ChoicesReady == requiredChoices = "ready" /\ form.choice
MayCreate == /\ ~Locked /\ PreviewEnabled(routeState)
             /\ preview.status = "ok" /\ preview.of = Fingerprint(routeState, over)
             /\ ChoicesReady /\ form.part # Unset

-----------------------------------------------------------------------------
(* Every change of the route or the overrides asks for another preview; the   *)
(* preview before it stays on display.  The overrides of another selection    *)
(* are dropped, also when the browser went to it.                             *)

RouteEffectKept(r, o) == o
RouteEffect(r, o) == IF Selection(r) = Selection(routeState) THEN o ELSE NoOverride
Asked(r, o) == IF Fingerprint(r, o) = Fingerprint(routeState, over) THEN preview
               ELSE [preview EXCEPT !.status = "none"]
SetRouteState(r, o) ==
    /\ routeState' = r /\ visited' = visited \cup {r}
    /\ over' = o /\ preview' = Asked(r, o)
    /\ reads' = [x \in DOMAIN reads |-> IF x \in Selected(r) /\ reads[x] = "none"
                                        THEN "asked" ELSE reads[x]]

Reset(c) == IF c.stage = "failed" THEN [c EXCEPT !.stage = "none"] ELSE c

SelectProcess(p) == /\ WizardStep /\ ProcessesOffered /\ p # routeState.process
                    /\ SetRouteState([step |-> 1, process |-> p, backbone |-> Unset], NoOverride)
                    /\ create' = Reset(create)
                    /\ UNCHANGED <<deleted, form, requiredChoices, projects>>
SelectBackbone(b) ==
    /\ WizardStep /\ BackbonesOffered /\ b # routeState.backbone
    /\ SetRouteState([routeState EXCEPT !.backbone = b], NoOverride)
    /\ create' = Reset(create)
    /\ UNCHANGED <<deleted, form, requiredChoices, projects>>
GoToStep(s) == /\ s \in StepperOffers \cup ProcessStepOffers \cup BackboneStepOffers
                                      \cup PreviewStepOffers
               /\ WizardStep /\ ~Locked /\ s # routeState.step /\ CanVisitStep(s, routeState)
               /\ SetRouteState([routeState EXCEPT !.step = s], over)
               /\ UNCHANGED <<deleted, form, requiredChoices, create, projects>>
GoBack == /\ WizardStep
          /\ \E r \in visited \ {routeState} : SetRouteState(r, RouteEffect(r, over))
          /\ UNCHANGED <<deleted, form, requiredChoices, create, projects>>

(* A selection that exists no more is taken out of the address.               *)
RouteReconciliationStep(r) ==
    IF ProcessReady(r) /\ r.backbone # Unset /\ reads[r.backbone] = "gone"
    THEN [r EXCEPT !.step = 2] ELSE r
RouteReconciliation(r) ==
    CASE r.process = Unset -> StartRoute
      [] r.process # Unset /\ reads[r.process] = "gone" ->
           [step |-> 1, process |-> r.process, backbone |-> Unset]
      [] ProcessReady(r) /\ r.backbone # Unset /\ reads[r.backbone] = "gone" ->
           [step |-> 2, process |-> r.process, backbone |-> Unset]
      [] OTHER -> r
Reconcile == LET r == RouteReconciliation(routeState)
             IN /\ create.stage # "created" /\ r # routeState
                /\ visited' = (visited \ {routeState}) \cup {r}
                /\ routeState' = r /\ over' = RouteEffect(r, over)
                /\ preview' = Asked(r, RouteEffect(r, over))
                /\ UNCHANGED <<reads, deleted, form, requiredChoices, create, projects,
                               wizardSteps>>

UpdateOverride(l, s) ==
    /\ WizardStep /\ MatchesOffered /\ routeState.backbone # Unset /\ over.map[l] # s
    /\ over' = [map |-> [over.map EXCEPT ![l] = s],
                by |-> IF over.by = <<Unset, Unset>> THEN Selection(routeState) ELSE over.by]
    /\ preview' = [preview EXCEPT !.status = "none"]
    /\ create' = Reset(create)
    /\ UNCHANGED <<routeState, visited, reads, deleted, form, requiredChoices, projects>>
UpdateForm == /\ WizardStep /\ FormOffered
              /\ \E part \in Parts \cup {Unset}, choice \in BOOLEAN :
                    /\ choice => ChoiceOffered \/ form.choice
                    /\ form' = [part |-> part, choice |-> choice]
              /\ create' = Reset(create)
              /\ UNCHANGED <<routeState, visited, reads, deleted, over, preview,
                             requiredChoices, projects>>
(* The choice sets are read, with failures or without; while they are loading, *)
(* inactive or without what was chosen, they keep the user waiting.            *)
RequiredChoicesChange ==
    /\ WizardStep /\ requiredChoices' \in {"ready", "waiting"} \ {requiredChoices}
    /\ UNCHANGED <<routeState, visited, reads, deleted, over, preview, form, create, projects>>

-----------------------------------------------------------------------------
(* Reads and their answers; a preview of what is gone is refused as such, and *)
(* has the selection read again.                                              *)

IsPending(x) == reads[x] \in {"asked", "again"}
ReadAnswered == \E x \in DOMAIN reads :
    /\ IsPending(x) /\ reads' = [reads EXCEPT ![x] = IF x \in deleted THEN "gone" ELSE "ok"]
    /\ UNCHANGED <<routeState, visited, deleted, over, preview, form, requiredChoices,
                   create, projects, wizardSteps>>
ReadFails == \E x \in DOMAIN reads :
    /\ WizardStep /\ IsPending(x) /\ reads' = [reads EXCEPT ![x] = "error"]
    /\ UNCHANGED <<routeState, visited, deleted, over, preview, form, requiredChoices,
                   create, projects>>
RetryRead == \E x \in Selected(routeState) \ {Unset} :
    /\ WizardStep /\ RetryOffered(x) /\ reads' = [reads EXCEPT ![x] = "asked"]
    /\ UNCHANGED <<routeState, visited, deleted, over, preview, form, requiredChoices,
                   create, projects>>
Delete == \E x \in DOMAIN reads \ deleted :
    /\ WizardStep /\ deleted' = deleted \cup {x}
    /\ UNCHANGED <<routeState, visited, reads, over, preview, form, requiredChoices, create,
                   projects>>

ReadAgain(x) == IF Read(x) THEN "again" ELSE "asked"
Downstream404 == [x \in DOMAIN reads |-> IF x \in Selected(routeState) THEN ReadAgain(x)
                                         ELSE reads[x]]
PreviewAnswered ==
    /\ PreviewEnabled(routeState) /\ preview.status = "none"
    /\ IF Selected(routeState) \cap deleted = {}
       THEN preview' = [of |-> Fingerprint(routeState, over), status |-> "ok"] /\ UNCHANGED reads
       ELSE preview' = [preview EXCEPT !.status = "gone"] /\ reads' = Downstream404
    /\ UNCHANGED <<routeState, visited, deleted, over, form, requiredChoices, create,
                   projects, wizardSteps>>
PreviewFails == /\ WizardStep /\ PreviewEnabled(routeState) /\ preview.status = "none"
                /\ preview' = [preview EXCEPT !.status = "error"]
                /\ UNCHANGED <<routeState, visited, reads, deleted, over, form,
                               requiredChoices, create, projects>>
RetryPreview == /\ WizardStep /\ PreviewEnabled(routeState)
                /\ preview.status \in {"error", "gone"}
                /\ preview' = [preview EXCEPT !.status = "none"]
                /\ UNCHANGED <<routeState, visited, reads, deleted, over, form,
                               requiredChoices, create, projects>>

-----------------------------------------------------------------------------
(* The submission.  The server knows a project by its process and Part ID.    *)

Draft == [process |-> routeState.process, backbone |-> routeState.backbone,
          over |-> over, part |-> form.part]
Key(draft) == <<draft.process, draft.part>>
Gone(draft) == {draft.process, draft.backbone} \cap deleted # {}
SubmitProject ==
    /\ WizardStep /\ RenderedStep = 3 /\ MayCreate
    /\ create' = [create EXCEPT !.stage = "sent", !.sent = Draft]
    /\ UNCHANGED <<routeState, visited, reads, deleted, over, preview, form,
                   requiredChoices, projects>>
Served == /\ ~Gone(create.sent) /\ Key(create.sent) \notin projects
          /\ projects' = projects \cup {Key(create.sent)}
CreateAnswered ==
    /\ create.stage = "sent"
    /\ \/ Served /\ create' = [create EXCEPT !.stage = "created"] /\ UNCHANGED reads
       \/ /\ Gone(create.sent) /\ UNCHANGED projects
          /\ create' = [create EXCEPT !.stage = "failed"] /\ reads' = Downstream404
       \/ /\ Key(create.sent) \in projects /\ create' = [create EXCEPT !.stage = "failed"]
          /\ UNCHANGED <<projects, reads>>
    /\ UNCHANGED <<routeState, visited, deleted, over, preview, form, requiredChoices,
                   wizardSteps>>
CreateLost == /\ WizardStep /\ create.stage = "sent"
              /\ create' = [create EXCEPT !.stage = "failed", !.lost = TRUE]
              /\ Served \/ UNCHANGED projects
              /\ UNCHANGED <<routeState, visited, reads, deleted, over, preview, form,
                             requiredChoices>>
Created == /\ create.stage = "created" /\ ~create.done /\ ~DraftDirty
           /\ create' = [create EXCEPT !.done = TRUE]
           /\ UNCHANGED <<routeState, visited, reads, deleted, over, preview, form,
                          requiredChoices, projects, wizardSteps>>

WizardNext == \/ \E p \in Processes : SelectProcess(p)
              \/ \E b \in Backbones \cup {Unset} : SelectBackbone(b)
              \/ \E s \in 1..3 : GoToStep(s)
              \/ GoBack \/ Reconcile
              \/ \E l \in ProcessLayers, s \in Sources \cup {Unset} : UpdateOverride(l, s)
              \/ UpdateForm \/ RequiredChoicesChange
              \/ ReadAnswered \/ ReadFails \/ RetryRead \/ Delete
              \/ PreviewAnswered \/ PreviewFails \/ RetryPreview
              \/ SubmitProject \/ CreateAnswered \/ CreateLost \/ Created

WizardFairness ==
    /\ WF_wizardVars(Reconcile) /\ WF_wizardVars(ReadAnswered) /\ WF_wizardVars(PreviewAnswered)
    /\ WF_wizardVars(CreateAnswered) /\ WF_wizardVars(Created)
WizardSpec == WizardInit /\ [][WizardNext]_wizardVars /\ WizardFairness

-----------------------------------------------------------------------------

Override == [map : [ProcessLayers -> Sources \cup {Unset}],
             by : (Processes \cup {Unset}) \X (Backbones \cup {Unset})]
Drafts == [process : Processes \cup {Unset}, backbone : Backbones \cup {Unset},
           over : Override, part : Parts \cup {Unset}]
Submission == [stage : {"none", "sent", "created", "failed"}, sent : Drafts,
               lost : BOOLEAN, done : BOOLEAN]
WizardTypeOK ==
    /\ routeState \in Route /\ visited \subseteq Route
    /\ over \in Override /\ create \in Submission
    /\ form \in [part : Parts \cup {Unset}, choice : BOOLEAN]

(* A submission holds together, whichever way the browser took to it and goes *)
(* while it is under way.  Every overridden match sent was chosen for the      *)
(* selection sent and no other; until it is answered, and once the project is  *)
(* created, the form on display is the one sent, and so are the matches unless *)
(* the browser went to another selection; and a project exists that the wizard *)
(* does not report, or besides the one it reports, only if an answer was lost  *)
(* (submit, the effect on the selection, the lock of the wizard).              *)
UnderWay == create.stage \in {"sent", "created"}
OverridesAreOfTheSelection ==
    \/ create.sent.over.map = NoOverride.map
    \/ create.sent.over.by = <<create.sent.process, create.sent.backbone>>
ShownAsSent ==
    /\ form.part = create.sent.part
    /\ over.map \in {create.sent.over.map, NoOverride.map}
SubmissionIsWhatWasSeen ==
    /\ UnderWay => OverridesAreOfTheSelection /\ ShownAsSent
    /\ ~create.lost => projects = IF create.stage = "created" THEN {Key(create.sent)} ELSE {}

(* The wizard always comes to rest.  A selection that exists no more, once a   *)
(* read or the preview asks the server for it, is left or taken back to the    *)
(* step where another is chosen, unless a read failed for now, which the user  *)
(* can retry; an address without a process becomes that of the first step; and *)
(* what was submitted is refused, or created and opened.                       *)
NoLongerThere(x) == /\ x \in deleted
                    /\ \/ IsPending(x) \/ reads[x] = "gone"
                       \/ PreviewEnabled(routeState) /\ preview.status = "none"
SelectionIsSound ==
    /\ routeState.process = Unset => routeState = StartRoute
    /\ NoLongerThere(routeState.process) => RenderedStep = 1 /\ routeState.backbone = Unset
    /\ ~NoLongerThere(routeState.backbone)
ReadHasFailed == \/ preview.status = "error"
                 \/ \E x \in Selected(routeState) \ {Unset} : reads[x] = "error"
SelectionIsRepaired ==
    []<>/\ create.stage # "sent" /\ (create.stage = "created" => create.done)
        /\ SelectionIsSound \/ ReadHasFailed \/ create.done
=============================================================================
