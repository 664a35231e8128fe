------------------------------- MODULE Workspace -------------------------------
(* The page of one project: its sheet, and the detail panel with the profile   *)
(* drawer, the layer replacement and the transitions.  Each of these takes the *)
(* same edit lock, so the workspace hands the lock from one to the next: a      *)
(* mutation begins when the sheet has given its lock away and ends with fresh  *)
(* data and the sheet's return.  The panel is rendered inside the sheet's      *)
(* frame, and the frame is another one for a project that is not a draft.      *)
EXTENDS Naturals

CONSTANTS LateAnswers,  \* whether a new lock may overtake answers about the one before
          MaxSteps      \* bound: actions of users, timers, failures and expiry

VARIABLES sheet, asks,                              \* SheetSession
          ctl, calls, released, chain, parting,     \* ProfileDrawer
          drafting, holder, issued, abandoned, steps,
          shell,   \* the workspace's mutation and what the panel has open
          modal    \* the layer replacement

vars == <<sheet, asks, ctl, calls, released, chain, parting,
          drafting, holder, issued, abandoned, steps, shell, modal>>
server == <<drafting, holder, issued, abandoned>>

drawerVars == <<ctl, calls, released, chain, parting>>

S == INSTANCE SheetSession
P == INSTANCE ProfileDrawer

Step == steps < MaxSteps /\ steps' = steps + 1

NoModal == [open |-> FALSE, doing |-> "nothing", token |-> 0, done |-> FALSE]
NoPage == [mutation |-> "none", next |-> "none", page |-> FALSE, draft |-> TRUE,
           drawer |-> FALSE, orphan |-> FALSE, releaseFailed |-> FALSE]
Idle == shell.mutation = "none"
Init == /\ S!Init /\ P!Init
        /\ drafting = TRUE /\ holder = 0 /\ issued = 0 /\ abandoned = {} /\ steps = 0
        /\ shell = NoPage
        /\ modal = NoModal

OnlySheet == UNCHANGED <<ctl, calls, released, chain, parting, shell, modal>>
OnlyDrawer == UNCHANGED <<sheet, asks, modal>>

-----------------------------------------------------------------------------
(* Other users: the lock runs out, is taken and given back by another tab, or *)
(* is cleared by a review, after which the project may become a draft again.  *)

Expire == Step /\ holder' = 0 /\ holder # 0 /\ UNCHANGED <<drafting, issued, abandoned>>
OtherTakes == Step /\ drafting /\ holder = 0 /\ holder' = issued + 1 /\ issued' = issued + 1
              /\ abandoned' = abandoned \cup {issued + 1} /\ UNCHANGED drafting
StatusChanges == Step /\ drafting' = ~drafting /\ holder' = 0 /\ UNCHANGED <<issued, abandoned>>
Others == /\ Expire \/ OtherTakes \/ StatusChanges
          /\ UNCHANGED <<sheet, asks, ctl, calls, released, chain, parting, shell, modal>>

-----------------------------------------------------------------------------
(* The page opens with the project's present status and may be left where no  *)
(* guard freezes it; what was typed is given up on the user's word.           *)

OpenPage ==
    /\ ~shell.page /\ shell' = [NoPage EXCEPT !.page = TRUE, !.draft = drafting]
    /\ IF drafting THEN S!Mount(FALSE) ELSE Step /\ UNCHANGED <<sheet, asks, server>>
    /\ UNCHANGED <<modal, drawerVars>>

MayLeave == /\ sheet.on => sheet.work # "writing"
            /\ IF shell.mutation = "profile" THEN P!MayNavigate ELSE Idle
LeavePage ==
    /\ Step /\ shell.page /\ MayLeave /\ shell' = NoPage /\ modal' = [modal EXCEPT !.open = FALSE]
    /\ IF sheet.on THEN sheet' = S!Left /\ asks' = asks \cup S!Leave(sheet)
       ELSE UNCHANGED <<sheet, asks>>
    /\ IF shell.drawer THEN P!Dispose ELSE UNCHANGED drawerVars
    /\ UNCHANGED server

-----------------------------------------------------------------------------
(* A mutation begins.                                                        *)

MayEditDraft == shell.draft

Start(kind) == IF kind = "profile" THEN [shell EXCEPT !.mutation = kind, !.next = "none", !.drawer = TRUE]
               ELSE [shell EXCEPT !.mutation = kind, !.next = "none"]
Opened(kind) == IF kind = "profile" THEN P!BeginOpen ELSE UNCHANGED drawerVars

Kinds == {"profile", "layer", "transition"}
Offered(kind) == kind = "transition" \/ MayEditDraft
BeginMutation(kind) ==
    /\ Step /\ shell.page /\ Idle /\ Offered(kind) /\ (sheet.on => S!MaySuspend)
    /\ IF sheet.on
       THEN /\ sheet' = S!Suspended(sheet)
            /\ shell' = [shell EXCEPT !.mutation = "handoff", !.next = kind, !.releaseFailed = FALSE]
            /\ UNCHANGED <<asks, modal, drawerVars>>
       ELSE /\ shell' = [Start(kind) EXCEPT !.releaseFailed = FALSE]
            /\ modal' = [modal EXCEPT !.open = kind = "layer"]
            /\ Opened(kind) /\ UNCHANGED <<sheet, asks>>
    /\ UNCHANGED server

HandedOver ==
    /\ shell.mutation = "handoff" /\ shell.next \in Kinds /\ ~shell.orphan
    /\ sheet.stage \in {"done", "failed"}
    /\ IF sheet.stage = "done"
       THEN /\ shell' = Start(shell.next) /\ modal' = [modal EXCEPT !.open = shell.next = "layer"]
            /\ Opened(shell.next)
       ELSE /\ shell' = [shell EXCEPT !.mutation = "none", !.next = "none", !.releaseFailed = TRUE]
            /\ UNCHANGED <<modal, drawerVars>>
    /\ sheet' = [sheet EXCEPT !.stage = "no"]
    /\ UNCHANGED <<asks, server, steps>>

(* When the frame was replaced meanwhile, the suspension still ends, but the  *)
(* panel that asked for the mutation is gone.                                 *)
OrphanedHandoff ==
    /\ shell.mutation = "handoff" /\ shell.next \in Kinds /\ shell.orphan
    /\ \/ shell' = [shell EXCEPT !.mutation = shell.next, !.next = "none", !.orphan = FALSE]
       \/ shell' = [shell EXCEPT !.mutation = "none", !.next = "none", !.orphan = FALSE,
                                 !.releaseFailed = TRUE]
    /\ UNCHANGED <<sheet, asks, modal, drawerVars, server, steps>>

(* The retry of a failed release.  With unsaved work the sheet refuses at      *)
(* once, and with no sheet there is nothing to wait for.                      *)
RecoverEditing ==
    /\ Step /\ Idle /\ shell.releaseFailed /\ (sheet.on => S!MaySuspend)
    /\ IF sheet.on
       THEN /\ shell' = [shell EXCEPT !.mutation = "handoff", !.next = "recover"]
            /\ sheet' = S!Suspended(sheet)
       ELSE shell' = [shell EXCEPT !.releaseFailed = FALSE] /\ UNCHANGED sheet
    /\ UNCHANGED <<asks, modal, drawerVars, server>>
Recovered ==
    /\ shell.mutation = "handoff" /\ shell.next = "recover"
    /\ shell.orphan \/ sheet.stage \in {"done", "failed"}
    /\ \E ok \in IF shell.orphan THEN BOOLEAN ELSE {sheet.stage = "done"} :
          /\ shell' = [shell EXCEPT !.mutation = "none", !.next = "none", !.orphan = FALSE,
                                    !.releaseFailed = ~ok]
          /\ IF ok /\ sheet.on THEN S!Resume
             ELSE sheet' = [sheet EXCEPT !.stage = "no"] /\ UNCHANGED asks
    /\ UNCHANGED <<modal, drawerVars, server, steps>>

-----------------------------------------------------------------------------
(* ... and ends: the project and the sheet are read again, then the sheet     *)
(* resumes.  A failed refresh leaves everything frozen until it is repeated.  *)

End == [shell EXCEPT !.mutation = "refresh", !.drawer = FALSE]
Transition == /\ Step /\ shell.mutation = "transition"
              /\ \/ drafting' = ~drafting /\ holder' = 0
                 \/ UNCHANGED <<drafting, holder>>
              /\ shell' = End /\ UNCHANGED <<issued, abandoned, sheet, asks, modal, drawerVars>>
DrawerClosed == /\ shell.drawer /\ ctl.phase = "closed"
                /\ shell' = End /\ UNCHANGED <<sheet, asks, modal, drawerVars, server, steps>>

RefreshSucceeds ==
    /\ shell.mutation = "refresh" /\ shell.draft = drafting
    /\ shell' = [shell EXCEPT !.mutation = "none"]
    /\ IF sheet.on /\ ~sheet.seeking THEN S!Resume
       ELSE sheet' = [sheet EXCEPT !.suspended = FALSE] /\ UNCHANGED asks
    /\ UNCHANGED <<modal, drawerVars, server, steps>>

(* The project is read again, at the end of a mutation or at any time.  A     *)
(* change of its status replaces the frame, and with it the editor and panel. *)
ProjectRead ==
    /\ Step /\ shell.page /\ shell.draft # drafting
    /\ shell' = [shell EXCEPT !.draft = drafting, !.drawer = FALSE,
                              !.orphan = shell.mutation = "handoff"]
    /\ IF sheet.on
       THEN sheet' = S!Left /\ asks' = asks \cup S!Leave(sheet)
       ELSE /\ sheet' = [S!Unmounted EXCEPT !.on = TRUE, !.gen = sheet.gen + 1,
                           !.suspended = ~Idle, !.status = IF Idle THEN "acquiring" ELSE "readonly",
                           !.seeking = Idle]
            /\ asks' = IF Idle THEN asks \cup {[S!Ask("acquire", 0) EXCEPT !.gen = sheet.gen + 1]}
                       ELSE asks
    /\ IF shell.drawer THEN P!Dispose ELSE UNCHANGED drawerVars
    /\ modal' = [modal EXCEPT !.open = FALSE]
    /\ UNCHANGED server

-----------------------------------------------------------------------------
(* The layer replacement takes the lock for one request. Each step is a       *)
(* request with its answer; a failed release keeps the modal and its token.   *)

Modal(m) == modal' = m /\ UNCHANGED <<sheet, asks, drawerVars, drafting, abandoned>>
Apply == /\ Step /\ modal.open /\ modal.doing = "nothing" /\ modal.token = 0
         /\ Modal([modal EXCEPT !.doing = "acquire", !.done = FALSE])
         /\ UNCHANGED <<shell, holder, issued>>
ModalAcquires ==
    /\ modal.doing = "acquire"
    /\ \/ /\ drafting /\ holder = 0 /\ holder' = issued + 1 /\ issued' = issued + 1
          /\ Modal([modal EXCEPT !.doing = "replace", !.token = issued + 1])
       \/ Modal([modal EXCEPT !.doing = "nothing"]) /\ UNCHANGED <<holder, issued>>
    /\ UNCHANGED <<shell, steps>>
ModalReplaces ==
    /\ modal.doing = "replace"
    /\ \E ok \in {FALSE} \cup (IF holder = modal.token THEN {TRUE} ELSE {}) :
          Modal([modal EXCEPT !.doing = "release", !.done = ok])
    /\ UNCHANGED <<shell, holder, issued, steps>>
Free == IF holder = modal.token THEN 0 ELSE holder
ModalReleases ==
    /\ modal.doing = "release"
    /\ \/ /\ holder' = Free
          /\ Modal([modal EXCEPT !.doing = IF modal.done THEN "reload" ELSE "nothing", !.token = 0])
          /\ UNCHANGED steps
       \/ /\ Step /\ holder' = holder /\ Modal([modal EXCEPT !.doing = "nothing"])
    /\ UNCHANGED <<shell, issued>>
ModalReloads == /\ modal.doing = "reload" /\ Modal(NoModal) /\ shell' = End
                /\ UNCHANGED <<holder, issued, steps>>
CloseModal == /\ Step /\ modal.open /\ modal.doing = "nothing"
              /\ \/ holder' = Free /\ Modal(NoModal) /\ shell' = End
                 \/ UNCHANGED <<holder, shell>> /\ Modal(modal)
              /\ UNCHANGED issued

-----------------------------------------------------------------------------

SheetActs == S!Next /\ OnlySheet
DrawerActs == P!Next /\ OnlyDrawer /\ UNCHANGED shell

Next == \/ SheetActs \/ DrawerActs \/ Others \/ OpenPage \/ LeavePage
        \/ (\E k \in Kinds : BeginMutation(k)) \/ HandedOver \/ OrphanedHandoff \/ RecoverEditing \/ Recovered
        \/ Transition \/ DrawerClosed \/ RefreshSucceeds \/ ProjectRead
        \/ Apply \/ ModalAcquires \/ ModalReplaces \/ ModalReleases \/ ModalReloads \/ CloseModal

Spec == Init /\ [][Next]_vars

-----------------------------------------------------------------------------

(* The sheet and the other editors of the page never take the lock at once:   *)
(* while the sheet may edit, none of the others is open, and what stands on   *)
(* the form of the profile was read under the lock the drawer holds.          *)
OneEditorAtATime ==
    /\ sheet.status = "held" => ctl.phase = "closed" /\ ~modal.open /\ Idle
    /\ P!DraftBelongsToTheLock

(* A live lock of this tab is in the hands of somebody who will release it,   *)
(* whatever was closed, lost, disposed of or answered late.                   *)
NoLockIsForgotten ==
    holder # 0 => \/ S!InHand(holder) \/ P!InHand(holder) \/ modal.token = holder
                  \/ holder \in abandoned

(* A mutation has somebody on the page who will end it.                       *)
MutationHasAnOwner ==
    /\ shell.mutation = "profile" => shell.drawer
    /\ shell.mutation = "layer" => modal.open \/ modal.doing # "nothing"

(* A drawer that says the lock is kept keeps it alive.                        *)
KeptLockIsRenewed == ctl.phase \in {"editable", "load-error"} => ctl.beating
=============================================================================
