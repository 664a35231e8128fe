----------------------------- MODULE ProfileDrawer -----------------------------
(* The editor of a project's profile in one browser tab: a drawer around a     *)
(* controller that takes the edit lock, reads the profile under it, saves,     *)
(* releases and closes.  Every continuation first checks that the generation   *)
(* and the token it was started for are still those of the controller; a       *)
(* controller that was disposed of has no generation of its own any more.      *)
EXTENDS Naturals

CONSTANTS MaxSteps   \* bound: actions of users, timers and failures

VARIABLES ctl,      \* the controller's state
          calls,    \* requests in flight, and their answers
          released, \* tokens whose release was sent and did not fail
          chain,    \* pendingPatch: the generation and token of the last save
          parting,  \* sessions released as soon as the save they wait for ends
          drafting, \* the project is a draft
          holder,   \* the token of the live lock, or 0
          issued,   \* the last token the server gave
          abandoned,\* history: tokens left to the expiry of the lock
          steps

vars == <<ctl, calls, released, chain, parting, drafting, holder, issued,
          abandoned, steps>>
server == <<drafting, holder, issued, abandoned>>

Step == steps < MaxSteps /\ steps' = steps + 1

Closed == [phase |-> "closed", gen |-> 0, token |-> 0, session |-> 0, sessionGen |-> 0,
           draft |-> "none", under |-> 0, recovery |-> FALSE, beating |-> FALSE]
NoChain == [gen |-> 0, token |-> 0]
Init == /\ ctl = Closed /\ calls = {} /\ released = {} /\ chain = NoChain /\ parting = {}

Call(op, gen, t) == [op |-> op, gen |-> gen, token |-> t, answer |-> "none"]
Answered(c) == c.answer # "none"
Owns(c) == ctl.gen = c.gen /\ ctl.token = c.token
Fresh(s) == s.gen + 1

Releases == {"save-release", "close-release", "again-release", "drop"}

-----------------------------------------------------------------------------
(* The server.                                                               *)

Reply(c, answer) == calls' = (calls \ {c}) \cup {[c EXCEPT !.answer = answer]}
Serve == \E c \in calls :
    /\ ~Answered(c)
    /\ \/ /\ c.op = "acquire" /\ holder = 0 /\ drafting
          /\ issued' = issued + 1 /\ holder' = issued + 1
          /\ calls' = (calls \ {c}) \cup {[c EXCEPT !.token = issued + 1, !.answer = "ok"]}
       \/ /\ c.op = "acquire" /\ (holder # 0 \/ ~drafting)
          /\ Reply(c, "refused") /\ UNCHANGED <<holder, issued>>
       \/ /\ c.op \in {"beat", "patch"}
          /\ Reply(c, IF holder = c.token THEN "ok" ELSE "refused") /\ UNCHANGED <<holder, issued>>
       \/ c.op \in {"load", "refresh"} /\ Reply(c, "ok") /\ UNCHANGED <<holder, issued>>
       \/ /\ c.op \in Releases
          /\ holder' = (IF holder = c.token THEN 0 ELSE holder)
          /\ Reply(c, "ok") /\ UNCHANGED issued
    /\ UNCHANGED <<ctl, released, chain, parting, drafting, abandoned, steps>>
Fail == \E c \in calls :
    /\ Step /\ ~Answered(c) /\ c.op # "refresh"
    /\ Reply(c, "failed")
    /\ UNCHANGED <<ctl, released, chain, parting, server>>

-----------------------------------------------------------------------------
(* releaseTokenOnce: no second request for a token unless the first failed.   *)

ReleaseOnce(op, gen, t) == IF t \in released THEN {} ELSE {Call(op, gen, t)}
Sent(t) == released' = released \cup {t}
Abandon(c) == abandoned' = IF c.answer = "ok" THEN abandoned ELSE abandoned \cup {c.token}

BeginOpen == /\ ctl' = [Closed EXCEPT !.phase = "acquiring", !.gen = Fresh(ctl),
                                      !.recovery = ctl.recovery]
             /\ calls' = calls \cup {Call("acquire", Fresh(ctl), 0)}
             /\ UNCHANGED <<released, chain, parting>>

AcquireAnswered == \E c \in calls :
    /\ c.op = "acquire" /\ Answered(c)
    /\ IF ctl.gen # c.gen \/ ctl.phase # "acquiring"
       THEN /\ UNCHANGED ctl
            /\ IF c.answer = "ok"
               THEN calls' = (calls \ {c}) \cup {Call("drop", c.gen, c.token)} /\ Sent(c.token)
               ELSE calls' = calls \ {c} /\ UNCHANGED released
       ELSE /\ UNCHANGED released
            /\ IF c.answer = "ok"
               THEN /\ ctl' = [ctl EXCEPT !.phase = "loading-profile", !.token = c.token,
                                 !.session = c.token, !.sessionGen = c.gen, !.beating = TRUE]
                    /\ calls' = (calls \ {c}) \cup {Call("load", c.gen, c.token)}
               ELSE ctl' = [ctl EXCEPT !.phase = "conflict"] /\ calls' = calls \ {c}
    /\ UNCHANGED <<chain, parting, server, steps>>

LoadAnswered == \E c \in calls :
    /\ c.op = "load" /\ Answered(c) /\ calls' = calls \ {c}
    /\ ctl' = CASE ~Owns(c) -> ctl
                [] Owns(c) /\ c.answer = "ok" ->
                     [ctl EXCEPT !.phase = "editable", !.draft = "clean", !.under = c.token]
                [] OTHER -> [ctl EXCEPT !.phase = "load-error"]
    /\ UNCHANGED <<released, chain, parting, server, steps>>
RetryOffered == ctl.phase = "load-error"
RetryLoad == /\ Step /\ RetryOffered /\ ctl.token # 0
             /\ ctl' = [ctl EXCEPT !.phase = "loading-profile"]
             /\ calls' = calls \cup {Call("load", ctl.gen, ctl.token)}
             /\ UNCHANGED <<released, chain, parting, server>>

(* The timer stops itself when its session is gone; a restart of the timer    *)
(* comes with a new acquisition only.                                         *)
Heartbeat == /\ Step /\ ctl.beating /\ ctl.token # 0
             /\ calls' = calls \cup {Call("beat", ctl.gen, ctl.token)}
             /\ UNCHANGED <<ctl, released, chain, parting, server>>
LoseLock(s) == [s EXCEPT !.phase = "lock-lost", !.gen = Fresh(s), !.beating = FALSE,
                         !.recovery = @ \/ s.draft # "none"]
HeartbeatAnswered == \E c \in calls :
    /\ c.op = "beat" /\ Answered(c) /\ calls' = calls \ {c}
    /\ ctl' = IF Owns(c) /\ c.answer = "refused" /\ ctl.phase # "releasing"
              THEN LoseLock(ctl) ELSE ctl
    /\ UNCHANGED <<released, chain, parting, server, steps>>

-----------------------------------------------------------------------------
(* Draft and save.  A plan has a payload when nothing on the form is wrong.   *)

FormVisible == ctl.draft # "none"
Dirty == ctl.draft \in {"dirty", "invalid"}
HasPayload == ctl.draft = "dirty"

ControlsEnabled == ctl.phase = "editable" /\ FormVisible
UpdateDraft == /\ Step /\ ControlsEnabled
               /\ \E d \in {"clean", "dirty", "invalid"} \ {ctl.draft} : ctl' = [ctl EXCEPT !.draft = d]
               /\ UNCHANGED <<calls, released, chain, parting, server>>

Saving == chain # NoChain /\ chain.gen = ctl.gen /\ chain.token = ctl.token
SaveOffered == ControlsEnabled /\ Dirty
Save == /\ Step /\ SaveOffered /\ HasPayload /\ ~Saving
        /\ ctl' = [ctl EXCEPT !.phase = "saving"]
        /\ calls' = calls \cup {Call("patch", ctl.gen, ctl.token)}
        /\ chain' = [gen |-> ctl.gen, token |-> ctl.token]
        /\ UNCHANGED <<released, parting, server>>

(* The end of a save: pendingPatch is forgotten if it is this save, and what  *)
(* waits for it is released.                                                  *)
Waiting(c) == {p \in parting : p.gen = c.gen /\ p.token = c.token}
EndChain(c) == /\ chain' = (IF chain.gen = c.gen /\ chain.token = c.token THEN NoChain ELSE chain)
               /\ parting' = parting \ Waiting(c)
Parted(c, sent) == IF Waiting(c) = {} \/ c.token \in sent THEN {}
                   ELSE {Call("drop", c.gen, c.token)}
Finish(c, sent) ==
    /\ EndChain(c)
    /\ calls' = (calls \ {c}) \cup Parted(c, sent)
    /\ released' = (IF Waiting(c) = {} THEN sent ELSE sent \cup {c.token})

PatchAnswered == \E c \in calls :
    /\ c.op = "patch" /\ Answered(c)
    /\ IF ~Owns(c) \/ ctl.phase # "saving" THEN Finish(c, released) /\ UNCHANGED ctl
       ELSE CASE c.answer = "ok" ->
                   /\ ctl' = [ctl EXCEPT !.draft = "clean"]
                   /\ calls' = (calls \ {c}) \cup {Call("refresh", c.gen, c.token)}
                   /\ UNCHANGED <<released, chain, parting>>
              [] c.answer = "refused" -> Finish(c, released) /\ ctl' = LoseLock(ctl)
              [] OTHER -> Finish(c, released) /\ ctl' = [ctl EXCEPT !.phase = "editable"]
    /\ UNCHANGED <<server, steps>>

Refreshed == \E c \in calls :
    /\ c.op = "refresh" /\ Answered(c)
    /\ IF ~Owns(c) \/ ctl.phase # "saving" THEN Finish(c, released) /\ UNCHANGED ctl
       ELSE /\ ctl' = [ctl EXCEPT !.phase = "releasing", !.beating = FALSE]
            /\ calls' = (calls \ {c}) \cup ReleaseOnce("save-release", c.gen, c.token)
            /\ Sent(c.token) /\ UNCHANGED <<chain, parting>>
    /\ UNCHANGED <<server, steps>>

Ended == [ctl EXCEPT !.phase = "closed", !.token = 0, !.session = 0, !.draft = "none"]
SaveReleased == \E c \in calls :
    /\ c.op = "save-release" /\ Answered(c)
    /\ Finish(c, IF c.answer = "ok" THEN released ELSE released \ {c.token})
    /\ ctl' = CASE ~Owns(c) \/ ctl.phase # "releasing" -> ctl
                [] Owns(c) /\ ctl.phase = "releasing" /\ c.answer = "ok" -> Ended
                [] OTHER -> [ctl EXCEPT !.phase = "editable"]
    /\ UNCHANGED <<server, steps>>

-----------------------------------------------------------------------------
(* Close, reacquire, dispose.                                                *)

CloseDisabled == ctl.phase \in {"acquiring", "saving", "releasing"}
Close == /\ Step /\ ctl.phase # "closed" /\ ~CloseDisabled
         /\ IF ctl.token = 0
            THEN /\ ctl' = [Ended EXCEPT !.gen = Fresh(ctl), !.beating = FALSE]
                 /\ UNCHANGED <<calls, released>>
            ELSE /\ ctl' = [ctl EXCEPT !.phase = "releasing", !.gen = Fresh(ctl), !.beating = FALSE]
                 /\ calls' = calls \cup ReleaseOnce("close-release", Fresh(ctl), ctl.token)
                 /\ Sent(ctl.token)
         /\ UNCHANGED <<chain, parting, server>>
CloseReleased == \E c \in calls :
    /\ c.op = "close-release" /\ Answered(c) /\ calls' = calls \ {c}
    /\ released' = (IF c.answer = "ok" THEN released ELSE released \ {c.token})
    /\ ctl' = CASE ~Owns(c) \/ ctl.phase # "releasing" -> ctl
                [] Owns(c) /\ ctl.phase = "releasing" /\ c.answer = "ok" -> Ended
                [] OTHER -> [ctl EXCEPT !.phase = IF ctl.draft = "none" THEN "load-error" ELSE "editable"]
    /\ UNCHANGED <<chain, parting, server, steps>>

ReacquireOffered == ctl.phase \in {"lock-lost", "conflict"}
Again == [ctl EXCEPT !.phase = "acquiring", !.gen = Fresh(ctl), !.token = 0,
                     !.recovery = @ \/ ctl.draft # "none", !.draft = "none", !.beating = FALSE]
Reacquire ==
    /\ Step /\ ReacquireOffered /\ ctl' = Again
    /\ IF ctl.session # 0 /\ ctl.session \notin released
       THEN /\ calls' = calls \cup {Call("again-release", Fresh(ctl), ctl.session)}
            /\ Sent(ctl.session)
       ELSE calls' = calls \cup {Call("acquire", Fresh(ctl), 0)} /\ UNCHANGED released
    /\ UNCHANGED <<chain, parting, server>>
ReleasedAgain == \E c \in calls :
    /\ c.op = "again-release" /\ Answered(c)
    /\ released' = (IF c.answer = "ok" THEN released ELSE released \ {c.token})
    /\ ctl' = [ctl EXCEPT !.session = IF @ = c.token THEN 0 ELSE @]
    /\ calls' = (calls \ {c}) \cup (IF ctl.gen = c.gen /\ ctl.phase = "acquiring"
                                    THEN {Call("acquire", c.gen, 0)} ELSE {})
    /\ Abandon(c) /\ UNCHANGED <<chain, parting, drafting, holder, issued, steps>>

DropAnswered == \E c \in calls :
    /\ c.op = "drop" /\ Answered(c) /\ calls' = calls \ {c}
    /\ released' = (IF c.answer = "ok" THEN released ELSE released \ {c.token})
    /\ Abandon(c) /\ UNCHANGED <<ctl, chain, parting, drafting, holder, issued, steps>>

Dispose ==
    LET s == [gen |-> ctl.sessionGen, token |-> ctl.session]
    IN  /\ ctl' = [Closed EXCEPT !.gen = Fresh(ctl)]
        /\ CASE ctl.session = 0 -> UNCHANGED <<calls, released, parting>>
             [] ctl.session # 0 /\ chain = s ->
                  parting' = parting \cup {s} /\ UNCHANGED <<calls, released>>
             [] OTHER -> /\ calls' = calls \cup ReleaseOnce("drop", s.gen, s.token)
                         /\ Sent(s.token) /\ UNCHANGED parting
        /\ UNCHANGED chain

(* The guard of the drawer against navigation: frozen, confirmed or free.     *)
Frozen == CloseDisabled \/ ctl.phase = "loading-profile"
MayNavigate == ~Frozen

(* pagehide, or a beforeunload nobody prevented: no guard stood in the way.   *)
Unload == /\ Step /\ ctl.session # 0 /\ ctl.token = ctl.session
          /\ ctl.phase \notin {"closed", "conflict", "lock-lost"} /\ MayNavigate
          /\ calls' = calls \cup {Call("drop", ctl.gen, ctl.token)}
          /\ UNCHANGED <<ctl, released, chain, parting, server>>

Next == \/ Serve \/ Fail \/ AcquireAnswered \/ LoadAnswered \/ RetryLoad \/ Heartbeat
        \/ HeartbeatAnswered \/ UpdateDraft \/ Save \/ PatchAnswered \/ Refreshed \/ SaveReleased
        \/ Close \/ CloseReleased \/ Reacquire \/ ReleasedAgain \/ DropAnswered \/ Unload

-----------------------------------------------------------------------------

(* What is on the form was read under the lock it is saved under.             *)
DraftBelongsToTheLock ==
    ctl.phase \in {"editable", "saving"} => ctl.under = ctl.token /\ ctl.token = ctl.session

(* A token the drawer may still release.                                      *)
InHand(t) == \/ ctl.session = t
             \/ \E c \in calls : c.token = t /\ c.op # "beat"
             \/ \E p \in parting : p.token = t
=============================================================================
