----------------------------- MODULE SheetSession -----------------------------
(* The edit lock as the sheet of one browser tab uses it: acquired at mount,   *)
(* renewed by heartbeats, lost on a refusal, given away for the time of a      *)
(* mutation elsewhere in the workspace, released at unmount behind the writes. *)
(* What the writes carry is the matter of Autosave: here a tab has no unsaved  *)
(* work, some, or a write under way.                                           *)
EXTENDS Naturals

CONSTANTS LateAnswers,  \* whether a new lock may overtake answers about the one before
          MaxSteps      \* bound: actions of users, timers and failures

VARIABLES sheet,   \* the refs of the hook
          asks,    \* requests in flight, and their answers
          drafting,\* the project is a draft: only then the lock can be taken
          holder,  \* the token of the live lock, or 0
          issued,  \* the last token the server gave
          abandoned,\* history: tokens left to the expiry of the lock
          steps

sheetVars == <<sheet, asks>>
server == <<drafting, holder, issued, abandoned>>
vars == <<sheet, asks, drafting, holder, issued, abandoned, steps>>

Step == steps < MaxSteps /\ steps' = steps + 1

\* A request is of a mount; a heartbeat is the one heartbeatTaskRef holds or an older one.
Ask(op, t) == [op |-> op, gen |-> sheet.gen, token |-> t, last |-> TRUE, answer |-> "none"]
Ours(a) == a.gen = sheet.gen
Answered(a) == a.answer # "none"

Unmounted == [on |-> FALSE, gen |-> 0, status |-> "acquiring", token |-> 0, suspended |-> FALSE,
              stage |-> "no", beating |-> FALSE, seeking |-> FALSE, work |-> "none"]
Init == sheet = Unmounted /\ asks = {}

-----------------------------------------------------------------------------
(* The server. A refusal is a lock conflict, a failure a broken connection;   *)
(* the request of a failed call may have been served.                         *)

Grant(a) == /\ issued' = issued + 1 /\ holder' = issued + 1
            /\ asks' = (asks \ {a}) \cup {[a EXCEPT !.token = issued + 1, !.answer = "ok"]}
Reply(a, answer) == asks' = (asks \ {a}) \cup {[a EXCEPT !.answer = answer]}

Serve == \E a \in asks :
    /\ ~Answered(a)
    /\ \/ a.op = "acquire" /\ holder = 0 /\ drafting /\ Grant(a)
       \/ /\ a.op = "acquire" /\ (holder # 0 \/ ~drafting)
          /\ Reply(a, "refused") /\ UNCHANGED <<holder, issued>>
       \/ /\ a.op \in {"beat", "write"}
          /\ Reply(a, IF holder = a.token THEN "ok" ELSE "refused") /\ UNCHANGED <<holder, issued>>
       \/ /\ a.op \in {"suspend", "drop"}
          /\ holder' = (IF holder = a.token THEN 0 ELSE holder)
          /\ IF a.op = "drop" THEN asks' = asks \ {a} ELSE Reply(a, "ok")
          /\ UNCHANGED issued
    /\ UNCHANGED <<sheet, drafting, abandoned, steps>>

Abandon(a) == abandoned' = abandoned \cup {a.token}
Fail == \E a \in asks :
    /\ Step /\ ~Answered(a)
    /\ IF a.op = "drop" THEN asks' = asks \ {a} /\ Abandon(a)
       ELSE Reply(a, "failed") /\ UNCHANGED abandoned
    /\ UNCHANGED <<sheet, drafting, holder, issued>>

-----------------------------------------------------------------------------

(* A mount during a mutation of the workspace stays suspended until resumed.  *)
Mount(suspended) ==
    /\ Step /\ ~sheet.on
    /\ sheet' = [Unmounted EXCEPT !.on = TRUE, !.gen = sheet.gen + 1, !.suspended = suspended,
                   !.status = IF suspended THEN "readonly" ELSE "acquiring",
                   !.seeking = ~suspended]
    /\ asks' = IF suspended THEN asks
               ELSE asks \cup {[Ask("acquire", 0) EXCEPT !.gen = sheet.gen + 1]}
    /\ UNCHANGED server

MayReacquire == sheet.on /\ ~sheet.suspended /\ ~sheet.seeking
\* Status after a failed attempt: "acquiring" remembers where it came from.
Seek == /\ sheet' = [sheet EXCEPT !.seeking = TRUE,
                       !.status = IF @ = "readonly" THEN "acquiring" ELSE "reacquiring"]
        /\ asks' = asks \cup {Ask("acquire", 0)}

Reacquire == /\ Step /\ MayReacquire /\ sheet.status \in {"lost", "readonly"} /\ Seek
             /\ UNCHANGED server
ReadonlyRetry == /\ Step /\ MayReacquire /\ sheet.status = "readonly"
                 /\ sheet' = [sheet EXCEPT !.seeking = TRUE]
                 /\ asks' = asks \cup {Ask("acquire", 0)}
                 /\ UNCHANGED server

\* A lock for a page that is left, or whose writes are through, is given back.
KeepSilently(a) == {}
GiveBack(a) == IF a.answer = "ok" THEN {[a EXCEPT !.op = "drop", !.answer = "none"]} ELSE {}

(* What an acquired lock makes of the session: suspended, it stays unused.    *)
TakenAnyway(t) == [sheet EXCEPT !.token = t, !.seeking = FALSE, !.status = "held", !.beating = TRUE]
Taken(t) == IF sheet.suspended THEN [sheet EXCEPT !.token = t, !.seeking = FALSE]
            ELSE TakenAnyway(t)

AcquireAnswered == \E a \in asks :
    /\ a.op = "acquire" /\ Answered(a)
    /\ LateAnswers \/ \A b \in asks : b.op \in {"beat", "write"} => ~Ours(b)
    /\ IF ~Ours(a) \/ ~sheet.on
       THEN /\ asks' = (asks \ {a}) \cup GiveBack(a)
            /\ UNCHANGED sheet
       ELSE /\ asks' = asks \ {a}
            /\ sheet' =
                 IF a.answer = "ok"
                 THEN Taken(a.token)
                 ELSE [sheet EXCEPT !.seeking = FALSE,
                         !.status = IF @ = "reacquiring" THEN "lost" ELSE "readonly"]
    /\ UNCHANGED <<server, steps>>

Lose(s) == [s EXCEPT !.status = "lost", !.beating = FALSE, !.token = 0,
                     !.work = IF @ = "writing" THEN "dirty" ELSE @]

Heartbeat ==
    /\ Step /\ sheet.on /\ sheet.beating /\ ~sheet.suspended /\ sheet.token # 0
    /\ asks' = {IF a.op = "beat" THEN [a EXCEPT !.last = FALSE] ELSE a : a \in asks}
               \cup {Ask("beat", sheet.token)}
    /\ UNCHANGED <<sheet, server>>

HeartbeatAnswered == \E a \in asks :
    /\ a.op = "beat" /\ Answered(a) /\ asks' = asks \ {a}
    /\ sheet' = IF ~Ours(a) THEN sheet
                ELSE CASE a.answer = "ok" -> [sheet EXCEPT !.token = a.token]
                       [] a.answer = "refused" -> Lose(sheet)
                       [] OTHER -> sheet
    /\ UNCHANGED <<server, steps>>

-----------------------------------------------------------------------------
(* Work.                                                                     *)

Edit == /\ Step /\ sheet.on /\ ~sheet.suspended /\ sheet.status = "held" /\ sheet.work = "none"
        /\ sheet' = [sheet EXCEPT !.work = "dirty"] /\ UNCHANGED <<asks, server>>
Write == /\ sheet.on /\ sheet.status = "held" /\ sheet.token # 0 /\ sheet.work = "dirty"
         /\ \A a \in asks : a.op = "write" => ~Ours(a)
         /\ sheet' = [sheet EXCEPT !.work = "writing"]
         /\ asks' = asks \cup {Ask("write", sheet.token)}
         /\ UNCHANGED <<server, steps>>
\* An unmount waits for the write before it releases; a failed write keeps the lock.
WriteAnswered == \E a \in asks :
    /\ a.op = "write" /\ Answered(a)
    /\ IF Ours(a) /\ sheet.on
       THEN /\ asks' = asks \ {a} /\ UNCHANGED abandoned
            /\ sheet' = CASE a.answer = "ok" -> [sheet EXCEPT !.work = "none"]
                          [] a.answer = "refused" -> Lose(sheet)
                          [] OTHER -> [sheet EXCEPT !.work = "dirty"]
       ELSE /\ asks' = (asks \ {a}) \cup GiveBack(a)
            /\ IF a.answer = "ok" THEN UNCHANGED abandoned ELSE Abandon(a)
            /\ UNCHANGED sheet
    /\ UNCHANGED <<drafting, holder, issued, steps>>

-----------------------------------------------------------------------------
(* Suspension for a mutation elsewhere: the acquisition and the last           *)
(* heartbeat are awaited, then the lock is released; a failure is the caller's. *)

MaySuspend == sheet.work = "none"
Suspended(s) == [s EXCEPT !.suspended = TRUE, !.beating = FALSE, !.status = "readonly",
                          !.stage = "wait"]
AwaitedBySuspend(a) == Ours(a) /\ (a.op = "acquire" \/ (a.op = "beat" /\ a.last))
SuspendReleases ==
    /\ sheet.stage = "wait" /\ \A a \in asks : ~AwaitedBySuspend(a)
    /\ IF sheet.token = 0
       THEN sheet' = [sheet EXCEPT !.stage = "done", !.seeking = FALSE] /\ UNCHANGED asks
       ELSE /\ sheet' = [sheet EXCEPT !.stage = "release"]
            /\ asks' = asks \cup {Ask("suspend", sheet.token)}
    /\ UNCHANGED <<server, steps>>
SuspendAnswered == \E a \in asks :
    /\ a.op = "suspend" /\ Answered(a) /\ asks' = asks \ {a}
    /\ sheet' = IF ~Ours(a) \/ ~sheet.on THEN sheet
                ELSE IF a.answer = "ok"
                THEN [sheet EXCEPT !.stage = "done", !.seeking = FALSE,
                                   !.token = IF @ = a.token THEN 0 ELSE @]
                ELSE [sheet EXCEPT !.stage = "failed"]
    /\ UNCHANGED <<server, steps>>

Resumed(s) == [s EXCEPT !.suspended = FALSE, !.stage = "no", !.seeking = TRUE,
                 !.status = IF @ = "readonly" THEN "acquiring" ELSE "reacquiring"]
Resume == sheet' = Resumed(sheet) /\ asks' = asks \cup {Ask("acquire", 0)}

-----------------------------------------------------------------------------

(* Unmount: a held lock is released behind the writes, any other at once.     *)
Left == [sheet EXCEPT !.on = FALSE, !.status = "acquiring", !.token = 0, !.beating = FALSE,
                      !.work = "none", !.seeking = FALSE, !.stage = "no", !.suspended = FALSE]
Leave(s) == IF s.token = 0 \/ (s.status = "held" /\ s.work = "writing") THEN {}
            ELSE {[Ask("drop", s.token) EXCEPT !.gen = s.gen]}

(* The beacon of a closing tab is sent unless something is left to write.  A  *)
(* staged paste, which may keep the page, does not count.                     *)
BeforeUnload == /\ Step /\ sheet.on /\ sheet.status = "held" /\ sheet.token # 0
                /\ sheet.work = "none"
                /\ asks' = asks \cup {Ask("drop", sheet.token)}
                /\ UNCHANGED <<sheet, server>>

Next == \/ Serve \/ Fail \/ Reacquire \/ ReadonlyRetry
        \/ AcquireAnswered \/ Heartbeat \/ HeartbeatAnswered \/ Edit \/ Write \/ WriteAnswered
        \/ SuspendReleases \/ SuspendAnswered \/ BeforeUnload

-----------------------------------------------------------------------------

(* A token of this tab is known to it, or a request will give it back, or the *)
(* user has been told that it was not given back.                             *)
InHand(t) == (sheet.on /\ sheet.token = t) \/ \E a \in asks : a.token = t /\ a.op # "beat"
=============================================================================
