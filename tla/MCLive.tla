------------------------------- MODULE MCLive -------------------------------
(* What must come to an end on the server, for TLC: a lock and a change of    *)
(* status, each under the fairness that its module states.  One of the two    *)
(* takes steps in a behaviour.                                                *)
EXTENDS Naturals, TLC
CONSTANTS t1, t2, t3, t4, u1, u2, v1, d1, r1, r2, None

VARIABLE part   \* the part that takes steps

-----------------------------------------------------------------------------
(* A lock, two tabs of two users, one request at a time.                      *)
VARIABLES projectStatus, editLock, projectRow, lockReq, tabToken, lastWrite
lockVars == <<projectStatus, editLock, projectRow, lockReq, tabToken, lastWrite>>
Lock == INSTANCE EditLock WITH
    Session <- {1, 2}, User <- {u1, u2}, UserOf <- <<u1, u2>>, Slot <- {r1},
    Token <- {t1, t2, t3, t4}, TTL <- 2,
    status <- projectStatus, mutex <- projectRow, req <- lockReq, token <- tabToken

(* Two requests to a project, and one definition.                             *)
VARIABLES status, basis, snapshot, content, defs, mutex, req, log, reviewed
reviewVars == <<status, basis, snapshot, content, defs, mutex, req, log, reviewed>>
Review == INSTANCE ReviewWorkflow WITH
    Value <- {v1}, Defs <- {d1}, Allowed <- d1 :> {v1}, Slot <- {r1, r2}, MaxAttempts <- 3,
    MaxMoves <- 2

-----------------------------------------------------------------------------
vars == <<part, lockVars, reviewVars>>

Init == /\ part \in {"lock", "review"}
        /\ Lock!Init /\ Review!Init /\ (part = "review" \/ content.por)

OfLock == part = "lock" /\ UNCHANGED <<part, reviewVars>>
OfReview == part = "review" /\ UNCHANGED <<part, lockVars>>

Next == \/ OfLock /\ Lock!Next
        \/ OfReview /\ Review!Next

Fairness ==
    /\ WF_vars(OfLock /\ Lock!Tick)
    /\ \A r \in {r1, r2} : SF_vars(OfReview /\ Review!Starts(r)) /\ SF_vars(OfReview /\ Review!Ends(r))

Spec == Init /\ [][Next]_vars /\ Fairness

-----------------------------------------------------------------------------
(* A lock that no tab and no request knows does not block the project for     *)
(* ever (EditLock).                                                           *)
OrphanedLockRunsOut == Lock!OrphanedLockRunsOut

(* Every request is answered, although the database may refuse its            *)
(* transaction several times (ReviewWorkflow).                                *)
RequestsAreAnswered == Review!RequestsAreAnswered
=============================================================================
