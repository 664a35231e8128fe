------------------------- MODULE ReviewRegistryProofs -------------------------
(***************************************************************************)
(* What TLAPS proves of the two modules that MCRegistry extends: of        *)
(* ReviewWorkflow for any values, definitions, requests and bounds, and of *)
(* Registry for any parameters, rules, limits, administrators and bounds.  *)
(***************************************************************************)
EXTENDS ReviewWorkflow, Registry, SequenceTheorems, TLAPS

(***************************************************************************)
(* The review.                                                             *)
(***************************************************************************)

\* The snapshot of r agrees with what is committed.
Current(r) ==
  /\ req[r].saw.status = status /\ req[r].saw.basis = basis
  /\ status # "draft" => req[r].saw.content = content

\* Only the transaction that holds the project row is open.
OpenHoldsRow == \A r \in Slot : req[r].stage = "open" => mutex = r

\* A status change has read the project from when it waits for its row.
HasSeen ==
  \A r \in Slot :
    /\ req[r].stage = "waiting" => req[r].op \in StatusAction
    /\ req[r].stage \in {"waiting", "open"} /\ req[r].op \in StatusAction =>
         req[r].saw \in View

\* A waiting status change is marked stale as soon as its snapshot is.
WaitingIsCurrent ==
  \A r \in Slot : req[r].stage = "waiting" /\ ~req[r].stale => Current(r)

OpenEditIsInDraft ==
  \A r \in Slot : req[r].stage = "open" /\ req[r].op \in EditOp => status = "draft"

RowInv ==
  /\ OpenHoldsRow
  /\ HasSeen
  /\ WaitingIsCurrent
  /\ DecisionsAreCurrent
  /\ OpenEditIsInDraft

\* The evidence of a review is that of the content its gate evaluated.
GateHeld ==
  basis # None /\ snapshot = None => reviewed \in Content /\ Valid(reviewed, basis)

NoEarlierApproval ==
  snapshot = None => \A i \in 1 .. Len(log) : log[i].action # "approve"

HistoryInv ==
  /\ AuditChain
  /\ EvidenceMatchesStatus
  /\ GateHeld
  /\ NoEarlierApproval
  /\ ApprovedIsValid

IInv == TypeOK /\ RowInv /\ HistoryInv

-----------------------------------------------------------------------------
(* The records the model is built from *)

\* A new request and a free slot are requests, and are not open or waiting.
LEMMA NewRequestType ==
  ASSUME NEW op \in EditOp \union StatusAction, NEW n \in 1 .. MaxAttempts
  PROVE  NewRequest(op, n) \in Request /\ NewRequest(op, n).stage = "queued"
BY DEF NewRequest, Request, Stage

\* A free slot is a request that is over.
LEMMA IdleType == Idle \in Request /\ Idle.stage = "free"
<1>1. 1 \in 1 .. MaxAttempts
  BY ConstantsAssumption
<1> QED
  BY <1>1 DEF Idle, NewRequest, Request, Stage, EditOp

\* A commit frees its slot and marks the waiting ones; it changes no other
\* field of another request.
LEMMA CommitEffect ==
  ASSUME TypeOK, NEW r \in Slot, NEW changed \in BOOLEAN, Commit(r, changed)
  PROVE  /\ mutex' = None
         /\ req' \in [Slot -> Request]
         /\ req'[r].stage = "free"
         /\ \A q \in Slot \ {r} :
              /\ req'[q].stage = req[q].stage /\ req'[q].op = req[q].op
              /\ req'[q].saw = req[q].saw
              /\ ~changed => req'[q].stale = req[q].stale
              /\ changed /\ req[q].stage = "waiting" => req'[q].stale
<1>1. req \in [Slot -> Request]
  BY DEF TypeOK
<1>2. ASSUME NEW q \in Slot
      PROVE  /\ [req[q] EXCEPT !.stale = TRUE] \in Request
             /\ [req[q] EXCEPT !.stale = TRUE].stale
             /\ [req[q] EXCEPT !.stale = TRUE].stage = req[q].stage
             /\ [req[q] EXCEPT !.stale = TRUE].op = req[q].op
             /\ [req[q] EXCEPT !.stale = TRUE].saw = req[q].saw
  BY <1>1 DEF Request
<1>3. req' \in [Slot -> Request]
  BY <1>1, <1>2, IdleType DEF Commit
<1>4. ASSUME NEW q \in Slot \ {r}
      PROVE  req'[q] = IF req[q].stage = "waiting" /\ changed
                       THEN [req[q] EXCEPT !.stale = TRUE] ELSE req[q]
  BY <1>4 DEF Commit
<1>5. ASSUME NEW q \in Slot \ {r}
      PROVE  /\ req'[q].stage = req[q].stage /\ req'[q].op = req[q].op
             /\ req'[q].saw = req[q].saw
             /\ ~changed => req'[q].stale = req[q].stale
             /\ changed /\ req[q].stage = "waiting" => req'[q].stale
  <2>1. CASE req[q].stage = "waiting" /\ changed
    BY <1>2, <1>4, <2>1
  <2>2. CASE ~(req[q].stage = "waiting" /\ changed)
    BY <1>4, <2>2
  <2> QED
    BY <2>1, <2>2
<1> QED
  BY <1>3, <1>5, IdleType DEF Commit

-----------------------------------------------------------------------------
(* IInv is inductive *)

\* The initial states satisfy the invariant.
LEMMA InitInv == Init => IInv
<1> SUFFICES ASSUME Init
             PROVE  IInv
  OBVIOUS
<1>1. TypeOK
  BY IdleType DEF Init, TypeOK, ProjectStatus
<1>2. \A r \in Slot : req[r].stage = "free"
  BY IdleType DEF Init
<1>3. RowInv
  BY <1>2 DEF RowInv, OpenHoldsRow, HasSeen, WaitingIsCurrent, DecisionsAreCurrent,
              OpenEditIsInDraft
<1>4. HistoryInv
  <2>1. log = <<>> /\ Len(log) = 0 /\ status = "draft" /\ basis = None /\ snapshot = None
    BY DEF Init
  <2> QED
    BY <2>1 DEF HistoryInv, AuditChain, EvidenceMatchesStatus, GateHeld,
                NoEarlierApproval, ApprovedIsValid
<1> QED
  BY <1>1, <1>3, <1>4 DEF IInv

\* A step that leaves the project and its content alone keeps the history.
LEMMA SameHistory ==
  ASSUME HistoryInv, UNCHANGED <<project, content, log, reviewed>>
  PROVE  HistoryInv'
BY DEF project, HistoryInv, AuditChain, EvidenceMatchesStatus, GateHeld, NoEarlierApproval,
       ApprovedIsValid, Valid

\* A step that ends, refuses, restarts or begins one request.
LEMMA SlotStepInv ==
  ASSUME IInv, NEW r \in Slot, NEW new \in Request, new.stage \in {"free", "queued"},
         req' = [req EXCEPT ![r] = new],
         mutex' = mutex \/ (req[r].stage = "open" /\ mutex' = None),
         UNCHANGED <<project, content, defs, log, reviewed>>
  PROVE  IInv'
<1>1. req \in [Slot -> Request] /\ TypeOK
  BY DEF IInv, TypeOK
<1>2. req'[r] = new /\ \A q \in Slot \ {r} : req'[q] = req[q]
  BY <1>1
<1>3. TypeOK'
  BY <1>1 DEF TypeOK, project
<1>4. \A q \in Slot : req'[q].stage \in {"waiting", "open"} => q # r /\ req'[q] = req[q]
  BY <1>2
<1>5. RowInv'
  BY <1>4 DEF IInv, RowInv, OpenHoldsRow, HasSeen, WaitingIsCurrent, DecisionsAreCurrent,
              OpenEditIsInDraft, Current, project
<1> QED
  BY <1>3, <1>5, SameHistory DEF IInv

\* A step that gives r the row, when what r is to do is still allowed.
LEMMA OpenStepInv ==
  ASSUME IInv, NEW r \in Slot, mutex = None, mutex' = r,
         req' = [req EXCEPT ![r].stage = "open"],
         req[r].op \in EditOp => status = "draft",
         req[r].op \in StatusAction => req[r].saw \in View /\ Current(r),
         UNCHANGED <<project, content, defs, log, reviewed>>
  PROVE  IInv'
<1> DEFINE new == [req[r] EXCEPT !.stage = "open"]
<1>1. req \in [Slot -> Request] /\ TypeOK
  BY DEF IInv, TypeOK
<1>2. new \in Request /\ new.op = req[r].op /\ new.saw = req[r].saw /\ new.stage = "open"
  BY <1>1 DEF Request, Stage
<1>3. req'[r] = new /\ \A q \in Slot \ {r} : req'[q] = req[q]
  BY <1>1
<1>4. TypeOK'
  BY <1>1, <1>2 DEF TypeOK, project
<1> HIDE DEF new
<1>5. \A q \in Slot \ {r} : req[q].stage # "open"
  BY <1>1, ConstantsAssumption DEF IInv, RowInv, OpenHoldsRow
<1>6. OpenHoldsRow' /\ OpenEditIsInDraft'
  BY <1>2, <1>3, <1>5 DEF OpenHoldsRow, OpenEditIsInDraft, project
<1>7. HasSeen' /\ WaitingIsCurrent'
  BY <1>2, <1>3 DEF IInv, RowInv, HasSeen, WaitingIsCurrent, Current, project
<1>8. DecisionsAreCurrent'
  BY <1>2, <1>3, <1>5 DEF DecisionsAreCurrent, Current, project
<1> QED
  BY <1>4, <1>6, <1>7, <1>8, SameHistory DEF IInv, RowInv

\* Taking the snapshot makes it current.
LEMMA TakeSnapshotInv ==
  ASSUME IInv, NEW r \in Slot, TakeSnapshot(r)
  PROVE  IInv'
<1> DEFINE new == [req[r] EXCEPT !.stage = "waiting", !.saw = Committed]
<1>1. req \in [Slot -> Request] /\ TypeOK
  BY DEF IInv, TypeOK
<1>2. /\ Committed \in View
      /\ Committed.status = status /\ Committed.basis = basis /\ Committed.content = content
  BY <1>1 DEF TypeOK, Committed, View
<1>3. /\ new \in Request /\ new.op = req[r].op /\ new.saw = Committed
      /\ new.stage = "waiting"
  BY <1>1, <1>2 DEF Request, Stage
<1>4. req' = [req EXCEPT ![r] = new] /\ req[r].op \in StatusAction
  BY DEF TakeSnapshot
<1>5. req'[r] = new /\ \A q \in Slot \ {r} : req'[q] = req[q]
  BY <1>1, <1>4
<1>6. UNCHANGED <<project, content, defs, mutex, log, reviewed>>
  BY DEF TakeSnapshot
<1>7. TypeOK'
  BY <1>1, <1>3, <1>4, <1>6 DEF TypeOK, project
<1> HIDE DEF new
<1>8. OpenHoldsRow' /\ OpenEditIsInDraft' /\ DecisionsAreCurrent'
  BY <1>3, <1>5, <1>6 DEF IInv, RowInv, OpenHoldsRow, OpenEditIsInDraft, DecisionsAreCurrent,
                          project
<1>9. HasSeen' /\ WaitingIsCurrent'
  BY <1>2, <1>3, <1>4, <1>5, <1>6
     DEF IInv, RowInv, HasSeen, WaitingIsCurrent, Current, project
<1> QED
  BY <1>6, <1>7, <1>8, <1>9, SameHistory DEF IInv, RowInv

\* An edit changes the content of a draft, which no snapshot is held to.
LEMMA CommitEditInv ==
  ASSUME IInv, NEW r \in Slot, CommitEdit(r)
  PROVE  IInv' /\ status = "draft" /\ status' = "draft"
<1> DEFINE changed == req[r].op = "patch_profile"
<1>1. TypeOK /\ changed \in BOOLEAN /\ Commit(r, changed)
  BY DEF IInv, CommitEdit
<1>2. UNCHANGED <<project, defs, log, reviewed>>
  BY DEF CommitEdit
<1>3. /\ mutex' = None
      /\ req' \in [Slot -> Request]
      /\ req'[r].stage = "free"
      /\ \A q \in Slot \ {r} :
           /\ req'[q].stage = req[q].stage /\ req'[q].op = req[q].op
           /\ req'[q].saw = req[q].saw
           /\ ~changed => req'[q].stale = req[q].stale
           /\ changed /\ req[q].stage = "waiting" => req'[q].stale
  BY <1>1, CommitEffect
<1> HIDE DEF changed
<1>4. status = "draft" /\ status' = "draft"
  BY <1>2 DEF CommitEdit, IInv, RowInv, OpenEditIsInDraft, project
<1>5. content' \in Content
  <2>1. Edited(req[r].op) \in SUBSET Content
    BY <1>1 DEF CommitEdit, EditOp, Edited, TypeOK, Content
  <2> QED
    BY <2>1 DEF CommitEdit
<1>6. TypeOK'
  BY <1>1, <1>2, <1>3, <1>5 DEF TypeOK, project
<1>7. OpenHoldsRow' /\ OpenEditIsInDraft'
  <2>1. \A q \in Slot : req'[q].stage # "open"
    BY <1>3 DEF CommitEdit, IInv, RowInv, OpenHoldsRow
  <2> QED
    BY <2>1 DEF OpenHoldsRow, OpenEditIsInDraft
<1>8. DecisionsAreCurrent' /\ HasSeen' /\ WaitingIsCurrent'
  BY <1>2, <1>3, <1>4 DEF IInv, RowInv, HasSeen, WaitingIsCurrent, DecisionsAreCurrent,
                          Current, project
<1>9. HistoryInv'
  BY <1>2, <1>4 DEF project, IInv, HistoryInv, AuditChain, EvidenceMatchesStatus, GateHeld,
                    NoEarlierApproval, ApprovedIsValid
<1> QED
  BY <1>4, <1>6, <1>7, <1>8, <1>9 DEF IInv, RowInv

\* Every move of the rule table is made from the committed status, is recorded
\* as such, leaves nothing open, and outdates every waiting snapshot.
LEMMA MoveEffect ==
  ASSUME IInv, NEW r \in Slot, NEW action \in StatusAction, NEW revalidated \in BOOLEAN,
         Move(r, action, revalidated)
  PROVE  /\ MayMove(status, action, status')
         /\ log' = Append(log, [action |-> action, from |-> status, to |-> status',
                               revalidated |-> revalidated])
         /\ log' \in Seq(Event)
         /\ req[r].saw \in View /\ Current(r)
         /\ status' \in ProjectStatus /\ mutex' = None /\ req' \in [Slot -> Request]
         /\ UNCHANGED <<content, defs>>
         /\ RowInv'
<1>1. TypeOK /\ Commit(r, TRUE) /\ UNCHANGED <<content, defs>>
  BY DEF IInv, Move
<1>2. req[r].saw \in View /\ Current(r)
  BY DEF Move, IInv, RowInv, HasSeen, DecisionsAreCurrent, Current
<1>3. /\ MayMove(status, action, status') /\ status' \in ProjectStatus
      /\ log' = Append(log, [action |-> action, from |-> status, to |-> status',
                            revalidated |-> revalidated])
  BY <1>2 DEF Move, Current
<1>4. log' \in Seq(Event)
  BY <1>1, <1>3 DEF TypeOK, Event
<1>5. /\ mutex' = None
      /\ req' \in [Slot -> Request]
      /\ req'[r].stage = "free"
      /\ \A q \in Slot \ {r} :
           /\ req'[q].stage = req[q].stage /\ req'[q].op = req[q].op
           /\ req'[q].saw = req[q].saw
           /\ req[q].stage = "waiting" => req'[q].stale
  BY <1>1, CommitEffect
<1>6. \A q \in Slot : req'[q].stage # "open"
  BY <1>5 DEF Move, IInv, RowInv, OpenHoldsRow
<1>7. RowInv'
  BY <1>5, <1>6 DEF IInv, RowInv, OpenHoldsRow, HasSeen, WaitingIsCurrent,
                    DecisionsAreCurrent, OpenEditIsInDraft
<1> QED
  BY <1>1, <1>2, <1>3, <1>4, <1>5, <1>7

\* One more event that starts at the status continues the chain.
LEMMA ChainGrows ==
  ASSUME log \in Seq(Event), AuditChain, NEW e \in Event, e.from = status,
         log' = Append(log, e), status' = e.to
  PROVE  AuditChain'
<1>1. Len(log') = Len(log) + 1 /\ Len(log) \in Nat
  OBVIOUS
<1>2. \A i \in 1 .. Len(log) : log'[i] = log[i]
  OBVIOUS
<1>3. log'[Len(log) + 1] = e /\ log' # <<>>
  OBVIOUS
<1>4. e.from = IF Len(log) = 0 THEN "draft" ELSE log[Len(log)].to
  BY DEF AuditChain
<1>5. ASSUME NEW i \in 1 .. Len(log')
      PROVE  log'[i].from = IF i = 1 THEN "draft" ELSE log'[i - 1].to
  <2>1. CASE i \in 1 .. Len(log)
    BY <1>1, <1>2, <2>1 DEF AuditChain
  <2>2. CASE i = Len(log) + 1
    BY <1>1, <1>2, <1>3, <1>4, <2>2
  <2> QED
    BY <1>1, <2>1, <2>2
<1> QED
  BY <1>1, <1>3, <1>5 DEF AuditChain

\* A move other than an approval keeps the approvals of the log as they are.
LEMMA LogGrows ==
  ASSUME log \in Seq(Event), NEW e \in Event, log' = Append(log, e),
         NEW i \in 1 .. Len(log')
  PROVE  \/ i \in 1 .. Len(log) /\ log'[i] = log[i]
         \/ i = Len(log') /\ log'[i] = e
<1>1. Len(log') = Len(log) + 1 /\ Len(log) \in Nat
  OBVIOUS
<1>2. CASE i \in 1 .. Len(log)
  BY <1>2
<1>3. CASE i = Len(log) + 1
  BY <1>1, <1>3
<1> QED
  BY <1>1, <1>2, <1>3

\* Every status change keeps the invariant.
LEMMA StatusMoveInv ==
  ASSUME IInv, NEW r \in Slot, StatusMove(r)
  PROVE  IInv' /\ UNCHANGED content
<1> DEFINE saw == req[r].saw
           rv  == req[r].op = "approve" /\ saw.defs # saw.basis
           e   == [action |-> req[r].op, from |-> status, to |-> status', revalidated |-> rv]
<1>1. PICK action \in StatusAction, revalidated \in BOOLEAN :
        Move(r, action, revalidated) /\ action = req[r].op /\ revalidated = rv
  BY DEF StatusMove, RequestReview, Approve, Reject, ReturnToDraft, CreateRevision, Move,
         StatusAction, ReviewAction
<1>2. /\ MayMove(status, req[r].op, status')
      /\ log' = Append(log, e) /\ log' \in Seq(Event)
      /\ saw \in View /\ Current(r)
      /\ status' \in ProjectStatus /\ mutex' = None /\ req' \in [Slot -> Request]
      /\ UNCHANGED <<content, defs>>
      /\ RowInv'
  BY <1>1, MoveEffect
<1>3. TypeOK /\ HistoryInv /\ log \in Seq(Event)
  BY DEF IInv, TypeOK
<1>4. e \in Event /\ e.from = status /\ e.to = status' /\ e.action = req[r].op
      /\ e.revalidated = rv
  BY <1>1, <1>2, <1>3 DEF Event, TypeOK
<1>5. /\ saw.defs \in Defs /\ saw.content \in Content
      /\ saw.status = status /\ saw.basis = basis
      /\ status # "draft" => saw.content = content
  BY <1>2 DEF View, Current
<1> HIDE DEF e, saw
<1>6. AuditChain'
  BY <1>2, <1>3, <1>4, ChainGrows DEF HistoryInv
<1>7. \A i \in 1 .. Len(log') : \/ i \in 1 .. Len(log) /\ log'[i] = log[i]
                                \/ log'[i] = e
  BY <1>2, <1>3, <1>4, LogGrows
<1>8. CASE RequestReview(r)
  <2>1. /\ status = "draft" /\ status' = "review" /\ e.action = "request_review"
        /\ basis' = saw.defs /\ reviewed' = saw.content /\ UNCHANGED snapshot
        /\ Valid(saw.content, saw.defs)
    BY <1>2, <1>4, <1>8 DEF RequestReview, Move, PassesReviewGate, MayMove, LifecycleRules,
                            TransitionRules, RevisionRules, saw
  <2>2. TypeOK'
    BY <1>2, <1>3, <1>5, <2>1 DEF TypeOK
  <2>3. basis' # None /\ snapshot = None
    BY <1>3, <1>5, <2>1, ConstantsAssumption DEF HistoryInv, EvidenceMatchesStatus
  <2>4. EvidenceMatchesStatus' /\ GateHeld' /\ ApprovedIsValid'
    BY <1>5, <2>1, <2>3 DEF EvidenceMatchesStatus, GateHeld, ApprovedIsValid, Valid
  <2>5. NoEarlierApproval'
    BY <1>3, <1>7, <2>1, <2>3 DEF HistoryInv, NoEarlierApproval
  <2> QED
    BY <1>2, <1>6, <2>2, <2>4, <2>5 DEF IInv, HistoryInv
<1>9. CASE Approve(r)
  <2>1. /\ status = "review" /\ status' = "approved" /\ e.action = "approve"
        /\ basis' = saw.defs /\ snapshot' = saw.defs /\ UNCHANGED reviewed
        /\ saw.defs # saw.basis => Valid(saw.content, saw.defs)
        /\ rv <=> saw.defs # saw.basis
    BY <1>2, <1>4, <1>9 DEF Approve, Move, MayMove, LifecycleRules, TransitionRules,
                            RevisionRules, saw
  <2>2. TypeOK'
    BY <1>2, <1>3, <1>5, <2>1 DEF TypeOK
  <2>3. basis # None /\ snapshot = None /\ snapshot' # None /\ saw.content = content
    BY <1>3, <1>5, <2>1, ConstantsAssumption DEF HistoryInv, EvidenceMatchesStatus
  <2>4. EvidenceMatchesStatus' /\ GateHeld' /\ NoEarlierApproval'
    BY <2>1, <2>3 DEF EvidenceMatchesStatus, GateHeld, NoEarlierApproval
  <2>5. rv => Valid(content, saw.defs)
    BY <2>1, <2>3
  <2>6. ~rv => reviewed \in Content /\ Valid(reviewed, saw.defs)
    BY <1>3, <1>5, <2>1, <2>3 DEF HistoryInv, GateHeld
  <2>7. ApprovedIsValid'
    <3> SUFFICES ASSUME NEW i \in 1 .. Len(log'), log'[i].action = "approve",
                        log'[i].revalidated \/ reviewed' = content'
                 PROVE  Valid(content', snapshot')
      BY DEF ApprovedIsValid, Valid
    <3>1. log'[i] = e
      BY <1>3, <1>7, <2>3 DEF HistoryInv, NoEarlierApproval
    <3>2. e.revalidated \/ reviewed = content
      BY <1>2, <2>1, <3>1
    <3>3. rv \/ reviewed = content
      BY <1>4, <3>2
    <3> QED
      BY <1>2, <2>1, <2>5, <2>6, <3>3 DEF Valid
  <2> QED
    BY <1>2, <1>6, <2>2, <2>4, <2>7 DEF IInv, HistoryInv
<1>10. CASE Reject(r) \/ ReturnToDraft(r)
  <2>1. /\ \/ status = "review" /\ status' = "rejected" /\ basis' = basis
           \/ status = "rejected" /\ status' = "draft" /\ basis' = None
        /\ e.action # "approve"
        /\ UNCHANGED <<snapshot, reviewed>>
    BY <1>2, <1>4, <1>10 DEF Reject, ReturnToDraft, Move, MayMove, LifecycleRules,
                             TransitionRules, RevisionRules
  <2>2. TypeOK'
    BY <1>2, <1>3, <2>1 DEF TypeOK
  <2>3. snapshot = None /\ basis # None
    BY <1>3, <2>1 DEF HistoryInv, EvidenceMatchesStatus
  <2>4. EvidenceMatchesStatus' /\ GateHeld' /\ ApprovedIsValid'
    BY <1>3, <2>1, <2>3 DEF HistoryInv, EvidenceMatchesStatus, GateHeld, ApprovedIsValid, Valid
  <2>5. NoEarlierApproval'
    BY <1>3, <1>7, <2>1, <2>3 DEF HistoryInv, NoEarlierApproval
  <2> QED
    BY <1>2, <1>6, <2>2, <2>4, <2>5 DEF IInv, HistoryInv
<1>11. CASE CreateRevision(r)
  <2>1. /\ status = "approved" /\ status' = "archived" /\ e.action # "approve"
        /\ UNCHANGED <<basis, snapshot, reviewed>>
    BY <1>2, <1>4, <1>11 DEF CreateRevision, Move, MayMove, LifecycleRules,
                             TransitionRules, RevisionRules
  <2>2. TypeOK'
    BY <1>2, <1>3, <2>1 DEF TypeOK
  <2>3. snapshot # None
    BY <1>3, <2>1 DEF HistoryInv, EvidenceMatchesStatus
  <2>4. EvidenceMatchesStatus' /\ GateHeld' /\ NoEarlierApproval'
    BY <1>3, <2>1, <2>3 DEF HistoryInv, EvidenceMatchesStatus, GateHeld, NoEarlierApproval
  <2>5. ApprovedIsValid'
    BY <1>2, <1>3, <1>7, <2>1 DEF HistoryInv, ApprovedIsValid, Valid
  <2> QED
    BY <1>2, <1>6, <2>2, <2>4, <2>5 DEF IInv, HistoryInv
<1> QED
  BY <1>2, <1>8, <1>9, <1>10, <1>11 DEF StatusMove

\* Every step keeps the invariant.
LEMMA NextInv == ASSUME IInv, [Next]_vars PROVE IInv'
<1>1. req \in [Slot -> Request] /\ TypeOK
  BY DEF IInv, TypeOK
<1>2. ASSUME NEW r \in Slot, NEW op \in EditOp \union StatusAction, Ask(r, op)
      PROVE  IInv'
  <2>1. 1 \in 1 .. MaxAttempts
    BY ConstantsAssumption
  <2> QED
    BY <1>2, <2>1, NewRequestType, SlotStepInv DEF Ask
<1>3. CASE ChangeDefinitions
  <2>1. UNCHANGED <<project, content, mutex, req, log, reviewed>> /\ defs' \in Defs
    BY <1>3 DEF ChangeDefinitions
  <2>2. TypeOK' /\ RowInv'
    BY <1>1, <2>1 DEF IInv, TypeOK, RowInv, OpenHoldsRow, HasSeen, WaitingIsCurrent,
                      DecisionsAreCurrent, OpenEditIsInDraft, Current, project
  <2> QED
    BY <2>1, <2>2, SameHistory DEF IInv
<1>4. ASSUME NEW r \in Slot, Starts(r)
      PROVE  IInv'
  <2>1. CASE OpenEdit(r)
    <3>1. req[r].op \notin StatusAction
      BY <2>1 DEF OpenEdit, EditOp, StatusAction, ReviewAction
    <3> QED
      BY <2>1, <3>1, OpenStepInv DEF OpenEdit
  <2>2. CASE GetRow(r)
    <3>1. req[r].op \in StatusAction /\ req[r].saw \in View /\ Current(r)
      BY <2>2 DEF GetRow, IInv, RowInv, HasSeen, WaitingIsCurrent
    <3>2. req[r].op \notin EditOp
      BY <3>1 DEF EditOp, StatusAction, ReviewAction
    <3> QED
      BY <2>2, <3>1, <3>2, OpenStepInv DEF GetRow
  <2>3. CASE RefuseEdit(r)
    BY <2>3, IdleType, SlotStepInv DEF RefuseEdit
  <2>4. CASE TakeSnapshot(r)
    BY <2>4, TakeSnapshotInv
  <2> QED
    BY <1>4, <2>1, <2>2, <2>3, <2>4 DEF Starts
<1>5. ASSUME NEW r \in Slot, Ends(r)
      PROVE  IInv'
  <2>1. CASE CommitEdit(r)
    BY <2>1, CommitEditInv
  <2>2. CASE StatusMove(r)
    BY <2>2, StatusMoveInv
  <2>3. CASE SerializationFailure(r)
    <3> DEFINE new == IF req[r].attempt < MaxAttempts
                      THEN NewRequest(req[r].op, req[r].attempt + 1) ELSE Idle
    <3>1. /\ req[r].op \in EditOp \union StatusAction
          /\ req[r].attempt \in 1 .. MaxAttempts
      BY <1>1 DEF Request
    <3>2. new \in Request /\ new.stage \in {"free", "queued"}
      <4>1. CASE req[r].attempt < MaxAttempts
        <5>1. req[r].attempt + 1 \in 1 .. MaxAttempts
          BY <3>1, <4>1, ConstantsAssumption
        <5> QED
          BY <3>1, <4>1, <5>1, NewRequestType
      <4>2. CASE ~(req[r].attempt < MaxAttempts)
        BY <4>2, IdleType
      <4> QED
        BY <4>1, <4>2
    <3>3. /\ req' = [req EXCEPT ![r] = new]
          /\ mutex' = mutex \/ (req[r].stage = "open" /\ mutex' = None)
          /\ UNCHANGED <<project, content, defs, log, reviewed>>
      BY <2>3 DEF SerializationFailure, Retry
    <3> HIDE DEF new
    <3> QED
      BY <3>2, <3>3, SlotStepInv
  <2>4. CASE Rollback(r)
    BY <2>4, IdleType, SlotStepInv DEF Rollback
  <2> QED
    BY <1>5, <2>1, <2>2, <2>3, <2>4 DEF Ends
<1>6. CASE UNCHANGED vars
  BY <1>6, SameHistory DEF vars, IInv, TypeOK, RowInv, OpenHoldsRow, HasSeen, project,
         WaitingIsCurrent, DecisionsAreCurrent, OpenEditIsInDraft, Current
<1> QED
  BY <1>2, <1>3, <1>4, <1>5, <1>6 DEF Next

\* The invariant holds in every behaviour.
LEMMA Invariance == Spec => []IInv
<1>1. IInv /\ [Next]_vars => IInv'
  BY NextInv
<1> QED
  BY <1>1, InitInv, PTL DEF Spec

-----------------------------------------------------------------------------
(* Theorems *)

\* Every variable keeps its type.
THEOREM TypeCorrect == Spec => []TypeOK
<1>1. IInv => TypeOK
  BY DEF IInv
<1> QED
  BY <1>1, Invariance, PTL

\* A status change that got its row decides on the committed status and
\* evidence and, outside draft, on the committed content.
THEOREM StatusChangesDecideOnCurrentState == Spec => []DecisionsAreCurrent
<1>1. IInv => DecisionsAreCurrent
  BY DEF IInv, RowInv
<1> QED
  BY <1>1, Invariance, PTL

\* The recorded events chain from draft to the status: no two status changes
\* succeed from the same state.
THEOREM EventsChain == Spec => []AuditChain
<1>1. IInv => AuditChain
  BY DEF IInv, HistoryInv
<1> QED
  BY <1>1, Invariance, PTL

\* The review evidence and the frozen definitions follow the status.
THEOREM EvidenceFollowsStatus == Spec => []EvidenceMatchesStatus
<1>1. IInv => EvidenceMatchesStatus
  BY DEF IInv, HistoryInv
<1> QED
  BY <1>1, Invariance, PTL

\* An approved project is valid under its frozen definitions, if its review
\* gate or its approval evaluated the content it has.
THEOREM ApprovalsAreValid == Spec => []ApprovedIsValid
<1>1. IInv => ApprovedIsValid
  BY DEF IInv, HistoryInv
<1> QED
  BY <1>1, Invariance, PTL

\* Only a draft's content changes.
THEOREM ContentIsFrozen == Spec => ContentFrozen
<1>1. ASSUME IInv, [Next]_vars, content' # content
      PROVE  status = "draft" /\ status' = "draft"
  <2>1. ASSUME NEW r \in Slot, NEW op \in EditOp \union StatusAction, Ask(r, op)
        PROVE  FALSE
    BY <1>1, <2>1 DEF Ask
  <2>2. ASSUME NEW r \in Slot, Starts(r)
        PROVE  FALSE
    BY <1>1, <2>2 DEF Starts, OpenEdit, RefuseEdit, TakeSnapshot, GetRow
  <2>3. ASSUME NEW r \in Slot, Ends(r)
        PROVE  status = "draft" /\ status' = "draft"
    BY <1>1, <2>3, CommitEditInv, StatusMoveInv
       DEF Ends, SerializationFailure, Retry, Rollback
  <2> QED
    BY <1>1, <2>1, <2>2, <2>3 DEF Next, ChangeDefinitions, vars
<1>2. IInv /\ [Next]_vars
        => [content' # content => status = "draft" /\ status' = "draft"]_vars
  BY <1>1
<1> QED
  BY <1>2, Invariance, PTL DEF Spec, ContentFrozen

(***************************************************************************)
(* The registry.                                                           *)
(***************************************************************************)

Row == Code \cup Rule
Limits == Limit \cup {Nothing}
Parameter == [active : BOOLEAN, min : Limits, max : Limits]
RuleRecord == [spec : Specs, active : BOOLEAN, version : Nat]
FileRow == [code : Code, next : Bounds, new : BOOLEAN]

Parameters == UNION {[C -> Parameter] : C \in SUBSET Code}
Rules == UNION {[C -> RuleRecord] : C \in SUBSET Rule}

AdminRequest == [op : {"idle", "create rule", "patch rule", "create", "parameter", "import"},
                 stage : {"read", "check", "write", "end"}, row : Row \cup {Nothing},
                 spec : Specs \cup {Keep}, active : BOOLEAN \cup {Keep}, version : Nat,
                 bounds : Changes \cup {Keep}, file : Seq(FileRow), plan : Seq(Row),
                 writes : Parameters \cup Rules]

RegistryTypeOK == /\ parameters \in Parameters /\ rules \in Rules /\ steps \in Nat
                  /\ locked \in [Row -> Admin \cup {Nothing}] /\ request \in [Admin -> AdminRequest]

\* a holds the lock of a row, or will have it when its plan is done.
Holds(a, row) == row \in Row /\ locked[row] = a
Due(a, r, row) == Holds(a, row) \/ \E i \in DOMAIN r.plan : r.plan[i] = row

\* What a request of a has established before it writes.
NewRulePrepared(a, r) ==
  r.op = "create rule" /\ r.stage # "end" =>
    /\ r.stage = "write" /\ r.row \in Rule /\ r.writes = <<>>
    /\ r.spec \in Specs /\ r.active \in BOOLEAN /\ \A p \in Codes(r.spec) : Due(a, r, p)
PatchPrepared(a, r) ==
  r.op = "patch rule" /\ r.stage # "end" =>
    /\ r.row \in DOMAIN rules /\ Due(a, r, r.row) /\ r.writes = <<>>
    /\ r.stage # "read" =>
         /\ Holds(a, r.row) /\ r.version = rules[r.row].version
         /\ r.spec \in Specs /\ r.active \in BOOLEAN
    /\ r.stage = "check" => \A p \in Codes(r.spec) : Due(a, r, p)
    /\ r.stage = "write" => r.active = FALSE
UpdatePrepared(a, r) ==
  r.op = "parameter" /\ r.stage # "end" =>
    /\ r.stage = "write" /\ r.row \in DOMAIN parameters /\ Due(a, r, r.row)
    /\ r.bounds \in Changes /\ r.writes = <<>>
ImportPrepared(a, r) ==
  r.op = "import" /\ r.stage # "end" =>
    /\ r.file # <<>> /\ r.writes \in Parameters
    /\ \A i \in DOMAIN r.file : ~r.file[i].new => r.file[i].code \in DOMAIN parameters
    /\ r.stage # "read" =>
         ~Head(r.file).new /\ Due(a, r, Head(r.file).code) /\ r.bounds \in Changes
Prepared(a, r) == /\ NewRulePrepared(a, r) /\ PatchPrepared(a, r)
                  /\ UpdatePrepared(a, r) /\ ImportPrepared(a, r)

\* What is written may be committed at any time, because its rows are held.
RuleStands(a, rule, w) ==
  /\ rule \in DOMAIN rules => Holds(a, rule) /\ w.version = rules[rule].version + 1
  /\ w.active => Canonical(w.spec) /\ \A p \in Codes(w.spec) : Holds(a, p)
ParameterStands(a, p, w) ==
  /\ p \in DOMAIN parameters =>
       Holds(a, p) /\ (parameters[p].active /\ ~w.active => ~Referenced(p))
  /\ p \notin DOMAIN parameters => w.active
Stands(a, r) == \A x \in DOMAIN r.writes :
    /\ x \in Rule => RuleStands(a, x, r.writes[x])
    /\ x \in Code => ParameterStands(a, x, r.writes[x])

\* No two requests write one row.
Apart(r, q) == DOMAIN r.writes \cap DOMAIN q.writes = {}
WritersDiffer == \A a, b \in Admin : a # b => Apart(request[a], request[b])

\* An active rule may be used.
ActiveRulesHold == \A rule \in DOMAIN rules : rules[rule].active => Canonical(rules[rule].spec)

RegistryInv == /\ RegistryTypeOK /\ ActiveRulesHold /\ WritersDiffer
               /\ \A a \in Admin : Prepared(a, request[a]) /\ Stands(a, request[a])

-----------------------------------------------------------------------------
(* The helpers of the model *)

\* Nothing is written at first.
LEMMA NothingWritten == <<>> \in Parameters /\ <<>> \in Rules /\ DOMAIN <<>> = {}
PROOF
  <1>1. DOMAIN <<>> = {}
    OBVIOUS
  <1>2. <<>> \in [{} -> Parameter] /\ <<>> \in [{} -> RuleRecord]
    OBVIOUS
  <1> QED BY <1>1, <1>2 DEF Parameters, Rules

\* Put adds a row to what is written, or replaces it.
LEMMA PutWrites ==
  ASSUME NEW f, NEW x, NEW v
  PROVE  /\ DOMAIN Put(f, x, v) = DOMAIN f \cup {x} /\ Put(f, x, v)[x] = v
         /\ \A y \in DOMAIN f : y # x => Put(f, x, v)[y] = f[y]
         /\ f \in Parameters /\ x \in Code /\ v \in Parameter => Put(f, x, v) \in Parameters
         /\ f \in Rules /\ x \in Rule /\ v \in RuleRecord => Put(f, x, v) \in Rules
PROOF
  <1>1. /\ DOMAIN Put(f, x, v) = DOMAIN f \cup {x} /\ Put(f, x, v)[x] = v
        /\ \A y \in DOMAIN f : y # x => Put(f, x, v)[y] = f[y]
    BY DEF Put
  <1>2. ASSUME f \in Parameters, x \in Code, v \in Parameter PROVE Put(f, x, v) \in Parameters
    <2>1. PICK C \in SUBSET Code : f \in [C -> Parameter]
      BY <1>2 DEF Parameters
    <2>2. C \cup {x} \in SUBSET Code /\ Put(f, x, v) \in [C \cup {x} -> Parameter]
      BY <2>1, <1>2 DEF Put
    <2> QED BY <2>2 DEF Parameters
  <1>3. ASSUME f \in Rules, x \in Rule, v \in RuleRecord PROVE Put(f, x, v) \in Rules
    <2>1. PICK C \in SUBSET Rule : f \in [C -> RuleRecord]
      BY <1>3 DEF Rules
    <2>2. C \cup {x} \in SUBSET Rule /\ Put(f, x, v) \in [C \cup {x} -> RuleRecord]
      BY <2>1, <1>3 DEF Put
    <2> QED BY <2>2 DEF Rules
  <1> QED BY <1>1, <1>2, <1>3

\* A commit writes what belongs to a table into it, and leaves the rest.
LEMMA MergedPart ==
  ASSUME NEW f, NEW w, NEW S
  PROVE  /\ DOMAIN Merged(f, Part(w, S)) = DOMAIN f \cup (DOMAIN w \cap S)
         /\ \A x \in DOMAIN w \cap S : Merged(f, Part(w, S))[x] = w[x]
         /\ \A x \in DOMAIN f : x \notin DOMAIN w \/ x \notin S => Merged(f, Part(w, S))[x] = f[x]
BY DEF Merged, Part

LEMMA MergedTypes ==
  ASSUME NEW f, NEW w \in Parameters \cup Rules
  PROVE  /\ f \in Parameters => Merged(f, Part(w, Code)) \in Parameters
         /\ f \in Rules => Merged(f, Part(w, Rule)) \in Rules
PROOF
  <1>1. Code \cap Rule = {}
    BY RegistryConstants
  <1>2. ASSUME f \in Parameters PROVE Merged(f, Part(w, Code)) \in Parameters
    <2>1. PICK C \in SUBSET Code : f \in [C -> Parameter]
      BY <1>2 DEF Parameters
    <2>2. DOMAIN w \cap Code \in SUBSET Code /\ \A x \in DOMAIN w \cap Code : w[x] \in Parameter
      BY <1>1 DEF Parameters, Rules
    <2>3. Merged(f, Part(w, Code)) \in [C \cup (DOMAIN w \cap Code) -> Parameter]
      BY <2>1, <2>2 DEF Merged, Part
    <2> QED BY <2>2, <2>3 DEF Parameters
  <1>3. ASSUME f \in Rules PROVE Merged(f, Part(w, Rule)) \in Rules
    <2>1. PICK C \in SUBSET Rule : f \in [C -> RuleRecord]
      BY <1>3 DEF Rules
    <2>2. DOMAIN w \cap Rule \in SUBSET Rule /\ \A x \in DOMAIN w \cap Rule : w[x] \in RuleRecord
      BY <1>1 DEF Parameters, Rules
    <2>3. Merged(f, Part(w, Rule)) \in [C \cup (DOMAIN w \cap Rule) -> RuleRecord]
      BY <2>1, <2>2 DEF Merged, Part
    <2> QED BY <2>2, <2>3 DEF Rules
  <1> QED BY <1>2, <1>3

\* The rows of a specification are planned in some order.
LEMMA InOrderPlans ==
  ASSUME NEW spec \in Specs
  PROVE  /\ InOrder(spec) \in Seq(Row) /\ Codes(spec) \subseteq Code
         /\ \A p \in Codes(spec) : \E i \in DOMAIN InOrder(spec) : InOrder(spec)[i] = p
PROOF
  <1>1. spec.first \in Code /\ spec.second \in Code /\ Code \subseteq Row
    BY DEF Specs, Row
  <1>2. CASE spec.first = spec.second
    <2>1. InOrder(spec) = <<spec.first>>
      BY <1>2 DEF InOrder
    <2> QED BY <2>1, <1>1, <1>2 DEF Codes
  <1>3. CASE spec.first # spec.second
    <2>1. InOrder(spec) = <<spec.first, spec.second>> \/ InOrder(spec) = <<spec.second, spec.first>>
      BY <1>3 DEF InOrder
    <2>2. CASE InOrder(spec) = <<spec.first, spec.second>>
      BY <2>2, <1>1 DEF Codes
    <2>3. CASE InOrder(spec) = <<spec.second, spec.first>>
      BY <2>3, <1>1 DEF Codes
    <2> QED BY <2>1, <2>2, <2>3
  <1> QED BY <1>2, <1>3

\* What is in the tables has its types.
LEMMA Stored ==
  ASSUME RegistryTypeOK
  PROVE  /\ DOMAIN parameters \subseteq Code /\ \A p \in DOMAIN parameters : parameters[p] \in Parameter
         /\ DOMAIN rules \subseteq Rule /\ \A x \in DOMAIN rules : rules[x] \in RuleRecord
BY DEF RegistryTypeOK, Parameters, Rules

-----------------------------------------------------------------------------
(* Steps *)

\* What holds of the next request of b.
LEMMA NextRequest ==
  ASSUME NEW b, NEW q, q = request'[b], Prepared(b, q)', Stands(b, q)'
  PROVE  (Prepared(b, request[b]) /\ Stands(b, request[b]))'
PROOF
  <1>1. Stands(b, request[b])'
    BY DEF Stands, RuleStands, ParameterStands, Holds, Canonical, Referenced
  <1>2. NewRulePrepared(b, request[b])'
    BY DEF Prepared, NewRulePrepared, Due, Holds
  <1>3. PatchPrepared(b, request[b])'
    <2>1. PatchPrepared(b, q)'
      BY DEF Prepared
    <2>2. \A row : Due(b, q, row)' = Due(b, request[b], row)'
      BY DEF Due
    <2>3. request'[b].op = "patch rule" /\ request'[b].stage \notin {"end", "read"} =>
            /\ Holds(b, request[b].row)' /\ request'[b].version = rules'[request'[b].row].version
            /\ request'[b].spec \in Specs /\ request'[b].active \in BOOLEAN
      BY <2>1 DEF PatchPrepared, Holds
    <2> QED BY <2>1, <2>2, <2>3 DEF PatchPrepared, Holds
  <1>4. UpdatePrepared(b, request[b])'
    BY DEF Prepared, UpdatePrepared, Due, Holds
  <1>5. ImportPrepared(b, request[b])'
    BY DEF Prepared, ImportPrepared, Due, Holds
  <1> QED BY <1>1, <1>2, <1>3, <1>4, <1>5 DEF Prepared

\* A step of a that changes no row and no lock, and leaves a with a request
\* that is prepared and stands.
LEMMA OwnStep ==
  ASSUME RegistryInv, NEW a \in Admin, NEW r \in AdminRequest,
         request' = [request EXCEPT ![a] = r], UNCHANGED <<parameters, rules, locked>>, steps' \in Nat,
         Prepared(a, r), Stands(a, r), \A b \in Admin : a # b => Apart(r, request[b])
  PROVE  RegistryInv'
PROOF
  <1>1. /\ request' \in [Admin -> AdminRequest] /\ request'[a] = r
        /\ \A b \in Admin : b # a => request'[b] = request[b]
    BY DEF RegistryInv, RegistryTypeOK
  <1>2. RegistryTypeOK' /\ ActiveRulesHold'
    BY <1>1 DEF RegistryInv, RegistryTypeOK, ActiveRulesHold, Canonical
  <1>3. WritersDiffer'
    BY <1>1 DEF RegistryInv, WritersDiffer, Apart
  <1>4. ASSUME NEW b \in Admin, NEW q, Prepared(b, q), Stands(b, q)
        PROVE  Prepared(b, q)' /\ Stands(b, q)'
    <2>1. \A row : Holds(b, row)' = Holds(b, row) /\ Due(b, q, row)' = Due(b, q, row)
      BY DEF Holds, Due
    <2>2. Prepared(b, q)'
      BY <1>4, <2>1 DEF Prepared, NewRulePrepared, PatchPrepared, UpdatePrepared, ImportPrepared
    <2>3. \A spec : Canonical(spec)' = Canonical(spec)
      BY DEF Canonical
    <2>4. \A p : Referenced(p)' = Referenced(p)
      BY DEF Referenced
    <2>5. Stands(b, q)'
      BY <1>4, <2>1, <2>3, <2>4 DEF Stands, RuleStands, ParameterStands
    <2> QED BY <2>2, <2>5
  <1>5. ASSUME NEW b \in Admin PROVE (Prepared(b, request[b]) /\ Stands(b, request[b]))'
    <2>1. PICK q : q = request'[b] /\ Prepared(b, q) /\ Stands(b, q)
      BY <1>1 DEF RegistryInv
    <2>2. Prepared(b, q)' /\ Stands(b, q)'
      BY <2>1, <1>4
    <2> QED BY <2>1, <2>2, NextRequest
  <1> QED BY <1>2, <1>3, <1>5 DEF RegistryInv

\* A request that has written nothing stands, and shares no row.
LEMMA NothingStands ==
  ASSUME NEW a, NEW r, r.writes = <<>>
  PROVE  Stands(a, r) /\ \A q : Apart(r, q)
BY NothingWritten DEF Stands, Apart

LEMMA RestingType == Resting \in AdminRequest /\ Resting.op = "idle" /\ Resting.writes = <<>>
                     /\ Resting.plan = <<>> /\ Resting.file = <<>>
BY NothingWritten DEF Resting, AdminRequest

\* A request begins with nothing written.
LEMMA BeginsFresh ==
  ASSUME RegistryInv, NEW a \in Admin, NEW r \in AdminRequest, Begins(a, r), r.writes = <<>>,
         Prepared(a, r)
  PROVE  RegistryInv'
PROOF
  <1>1. Stands(a, r) /\ \A b \in Admin : Apart(r, request[b])
    BY NothingStands
  <1>2. steps' \in Nat
    BY DEF Begins, RegistryInv, RegistryTypeOK
  <1> QED BY <1>1, <1>2, OwnStep DEF Begins

LEMMA AskNewRuleStep ==
  ASSUME RegistryInv, NEW a \in Admin, AskNewRule(a)
  PROVE  RegistryInv'
PROOF
  <1>1. PICK rule \in Rule \ DOMAIN rules, spec \in Specs, on \in BOOLEAN :
            Begins(a, [Resting EXCEPT !.op = "create rule", !.stage = "write", !.row = rule,
                                      !.spec = spec, !.active = on, !.plan = InOrder(spec)])
    BY DEF AskNewRule
  <1>2. PICK r : r = [Resting EXCEPT !.op = "create rule", !.stage = "write", !.row = rule,
                                     !.spec = spec, !.active = on, !.plan = InOrder(spec)]
    OBVIOUS
  <1>3. /\ r \in AdminRequest /\ r.writes = <<>> /\ r.op = "create rule" /\ r.stage = "write"
        /\ r.row = rule /\ r.spec = spec /\ r.active = on /\ r.plan = InOrder(spec)
    BY <1>2, RestingType, InOrderPlans DEF AdminRequest, Row, Resting
  <1>4. \A p \in Codes(r.spec) : Due(a, r, p)
    <2>1. PICK plan : /\ plan = InOrder(spec)
                      /\ \A p \in Codes(spec) : \E i \in DOMAIN plan : plan[i] = p
      BY InOrderPlans
    <2>2. r.plan = plan /\ r.spec = spec
      BY <1>3, <2>1
    <2> QED BY <2>1, <2>2 DEF Due
  <1>5. Prepared(a, r)
    BY <1>3, <1>4 DEF Prepared, NewRulePrepared, PatchPrepared, UpdatePrepared, ImportPrepared
  <1> QED BY <1>1, <1>2, <1>3, <1>5, BeginsFresh

LEMMA AskRuleStep ==
  ASSUME RegistryInv, NEW a \in Admin, AskRule(a)
  PROVE  RegistryInv'
PROOF
  <1>1. PICK rule \in DOMAIN rules, spec \in Specs \cup {Keep}, on \in BOOLEAN \cup {Keep},
             seen \in 1 .. MaxVersion :
            Begins(a, [Resting EXCEPT !.op = "patch rule", !.stage = "read", !.row = rule,
                           !.spec = spec, !.active = on, !.version = seen, !.plan = <<rule>>])
    BY DEF AskRule
  <1>2. PICK r : r = [Resting EXCEPT !.op = "patch rule", !.stage = "read", !.row = rule,
                          !.spec = spec, !.active = on, !.version = seen, !.plan = <<rule>>]
    OBVIOUS
  <1>3. rule \in Rule /\ rule \in Row /\ seen \in Nat
    BY Stored, RegistryConstants DEF RegistryInv, Row
  <1>4. /\ r \in AdminRequest /\ r.writes = <<>> /\ r.op = "patch rule" /\ r.stage = "read"
        /\ r.row = rule /\ r.plan = <<rule>>
    <2>1. <<rule>> \in Seq(Row)
      BY <1>3
    <2> QED BY <1>2, <1>3, <2>1, RestingType DEF AdminRequest, Resting
  <1>5. Prepared(a, r)
    <2>1. 1 \in DOMAIN <<rule>> /\ <<rule>>[1] = rule
      OBVIOUS
    <2>2. r.row = rule /\ r.plan = <<rule>>
      BY <1>4
    <2>3. Due(a, r, r.row)
      BY <2>1, <2>2 DEF Due
    <2> QED BY <1>4, <2>3 DEF Prepared, NewRulePrepared, PatchPrepared, UpdatePrepared,
                            ImportPrepared
  <1> QED BY <1>1, <1>2, <1>4, <1>5, BeginsFresh

LEMMA AskParameterStep ==
  ASSUME RegistryInv, NEW a \in Admin, AskParameter(a)
  PROVE  RegistryInv'
PROOF
  <1>1. PICK p \in DOMAIN parameters, on \in BOOLEAN \cup {Keep}, change \in Changes :
            Begins(a, [Resting EXCEPT !.op = "parameter", !.stage = "write", !.row = p,
                                      !.active = on, !.bounds = change, !.plan = <<p>>])
    BY DEF AskParameter
  <1>2. PICK r : r = [Resting EXCEPT !.op = "parameter", !.stage = "write", !.row = p,
                                     !.active = on, !.bounds = change, !.plan = <<p>>]
    OBVIOUS
  <1>3. p \in Row
    BY Stored DEF RegistryInv, Row
  <1>4. /\ r \in AdminRequest /\ r.writes = <<>> /\ r.op = "parameter" /\ r.stage = "write"
        /\ r.row = p /\ r.plan = <<p>> /\ r.bounds = change
    <2>1. <<p>> \in Seq(Row)
      BY <1>3
    <2> QED BY <1>2, <1>3, <2>1, RestingType DEF AdminRequest, Resting
  <1>5. Prepared(a, r)
    <2>1. 1 \in DOMAIN r.plan /\ r.plan[1] = r.row
      BY <1>4
    <2>2. Due(a, r, r.row)
      BY <2>1 DEF Due
    <2> QED BY <1>4, <2>2 DEF Prepared, NewRulePrepared, PatchPrepared, UpdatePrepared,
                            ImportPrepared
  <1> QED BY <1>1, <1>2, <1>4, <1>5, BeginsFresh

LEMMA AskImportStep ==
  ASSUME RegistryInv, NEW a \in Admin, AskImport(a)
  PROVE  RegistryInv'
PROOF
  <1>1. PICK p \in Code, q \in Code, b \in Bounds, c \in Bounds :
            Begins(a, [Resting EXCEPT !.op = "import", !.stage = "read", !.file =
                <<[code |-> p, next |-> b, new |-> p \notin DOMAIN parameters],
                  [code |-> q, next |-> c, new |-> q \notin DOMAIN parameters]>>])
    BY DEF AskImport
  <1>2. PICK first, second :
            /\ first = [code |-> p, next |-> b, new |-> p \notin DOMAIN parameters]
            /\ second = [code |-> q, next |-> c, new |-> q \notin DOMAIN parameters]
    OBVIOUS
  <1>3. /\ first \in FileRow /\ (~first.new => first.code \in DOMAIN parameters)
        /\ second \in FileRow /\ (~second.new => second.code \in DOMAIN parameters)
    BY <1>2 DEF FileRow
  <1>4. PICK r : r = [Resting EXCEPT !.op = "import", !.stage = "read", !.file = <<first, second>>]
    OBVIOUS
  <1>5. /\ r \in AdminRequest /\ r.writes = <<>> /\ r.op = "import" /\ r.stage = "read"
        /\ r.file = <<first, second>>
    <2>1. <<first, second>> \in Seq(FileRow)
      BY <1>3
    <2> QED BY <1>4, <2>1, RestingType DEF AdminRequest, Resting
  <1>6. Prepared(a, r)
    BY <1>3, <1>5, NothingWritten DEF Prepared, NewRulePrepared, PatchPrepared, UpdatePrepared,
                                      ImportPrepared
  <1>7. Begins(a, r)
    BY <1>1, <1>2, <1>4
  <1> QED BY <1>5, <1>6, <1>7, BeginsFresh

-----------------------------------------------------------------------------
(* Requests that write *)

LEMMA PlanDone ==
  ASSUME NEW a, NEW q, q.plan = <<>>, NEW x, Due(a, q, x)
  PROVE  Holds(a, x)
BY NothingWritten DEF Due

LEMMA DonePrepared ==
  ASSUME NEW a, NEW r, r.stage = "end"
  PROVE  Prepared(a, r)
BY DEF Prepared, NewRulePrepared, PatchPrepared, UpdatePrepared, ImportPrepared

\* Nobody else has written a row of the tables that a holds.
LEMMA HeldAlone ==
  ASSUME RegistryInv, NEW a \in Admin, NEW x \in DOMAIN parameters \cup DOMAIN rules, Holds(a, x)
  PROVE  \A b \in Admin : a # b => x \notin DOMAIN request[b].writes
BY Stored DEF RegistryInv, Stands, RuleStands, ParameterStands, Holds

LEMMA NobodyInserts ==
  ASSUME NEW x, ~Inserting(x)
  PROVE  \A b \in Admin : x \notin DOMAIN request[b].writes
BY DEF Inserting

\* A write that stands, of a row nobody else writes.
LEMMA WriteStands ==
  ASSUME RegistryInv, NEW a \in Admin, NEW q, NEW r, NEW x, NEW v,
         r.writes = Put(q.writes, x, v), Stands(a, q),
         \A b \in Admin : a # b => x \notin DOMAIN request[b].writes /\ Apart(q, request[b]),
         x \in Rule => RuleStands(a, x, v), x \in Code => ParameterStands(a, x, v)
  PROVE  Stands(a, r) /\ \A b \in Admin : a # b => Apart(r, request[b])
PROOF
  <1>1. /\ DOMAIN r.writes = DOMAIN q.writes \cup {x} /\ r.writes[x] = v
        /\ \A y \in DOMAIN q.writes : y # x => r.writes[y] = q.writes[y]
    <2>1. PICK f, g : f = q.writes /\ g = Put(f, x, v)
      OBVIOUS
    <2>2. /\ DOMAIN g = DOMAIN f \cup {x} /\ g[x] = v
          /\ \A y \in DOMAIN f : y # x => g[y] = f[y]
      BY <2>1 DEF Put
    <2> QED BY <2>1, <2>2
  <1>2. ASSUME NEW y \in DOMAIN r.writes
        PROVE  /\ y \in Rule => RuleStands(a, y, r.writes[y])
               /\ y \in Code => ParameterStands(a, y, r.writes[y])
    <2>1. CASE y = x
      BY <1>1, <2>1
    <2>2. CASE y # x
      BY <1>1, <2>2 DEF Stands
    <2> QED BY <2>1, <2>2
  <1>3. Stands(a, r)
    BY <1>2 DEF Stands
  <1>4. \A b \in Admin : a # b => Apart(r, request[b])
    BY <1>1 DEF Apart
  <1> QED BY <1>3, <1>4

LEMMA InsertRuleStep ==
  ASSUME RegistryInv, NEW a \in Admin, InsertRule(a)
  PROVE  RegistryInv'
PROOF
  <1>1. PICK q, v : /\ q = request[a] /\ q \in AdminRequest /\ Prepared(a, q) /\ Stands(a, q)
                    /\ v = [spec |-> q.spec, active |-> q.active, version |-> 1]
    BY DEF RegistryInv, RegistryTypeOK
  <1>2. PICK r : r = [q EXCEPT !.stage = "end", !.writes = Put(@, q.row, v)]
    OBVIOUS
  <1>3. /\ q.op = "create rule" /\ q.stage = "write" /\ q.plan = <<>> /\ Canonical(q.spec)
        /\ q.row \notin DOMAIN rules /\ ~Inserting(q.row)
        /\ request' = [request EXCEPT ![a] = r] /\ UNCHANGED <<parameters, rules, locked, steps>>
    BY <1>1, <1>2 DEF InsertRule, At, Becomes
  <1>4. /\ q.row \in Rule /\ q.writes = <<>> /\ q.spec \in Specs /\ q.active \in BOOLEAN
        /\ \A p \in Codes(q.spec) : Holds(a, p)
    BY <1>1, <1>3, PlanDone DEF Prepared, NewRulePrepared
  <1>5. v \in RuleRecord
    BY <1>1, <1>4 DEF RuleRecord
  <1>6. Put(q.writes, q.row, v) \in Rules
    BY <1>4, <1>5, PutWrites, NothingWritten
  <1>7. r \in AdminRequest /\ r.stage = "end" /\ r.writes = Put(q.writes, q.row, v)
    BY <1>1, <1>2, <1>6 DEF AdminRequest
  <1>8. RuleStands(a, q.row, v) /\ q.row \notin Code
    BY <1>1, <1>3, <1>4, RegistryConstants DEF RuleStands
  <1>9. Stands(a, r) /\ \A b \in Admin : a # b => Apart(r, request[b])
    <2>1. PICK x : x = q.row
      OBVIOUS
    <2>2. \A b \in Admin : a # b => x \notin DOMAIN request[b].writes /\ Apart(q, request[b])
      BY <1>1, <1>3, <2>1, NobodyInserts DEF RegistryInv, WritersDiffer
    <2>3. r.writes = Put(q.writes, x, v) /\ RuleStands(a, x, v) /\ x \notin Code
      BY <1>7, <1>8, <2>1
    <2> QED BY <1>1, <2>2, <2>3, WriteStands
  <1>10. steps' \in Nat
    BY <1>3 DEF RegistryInv, RegistryTypeOK
  <1> QED BY <1>3, <1>7, <1>9, <1>10, DonePrepared, OwnStep

LEMMA ReadRuleStep ==
  ASSUME RegistryInv, NEW a \in Admin, ReadRule(a)
  PROVE  RegistryInv'
PROOF
  <1>1. PICK q : q = request[a] /\ q \in AdminRequest /\ Prepared(a, q)
    BY DEF RegistryInv, RegistryTypeOK
  <1>2. PICK spec, on, checks : /\ spec = Given(q.spec, rules[q.row].spec)
                                /\ on = Given(q.active, rules[q.row].active)
                                /\ checks = (q.spec # Keep \/ on)
    OBVIOUS
  <1>3. PICK r : r = [q EXCEPT !.stage = IF checks THEN "check" ELSE "write", !.spec = spec,
                               !.active = on, !.plan = IF checks THEN InOrder(spec) ELSE <<>>]
    OBVIOUS
  <1>4. /\ q.op = "patch rule" /\ q.stage = "read" /\ q.plan = <<>>
        /\ rules[q.row].version = q.version
        /\ request' = [request EXCEPT ![a] = r] /\ UNCHANGED <<parameters, rules, locked, steps>>
    BY <1>1, <1>2, <1>3 DEF ReadRule, At, Becomes
  <1>5. q.row \in DOMAIN rules /\ Holds(a, q.row) /\ q.writes = <<>>
    BY <1>1, <1>4, PlanDone DEF Prepared, PatchPrepared
  <1>6. spec \in Specs /\ on \in BOOLEAN
    <2>1. rules[q.row] \in RuleRecord
      BY <1>5, Stored DEF RegistryInv
    <2> QED BY <1>1, <1>2, <2>1 DEF Given, RuleRecord, AdminRequest
  <1>7. /\ r \in AdminRequest /\ r.op = "patch rule" /\ r.row = q.row /\ r.writes = <<>>
        /\ r.version = q.version /\ r.spec = spec /\ r.active = on
        /\ IF checks THEN r.stage = "check" /\ r.plan = InOrder(spec)
                     ELSE r.stage = "write" /\ r.plan = <<>>
    <2>1. InOrder(spec) \in Seq(Row) /\ <<>> \in Seq(Row)
      BY <1>6, InOrderPlans
    <2>2. CASE checks
      BY <1>1, <1>3, <1>4, <1>5, <1>6, <2>1, <2>2 DEF AdminRequest
    <2>3. CASE ~checks
      BY <1>1, <1>3, <1>4, <1>5, <1>6, <2>1, <2>3 DEF AdminRequest
    <2> QED BY <2>2, <2>3
  <1>8. ASSUME checks PROVE \A p \in Codes(r.spec) : Due(a, r, p)
    <2>1. PICK plan : /\ plan = InOrder(spec)
                      /\ \A p \in Codes(spec) : \E i \in DOMAIN plan : plan[i] = p
      BY <1>6, InOrderPlans
    <2>2. r.plan = plan /\ r.spec = spec
      BY <1>7, <1>8, <2>1
    <2> QED BY <2>1, <2>2 DEF Due
  <1>9. ~checks => on = FALSE
    BY <1>2, <1>6
  <1>10. Prepared(a, r)
    <2>1. Due(a, r, r.row)
      BY <1>5, <1>7 DEF Due
    <2> QED BY <1>4, <1>5, <1>6, <1>7, <1>8, <1>9, <2>1
            DEF Prepared, NewRulePrepared, PatchPrepared, UpdatePrepared, ImportPrepared
  <1>11. steps' \in Nat
    BY <1>4 DEF RegistryInv, RegistryTypeOK
  <1> QED BY <1>4, <1>7, <1>10, <1>11, NothingStands, OwnStep

LEMMA PatchRuleStep ==
  ASSUME RegistryInv, NEW a \in Admin, PatchRule(a)
  PROVE  RegistryInv'
PROOF
  <1>1. PICK q, v : /\ q = request[a] /\ q \in AdminRequest /\ Prepared(a, q) /\ Stands(a, q)
                    /\ v = [spec |-> q.spec, active |-> q.active, version |-> q.version + 1]
    BY DEF RegistryInv, RegistryTypeOK
  <1>2. PICK w : w = IF [v EXCEPT !.version = q.version] = rules[q.row] THEN q.writes
                     ELSE Put(q.writes, q.row, v)
    OBVIOUS
  <1>3. PICK r : r = [q EXCEPT !.stage = "end", !.writes = w]
    OBVIOUS
  <1>4. /\ q.op = "patch rule" /\ q.stage \in {"check", "write"} /\ q.plan = <<>>
        /\ q.stage = "check" => Canonical(q.spec)
        /\ request' = [request EXCEPT ![a] = r] /\ UNCHANGED <<parameters, rules, locked, steps>>
    BY <1>1, <1>2, <1>3 DEF PatchRule, At, Becomes
  <1>5. /\ q.row \in DOMAIN rules /\ Holds(a, q.row) /\ q.version = rules[q.row].version
        /\ q.writes = <<>> /\ q.spec \in Specs /\ q.active \in BOOLEAN
        /\ q.stage = "write" => q.active = FALSE
        /\ q.stage = "check" => \A p \in Codes(q.spec) : Holds(a, p)
    BY <1>1, <1>4, PlanDone DEF Prepared, PatchPrepared
  <1>6. q.row \in Rule /\ q.row \notin Code /\ v \in RuleRecord
    <2>1. q.row \in Rule /\ q.row \notin Code
      BY <1>5, Stored, RegistryConstants DEF RegistryInv
    <2>2. q.version \in Nat
      BY <1>1 DEF AdminRequest
    <2>3. q.version + 1 \in Nat
      BY <2>2
    <2> QED BY <1>1, <1>5, <2>1, <2>3 DEF RuleRecord
  <1>7. w \in Rules
    BY <1>2, <1>5, <1>6, PutWrites, NothingWritten
  <1>8. r \in AdminRequest /\ r.stage = "end" /\ r.writes = w
    BY <1>1, <1>3, <1>7 DEF AdminRequest
  <1>9. RuleStands(a, q.row, v)
    BY <1>1, <1>4, <1>5 DEF RuleStands
  <1>10. Stands(a, r) /\ \A b \in Admin : a # b => Apart(r, request[b])
    <2>1. CASE w = q.writes
      BY <1>5, <1>8, <2>1, NothingStands
    <2>2. CASE w = Put(q.writes, q.row, v)
      <3>1. PICK x : x = q.row
        OBVIOUS
      <3>2. \A b \in Admin : a # b => x \notin DOMAIN request[b].writes /\ Apart(q, request[b])
        BY <1>1, <1>5, <3>1, HeldAlone DEF RegistryInv, WritersDiffer
      <3>3. r.writes = Put(q.writes, x, v) /\ RuleStands(a, x, v) /\ x \notin Code
        BY <1>6, <1>8, <1>9, <2>2, <3>1
      <3>4. Stands(a, q) /\ (x \in Rule => RuleStands(a, x, v))
            /\ (x \in Code => ParameterStands(a, x, v))
        BY <1>1, <3>3
      <3> QED BY ONLY RegistryInv, a \in Admin, <3>2, <3>3, <3>4, WriteStands
    <2> QED BY <1>2, <2>1, <2>2
  <1>11. steps' \in Nat
    BY <1>4 DEF RegistryInv, RegistryTypeOK
  <1> QED BY <1>4, <1>8, <1>10, <1>11, DonePrepared, OwnStep

LEMMA CreateParameterStep ==
  ASSUME RegistryInv, NEW a \in Admin, CreateParameter(a)
  PROVE  RegistryInv'
PROOF
  <1>1. PICK p \in Code \ DOMAIN parameters, b \in Bounds :
            /\ ~Inserting(p)
            /\ Begins(a, [Resting EXCEPT !.op = "create", !.writes =
                   Put(@, p, [active |-> TRUE, min |-> b.min, max |-> b.max])])
    BY DEF CreateParameter
  <1>2. PICK q, v, r :
            /\ q = Resting /\ v = [active |-> TRUE, min |-> b.min, max |-> b.max]
            /\ r = [Resting EXCEPT !.op = "create", !.writes =
                       Put(@, p, [active |-> TRUE, min |-> b.min, max |-> b.max])]
    OBVIOUS
  <1>3. r = [Resting EXCEPT !.op = "create", !.writes = Put(q.writes, p, v)]
    BY <1>2
  <1>4. v \in Parameter /\ v.active
    BY <1>2 DEF Parameter, Bounds, Limits
  <1>5. Put(q.writes, p, v) \in Parameters
    BY <1>2, <1>4, RestingType, PutWrites, NothingWritten
  <1>6. r \in AdminRequest /\ r.stage = "end" /\ r.writes = Put(q.writes, p, v)
    BY <1>3, <1>5, RestingType DEF AdminRequest, Resting
  <1>7. p \notin Rule /\ ParameterStands(a, p, v)
    BY <1>1, <1>4, RegistryConstants DEF ParameterStands
  <1>8. Stands(a, r) /\ \A c \in Admin : a # c => Apart(r, request[c])
    <2>1. Stands(a, q) /\ \A c \in Admin : Apart(q, request[c])
      BY <1>2, RestingType, NothingStands
    <2>2. \A c \in Admin : a # c => p \notin DOMAIN request[c].writes /\ Apart(q, request[c])
      BY <1>1, <2>1, NobodyInserts
    <2>3. /\ p \in Rule => RuleStands(a, p, v)
          /\ p \in Code => ParameterStands(a, p, v)
      BY <1>7
    <2> QED BY ONLY RegistryInv, a \in Admin, <1>6, <2>1, <2>2, <2>3, WriteStands
  <1>9. /\ request' = [request EXCEPT ![a] = r] /\ UNCHANGED <<parameters, rules, locked>>
        /\ steps' \in Nat
    BY <1>1, <1>2 DEF Begins, RegistryInv, RegistryTypeOK
  <1> QED BY <1>6, <1>8, <1>9, DonePrepared, OwnStep

\* What a change leaves of a parameter.
LEMMA ChangedType ==
  ASSUME RegistryInv, NEW p \in DOMAIN parameters, NEW on \in BOOLEAN \cup {Keep},
         NEW change \in Changes
  PROVE  /\ Changed(p, on, change) \in Parameter
         /\ Changed(p, Keep, change).active = parameters[p].active
PROOF
  <1>1. parameters[p] \in Parameter
    BY Stored DEF RegistryInv
  <1> QED BY <1>1 DEF Changed, Given, Parameter, Changes, Limits

LEMMA UpdateParameterStep ==
  ASSUME RegistryInv, NEW a \in Admin, UpdateParameter(a)
  PROVE  RegistryInv'
PROOF
  <1>1. PICK q, p, v : /\ q = request[a] /\ q \in AdminRequest /\ Prepared(a, q) /\ Stands(a, q)
                       /\ p = q.row /\ v = Changed(p, q.active, q.bounds)
    BY DEF RegistryInv, RegistryTypeOK
  <1>2. PICK r : r = [q EXCEPT !.stage = "end", !.writes = Put(@, p, v)]
    OBVIOUS
  <1>3. /\ q.op = "parameter" /\ q.stage = "write" /\ q.plan = <<>>
        /\ parameters[p].active /\ ~v.active => ~Referenced(p)
        /\ request' = [request EXCEPT ![a] = r] /\ UNCHANGED <<parameters, rules, locked, steps>>
    BY <1>1, <1>2 DEF UpdateParameter, At, Becomes
  <1>4. p \in DOMAIN parameters /\ Holds(a, p) /\ q.bounds \in Changes /\ q.writes = <<>>
    BY <1>1, <1>3, PlanDone DEF Prepared, UpdatePrepared
  <1>5. p \in Code /\ p \notin Rule
    BY <1>4, Stored, RegistryConstants DEF RegistryInv
  <1>6. v \in Parameter
    <2>1. q.active \in BOOLEAN \cup {Keep}
      BY <1>1 DEF AdminRequest
    <2> QED BY <1>1, <1>4, <2>1, ChangedType
  <1>7. Put(q.writes, p, v) \in Parameters
    BY <1>4, <1>5, <1>6, PutWrites, NothingWritten
  <1>8. r \in AdminRequest /\ r.stage = "end" /\ r.writes = Put(q.writes, p, v)
    BY <1>1, <1>2, <1>7 DEF AdminRequest
  <1>9. ParameterStands(a, p, v)
    BY <1>3, <1>4 DEF ParameterStands
  <1>10. Stands(a, r) /\ \A b \in Admin : a # b => Apart(r, request[b])
    <2>1. \A b \in Admin : a # b => p \notin DOMAIN request[b].writes /\ Apart(q, request[b])
      BY <1>1, <1>4, HeldAlone DEF RegistryInv, WritersDiffer
    <2>2. /\ p \in Rule => RuleStands(a, p, v)
          /\ p \in Code => ParameterStands(a, p, v)
      BY <1>5, <1>9
    <2>3. Stands(a, q)
      BY <1>1
    <2> QED BY ONLY RegistryInv, a \in Admin, <1>8, <2>1, <2>2, <2>3, WriteStands
  <1>11. steps' \in Nat
    BY <1>3 DEF RegistryInv, RegistryTypeOK
  <1> QED BY <1>3, <1>8, <1>10, <1>11, DonePrepared, OwnStep

\* The file of an import without its first row.
LEMMA FileRest ==
  ASSUME NEW file \in Seq(FileRow), file # <<>>
  PROVE  /\ Head(file) \in FileRow /\ Head(file) = file[1] /\ 1 \in DOMAIN file
         /\ Tail(file) \in Seq(FileRow) /\ (Len(file) # 1 => Tail(file) # <<>>)
         /\ \A i \in DOMAIN Tail(file) : i + 1 \in DOMAIN file /\ Tail(file)[i] = file[i + 1]
PROOF
  <1>1. PICK rest : rest = Tail(file)
    OBVIOUS
  <1>2. /\ Head(file) \in FileRow /\ rest \in Seq(FileRow) /\ Len(rest) = Len(file) - 1
        /\ \A i \in 1 .. Len(rest) : rest[i] = file[i + 1]
    BY <1>1, HeadTailProperties
  <1>3. Len(file) \in Nat \ {0} /\ DOMAIN file = 1 .. Len(file) /\ Head(file) = file[1]
    OBVIOUS
  <1>4. DOMAIN rest = 1 .. Len(rest) /\ Len(rest) \in Nat /\ (Len(rest) # 0 => rest # <<>>)
    BY <1>2
  <1> QED BY <1>1, <1>2, <1>3, <1>4

LEMMA ImportReadStep ==
  ASSUME RegistryInv, NEW a \in Admin, ImportRead(a)
  PROVE  RegistryInv'
PROOF
  <1>1. PICK q, row : /\ q = request[a] /\ q \in AdminRequest /\ Prepared(a, q) /\ Stands(a, q)
                      /\ row = Head(q.file)
    BY DEF RegistryInv, RegistryTypeOK
  <1>2. PICK b : b = [min |-> IF parameters[row.code].min = row.next.min THEN Keep ELSE row.next.min,
                      max |-> IF parameters[row.code].max = row.next.max THEN Keep ELSE row.next.max]
    OBVIOUS
  <1>3. PICK r : r = [q EXCEPT !.stage = "write", !.plan = <<row.code>>, !.bounds = b]
    OBVIOUS
  <1>4. /\ q.op = "import" /\ q.stage = "read" /\ q.file # <<>> /\ ~row.new
        /\ request' = [request EXCEPT ![a] = r] /\ UNCHANGED <<parameters, rules, locked, steps>>
    BY <1>1, <1>2, <1>3 DEF ImportRead, At, Becomes
  <1>5. row \in FileRow /\ row.code \in Row /\ b \in Changes
    <2>1. q.file \in Seq(FileRow)
      BY <1>1 DEF AdminRequest
    <2>2. row \in FileRow
      BY <1>1, <1>4, <2>1, FileRest
    <2> QED BY <1>2, <2>2 DEF FileRow, Row, Bounds, Changes
  <1>6. /\ r \in AdminRequest /\ r.op = "import" /\ r.stage = "write" /\ r.plan = <<row.code>>
        /\ r.bounds = b /\ r.file = q.file /\ r.writes = q.writes
    <2>1. <<row.code>> \in Seq(Row)
      BY <1>5
    <2> QED BY <1>1, <1>3, <1>4, <1>5, <2>1 DEF AdminRequest
  <1>7. Prepared(a, r)
    <2>1. 1 \in DOMAIN <<row.code>> /\ <<row.code>>[1] = row.code
      OBVIOUS
    <2>2. Due(a, r, row.code)
      BY <1>6, <2>1 DEF Due
    <2>3. ImportPrepared(a, r)
      BY <1>1, <1>4, <1>5, <1>6, <2>2 DEF Prepared, ImportPrepared
    <2> QED BY <1>6, <2>3 DEF Prepared, NewRulePrepared, PatchPrepared, UpdatePrepared
  <1>8. Stands(a, r) /\ \A c \in Admin : a # c => Apart(r, request[c])
    BY <1>1, <1>6 DEF Stands, Apart, RegistryInv, WritersDiffer
  <1>9. steps' \in Nat
    BY <1>4 DEF RegistryInv, RegistryTypeOK
  <1> QED BY <1>4, <1>6, <1>7, <1>8, <1>9, OwnStep

\* A row of an import is written, and the next one is read.
LEMMA ImportWrites ==
  ASSUME RegistryInv, NEW a \in Admin, NEW q, q = request[a], q.op = "import", q.stage # "end",
         NEW p, p = Head(q.file).code, NEW v \in Parameter, ParameterStands(a, p, v),
         \A b \in Admin : a # b => p \notin DOMAIN request[b].writes,
         NEW r, r = [q EXCEPT !.file = Tail(@), !.stage = IF Len(q.file) = 1 THEN "end" ELSE "read",
                              !.writes = Put(@, p, v)],
         request' = [request EXCEPT ![a] = r], UNCHANGED <<parameters, rules, locked, steps>>
  PROVE  RegistryInv'
PROOF
  <1>1. q \in AdminRequest /\ Stands(a, q) /\ ImportPrepared(a, q)
    BY DEF RegistryInv, RegistryTypeOK, Prepared
  <1>2. PICK file, rest : /\ file = q.file /\ rest = Tail(file) /\ file \in Seq(FileRow)
                          /\ file # <<>>
    BY <1>1 DEF ImportPrepared, AdminRequest
  <1>3. /\ Head(file) \in FileRow /\ Len(file) \in Nat /\ rest \in Seq(FileRow)
        /\ Len(file) # 1 => rest # <<>>
        /\ \A i \in DOMAIN rest : i + 1 \in DOMAIN file /\ rest[i] = file[i + 1]
    BY <1>2, FileRest
  <1>4. p \in Code /\ p \notin Rule
    BY <1>2, <1>3, RegistryConstants DEF FileRow
  <1>5. q.writes \in Parameters /\ Put(q.writes, p, v) \in Parameters
    BY <1>1, <1>4, PutWrites DEF ImportPrepared
  <1>6. /\ r \in AdminRequest /\ r.op = "import" /\ r.file = rest /\ r.writes = Put(q.writes, p, v)
        /\ r.stage = IF Len(file) = 1 THEN "end" ELSE "read"
    <2>1. PICK stage, w : /\ stage = (IF Len(file) = 1 THEN "end" ELSE "read")
                               /\ w = Put(q.writes, p, v)
      OBVIOUS
    <2>2. r = [q EXCEPT !.file = rest, !.stage = stage, !.writes = w]
      BY <1>2, <2>1
    <2>3. stage \in {"end", "read"}
      BY <2>1
    <2> QED BY <1>1, <1>2, <1>3, <1>5, <2>1, <2>2, <2>3 DEF AdminRequest
  <1>7. Stands(a, r) /\ \A b \in Admin : a # b => Apart(r, request[b])
    <2>1. \A b \in Admin : a # b => p \notin DOMAIN request[b].writes /\ Apart(q, request[b])
      BY DEF RegistryInv, WritersDiffer
    <2>2. /\ p \in Rule => RuleStands(a, p, v)
          /\ p \in Code => ParameterStands(a, p, v)
      BY <1>4
    <2> QED BY ONLY RegistryInv, a \in Admin, <1>1, <1>6, <2>1, <2>2, WriteStands
  <1>8. Prepared(a, r)
    <2>1. CASE Len(file) = 1
      BY <1>6, <2>1, DonePrepared
    <2>2. CASE Len(file) # 1
      <3>1. \A i \in DOMAIN r.file : ~r.file[i].new => r.file[i].code \in DOMAIN parameters
        BY <1>1, <1>2, <1>3, <1>6 DEF ImportPrepared
      <3>2. r.file # <<>> /\ r.writes \in Parameters /\ r.stage = "read"
        BY <1>3, <1>5, <1>6, <2>2
      <3> QED BY <1>6, <3>1, <3>2 DEF Prepared, NewRulePrepared, PatchPrepared, UpdatePrepared,
                                      ImportPrepared
    <2> QED BY <2>1, <2>2
  <1>9. steps' \in Nat
    BY DEF RegistryInv, RegistryTypeOK
  <1> QED BY <1>6, <1>7, <1>8, <1>9, OwnStep

LEMMA ImportNewStep ==
  ASSUME RegistryInv, NEW a \in Admin, ImportNew(a)
  PROVE  RegistryInv'
PROOF
  <1>1. PICK q, p, v :
            /\ q = request[a] /\ q \in AdminRequest /\ p = Head(q.file).code
            /\ v = [active |-> TRUE, min |-> Head(q.file).next.min, max |-> Head(q.file).next.max]
    BY DEF RegistryInv, RegistryTypeOK
  <1>2. PICK r : r = [q EXCEPT !.file = Tail(@), !.writes = Put(@, p, v),
                               !.stage = IF Len(q.file) = 1 THEN "end" ELSE "read"]
    OBVIOUS
  <1>3. /\ q.op = "import" /\ q.stage = "read" /\ q.file # <<>> /\ p \notin DOMAIN parameters
        /\ ~Inserting(p) /\ request' = [request EXCEPT ![a] = r]
        /\ UNCHANGED <<parameters, rules, locked, steps>>
    BY <1>1, <1>2 DEF ImportNew, At, Becomes
  <1>4. v \in Parameter /\ v.active
    <2>1. q.file \in Seq(FileRow)
      BY <1>1 DEF AdminRequest
    <2>2. Head(q.file) \in FileRow
      BY <1>3, <2>1, FileRest
    <2> QED BY <1>1, <2>2 DEF FileRow, Bounds, Parameter, Limits
  <1>5. ParameterStands(a, p, v)
    BY <1>3, <1>4 DEF ParameterStands
  <1>6. \A b \in Admin : a # b => p \notin DOMAIN request[b].writes
    BY <1>3, NobodyInserts
  <1>7. r = [q EXCEPT !.file = Tail(@), !.stage = IF Len(q.file) = 1 THEN "end" ELSE "read",
                      !.writes = Put(@, p, v)]
    BY <1>1, <1>2 DEF AdminRequest
  <1> QED BY <1>1, <1>3, <1>4, <1>5, <1>6, <1>7, ImportWrites

LEMMA ImportUpdateStep ==
  ASSUME RegistryInv, NEW a \in Admin, ImportUpdate(a)
  PROVE  RegistryInv'
PROOF
  <1>1. PICK q, p, v : /\ q = request[a] /\ q \in AdminRequest /\ Prepared(a, q)
                       /\ p = Head(q.file).code /\ v = Changed(p, Keep, q.bounds)
    BY DEF RegistryInv, RegistryTypeOK
  <1>2. PICK r : r = [q EXCEPT !.file = Tail(@), !.stage = IF Len(q.file) = 1 THEN "end" ELSE "read",
                               !.writes = Put(@, p, v)]
    OBVIOUS
  <1>3. /\ q.op = "import" /\ q.stage = "write" /\ q.plan = <<>>
        /\ request' = [request EXCEPT ![a] = r] /\ UNCHANGED <<parameters, rules, locked, steps>>
    BY <1>1, <1>2 DEF ImportUpdate, At, Becomes
  <1>4. /\ q.file # <<>> /\ ~Head(q.file).new /\ Due(a, q, p) /\ q.bounds \in Changes
        /\ \A i \in DOMAIN q.file : ~q.file[i].new => q.file[i].code \in DOMAIN parameters
    BY <1>1, <1>3 DEF Prepared, ImportPrepared
  <1>5. p \in DOMAIN parameters
    <2>1. q.file \in Seq(FileRow)
      BY <1>1 DEF AdminRequest
    <2>2. Head(q.file) = q.file[1] /\ 1 \in DOMAIN q.file
      BY <1>4, <2>1, FileRest
    <2> QED BY <1>1, <1>4, <2>2
  <1>6. Holds(a, p)
    BY <1>3, <1>4, PlanDone
  <1>7. v \in Parameter /\ v.active = parameters[p].active
    BY <1>1, <1>4, <1>5, ChangedType
  <1>8. ParameterStands(a, p, v)
    BY <1>5, <1>6, <1>7 DEF ParameterStands
  <1>9. \A b \in Admin : a # b => p \notin DOMAIN request[b].writes
    BY <1>5, <1>6, HeldAlone
  <1> QED BY <1>1, <1>2, <1>3, <1>7, <1>8, <1>9, ImportWrites

-----------------------------------------------------------------------------
(* Locks, and the end of a request *)

\* What keeps the locks of a request, the rows it holds and the tables its rows
\* are not in, leaves it prepared and standing.
LEMMA Kept ==
  ASSUME NEW a, NEW q, NEW r, Prepared(a, q), Stands(a, q), q \in AdminRequest,
         r.op = q.op, r.stage = q.stage, r.row = q.row, r.spec = q.spec, r.active = q.active,
         r.version = q.version, r.bounds = q.bounds, r.file = q.file, r.writes = q.writes,
         \A row : Holds(a, row) => Holds(a, row)',
         \A row : Due(a, q, row) => Due(a, r, row)',
         DOMAIN parameters \subseteq DOMAIN parameters', DOMAIN rules \subseteq DOMAIN rules',
         \A x \in DOMAIN q.writes : /\ x \in DOMAIN parameters' => x \in DOMAIN parameters
                                    /\ x \in DOMAIN rules' => x \in DOMAIN rules,
         \A p \in DOMAIN parameters : Holds(a, p) => parameters'[p] = parameters[p],
         \A x \in DOMAIN rules : Holds(a, x) => rules'[x] = rules[x],
         \A p \in DOMAIN parameters : Holds(a, p) /\ Referenced(p)' => Referenced(p)
  PROVE  Prepared(a, r)' /\ Stands(a, r)'
PROOF
  <1>1. NewRulePrepared(a, r)'
    BY DEF Prepared, NewRulePrepared
  <1>2. PatchPrepared(a, r)'
    BY DEF Prepared, PatchPrepared
  <1>3. UpdatePrepared(a, r)'
    BY DEF Prepared, UpdatePrepared
  <1>4. ImportPrepared(a, r)'
    BY DEF Prepared, ImportPrepared
  <1>5. ASSUME NEW x \in DOMAIN q.writes, x \in Rule, RuleStands(a, x, q.writes[x])
        PROVE  RuleStands(a, x, q.writes[x])'
    <2>1. PICK w : w = q.writes[x]
      OBVIOUS
    <2>2. ASSUME w.active PROVE Canonical(w.spec)' /\ \A p \in Codes(w.spec) : Holds(a, p)'
      <3>1. Canonical(w.spec) /\ \A p \in Codes(w.spec) : Holds(a, p)
        BY <1>5, <2>1, <2>2 DEF RuleStands
      <3> QED BY <3>1 DEF Canonical
    <2>3. x \in DOMAIN rules' => Holds(a, x)' /\ w.version = rules'[x].version + 1
      BY <1>5, <2>1 DEF RuleStands
    <2> QED BY <2>1, <2>2, <2>3 DEF RuleStands
  <1>6. ASSUME NEW x \in DOMAIN q.writes, x \in Code, ParameterStands(a, x, q.writes[x])
        PROVE  ParameterStands(a, x, q.writes[x])'
    BY <1>6 DEF ParameterStands
  <1>7. Stands(a, r)'
    BY <1>5, <1>6 DEF Stands
  <1> QED BY <1>1, <1>2, <1>3, <1>4, <1>7 DEF Prepared

LEMMA LockStep ==
  ASSUME RegistryInv, NEW a \in Admin, Lock(a)
  PROVE  RegistryInv'
PROOF
  <1>1. PICK q, plan, row, rest :
            /\ q = request[a] /\ q \in AdminRequest /\ plan = q.plan /\ plan \in Seq(Row)
            /\ row = Head(plan) /\ rest = Tail(plan)
    BY DEF RegistryInv, RegistryTypeOK, AdminRequest
  <1>2. PICK r : r = [q EXCEPT !.plan = rest]
    OBVIOUS
  <1>3. /\ plan # <<>> /\ locked[row] \in {Nothing, a} /\ locked' = [locked EXCEPT ![row] = a]
        /\ request' = [request EXCEPT ![a] = r] /\ UNCHANGED <<parameters, rules, steps>>
    <2>1. [q EXCEPT !.plan = Tail(@)] = r
      BY <1>1, <1>2
    <2> QED BY <1>1, <2>1 DEF Lock, Becomes
  <1>4. /\ row \in Row /\ row = plan[1] /\ rest \in Seq(Row)
        /\ \A i \in DOMAIN plan : i = 1 \/ (i - 1 \in DOMAIN rest /\ rest[i - 1] = plan[i])
    <2>1. /\ row \in Row /\ rest \in Seq(Row) /\ Len(rest) = Len(plan) - 1
          /\ \A i \in 1 .. Len(rest) : rest[i] = plan[i + 1]
      BY <1>1, <1>3, HeadTailProperties
    <2>2. row = plan[1] /\ DOMAIN plan = 1 .. Len(plan) /\ Len(plan) \in Nat
      BY <1>1, <1>3
    <2>3. DOMAIN rest = 1 .. Len(rest)
      BY <2>1
    <2> QED BY <2>1, <2>2, <2>3
  <1>5. /\ r \in AdminRequest /\ r.op = q.op /\ r.stage = q.stage /\ r.row = q.row /\ r.spec = q.spec
        /\ r.active = q.active /\ r.version = q.version /\ r.bounds = q.bounds
        /\ r.file = q.file /\ r.writes = q.writes /\ r.plan = rest
    BY <1>1, <1>2, <1>4 DEF AdminRequest
  <1>6. /\ request' \in [Admin -> AdminRequest] /\ request'[a] = r
        /\ \A b \in Admin : b # a => request'[b] = request[b]
    BY <1>3, <1>5 DEF RegistryInv, RegistryTypeOK
  <1>7. \A b \in Admin : \A x : Holds(b, x) => Holds(b, x)'
    <2>1. locked \in [Row -> Admin \cup {Nothing}] /\ Nothing \notin Admin
      BY RegistryConstants DEF RegistryInv, RegistryTypeOK
    <2> QED BY <1>3, <1>4, <2>1 DEF Holds
  <1>8. \A x : Due(a, q, x) => Due(a, r, x)'
    <2>1. Holds(a, row)'
      BY <1>3, <1>4 DEF Holds, RegistryInv, RegistryTypeOK
    <2> SUFFICES ASSUME NEW x, NEW i \in DOMAIN plan, plan[i] = x PROVE Due(a, r, x)'
      BY <1>1, <1>7 DEF Due
    <2>2. CASE i = 1
      BY <1>4, <2>1, <2>2 DEF Due
    <2>3. CASE i # 1
      BY <1>4, <1>5, <2>3 DEF Due
    <2> QED BY <2>2, <2>3
  <1>9. (\A p : Referenced(p)' = Referenced(p)) /\ \A spec : Canonical(spec)' = Canonical(spec)
    BY <1>3 DEF Referenced, Canonical
  <1>10. Prepared(a, r)' /\ Stands(a, r)'
    <2>1. Prepared(a, q) /\ Stands(a, q)
      BY <1>1 DEF RegistryInv
    <2> QED BY <1>1, <1>3, <1>5, <1>7, <1>8, <1>9, <2>1, Kept
  <1>11. ASSUME NEW b \in Admin, b # a, NEW p, p = request[b]
         PROVE  Prepared(b, p)' /\ Stands(b, p)'
    <2>1. Prepared(b, p) /\ Stands(b, p) /\ p \in AdminRequest
      BY <1>11 DEF RegistryInv, RegistryTypeOK
    <2>2. \A x : Due(b, p, x) => Due(b, p, x)'
      BY <1>7 DEF Due
    <2> QED BY <1>3, <1>7, <1>9, <2>1, <2>2, Kept
  <1>12. ASSUME NEW b \in Admin PROVE (Prepared(b, request[b]) /\ Stands(b, request[b]))'
    <2>1. CASE b = a
      BY <1>6, <1>10, <2>1, NextRequest
    <2>2. CASE b # a
      BY <1>6, <1>11, <2>2, NextRequest
    <2> QED BY <2>1, <2>2
  <1>13. RegistryTypeOK' /\ ActiveRulesHold'
    BY <1>3, <1>4, <1>6, <1>9 DEF RegistryInv, RegistryTypeOK, ActiveRulesHold
  <1>14. WritersDiffer'
    BY <1>1, <1>5, <1>6 DEF RegistryInv, WritersDiffer, Apart
  <1> QED BY <1>12, <1>13, <1>14 DEF RegistryInv

\* The end of a request releases its locks, and it rests.
LEMMA EndLeaves ==
  ASSUME RegistryInv, NEW a \in Admin, Released(a), request' = [request EXCEPT ![a] = Resting]
  PROVE  /\ locked' \in [Row -> Admin \cup {Nothing}] /\ request' \in [Admin -> AdminRequest]
         /\ WritersDiffer' /\ (Prepared(a, request[a]) /\ Stands(a, request[a]))'
         /\ \A b \in Admin : b # a => /\ request'[b] = request[b]
                                      /\ \A x : Holds(b, x) => Holds(b, x)'
PROOF
  <1>1. /\ locked \in [Row -> Admin \cup {Nothing}] /\ request \in [Admin -> AdminRequest]
        /\ Resting \in AdminRequest
    BY RestingType DEF RegistryInv, RegistryTypeOK
  <1>2. locked' \in [Row -> Admin \cup {Nothing}]
    BY <1>1 DEF Released
  <1>3. /\ request' \in [Admin -> AdminRequest] /\ request'[a] = Resting
        /\ \A b \in Admin : b # a => request'[b] = request[b]
    BY <1>1
  <1>4. WritersDiffer'
    BY <1>3, RestingType, NothingWritten DEF RegistryInv, WritersDiffer, Apart
  <1>5. (Prepared(a, request[a]) /\ Stands(a, request[a]))'
    <2>1. PICK q : q = request'[a] /\ q = Resting
      BY <1>3
    <2>2. q.op = "idle" /\ DOMAIN q.writes = {}
      BY <2>1, RestingType, NothingWritten
    <2>3. Prepared(a, q)' /\ Stands(a, q)'
      BY <2>2 DEF Prepared, NewRulePrepared, PatchPrepared, UpdatePrepared, ImportPrepared, Stands
    <2> QED BY <2>1, <2>3, NextRequest
  <1>6. ASSUME NEW b \in Admin, b # a, NEW x, Holds(b, x) PROVE Holds(b, x)'
    BY <1>1, <1>6 DEF Holds, Released
  <1> QED BY <1>2, <1>3, <1>4, <1>5, <1>6

LEMMA RollbackStep ==
  ASSUME RegistryInv, NEW a \in Admin, RollbackRequest(a)
  PROVE  RegistryInv'
PROOF
  <1>1. /\ Released(a) /\ request' = [request EXCEPT ![a] = Resting]
        /\ UNCHANGED <<parameters, rules, steps>>
    BY DEF RollbackRequest, Becomes
  <1>2. /\ locked' \in [Row -> Admin \cup {Nothing}] /\ request' \in [Admin -> AdminRequest]
        /\ WritersDiffer' /\ (Prepared(a, request[a]) /\ Stands(a, request[a]))'
        /\ \A b \in Admin : b # a => /\ request'[b] = request[b]
                                     /\ \A x : Holds(b, x) => Holds(b, x)'
    BY <1>1, EndLeaves
  <1>3. (\A p : Referenced(p)' = Referenced(p)) /\ \A spec : Canonical(spec)' = Canonical(spec)
    BY <1>1 DEF Referenced, Canonical
  <1>4. ASSUME NEW b \in Admin, b # a PROVE (Prepared(b, request[b]) /\ Stands(b, request[b]))'
    <2>1. PICK q : q = request[b] /\ q \in AdminRequest /\ Prepared(b, q) /\ Stands(b, q)
      BY DEF RegistryInv, RegistryTypeOK
    <2>2. \A x : (Holds(b, x) => Holds(b, x)') /\ (Due(b, q, x) => Due(b, q, x)')
      BY <1>2, <1>4 DEF Due
    <2>3. Prepared(b, q)' /\ Stands(b, q)'
      BY <1>1, <1>3, <2>1, <2>2, Kept
    <2>4. q = request'[b]
      BY <1>2, <1>4, <2>1
    <2> QED BY <2>3, <2>4, NextRequest
  <1>5. RegistryTypeOK' /\ ActiveRulesHold'
    BY <1>1, <1>2, <1>3 DEF RegistryInv, RegistryTypeOK, ActiveRulesHold
  <1> QED BY <1>2, <1>4, <1>5 DEF RegistryInv

\* A commit writes w into the tables and leaves the rest.
Stores(w) ==
  /\ DOMAIN parameters' = DOMAIN parameters \cup (DOMAIN w \cap Code)
  /\ DOMAIN rules' = DOMAIN rules \cup (DOMAIN w \cap Rule)
  /\ \A p \in DOMAIN parameters' : parameters'[p] = IF p \in DOMAIN w THEN w[p] ELSE parameters[p]
  /\ \A x \in DOMAIN rules' : rules'[x] = IF x \in DOMAIN w THEN w[x] ELSE rules[x]

LEMMA CommitStores ==
  ASSUME RegistryInv, NEW a \in Admin, CommitRequest(a), NEW w, w = request[a].writes
  PROVE  parameters' \in Parameters /\ rules' \in Rules /\ Stores(w)
PROOF
  <1>1. w \in Parameters \cup Rules /\ parameters \in Parameters /\ rules \in Rules
    BY DEF RegistryInv, RegistryTypeOK, AdminRequest
  <1>2. parameters' = Merged(parameters, Part(w, Code)) /\ rules' = Merged(rules, Part(w, Rule))
    BY DEF CommitRequest
  <1>3. parameters' \in Parameters /\ rules' \in Rules
    BY <1>1, <1>2, MergedTypes
  <1>4. DOMAIN parameters \subseteq Code /\ DOMAIN rules \subseteq Rule
    BY Stored DEF RegistryInv
  <1>5. /\ DOMAIN parameters' = DOMAIN parameters \cup (DOMAIN w \cap Code)
        /\ \A p \in DOMAIN parameters' :
             parameters'[p] = IF p \in DOMAIN w THEN w[p] ELSE parameters[p]
    BY <1>2, <1>4 DEF Merged, Part
  <1>6. /\ DOMAIN rules' = DOMAIN rules \cup (DOMAIN w \cap Rule)
        /\ \A x \in DOMAIN rules' : rules'[x] = IF x \in DOMAIN w THEN w[x] ELSE rules[x]
    BY <1>2, <1>4 DEF Merged, Part
  <1> QED BY <1>3, <1>5, <1>6 DEF Stores

\* After a commit of a, what another request b relies on is as it was.
LEMMA CommitSpares ==
  ASSUME RegistryInv, NEW a \in Admin, CommitRequest(a), NEW b \in Admin, a # b
  PROVE  /\ \A x \in DOMAIN request[b].writes :
              /\ x \in DOMAIN parameters' => x \in DOMAIN parameters
              /\ x \in DOMAIN rules' => x \in DOMAIN rules
         /\ \A p \in DOMAIN parameters : Holds(b, p) => parameters'[p] = parameters[p]
         /\ \A x \in DOMAIN rules : Holds(b, x) => rules'[x] = rules[x]
         /\ \A p \in DOMAIN parameters : Holds(b, p) /\ Referenced(p)' => Referenced(p)
PROOF
  <1>1. PICK w : w = request[a].writes
    OBVIOUS
  <1>2. Stores(w)
    BY <1>1, CommitStores
  <1>3. \A x \in DOMAIN request[b].writes : x \notin DOMAIN w
    BY <1>1 DEF RegistryInv, WritersDiffer, Apart
  <1>4. \A x : Holds(b, x) => ~Holds(a, x)
    BY DEF Holds
  <1>5. /\ \A x \in DOMAIN w : x \in Rule => RuleStands(a, x, w[x])
        /\ \A x \in DOMAIN w : x \in Code => ParameterStands(a, x, w[x])
    BY <1>1 DEF RegistryInv, Stands
  <1>6. \A x \in DOMAIN parameters \cup DOMAIN rules : Holds(b, x) => x \notin DOMAIN w
    BY <1>4, <1>5, Stored DEF RegistryInv, RuleStands, ParameterStands
  <1>7. ASSUME NEW p \in DOMAIN parameters, Holds(b, p), Referenced(p)' PROVE Referenced(p)
    <2>1. PICK x \in DOMAIN rules' : rules'[x].active /\ p \in Codes(rules'[x].spec)
      BY <1>7 DEF Referenced
    <2>2. CASE x \in DOMAIN w
      <3>1. x \in Rule /\ rules'[x] = w[x]
        BY <1>2, <2>1, <2>2, Stored DEF RegistryInv, Stores
      <3>2. Holds(a, p)
        BY <1>5, <2>1, <2>2, <3>1 DEF RuleStands
      <3> QED BY <1>4, <1>7, <3>2
    <2>3. CASE x \notin DOMAIN w
      BY <1>2, <2>1, <2>3 DEF Referenced, Stores
    <2> QED BY <2>2, <2>3
  <1> QED BY <1>2, <1>3, <1>6, <1>7 DEF Stores

LEMMA CommitStep ==
  ASSUME RegistryInv, NEW a \in Admin, CommitRequest(a)
  PROVE  RegistryInv'
PROOF
  <1>1. Released(a) /\ request' = [request EXCEPT ![a] = Resting] /\ steps' = steps
    BY DEF CommitRequest
  <1>2. /\ locked' \in [Row -> Admin \cup {Nothing}] /\ request' \in [Admin -> AdminRequest]
        /\ WritersDiffer' /\ (Prepared(a, request[a]) /\ Stands(a, request[a]))'
        /\ \A b \in Admin : b # a => /\ request'[b] = request[b]
                                     /\ \A x : Holds(b, x) => Holds(b, x)'
    BY <1>1, EndLeaves
  <1>3. PICK w : w = request[a].writes
    OBVIOUS
  <1>4. parameters' \in Parameters /\ rules' \in Rules /\ Stores(w)
    BY <1>3, CommitStores
  <1>5. RegistryTypeOK'
    BY <1>1, <1>2, <1>4 DEF RegistryInv, RegistryTypeOK
  <1>6. ASSUME NEW b \in Admin, b # a PROVE (Prepared(b, request[b]) /\ Stands(b, request[b]))'
    <2>1. PICK q : q = request[b] /\ q \in AdminRequest /\ Prepared(b, q) /\ Stands(b, q)
      BY DEF RegistryInv, RegistryTypeOK
    <2>2. \A x : (Holds(b, x) => Holds(b, x)') /\ (Due(b, q, x) => Due(b, q, x)')
      BY <1>2, <1>6 DEF Due
    <2>3. Prepared(b, q)' /\ Stands(b, q)'
      BY <1>4, <1>6, <2>1, <2>2, CommitSpares, Kept DEF Stores
    <2>4. q = request'[b]
      BY <1>2, <1>6, <2>1
    <2> QED BY <2>3, <2>4, NextRequest
  <1>7. /\ \A x \in DOMAIN w : x \in Rule => RuleStands(a, x, w[x])
        /\ \A x \in DOMAIN w : x \in Code => ParameterStands(a, x, w[x])
        /\ w \in Parameters \/ w \in Rules
    BY <1>3 DEF RegistryInv, RegistryTypeOK, AdminRequest, Stands
  <1>8. ASSUME NEW x \in DOMAIN rules', NEW spec, spec = rules'[x].spec, rules'[x].active
        PROVE  Canonical(spec)'
    <2>0. DOMAIN parameters \subseteq Code /\ DOMAIN rules \subseteq Rule /\ Code \cap Rule = {}
      BY Stored, RegistryConstants DEF RegistryInv
    <2>1. CASE x \in DOMAIN w
      <3>1. x \in Rule /\ rules'[x] = w[x]
        BY <1>4, <2>0, <2>1 DEF Stores
      <3>2. Canonical(spec)
        BY <1>7, <1>8, <2>1, <3>1 DEF RuleStands
      <3>3. DOMAIN w \cap Code = {}
        BY <1>7, <2>0, <2>1, <3>1 DEF Parameters, Rules
      <3>4. DOMAIN parameters' = DOMAIN parameters
            /\ \A p \in DOMAIN parameters : parameters'[p] = parameters[p]
        BY <1>4, <2>0, <3>3 DEF Stores
      <3> QED BY <3>2, <3>4 DEF Canonical
    <2>2. CASE x \notin DOMAIN w
      <3>1. x \in DOMAIN rules /\ rules'[x] = rules[x]
        BY <1>4, <2>2 DEF Stores
      <3>2. Canonical(spec)
        BY <1>8, <3>1 DEF RegistryInv, ActiveRulesHold
      <3>3. ASSUME NEW p \in Codes(spec) PROVE p \in DOMAIN parameters' /\ parameters'[p].active
        <4>1. p \in DOMAIN parameters /\ parameters[p].active /\ Referenced(p)
          BY <1>8, <3>1, <3>2, <3>3 DEF Canonical, Referenced
        <4>2. CASE p \in DOMAIN w
          <5>1. w[p].active
            BY <1>7, <2>0, <4>1, <4>2 DEF ParameterStands
          <5> QED BY <1>4, <4>1, <4>2, <5>1 DEF Stores
        <4>3. CASE p \notin DOMAIN w
          BY <1>4, <4>1, <4>3 DEF Stores
        <4> QED BY <4>2, <4>3
      <3> QED BY <3>2, <3>3 DEF Canonical
    <2> QED BY <2>1, <2>2
  <1>9. ActiveRulesHold'
    BY <1>8 DEF ActiveRulesHold, Canonical
  <1> QED BY <1>2, <1>5, <1>6, <1>9 DEF RegistryInv

-----------------------------------------------------------------------------
(* The theorems *)

LEMMA RegistryStarts == ASSUME RegistryInit PROVE RegistryInv
PROOF
  <1>1. \A a \in Admin : request[a] = Resting
    BY DEF RegistryInit
  <1>2. parameters \in Parameters
    <2>1. PICK C \in SUBSET Code :
              parameters \in [C -> {[active |-> TRUE, min |-> Nothing, max |-> Nothing]}]
      BY DEF RegistryInit
    <2>2. [active |-> TRUE, min |-> Nothing, max |-> Nothing] \in Parameter
      BY DEF Parameter, Limits
    <2>3. parameters \in [C -> Parameter]
      BY <2>1, <2>2
    <2> QED BY <2>3 DEF Parameters
  <1>3. rules \in Rules /\ ActiveRulesHold
    <2>1. CASE rules = <<>>
      BY <2>1, NothingWritten DEF ActiveRulesHold
    <2>2. CASE rules # <<>>
      <3>1. PICK rule \in Rule, spec \in Specs, on \in BOOLEAN :
                /\ Canonical(spec)
                /\ rules = [r \in {rule} |-> [spec |-> spec, active |-> on, version |-> 1]]
        BY <2>2 DEF RegistryInit
      <3>2. rules \in [{rule} -> RuleRecord] /\ {rule} \in SUBSET Rule
        BY <3>1 DEF RuleRecord
      <3>3. ActiveRulesHold
        BY <3>1 DEF ActiveRulesHold
      <3> QED BY <3>2, <3>3 DEF Rules
    <2> QED BY <2>1, <2>2
  <1>4. RegistryTypeOK
    BY <1>2, <1>3, RestingType DEF RegistryInit, RegistryTypeOK, Row
  <1>5. \A a \in Admin : Prepared(a, request[a]) /\ Stands(a, request[a])
    BY <1>1, RestingType, NothingWritten DEF Prepared, NewRulePrepared, PatchPrepared,
                                             UpdatePrepared, ImportPrepared, Stands
  <1>6. WritersDiffer
    BY <1>1, RestingType, NothingWritten DEF WritersDiffer, Apart
  <1> QED BY <1>3, <1>4, <1>5, <1>6 DEF RegistryInv

LEMMA RegistryStep == ASSUME RegistryInv, [RegistryNext]_registryVars PROVE RegistryInv'
PROOF
  <1>1. ASSUME NEW a \in Admin,
               \/ AskNewRule(a) \/ InsertRule(a) \/ AskRule(a) \/ ReadRule(a) \/ PatchRule(a)
               \/ CreateParameter(a) \/ AskParameter(a) \/ UpdateParameter(a)
               \/ AskImport(a) \/ ImportNew(a) \/ ImportRead(a) \/ ImportUpdate(a)
               \/ Lock(a) \/ CommitRequest(a) \/ RollbackRequest(a)
        PROVE  RegistryInv'
    BY <1>1, AskNewRuleStep, InsertRuleStep, AskRuleStep, ReadRuleStep, PatchRuleStep,
       CreateParameterStep, AskParameterStep, UpdateParameterStep, AskImportStep, ImportNewStep,
       ImportReadStep, ImportUpdateStep, LockStep, CommitStep, RollbackStep
  <1>2. CASE UNCHANGED registryVars
    <2>1. UNCHANGED <<parameters, rules, locked, request, steps>>
      BY <1>2 DEF registryVars
    <2>2. (\A p : Referenced(p)' = Referenced(p)) /\ \A spec : Canonical(spec)' = Canonical(spec)
      BY <2>1 DEF Referenced, Canonical
    <2>3. ASSUME NEW b \in Admin PROVE (Prepared(b, request[b]) /\ Stands(b, request[b]))'
      <3>1. PICK q : q = request'[b] /\ q \in AdminRequest /\ Prepared(b, q) /\ Stands(b, q)
        BY <2>1 DEF RegistryInv, RegistryTypeOK
      <3>2. \A x : (Holds(b, x) => Holds(b, x)') /\ (Due(b, q, x) => Due(b, q, x)')
        BY <2>1 DEF Due, Holds
      <3>3. Prepared(b, q)' /\ Stands(b, q)'
        BY <2>1, <2>2, <3>1, <3>2, Kept
      <3> QED BY <3>1, <3>3, NextRequest
    <2>4. RegistryTypeOK' /\ ActiveRulesHold' /\ WritersDiffer'
      BY <2>1, <2>2 DEF RegistryInv, RegistryTypeOK, ActiveRulesHold, WritersDiffer
    <2> QED BY <2>3, <2>4 DEF RegistryInv
  <1> QED BY <1>1, <1>2 DEF RegistryNext

\* The inductive invariant: requests hold the rows that what they write relies on.
THEOREM RegistryInvariance == RegistrySpec => []RegistryInv
PROOF
  <1>1. RegistryInit => RegistryInv
    BY RegistryStarts
  <1>2. RegistryInv /\ [RegistryNext]_registryVars => RegistryInv'
    BY RegistryStep
  <1> QED BY <1>1, <1>2, PTL DEF RegistrySpec

\* A step changes a rule under its next version only.
LEMMA ChangeIsCounted ==
  ASSUME RegistryInv, [RegistryNext]_registryVars, NEW rule \in DOMAIN rules,
         rules'[rule] # rules[rule]
  PROVE  rules'[rule].version = rules[rule].version + 1
PROOF
  <1>1. PICK a \in Admin : CommitRequest(a)
    <2>1. ASSUME NEW a \in Admin, \/ AskNewRule(a) \/ InsertRule(a) \/ AskRule(a) \/ ReadRule(a)
                                  \/ PatchRule(a) \/ CreateParameter(a) \/ AskParameter(a)
          PROVE  rules' = rules
      BY <2>1 DEF AskNewRule, InsertRule, AskRule, ReadRule, PatchRule, CreateParameter,
                  AskParameter, Begins, Becomes
    <2>2. ASSUME NEW a \in Admin, \/ UpdateParameter(a) \/ AskImport(a) \/ ImportNew(a)
                                  \/ ImportRead(a) \/ ImportUpdate(a) \/ Lock(a)
                                  \/ RollbackRequest(a)
          PROVE  rules' = rules
      BY <2>2 DEF UpdateParameter, AskImport, ImportNew, ImportRead, ImportUpdate, Lock,
                  RollbackRequest, Begins, Becomes
    <2> QED BY <2>1, <2>2 DEF RegistryNext, registryVars
  <1>2. PICK w : w = request[a].writes
    OBVIOUS
  <1>3. Stores(w)
    BY <1>1, <1>2, CommitStores
  <1>4. rule \in Rule
    BY Stored DEF RegistryInv
  <1>5. rule \in DOMAIN w /\ rules'[rule] = w[rule]
    BY <1>3 DEF Stores
  <1> QED BY <1>2, <1>4, <1>5 DEF RegistryInv, Stands, RuleStands

\* Active rules refer to active parameters of fitting types, and no change of a
\* rule is overwritten by who has not seen it (rule_service.py, patch_rule;
\* parameters/service.py, _ensure_parameter_can_deactivate).
THEOREM RegistryConsistency == RegistrySpec => RegistryIsConsistent
PROOF
  <1>1. RegistryInv => \A rule \in DOMAIN rules : rules[rule].active => Canonical(rules[rule].spec)
    BY DEF RegistryInv, ActiveRulesHold
  <1>2. RegistryInv /\ [RegistryNext]_registryVars =>
          [\A rule \in DOMAIN rules : rules'[rule] # rules[rule] =>
               rules'[rule].version = rules[rule].version + 1]_registryVars
    BY ChangeIsCounted
  <1> QED BY <1>1, <1>2, RegistryInvariance, PTL
          DEF RegistrySpec, RegistryIsConsistent
===============================================================================
