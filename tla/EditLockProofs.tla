---------------------------- MODULE EditLockProofs ----------------------------
(* What TLAPS proves of EditLock for any tabs, users, slots, tokens and time   *)
(* to live, and of SheetValidation, the validation of the sheet edited under   *)
(* this lock, for any writes, definitions and failures.                        *)
EXTENDS EditLock, SheetValidation, TLAPS

\* A request that edits, and so has been sent by a tab.
Sent(r) == req[r].stage # "free" /\ req[r].op \in EditOp

\* Only the transaction that holds the project row is open.
OpenHoldsRow == \A r \in Slot : req[r].stage = "open" => mutex = r

EditsComeFromTabs == \A r \in Slot : Sent(r) => req[r].session \in Session

\* Only a status change waits with a snapshot in hand.
OnlyStatusWaits ==
  \A r \in Slot : req[r].stage = "waiting" => req[r].op \in StatusAction

\* What an open acquire or heartbeat will store: a new owner, or the same one.
PreparedRow ==
  \A r \in Slot :
    req[r].stage = "open" =>
      /\ req[r].op = "acquire" =>
           /\ ~Live(editLock)
           /\ req[r].lock # None
           /\ req[r].lock.token # lastWrite
           /\ editLock # None => req[r].lock.token # editLock.token
      /\ req[r].op = "heartbeat" =>
           req[r].lock # None /\ req[r].lock.token = editLock.token

IInv ==
  /\ TypeOK
  /\ OpenHoldsRow
  /\ EditsComeFromTabs
  /\ OnlyStatusWaits
  /\ CheckedEditHoldsLock
  /\ PreparedRow

-----------------------------------------------------------------------------
\* A tick keeps a lock row a row of the same owner, and an expired one expired.
LEMMA AgedRow ==
  ASSUME NEW l \in LockRow \union {None}
  PROVE  /\ Aged(l) \in LockRow \union {None}
         /\ Aged(l) = None <=> l = None
         /\ l # None => /\ Aged(l).token = l.token
                        /\ Aged(l).locked_by = l.locked_by
         /\ ~Live(l) => ~Live(Aged(l))
<1>1. CASE l = None
  BY <1>1 DEF Aged, Live
<1>2. CASE l # None
  <2>1. l \in LockRow
    BY <1>2
  <2> DEFINE n == IF l.left = 0 THEN 0 ELSE l.left - 1
  <2>2. n \in 0 .. TTL
    BY <2>1, ConstantsAssumption DEF LockRow
  <2>3. Aged(l) = [l EXCEPT !.left = n]
    BY <1>2 DEF Aged
  <2>4. [l EXCEPT !.left = n] \in LockRow
    BY <2>1, <2>2 DEF LockRow
  <2>5. /\ [l EXCEPT !.left = n].token = l.token
        /\ [l EXCEPT !.left = n].locked_by = l.locked_by
        /\ [l EXCEPT !.left = n].left = n
    BY <2>1 DEF LockRow
  <2>6. Expired(l) => Expired(Aged(l))
    BY <2>1, <2>3, <2>5 DEF Expired, LockRow
  <2> QED
    BY <1>2, <2>3, <2>4, <2>5, <2>6, ConstantsAssumption DEF Live
<1> QED
  BY <1>1, <1>2

\* A new request is a request that waits to be served.
LEMMA NewRequestType ==
  ASSUME NEW op \in EditOp \union StatusAction, NEW s \in Session \union {None},
         NEW t \in Token \union {None}
  PROVE  /\ NewRequest(op, s, t) \in Request
         /\ NewRequest(op, s, t).stage = "queued"
         /\ NewRequest(op, s, t).op = op
         /\ NewRequest(op, s, t).session = s
BY DEF NewRequest, Request, Stage, Row

\* A free slot is a request that is over.
LEMMA IdleType == Idle \in Request /\ Idle.stage = "free"
BY NewRequestType DEF Idle, NewRequest, Request, Stage, EditOp, Row

\* The slot of a finished request.
LEMMA EndedType ==
  ASSUME TypeOK, NEW r \in Slot, NEW stage \in {"free", "granted", "refused"}
  PROVE  /\ Ended(r, stage) \in Request
         /\ Ended(r, stage).stage = stage
         /\ stage # "free" => /\ Ended(r, stage).op = req[r].op
                              /\ Ended(r, stage).session = req[r].session
<1>1. CASE stage = "free"
  BY <1>1, IdleType DEF Ended
<1>2. CASE stage # "free"
  <2>1. req[r] \in Request
    BY DEF TypeOK
  <2>2. Ended(r, stage) = [req[r] EXCEPT !.stage = stage, !.lock = None]
    BY <1>2 DEF Ended
  <2> QED
    BY <1>2, <2>1, <2>2 DEF Request, Stage
<1> QED
  BY <1>1, <1>2

\* What a commit does to the slots.
LEMMA CommitEffect ==
  ASSUME TypeOK, NEW r \in Slot, NEW stage \in {"free", "granted", "refused"},
         NEW rows \in SUBSET Row, Commit(r, stage, rows)
  PROVE  /\ mutex' = None
         /\ req' \in [Slot -> Request]
         /\ req'[r] = Ended(r, stage)
         /\ \A q \in Slot \ {r} :
              /\ req'[q].stage = req[q].stage /\ req'[q].op = req[q].op
              /\ req'[q].session = req[q].session /\ req'[q].token = req[q].token
              /\ req'[q].lock = req[q].lock
<1>1. req \in [Slot -> Request]
  BY DEF TypeOK
<1>2. ASSUME NEW q \in Slot
      PROVE  [req[q] EXCEPT !.stale = @ \union rows] \in Request
  BY <1>1 DEF Request
<1>3. Ended(r, stage) \in Request
  BY EndedType
<1>4. ASSUME NEW q \in Slot \ {r}
      PROVE  \/ req'[q] = req[q]
             \/ req'[q] = [req[q] EXCEPT !.stale = @ \union rows]
  BY <1>4 DEF Commit
<1>5. req' \in [Slot -> Request]
  BY <1>1, <1>2, <1>3 DEF Commit
<1>6. ASSUME NEW q \in Slot \ {r}
      PROVE  /\ req'[q].stage = req[q].stage /\ req'[q].op = req[q].op
             /\ req'[q].session = req[q].session /\ req'[q].token = req[q].token
             /\ req'[q].lock = req[q].lock
  <2>1. req[q] \in Request
    BY <1>1
  <2>2. CASE req'[q] = req[q]
    BY <2>2
  <2>3. CASE req'[q] = [req[q] EXCEPT !.stale = @ \union rows]
    BY <2>1, <2>3 DEF Request
  <2> QED
    BY <1>4, <2>2, <2>3
<1> QED
  BY <1>5, <1>6 DEF Commit

\* What opening a transaction does.
LEMMA OpenEffect ==
  ASSUME TypeOK, NEW r \in Slot, NEW lock \in LockRow \union {None}, Open(r, lock)
  PROVE  /\ TypeOK'
         /\ mutex' = r
         /\ req'[r].stage = "open" /\ req'[r].op = req[r].op
         /\ req'[r].session = req[r].session /\ req'[r].lock = lock
         /\ lock = None => req'[r].token = req[r].token
         /\ \A q \in Slot \ {r} : req'[q] = req[q]
<1> DEFINE t == IF lock = None THEN req[r].token ELSE lock.token
           new == [req[r] EXCEPT !.stage = "open", !.lock = lock, !.token = t]
<1>1. req[r] \in Request /\ req \in [Slot -> Request]
  BY DEF TypeOK
<1>2. t \in Token \union {None}
  BY <1>1 DEF Request, LockRow
<1>3. new \in Request
  BY <1>1, <1>2 DEF Request, Stage
<1>4. req' = [req EXCEPT ![r] = new]
  BY <1>1 DEF Open
<1>5. req' \in [Slot -> Request] /\ req'[r] = new
  BY <1>1, <1>3, <1>4
<1>6. TypeOK'
  BY <1>5 DEF Open, TypeOK
<1>7. /\ new.stage = "open" /\ new.op = req[r].op /\ new.session = req[r].session
      /\ new.lock = lock /\ new.token = t
  BY <1>1 DEF Request
<1> QED
  BY <1>1, <1>4, <1>5, <1>6, <1>7 DEF Open

\* Ending a transaction without effect touches one slot and nothing else.
LEMMA AnswerEffect ==
  ASSUME TypeOK, NEW r \in Slot, NEW stage \in {"free", "refused"},
         Answer(r, stage), mutex' \in Slot \union {None}
  PROVE  /\ TypeOK'
         /\ req'[r] = Ended(r, stage)
         /\ \A q \in Slot \ {r} : req'[q] = req[q]
<1>1. Ended(r, stage) \in Request
  BY EndedType
<1> QED
  BY <1>1 DEF Answer, TypeOK

-----------------------------------------------------------------------------
(* IInv is inductive *)

\* The initial states satisfy the invariant.
LEMMA InitInv == Init => IInv
<1> SUFFICES ASSUME Init
             PROVE  IInv
  OBVIOUS
<1>1. TypeOK
  BY IdleType DEF Init, TypeOK, ProjectStatus
<1>2. \A r \in Slot : req[r].stage = "free"
  BY IdleType DEF Init
<1> QED
  BY <1>1, <1>2 DEF IInv, OpenHoldsRow, EditsComeFromTabs, OnlyStatusWaits, Sent,
                    CheckedEditHoldsLock, PreparedRow

\* A step that only puts slot r into a stage that is not open, and neither
\* touches the lock, the status nor who holds the row, keeps the invariant.
LEMMA QuietStep ==
  ASSUME IInv, TypeOK', NEW r \in Slot,
         req'[r].stage # "open", Sent(r)' => req'[r].session \in Session,
         req'[r].stage = "waiting" => req'[r].op \in StatusAction,
         \A q \in Slot \ {r} : req'[q] = req[q],
         UNCHANGED <<status, editLock, lastWrite>>,
         mutex' = mutex \/ req[r].stage = "open" \/ mutex = None
  PROVE  IInv'
<1>1. ASSUME NEW q \in Slot, req'[q].stage = "open"
      PROVE  q # r /\ req'[q] = req[q] /\ mutex = q /\ mutex' = q
  <2>1. q # r /\ req'[q] = req[q]
    BY <1>1
  <2>2. mutex = q
    BY <1>1, <2>1 DEF IInv, OpenHoldsRow
  <2>3. mutex # None /\ req[r].stage # "open"
    BY <2>1, <2>2, ConstantsAssumption DEF IInv, OpenHoldsRow
  <2> QED
    BY <2>1, <2>2, <2>3
<1>2. OpenHoldsRow'
  BY <1>1 DEF OpenHoldsRow
<1>3. EditsComeFromTabs'
  BY DEF IInv, EditsComeFromTabs, Sent
<1>4. CheckedEditHoldsLock'
  BY <1>1 DEF IInv, CheckedEditHoldsLock, OwnLock
<1>5. PreparedRow'
  BY <1>1 DEF IInv, PreparedRow, Live, Expired
<1>6. OnlyStatusWaits'
  BY DEF IInv, OnlyStatusWaits
<1> QED
  BY <1>2, <1>3, <1>4, <1>5, <1>6 DEF IInv

\* Opening with the row free: r becomes the one open request.
LEMMA OpenStep ==
  ASSUME IInv, NEW r \in Slot, NEW lock \in LockRow \union {None}, Open(r, lock),
         mutex = None, req[r].stage # "free",
         req[r].op \in {"heartbeat", "release", "write"} => OwnLock(r),
         req[r].op \in {"acquire", "heartbeat", "write"} => status = "draft",
         req[r].op \in {"release", "write"} => lock = None,
         req[r].op = "acquire" =>
           /\ ~Live(editLock)
           /\ lock # None /\ lock.token # lastWrite
           /\ editLock # None => lock.token # editLock.token,
         req[r].op = "heartbeat" => lock # None /\ lock.token = editLock.token
  PROVE  IInv'
<1>1. TypeOK
  BY DEF IInv
<1>2. /\ TypeOK' /\ mutex' = r
      /\ req'[r].stage = "open" /\ req'[r].op = req[r].op
      /\ req'[r].session = req[r].session /\ req'[r].lock = lock
      /\ lock = None => req'[r].token = req[r].token
      /\ \A q \in Slot \ {r} : req'[q] = req[q]
  BY <1>1, OpenEffect
<1>3. UNCHANGED <<status, editLock, lastWrite>>
  BY DEF Open
<1>4. \A q \in Slot : req'[q].stage = "open" => q = r
  BY <1>2, ConstantsAssumption DEF IInv, OpenHoldsRow
<1>5. OpenHoldsRow'
  BY <1>2, <1>4 DEF OpenHoldsRow
<1>6. EditsComeFromTabs' /\ OnlyStatusWaits'
  BY <1>2 DEF IInv, EditsComeFromTabs, OnlyStatusWaits, Sent
<1>7. CASE req[r].op \in {"heartbeat", "release", "write"}
  <2>1. req'[r].token = editLock.token
    <3>1. CASE req[r].op = "heartbeat"
      <4>1. req' = [req EXCEPT ![r].stage = "open", ![r].lock = lock, ![r].token = lock.token]
        BY <3>1 DEF Open
      <4>2. req \in [Slot -> Request]
        BY <1>1 DEF TypeOK
      <4>3. req'[r].token = lock.token
        BY <4>1, <4>2 DEF Request
      <4> QED
        BY <3>1, <4>3
    <3>2. CASE req[r].op \in {"release", "write"}
      BY <1>2, <3>2 DEF OwnLock
    <3> QED
      BY <1>7, <3>1, <3>2
  <2>2. CheckedEditHoldsLock'
    BY <1>2, <1>3, <1>4, <1>7, <2>1 DEF CheckedEditHoldsLock, OwnLock
  <2>3. PreparedRow'
    BY <1>2, <1>3, <1>4, <1>7 DEF PreparedRow
  <2> QED
    BY <1>2, <1>5, <1>6, <2>2, <2>3 DEF IInv
<1>8. CASE req[r].op \notin {"heartbeat", "release", "write"}
  <2>1. CheckedEditHoldsLock'
    BY <1>2, <1>3, <1>4, <1>8 DEF CheckedEditHoldsLock
  <2>2. PreparedRow'
    BY <1>2, <1>3, <1>4, <1>8 DEF PreparedRow, Live, Expired
  <2> QED
    BY <1>2, <1>5, <1>6, <2>1, <2>2 DEF IInv
<1> QED
  BY <1>7, <1>8

\* A commit leaves no request open.
LEMMA CommitStep ==
  ASSUME IInv, TypeOK', NEW r \in Slot, req[r].stage = "open",
         NEW stage \in {"free", "granted", "refused"}, NEW rows \in SUBSET Row,
         Commit(r, stage, rows)
  PROVE  IInv'
<1>1. TypeOK /\ mutex = r
  BY DEF IInv, OpenHoldsRow
<1>2. /\ req'[r] = Ended(r, stage)
      /\ \A q \in Slot \ {r} :
           /\ req'[q].stage = req[q].stage /\ req'[q].op = req[q].op
           /\ req'[q].session = req[q].session
  BY <1>1, CommitEffect
<1>3. /\ req'[r].stage = stage
      /\ stage # "free" => req'[r].op = req[r].op /\ req'[r].session = req[r].session
  BY <1>1, <1>2, EndedType
<1>4. \A q \in Slot : req'[q].stage # "open"
  BY <1>1, <1>2, <1>3 DEF IInv, OpenHoldsRow
<1>5. EditsComeFromTabs' /\ OnlyStatusWaits'
  BY <1>2, <1>3 DEF IInv, EditsComeFromTabs, OnlyStatusWaits, Sent
<1> QED
  BY <1>4, <1>5 DEF IInv, OpenHoldsRow, CheckedEditHoldsLock, PreparedRow

-----------------------------------------------------------------------------
\* Every step of the server keeps the invariant.
LEMMA ServerStepInv ==
  ASSUME IInv, NEW r \in Slot, ServerStep(r)
  PROVE  IInv'
<1>1. TypeOK /\ req[r] \in Request /\ req \in [Slot -> Request]
  BY DEF IInv, TypeOK
<1>2. CASE OpenAcquire(r)
  <2>1. PICK t \in Token \ TokensInUse :
          Open(r, [locked_by |-> UserOf[req[r].session], token |-> t, left |-> TTL])
    BY <1>2 DEF OpenAcquire
  <2> DEFINE lock == [locked_by |-> UserOf[req[r].session], token |-> t, left |-> TTL]
  <2>2. req[r].session \in Session
    BY <1>2 DEF OpenAcquire, IInv, EditsComeFromTabs, Sent, EditOp
  <2>3. lock \in LockRow
    BY <2>2, ConstantsAssumption DEF LockRow
  <2>4. lock # None /\ lock.token # lastWrite /\ (editLock # None => lock.token # editLock.token)
    BY <2>3, ConstantsAssumption DEF TokensInUse
  <2> HIDE DEF lock
  <2> QED
    BY <1>2, <2>1, <2>3, <2>4, OpenStep DEF OpenAcquire, lock
<1>3. CASE OpenHeartbeat(r)
  <2> DEFINE lock == [editLock EXCEPT !.left = TTL]
  <2>1. editLock \in LockRow
    BY <1>1, <1>3 DEF OpenHeartbeat, ValidHolder, OwnLock, TypeOK
  <2>2. lock \in LockRow /\ lock.token = editLock.token
    BY <2>1, ConstantsAssumption DEF LockRow
  <2>3. lock # None
    BY <2>2, ConstantsAssumption
  <2> HIDE DEF lock
  <2> QED
    BY <1>3, <2>2, <2>3, OpenStep DEF OpenHeartbeat, ValidHolder, lock
<1>4. CASE OpenRelease(r)
  BY <1>4, OpenStep DEF OpenRelease
<1>5. CASE OpenWrite(r)
  BY <1>5, OpenStep DEF OpenWrite, ValidHolder
<1>6. CASE GetRow(r)
  <2>1. req[r].op \in StatusAction
    BY <1>6 DEF GetRow, IInv, OnlyStatusWaits
  <2> QED
    BY <1>6, <2>1, OpenStep DEF GetRow, StatusAction, ReviewAction
<1>7. CASE CommitAcquire(r)
  <2>1. TypeOK'
    BY <1>1, <1>7, CommitEffect DEF CommitAcquire, TypeOK, Request, Row
  <2> QED
    BY <1>7, <2>1, CommitStep DEF CommitAcquire, Row
<1>8. CASE CommitHeartbeat(r)
  <2>1. TypeOK'
    BY <1>1, <1>8, CommitEffect DEF CommitHeartbeat, TypeOK, Request, Row
  <2> QED
    BY <1>8, <2>1, CommitStep DEF CommitHeartbeat, Row
<1>9. CASE CommitRelease(r)
  <2>1. TypeOK'
    BY <1>1, <1>9, CommitEffect DEF CommitRelease, TypeOK, Row
  <2> QED
    BY <1>9, <2>1, CommitStep DEF CommitRelease, Row
<1>10. CASE CommitWrite(r)
  <2>1. PICK rows \in {{}, {"project"}} : Commit(r, "free", rows)
    BY <1>10 DEF CommitWrite
  <2>2. rows \in SUBSET Row
    BY DEF Row
  <2>3. TypeOK'
    BY <1>1, <1>10, <2>1, <2>2, CommitEffect DEF CommitWrite, TypeOK, Request
  <2> QED
    BY <1>10, <2>1, <2>2, <2>3, CommitStep DEF CommitWrite
<1>11. CASE CommitStatus(r)
  <2>1. PICK rows \in SUBSET Row : Commit(r, "free", rows)
    BY <1>11 DEF CommitStatus, Row
  <2>2. status' \in ProjectStatus /\ editLock' \in {editLock, None}
        /\ UNCHANGED <<token, lastWrite>>
    BY <1>11 DEF CommitStatus
  <2>3. TypeOK'
    BY <1>1, <2>1, <2>2, CommitEffect DEF TypeOK
  <2> QED
    BY <1>11, <2>1, <2>3, CommitStep DEF CommitStatus
<1>12. CASE TakeSnapshot(r)
  <2> DEFINE new == [req[r] EXCEPT !.stage = "waiting", !.sees = (editLock # None)]
  <2>1. req' = [req EXCEPT ![r] = new] /\ UNCHANGED <<status, editLock, mutex, token, lastWrite>>
    BY <1>12 DEF TakeSnapshot
  <2>2. new \in Request /\ new.stage = "waiting" /\ new.op = req[r].op
    BY <1>1 DEF Request, Stage
  <2>3. TypeOK'
    BY <1>1, <2>1, <2>2 DEF TypeOK
  <2>4. req'[r] = new /\ req[r].op \in StatusAction /\ ~Sent(r)'
    BY <1>1, <1>12, <2>1, <2>2 DEF TakeSnapshot, Sent, StatusAction, ReviewAction, EditOp
  <2> QED
    BY <1>1, <2>1, <2>2, <2>3, <2>4, QuietStep
<1>13. CASE Refuse(r)
  <2>1. PICK stage \in {"free", "refused"} : Answer(r, stage)
    BY <1>13 DEF Refuse
  <2>2. mutex' \in Slot \union {None} /\ mutex' = mutex /\ UNCHANGED <<status, editLock, lastWrite>>
    BY <1>1, <1>13 DEF Refuse, Answer, TypeOK
  <2>3. /\ TypeOK' /\ req'[r] = Ended(r, stage)
        /\ \A q \in Slot \ {r} : req'[q] = req[q]
    BY <1>1, <2>1, <2>2, AnswerEffect
  <2>4. /\ req'[r].stage = stage
        /\ stage # "free" => req'[r].op = req[r].op /\ req'[r].session = req[r].session
    BY <1>1, <2>3, EndedType
  <2>5. Sent(r)' => req'[r].session \in Session
    BY <1>13, <2>4 DEF Refuse, Sent, IInv, EditsComeFromTabs
  <2> QED
    BY <2>2, <2>3, <2>4, <2>5, QuietStep
<1>14. CASE SerializationFailure(r)
  <2>1. req[r].stage \in {"waiting", "open"} /\ mutex' = None
    BY <1>14 DEF SerializationFailure
  <2>2. req[r].op \in StatusAction
    BY <1>14 DEF SerializationFailure, IInv, OnlyStatusWaits, ClearsLock, StatusAction, ReviewAction
  <2>3. PICK next \in {NewRequest(req[r].op, None, None), Idle} : req' = [req EXCEPT ![r] = next]
    BY <1>14 DEF SerializationFailure
  <2>4. next \in Request /\ next.stage \in {"queued", "free"}
        /\ (next.stage = "queued" => next.op = req[r].op)
    <3> DEFINE again == NewRequest(req[r].op, None, None)
    <3>1. again \in Request /\ again.stage = "queued" /\ again.op = req[r].op
      BY <2>2, NewRequestType
    <3> HIDE DEF again
    <3> QED
      BY <2>3, <3>1, IdleType DEF again
  <2>5. UNCHANGED <<status, editLock, token, lastWrite>>
    BY <1>14 DEF SerializationFailure
  <2>6. TypeOK' /\ req'[r] = next /\ \A q \in Slot \ {r} : req'[q] = req[q]
    BY <1>1, <2>1, <2>3, <2>4, <2>5 DEF TypeOK
  <2>7. ~Sent(r)'
    BY <2>2, <2>4, <2>6 DEF Sent, StatusAction, ReviewAction, EditOp
  <2>8. mutex = None \/ req[r].stage = "open"
    BY <1>14 DEF SerializationFailure
  <2> QED
    BY <2>1, <2>4, <2>5, <2>6, <2>7, <2>8, QuietStep
<1>15. CASE Rollback(r)
  <2>1. /\ TypeOK' /\ req'[r] = Ended(r, "free")
        /\ \A q \in Slot \ {r} : req'[q] = req[q]
    BY <1>1, <1>15, AnswerEffect DEF Rollback
  <2>2. req'[r].stage = "free"
    BY <1>1, <2>1, EndedType
  <2> QED
    BY <1>15, <2>1, <2>2, QuietStep DEF Rollback, Answer, Sent
<1> QED
  BY <1>2, <1>3, <1>4, <1>5, <1>6, <1>7, <1>8, <1>9, <1>10, <1>11, <1>12, <1>13, <1>14,
     <1>15 DEF ServerStep

\* A delivered or lost message keeps the invariant.
LEMMA SlotStepInv ==
  ASSUME IInv, NEW r \in Slot, Deliver(r) \/ Lose(r)
  PROVE  IInv'
<1>1. TypeOK /\ req[r] \in Request /\ req \in [Slot -> Request]
  BY DEF IInv, TypeOK
<1>2. req' = [req EXCEPT ![r] = Idle] /\ UNCHANGED <<status, editLock, mutex, lastWrite>>
  BY DEF Deliver, Lose
<1>3. token' \in [Session -> Token \union {None}]
  <2>1. CASE Lose(r)
    BY <1>1, <2>1 DEF Lose, TypeOK
  <2>2. CASE Deliver(r)
    <3>1. req[r].token \in Token \union {None}
      BY <1>1 DEF Request
    <3> QED
      BY <1>1, <2>2, <3>1 DEF Deliver, TypeOK
  <2> QED
    BY <2>1, <2>2
<1>4. TypeOK' /\ req'[r] = Idle /\ \A q \in Slot \ {r} : req'[q] = req[q]
  BY <1>1, <1>2, <1>3, IdleType DEF TypeOK
<1> QED
  BY <1>2, <1>4, IdleType, QuietStep DEF Sent

\* Sending a request keeps the invariant.
LEMMA SendInv ==
  ASSUME IInv,
         \/ \E s \in Session, op \in EditOp : Send(s, op)
         \/ \E a \in StatusAction : AskStatus(a)
  PROVE  IInv'
<1>1. TypeOK /\ req \in [Slot -> Request]
  BY DEF IInv, TypeOK
<1>2. UNCHANGED <<status, editLock, mutex, token, lastWrite>>
  BY DEF Send, AskStatus
<1>3. PICK r \in Slot, op \in EditOp \union StatusAction, s \in Session \union {None},
           t \in Token \union {None} :
        /\ req' = [req EXCEPT ![r] = NewRequest(op, s, t)]
        /\ op \in EditOp => s \in Session
  <2>1. CASE \E s \in Session, op \in EditOp : Send(s, op)
    BY <1>1, <2>1 DEF Send, TypeOK
  <2>2. CASE \E a \in StatusAction : AskStatus(a)
    BY <2>2 DEF AskStatus, StatusAction, ReviewAction, EditOp
  <2> QED
    BY <2>1, <2>2
<1> DEFINE new == NewRequest(op, s, t)
<1>4. new \in Request /\ new.stage = "queued" /\ new.op = op /\ new.session = s
  BY NewRequestType
<1> HIDE DEF new
<1>5. TypeOK' /\ req'[r] = new /\ \A q \in Slot \ {r} : req'[q] = req[q]
  BY <1>1, <1>2, <1>3, <1>4 DEF TypeOK, new
<1> QED
  BY <1>2, <1>3, <1>4, <1>5, QuietStep DEF Sent

\* A closed tab keeps the invariant.
LEMMA CloseTabInv ==
  ASSUME IInv, NEW s \in Session, CloseTab(s)
  PROVE  IInv'
<1>1. TypeOK' /\ UNCHANGED <<status, editLock, mutex, req, lastWrite>>
  BY DEF CloseTab, IInv, TypeOK
<1> QED
  BY <1>1 DEF IInv, OpenHoldsRow, EditsComeFromTabs, OnlyStatusWaits, Sent,
              CheckedEditHoldsLock, OwnLock, PreparedRow, Live, Expired

\* Time keeps the invariant.
LEMMA TickInv == ASSUME IInv, Tick PROVE IInv'
<1>1. TypeOK /\ req \in [Slot -> Request]
  BY DEF IInv, TypeOK
<1>2. ASSUME NEW r \in Slot
      PROVE  /\ req'[r] \in Request /\ req'[r].lock = Aged(req[r].lock)
             /\ req'[r].stage = req[r].stage /\ req'[r].op = req[r].op
             /\ req'[r].session = req[r].session /\ req'[r].token = req[r].token
             /\ req'[r].lock = None <=> req[r].lock = None
             /\ req[r].lock # None => req'[r].lock.token = req[r].lock.token
  <2>1. req'[r] = [req[r] EXCEPT !.lock = Aged(req[r].lock)] /\ req[r] \in Request
    BY <1>1 DEF Tick
  <2>2. req[r].lock \in LockRow \union {None}
    BY <2>1 DEF Request
  <2>3. /\ Aged(req[r].lock) \in LockRow \union {None}
        /\ Aged(req[r].lock) = None <=> req[r].lock = None
        /\ req[r].lock # None => Aged(req[r].lock).token = req[r].lock.token
    BY <2>2, AgedRow
  <2> QED
    BY <2>1, <2>3 DEF Request
<1>3. /\ editLock' \in LockRow \union {None} /\ (editLock' = None <=> editLock = None)
      /\ editLock # None => /\ editLock'.token = editLock.token
                           /\ editLock'.locked_by = editLock.locked_by
      /\ ~Live(editLock) => ~Live(editLock')
  BY <1>1, AgedRow DEF Tick, TypeOK
<1>4. req' \in [Slot -> Request]
  BY <1>2 DEF Tick
<1>5. UNCHANGED <<status, mutex, token, lastWrite>>
  BY DEF Tick
<1>6. TypeOK'
  BY <1>1, <1>3, <1>4, <1>5 DEF TypeOK
<1>7. OpenHoldsRow' /\ EditsComeFromTabs' /\ OnlyStatusWaits'
  BY <1>2, <1>5 DEF IInv, OpenHoldsRow, EditsComeFromTabs, OnlyStatusWaits, Sent
<1>8. CheckedEditHoldsLock'
  <2>1. ASSUME NEW r \in Slot, OwnLock(r)
        PROVE  OwnLock(r)'
    BY <1>2, <1>3, <2>1 DEF OwnLock
  <2> QED
    BY <1>2, <1>5, <2>1 DEF IInv, CheckedEditHoldsLock
<1>9. PreparedRow'
  <2>1. ASSUME NEW r \in Slot, req'[r].stage = "open", req'[r].op = "acquire"
        PROVE  /\ ~Live(editLock')
               /\ req'[r].lock # None /\ req'[r].lock.token # lastWrite'
               /\ editLock' # None => req'[r].lock.token # editLock'.token
    BY <1>2, <1>3, <1>5, <2>1 DEF IInv, PreparedRow
  <2>2. ASSUME NEW r \in Slot, req'[r].stage = "open", req'[r].op = "heartbeat"
        PROVE  req'[r].lock # None /\ req'[r].lock.token = editLock'.token
    <3>1. editLock # None
      BY <1>2, <2>2 DEF IInv, CheckedEditHoldsLock, OwnLock
    <3> QED
      BY <1>2, <1>3, <2>2, <3>1 DEF IInv, PreparedRow
  <2> QED
    BY <2>1, <2>2 DEF PreparedRow, Live, Expired
<1> QED
  BY <1>6, <1>7, <1>8, <1>9 DEF IInv

\* Every step keeps the invariant.
LEMMA NextInv == ASSUME IInv, [Next]_vars PROVE IInv'
<1>1. ASSUME NEW s \in Session, TabStep(s)
      PROVE  IInv'
  BY <1>1, CloseTabInv, SendInv DEF TabStep
<1>2. ASSUME NEW a \in StatusAction, AskStatus(a)
      PROVE  IInv'
  BY <1>2, SendInv
<1>3. ASSUME NEW r \in Slot, ServerStep(r) \/ Deliver(r) \/ Lose(r)
      PROVE  IInv'
  BY <1>3, ServerStepInv, SlotStepInv
<1>4. CASE Tick
  BY <1>4, TickInv
<1>5. CASE UNCHANGED vars
  BY <1>5 DEF vars, IInv, TypeOK, OpenHoldsRow, EditsComeFromTabs, OnlyStatusWaits, Sent,
              CheckedEditHoldsLock, OwnLock, PreparedRow, Live, Expired
<1> QED
  BY <1>1, <1>2, <1>3, <1>4, <1>5 DEF Next

\* The invariant holds in every behaviour.
LEMMA Invariance == Spec => []IInv
<1>1. Init => IInv
  BY InitInv
<1>2. IInv /\ [Next]_vars => IInv'
  BY NextInv
<1> QED
  BY <1>1, <1>2, PTL DEF Spec

-----------------------------------------------------------------------------
(* Theorems *)

\* Every variable keeps its type: in particular a request that opens always
\* has a tab, and so a user, behind it.
THEOREM TypeCorrect == Spec => []TypeOK
<1>1. IInv => TypeOK
  BY DEF IInv
<1> QED
  BY <1>1, Invariance, PTL

\* An edit that passed require_edit_lock still holds that lock, on a draft,
\* when it commits (core/locks.py, "no TOCTOU with status transitions").
THEOREM CheckedEditsHoldTheLock == Spec => []CheckedEditHoldsLock
<1>1. IInv => CheckedEditHoldsLock
  BY DEF IInv
<1> QED
  BY <1>1, Invariance, PTL

\* The steps that change the lock row or the status, or that edit.
Effect(r) ==
  \/ CommitAcquire(r) \/ CommitHeartbeat(r) \/ CommitRelease(r)
  \/ CommitWrite(r) \/ CommitStatus(r)

\* The steps other than the commits at most let the lock row age.
LEMMA StepKinds ==
  ASSUME [Next]_vars
  PROVE  \/ /\ editLock' \in {editLock, Aged(editLock)}
            /\ UNCHANGED <<status, lastWrite>>
         \/ \E r \in Slot : Effect(r)
<1>1. ASSUME NEW r \in Slot, ServerStep(r), ~Effect(r)
      PROVE  UNCHANGED <<status, editLock, lastWrite>>
  BY <1>1 DEF ServerStep, Effect, OpenAcquire, OpenHeartbeat, OpenRelease, OpenWrite, GetRow,
              TakeSnapshot, Refuse, SerializationFailure, Rollback, Open, Answer
<1>2. ASSUME NEW r \in Slot, Deliver(r) \/ Lose(r)
      PROVE  UNCHANGED <<status, editLock, lastWrite>>
  BY <1>2 DEF Deliver, Lose
<1>3. ASSUME NEW s \in Session, TabStep(s)
      PROVE  UNCHANGED <<status, editLock, lastWrite>>
  BY <1>3 DEF TabStep, CloseTab, Send
<1>4. ASSUME NEW a \in StatusAction, AskStatus(a)
      PROVE  UNCHANGED <<status, editLock, lastWrite>>
  BY <1>4 DEF AskStatus
<1> QED
  BY <1>1, <1>2, <1>3, <1>4 DEF Next, Tick, vars

\* A lock row that ages keeps its token.
LEMMA AgedToken ==
  ASSUME TypeOK, editLock' \in {editLock, Aged(editLock)}
  PROVE  /\ editLock' = None <=> editLock = None
         /\ editLock # None => editLock'.token = editLock.token
BY AgedRow DEF TypeOK

\* A lock changes hands only after its expiry, by its own release or with the
\* project's status.
THEOREM HandoversAreJustified == Spec => HandoverIsJustified
<1> DEFINE Taken == editLock # None /\ (editLock' = None \/ editLock'.token # editLock.token)
           Why == \/ Expired(editLock)
                  \/ status' # status
                  \/ \E r \in Slot : /\ req[r].stage = "open" /\ req[r].op = "release"
                                     /\ req[r].token = editLock.token
<1>1. ASSUME IInv, [Next]_vars, Taken
      PROVE  Why
  <2>1. PICK r \in Slot : Effect(r)
    BY <1>1, StepKinds, AgedToken DEF IInv
  <2>2. CASE CommitAcquire(r)
    BY <1>1, <2>2 DEF CommitAcquire, IInv, PreparedRow, Live
  <2>3. CASE CommitHeartbeat(r)
    BY <1>1, <2>3 DEF CommitHeartbeat, IInv, PreparedRow
  <2>4. CASE CommitRelease(r)
    BY <1>1, <2>4 DEF CommitRelease, IInv, CheckedEditHoldsLock, OwnLock
  <2>5. CASE CommitWrite(r)
    BY <1>1, <2>5 DEF CommitWrite
  <2>6. CASE CommitStatus(r)
    BY <1>1, <2>6 DEF CommitStatus, MayMove, LifecycleRules, TransitionRules, RevisionRules
  <2> QED
    BY <2>1, <2>2, <2>3, <2>4, <2>5, <2>6 DEF Effect
<1>2. IInv /\ [Next]_vars => [Taken => Why]_vars
  BY <1>1
<1> QED
  BY <1>2, Invariance, PTL DEF Spec, HandoverIsJustified

\* Outside draft nothing extends a lock or hands it over.
THEOREM ClosedLocksOnlyAge == Spec => ClosedProjectLockOnlyAges
<1>1. ASSUME IInv, [Next]_vars, status # "draft"
      PROVE  editLock' \in {None, editLock, Aged(editLock)}
  BY <1>1, StepKinds DEF Effect, CommitAcquire, CommitHeartbeat, CommitRelease, CommitWrite,
        CommitStatus, IInv, CheckedEditHoldsLock
<1>2. IInv /\ [Next]_vars
        => [status # "draft" => editLock' \in {None, editLock, Aged(editLock)}]_vars
  BY <1>1
<1> QED
  BY <1>2, Invariance, PTL DEF Spec, ClosedProjectLockOnlyAges

\* The lock protocol implements fenced editing: an edit takes effect only
\* while its token owns the project, whatever the interleaving of requests.
THEOREM ImplementsFenced == Spec => ImplementsFencedEditing
<1> DEFINE owner == IF editLock = None THEN None ELSE editLock.token
<1>1. Init => Fenced!Init
  BY DEF Init, Fenced!Init
<1>2. ASSUME IInv, [Next]_vars
      PROVE  [Fenced!Next]_Fenced!vars
  <2>1. CASE editLock' \in {editLock, Aged(editLock)} /\ UNCHANGED <<status, lastWrite>>
    BY <1>2, <2>1, AgedToken DEF IInv, Fenced!vars
  <2>2. ASSUME NEW r \in Slot, Effect(r)
        PROVE  [Fenced!Next]_Fenced!vars
    <3>1. CASE CommitAcquire(r)
      <4>1. /\ status = "draft" /\ req[r].lock # None
            /\ req[r].lock.token \notin {owner, lastWrite}
            /\ req[r].lock.token \in Token
        BY <1>2, <3>1, ConstantsAssumption
           DEF CommitAcquire, IInv, CheckedEditHoldsLock, PreparedRow, TypeOK, Request, LockRow
      <4> QED
        BY <3>1, <4>1 DEF CommitAcquire, Fenced!Next, Fenced!Grant
    <3>2. CASE CommitHeartbeat(r)
      BY <1>2, <3>2 DEF CommitHeartbeat, IInv, CheckedEditHoldsLock, OwnLock, PreparedRow,
                        Fenced!vars
    <3>3. CASE CommitRelease(r)
      BY <3>3 DEF CommitRelease, Fenced!Next, Fenced!Give
    <3>4. CASE CommitWrite(r)
      <4>1. status = "draft" /\ OwnLock(r) /\ TypeOK
        BY <1>2, <3>4 DEF CommitWrite, IInv, CheckedEditHoldsLock
      <4>2. editLock # None /\ editLock.token # None
        <5>1. editLock \in LockRow
          BY <4>1 DEF OwnLock, TypeOK
        <5> QED
          BY <5>1, ConstantsAssumption DEF LockRow
      <4> QED
        BY <3>4, <4>1, <4>2 DEF CommitWrite, OwnLock, Fenced!Next, Fenced!Write
    <3>5. CASE CommitStatus(r)
      <4>1. editLock' \in {editLock, None} /\ UNCHANGED lastWrite
        BY <3>5 DEF CommitStatus
      <4>2. \/ status = "draft" /\ status' # "draft"
            \/ status # "draft" /\ status' = "draft" /\ editLock' = editLock
            \/ status # "draft" /\ status' # "draft"
        BY <3>5 DEF CommitStatus, MayMove, LifecycleRules, TransitionRules, RevisionRules,
                    ClearsLock
      <4> QED
        BY <4>1, <4>2 DEF Fenced!Next, Fenced!Close, Fenced!Reopen, Fenced!Give, Fenced!vars
    <3> QED
      BY <2>2, <3>1, <3>2, <3>3, <3>4, <3>5 DEF Effect
  <2> QED
    BY <1>2, <2>1, <2>2, StepKinds
<1> QED
  BY <1>1, <1>2, Invariance, PTL DEF Spec, ImplementsFencedEditing, Fenced!Spec

-----------------------------------------------------------------------------
(* The validation of the sheet: the types of what the page keeps.              *)
Writing == [stage : {"none", "sent", "applied"}, ids : SUBSET Nat, structure : BOOLEAN]
Editing == [dirty : SUBSET Nat, write : Writing, held : BOOLEAN, error : BOOLEAN,
            told : BOOLEAN, gen : Nat, shaped : SUBSET Nat]
CachedSheet == [rows : SUBSET Nat, basis : Nat, layers : SUBSET Nat, choices : BOOLEAN,
                failed : BOOLEAN]
SheetRead == [stage : {"none", "asked", "served"}, rows : SUBSET Nat, basis : Nat,
              awaited : BOOLEAN]
Published == [auth : Nat, basis : Nat, ready : BOOLEAN, gen : Nat, idle : BOOLEAN]
Controller == [timer : BOOLEAN, pending : BOOLEAN, active : Nat, issued : Nat]
Validation == [id : Nat, auth : Nat, basis : Nat, gen : Nat, explicit : BOOLEAN,
               stage : {"asked", "served", "reading"}, rows : SUBSET Nat, found : Nat]
Finding == [confirmed : BOOLEAN, rows : SUBSET Nat, basis : Nat, auth : Nat, gen : Nat,
            status : {"idle", "waiting", "validating", "confirmed", "failed"},
            failure : {"none", "definitions", "persistence", "server"}, explicit : BOOLEAN]

PageTypes ==
    /\ server \in [rows : SUBSET Nat, basis : Nat, layers : SUBSET Nat] /\ made \in Nat
    /\ edit \in Editing /\ sheet \in CachedSheet /\ get \in SheetRead /\ auth \in Nat
ControllerTypes ==
    /\ pub \in Published /\ ctl \in Controller
    /\ requests \subseteq Validation /\ result \in Finding
    /\ waits \subseteq [auth : Nat, explicit : BOOLEAN]

(* A save takes what is dirty, or changes the structure; nothing was stored or *)
(* found that was not made before.                                             *)
Structural == Saving /\ edit.write.structure
SavesWhatIsDirty ==
    /\ Saving /\ ~edit.write.structure =>
           edit.write.ids # {} /\ edit.write.ids \subseteq edit.dirty
    /\ edit.write.stage = "applied" =>
           /\ edit.write.ids \subseteq server.rows
           /\ edit.write.structure => edit.write.ids \subseteq server.layers
RowsAreMade ==
    /\ \A w \in server.rows \cup edit.dirty \cup edit.write.ids : w <= made
    /\ server.layers \subseteq server.rows
    /\ sheet.rows \subseteq server.rows /\ get.rows \subseteq server.rows
FoundBefore == result.gen <= edit.gen /\ \A r \in requests : r.gen <= edit.gen

(* The sheet lacks what is dirty and what changed the structure, and so will a *)
(* read that is under way; while it does not know the layers of the project,   *)
(* these are being read, or the user was told.                                 *)
SheetLacksLittle ==
    /\ server.rows \subseteq sheet.rows \cup edit.dirty \cup server.layers
    /\ get.stage = "served" => server.rows \subseteq get.rows \cup edit.dirty \cup server.layers
LayersAreKnown == project \/ edit.told \/ Structural \/ sheet.layers = server.layers

(* While nothing that is dirty has been stored, what was found in this         *)
(* generation is about the rows that are stored.                               *)
Quiet == ~edit.told /\ ~Structural /\ edit.dirty \cap server.rows = {}
FindingsFit ==
    Quiet => /\ result.confirmed /\ result.gen = edit.gen => result.rows = server.rows
             /\ \A r \in requests : r.stage = "served" /\ r.gen = edit.gen => r.rows = server.rows

PageInv == SavesWhatIsDirty /\ RowsAreMade /\ SheetLacksLittle /\ LayersAreKnown
FindingsInv == FoundBefore /\ FindingsFit
VInv == PageTypes /\ ControllerTypes /\ PageInv /\ FindingsInv

LEMMA InitValidation == ASSUME ValidationConstants PROVE ValidationInit => VInv
  <1> SUFFICES ASSUME ValidationInit PROVE VInv
    OBVIOUS
  <1>1. PageTypes /\ ControllerTypes
    BY DEF ValidationInit, PageTypes, ControllerTypes, Writing, Editing, CachedSheet, SheetRead,
           Published, Controller, Finding, NoRead, NoWrite, NoResult
  <1>2. PageInv /\ FindingsInv
    BY DEF ValidationInit, PageInv, FindingsInv, SavesWhatIsDirty, RowsAreMade, SheetLacksLittle,
           LayersAreKnown, FoundBefore, FindingsFit, Saving, NoRead, NoWrite, NoResult
  <1> QED BY <1>1, <1>2 DEF VInv

(* What the controller does: it takes no findings but those of an answer, and  *)
(* what it asks for is of this generation.                                     *)
KeepsFindings ==
    /\ result'.confirmed = result.confirmed /\ result'.rows = result.rows
    /\ result'.gen = result.gen
    /\ \A r \in requests' : r \in requests \/ (r.stage # "served" /\ r.gen <= edit.gen)

LEMMA StartKeepsFindings ==
    ASSUME PageTypes, ControllerTypes, NEW explicit \in BOOLEAN, StartRequest(explicit)
    PROVE  ctl' \in Controller /\ requests' \subseteq Validation /\ result' \in Finding
           /\ KeepsFindings
  <1> DEFINE quiet == [ctl EXCEPT !.timer = FALSE, !.pending = FALSE]
             new == [id |-> ctl.issued + 1, auth |-> pub.auth, basis |-> pub.basis,
                     gen |-> edit.gen, explicit |-> explicit, stage |-> "asked", rows |-> {},
                     found |-> 0]
  <1>1. quiet \in Controller /\ quiet.issued = ctl.issued /\ ctl.issued \in Nat
    BY DEF ControllerTypes, Controller
  <1>2. new \in Validation /\ new.stage # "served" /\ new.gen <= edit.gen
    BY DEF PageTypes, ControllerTypes, Controller, Published, Editing, Validation
  <1> HIDE DEF quiet, new
  <1>3. ASSUME NEW why \in {"definitions", "persistence"},
               ctl' = quiet, UNCHANGED requests,
               result' = [result EXCEPT !.status = "failed", !.failure = why]
        PROVE  ctl' \in Controller /\ requests' \subseteq Validation /\ result' \in Finding
               /\ KeepsFindings
    BY <1>1, <1>3 DEF ControllerTypes, Finding, KeepsFindings
  <1>4. CASE /\ ctl' = [quiet EXCEPT !.active = ctl.issued + 1, !.issued = @ + 1]
             /\ requests' = requests \cup {new}
             /\ result' = [result EXCEPT !.status = "validating", !.failure = "none"]
    <2>1. ctl' \in Controller
      <3>1. PICK n \in Nat : n = ctl.issued + 1
        BY <1>1
      <3>2. ctl' = [quiet EXCEPT !.active = n, !.issued = n]
        BY <1>1, <1>4, <3>1
      <3> QED BY <1>1, <3>2 DEF Controller
    <2>2. requests' \subseteq Validation /\ \A r \in requests' : r \in requests \/ r = new
      BY <1>2, <1>4 DEF ControllerTypes
    <2>3. result' \in Finding /\ result'.confirmed = result.confirmed
          /\ result'.rows = result.rows /\ result'.gen = result.gen
      BY <1>4 DEF ControllerTypes, Finding
    <2> QED BY <1>2, <2>1, <2>2, <2>3 DEF KeepsFindings
  <1>5. CASE ~pub.ready
    <2>1. ctl' = quiet /\ UNCHANGED requests
          /\ result' = [result EXCEPT !.status = "failed", !.failure = "definitions"]
      BY <1>5 DEF StartRequest, quiet
    <2> QED BY <1>3, <2>1
  <1>6. CASE pub.ready /\ ~MayPersist
    <2>1. ctl' = quiet /\ UNCHANGED requests
          /\ result' = [result EXCEPT !.status = "failed", !.failure = "persistence"]
      BY <1>6 DEF StartRequest, quiet
    <2> QED BY <1>3, <2>1
  <1>7. CASE pub.ready /\ MayPersist
    BY <1>4, <1>7 DEF StartRequest, quiet, new
  <1> QED BY <1>5, <1>6, <1>7

LEMMA ContextType == ASSUME PageTypes PROVE Context \in Published
  <1>1. PICK ready \in BOOLEAN : ready = Ready(sheet)
    BY DEF Ready
  <1>2. PICK idle \in BOOLEAN : idle = PersistenceIdle
    BY DEF PersistenceIdle
  <1>3. auth \in Nat /\ sheet.basis \in Nat /\ edit.gen \in Nat
    BY DEF PageTypes, CachedSheet, Editing
  <1> QED BY <1>1, <1>2, <1>3 DEF Context, Published

LEMMA ScheduleType ==
    ASSUME NEW c \in Controller, NEW p \in Published
    PROVE  Schedule(c, p) \in Controller /\ Superseded(c) \in Controller
  <1>1. PICK timer \in BOOLEAN : timer = (c.pending /\ p.ready /\ p.idle /\ MayPersist)
    OBVIOUS
  <1>2. Schedule(c, p) = [c EXCEPT !.timer = timer]
    BY <1>1 DEF Schedule
  <1> QED BY <1>2 DEF Controller, Superseded

LEMMA AskKeepsFindings ==
    ASSUME PageTypes, ControllerTypes, NEW explicit \in BOOLEAN, Ask(explicit), UNCHANGED pub
    PROVE  ControllerTypes' /\ KeepsFindings
  <1>1. CASE MayPersist /\ pub.idle
    BY <1>1, StartKeepsFindings DEF Ask, ControllerTypes
  <1>2. CASE ~(MayPersist /\ pub.idle)
    <2>1. /\ waits' = waits \cup {[auth |-> pub.auth, explicit |-> explicit]}
          /\ result' = [result EXCEPT !.status = "waiting", !.failure = "none"]
          /\ UNCHANGED <<ctl, requests>>
      BY <1>2 DEF Ask
    <2>2. waits' \subseteq [auth : Nat, explicit : BOOLEAN]
      BY <2>1 DEF ControllerTypes, Published
    <2>3. result' \in Finding /\ KeepsFindings
      BY <2>1 DEF ControllerTypes, Finding, KeepsFindings
    <2> QED BY <2>1, <2>2, <2>3 DEF ControllerTypes
  <1> QED BY <1>1, <1>2

LEMMA FailsKeepsFindings ==
    ASSUME ControllerTypes, NEW r \in requests, NEW why \in {"definitions", "server"}, Fails(r, why)
    PROVE  ControllerTypes' /\ KeepsFindings
  <1>1. ctl' \in Controller /\ requests' \subseteq requests
    BY DEF Fails, Finish, ControllerTypes, Controller
  <1>2. result' \in Finding /\ result'.confirmed = result.confirmed
        /\ result'.rows = result.rows /\ result'.gen = result.gen
    BY DEF Fails, ControllerTypes, Finding
  <1>3. UNCHANGED <<pub, waits>>
    BY DEF Fails
  <1> QED BY <1>1, <1>2, <1>3 DEF ControllerTypes, KeepsFindings

LEMMA ControllerSteps ==
    ASSUME PageTypes, ControllerTypes,
           \/ Publish \/ TimerFires \/ ExplicitlyValidate \/ Retry \/ WaitEnds
           \/ RequestReread \/ RequestFails
    PROVE  ControllerTypes' /\ KeepsFindings /\ UNCHANGED <<server, made, client>>
  <1>1. CASE Publish
    <2>1. pub' \in Published /\ UNCHANGED <<server, made, client, requests, waits>>
      BY <1>1, ContextType DEF Publish
    <2>2. ctl' \in Controller
      BY <1>1, ScheduleType, ContextType DEF Publish, ControllerTypes
    <2>3. PICK why \in {"none", "definitions"} : why = IF Ready(sheet) THEN "none" ELSE "definitions"
      OBVIOUS
    <2>4. result' \in {result, [result EXCEPT !.status = "idle", !.failure = why]}
      BY <1>1, <2>3 DEF Publish
    <2>5. result' \in Finding /\ result'.confirmed = result.confirmed
          /\ result'.rows = result.rows /\ result'.gen = result.gen
      BY <2>4 DEF ControllerTypes, Finding
    <2> QED BY <2>1, <2>2, <2>5 DEF ControllerTypes, KeepsFindings
  <1>2. CASE TimerFires
    BY <1>2, StartKeepsFindings DEF TimerFires, ControllerTypes
  <1>3. CASE ExplicitlyValidate
    BY <1>3, AskKeepsFindings DEF ExplicitlyValidate
  <1>4. CASE Retry
    BY <1>4, AskKeepsFindings DEF Retry
  <1>5. CASE WaitEnds
    <2>1. PICK w \in waits :
             /\ waits' = waits \ {w}
             /\ CASE w.auth # pub.auth -> UNCHANGED <<ctl, requests, result>>
                  [] w.auth = pub.auth /\ MayPersist -> StartRequest(w.explicit)
                  [] OTHER -> /\ result' = [result EXCEPT !.status = "failed",
                                                          !.failure = "persistence"]
                              /\ UNCHANGED <<ctl, requests>>
             /\ UNCHANGED <<server, made, client, pub>>
      BY <1>5 DEF WaitEnds
    <2>2. w.explicit \in BOOLEAN /\ waits' \subseteq [auth : Nat, explicit : BOOLEAN]
      BY <2>1 DEF ControllerTypes
    <2>3. CASE UNCHANGED <<ctl, requests, result>>
      BY <2>1, <2>2, <2>3 DEF ControllerTypes, KeepsFindings
    <2>4. CASE StartRequest(w.explicit)
      BY <2>1, <2>2, <2>4, StartKeepsFindings DEF ControllerTypes
    <2>5. CASE /\ result' = [result EXCEPT !.status = "failed", !.failure = "persistence"]
               /\ UNCHANGED <<ctl, requests>>
      <3>1. result' \in Finding /\ KeepsFindings
        BY <2>5 DEF ControllerTypes, Finding, KeepsFindings
      <3> QED BY <2>1, <2>2, <2>5, <3>1 DEF ControllerTypes
    <2> QED BY <2>1, <2>3, <2>4, <2>5
  <1>6. CASE RequestReread
    <2>1. PICK r \in requests : Fails(r, "definitions")
      BY <1>6 DEF RequestReread
    <2>2. UNCHANGED <<server, made, client>>
      BY <2>1 DEF Fails
    <2> QED BY <2>1, <2>2, FailsKeepsFindings
  <1>7. CASE RequestFails
    <2>1. PICK r \in requests : Fails(r, "server")
      BY <1>7 DEF RequestFails
    <2>2. UNCHANGED <<server, made, client>>
      BY <2>1 DEF Fails
    <2> QED BY <2>1, <2>2, FailsKeepsFindings
  <1> QED BY <1>1, <1>2, <1>3, <1>4, <1>5, <1>6, <1>7

LEMMA KeptFindings ==
    ASSUME PageTypes, ControllerTypes, FindingsInv, KeepsFindings, UNCHANGED <<server, edit>>
    PROVE  FindingsInv'
  <1>1. FoundBefore'
    BY DEF FindingsInv, FoundBefore, KeepsFindings
  <1>2. Quiet' = Quiet
    BY DEF Quiet, Structural, Saving
  <1>3. FindingsFit'
    BY <1>2 DEF FindingsInv, FindingsFit, KeepsFindings
  <1> QED BY <1>1, <1>3 DEF FindingsInv

LEMMA PageRests == ASSUME PageTypes, PageInv, UNCHANGED <<server, made, client>>
                   PROVE  PageTypes' /\ PageInv'
  BY DEF client, PageTypes, PageInv, SavesWhatIsDirty, RowsAreMade, SheetLacksLittle, LayersAreKnown,
         Structural, Saving

(* The service finds the rows it stores, and an answer is adopted as it was    *)
(* found if nothing was saved since it was asked for.                          *)
LEMMA ServedFindings ==
    ASSUME PageTypes, ControllerTypes, FindingsInv, RequestServed
    PROVE  ControllerTypes' /\ FindingsInv'
  <1>1. PICK r \in requests :
           /\ r.stage = "asked"
           /\ requests' = (requests \ {r}) \cup
                {[r EXCEPT !.stage = "served", !.rows = server.rows, !.found = server.basis]}
           /\ UNCHANGED <<server, made, client, pub, ctl, waits, result>>
    BY DEF RequestServed
  <1>2. PICK q : q = [r EXCEPT !.stage = "served", !.rows = server.rows, !.found = server.basis]
    OBVIOUS
  <1>3. q \in Validation /\ q.gen = r.gen /\ q.rows = server.rows
    BY <1>2 DEF ControllerTypes, PageTypes, Validation
  <1>4. ControllerTypes'
    BY <1>1, <1>2, <1>3 DEF ControllerTypes
  <1>5. UNCHANGED <<server, edit, result>> /\ \A p \in requests' : p \in requests \/ p = q
    BY <1>1, <1>2 DEF client
  <1>6. FoundBefore'
    BY <1>3, <1>5 DEF FindingsInv, FoundBefore
  <1>7. Quiet' = Quiet
    BY <1>5 DEF Quiet, Structural, Saving
  <1>8. FindingsFit'
    BY <1>3, <1>5, <1>7 DEF FindingsInv, FindingsFit
  <1> QED BY <1>4, <1>6, <1>8 DEF FindingsInv

LEMMA AnsweredFindings ==
    ASSUME PageTypes, ControllerTypes, PageInv, FindingsInv, RequestAnswered
    PROVE  PageTypes' /\ ControllerTypes' /\ PageInv' /\ FindingsInv'
  <1>1. PICK r \in requests :
           /\ r.stage = "served"
           /\ CASE ~CaptureIsCurrent(r) -> Finish(r) /\ UNCHANGED <<result, get>>
                [] CaptureIsCurrent(r) /\ r.found # r.basis ->
                     /\ requests' = (requests \ {r}) \cup {[r EXCEPT !.stage = "reading"]}
                     /\ ReadSheet(TRUE) /\ UNCHANGED <<ctl, result>>
                [] OTHER -> Finish(r) /\ Adopt(r) /\ UNCHANGED get
           /\ UNCHANGED <<server, made, sheet, project, edit, auth, pub, waits>>
    BY DEF RequestAnswered
  <1>2. r \in Validation
    BY DEF ControllerTypes
  <1>3. ASSUME UNCHANGED get PROVE PageTypes' /\ PageInv'
    BY <1>1, <1>3, PageRests DEF client
  <1>4. CASE Finish(r) /\ UNCHANGED <<result, get>>
    <2>1. ctl' \in Controller /\ requests' \subseteq requests
      BY <1>4 DEF Finish, ControllerTypes, Controller
    <2>2. ControllerTypes' /\ KeepsFindings
      BY <1>1, <1>4, <2>1 DEF ControllerTypes, KeepsFindings
    <2> QED BY <1>1, <1>3, <1>4, <2>2, KeptFindings
  <1>5. CASE /\ requests' = (requests \ {r}) \cup {[r EXCEPT !.stage = "reading"]}
             /\ ReadSheet(TRUE) /\ UNCHANGED <<ctl, result>>
    <2>1. PICK q : q = [r EXCEPT !.stage = "reading"]
      OBVIOUS
    <2>2. q \in Validation /\ q.stage = "reading" /\ q.gen = r.gen
      BY <1>2, <2>1 DEF Validation
    <2>3. ControllerTypes'
      BY <1>1, <1>5, <2>1, <2>2 DEF ControllerTypes
    <2>4. r.gen <= edit.gen
      BY DEF FindingsInv, FoundBefore
    <2>5. KeepsFindings
      BY <1>5, <2>1, <2>2, <2>4 DEF KeepsFindings
    <2>6. get' \in SheetRead /\ get'.stage = "asked" /\ get'.rows = {}
      BY <1>5 DEF ReadSheet, NoRead, SheetRead
    <2>7. PageTypes'
      BY <1>1, <2>6 DEF PageTypes
    <2>8. PageInv'
      BY <1>1, <2>6 DEF PageInv, SavesWhatIsDirty, RowsAreMade, SheetLacksLittle, LayersAreKnown,
                        Structural, Saving
    <2> QED BY <1>1, <2>3, <2>5, <2>7, <2>8, KeptFindings
  <1>6. CASE Finish(r) /\ Adopt(r) /\ UNCHANGED get
    <2>1. ctl' \in Controller /\ requests' \subseteq requests
      BY <1>6 DEF Finish, ControllerTypes, Controller
    <2>2. PICK explicit \in BOOLEAN : explicit = (result.explicit \/ r.explicit)
      OBVIOUS
    <2>3. result' = [confirmed |-> TRUE, rows |-> r.rows, basis |-> r.found, auth |-> r.auth,
                     gen |-> r.gen, status |-> "confirmed", failure |-> "none",
                     explicit |-> explicit]
      BY <1>6, <2>2 DEF Adopt
    <2>4. result' \in Finding /\ result'.rows = r.rows /\ result'.gen = r.gen
      BY <1>2, <2>2, <2>3 DEF Finding, Validation
    <2>5. ControllerTypes'
      BY <1>1, <2>1, <2>4 DEF ControllerTypes
    <2>6. FoundBefore'
      BY <1>1, <2>1, <2>4 DEF FindingsInv, FoundBefore
    <2>7. Quiet' = Quiet
      BY <1>1 DEF Quiet, Structural, Saving
    <2>8. FindingsFit'
      BY <1>1, <2>1, <2>4, <2>7 DEF FindingsInv, FindingsFit
    <2> QED BY <1>3, <1>6, <2>5, <2>6, <2>8 DEF FindingsInv
  <1>7. CASE ~CaptureIsCurrent(r)
    BY <1>1, <1>4, <1>7
  <1>8. CASE CaptureIsCurrent(r) /\ r.found # r.basis
    BY <1>1, <1>5, <1>8
  <1>9. CASE CaptureIsCurrent(r) /\ r.found = r.basis
    BY <1>1, <1>6, <1>9
  <1> QED BY <1>7, <1>8, <1>9

(* The steps of the page and of its service leave the controller alone.  What  *)
(* was found stays as it is; either it is still about the rows stored, or      *)
(* something dirty was stored, or the generation is over.                      *)
LEMMA RestingFindings ==
    ASSUME ControllerTypes, FindingsInv, UNCHANGED controller, edit'.gen = edit.gen,
           Quiet' => Quiet /\ server'.rows = server.rows
    PROVE  ControllerTypes' /\ FindingsInv'
  <1>1. UNCHANGED <<pub, ctl, requests, waits, result>>
    BY DEF controller
  <1>2. ControllerTypes' /\ FoundBefore'
    BY <1>1 DEF ControllerTypes, FindingsInv, FoundBefore
  <1>3. FindingsFit'
    BY <1>1 DEF FindingsInv, FindingsFit
  <1> QED BY <1>2, <1>3 DEF FindingsInv

LEMMA ShowType ==
    ASSUME PageTypes, NEW s \in CachedSheet, Show(s)
    PROVE  sheet' = s /\ sheet' \in CachedSheet /\ auth' \in Nat
  BY DEF Show, PageTypes

(* The user and the service.                                                   *)
LEMMA EditValidation ==
    ASSUME VInv, ~OthersWrite, ChangeRules \/ OtherWrites \/ LockChanges \/ Edit \/ Save \/ Restructure
    PROVE  VInv'
  <1> USE DEF VInv
  <1>1. CASE ChangeRules
    <2>1. server' \in [rows : SUBSET Nat, basis : Nat, layers : SUBSET Nat]
          /\ server'.rows = server.rows /\ server'.layers = server.layers
          /\ UNCHANGED <<made, client, controller>>
      BY <1>1 DEF ChangeRules, PageTypes
    <2>2. UNCHANGED <<made, sheet, get, project, edit, auth>>
      BY <2>1 DEF client
    <2>3. PageTypes' /\ PageInv'
      BY <2>1, <2>2 DEF PageTypes, PageInv, SavesWhatIsDirty, RowsAreMade, SheetLacksLittle,
                        LayersAreKnown, Structural, Saving
    <2>4. Quiet' = Quiet
      BY <2>1, <2>2 DEF Quiet, Structural, Saving
    <2> QED BY <2>1, <2>2, <2>3, <2>4, RestingFindings
  <1>2. CASE OtherWrites \/ LockChanges
    BY <1>2 DEF OtherWrites, LockChanges
  <1>3. CASE Edit
    <2>1. /\ made' = made + 1 /\ edit' = [edit EXCEPT !.dirty = @ \cup {made + 1}]
          /\ ~Structural /\ UNCHANGED <<server, sheet, get, project, auth, controller>>
      BY <1>3 DEF Edit, Structural
    <2>2. /\ edit' \in Editing /\ edit'.dirty = edit.dirty \cup {made + 1} /\ made \in Nat
          /\ edit'.write = edit.write /\ edit'.gen = edit.gen /\ edit'.told = edit.told
      BY <2>1 DEF PageTypes, Editing
    <2>3. PageTypes'
      BY <2>1, <2>2 DEF PageTypes
    <2>4. PageInv'
      <3>1. SavesWhatIsDirty' /\ SheetLacksLittle' /\ LayersAreKnown'
        BY <2>1, <2>2 DEF PageInv, SavesWhatIsDirty, SheetLacksLittle, LayersAreKnown, Structural,
                          Saving
      <3>2. \A w \in server'.rows \cup edit'.dirty \cup edit'.write.ids : w <= made'
        <4> SUFFICES ASSUME NEW w \in server.rows \cup edit.dirty \cup edit.write.ids
                     PROVE  w <= made + 1
          BY <2>1, <2>2
        <4> QED BY <2>2 DEF PageInv, RowsAreMade, PageTypes, Editing, Writing
      <3> QED BY <2>1, <3>1, <3>2 DEF PageInv, RowsAreMade
    <2>5. Quiet' => Quiet
      BY <2>1, <2>2 DEF Quiet, Structural, Saving
    <2> QED BY <2>1, <2>2, <2>3, <2>4, <2>5, RestingFindings
  <1>4. CASE Save
    <2>1. PICK w : w = [NoWrite EXCEPT !.stage = "sent", !.ids = edit.dirty]
      OBVIOUS
    <2>2. /\ w \in Writing /\ w.stage = "sent" /\ w.ids = edit.dirty /\ w.structure = FALSE
      BY <2>1 DEF NoWrite, Writing, PageTypes, Editing
    <2>3. /\ edit' = [edit EXCEPT !.write = w, !.error = FALSE]
          /\ edit.dirty # {} /\ ~Saving
          /\ UNCHANGED <<server, made, sheet, get, project, auth, controller>>
      BY <1>4, <2>1 DEF Save
    <2>4. /\ edit' \in Editing /\ edit'.dirty = edit.dirty
          /\ edit'.write = w /\ edit'.gen = edit.gen /\ edit'.told = edit.told
      BY <2>2, <2>3 DEF PageTypes, Editing
    <2>5. PageTypes'
      BY <2>3, <2>4 DEF PageTypes
    <2>6. PageInv'
      BY <2>2, <2>3, <2>4 DEF PageInv, SavesWhatIsDirty, RowsAreMade, SheetLacksLittle,
                              LayersAreKnown, Structural, Saving
    <2>7. Quiet' => Quiet
      BY <2>2, <2>3, <2>4 DEF Quiet, Structural, Saving
    <2> QED BY <2>3, <2>4, <2>5, <2>6, <2>7, RestingFindings
  <1>5. CASE Restructure
    <2>1. PICK w : w = [stage |-> "sent", ids |-> {made + 1}, structure |-> TRUE]
      OBVIOUS
    <2>2. w \in Writing /\ w.stage = "sent" /\ w.ids = {made + 1} /\ w.structure /\ made \in Nat
      BY <2>1 DEF Writing, PageTypes
    <2>3. /\ edit' = [edit EXCEPT !.write = w, !.told = FALSE] /\ made' = made + 1
          /\ sheet' = [sheet EXCEPT !.failed = FALSE]
          /\ UNCHANGED <<server, get, project, auth, controller>>
      BY <1>5, <2>1 DEF Restructure
    <2>4. /\ edit' \in Editing /\ edit'.dirty = edit.dirty
          /\ edit'.write = w /\ edit'.gen = edit.gen
          /\ sheet' \in CachedSheet /\ sheet'.rows = sheet.rows /\ sheet'.layers = sheet.layers
      BY <2>2, <2>3 DEF PageTypes, Editing, CachedSheet
    <2>5. PageTypes'
      BY <2>2, <2>3, <2>4 DEF PageTypes
    <2>6. Structural'
      BY <2>2, <2>4 DEF Structural, Saving
    <2>7. PageInv'
      <3>1. SavesWhatIsDirty' /\ SheetLacksLittle' /\ LayersAreKnown'
        BY <2>2, <2>3, <2>4, <2>6 DEF PageInv, SavesWhatIsDirty, SheetLacksLittle, LayersAreKnown
      <3>2. \A x \in server'.rows \cup edit'.dirty \cup edit'.write.ids : x <= made'
        <4> SUFFICES ASSUME NEW x \in server.rows \cup edit.dirty \cup {made + 1}
                     PROVE  x <= made + 1
          BY <2>2, <2>3, <2>4
        <4> QED BY <2>2 DEF PageInv, RowsAreMade, PageTypes, Editing
      <3> QED BY <2>3, <2>4, <3>1, <3>2 DEF PageInv, RowsAreMade
    <2> QED BY <2>3, <2>4, <2>5, <2>6, <2>7, RestingFindings DEF Quiet
  <1> QED BY <1>1, <1>2, <1>3, <1>4, <1>5

LEMMA WriteValidation ==
    ASSUME VInv, WriteServed \/ WriteAnswered \/ WriteFails
    PROVE  VInv'
  <1> USE DEF VInv
  <1>0. /\ edit.write \in Writing /\ edit \in Editing /\ edit.write.ids \in SUBSET Nat
        /\ server \in [rows : SUBSET Nat, basis : Nat, layers : SUBSET Nat]
    BY DEF PageTypes, Editing, Writing
  <1>1. CASE WriteServed
    <2>1. PICK w : w = [edit.write EXCEPT !.stage = "applied"]
      OBVIOUS
    <2>2. w \in Writing /\ w.stage = "applied" /\ w.ids = edit.write.ids
          /\ w.structure = edit.write.structure
      BY <1>0, <2>1 DEF Writing
    <2>3. PICK layers : layers = IF edit.write.structure THEN server.layers \cup edit.write.ids
                                 ELSE server.layers
      OBVIOUS
    <2>4. /\ edit' = [edit EXCEPT !.write = w] /\ edit.write.stage = "sent"
          /\ server' = [server EXCEPT !.rows = @ \cup edit.write.ids, !.layers = layers]
          /\ UNCHANGED <<made, sheet, get, project, auth, controller>>
      BY <1>1, <2>1, <2>3 DEF WriteServed
    <2>5. /\ edit' \in Editing /\ edit'.dirty = edit.dirty
          /\ edit'.write = w /\ edit'.gen = edit.gen /\ edit'.told = edit.told
      BY <1>0, <2>2, <2>4 DEF Editing
    <2>6. /\ server' \in [rows : SUBSET Nat, basis : Nat, layers : SUBSET Nat]
          /\ server'.rows = server.rows \cup edit.write.ids /\ server'.layers = layers
      BY <1>0, <2>3, <2>4
    <2>7. PageTypes'
      BY <2>4, <2>5, <2>6 DEF PageTypes
    <2>8. SavesWhatIsDirty' /\ RowsAreMade'
      BY <2>2, <2>3, <2>4, <2>5, <2>6 DEF PageInv, SavesWhatIsDirty, RowsAreMade, Saving
    <2>9. SheetLacksLittle'
      <3>1. edit.write.ids \subseteq edit.dirty \cup layers
        BY <2>3, <2>4 DEF PageInv, SavesWhatIsDirty, Saving
      <3>2. server.layers \subseteq layers
        BY <2>3
      <3> QED BY <2>4, <2>5, <2>6, <3>1, <3>2 DEF PageInv, SheetLacksLittle
    <2>10. LayersAreKnown'
      BY <2>2, <2>3, <2>4, <2>5, <2>6 DEF PageInv, LayersAreKnown, Structural, Saving
    <2>11. ~Quiet'
      <3>1. CASE edit.write.structure
        BY <2>2, <2>5, <3>1 DEF Quiet, Structural, Saving
      <3>2. CASE ~edit.write.structure
        <4>1. edit.write.ids # {} /\ edit.write.ids \subseteq edit.dirty
          BY <2>4, <3>2 DEF PageInv, SavesWhatIsDirty, Saving
        <4> QED BY <2>5, <2>6, <4>1 DEF Quiet
      <3> QED BY <3>1, <3>2
    <2> QED BY <2>4, <2>5, <2>7, <2>8, <2>9, <2>10, <2>11, RestingFindings DEF PageInv
  <1>2. CASE WriteAnswered
    <2>1. PICK shaped \in SUBSET Nat :
             shaped = IF edit.write.structure THEN edit.shaped \cup edit.write.ids ELSE edit.shaped
      BY <1>0 DEF Editing
    <2>2. /\ edit.write.stage = "applied"
          /\ edit' = [edit EXCEPT !.write = NoWrite, !.dirty = @ \ edit.write.ids, !.gen = @ + 1,
                                  !.shaped = shaped]
          /\ UNCHANGED <<server, made, controller>>
      BY <1>2, <2>1 DEF WriteAnswered
    <2>3. NoWrite \in Writing /\ NoWrite.stage = "none" /\ NoWrite.ids = {}
      BY DEF NoWrite, Writing
    <2>4. /\ edit' \in Editing /\ edit'.dirty = edit.dirty \ edit.write.ids
          /\ edit'.write = NoWrite /\ edit'.gen = edit.gen + 1 /\ edit'.told = edit.told
      <3>1. PICK gen \in Nat : gen = edit.gen + 1
        BY <1>0 DEF Editing
      <3>2. edit' = [edit EXCEPT !.write = NoWrite, !.dirty = edit.dirty \ edit.write.ids,
                                 !.gen = gen, !.shaped = shaped]
        BY <1>0, <2>2, <3>1
      <3> QED BY <1>0, <2>3, <3>1, <3>2 DEF Editing
    <2>5. PageTypes' /\ PageInv'
      <3>1. SavesWhatIsDirty' /\ ~Structural'
        BY <2>3, <2>4 DEF SavesWhatIsDirty, Structural, Saving
      <3>2. \A w \in server'.rows \cup edit'.dirty \cup edit'.write.ids : w <= made'
        BY <2>2, <2>3, <2>4 DEF PageInv, RowsAreMade
      <3>3. CASE edit.write.structure
        <4>1. /\ get' = [NoRead EXCEPT !.stage = "asked", !.awaited = FALSE] /\ project' = TRUE
              /\ UNCHANGED <<sheet, auth>>
          BY <1>2, <3>3 DEF WriteAnswered, ReadSheet
        <4>2. get' \in SheetRead /\ get'.stage = "asked" /\ get'.rows = {}
          BY <4>1 DEF NoRead, SheetRead
        <4>3. PageTypes' /\ RowsAreMade'
          BY <2>2, <2>4, <3>2, <4>1, <4>2 DEF PageTypes, PageInv, RowsAreMade
        <4>4. edit.write.ids \subseteq server.layers
          BY <2>2, <3>3 DEF PageInv, SavesWhatIsDirty
        <4>5. SheetLacksLittle' /\ LayersAreKnown'
          BY <2>2, <2>4, <4>1, <4>2, <4>4 DEF PageInv, SheetLacksLittle, LayersAreKnown
        <4> QED BY <3>1, <4>3, <4>5 DEF PageInv
      <3>4. CASE ~edit.write.structure
        <4>1. PICK s : s = [sheet EXCEPT !.rows = @ \cup edit.write.ids]
          OBVIOUS
        <4>2. s \in CachedSheet /\ s.rows = sheet.rows \cup edit.write.ids /\ s.layers = sheet.layers
          BY <1>0, <4>1 DEF PageTypes, CachedSheet
        <4>3. get' = NoRead /\ UNCHANGED project /\ Show(s)
          BY <1>2, <3>4, <4>1 DEF WriteAnswered
        <4>4. get' \in SheetRead /\ get'.stage = "none" /\ get'.rows = {}
          BY <4>3 DEF NoRead, SheetRead
        <4>5. sheet' = s /\ auth' \in Nat
          BY <4>2, <4>3, ShowType
        <4>6. PageTypes'
          BY <2>2, <2>4, <4>2, <4>4, <4>5 DEF PageTypes
        <4>7. RowsAreMade'
          BY <2>2, <3>2, <4>2, <4>4, <4>5 DEF PageInv, RowsAreMade, SavesWhatIsDirty
        <4>8. SheetLacksLittle'
          BY <2>2, <2>4, <4>2, <4>4, <4>5 DEF PageInv, SheetLacksLittle
        <4>9. ~Structural
          BY <3>4 DEF Structural
        <4>10. LayersAreKnown'
          BY <2>2, <2>4, <4>2, <4>3, <4>5, <4>9 DEF PageInv, LayersAreKnown
        <4> QED BY <3>1, <4>6, <4>7, <4>8, <4>10 DEF PageInv
      <3> QED BY <3>3, <3>4
    <2>6. ControllerTypes'
      BY <2>2 DEF controller, ControllerTypes
    <2>7. FindingsInv'
      <3>1. UNCHANGED <<requests, result>> /\ edit.gen \in Nat
        BY <1>0, <2>2 DEF controller, Editing
      <3>2. result.gen \in Nat /\ \A r \in requests : r.gen \in Nat
        BY DEF ControllerTypes, Finding, Validation
      <3>3. result.gen < edit'.gen /\ \A r \in requests : r.gen < edit'.gen
        BY <2>4, <3>1, <3>2 DEF FindingsInv, FoundBefore
      <3> QED BY <2>4, <3>1, <3>2, <3>3 DEF FindingsInv, FoundBefore, FindingsFit
    <2> QED BY <2>5, <2>6, <2>7
  <1>3. CASE WriteFails
    <2>1. PICK told \in BOOLEAN : told = (edit.told \/ edit.write.structure)
      OBVIOUS
    <2>2. PICK error \in BOOLEAN : error = ~edit.write.structure
      OBVIOUS
    <2>3. /\ edit' = [edit EXCEPT !.write = NoWrite, !.error = error, !.told = told] /\ Saving
          /\ UNCHANGED <<server, made, sheet, get, project, auth, controller>>
      BY <1>3, <2>1, <2>2 DEF WriteFails
    <2>4. NoWrite \in Writing /\ NoWrite.stage = "none" /\ NoWrite.ids = {}
      BY DEF NoWrite, Writing
    <2>5. /\ edit' \in Editing /\ edit'.dirty = edit.dirty
          /\ edit'.write = NoWrite /\ edit'.gen = edit.gen /\ edit'.told = told
      BY <1>0, <2>3, <2>4 DEF Editing
    <2>6. PageTypes'
      BY <2>3, <2>5 DEF PageTypes
    <2>7. SavesWhatIsDirty' /\ RowsAreMade' /\ SheetLacksLittle' /\ ~Structural'
      BY <2>3, <2>4, <2>5 DEF PageInv, SavesWhatIsDirty, RowsAreMade, SheetLacksLittle, Structural,
                              Saving
    <2>8. Structural => told
      BY <2>1 DEF Structural
    <2>9. LayersAreKnown'
      BY <2>1, <2>3, <2>5, <2>8 DEF PageInv, LayersAreKnown
    <2>10. Quiet' => Quiet
      BY <2>1, <2>3, <2>5, <2>8 DEF Quiet
    <2> QED BY <2>3, <2>5, <2>6, <2>7, <2>9, <2>10, RestingFindings DEF PageInv
  <1> QED BY <1>1, <1>2, <1>3

(* The reads of the page.                                                      *)
LEMMA ReadValidation ==
    ASSUME VInv,
           \/ Focus \/ ReadServed \/ ReadAnswered \/ ReadFails \/ ProjectAnswered \/ ChoicesChange
    PROVE  VInv'
  <1> USE DEF VInv
  <1>0. UNCHANGED <<server, made, edit, controller>>
    BY DEF Focus, ReadServed, ReadAnswered, ReadFails, ProjectAnswered, ChoicesChange
  <1>1. ControllerTypes' /\ FindingsInv'
    <2>1. Quiet' = Quiet
      BY <1>0 DEF Quiet, Structural, Saving
    <2> QED BY <1>0, <2>1, RestingFindings
  <1>2. SavesWhatIsDirty' /\ Structural' = Structural
    BY <1>0 DEF PageInv, SavesWhatIsDirty, Structural, Saving
  <1>3. ASSUME sheet' \in CachedSheet, sheet'.rows = sheet.rows, sheet'.layers = sheet.layers,
               auth' \in Nat, get' \in SheetRead, get'.rows = {}, get'.stage # "served",
               project => project'
        PROVE  PageTypes' /\ PageInv'
    <2>1. PageTypes'
      BY <1>0, <1>3 DEF PageTypes
    <2>2. RowsAreMade' /\ SheetLacksLittle'
      BY <1>0, <1>3 DEF PageInv, RowsAreMade, SheetLacksLittle
    <2>3. LayersAreKnown'
      BY <1>0, <1>2, <1>3 DEF PageInv, LayersAreKnown
    <2> QED BY <1>2, <2>1, <2>2, <2>3 DEF PageInv
  <1>4. /\ NoRead \in SheetRead /\ NoRead.rows = {} /\ NoRead.stage = "none"
        /\ sheet \in CachedSheet /\ get \in SheetRead /\ auth \in Nat
    BY DEF NoRead, SheetRead, PageTypes
  <1>5. CASE Focus
    <2>1. get' = [NoRead EXCEPT !.stage = "asked", !.awaited = FALSE] /\ project' = TRUE
          /\ UNCHANGED <<sheet, auth>>
      BY <1>5 DEF Focus, ReadSheet
    <2>2. get' \in SheetRead /\ get'.rows = {} /\ get'.stage = "asked"
      BY <2>1 DEF NoRead, SheetRead
    <2> QED BY <1>1, <1>3, <1>4, <2>1, <2>2
  <1>6. CASE ReadServed
    <2>1. get' = [get EXCEPT !.stage = "served", !.rows = server.rows, !.basis = server.basis]
          /\ UNCHANGED <<sheet, project, auth>>
      BY <1>6 DEF ReadServed
    <2>2. get' \in SheetRead /\ get'.rows = server.rows
      BY <1>4, <2>1 DEF SheetRead, PageTypes
    <2>3. PageTypes'
      BY <1>0, <2>1, <2>2 DEF PageTypes
    <2>4. PageInv'
      BY <1>0, <1>2, <2>1, <2>2 DEF PageInv, RowsAreMade, SheetLacksLittle, LayersAreKnown
    <2> QED BY <1>1, <2>3, <2>4
  <1>7. CASE ReadAnswered
    <2>1. PICK s : s = [sheet EXCEPT !.rows = get.rows, !.basis = get.basis, !.failed = FALSE]
      OBVIOUS
    <2>2. s \in CachedSheet /\ s.rows = get.rows /\ s.layers = sheet.layers
      BY <1>4, <2>1 DEF CachedSheet, SheetRead
    <2>3. get.stage = "served" /\ get' = NoRead /\ Show(s) /\ UNCHANGED project
      BY <1>7, <2>1 DEF ReadAnswered
    <2>4. sheet' = s /\ auth' \in Nat
      BY <2>2, <2>3, ShowType
    <2>5. PageTypes'
      BY <1>0, <1>4, <2>2, <2>3, <2>4 DEF PageTypes
    <2>6. PageInv'
      BY <1>0, <1>2, <1>4, <2>2, <2>3, <2>4 DEF PageInv, RowsAreMade, SheetLacksLittle,
                                                LayersAreKnown
    <2> QED BY <1>1, <2>5, <2>6
  <1>8. CASE ReadFails
    <2>1. get' = NoRead /\ sheet' = [sheet EXCEPT !.failed = TRUE] /\ UNCHANGED <<project, auth>>
      BY <1>8 DEF ReadFails
    <2>2. sheet' \in CachedSheet /\ sheet'.rows = sheet.rows /\ sheet'.layers = sheet.layers
      BY <1>4, <2>1 DEF CachedSheet
    <2> QED BY <1>1, <1>3, <1>4, <2>1, <2>2
  <1>9. CASE ProjectAnswered
    <2>1. PICK s : s = [sheet EXCEPT !.layers = server.layers]
      OBVIOUS
    <2>2. s \in CachedSheet /\ s.rows = sheet.rows /\ s.layers = server.layers
      BY <1>4, <2>1 DEF CachedSheet, PageTypes
    <2>3. Show(s) /\ UNCHANGED get
      BY <1>9, <2>1 DEF ProjectAnswered
    <2>4. sheet' = s /\ auth' \in Nat
      BY <2>2, <2>3, ShowType
    <2>5. PageTypes'
      BY <1>0, <2>2, <2>3, <2>4 DEF PageTypes
    <2>6. PageInv'
      BY <1>0, <1>2, <2>2, <2>3, <2>4 DEF PageInv, RowsAreMade, SheetLacksLittle, LayersAreKnown
    <2> QED BY <1>1, <2>5, <2>6
  <1>10. CASE ChoicesChange
    <2>1. PICK s : s = [sheet EXCEPT !.choices = ~@]
      OBVIOUS
    <2>2. s \in CachedSheet /\ s.rows = sheet.rows /\ s.layers = sheet.layers
      BY <1>4, <2>1 DEF CachedSheet
    <2>3. Show(s) /\ UNCHANGED <<get, project>>
      BY <1>10, <2>1 DEF ChoicesChange
    <2>4. sheet' = s /\ auth' \in Nat
      BY <2>2, <2>3, ShowType
    <2>5. PageTypes'
      BY <1>0, <2>2, <2>3, <2>4 DEF PageTypes
    <2>6. PageInv'
      BY <1>0, <1>2, <2>2, <2>3, <2>4 DEF PageInv, RowsAreMade, SheetLacksLittle, LayersAreKnown
    <2> QED BY <1>1, <2>5, <2>6
  <1> QED BY <1>5, <1>6, <1>7, <1>8, <1>9, <1>10

LEMMA StepValidation ==
    ASSUME ~OthersWrite, VInv, [ValidationNext]_validationVars
    PROVE  VInv'
  <1>1. CASE \/ Publish \/ TimerFires \/ ExplicitlyValidate \/ Retry \/ WaitEnds
             \/ RequestReread \/ RequestFails
    <2>1. ControllerTypes' /\ KeepsFindings /\ UNCHANGED <<server, made, client>>
      BY <1>1, ControllerSteps DEF VInv
    <2> QED BY <2>1, KeptFindings, PageRests DEF VInv, client
  <1>2. CASE RequestServed
    <2>1. UNCHANGED <<server, made, client>>
      BY <1>2 DEF RequestServed
    <2> QED BY <1>2, <2>1, ServedFindings, PageRests DEF VInv
  <1>3. CASE RequestAnswered
    BY <1>3, AnsweredFindings DEF VInv
  <1>4. CASE UNCHANGED validationVars
    <2>1. UNCHANGED <<server, made, client, controller>>
      BY <1>4 DEF validationVars
    <2>2. ControllerTypes' /\ KeepsFindings
      BY <2>1 DEF VInv, controller, ControllerTypes, KeepsFindings
    <2> QED BY <2>1, <2>2, KeptFindings, PageRests DEF VInv, client
  <1> QED BY <1>1, <1>2, <1>3, <1>4, EditValidation, WriteValidation, ReadValidation
          DEF ValidationNext

THEOREM ValidationInvariance ==
    ASSUME ValidationConstants, ~OthersWrite PROVE ValidationSpec => []VInv
  <1>1. ValidationInit => VInv
    BY InitValidation
  <1>2. VInv /\ [ValidationNext]_validationVars => VInv'
    BY StepValidation
  <1> QED BY <1>1, <1>2, PTL DEF ValidationSpec

(* While no other user writes, issues labelled as the server's are about the   *)
(* rows on display, and a sheet that is called clean has no error, for any     *)
(* writes, definitions, failures and order of the answers.                     *)
THEOREM IssuesFitTheRowsShown ==
    ASSUME ValidationConstants, ~OthersWrite PROVE ValidationSpec => []IssuesFitTheRows
  <1>1. VInv => IssuesFitTheRows
    <2> SUFFICES ASSUME VInv PROVE IssuesFitTheRows
      OBVIOUS
    <2>1. ASSUME Authority = "authoritative", ~OutOfStep PROVE result.rows = Shown
      <3>1. Ready(sheet) /\ PersistenceIdle /\ result.confirmed /\ result.gen = edit.gen
        BY <2>1 DEF Authority
      <3>2. edit.dirty = {} /\ ~Structural /\ ~edit.told /\ ~project
        BY <2>1, <3>1 DEF PersistenceIdle, OutOfStep, Structural
      <3>3. result.rows = server.rows
        BY <3>1, <3>2 DEF VInv, FindingsInv, FindingsFit, Quiet
      <3>4. sheet.layers = server.layers
        BY <3>2 DEF VInv, PageInv, LayersAreKnown
      <3>5. server.layers \subseteq sheet.rows
        BY <3>1, <3>4 DEF Ready
      <3>6. server.rows = sheet.rows
        BY <3>2, <3>5 DEF VInv, PageInv, SheetLacksLittle, RowsAreMade
      <3> QED BY <3>2, <3>3, <3>6 DEF Shown
    <2>2. ASSUME Strip = "clean", ~OutOfStep PROVE Shown \cap Bad = {}
      <3>1. Authority = "authoritative" /\ Issues = {}
        <4>1. result.status \notin {"clean"} /\ result.failure # "clean"
          BY DEF VInv, ControllerTypes, Finding
        <4> QED BY <2>2, <4>1 DEF Strip
      <3> QED BY <2>1, <2>2, <3>1 DEF Issues
    <2> QED BY <2>1, <2>2 DEF IssuesFitTheRows
  <1> QED BY <1>1, ValidationInvariance, PTL
=============================================================================
