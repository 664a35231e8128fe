------------------------------- MODULE EditLock -------------------------------
(***************************************************************************)
(* The edit lock of one project: the edit_lock row, the requests that      *)
(* acquire, extend, release and use it, and the status changes that clear  *)
(* it, each a database transaction that holds the project row's lock       *)
(* (SELECT ... FOR UPDATE) from its checks to its commit.                  *)
(*                                                                         *)
(* Editing requests run READ COMMITTED: what they read after they get the  *)
(* row is what is committed then. Status changes run REPEATABLE READ: they *)
(* read the snapshot of the moment they began to wait for the row, and are *)
(* aborted (40001) only when a row they lock or delete was changed since.  *)
(*                                                                         *)
(* Time enters only as expires_at - now, so a lock carries the ticks it    *)
(* has left; a lock with none left is expired.                             *)
(***************************************************************************)
EXTENDS Naturals, ProjectLifecycle

CONSTANTS
  Session,   \* browser tabs
  User,      \* people
  UserOf,    \* the user signed in to each tab
  Slot,      \* requests in flight at once
  Token,     \* lock tokens (uuid4): fresh means equal to none in use
  TTL,       \* edit_lock_ttl_seconds, in ticks
  None       \* no lock, token, tab or request

LockRow == [locked_by : User, token : Token, left : 0 .. TTL]

ASSUME ConstantsAssumption ==
  /\ UserOf \in [Session -> User]
  /\ TTL \in Nat \ {0}
  /\ None \notin Session \union Slot \union Token \union LockRow

VARIABLES
  status,    \* project.status
  editLock,  \* the edit_lock row of the project, or None
  mutex,     \* the request whose transaction holds the project row, or None
  req,       \* the requests in flight
  token,     \* the lock token each tab holds, or None
  lastWrite  \* history: the token of the last committed edit, or None

vars == <<status, editLock, mutex, req, token, lastWrite>>

EditOp == {"acquire", "heartbeat", "release", "write"}
Stage  == {"free", "queued", "waiting", "open", "granted", "refused"}
Row    == {"project", "edit_lock"}

Request == [stage   : Stage,
            op      : EditOp \union StatusAction,
            session : Session \union {None},
            token   : Token \union {None},
            lock    : LockRow \union {None},  \* the row an open request will store
            sees    : BOOLEAN,                \* a lock row is in its snapshot
            stale   : SUBSET Row]             \* snapshot rows changed since

TypeOK ==
  /\ status \in ProjectStatus
  /\ editLock \in LockRow \union {None}
  /\ mutex \in Slot \union {None}
  /\ req \in [Slot -> Request]
  /\ token \in [Session -> Token \union {None}]
  /\ lastWrite \in Token \union {None}

-----------------------------------------------------------------------------
(* Helpers *)

NewRequest(op, s, t) ==
  [stage |-> "queued", op |-> op, session |-> s, token |-> t,
   lock |-> None, sees |-> FALSE, stale |-> {}]

Idle == [NewRequest("release", None, None) EXCEPT !.stage = "free"]

Expired(lock) == lock.left = 0

Live(lock) == lock # None /\ ~Expired(lock)

\* Mutant: the user is compared, the token is not.
OwnLockOfUser(r) ==
  editLock # None /\ editLock.locked_by = UserOf[req[r].session]

\* The row exists and carries the request's user and token.
OwnLock(r) ==
  /\ editLock # None
  /\ editLock.locked_by = UserOf[req[r].session]
  /\ editLock.token = req[r].token

ValidHolder(r) == OwnLock(r) /\ ~Expired(editLock)

\* A stored or already computed expiry after one more tick.
Aged(lock) ==
  IF lock = None THEN None
  ELSE [lock EXCEPT !.left = IF @ = 0 THEN 0 ELSE @ - 1]

TokensInUse ==
  {token[s] : s \in Session} \union {req[r].token : r \in Slot}
    \union (IF editLock = None THEN {} ELSE {editLock.token}) \union {lastWrite}

\* The checks passed: the transaction keeps the row and has its effect ready.
Open(r, lock) ==
  /\ mutex' = r
  /\ req' = [req EXCEPT ![r].stage = "open", ![r].lock = lock,
                        ![r].token = IF lock = None THEN @ ELSE lock.token]
  /\ UNCHANGED <<status, editLock, token, lastWrite>>

\* The request after its transaction: gone, or an answer on its way.
Ended(r, stage) ==
  IF stage = "free" THEN Idle ELSE [req[r] EXCEPT !.stage = stage, !.lock = None]

\* A transaction that ends without effect.
Answer(r, stage) ==
  /\ req' = [req EXCEPT ![r] = Ended(r, stage)]
  /\ UNCHANGED <<status, editLock, token, lastWrite>>

\* A commit: the snapshots of those still waiting no longer match `rows'.
Commit(r, stage, rows) ==
  /\ mutex' = None
  /\ req' = [q \in Slot |->
       IF q = r THEN Ended(r, stage)
       ELSE IF req[q].stage = "waiting"
            THEN [req[q] EXCEPT !.stale = @ \union rows]
            ELSE req[q]]

-----------------------------------------------------------------------------
(* Tabs *)

Init ==
  /\ status = "draft"
  /\ editLock = None
  /\ mutex = None
  /\ req = [r \in Slot |-> Idle]
  /\ token = [s \in Session |-> None]
  /\ lastWrite = None

\* A tab sends a request: with the token it holds, or none for an acquire.
\* The network may hold a request back for any time, or carry a copy.
Send(s, op) ==
  /\ op = "acquire" \/ token[s] # None
  /\ \E r \in Slot :
       /\ req[r].stage = "free"
       /\ req' = [req EXCEPT ![r] =
                    NewRequest(op, s, IF op = "acquire" THEN None ELSE token[s])]
  /\ UNCHANGED <<status, editLock, mutex, token, lastWrite>>

\* Somebody, holding no lock, asks for a status change.
AskStatus(a) ==
  /\ \E r \in Slot :
       /\ req[r].stage = "free"
       /\ req' = [req EXCEPT ![r] = NewRequest(a, None, None)]
  /\ UNCHANGED <<status, editLock, mutex, token, lastWrite>>

\* The answer reaches the tab: a granted lock's token, or a lock conflict.
Deliver(r) ==
  /\ req[r].stage \in {"granted", "refused"}
  /\ token' = [token EXCEPT ![req[r].session] =
                 IF req[r].stage = "granted" THEN req[r].token ELSE None]
  /\ req' = [req EXCEPT ![r] = Idle]
  /\ UNCHANGED <<status, editLock, mutex, lastWrite>>

\* The request, before the server sees it, or its answer is lost.
Lose(r) ==
  /\ req[r].stage \in {"queued", "granted", "refused"}
  /\ req' = [req EXCEPT ![r] = Idle]
  /\ UNCHANGED <<status, editLock, mutex, token, lastWrite>>

\* A tab is closed or reloaded and forgets its token.
CloseTab(s) ==
  /\ token[s] # None
  /\ token' = [token EXCEPT ![s] = None]
  /\ UNCHANGED <<status, editLock, mutex, req, lastWrite>>

-----------------------------------------------------------------------------
(* The lock service: the checks, made under the project row's lock *)

OpenAcquire(r) ==
  /\ req[r].stage = "queued" /\ req[r].op = "acquire"
  /\ mutex = None
  /\ status = "draft"
  /\ ~Live(editLock)
  /\ \E t \in Token \ TokensInUse :
       Open(r, [locked_by |-> UserOf[req[r].session], token |-> t, left |-> TTL])

\* Mutant: any heartbeat extends a live lock.
OpenHeartbeatAnyTab(r) ==
  /\ req[r].stage = "queued" /\ req[r].op = "heartbeat"
  /\ mutex = None
  /\ status = "draft" /\ Live(editLock)
  /\ Open(r, [editLock EXCEPT !.left = TTL])

OpenHeartbeat(r) ==
  /\ req[r].stage = "queued" /\ req[r].op = "heartbeat"
  /\ mutex = None
  /\ status = "draft"
  /\ ValidHolder(r)
  /\ Open(r, [editLock EXCEPT !.left = TTL])

\* Release looks at neither the status nor the expiry.
OpenRelease(r) ==
  /\ req[r].stage = "queued" /\ req[r].op = "release"
  /\ mutex = None
  /\ OwnLock(r)
  /\ Open(r, None)

\* Mutant: the check reads the project without FOR UPDATE.
OpenWriteUnlocked(r) ==
  /\ req[r].stage = "queued" /\ req[r].op = "write"
  /\ status = "draft" /\ ValidHolder(r)
  /\ req' = [req EXCEPT ![r].stage = "open"]
  /\ UNCHANGED <<status, editLock, mutex, token, lastWrite>>

\* Mutant: the check forgets the project's status.
OpenWriteAnyStatus(r) ==
  /\ req[r].stage = "queued" /\ req[r].op = "write"
  /\ mutex = None
  /\ ValidHolder(r)
  /\ Open(r, None)

\* require_edit_lock, for every route that edits the sheet or the profile.
OpenWrite(r) ==
  /\ req[r].stage = "queued" /\ req[r].op = "write"
  /\ mutex = None
  /\ status = "draft"
  /\ ValidHolder(r)
  /\ Open(r, None)

\* The refusals: a read-only project, a held lock, a lock that is not yours;
\* and the release that finds nothing of its own, which is no error.
Refuse(r) ==
  /\ req[r].stage = "queued" /\ mutex = None
  /\ \/ /\ req[r].op = "acquire"
        /\ status # "draft" \/ Live(editLock)
        /\ Answer(r, "free")
     \/ /\ req[r].op \in {"heartbeat", "write"}
        /\ status # "draft" \/ ~ValidHolder(r)
        /\ Answer(r, "refused")
     \/ /\ req[r].op = "release"
        /\ ~OwnLock(r)
        /\ Answer(r, "free")
  /\ UNCHANGED mutex

CommitAcquire(r) ==
  /\ req[r].stage = "open" /\ req[r].op = "acquire"
  /\ editLock' = req[r].lock
  /\ Commit(r, "granted", {"edit_lock"})
  /\ UNCHANGED <<status, token, lastWrite>>

CommitHeartbeat(r) ==
  /\ req[r].stage = "open" /\ req[r].op = "heartbeat"
  /\ editLock' = req[r].lock
  /\ Commit(r, "free", {"edit_lock"})
  /\ UNCHANGED <<status, token, lastWrite>>

CommitRelease(r) ==
  /\ req[r].stage = "open" /\ req[r].op = "release"
  /\ editLock' = None
  /\ Commit(r, "free", {"edit_lock"})
  /\ UNCHANGED <<status, token, lastWrite>>

\* A profile edit touches the project row (updated_at), a sheet edit does not.
CommitWrite(r) ==
  /\ req[r].stage = "open" /\ req[r].op = "write"
  /\ lastWrite' = req[r].token
  /\ \E rows \in {{}, {"project"}} : Commit(r, "free", rows)
  /\ UNCHANGED <<status, editLock, token>>

-----------------------------------------------------------------------------
(* Status changes: REPEATABLE READ *)

\* The transaction's first statement, the SELECT ... FOR UPDATE of the
\* project: it fixes the snapshot, then waits for the row.
TakeSnapshot(r) ==
  /\ req[r].stage = "queued" /\ req[r].op \in StatusAction
  /\ req' = [req EXCEPT ![r].stage = "waiting", ![r].sees = (editLock # None)]
  /\ UNCHANGED <<status, editLock, mutex, token, lastWrite>>

GetRow(r) ==
  /\ req[r].stage = "waiting"
  /\ mutex = None
  /\ "project" \notin req[r].stale
  /\ Open(r, None)

CommitStatus(r) ==
  /\ req[r].stage = "open" /\ req[r].op \in StatusAction
  /\ \E to \in ProjectStatus :
       MayMove(status, req[r].op, to) /\ status' = to
  /\ IF req[r].op \in ClearsLock /\ req[r].sees
     THEN /\ "edit_lock" \notin req[r].stale
          /\ editLock' = None
          /\ Commit(r, "free", Row)
     ELSE /\ UNCHANGED editLock
          /\ Commit(r, "free", {"project"})
  /\ UNCHANGED <<token, lastWrite>>

\* A serialization failure: rolled back, then tried again on a new snapshot,
\* or answered workflow_status_conflict after the last attempt.
SerializationFailure(r) ==
  /\ \/ req[r].stage = "waiting" /\ mutex = None /\ "project" \in req[r].stale
     \/ /\ req[r].stage = "open" /\ req[r].op \in ClearsLock
        /\ req[r].sees /\ "edit_lock" \in req[r].stale
  /\ mutex' = None
  /\ \E next \in {NewRequest(req[r].op, None, None), Idle} :
       req' = [req EXCEPT ![r] = next]
  /\ UNCHANGED <<status, editLock, token, lastWrite>>

\* An open transaction fails (a rejected batch or gate, a move the table does
\* not have, a lost connection, a crash) and the database rolls it back.
Rollback(r) ==
  /\ req[r].stage = "open"
  /\ mutex' = None
  /\ Answer(r, "free")

\* A unit of time passes.
Tick ==
  /\ editLock' = Aged(editLock)
  /\ req' = [r \in Slot |-> [req[r] EXCEPT !.lock = Aged(@)]]
  /\ UNCHANGED <<status, mutex, token, lastWrite>>

-----------------------------------------------------------------------------
ServerStep(r) ==
  \/ OpenAcquire(r) \/ OpenHeartbeat(r) \/ OpenRelease(r) \/ OpenWrite(r)
  \/ CommitAcquire(r) \/ CommitHeartbeat(r) \/ CommitRelease(r) \/ CommitWrite(r)
  \/ TakeSnapshot(r) \/ GetRow(r) \/ CommitStatus(r)
  \/ Refuse(r) \/ SerializationFailure(r) \/ Rollback(r)

TabStep(s) == CloseTab(s) \/ \E op \in EditOp : Send(s, op)

Next ==
  \/ \E s \in Session : TabStep(s)
  \/ \E a \in StatusAction : AskStatus(a)
  \/ \E r \in Slot : ServerStep(r) \/ Deliver(r) \/ Lose(r)
  \/ Tick

Spec == Init /\ [][Next]_vars

\* Only time is sure to go on: no tab, user or network has to do anything.
FairSpec == Spec /\ WF_vars(Tick)

-----------------------------------------------------------------------------
(* Properties *)

\* Between its check and its commit an editing request keeps the very lock it
\* was checked against, on a draft: no takeover, release or review request can
\* come between, although each decides on what it read before committing.
CheckedEditHoldsLock ==
  \A r \in Slot :
    req[r].stage = "open" =>
      /\ req[r].op \in {"heartbeat", "release", "write"} => OwnLock(r)
      /\ req[r].op \in {"acquire", "heartbeat", "write"} => status = "draft"

\* A tab loses its lock only to time, to a release that carries its own token,
\* or to a change of the project's status; a late release or heartbeat of an
\* older token, or a second acquire, never takes it away.
HandoverIsJustified ==
  [][editLock # None /\ (editLock' = None \/ editLock'.token # editLock.token)
       => \/ Expired(editLock)
          \/ status' # status
          \/ \E r \in Slot : /\ req[r].stage = "open" /\ req[r].op = "release"
                             /\ req[r].token = editLock.token]_vars

\* Once the project has left draft a lock row that is still there can only
\* run out or go away: nothing extends it or hands it to someone else.
ClosedProjectLockOnlyAges ==
  [][status # "draft" => editLock' \in {None, editLock, Aged(editLock)}]_vars

\* The lock protocol is fenced editing.
Fenced == INSTANCE FencedEditing WITH
            open  <- status = "draft",
            owner <- IF editLock = None THEN None ELSE editLock.token,
            wrote <- lastWrite

ImplementsFencedEditing == Fenced!Spec

\* A lock whose token no tab holds and no request carries (its tab crashed, or
\* the answer to the acquire was lost) does not block the project for ever.
Orphaned ==
  /\ editLock # None
  /\ \A s \in Session : token[s] # editLock.token
  /\ \A r \in Slot : req[r].token # editLock.token

OrphanedLockRunsOut == Orphaned ~> ~Live(editLock)

\* The product requirements' rule that entering review deletes the edit lock.
NoLockOutsideDraft == status # "draft" => editLock = None
=============================================================================
