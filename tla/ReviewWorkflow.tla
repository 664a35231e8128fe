---------------------------- MODULE ReviewWorkflow ----------------------------
(***************************************************************************)
(* The review and approval of one project: its status, its review evidence *)
(* and the sheet content under review, changed by editing requests (READ   *)
(* COMMITTED) and by status changes (REPEATABLE READ), while an admin      *)
(* changes the live definitions the content is validated against.          *)
(*                                                                         *)
(* Every request holds the project row's lock from its checks to its       *)
(* commit; a status change reads the snapshot it took before it got the    *)
(* row. Who may edit is EditLock's subject: here an editing request is one *)
(* whose lock checks pass.                                                 *)
(*                                                                         *)
(* A definition is a parameter registry with its rules and choice sets, as *)
(* validation_basis_hash tells them apart; the content is one cell and     *)
(* whether the layer has its POR condition.                                *)
(***************************************************************************)
EXTENDS Naturals, Sequences, ProjectLifecycle

CONSTANTS
  Value,        \* values of the cell
  Defs,         \* live definitions
  Allowed,      \* the values without a validation error, per definition
  Slot,         \* requests in flight at once
  MaxAttempts,  \* tries of a status change before it is given up
  MaxMoves,     \* bound: committed status changes
  None          \* no evidence, no request

Content == [cell : Value, por : BOOLEAN]
EditOp  == {"patch_cells", "set_por", "replace_layer", "patch_profile"}
Stage   == {"free", "queued", "waiting", "open"}

\* What a status change reads.
View == [status : ProjectStatus, basis : Defs \union {None},
         content : Content, defs : Defs]

ASSUME ConstantsAssumption ==
  /\ Allowed \in [Defs -> SUBSET Value]
  /\ None \notin Defs \union Slot \union Content \union View
  /\ MaxAttempts \in Nat \ {0}
  /\ MaxMoves \in Nat

VARIABLES
  status,    \* project.status
  basis,     \* project.review_basis_hash
  snapshot,  \* project.parameter_snapshot
  content,   \* the sheet
  defs,      \* the live definitions
  mutex,     \* the request whose transaction holds the project row, or None
  req,       \* the requests in flight
  log,       \* the STATUS_CHANGE and REVISION_CREATE events of the project
  reviewed   \* history: the content the last review gate evaluated, or None

project == <<status, basis, snapshot>>
vars    == <<project, content, defs, mutex, req, log, reviewed>>

Request == [stage   : Stage,
            op      : EditOp \union StatusAction,
            saw     : View \union {None},
            stale   : BOOLEAN,         \* the project row changed since `saw'
            attempt : 1 .. MaxAttempts]

Event == [action : StatusAction, from : ProjectStatus, to : ProjectStatus,
          revalidated : BOOLEAN]

TypeOK ==
  /\ status \in ProjectStatus
  /\ basis \in Defs \union {None}
  /\ snapshot \in Defs \union {None}
  /\ content \in Content
  /\ defs \in Defs
  /\ mutex \in Slot \union {None}
  /\ req \in [Slot -> Request]
  /\ log \in Seq(Event)
  /\ reviewed \in Content \union {None}

-----------------------------------------------------------------------------
(* Helpers *)

NewRequest(op, n) ==
  [stage |-> "queued", op |-> op, saw |-> None, stale |-> FALSE, attempt |-> n]

Idle == [NewRequest("patch_cells", 1) EXCEPT !.stage = "free"]

Committed == [status |-> status, basis |-> basis, content |-> content, defs |-> defs]

\* evaluate_project finds no error.
Valid(c, d) == c.cell \in Allowed[d]

\* _assert_request_review_gate: no error, and one POR in every layer.
PassesReviewGate(c, d) == Valid(c, d) /\ c.por

\* What each route may make of the content. A POR condition cannot be deleted,
\* but a replaced layer has the POR of the layer it was copied from, or none.
Edited(op) ==
  CASE op = "patch_cells"   -> {[content EXCEPT !.cell = v] : v \in Value}
    [] op = "set_por"       -> {[content EXCEPT !.por = TRUE]}
    [] op = "replace_layer" -> Content
    [] op = "patch_profile" -> {content}

\* The transaction of r commits; if it changed the project row, those that
\* wait for the row with an older snapshot will fail.
Commit(r, rowChanged) ==
  /\ mutex' = None
  /\ req' = [q \in Slot |->
       IF q = r THEN Idle
       ELSE IF req[q].stage = "waiting" /\ rowChanged
            THEN [req[q] EXCEPT !.stale = TRUE]
            ELSE req[q]]

-----------------------------------------------------------------------------
Init ==
  /\ status = "draft"
  /\ basis = None /\ snapshot = None
  /\ content \in Content
  /\ defs \in Defs
  /\ mutex = None
  /\ req = [r \in Slot |-> Idle]
  /\ log = <<>>
  /\ reviewed = None

\* A request arrives.
Ask(r, op) ==
  /\ req[r].stage = "free"
  /\ Len(log) < MaxMoves
  /\ req' = [req EXCEPT ![r] = NewRequest(op, 1)]
  /\ UNCHANGED <<project, content, defs, mutex, log, reviewed>>

\* An admin changes the definitions, and may change them back.
ChangeDefinitions ==
  /\ defs' \in Defs \ {defs}
  /\ UNCHANGED <<project, content, mutex, req, log, reviewed>>

-----------------------------------------------------------------------------
(* Editing requests *)

\* Mutant: the check reads the project without FOR UPDATE.
OpenEditUnlocked(r) ==
  /\ req[r].stage = "queued" /\ req[r].op \in EditOp
  /\ status = "draft"
  /\ req' = [req EXCEPT ![r].stage = "open"]
  /\ UNCHANGED <<project, content, defs, mutex, log, reviewed>>

\* The project row is locked, then its status is checked.
OpenEdit(r) ==
  /\ req[r].stage = "queued" /\ req[r].op \in EditOp
  /\ mutex = None
  /\ status = "draft"
  /\ mutex' = r
  /\ req' = [req EXCEPT ![r].stage = "open"]
  /\ UNCHANGED <<project, content, defs, log, reviewed>>

\* Only a profile edit changes the project row (updated_at).
CommitEdit(r) ==
  /\ req[r].stage = "open" /\ req[r].op \in EditOp
  /\ content' \in Edited(req[r].op)
  /\ Commit(r, req[r].op = "patch_profile")
  /\ UNCHANGED <<project, defs, log, reviewed>>

RefuseEdit(r) ==
  /\ req[r].stage = "queued" /\ req[r].op \in EditOp
  /\ mutex = None
  /\ status # "draft"
  /\ req' = [req EXCEPT ![r] = Idle]
  /\ UNCHANGED <<project, content, defs, mutex, log, reviewed>>

-----------------------------------------------------------------------------
(* Status changes *)

\* SELECT ... FOR UPDATE of the project, the first statement of the REPEATABLE
\* READ transaction, fixes its snapshot and waits for the row.
TakeSnapshot(r) ==
  /\ req[r].stage = "queued" /\ req[r].op \in StatusAction
  /\ req' = [req EXCEPT ![r].stage = "waiting", ![r].saw = Committed]
  /\ UNCHANGED <<project, content, defs, mutex, log, reviewed>>

\* Mutant: READ COMMITTED takes the row whatever happened to it.
GetRowStale(r) ==
  /\ req[r].stage = "waiting"
  /\ mutex = None
  /\ mutex' = r
  /\ req' = [req EXCEPT ![r].stage = "open"]
  /\ UNCHANGED <<project, content, defs, log, reviewed>>

GetRow(r) ==
  /\ req[r].stage = "waiting"
  /\ mutex = None
  /\ ~req[r].stale
  /\ mutex' = r
  /\ req' = [req EXCEPT ![r].stage = "open"]
  /\ UNCHANGED <<project, content, defs, log, reviewed>>

\* A move of the rule table, its event, and the commit. The move is decided on
\* the snapshot; expected_status must be its status too, and so can only add a
\* refusal.
Move(r, action, revalidated) ==
  /\ req[r].stage = "open" /\ req[r].op = action
  /\ \E to \in ProjectStatus :
       /\ MayMove(req[r].saw.status, action, to)
       /\ status' = to
       /\ log' = Append(log, [action |-> action, from |-> req[r].saw.status,
                              to |-> to, revalidated |-> revalidated])
  /\ Commit(r, TRUE)
  /\ UNCHANGED <<content, defs>>

RequestReview(r) ==
  LET saw == req[r].saw IN
  /\ Move(r, "request_review", FALSE)
  /\ PassesReviewGate(saw.content, saw.defs)
  /\ basis' = saw.defs
  /\ reviewed' = saw.content
  /\ UNCHANGED snapshot

\* Mutant: approval trusts the review whatever the definitions are now.
ApproveUnchecked(r) ==
  LET saw == req[r].saw IN
  /\ Move(r, "approve", saw.defs # saw.basis)
  /\ saw.basis # None
  /\ basis' = saw.defs
  /\ snapshot' = saw.defs
  /\ UNCHANGED reviewed

\* The content is validated again only if the definitions are not those of
\* the review.
Approve(r) ==
  LET saw         == req[r].saw
      revalidated == saw.defs # saw.basis
  IN
  /\ Move(r, "approve", revalidated)
  /\ saw.basis # None
  /\ revalidated => Valid(saw.content, saw.defs)
  /\ basis' = saw.defs
  /\ snapshot' = saw.defs
  /\ UNCHANGED reviewed

Reject(r) ==
  /\ Move(r, "reject", FALSE)
  /\ UNCHANGED <<basis, snapshot, reviewed>>

ReturnToDraft(r) ==
  /\ Move(r, "return_to_draft", FALSE)
  /\ basis' = None
  /\ UNCHANGED <<snapshot, reviewed>>

\* The project becomes the archived source of a new draft.
CreateRevision(r) ==
  /\ Move(r, "create_revision", FALSE)
  /\ UNCHANGED <<basis, snapshot, reviewed>>

\* Mutant: a serialization failure is retried for ever.
RetryForEver(r) ==
  /\ req' = [req EXCEPT ![r] = NewRequest(req[r].op, req[r].attempt)]
  /\ UNCHANGED <<project, content, defs, log, reviewed>>

\* _run_consistent_operation: a new transaction, up to MaxAttempts of them.
Retry(r) ==
  /\ req' = [req EXCEPT ![r] =
               IF req[r].attempt < MaxAttempts
               THEN NewRequest(req[r].op, req[r].attempt + 1)
               ELSE Idle]
  /\ UNCHANGED <<project, content, defs, log, reviewed>>

\* 40001: the row was changed since the snapshot; or, once it is held, the
\* edit lock's row that the change deletes was (see EditLock).
SerializationFailure(r) ==
  /\ \/ req[r].stage = "waiting" /\ mutex = None /\ req[r].stale /\ UNCHANGED mutex
     \/ req[r].stage = "open" /\ req[r].op \in ClearsLock /\ mutex' = None
  /\ Retry(r)

\* A refused move or gate, a rejected edit, a lost connection, a crash.
Rollback(r) ==
  /\ req[r].stage = "open"
  /\ mutex' = None
  /\ req' = [req EXCEPT ![r] = Idle]
  /\ UNCHANGED <<project, content, defs, log, reviewed>>

-----------------------------------------------------------------------------
StatusMove(r) ==
  RequestReview(r) \/ Approve(r) \/ Reject(r) \/ ReturnToDraft(r) \/ CreateRevision(r)

Starts(r) == OpenEdit(r) \/ RefuseEdit(r) \/ TakeSnapshot(r) \/ GetRow(r)

Ends(r) == CommitEdit(r) \/ StatusMove(r) \/ SerializationFailure(r) \/ Rollback(r)

Next ==
  \/ \E r \in Slot : \/ \E op \in EditOp \union StatusAction : Ask(r, op)
                     \/ Starts(r) \/ Ends(r)
  \/ ChangeDefinitions

Spec == Init /\ [][Next]_vars

\* The server ends what it began, and PostgreSQL serves the waiters of a row.
Fairness == \A r \in Slot : SF_vars(Starts(r)) /\ SF_vars(Ends(r))

FairSpec == Spec /\ Fairness

-----------------------------------------------------------------------------
(* Properties *)

\* A status change that has the row decides on the project as it is committed:
\* its snapshot's status and evidence are current, and outside draft so is the
\* content it validates, although it read them before it got the row.
DecisionsAreCurrent ==
  \A r \in Slot :
    req[r].stage = "open" /\ req[r].op \in StatusAction =>
      /\ req[r].saw.status = status /\ req[r].saw.basis = basis
      /\ status # "draft" => req[r].saw.content = content

\* Content changes only in a draft: an edit that was checked before a status
\* change never lands after it.
ContentFrozen ==
  [][content' # content => status = "draft" /\ status' = "draft"]_vars

\* The events tell the project's history: each starts where the one before
\* ended and the last ends at the status, so no two status changes both
\* succeeded from the same state.
AuditChain ==
  /\ \A i \in 1 .. Len(log) :
       log[i].from = IF i = 1 THEN "draft" ELSE log[i - 1].to
  /\ status = IF log = <<>> THEN "draft" ELSE log[Len(log)].to

\* The evidence follows the status through every rejection and return.
EvidenceMatchesStatus ==
  /\ basis = None <=> status = "draft"
  /\ snapshot # None <=> status \in {"approved", "archived"}
  /\ snapshot # None => snapshot = basis

\* What is approved has no validation error under the definitions frozen with
\* it, when the review gate evaluated this content or approval did: also when
\* the definitions changed, or changed and changed back, since the review.
ApprovedIsValid ==
  snapshot # None =>
    \A i \in 1 .. Len(log) :
      /\ log[i].action = "approve"
      /\ log[i].revalidated \/ reviewed = content
      => Valid(content, snapshot)

\* Every request is answered: a status change is not overtaken by edits of the
\* project row for ever.
RequestsAreAnswered ==
  \A r \in Slot : req[r].stage # "free" ~> req[r].stage = "free"

\* The product requirements' rule that review requires one POR in every layer.
ReviewHasPor == status = "review" => content.por
=============================================================================
