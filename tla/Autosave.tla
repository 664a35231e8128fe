------------------------------- MODULE Autosave -------------------------------
(***************************************************************************)
(* One editing session of the sheet in the browser: the buffer of unsaved  *)
(* cells, the autosave engine, the writes that bypass its debounce (paste  *)
(* and structural changes), the barrier of an explicit validation, and the *)
(* server that stores what the requests carry.                             *)
(*                                                                         *)
(* JavaScript runs one event to completion, with the promise reactions it  *)
(* causes, before the next: events are guarded by Quiet, which says that   *)
(* no promise reaction is left. A cell's value is the revision of its      *)
(* edit; the cells of one paste share a revision.                          *)
(***************************************************************************)
EXTENDS Naturals, FiniteSets

CONSTANTS
  Cell,          \* (condition, parameter)
  MaxRetries,    \* AUTOSAVE_MAX_RETRIES
  MaxRevision,   \* bound: edits and pastes
  MaxToken,      \* bound: lock acquisitions
  MaxLate,       \* bound: failed requests the server has yet to handle
  MayValidate,   \* bound: whether the user asks for validations
  None

ASSUME ConstantsAssumption ==
  /\ {MaxRetries, MaxRevision, MaxLate} \subseteq Nat
  /\ MaxToken \in Nat \ {0}
  /\ MayValidate \in BOOLEAN

Clean   == 0  \* the revision of a cell without an unsaved edit
NoToken == 0

Revision  == Clean .. MaxRevision
Token     == NoToken .. MaxToken
Snapshot  == [Cell -> Revision]
SaveState == {"idle", "saving", "saved", "error"}

Request == [cells : Snapshot, token : Token]
Save    == [cells : Snapshot, token : Token, stage : {"sent", "applied", "refused"}]

\* flushNow of a job precedes and, of a paste, also follows its own step.
Flushing == {"pasteFlush", "pasteWrite", "structFlush"}
Job      == [stage : Flushing \union {"none", "structWrite"}, token : Token]
NoJob    == [stage |-> "none", token |-> NoToken]

ASSUME NoneAssumption == None \notin Snapshot /\ None \notin Save

VARIABLES
  dirty,     \* the revision of each unsaved cell
  revision,  \* the last revision allocated
  panel,     \* a paste is under review
  paste,     \* pasteSnapshotRef: the paste being written or retained, or None
  timer,     \* the debounce or backoff timer is armed
  attempts,  \* failures in a row
  state,     \* the engine's SaveState
  save,      \* inFlight: the save the engine waits for, or None
  job,       \* the immediate write in the operation queue
  barrier,   \* the explicit validation
  lock,      \* lockStatus
  token,     \* lockTokenRef
  valid,     \* the lock token the server accepts
  issued,    \* the last token the server gave
  late,      \* failed requests the server has yet to handle
  server,    \* the revision of each cell the server stores
  wanted,    \* history: the last edit of each cell not discarded since
  landed     \* history: the cells whose wanted edit the server has stored

bufferVars == <<dirty, revision, panel, paste, wanted>>
engineVars == <<timer, attempts, state, save>>
taskVars   == <<job, barrier>>
lockVars   == <<lock, token>>
serverVars == <<valid, issued, late, server, landed>>
vars == <<bufferVars, engineVars, taskVars, lockVars, serverVars>>

TypeOK ==
  /\ dirty \in Snapshot /\ revision \in Revision /\ panel \in BOOLEAN
  /\ paste \in Snapshot \union {None}
  /\ timer \in BOOLEAN /\ attempts \in 0 .. MaxRetries + 1 /\ state \in SaveState
  /\ save \in Save \union {None}
  /\ job \in Job /\ barrier \in {"none", "queue", "flush", "passed", "refused"}
  /\ lock \in {"held", "acquiring", "lost"} /\ token \in Token
  /\ valid \in Token /\ issued \in Token /\ late \subseteq Request
  /\ server \in Snapshot /\ wanted \in Snapshot /\ landed \subseteq Cell
  /\ lock = "held" <=> token # NoToken

-----------------------------------------------------------------------------
(* The engine *)

Holds(cells) == \E c \in Cell : cells[c] # Clean

\* hasPending
Pending == Holds(dirty)

\* Mutant: the cells of the request leave the buffer whatever their revision.
WithoutAnyRevision(cells) == [c \in Cell |-> IF cells[c] # Clean THEN Clean ELSE dirty[c]]

\* removeSavedCells: only the revisions that were sent leave the buffer.
Without(cells) == [c \in Cell |-> IF dirty[c] = cells[c] THEN Clean ELSE dirty[c]]

Waiting == job.stage \in Flushing \/ barrier = "flush"

\* No flushNow is about to go on, nor the barrier to look at the queue.
Quiet ==
  /\ ~(save = None /\ Waiting)
  /\ ~(barrier = "queue" /\ job = NoJob)

Cancel == timer' = FALSE /\ attempts' = 0 /\ state' = "idle"

\* Mutant: "saved" stays on show.
ScheduleSilently ==
  /\ timer' = TRUE
  /\ attempts' = IF state = "error" THEN 0 ELSE attempts
  /\ state' = IF state = "error" THEN "idle" ELSE state

Schedule ==
  /\ timer' = TRUE
  /\ attempts' = IF state = "error" THEN 0 ELSE attempts
  /\ state' = IF state \in {"saved", "error"} THEN "idle" ELSE state

\* A rejection ends the flushNow calls that wait for the save; a paste being
\* written then cancels the backoff.
Reject(t, a, s) ==
  /\ job' = IF job.stage \in Flushing THEN NoJob ELSE job
  /\ barrier' = IF barrier = "flush" THEN "refused" ELSE barrier
  /\ IF job.stage = "pasteWrite" THEN Cancel
     ELSE timer' = t /\ attempts' = a /\ state' = s

\* run() with no save in flight, after a failures: it sends the paste, or what
\* is unsaved, unless the lock is missing.
Start(a) ==
  /\ save = None /\ Pending
  /\ \/ /\ lock = "held"
        /\ save' = [cells |-> IF paste # None THEN paste ELSE dirty,
                    token |-> token, stage |-> "sent"]
        /\ timer' = FALSE /\ attempts' = a /\ state' = "saving"
        /\ UNCHANGED taskVars
     \/ /\ lock # "held"
        /\ Reject(FALSE, a, "idle")
        /\ UNCHANGED save

\* run() and flushNow() with nothing to save.
Settle(a) ==
  /\ save = None /\ ~Pending
  /\ timer' = FALSE /\ attempts' = a
  /\ state' = IF state = "idle" THEN "idle" ELSE "saved"
  /\ UNCHANGED save

\* Mutant: run() without the inFlight check; the older request is on its own.
RunTwice(a) ==
  /\ \/ Start(a) /\ UNCHANGED late
     \/ Settle(a) /\ UNCHANGED <<taskVars, late>>
     \/ /\ save # None /\ Pending /\ lock = "held"
        /\ late' = late \union {[cells |-> save.cells, token |-> save.token]}
        /\ save' = [cells |-> dirty, token |-> token, stage |-> "sent"]
        /\ timer' = FALSE /\ attempts' = a /\ state' = "saving"
        /\ UNCHANGED taskVars

Run(a) ==
  /\ \/ Start(a)
     \/ Settle(a) /\ UNCHANGED taskVars
     \/ save # None /\ timer' = FALSE /\ attempts' = a /\ UNCHANGED <<state, save, taskVars>>
  /\ UNCHANGED late

TimerFires ==
  /\ Quiet /\ timer
  /\ Run(attempts)
  /\ UNCHANGED <<bufferVars, lockVars, valid, issued, server, landed>>

\* flushNow goes on: it saves what is left without debounce.
FlushRuns ==
  /\ Waiting
  /\ Start(attempts)
  /\ UNCHANGED <<bufferVars, lockVars, serverVars>>

-----------------------------------------------------------------------------
(* The server, and the answers of the save in flight *)

Stored(cells) ==
  /\ server' = [c \in Cell |-> IF cells[c] = Clean THEN server[c] ELSE cells[c]]
  /\ landed' = landed \union {c \in Cell : cells[c] # Clean /\ cells[c] = wanted[c]}

\* The cells are stored all together, or refused when the lock is another's.
ServerHandles ==
  /\ save # None /\ save.stage = "sent"
  /\ \/ /\ save.token = valid
        /\ save' = [save EXCEPT !.stage = "applied"]
        /\ Stored(save.cells)
     \/ /\ save.token # valid
        /\ save' = [save EXCEPT !.stage = "refused"]
        /\ UNCHANGED <<server, landed>>
  /\ UNCHANGED <<bufferVars, timer, attempts, state, taskVars, lockVars, valid, issued, late>>

\* A request whose connection failed reaches the server after all.
LateRequest(r) ==
  /\ r \in late
  /\ late' = late \ {r}
  /\ IF r.token = valid THEN Stored(r.cells) ELSE UNCHANGED <<server, landed>>
  /\ UNCHANGED <<bufferVars, engineVars, taskVars, lockVars, valid, issued>>

\* Edits that arrived during the save wait for another debounce.
Rearmed(cells) == timer \/ Holds(Without(cells))

SaveSucceeds ==
  /\ save # None /\ save.stage = "applied"
  /\ dirty' = Without(save.cells)
  /\ paste' = None
  /\ save' = None
  /\ attempts' = 0
  /\ timer' = Rearmed(save.cells)
  /\ state' = IF Holds(dirty') THEN state ELSE "saved"
  /\ UNCHANGED <<revision, panel, wanted, taskVars, lockVars, serverVars>>

\* Mutant: every failure is retried.
FailuresForever == 0

\* Failures in a row, counted up to the one that gives up.
Failures == IF attempts > MaxRetries THEN attempts ELSE attempts + 1

\* Any error but the lock's, at any stage of the request.
SaveFails ==
  /\ save # None
  /\ save' = None
  /\ late' \in {late} \union
       (IF save.stage = "sent" /\ Cardinality(late) < MaxLate
        THEN {late \union {[cells |-> save.cells, token |-> save.token]}} ELSE {})
  /\ IF Failures <= MaxRetries
     THEN Reject(TRUE, Failures, "saving")
     ELSE Reject(timer, Failures, "error")
  /\ UNCHANGED <<bufferVars, lockVars, valid, issued, server, landed>>

\* handleLockLost
LockLost == lock' = "lost" /\ token' = NoToken

\* 409 lock_conflict: no retry.
SaveRefused ==
  /\ save # None /\ save.stage = "refused"
  /\ save' = None
  /\ LockLost
  /\ Reject(FALSE, 0, "idle")
  /\ UNCHANGED <<bufferVars, serverVars>>

-----------------------------------------------------------------------------
(* The user *)

Editable == lock = "held" /\ job = NoJob /\ ~panel

Edit(c) ==
  /\ Quiet /\ Editable /\ revision < MaxRevision
  /\ revision' = revision + 1
  /\ dirty' = [dirty EXCEPT ![c] = revision']
  /\ wanted' = [wanted EXCEPT ![c] = revision']
  /\ landed' = landed \ {c}
  /\ Schedule
  /\ UNCHANGED <<panel, paste, save, taskVars, lockVars, valid, issued, late, server>>

StagePaste ==
  /\ Quiet /\ Editable
  /\ panel' = TRUE
  /\ UNCHANGED <<dirty, revision, paste, wanted, engineVars, taskVars, lockVars, serverVars>>

\* enqueueWrite, and the flushNow the job begins with.
Enqueue(stage) ==
  /\ Quiet /\ lock = "held" /\ job = NoJob
  /\ job' = [NoJob EXCEPT !.stage = stage]
  /\ timer' = FALSE
  /\ UNCHANGED <<bufferVars, attempts, state, save, barrier, lockVars, serverVars>>

\* A retained paste is written again as it was.
ApplyPaste == panel /\ Enqueue(IF paste = None THEN "pasteFlush" ELSE "pasteWrite")

ChangeStructure == ~panel /\ Enqueue("structFlush")

\* The cells no longer wanted, out of the buffer.
Dropped(cells) ==
  /\ dirty' = Without(cells)
  /\ wanted' = [c \in Cell |-> IF dirty'[c] = dirty[c] THEN wanted[c] ELSE Clean]

\* cancelPaste; abandonPaste of the retained snapshot, if there is one.
CancelPaste ==
  /\ Quiet /\ panel /\ job.stage \notin {"pasteFlush", "pasteWrite"}
  /\ panel' = FALSE /\ paste' = None
  /\ IF paste = None THEN UNCHANGED <<dirty, wanted, timer, attempts, state>>
                     ELSE Dropped(paste) /\ Cancel
  /\ UNCHANGED <<revision, save, taskVars, lockVars, serverVars>>

Discard ==
  /\ Quiet /\ Pending
  /\ dirty' = [c \in Cell |-> Clean] /\ wanted' = [c \in Cell |-> Clean]
  /\ paste' = None
  /\ Cancel
  /\ UNCHANGED <<revision, panel, save, taskVars, lockVars, serverVars>>

RetrySave ==
  /\ Quiet /\ state = "error" /\ paste = None
  /\ Run(0)
  /\ UNCHANGED <<bufferVars, lockVars, valid, issued, server, landed>>

-----------------------------------------------------------------------------
(* The immediate writes, past their flushNow *)

Flushed(stage) == job.stage = stage /\ Settle(attempts)

\* After the manual edits the paste enters the buffer and is sent, unless the
\* lock is gone or revalidation left none of its cells.
PastePrepares ==
  /\ job.stage = "pasteFlush" /\ save = None /\ ~Pending
  /\ timer' = FALSE
  /\ \/ /\ job' = NoJob
        /\ state' = IF state = "idle" THEN "idle" ELSE "saved"
        /\ UNCHANGED <<dirty, revision, wanted, paste, save, landed>>
     \/ /\ lock = "held" /\ revision < MaxRevision
        /\ \E cells \in (SUBSET Cell) \ {{}} :
             /\ paste' = [c \in Cell |-> IF c \in cells THEN revision + 1 ELSE Clean]
             /\ wanted' = [c \in Cell |-> IF c \in cells THEN revision + 1 ELSE wanted[c]]
             /\ landed' = landed \ cells
        /\ revision' = revision + 1
        /\ dirty' = paste'
        /\ save' = [cells |-> paste', token |-> token, stage |-> "sent"]
        /\ state' = "saving"
        /\ job' = [job EXCEPT !.stage = "pasteWrite"]
  /\ UNCHANGED <<panel, attempts, barrier, lockVars, valid, issued, late, server>>

PasteEnds ==
  /\ Flushed("pasteWrite")
  /\ job' = NoJob /\ panel' = FALSE
  /\ UNCHANGED <<dirty, revision, paste, wanted, barrier, lockVars, serverVars>>

StructureSends ==
  /\ Flushed("structFlush")
  /\ job' = IF lock = "held" THEN [stage |-> "structWrite", token |-> token] ELSE NoJob
  /\ UNCHANGED <<bufferVars, barrier, lockVars, serverVars>>

\* The change is made or refused for another reason than the lock; or the lock
\* is another's.
StructureAnswered ==
  /\ job.stage = "structWrite"
  /\ job' = NoJob
  /\ \/ UNCHANGED <<timer, attempts, state, lockVars>>
     \/ job.token # valid /\ LockLost /\ Cancel
  /\ UNCHANGED <<bufferVars, save, barrier, serverVars>>

-----------------------------------------------------------------------------
(* The persistence barrier of an explicit validation *)

\* Mutant: the unsaved cells are not counted.
IdleWhenNotSaving == job = NoJob /\ state \notin {"saving", "error"}

\* isPersistenceSnapshotIdle
Idle == ~Pending /\ job = NoJob /\ state \notin {"saving", "error"}

Validate ==
  /\ MayValidate
  /\ Quiet /\ ~panel /\ barrier \notin {"queue", "flush"}
  /\ barrier' = IF Idle THEN "passed" ELSE "queue"
  /\ UNCHANGED <<bufferVars, engineVars, job, lockVars, serverVars>>

\* The queue is idle: done, or a failed save is left to the user, or flushNow.
BarrierChecks ==
  /\ barrier = "queue" /\ job = NoJob
  /\ barrier' = IF Idle THEN "passed" ELSE IF state = "error" THEN "refused" ELSE "flush"
  /\ timer' = (timer /\ barrier' # "flush")
  /\ UNCHANGED <<bufferVars, attempts, state, save, job, lockVars, serverVars>>

BarrierFlushed ==
  /\ barrier = "flush" /\ Settle(attempts)
  /\ barrier' = "queue"
  /\ UNCHANGED <<bufferVars, job, lockVars, serverVars>>

-----------------------------------------------------------------------------
(* The lock *)

\* The lock runs out, or the project leaves draft.
LockEnds ==
  /\ valid # NoToken
  /\ valid' = NoToken
  /\ UNCHANGED <<bufferVars, engineVars, taskVars, lockVars, issued, late, server, landed>>

HeartbeatRefused ==
  /\ Quiet /\ lock = "held" /\ token # valid
  /\ LockLost /\ Cancel
  /\ UNCHANGED <<bufferVars, save, taskVars, serverVars>>

Reacquire ==
  /\ Quiet /\ lock = "lost"
  /\ lock' = "acquiring"
  /\ UNCHANGED <<bufferVars, engineVars, taskVars, token, serverVars>>

\* Manual edits are saved soon; a retained paste waits for its panel.
Acquired ==
  /\ Quiet /\ lock = "acquiring" /\ valid = NoToken /\ issued < MaxToken
  /\ issued' = issued + 1 /\ valid' = issued' /\ token' = issued' /\ lock' = "held"
  /\ IF Pending /\ paste = None THEN Schedule ELSE UNCHANGED <<timer, attempts, state>>
  /\ UNCHANGED <<bufferVars, save, taskVars, late, server, landed>>

AcquireRefused ==
  /\ Quiet /\ lock = "acquiring"
  /\ lock' = "lost"
  /\ UNCHANGED <<bufferVars, engineVars, taskVars, token, serverVars>>

-----------------------------------------------------------------------------
\* A sheet whose lock the session got.
Init ==
  /\ dirty = [c \in Cell |-> Clean] /\ revision = 0 /\ panel = FALSE /\ paste = None
  /\ wanted = [c \in Cell |-> Clean]
  /\ timer = FALSE /\ attempts = 0 /\ state = "idle" /\ save = None
  /\ job = NoJob /\ barrier = "none"
  /\ lock = "held" /\ token = 1 /\ valid = 1 /\ issued = 1
  /\ late = {} /\ server = [c \in Cell |-> Clean] /\ landed = {}

Browser ==
  \/ TimerFires \/ FlushRuns \/ PastePrepares \/ PasteEnds \/ StructureSends
  \/ BarrierChecks \/ BarrierFlushed

Answers == ServerHandles \/ SaveSucceeds \/ SaveFails \/ SaveRefused \/ StructureAnswered

Next ==
  \/ Browser \/ Answers
  \/ \E c \in Cell : Edit(c)
  \/ StagePaste \/ ApplyPaste \/ CancelPaste \/ ChangeStructure \/ Discard \/ RetrySave
  \/ Validate
  \/ LockEnds \/ HeartbeatRefused \/ Reacquire \/ Acquired \/ AcquireRefused
  \/ \E r \in late : LateRequest(r)

Spec == Init /\ [][Next]_vars

\* The browser's timers and reactions run, and every request is answered, if
\* only with a network error; users owe nothing.
FairSpec ==
  /\ Spec
  /\ WF_vars(TimerFires) /\ WF_vars(FlushRuns)
  /\ WF_vars(PastePrepares) /\ WF_vars(PasteEnds) /\ WF_vars(StructureSends)
  /\ WF_vars(BarrierChecks) /\ WF_vars(BarrierFlushed)
  /\ WF_vars(ServerHandles) /\ WF_vars(SaveSucceeds \/ SaveFails \/ SaveRefused)
  /\ WF_vars(StructureAnswered)

-----------------------------------------------------------------------------
(* Properties *)

\* No edit gets lost: what the user entered last and did not discard is still
\* unsaved in the buffer or has been stored (markSaved, editStore.ts:37-48).
EditsAreKept ==
  \A c \in Cell : wanted[c] # Clean => dirty[c] = wanted[c] \/ c \in landed

\* While the lock is held something is under way for unsaved manual edits: a
\* timer, a save, a flush about to go on, or the banner that offers a retry.
UnsavedWorkIsPursued ==
  lock = "held" /\ Pending /\ paste = None =>
    timer \/ save # None \/ Waiting \/ state = "error"

\* "Saved" is shown only when the server has stored every edit.
SavedIsStored == state = "saved" => \A c \in Cell : wanted[c] = Clean \/ c \in landed

\* A structural change is sent on top of every edit made before it, and no save
\* runs beside it.
StructureAfterEdits ==
  job.stage = "structWrite" =>
    save = None /\ \A c \in Cell : wanted[c] = Clean \/ c \in landed

\* No stored value gives way to an older one.
NoOverwrite == [][\A c \in Cell : server'[c] >= server[c]]_server

\* A validation starts with every edit stored and no job under way.
ValidationSeesEdits ==
  [][barrier' = "passed" /\ barrier # "passed" =>
       job = NoJob /\ \A c \in Cell : wanted[c] = Clean \/ c \in landed]_barrier

\* Unless a validation was asked for, no timer, flush, reacquisition or manual
\* retry sends a retained paste: only Apply in its panel does.
RetainedPasteWaits ==
  [][paste # None /\ save = None /\ save' # None =>
       job.stage = "pasteWrite" \/ barrier # "none"]_save

\* Without late requests no value gives way to an older one; a retained paste
\* waits for Apply or a validation, and something is under way for every
\* unsaved edit.
StoredInOrder == NoOverwrite /\ RetainedPasteWaits /\ []UnsavedWorkIsPursued

\* A retained paste is sent again only by Apply in its panel
\* (useSheetEditing.ts:126).
RetainedPasteNeedsApply ==
  [][paste # None /\ save = None /\ save' # None => job.stage = "pasteWrite"]_save

\* Unsaved manual edits are stored, discarded, or reported: no retry goes on
\* for ever.
UnsavedWorkIsResolved ==
  (lock = "held" /\ Pending /\ paste = None) ~>
    (~Pending \/ paste # None \/ state = "error" \/ lock # "held")

\* An explicit validation gets past the barrier or is told that it cannot.
BarrierEnds == (barrier \in {"queue", "flush"}) ~> (barrier \in {"passed", "refused"})
=============================================================================
