---------------------------- MODULE AutosaveProofs ----------------------------
(***************************************************************************)
(* What TLAPS proves of Autosave for any cells and bounds.                 *)
(***************************************************************************)
EXTENDS Autosave, FiniteSetTheorems, TLAPS

\* Only wanted edits are unsaved.
UnsavedIsWanted == \A c \in Cell : dirty[c] # Clean => dirty[c] = wanted[c]

\* The cells carry no revision that is still to be allocated.
Old(cells) == \A c \in Cell : cells[c] <= revision

AllIsOld ==
  /\ Old(dirty) /\ Old(wanted)
  /\ paste # None => Old(paste)
  /\ save # None => Old(save.cells)

\* What a save that was stored carries of the wanted edits has landed.
StoredHasLanded ==
  save # None /\ save.stage = "applied" =>
    \A c \in Cell : save.cells[c] # Clean /\ save.cells[c] = wanted[c] => c \in landed

BufferInv == UnsavedIsWanted /\ AllIsOld /\ StoredHasLanded /\ EditsAreKept

\* Where nothing can be unsaved.
Saved      == state = "saved" => ~Pending
Structural == job.stage = "structWrite" => save = None /\ ~Pending

-----------------------------------------------------------------------------
(* Types *)

\* The engine's part of the types.
EngineType ==
  /\ timer \in BOOLEAN /\ attempts \in 0 .. MaxRetries + 1 /\ state \in SaveState
  /\ save \in Save \union {None}
  /\ job \in Job /\ barrier \in {"none", "queue", "flush", "passed", "refused"}

\* A rejection leaves the engine and its callers in their types.
LEMMA RejectType ==
  ASSUME TypeOK, NEW t \in BOOLEAN, NEW a \in 0 .. MaxRetries + 1, NEW s \in SaveState,
         Reject(t, a, s)
  PROVE  /\ timer' \in BOOLEAN /\ attempts' \in 0 .. MaxRetries + 1 /\ state' \in SaveState
         /\ job' \in Job /\ barrier' \in {"none", "queue", "flush", "passed", "refused"}
<1>1. NoJob \in Job
  BY ConstantsAssumption DEF NoJob, Job, Token, NoToken
<1>2. 0 \in 0 .. MaxRetries + 1
  BY ConstantsAssumption
<1> QED
  BY <1>1, <1>2 DEF TypeOK, Reject, Cancel, SaveState

\* run() keeps the types.
LEMMA StartType ==
  ASSUME TypeOK, NEW a \in 0 .. MaxRetries + 1, Start(a)
  PROVE  EngineType'
<1>1. CASE lock = "held"
  <2>1. save' \in Save
    BY <1>1 DEF TypeOK, Start, Save, Reject
  <2> QED
    BY <1>1, <2>1 DEF TypeOK, Start, EngineType, taskVars, SaveState
<1>2. CASE lock # "held"
  <2>1. Reject(FALSE, a, "idle") /\ save' = save
    BY <1>2 DEF Start
  <2> QED
    BY <2>1, RejectType DEF TypeOK, EngineType, SaveState
<1> QED
  BY <1>1, <1>2

\* So does a run() or flushNow() with nothing to do.
LEMMA SettleType ==
  ASSUME TypeOK, NEW a \in 0 .. MaxRetries + 1, Settle(a)
  PROVE  /\ timer' \in BOOLEAN /\ attempts' \in 0 .. MaxRetries + 1
         /\ state' \in SaveState /\ save' \in Save \union {None}
BY DEF TypeOK, Settle, SaveState

\* And run() as a whole.
LEMMA RunType ==
  ASSUME TypeOK, NEW a \in 0 .. MaxRetries + 1, Run(a)
  PROVE  EngineType'
<1>1. CASE Start(a)
  BY <1>1, StartType
<1>2. CASE Settle(a) /\ UNCHANGED taskVars
  BY <1>2, SettleType DEF TypeOK, EngineType, taskVars
<1>3. CASE save # None /\ timer' = FALSE /\ attempts' = a /\ UNCHANGED <<state, save, taskVars>>
  BY <1>3 DEF TypeOK, EngineType, taskVars
<1> QED
  BY <1>1, <1>2, <1>3 DEF Run

\* Init has the types.
LEMMA InitType == Init => TypeOK
<1> SUFFICES ASSUME Init
             PROVE  TypeOK
  OBVIOUS
<1>1. 0 \in Revision /\ {0, 1} \subseteq Token /\ 0 \in 0 .. MaxRetries + 1
  BY ConstantsAssumption DEF Revision, Token, Clean, NoToken
<1>2. [c \in Cell |-> Clean] \in Snapshot
  BY <1>1 DEF Snapshot, Clean
<1>3. NoJob \in Job
  BY <1>1 DEF NoJob, Job, NoToken
<1>4. "idle" \in SaveState
  BY DEF SaveState
<1>5. late \subseteq Request /\ landed \subseteq Cell
  BY DEF Init
<1>6. /\ dirty \in Snapshot /\ wanted \in Snapshot /\ server \in Snapshot
      /\ revision \in Revision /\ valid \in Token /\ issued \in Token
      /\ attempts \in 0 .. MaxRetries + 1
  BY <1>1, <1>2 DEF Init
<1>7. lock = "held" /\ token \in Token /\ token # NoToken
  BY <1>1 DEF Init, NoToken
<1> QED
  BY <1>3, <1>4, <1>5, <1>6, <1>7 DEF Init, TypeOK

\* Every step keeps the types.
LEMMA StepType == TypeOK /\ [Next]_vars => TypeOK'
<1> SUFFICES ASSUME TypeOK, [Next]_vars
             PROVE  TypeOK'
  OBVIOUS
<1> USE ConstantsAssumption
<1>a. NoJob \in Job /\ 0 \in 0 .. MaxRetries + 1 /\ attempts \in 0 .. MaxRetries + 1
  BY DEF NoJob, Job, Token, NoToken, TypeOK
<1>b. \A cells \in Snapshot : Without(cells) \in Snapshot
  BY DEF Snapshot, Revision, Clean, Without, TypeOK
<1>c. revision \in Nat /\ [c \in Cell |-> Clean] \in Snapshot
  BY DEF TypeOK, Revision, Clean, Snapshot
<1>d. LockLost => lock' = "lost" /\ token' \in Token /\ token' = NoToken
  BY DEF LockLost, Token, NoToken
<1>e. Cancel => timer' \in BOOLEAN /\ attempts' \in 0 .. MaxRetries + 1 /\ state' \in SaveState
  BY <1>a DEF Cancel, SaveState
<1>f. Schedule => timer' \in BOOLEAN /\ attempts' \in 0 .. MaxRetries + 1 /\ state' \in SaveState
  BY <1>a DEF Schedule, SaveState, TypeOK
<1>1. CASE UNCHANGED vars
  BY <1>1 DEF TypeOK, vars, bufferVars, engineVars, taskVars, lockVars, serverVars
<1>2. CASE TimerFires
  BY <1>2, <1>a, RunType DEF TimerFires, Run, EngineType, TypeOK, bufferVars, lockVars
<1>3. CASE FlushRuns
  BY <1>3, <1>a, StartType DEF FlushRuns, EngineType, TypeOK, bufferVars, lockVars, serverVars
<1>4. CASE PastePrepares
  <2>1. CASE job' = NoJob /\ UNCHANGED <<dirty, revision, wanted, paste, save, landed>>
    <3>1. state' \in SaveState
      BY <1>4, <2>1 DEF PastePrepares, SaveState, TypeOK
    <3> QED
      BY <1>4, <2>1, <3>1, <1>a DEF PastePrepares, TypeOK, lockVars
  <2>2. CASE ~(job' = NoJob /\ UNCHANGED <<dirty, revision, wanted, paste, save, landed>>)
    <3>1. PICK cells \in SUBSET Cell :
            /\ paste' = [c \in Cell |-> IF c \in cells THEN revision + 1 ELSE Clean]
            /\ wanted' = [c \in Cell |-> IF c \in cells THEN revision + 1 ELSE wanted[c]]
            /\ landed' = landed \ cells
      BY <1>4, <2>2 DEF PastePrepares
    <3>2. /\ revision' = revision + 1 /\ revision < MaxRevision /\ lock = "held"
          /\ dirty' = paste' /\ state' = "saving"
          /\ save' = [cells |-> paste', token |-> token, stage |-> "sent"]
          /\ job' = [job EXCEPT !.stage = "pasteWrite"]
      BY <1>4, <2>2 DEF PastePrepares
    <3>3. revision' \in Revision /\ paste' \in Snapshot /\ wanted' \in Snapshot
      BY <3>1, <3>2, <1>c DEF TypeOK, Revision, Snapshot, Clean
    <3>4. save' \in Save
      BY <3>2, <3>3 DEF Save, TypeOK
    <3>5. job' \in Job
      BY <3>2 DEF Job, Flushing, TypeOK
    <3> QED
      BY <1>4, <3>1, <3>2, <3>3, <3>4, <3>5 DEF PastePrepares, TypeOK, lockVars, SaveState
  <2> QED
    BY <1>4, <2>1, <2>2 DEF PastePrepares
<1>5. CASE PasteEnds
  BY <1>5, <1>a, SettleType DEF PasteEnds, Flushed, TypeOK, lockVars, serverVars
<1>6. CASE StructureSends
  <2>1. [stage |-> "structWrite", token |-> token] \in Job
    <3>1. token \in Token /\ "structWrite" \in Flushing \union {"none", "structWrite"}
      BY DEF TypeOK
    <3> QED
      BY <3>1 DEF Job
  <2>2. job' \in Job
    BY <1>6, <2>1, <1>a DEF StructureSends
  <2>3. /\ timer' \in BOOLEAN /\ attempts' \in 0 .. MaxRetries + 1
        /\ state' \in SaveState /\ save' \in Save \union {None}
    BY <1>6, <1>a, SettleType DEF StructureSends, Flushed
  <2> QED
    BY <1>6, <2>2, <2>3 DEF StructureSends, TypeOK, bufferVars, lockVars, serverVars
<1>7. CASE BarrierChecks
  BY <1>7 DEF BarrierChecks, TypeOK, bufferVars, lockVars, serverVars
<1>8. CASE BarrierFlushed
  BY <1>8, <1>a, SettleType DEF BarrierFlushed, TypeOK, bufferVars, lockVars, serverVars
<1>9. CASE ServerHandles
  <2>1. save \in Save
    BY <1>9 DEF ServerHandles, TypeOK
  <2>2. save' \in Save
    BY <1>9, <2>1 DEF ServerHandles, Save
  <2>3. server' \in Snapshot /\ landed' \subseteq Cell
    BY <1>9, <2>1 DEF ServerHandles, Stored, TypeOK, Save, Snapshot
  <2> QED
    BY <1>9, <2>2, <2>3 DEF ServerHandles, TypeOK, bufferVars, taskVars, lockVars
<1>10. CASE SaveSucceeds
  <2>1. save.cells \in Snapshot
    BY <1>10 DEF SaveSucceeds, TypeOK, Save
  <2>2. dirty' \in Snapshot /\ timer' \in BOOLEAN
    BY <1>10, <2>1, <1>b DEF SaveSucceeds, Rearmed, Holds, TypeOK
  <2>3. state' \in SaveState /\ attempts' \in 0 .. MaxRetries + 1
    BY <1>10 DEF SaveSucceeds, TypeOK, SaveState
  <2> QED
    BY <1>10, <2>2, <2>3 DEF SaveSucceeds, TypeOK, taskVars, lockVars, serverVars
<1>11. CASE SaveFails
  <2>1. Failures \in 0 .. MaxRetries + 1
    BY <1>a DEF Failures
  <2>2. /\ timer' \in BOOLEAN /\ attempts' \in 0 .. MaxRetries + 1 /\ state' \in SaveState
        /\ job' \in Job /\ barrier' \in {"none", "queue", "flush", "passed", "refused"}
    <3>1. CASE Failures <= MaxRetries
      BY <1>11, <3>1, <2>1, RejectType DEF SaveFails, SaveState
    <3>2. CASE ~(Failures <= MaxRetries)
      <4>1. timer \in BOOLEAN /\ Reject(timer, Failures, "error")
        BY <1>11, <3>2 DEF SaveFails, TypeOK
      <4> QED
        BY <4>1, <2>1, RejectType DEF SaveState
    <3> QED
      BY <3>1, <3>2
  <2>3. [cells |-> save.cells, token |-> save.token] \in Request
    BY <1>11 DEF SaveFails, TypeOK, Save, Request
  <2>4. late' \subseteq Request
    BY <1>11, <2>3 DEF SaveFails, TypeOK
  <2> QED
    BY <1>11, <2>2, <2>4 DEF SaveFails, TypeOK, bufferVars, lockVars
<1>12. CASE SaveRefused
  <2>1. /\ timer' \in BOOLEAN /\ attempts' \in 0 .. MaxRetries + 1 /\ state' \in SaveState
        /\ job' \in Job /\ barrier' \in {"none", "queue", "flush", "passed", "refused"}
    BY <1>12, <1>a, RejectType DEF SaveRefused, SaveState
  <2> QED
    BY <1>12, <2>1, <1>d DEF SaveRefused, TypeOK, bufferVars, serverVars
<1>13. CASE StructureAnswered
  <2>1. CASE UNCHANGED <<timer, attempts, state, lockVars>>
    BY <1>13, <2>1, <1>a DEF StructureAnswered, TypeOK, bufferVars, lockVars, serverVars
  <2>2. CASE LockLost /\ Cancel
    BY <1>13, <2>2, <1>a, <1>d, <1>e DEF StructureAnswered, TypeOK, bufferVars, serverVars
  <2> QED
    BY <1>13, <2>1, <2>2 DEF StructureAnswered
<1>14. ASSUME NEW c \in Cell, Edit(c)
       PROVE  TypeOK'
  <2>1. revision' \in Revision /\ dirty' \in Snapshot /\ wanted' \in Snapshot
    BY <1>14, <1>c DEF Edit, TypeOK, Revision, Snapshot, Clean
  <2>2. timer' \in BOOLEAN /\ attempts' \in 0 .. MaxRetries + 1 /\ state' \in SaveState
    BY <1>14, <1>f DEF Edit
  <2> QED
    BY <1>14, <2>1, <2>2 DEF Edit, TypeOK, taskVars, lockVars
<1>15. CASE StagePaste
  BY <1>15 DEF StagePaste, TypeOK, engineVars, taskVars, lockVars, serverVars
<1>16. CASE ApplyPaste \/ ChangeStructure
  <2>1. PICK stage \in Flushing : Enqueue(stage)
    BY <1>16 DEF ApplyPaste, ChangeStructure, Flushing
  <2>2. job' \in Job
    BY <2>1, <1>a DEF Enqueue, Job
  <2> QED
    BY <2>1, <2>2 DEF Enqueue, TypeOK, bufferVars, lockVars, serverVars
<1>17. CASE CancelPaste
  <2>1. dirty' \in Snapshot /\ wanted' \in Snapshot
    <3>1. CASE paste = None
      BY <1>17, <3>1 DEF CancelPaste, TypeOK
    <3>2. CASE paste # None
      <4>1. paste \in Snapshot /\ Dropped(paste)
        BY <1>17, <3>2 DEF CancelPaste, TypeOK
      <4>2. dirty' \in Snapshot
        BY <4>1, <1>b DEF Dropped
      <4>3. wanted' \in Snapshot
        BY <4>1 DEF Dropped, TypeOK, Snapshot, Revision, Clean
      <4> QED
        BY <4>2, <4>3
    <3> QED
      BY <3>1, <3>2
  <2>2. timer' \in BOOLEAN /\ attempts' \in 0 .. MaxRetries + 1 /\ state' \in SaveState
    BY <1>17, <1>e DEF CancelPaste, TypeOK
  <2> QED
    BY <1>17, <2>1, <2>2 DEF CancelPaste, TypeOK, taskVars, lockVars, serverVars
<1>18. CASE Discard
  BY <1>18, <1>c, <1>e DEF Discard, TypeOK, taskVars, lockVars, serverVars
<1>19. CASE RetrySave
  BY <1>19, <1>a, RunType DEF RetrySave, Run, EngineType, TypeOK, bufferVars, lockVars
<1>20. CASE Validate
  BY <1>20 DEF Validate, TypeOK, bufferVars, engineVars, lockVars, serverVars
<1>21. CASE LockEnds
  BY <1>21 DEF LockEnds, TypeOK, bufferVars, engineVars, taskVars, lockVars, Token, NoToken
<1>22. CASE HeartbeatRefused
  BY <1>22, <1>d, <1>e DEF HeartbeatRefused, TypeOK, bufferVars, taskVars, serverVars
<1>23. CASE Reacquire \/ AcquireRefused
  BY <1>23 DEF Reacquire, AcquireRefused, TypeOK, bufferVars, engineVars, taskVars, serverVars
<1>24. CASE Acquired
  <2>1. issued' \in Token /\ issued' # NoToken
    BY <1>24 DEF Acquired, TypeOK, Token, NoToken
  <2>2. timer' \in BOOLEAN /\ attempts' \in 0 .. MaxRetries + 1 /\ state' \in SaveState
    BY <1>24, <1>f DEF Acquired, TypeOK
  <2> QED
    BY <1>24, <2>1, <2>2 DEF Acquired, TypeOK, bufferVars, taskVars
<1>25. ASSUME NEW r \in late, LateRequest(r)
       PROVE  TypeOK'
  <2>1. server' \in Snapshot /\ landed' \subseteq Cell
    BY <1>25 DEF LateRequest, Stored, TypeOK, Request, Snapshot
  <2> QED
    BY <1>25, <2>1 DEF LateRequest, TypeOK, bufferVars, engineVars, taskVars, lockVars
<1> QED
  BY <1>1, <1>2, <1>3, <1>4, <1>5, <1>6, <1>7, <1>8, <1>9, <1>10, <1>11, <1>12, <1>13,
     <1>14, <1>15, <1>16, <1>17, <1>18, <1>19, <1>20, <1>21, <1>22, <1>23, <1>24, <1>25
  DEF Next, Browser, Answers

\* Every variable of the session keeps its type, and the client has a token
\* exactly while it holds the lock.
THEOREM TypeCorrect == Spec => []TypeOK
BY InitType, StepType, PTL DEF Spec
-----------------------------------------------------------------------------
(* The buffer *)

\* Removing cells from the buffer leaves only unsaved edits in it.
LEMMA WithoutKeeps ==
  ASSUME NEW cells, NEW c \in Cell
  PROVE  Without(cells)[c] # Clean => Without(cells)[c] = dirty[c] /\ dirty[c] # cells[c]
BY DEF Without

\* What run() sends is in the buffer or in the retained paste.
LEMMA StartKeepsBuffer ==
  ASSUME TypeOK, BufferInv, NEW a, Start(a), UNCHANGED bufferVars, UNCHANGED landed
  PROVE  BufferInv'
<1>1. UnsavedIsWanted' /\ EditsAreKept'
  BY DEF BufferInv, UnsavedIsWanted, EditsAreKept, bufferVars
<1>2. CASE save' = save
  BY <1>1, <1>2
  DEF BufferInv, AllIsOld, Old, StoredHasLanded, bufferVars
<1>3. CASE save' = [cells |-> IF paste # None THEN paste ELSE dirty,
                    token |-> token, stage |-> "sent"]
  <2>1. save'.cells = (IF paste # None THEN paste ELSE dirty) /\ save'.stage = "sent"
    BY <1>3
  <2>2. AllIsOld'
    BY <2>1 DEF BufferInv, AllIsOld, Old, bufferVars
  <2> QED
    BY <1>1, <2>1, <2>2 DEF BufferInv, StoredHasLanded
<1> QED
  BY <1>2, <1>3 DEF Start

\* A step that leaves the buffer and what landed alone keeps the invariant,
\* whether it keeps or ends the save.
LEMMA QuietKeepsBuffer ==
  ASSUME BufferInv, UNCHANGED bufferVars, UNCHANGED landed, save' \in {save, None}
  PROVE  BufferInv'
BY DEF BufferInv, UnsavedIsWanted, AllIsOld, Old, StoredHasLanded, EditsAreKept, bufferVars

\* run() as a whole.
LEMMA RunKeepsBuffer ==
  ASSUME TypeOK, BufferInv, NEW a, Run(a), UNCHANGED bufferVars, UNCHANGED landed
  PROVE  BufferInv'
<1>1. CASE Start(a)
  BY <1>1, StartKeepsBuffer
<1>2. CASE save' = save
  BY <1>2, QuietKeepsBuffer
<1> QED
  BY <1>1, <1>2 DEF Run, Settle

\* What the server stores only adds to what landed.
LEMMA StoredKeepsBuffer ==
  ASSUME BufferInv, UNCHANGED bufferVars, landed \subseteq landed', UNCHANGED save
  PROVE  BufferInv'
BY DEF BufferInv, UnsavedIsWanted, AllIsOld, Old, StoredHasLanded, EditsAreKept, bufferVars

\* Init satisfies the buffer's invariant.
LEMMA InitBuffer == Init => BufferInv
BY DEF Init, BufferInv, UnsavedIsWanted, AllIsOld, Old, StoredHasLanded, EditsAreKept, Clean

\* Every step keeps it.
LEMMA StepBuffer == TypeOK /\ BufferInv /\ [Next]_vars => BufferInv'
<1> SUFFICES ASSUME TypeOK, BufferInv, [Next]_vars
             PROVE  BufferInv'
  OBVIOUS
<1>t. /\ revision \in Nat /\ revision + 1 # Clean /\ ~(revision + 1 <= revision)
      /\ \A cells \in Snapshot, c \in Cell :
           cells[c] <= revision => cells[c] <= revision + 1 /\ cells[c] # revision + 1
      /\ dirty \in Snapshot /\ wanted \in Snapshot
  BY ConstantsAssumption DEF TypeOK, Snapshot, Revision, Clean
<1>1. CASE UNCHANGED vars
  BY <1>1, QuietKeepsBuffer DEF vars, bufferVars, engineVars, serverVars
<1>2. CASE TimerFires
  BY <1>2, RunKeepsBuffer DEF TimerFires, bufferVars
<1>3. CASE FlushRuns
  BY <1>3, StartKeepsBuffer DEF FlushRuns, bufferVars, serverVars
<1>4. CASE PastePrepares
  <2>1. CASE UNCHANGED <<dirty, revision, wanted, paste, save, landed>>
    BY <1>4, <2>1, QuietKeepsBuffer DEF PastePrepares, bufferVars
  <2>2. CASE ~UNCHANGED <<dirty, revision, wanted, paste, save, landed>>
    <3>1. PICK cells \in SUBSET Cell :
            /\ paste' = [c \in Cell |-> IF c \in cells THEN revision + 1 ELSE Clean]
            /\ wanted' = [c \in Cell |-> IF c \in cells THEN revision + 1 ELSE wanted[c]]
            /\ landed' = landed \ cells
      BY <1>4, <2>2 DEF PastePrepares
    <3>2. /\ revision' = revision + 1 /\ dirty' = paste'
          /\ save'.cells = paste' /\ save'.stage = "sent"
      BY <1>4, <2>2 DEF PastePrepares
    <3>3. \A c \in Cell : dirty[c] = Clean
      BY <1>4 DEF PastePrepares, Pending, Holds
    <3>4. UnsavedIsWanted'
      BY <3>1, <3>2 DEF UnsavedIsWanted
    <3>5. \A c \in Cell : paste'[c] <= revision' /\ wanted'[c] <= revision'
      <4> SUFFICES ASSUME NEW c \in Cell
                   PROVE  paste'[c] <= revision' /\ wanted'[c] <= revision'
        OBVIOUS
      <4>1. wanted[c] <= revision /\ Clean <= revision + 1
        BY <1>t DEF BufferInv, AllIsOld, Old, Clean
      <4>2. wanted[c] <= revision + 1 /\ revision + 1 <= revision + 1
        BY <4>1, <1>t
      <4> QED
        BY <3>1, <3>2, <4>1, <4>2
    <3>6. AllIsOld'
      BY <3>2, <3>5 DEF AllIsOld, Old
    <3>7. EditsAreKept'
      BY <3>1, <3>2, <3>3 DEF BufferInv, EditsAreKept
    <3> QED
      BY <3>2, <3>4, <3>6, <3>7 DEF BufferInv, StoredHasLanded
  <2> QED
    BY <2>1, <2>2
<1>5. CASE PasteEnds
  BY <1>5, QuietKeepsBuffer
  DEF PasteEnds, Flushed, Settle, BufferInv, UnsavedIsWanted, AllIsOld, Old, StoredHasLanded,
      EditsAreKept, serverVars
<1>6. CASE StructureSends \/ BarrierFlushed
  BY <1>6, QuietKeepsBuffer
  DEF StructureSends, BarrierFlushed, Flushed, Settle, bufferVars, serverVars
<1>7. CASE BarrierChecks \/ Validate \/ StructureAnswered
  BY <1>7, QuietKeepsBuffer
  DEF BarrierChecks, Validate, StructureAnswered, bufferVars, engineVars, serverVars
<1>8. CASE ServerHandles
  <2>1. CASE save.token = valid
    <3>1. /\ save' = [save EXCEPT !.stage = "applied"]
          /\ landed' = landed \union
               {c \in Cell : save.cells[c] # Clean /\ save.cells[c] = wanted[c]}
          /\ UNCHANGED bufferVars
      BY <1>8, <2>1 DEF ServerHandles, Stored
    <3>2. save'.cells = save.cells /\ save # None
      BY <1>8, <3>1 DEF ServerHandles, TypeOK, Save
    <3>3. StoredHasLanded'
      BY <3>1, <3>2 DEF StoredHasLanded, bufferVars
    <3>4. UnsavedIsWanted' /\ AllIsOld' /\ EditsAreKept'
      BY <3>1, <3>2
      DEF BufferInv, UnsavedIsWanted, AllIsOld, Old, EditsAreKept, bufferVars
    <3> QED
      BY <3>3, <3>4 DEF BufferInv
  <2>2. CASE save.token # valid
    <3>1. save' = [save EXCEPT !.stage = "refused"] /\ UNCHANGED <<bufferVars, landed>>
      BY <1>8, <2>2 DEF ServerHandles
    <3>2. save'.cells = save.cells /\ save # None /\ save'.stage = "refused"
      BY <1>8, <3>1 DEF ServerHandles, TypeOK, Save
    <3> QED
      BY <3>1, <3>2
      DEF BufferInv, UnsavedIsWanted, AllIsOld, Old, EditsAreKept, StoredHasLanded, bufferVars
  <2> QED
    BY <2>1, <2>2
<1>9. CASE SaveSucceeds
  <2>1. /\ dirty' = Without(save.cells) /\ save' = None /\ paste' = None
        /\ save # None /\ save.stage = "applied"
        /\ UNCHANGED <<revision, wanted, landed>>
    BY <1>9 DEF SaveSucceeds, serverVars
  <2>2. \A c \in Cell : dirty'[c] = (IF dirty[c] = save.cells[c] THEN Clean ELSE dirty[c])
    BY <2>1 DEF Without
  <2>3. UnsavedIsWanted'
    BY <2>1, <2>2 DEF BufferInv, UnsavedIsWanted
  <2>4. \A c \in Cell : dirty'[c] <= revision'
    BY <1>t, <2>1, <2>2 DEF BufferInv, AllIsOld, Old, Clean
  <2>5. AllIsOld'
    BY <2>1, <2>4 DEF BufferInv, AllIsOld, Old
  <2>6. EditsAreKept'
    <3> SUFFICES ASSUME NEW c \in Cell, wanted'[c] # Clean
                 PROVE  dirty'[c] = wanted'[c] \/ c \in landed'
      BY DEF EditsAreKept
    <3>1. CASE c \in landed
      BY <2>1, <3>1
    <3>2. CASE c \notin landed
      <4>1. dirty[c] = wanted[c] /\ dirty[c] # Clean
        BY <2>1, <3>2 DEF BufferInv, EditsAreKept
      <4>2. dirty[c] # save.cells[c]
        BY <2>1, <3>2, <4>1 DEF BufferInv, StoredHasLanded
      <4> QED
        BY <2>1, <2>2, <4>1, <4>2
    <3> QED
      BY <3>1, <3>2
  <2> QED
    BY <2>1, <2>3, <2>5, <2>6 DEF BufferInv, StoredHasLanded
<1>10. CASE SaveFails \/ SaveRefused
  BY <1>10, QuietKeepsBuffer DEF SaveFails, SaveRefused, bufferVars, serverVars
<1>11. ASSUME NEW c \in Cell, Edit(c)
       PROVE  BufferInv'
  <2>1. /\ revision' = revision + 1
        /\ dirty' = [dirty EXCEPT ![c] = revision + 1]
        /\ wanted' = [wanted EXCEPT ![c] = revision + 1]
        /\ landed' = landed \ {c}
        /\ UNCHANGED <<paste, save>>
    BY <1>11 DEF Edit
  <2>2. /\ dirty'[c] = revision + 1 /\ wanted'[c] = revision + 1
        /\ \A d \in Cell \ {c} : dirty'[d] = dirty[d] /\ wanted'[d] = wanted[d]
    BY <1>t, <2>1 DEF Snapshot
  <2>3. UnsavedIsWanted' /\ EditsAreKept'
    BY <2>1, <2>2 DEF BufferInv, UnsavedIsWanted, EditsAreKept
  <2>4. ASSUME NEW cells \in Snapshot, Old(cells)
        PROVE  \A d \in Cell : cells[d] <= revision' /\ cells[d] # wanted'[c]
    BY <1>t, <2>1, <2>2, <2>4 DEF Old
  <2>5. \A d \in Cell : dirty'[d] <= revision' /\ wanted'[d] <= revision'
    <3>1. revision + 1 <= revision'
      BY <1>t, <2>1
    <3>2. \A d \in Cell : dirty[d] <= revision' /\ wanted[d] <= revision'
      BY <1>t, <2>4 DEF BufferInv, AllIsOld
    <3> QED
      BY <2>2, <3>1, <3>2
  <2>6. AllIsOld'
    BY <2>1, <2>4, <2>5 DEF BufferInv, AllIsOld, Old, TypeOK, Save
  <2>7. StoredHasLanded'
    <3> SUFFICES ASSUME save # None, save.stage = "applied", NEW d \in Cell,
                        save.cells[d] # Clean, save.cells[d] = wanted'[d]
                 PROVE  d \in landed'
      BY <2>1 DEF StoredHasLanded
    <3>1. save.cells \in Snapshot /\ Old(save.cells)
      BY DEF BufferInv, AllIsOld, TypeOK, Save
    <3>2. d # c
      BY <2>4, <3>1
    <3> QED
      BY <2>1, <2>2, <3>2 DEF BufferInv, StoredHasLanded
  <2> QED
    BY <2>3, <2>6, <2>7 DEF BufferInv
<1>12. CASE StagePaste
  BY <1>12
  DEF StagePaste, BufferInv, UnsavedIsWanted, AllIsOld, Old, StoredHasLanded, EditsAreKept,
      engineVars, serverVars
<1>13. CASE ApplyPaste \/ ChangeStructure
  BY <1>13, QuietKeepsBuffer DEF ApplyPaste, ChangeStructure, Enqueue, bufferVars, serverVars
<1>14. CASE CancelPaste
  <2>1. CASE paste = None
    BY <1>14, <2>1
    DEF CancelPaste, BufferInv, UnsavedIsWanted, AllIsOld, Old, StoredHasLanded, EditsAreKept,
        serverVars
  <2>2. CASE paste # None
    <3>1. /\ dirty' = Without(paste) /\ paste' = None
          /\ wanted' = [c \in Cell |-> IF dirty'[c] = dirty[c] THEN wanted[c] ELSE Clean]
          /\ UNCHANGED <<revision, save, landed>>
      BY <1>14, <2>2 DEF CancelPaste, Dropped, serverVars
    <3>2. \A c \in Cell : dirty'[c] \in {dirty[c], Clean} /\ wanted'[c] \in {wanted[c], Clean}
      BY <3>1 DEF Without
    <3>3. UnsavedIsWanted' /\ EditsAreKept'
      BY <3>1, <3>2 DEF BufferInv, UnsavedIsWanted, EditsAreKept
    <3>4. Clean <= revision
      BY <1>t DEF Clean
    <3>5. AllIsOld'
      BY <3>1, <3>2, <3>4 DEF BufferInv, AllIsOld, Old
    <3>6. StoredHasLanded'
      BY <3>1, <3>2 DEF BufferInv, StoredHasLanded
    <3> QED
      BY <3>3, <3>5, <3>6 DEF BufferInv
  <2> QED
    BY <2>1, <2>2
<1>15. CASE Discard
  <2>1. /\ \A c \in Cell : dirty'[c] = Clean /\ wanted'[c] = Clean
        /\ paste' = None /\ UNCHANGED <<revision, save, landed>>
    BY <1>15 DEF Discard, serverVars
  <2>2. Clean <= revision
    BY <1>t DEF Clean
  <2> QED
    BY <2>1, <2>2
    DEF BufferInv, UnsavedIsWanted, AllIsOld, Old, StoredHasLanded, EditsAreKept
<1>16. CASE RetrySave
  BY <1>16, RunKeepsBuffer DEF RetrySave, bufferVars
<1>17. CASE LockEnds \/ HeartbeatRefused \/ Reacquire \/ Acquired \/ AcquireRefused
  BY <1>17, QuietKeepsBuffer
  DEF LockEnds, HeartbeatRefused, Reacquire, Acquired, AcquireRefused, bufferVars, engineVars,
      serverVars
<1>18. ASSUME NEW r \in late, LateRequest(r)
       PROVE  BufferInv'
  BY <1>18, StoredKeepsBuffer DEF LateRequest, Stored, bufferVars, engineVars
<1> QED
  BY <1>1, <1>2, <1>3, <1>4, <1>5, <1>6, <1>7, <1>8, <1>9, <1>10, <1>11, <1>12, <1>13,
     <1>14, <1>15, <1>16, <1>17, <1>18
  DEF Next, Browser, Answers

\* No edit gets lost, however edits, saves, failures, pastes, lost locks and
\* late requests interleave.
THEOREM NoEditIsLost == Spec => []EditsAreKept
<1>1. TypeOK /\ BufferInv /\ [Next]_vars => TypeOK' /\ BufferInv'
  BY StepType, StepBuffer
<1>2. TypeOK /\ BufferInv => EditsAreKept
  BY DEF BufferInv
<1> QED
  BY InitType, InitBuffer, <1>1, <1>2, PTL DEF Spec

-----------------------------------------------------------------------------
(* Nothing unsaved *)

Drained == Saved /\ Structural

\* run() sends only what is unsaved.
LEMMA RunKeepsDrained ==
  ASSUME Drained, NEW a, Run(a), UNCHANGED dirty
  PROVE  Drained'
<1>1. Pending' <=> Pending
  BY DEF Pending, Holds
<1>2. CASE Start(a)
  <2>1. Pending /\ job.stage # "structWrite"
    BY <1>2 DEF Start, Drained, Structural
  <2>2. state' # "saved" /\ job'.stage # "structWrite"
    BY <1>2, <2>1 DEF Start, Reject, Cancel, NoJob, taskVars
  <2> QED
    BY <2>2 DEF Drained, Saved, Structural
<1>3. CASE Settle(a) /\ UNCHANGED taskVars
  BY <1>1, <1>3 DEF Settle, Drained, Saved, Structural, taskVars
<1>4. CASE save # None /\ UNCHANGED <<state, save, taskVars>>
  BY <1>1, <1>4 DEF Drained, Saved, Structural, taskVars
<1> QED
  BY <1>2, <1>3, <1>4 DEF Run

\* "Saved" is shown, and a structural change is under way, only with an empty
\* buffer, whatever the step.
LEMMA StepDrained == TypeOK /\ Drained /\ [Next]_vars => Drained'
<1> SUFFICES ASSUME TypeOK, Drained, [Next]_vars
             PROVE  Drained'
  OBVIOUS
<1>a. NoJob.stage = "none"
  BY DEF NoJob
<1>b. dirty' = dirty => (Pending' <=> Pending)
  BY DEF Pending, Holds
<1>1. CASE UNCHANGED vars
  BY <1>1, <1>b DEF vars, bufferVars, engineVars, taskVars, Drained, Saved, Structural
<1>2. CASE TimerFires
  BY <1>2, RunKeepsDrained DEF TimerFires, bufferVars
<1>3. CASE FlushRuns
  <2>1. Start(attempts) /\ UNCHANGED <<dirty, late>>
    BY <1>3 DEF FlushRuns, bufferVars, serverVars
  <2> QED
    BY <2>1, RunKeepsDrained DEF Run
<1>4. CASE PastePrepares
  <2>1. CASE job' = NoJob /\ UNCHANGED <<dirty, revision, wanted, paste, save, landed>>
    BY <1>4, <2>1, <1>a, <1>b DEF PastePrepares, Drained, Saved, Structural
  <2>2. CASE state' = "saving" /\ job' = [job EXCEPT !.stage = "pasteWrite"]
    <3>1. job'.stage = "pasteWrite"
      BY <2>2 DEF TypeOK, Job
    <3> QED
      BY <2>2, <3>1 DEF Drained, Saved, Structural
  <2> QED
    BY <1>4, <2>1, <2>2 DEF PastePrepares
<1>5. CASE PasteEnds \/ StructureSends \/ BarrierFlushed
  <2>1. save' = None /\ ~Pending /\ UNCHANGED dirty
    BY <1>5
    DEF PasteEnds, StructureSends, BarrierFlushed, Flushed, Settle, bufferVars
  <2> QED
    BY <2>1, <1>b DEF Drained, Saved, Structural
<1>6. CASE BarrierChecks \/ Validate
  BY <1>6, <1>b
  DEF BarrierChecks, Validate, bufferVars, engineVars, Drained, Saved, Structural
<1>7. CASE ServerHandles
  <2>1. save # None /\ UNCHANGED <<dirty, state, job>>
    BY <1>7 DEF ServerHandles, bufferVars, taskVars
  <2> QED
    BY <2>1, <1>b DEF Drained, Saved, Structural
<1>8. CASE SaveSucceeds
  <2>1. save # None /\ UNCHANGED job /\ state' = IF Pending' THEN state ELSE "saved"
    BY <1>8 DEF SaveSucceeds, taskVars, Pending
  <2>2. Pending' => Pending
    BY <1>8 DEF SaveSucceeds, Pending, Holds, Without
  <2> QED
    BY <2>1, <2>2 DEF Drained, Saved, Structural
<1>9. CASE SaveFails \/ SaveRefused
  <2>1. save # None
    BY <1>9 DEF SaveFails, SaveRefused
  <2>2. state' # "saved" /\ job' \in {job, NoJob}
    BY <1>9 DEF SaveFails, SaveRefused, Reject, Cancel
  <2> QED
    BY <2>1, <2>2, <1>a DEF Drained, Saved, Structural
<1>10. CASE StructureAnswered
  BY <1>10, <1>a, <1>b
  DEF StructureAnswered, Cancel, bufferVars, Drained, Saved, Structural
<1>11. ASSUME NEW c \in Cell, Edit(c)
       PROVE  Drained'
  BY <1>11, <1>a DEF Edit, Editable, Schedule, taskVars, Drained, Saved, Structural
<1>12. CASE StagePaste
  BY <1>12, <1>b DEF StagePaste, engineVars, taskVars, Drained, Saved, Structural
<1>13. CASE ApplyPaste \/ ChangeStructure
  <2>1. PICK stage \in Flushing : Enqueue(stage)
    BY <1>13 DEF ApplyPaste, ChangeStructure, Flushing
  <2>2. job'.stage # "structWrite" /\ UNCHANGED <<dirty, state>>
    BY <2>1 DEF Enqueue, NoJob, Flushing, bufferVars
  <2> QED
    BY <2>2, <1>b DEF Drained, Saved, Structural
<1>14. CASE CancelPaste
  <2>1. Pending' => Pending
    BY <1>14 DEF CancelPaste, Dropped, Without, Pending, Holds
  <2> QED
    BY <1>14, <2>1 DEF CancelPaste, Cancel, taskVars, Drained, Saved, Structural
<1>15. CASE Discard
  BY <1>15 DEF Discard, Cancel, Pending, Holds, taskVars, Drained, Saved, Structural
<1>16. CASE RetrySave
  BY <1>16, RunKeepsDrained DEF RetrySave, bufferVars
<1>17. CASE LockEnds \/ Reacquire \/ AcquireRefused
  BY <1>17, <1>b
  DEF LockEnds, Reacquire, AcquireRefused, bufferVars, engineVars, taskVars, Drained, Saved,
      Structural
<1>18. CASE HeartbeatRefused
  BY <1>18, <1>b
  DEF HeartbeatRefused, Cancel, bufferVars, taskVars, Drained, Saved, Structural
<1>19. CASE Acquired
  <2>1. UNCHANGED <<dirty, save, job>> /\ (state' = "saved" => state = "saved")
    BY <1>19 DEF Acquired, Schedule, bufferVars, taskVars
  <2> QED
    BY <2>1, <1>b DEF Drained, Saved, Structural
<1>20. ASSUME NEW r \in late, LateRequest(r)
       PROVE  Drained'
  BY <1>20, <1>b
  DEF LateRequest, bufferVars, engineVars, taskVars, Drained, Saved, Structural
<1> QED
  BY <1>1, <1>2, <1>3, <1>4, <1>5, <1>6, <1>7, <1>8, <1>9, <1>10, <1>11, <1>12, <1>13,
     <1>14, <1>15, <1>16, <1>17, <1>18, <1>19, <1>20
  DEF Next, Browser, Answers

\* With an empty buffer every wanted edit has landed.
LEMMA EmptyBufferHasLanded ==
  ASSUME EditsAreKept, ~Pending
  PROVE  \A c \in Cell : wanted[c] = Clean \/ c \in landed
BY DEF EditsAreKept, Pending, Holds

\* The three invariants together.
LEMMA Inductive == Spec => [](TypeOK /\ BufferInv /\ Drained)
<1>1. Init => Drained
  BY DEF Init, Drained, Saved, Structural, NoJob
<1>2. TypeOK /\ BufferInv /\ Drained /\ [Next]_vars => (TypeOK /\ BufferInv /\ Drained)'
  BY StepType, StepBuffer, StepDrained
<1> QED
  BY InitType, InitBuffer, <1>1, <1>2, PTL DEF Spec

\* "Saved" means stored.
THEOREM SavedMeansStored == Spec => []SavedIsStored
<1>1. TypeOK /\ BufferInv /\ Drained => SavedIsStored
  BY EmptyBufferHasLanded DEF BufferInv, Drained, Saved, SavedIsStored
<1> QED
  BY Inductive, <1>1, PTL

\* Structural changes are sent on top of every earlier edit.
THEOREM StructureFollowsEdits == Spec => []StructureAfterEdits
<1>1. TypeOK /\ BufferInv /\ Drained => StructureAfterEdits
  BY EmptyBufferHasLanded DEF BufferInv, Drained, Structural, StructureAfterEdits
<1> QED
  BY Inductive, <1>1, PTL

\* A validation starts on stored edits.
THEOREM ValidationsSeeEdits == Spec => ValidationSeesEdits
<1>1. TypeOK /\ BufferInv /\ Drained /\ [Next]_vars =>
        [barrier' = "passed" /\ barrier # "passed" =>
           job = NoJob /\ \A c \in Cell : wanted[c] = Clean \/ c \in landed]_barrier
  <2> SUFFICES ASSUME BufferInv, [Next]_vars, barrier' = "passed", barrier # "passed"
               PROVE  job = NoJob /\ \A c \in Cell : wanted[c] = Clean \/ c \in landed
    OBVIOUS
  <2>1. Validate \/ BarrierChecks
    BY DEF Next, Browser, Answers, vars, bufferVars, engineVars, taskVars, lockVars, serverVars,
           TimerFires, RetrySave, Run, FlushRuns, Start, Settle, Reject, PastePrepares, PasteEnds,
           StructureSends, Flushed, BarrierFlushed, ServerHandles, SaveSucceeds, SaveFails,
           SaveRefused, StructureAnswered, Edit, StagePaste, ApplyPaste, ChangeStructure, Enqueue,
           CancelPaste, Discard, LockEnds, HeartbeatRefused, Reacquire, Acquired, AcquireRefused,
           LateRequest
  <2>2. Idle
    BY <2>1 DEF Validate, BarrierChecks
  <2> QED
    BY <2>2, EmptyBufferHasLanded DEF Idle, BufferInv
<1> QED
  BY Inductive, <1>1, PTL DEF Spec, ValidationSeesEdits

-----------------------------------------------------------------------------
(* Retained pastes, and work under way *)

\* A retained paste is all that is unsaved, and all that a save carries, while
\* its panel is open.
PasteIsUnsaved ==
  paste # None => panel /\ Pending /\ dirty = paste /\ (save # None => save.cells = paste)

\* It is on its way only for its panel or a validation.
PasteHasReason ==
  paste # None =>
    /\ job.stage \in {"none", "pasteWrite"}
    /\ timer \/ save # None => job.stage = "pasteWrite" \/ barrier # "none"

\* A paste that has been written or discarded leaves nothing unsaved.
PasteIsThrough == job.stage = "pasteWrite" /\ paste = None => ~Pending

\* A paste is written from its panel.
PasteHasPanel == job.stage = "pasteFlush" => panel

PasteInv == PasteIsUnsaved /\ PasteHasReason /\ PasteIsThrough /\ PasteHasPanel

\* The buffer does not change, nor what a save carries.
LEMMA UnsavedPasteKept ==
  ASSUME PasteIsUnsaved, UNCHANGED <<dirty, paste, panel>>,
         paste # None /\ save' # None => save'.cells = paste
  PROVE  PasteIsUnsaved' /\ (Pending' <=> Pending)
BY DEF PasteIsUnsaved, Pending, Holds

\* The end of a save for which flushNow waits, or of the flushNow alone.
LEMMA RejectKeepsPaste ==
  ASSUME PasteInv, NEW t, NEW a, NEW s, Reject(t, a, s), save' = None, UNCHANGED bufferVars,
         t => save # None \/ timer
  PROVE  PasteInv'
<1>1. PasteIsUnsaved' /\ (Pending' <=> Pending)
  BY UnsavedPasteKept DEF PasteInv, bufferVars
<1>2. job' = (IF job.stage \in Flushing THEN NoJob ELSE job) /\ NoJob.stage = "none"
  BY DEF Reject, NoJob
<1>3. PasteHasReason'
  <2> SUFFICES ASSUME paste # None
               PROVE  /\ job'.stage \in {"none", "pasteWrite"}
                      /\ timer' => barrier' # "none"
    BY <1>1 DEF PasteHasReason, bufferVars
  <2>1. job.stage \in {"none", "pasteWrite"}
    BY DEF PasteInv, PasteHasReason
  <2>2. job'.stage = "none"
    BY <1>2, <2>1 DEF Flushing
  <2>3. CASE job.stage = "pasteWrite"
    BY <2>2, <2>3 DEF Reject, Cancel
  <2>4. CASE job.stage # "pasteWrite"
    <3>1. timer' = t /\ barrier' = (IF barrier = "flush" THEN "refused" ELSE barrier)
      BY <2>4 DEF Reject
    <3>2. t => barrier # "none"
      BY <2>4 DEF PasteInv, PasteHasReason
    <3> QED
      BY <2>2, <3>1, <3>2
  <2> QED
    BY <2>3, <2>4
<1>4. PasteIsThrough' /\ PasteHasPanel'
  <2>1. job'.stage \notin {"pasteFlush", "pasteWrite"}
    BY <1>2 DEF Flushing
  <2> QED
    BY <2>1 DEF PasteIsThrough, PasteHasPanel
<1> QED
  BY <1>1, <1>3, <1>4 DEF PasteInv

\* Nothing of the paste changes, and no timer or save begins.
LEMMA IdleKeepsPaste ==
  ASSUME PasteInv, UNCHANGED bufferVars, UNCHANGED job, barrier # "none" => barrier' # "none",
         timer' => timer, save' # None => save # None /\ save'.cells = save.cells
  PROVE  PasteInv'
<1>1. PasteIsUnsaved' /\ (Pending' <=> Pending)
  BY UnsavedPasteKept DEF PasteInv, PasteIsUnsaved, bufferVars
<1>2. PasteHasReason'
  BY DEF PasteInv, PasteHasReason, bufferVars
<1> QED
  BY <1>1, <1>2 DEF PasteInv, PasteIsThrough, PasteHasPanel, bufferVars

\* run() sends the paste only for a reason.
LEMMA StartKeepsPaste ==
  ASSUME TypeOK, PasteInv, NEW a, Start(a), UNCHANGED bufferVars,
         paste # None => job.stage = "pasteWrite" \/ barrier # "none"
  PROVE  PasteInv'
<1>1. CASE lock # "held"
  <2>1. Reject(FALSE, a, "idle") /\ save' = None
    BY <1>1 DEF Start
  <2> QED
    BY <2>1, RejectKeepsPaste
<1>2. CASE lock = "held"
  <2>1. /\ save' = [cells |-> IF paste # None THEN paste ELSE dirty,
                    token |-> token, stage |-> "sent"]
        /\ UNCHANGED taskVars
    BY <1>2 DEF Start, Reject
  <2>2. save'.cells = (IF paste # None THEN paste ELSE dirty)
    BY <2>1
  <2>3. PasteIsUnsaved' /\ (Pending' <=> Pending)
    BY <2>2, UnsavedPasteKept DEF PasteInv, bufferVars
  <2>4. PasteHasReason' /\ PasteIsThrough' /\ PasteHasPanel'
    BY <2>1, <2>3
    DEF PasteInv, PasteHasReason, PasteIsThrough, PasteHasPanel, bufferVars, taskVars
  <2> QED
    BY <2>3, <2>4 DEF PasteInv
<1> QED
  BY <1>1, <1>2

\* The same of run() as a whole.
LEMMA RunKeepsPaste ==
  ASSUME TypeOK, PasteInv, NEW a, Run(a), UNCHANGED bufferVars,
         paste # None => job.stage = "pasteWrite" \/ barrier # "none"
  PROVE  PasteInv'
<1>1. CASE Start(a)
  BY <1>1, StartKeepsPaste
<1>2. CASE ~Start(a)
  <2>1. UNCHANGED <<save, taskVars>> /\ timer' = FALSE
    BY <1>2 DEF Run, Settle
  <2> QED
    BY <2>1, IdleKeepsPaste DEF taskVars
<1> QED
  BY <1>1, <1>2

\* No paste is retained, none is being written: nothing to keep.
LEMMA NoPaste ==
  ASSUME paste' = None, job'.stage = "pasteWrite" => ~Pending',
         job'.stage = "pasteFlush" => panel'
  PROVE  PasteInv'
BY DEF PasteInv, PasteIsUnsaved, PasteHasReason, PasteIsThrough, PasteHasPanel

\* Every step keeps what is known of pastes.
LEMMA StepPaste == TypeOK /\ PasteInv /\ [Next]_vars => PasteInv'
<1> SUFFICES ASSUME TypeOK, PasteInv, [Next]_vars
             PROVE  PasteInv'
  OBVIOUS
<1>a. NoJob.stage = "none"
  BY DEF NoJob
<1>b. dirty' = dirty => (Pending' <=> Pending)
  BY DEF Pending, Holds
<1>c. ~Pending => paste = None
  BY DEF PasteInv, PasteIsUnsaved
<1>1. CASE UNCHANGED vars
  BY <1>1, IdleKeepsPaste DEF vars, bufferVars, engineVars, taskVars
<1>2. CASE TimerFires
  <2>1. timer /\ Run(attempts) /\ UNCHANGED bufferVars
    BY <1>2 DEF TimerFires
  <2> QED
    BY <2>1, RunKeepsPaste DEF PasteInv, PasteHasReason
<1>3. CASE FlushRuns
  <2>1. Waiting /\ Start(attempts) /\ UNCHANGED bufferVars
    BY <1>3 DEF FlushRuns
  <2>2. paste # None => job.stage = "pasteWrite" \/ barrier # "none"
    BY <2>1 DEF Waiting, Flushing, PasteInv, PasteHasReason
  <2> QED
    BY <2>1, <2>2, StartKeepsPaste
<1>4. CASE PastePrepares
  <2>1. paste = None
    BY <1>4, <1>c DEF PastePrepares
  <2>2. CASE job' = NoJob /\ UNCHANGED <<dirty, revision, wanted, paste, save, landed>>
    BY <2>1, <2>2, <1>a, NoPaste
  <2>3. CASE revision' = revision + 1 /\ revision' # revision
    <3>1. PICK cells \in (SUBSET Cell) \ {{}} :
            paste' = [c \in Cell |-> IF c \in cells THEN revision + 1 ELSE Clean]
      BY <1>4, <2>3 DEF PastePrepares
    <3>2. /\ dirty' = paste' /\ save' = [cells |-> paste', token |-> token, stage |-> "sent"]
          /\ job' = [job EXCEPT !.stage = "pasteWrite"]
          /\ panel' = panel
      BY <1>4, <2>3 DEF PastePrepares
    <3>3. job'.stage = "pasteWrite" /\ save'.cells = paste'
      BY <3>2 DEF TypeOK, Job
    <3>4. Pending'
      <4>1. PICK c \in cells : TRUE
        OBVIOUS
      <4>2. c \in Cell /\ paste'[c] = revision + 1
        BY <3>1
      <4>3. revision + 1 # Clean
        BY ConstantsAssumption DEF TypeOK, Revision, Clean
      <4> QED
        BY <3>2, <4>2, <4>3 DEF Pending, Holds
    <3>5. panel
      <4>1. job.stage = "pasteFlush" /\ PasteHasPanel
        BY <1>4 DEF PastePrepares, PasteInv
      <4> QED
        BY <4>1 DEF PasteHasPanel
    <3>6. PasteIsUnsaved'
      <4>1. panel'
        BY <3>2, <3>5
      <4>2. dirty' = paste'
        BY <3>2
      <4> QED
        BY <4>1, <4>2, <3>3, <3>4 DEF PasteIsUnsaved
    <3>7. PasteHasReason' /\ PasteHasPanel'
      BY <3>3 DEF PasteHasReason, PasteHasPanel
    <3>8. paste' # None
      <4>1. revision < MaxRevision
        BY <1>4, <2>3 DEF PastePrepares
      <4>2. revision + 1 \in Revision /\ Clean \in Revision
        BY <4>1, ConstantsAssumption DEF TypeOK, Revision, Clean
      <4> QED
        BY <3>1, <4>2, NoneAssumption DEF Snapshot
    <3> QED
      BY <3>6, <3>7, <3>8 DEF PasteInv, PasteIsThrough
  <2>4. revision + 1 # revision
    BY ConstantsAssumption DEF TypeOK, Revision, Clean
  <2> QED
    BY <2>2, <2>3, <2>4, <1>4 DEF PastePrepares
<1>5. CASE PasteEnds
  <2>1. paste' = None /\ job' = NoJob
    BY <1>5, <1>c DEF PasteEnds, Flushed, Settle
  <2> QED
    BY <2>1, <1>a, NoPaste
<1>6. CASE StructureSends
  <2>1. paste' = None /\ job'.stage \in {"none", "structWrite"}
    BY <1>6, <1>a, <1>c DEF StructureSends, Flushed, Settle, bufferVars
  <2> QED
    BY <2>1, NoPaste
<1>7. CASE BarrierFlushed \/ BarrierChecks \/ Validate
  <2>1. UNCHANGED <<bufferVars, job>> /\ save' = save /\ barrier' # "none"
    BY <1>7 DEF BarrierFlushed, BarrierChecks, Validate, Settle, engineVars
  <2>2. timer' => timer
    <3>1. timer' \in {timer, FALSE} \/ timer' = (timer /\ barrier' # "flush")
      BY <1>7 DEF BarrierFlushed, BarrierChecks, Validate, Settle, engineVars
    <3> QED
      BY <3>1
  <2> QED
    BY <2>1, <2>2, IdleKeepsPaste
<1>8. CASE ServerHandles
  <2>1. /\ save # None /\ save'.cells = save.cells
        /\ UNCHANGED <<bufferVars, timer, taskVars>>
    <3>1. save \in Save
      BY <1>8 DEF ServerHandles, TypeOK
    <3>2. \E s \in {"applied", "refused"} : save' = [save EXCEPT !.stage = s]
      BY <1>8 DEF ServerHandles
    <3>3. save' \in Save /\ save'.cells = save.cells
      BY <3>1, <3>2 DEF Save
    <3> QED
      BY <1>8, <3>3 DEF ServerHandles
  <2> QED
    BY <2>1, IdleKeepsPaste DEF taskVars
<1>9. CASE SaveSucceeds
  <2>1. /\ dirty' = Without(save.cells) /\ paste' = None /\ save # None
        /\ UNCHANGED <<panel, job>>
    BY <1>9 DEF SaveSucceeds, taskVars
  <2>2. job.stage = "pasteWrite" => ~Pending'
    <3>1. CASE paste = None
      BY <2>1, <3>1 DEF PasteInv, PasteIsThrough, Pending, Holds, Without
    <3>2. CASE paste # None
      <4>1. save.cells = dirty
        BY <2>1, <3>2 DEF PasteInv, PasteIsUnsaved
      <4> QED
        BY <2>1, <4>1 DEF Pending, Holds, Without
    <3> QED
      BY <3>1, <3>2
  <2> QED
    BY <2>1, <2>2, NoPaste DEF PasteInv, PasteHasPanel
<1>10. CASE SaveFails
  <2>1. save # None /\ save' = None /\ UNCHANGED bufferVars
    BY <1>10 DEF SaveFails
  <2>2. Reject(TRUE, Failures, "saving") \/ Reject(timer, Failures, "error")
    BY <1>10 DEF SaveFails
  <2> QED
    BY <2>1, <2>2, RejectKeepsPaste
<1>11. CASE SaveRefused
  BY <1>11, RejectKeepsPaste DEF SaveRefused
<1>12. CASE StructureAnswered
  <2>1. paste = None \/ job.stage # "structWrite"
    BY DEF PasteInv, PasteHasReason
  <2>2. job' = NoJob /\ paste' = paste /\ job.stage = "structWrite"
    BY <1>12 DEF StructureAnswered, bufferVars
  <2> QED
    BY <2>1, <2>2, <1>a, NoPaste
<1>13. ASSUME NEW c \in Cell, Edit(c)
       PROVE  PasteInv'
  <2>1. ~panel /\ job = NoJob /\ UNCHANGED <<paste, job>>
    BY <1>13 DEF Edit, Editable, taskVars
  <2>2. paste = None
    BY <2>1 DEF PasteInv, PasteIsUnsaved
  <2> QED
    BY <2>1, <2>2, <1>a, NoPaste
<1>14. CASE StagePaste
  <2>1. ~panel /\ job = NoJob /\ UNCHANGED <<paste, job>>
    BY <1>14 DEF StagePaste, Editable, taskVars
  <2>2. paste = None
    BY <2>1 DEF PasteInv, PasteIsUnsaved
  <2> QED
    BY <2>1, <2>2, <1>a, NoPaste
<1>15. CASE ApplyPaste
  <2>1. /\ panel /\ UNCHANGED bufferVars /\ timer' = FALSE /\ UNCHANGED <<save, barrier>>
        /\ job' = [NoJob EXCEPT !.stage = IF paste = None THEN "pasteFlush" ELSE "pasteWrite"]
    BY <1>15 DEF ApplyPaste, Enqueue
  <2>2. job'.stage = IF paste = None THEN "pasteFlush" ELSE "pasteWrite"
    BY <2>1 DEF NoJob
  <2>3. CASE paste = None
    BY <2>1, <2>2, <2>3, NoPaste DEF bufferVars
  <2>4. CASE paste # None
    <3>1. PasteIsUnsaved'
      BY <2>1, UnsavedPasteKept DEF PasteInv, PasteIsUnsaved, bufferVars
    <3> QED
      BY <2>1, <2>2, <2>4, <3>1
      DEF PasteInv, PasteHasReason, PasteIsThrough, PasteHasPanel, bufferVars
  <2> QED
    BY <2>3, <2>4
<1>16. CASE ChangeStructure
  <2>1. paste = None
    BY <1>16 DEF ChangeStructure, PasteInv, PasteIsUnsaved
  <2>2. UNCHANGED bufferVars /\ job'.stage = "structFlush"
    BY <1>16 DEF ChangeStructure, Enqueue, NoJob
  <2> QED
    BY <2>1, <2>2, NoPaste DEF bufferVars
<1>17. CASE CancelPaste
  BY <1>17, NoPaste DEF CancelPaste, taskVars
<1>18. CASE Discard
  <2>1. ~Pending' /\ paste' = None /\ UNCHANGED <<panel, job>>
    BY <1>18 DEF Discard, Pending, Holds, taskVars
  <2> QED
    BY <2>1, NoPaste DEF PasteInv, PasteHasPanel
<1>19. CASE RetrySave
  BY <1>19, RunKeepsPaste DEF RetrySave
<1>20. CASE LockEnds \/ Reacquire \/ AcquireRefused \/ HeartbeatRefused
  BY <1>20, IdleKeepsPaste
  DEF LockEnds, Reacquire, AcquireRefused, HeartbeatRefused, Cancel, engineVars, taskVars
<1>21. CASE Acquired
  <2>1. CASE paste = None
    BY <1>21, <2>1, <1>b, NoPaste
    DEF Acquired, bufferVars, taskVars, PasteInv, PasteIsThrough, PasteHasPanel
  <2>2. CASE paste # None
    BY <1>21, <2>2, IdleKeepsPaste DEF Acquired, taskVars
  <2> QED
    BY <2>1, <2>2
<1>22. ASSUME NEW r \in late, LateRequest(r)
       PROVE  PasteInv'
  BY <1>22, IdleKeepsPaste DEF LateRequest, engineVars, taskVars
<1> QED
  BY <1>1, <1>2, <1>3, <1>4, <1>5, <1>6, <1>7, <1>8, <1>9, <1>10, <1>11, <1>12, <1>13,
     <1>14, <1>15, <1>16, <1>17, <1>18, <1>19, <1>20, <1>21, <1>22
  DEF Next, Browser, Answers

\* Something is under way for unsaved manual edits after every step.
LEMMA StepPursued ==
  TypeOK /\ Drained /\ PasteInv /\ UnsavedWorkIsPursued /\ [Next]_vars => UnsavedWorkIsPursued'
<1> SUFFICES ASSUME TypeOK, Drained, PasteInv, UnsavedWorkIsPursued, [Next]_vars,
                    lock' = "held", Pending', paste' = None
             PROVE  (timer \/ save # None \/ Waiting \/ state = "error")'
  BY DEF UnsavedWorkIsPursued
<1>a. dirty' = dirty => Pending
  BY DEF Pending, Holds
<1>b. UNCHANGED bufferVars => Pending /\ paste = None
  BY <1>a DEF bufferVars
<1>c. lock = "held" /\ Pending /\ paste = None => timer \/ save # None \/ Waiting \/ state = "error"
  BY DEF UnsavedWorkIsPursued
<1>d. ASSUME UNCHANGED bufferVars, UNCHANGED lock, UNCHANGED <<timer, save, job, barrier, state>>
      PROVE  (timer \/ save # None \/ Waiting \/ state = "error")'
  BY <1>b, <1>c, <1>d DEF Waiting
<1>e. ASSUME NEW a, Run(a), UNCHANGED <<bufferVars, lockVars>>
      PROVE  (timer \/ save # None \/ Waiting \/ state = "error")'
  <2>1. lock = "held" /\ Pending
    BY <1>b, <1>e DEF lockVars
  <2>2. CASE Start(a)
    <3>1. save' = [cells |-> IF paste # None THEN paste ELSE dirty,
                   token |-> token, stage |-> "sent"]
      BY <2>1, <2>2 DEF Start
    <3>2. save' \in Save
      BY <3>1 DEF TypeOK, Save
    <3> QED
      BY <3>2, NoneAssumption
  <2>3. CASE save # None /\ UNCHANGED save
    BY <2>3
  <2> QED
    BY <1>e, <2>1, <2>2, <2>3 DEF Run, Settle
<1>1. CASE UNCHANGED vars
  BY <1>1, <1>d DEF vars, bufferVars, engineVars, taskVars, lockVars
<1>2. CASE TimerFires
  BY <1>2, <1>e DEF TimerFires
<1>3. CASE FlushRuns
  BY <1>3, <1>e DEF FlushRuns, Run, serverVars
<1>4. CASE PastePrepares
  <2>1. paste = None /\ ~Pending
    BY <1>4 DEF PastePrepares, PasteInv, PasteIsUnsaved
  <2>2. dirty' # dirty
    BY <2>1, <1>a
  <2>3. save' = [cells |-> paste', token |-> token, stage |-> "sent"] /\ dirty' = paste'
    BY <1>4, <2>2 DEF PastePrepares
  <2>4. save'.cells \in Snapshot /\ None \in Snapshot
    <3>1. TypeOK'
      BY StepType
    <3>2. dirty' \in Snapshot /\ dirty' = None
      BY <2>3, <3>1 DEF TypeOK
    <3> QED
      BY <2>3, <3>2
  <2> QED
    BY <2>4, NoneAssumption
<1>5. CASE PasteEnds \/ StructureSends \/ BarrierFlushed
  <2>1. ~Pending /\ UNCHANGED dirty
    BY <1>5 DEF PasteEnds, StructureSends, BarrierFlushed, Flushed, Settle, bufferVars
  <2> QED
    BY <2>1, <1>a
<1>6. CASE BarrierChecks
  <2>1. CASE barrier' = "flush"
    BY <2>1 DEF Waiting
  <2>2. CASE barrier' # "flush"
    <3>1. UNCHANGED <<bufferVars, save, job, state, lock>> /\ timer' = timer
      BY <1>6, <2>2 DEF BarrierChecks, lockVars, TypeOK
    <3>2. ~(barrier = "flush")
      BY <1>6 DEF BarrierChecks
    <3> QED
      BY <3>1, <3>2, <1>b, <1>c DEF Waiting
  <2> QED
    BY <2>1, <2>2
<1>7. CASE Validate
  <2>1. UNCHANGED <<bufferVars, timer, save, job, state, lock>> /\ barrier # "flush"
    BY <1>7 DEF Validate, engineVars, lockVars
  <2> QED
    BY <2>1, <1>b, <1>c DEF Waiting
<1>8. CASE ServerHandles
  <2>1. save \in Save /\ \E s \in {"applied", "refused"} : save' = [save EXCEPT !.stage = s]
    BY <1>8 DEF ServerHandles, TypeOK
  <2>2. save' \in Save
    BY <2>1 DEF Save
  <2> QED
    BY <2>2, NoneAssumption
<1>9. CASE SaveSucceeds
  <2>1. dirty' = Without(save.cells) /\ timer' = Rearmed(save.cells)
    BY <1>9 DEF SaveSucceeds
  <2>2. timer'
    BY <2>1 DEF Rearmed, Pending, Holds, Without
  <2> QED
    BY <2>2
<1>10. CASE SaveFails
  <2>1. Pending /\ paste = None
    BY <1>10, <1>b DEF SaveFails
  <2>2. job.stage # "pasteWrite"
    BY <2>1 DEF PasteInv, PasteIsThrough
  <2>3. timer' = TRUE \/ state' = "error"
    BY <1>10, <2>2 DEF SaveFails, Reject
  <2> QED
    BY <2>3
<1>11. CASE SaveRefused \/ HeartbeatRefused
  BY <1>11 DEF SaveRefused, HeartbeatRefused, LockLost
<1>12. CASE StructureAnswered
  <2>1. ~Pending /\ UNCHANGED dirty
    BY <1>12 DEF StructureAnswered, Drained, Structural, bufferVars
  <2> QED
    BY <2>1, <1>a
<1>13. ASSUME NEW c \in Cell, Edit(c)
       PROVE  timer'
  BY <1>13 DEF Edit, Schedule
<1>14. CASE StagePaste
  <2>1. UNCHANGED <<dirty, paste, timer, save, job, barrier, state, lock>>
    BY <1>14 DEF StagePaste, engineVars, taskVars, lockVars
  <2> QED
    BY <2>1, <1>a, <1>c DEF Waiting
<1>15. CASE ApplyPaste \/ ChangeStructure
  <2>1. PICK stage \in Flushing \cup {"pasteWrite"} : Enqueue(stage)
    BY <1>15 DEF ApplyPaste, ChangeStructure, Flushing
  <2>2. job'.stage \in Flushing
    BY <2>1 DEF Enqueue, NoJob, Flushing
  <2> QED
    BY <2>2 DEF Waiting
<1>16. CASE CancelPaste
  <2>1. CASE paste = None
    <3>1. UNCHANGED <<dirty, paste, timer, save, job, barrier, state, lock>>
      BY <1>16, <2>1 DEF CancelPaste, taskVars, lockVars
    <3> QED
      BY <3>1, <1>a, <1>c DEF Waiting
  <2>2. CASE paste # None
    <3>1. dirty' = Without(paste) /\ dirty = paste
      BY <1>16, <2>2 DEF CancelPaste, Dropped, PasteInv, PasteIsUnsaved
    <3> QED
      BY <3>1 DEF Without, Pending, Holds
  <2> QED
    BY <2>1, <2>2
<1>17. CASE Discard
  BY <1>17 DEF Discard, Pending, Holds
<1>18. CASE RetrySave
  BY <1>18, <1>e DEF RetrySave
<1>19. CASE LockEnds
  BY <1>19, <1>d DEF LockEnds, engineVars, taskVars, lockVars
<1>20. CASE Reacquire \/ AcquireRefused
  BY <1>20 DEF Reacquire, AcquireRefused
<1>21. CASE Acquired
  <2>1. Pending /\ paste = None
    BY <1>21, <1>b DEF Acquired
  <2> QED
    BY <1>21, <2>1 DEF Acquired, Schedule
<1>22. ASSUME NEW r \in late, LateRequest(r)
       PROVE  (timer \/ save # None \/ Waiting \/ state = "error")'
  BY <1>22, <1>d DEF LateRequest, engineVars, taskVars, lockVars
<1> QED
  BY <1>1, <1>2, <1>3, <1>4, <1>5, <1>6, <1>7, <1>8, <1>9, <1>10, <1>11, <1>12, <1>13,
     <1>14, <1>15, <1>16, <1>17, <1>18, <1>19, <1>20, <1>21, <1>22
  DEF Next, Browser, Answers

-----------------------------------------------------------------------------
(* The order of what is stored *)

\* What is unsaved is not older than what is stored or on its way, and nor is
\* what is on its way than what is stored.
NewerThan(cells, older) == \A c \in Cell : cells[c] # Clean => cells[c] >= older[c]

OrderInv ==
  /\ late = {}
  /\ Old(server)
  /\ NewerThan(dirty, server)
  /\ save # None =>
       /\ NewerThan(dirty, save.cells)
       /\ save.stage = "sent" => NewerThan(save.cells, server)

\* An order that both sides of a comparison keep.
LEMMA OrderKept ==
  ASSUME OrderInv, UNCHANGED <<dirty, revision, server>>, late' = {},
         save' # None => save' = save
  PROVE  OrderInv'
BY DEF OrderInv, Old, NewerThan

\* run() sends what is unsaved.
LEMMA StartKeepsOrder ==
  ASSUME TypeOK, PasteInv, OrderInv, NEW a, Start(a), UNCHANGED <<dirty, revision, server, late>>
  PROVE  OrderInv'
<1>1. CASE save' = save
  BY <1>1, OrderKept DEF OrderInv
<1>2. CASE save' = [cells |-> IF paste # None THEN paste ELSE dirty,
                    token |-> token, stage |-> "sent"]
  <2>1. save'.cells = dirty
    BY <1>2 DEF PasteInv, PasteIsUnsaved
  <2>2. \A c \in Cell : dirty[c] >= dirty[c]
    BY ConstantsAssumption DEF TypeOK, Snapshot, Revision, Clean
  <2> QED
    BY <2>1, <2>2 DEF OrderInv, Old, NewerThan
<1> QED
  BY <1>1, <1>2 DEF Start

\* The same of run() as a whole.
LEMMA RunKeepsOrder ==
  ASSUME TypeOK, PasteInv, OrderInv, NEW a, Run(a), UNCHANGED <<bufferVars, server>>
  PROVE  OrderInv'
<1>1. CASE Start(a)
  BY <1>1, StartKeepsOrder DEF Run, bufferVars
<1>2. CASE save' = save
  BY <1>2, OrderKept DEF Run, bufferVars, OrderInv
<1> QED
  BY <1>1, <1>2 DEF Run, Settle

\* Without late requests every step keeps the order, and what it stores is not
\* older than what was stored.
LEMMA StepOrder ==
  ASSUME MaxLate = 0, TypeOK, BufferInv, PasteInv, OrderInv, [Next]_vars
  PROVE  OrderInv' /\ \A c \in Cell : server'[c] >= server[c]
<1>r. /\ Revision \subseteq Nat /\ Clean = 0 /\ revision \in Nat
      /\ dirty \in Snapshot /\ server \in Snapshot
      /\ \A cells \in Snapshot, c \in Cell : cells[c] \in Nat
  BY ConstantsAssumption DEF TypeOK, Snapshot, Revision, Clean
<1>s. server' = server => \A c \in Cell : server'[c] >= server[c]
  BY <1>r
<1>1. CASE UNCHANGED vars
  BY <1>1, <1>s, OrderKept DEF vars, bufferVars, engineVars, serverVars, OrderInv
<1>2. CASE TimerFires \/ RetrySave
  BY <1>2, <1>s, RunKeepsOrder DEF TimerFires, RetrySave, bufferVars
<1>3. CASE FlushRuns
  BY <1>3, <1>s, StartKeepsOrder DEF FlushRuns, bufferVars, serverVars
<1>4. CASE PastePrepares
  <2>1. CASE UNCHANGED <<dirty, revision, wanted, paste, save, landed>>
    BY <1>4, <2>1, <1>s, OrderKept DEF PastePrepares, OrderInv
  <2>2. CASE revision' = revision + 1
    <3>1. PICK cells \in (SUBSET Cell) \ {{}} :
            paste' = [c \in Cell |-> IF c \in cells THEN revision + 1 ELSE Clean]
      BY <1>4, <2>2, <1>r DEF PastePrepares
    <3>2. /\ dirty' = paste' /\ save' = [cells |-> paste', token |-> token, stage |-> "sent"]
          /\ UNCHANGED <<late, server>>
      BY <1>4, <2>2, <1>r DEF PastePrepares
    <3>3. \A c \in Cell : server[c] <= revision /\ server[c] \in Nat
      BY <1>r DEF OrderInv, Old
    <3>4. NewerThan(paste', server) /\ NewerThan(paste', paste')
      BY <3>1, <3>3, <1>r DEF NewerThan
    <3>5. Old(server)'
      BY <3>2, <3>3, <2>2, <1>r DEF Old
    <3> QED
      BY <3>2, <3>4, <3>5, <1>s DEF OrderInv
  <2> QED
    BY <2>1, <2>2, <1>4 DEF PastePrepares
<1>5. CASE PasteEnds \/ StructureSends \/ BarrierFlushed \/ BarrierChecks \/ Validate
           \/ StructureAnswered
  <2>1. UNCHANGED <<dirty, revision, save, late, server>>
    BY <1>5
    DEF PasteEnds, StructureSends, BarrierFlushed, BarrierChecks, Validate, StructureAnswered,
        Flushed, Settle, bufferVars, engineVars, serverVars
  <2> QED
    BY <2>1, <1>s, OrderKept DEF OrderInv
<1>6. CASE ServerHandles
  <2>1. save \in Save /\ save # None /\ save.stage = "sent"
        /\ UNCHANGED <<dirty, revision, late>>
    BY <1>6 DEF ServerHandles, TypeOK, bufferVars
  <2>2. PICK s \in {"applied", "refused"} : save' = [save EXCEPT !.stage = s]
    BY <1>6 DEF ServerHandles
  <2>3. save'.stage # "sent" /\ save'.cells = save.cells /\ save.cells \in Snapshot
    BY <2>1, <2>2 DEF Save
  <2>4. CASE UNCHANGED server
    BY <2>1, <2>3, <2>4, <1>s DEF OrderInv, Old, NewerThan
  <2>5. CASE Stored(save.cells)
    <3>1. \A c \in Cell :
            server'[c] = IF save.cells[c] = Clean THEN server[c] ELSE save.cells[c]
      BY <2>5 DEF Stored
    <3>2. \A c \in Cell : save.cells[c] # Clean => save.cells[c] >= server[c]
      BY <2>1 DEF OrderInv, NewerThan
    <3>3. \A c \in Cell : save.cells[c] <= revision /\ server[c] <= revision
      BY <2>1 DEF BufferInv, AllIsOld, OrderInv, Old
    <3>4. \A c \in Cell : dirty[c] # Clean => dirty[c] >= server[c] /\ dirty[c] >= save.cells[c]
      BY <2>1 DEF OrderInv, NewerThan
    <3>5. Old(server)' /\ NewerThan(dirty, server)'
      BY <2>1, <3>1, <3>3, <3>4 DEF Old, NewerThan
    <3>6. NewerThan(dirty, save.cells)'
      BY <2>1, <2>3, <3>4 DEF NewerThan
    <3>7. \A c \in Cell : server'[c] >= server[c]
      BY <2>3, <3>1, <3>2, <1>r
    <3> QED
      BY <2>1, <2>3, <3>5, <3>6, <3>7 DEF OrderInv
  <2> QED
    BY <1>6, <2>4, <2>5 DEF ServerHandles
<1>7. CASE SaveSucceeds
  <2>1. dirty' = Without(save.cells) /\ save' = None /\ UNCHANGED <<revision, late, server>>
    BY <1>7 DEF SaveSucceeds, serverVars
  <2>2. NewerThan(dirty, server)'
    BY <2>1 DEF NewerThan, Without, OrderInv
  <2> QED
    BY <2>1, <2>2, <1>s DEF OrderInv, Old
<1>8. CASE SaveFails
  <2>1. late' = {}
    <3>1. ~(Cardinality(late) < MaxLate)
      BY FS_EmptySet DEF OrderInv
    <3> QED
      BY <1>8, <3>1 DEF SaveFails, OrderInv
  <2> QED
    BY <1>8, <2>1, <1>s, OrderKept DEF SaveFails, bufferVars
<1>9. CASE SaveRefused
  BY <1>9, <1>s, OrderKept DEF SaveRefused, bufferVars, serverVars, OrderInv
<1>10. ASSUME NEW c \in Cell, Edit(c)
       PROVE  OrderInv' /\ \A d \in Cell : server'[d] >= server[d]
  <2>1. /\ revision' = revision + 1 /\ dirty' = [dirty EXCEPT ![c] = revision + 1]
        /\ UNCHANGED <<save, late, server>>
    BY <1>10 DEF Edit
  <2>2. dirty'[c] = revision + 1 /\ \A d \in Cell \ {c} : dirty'[d] = dirty[d]
    BY <2>1, <1>r DEF Snapshot
  <2>3. ASSUME NEW cells \in Snapshot, Old(cells), NewerThan(dirty, cells)
        PROVE  NewerThan(dirty', cells)
    BY <2>2, <2>3, <1>r DEF Old, NewerThan
  <2>4. Old(server)'
    BY <2>1, <1>r DEF OrderInv, Old
  <2>5. NewerThan(dirty', server)
    BY <2>3, <1>r DEF OrderInv
  <2>6. save # None => NewerThan(dirty', save.cells)
    BY <2>3 DEF OrderInv, BufferInv, AllIsOld, TypeOK, Save
  <2> QED
    BY <2>1, <2>4, <2>5, <2>6, <1>s DEF OrderInv
<1>11. CASE StagePaste \/ ApplyPaste \/ ChangeStructure
  <2>1. UNCHANGED <<dirty, revision, save, late, server>>
    BY <1>11
    DEF StagePaste, ApplyPaste, ChangeStructure, Enqueue, bufferVars, engineVars, serverVars
  <2> QED
    BY <2>1, <1>s, OrderKept DEF OrderInv
<1>12. CASE CancelPaste \/ Discard
  <2>1. UNCHANGED <<revision, save, late, server>>
    BY <1>12 DEF CancelPaste, Discard, serverVars
  <2>2. \A c \in Cell : dirty'[c] = dirty[c] \/ dirty'[c] = Clean
    BY <1>12 DEF CancelPaste, Discard, Dropped, Without
  <2>3. ASSUME NEW cells, NewerThan(dirty, cells)
        PROVE  NewerThan(dirty', cells)
    BY <2>2, <2>3 DEF NewerThan
  <2> QED
    BY <2>1, <2>3, <1>s DEF OrderInv, Old
<1>13. CASE LockEnds \/ HeartbeatRefused \/ Reacquire \/ Acquired \/ AcquireRefused
  <2>1. UNCHANGED <<dirty, revision, save, late, server>>
    BY <1>13
    DEF LockEnds, HeartbeatRefused, Reacquire, Acquired, AcquireRefused, bufferVars, engineVars,
        serverVars
  <2> QED
    BY <2>1, <1>s, OrderKept DEF OrderInv
<1> QED
  BY <1>1, <1>2, <1>3, <1>4, <1>5, <1>6, <1>7, <1>8, <1>9, <1>10, <1>11, <1>12, <1>13
  DEF Next, Browser, Answers, OrderInv

\* A save that begins with a retained paste was asked for.
LEMMA PasteWaits ==
  ASSUME PasteInv, [Next]_vars, paste # None, save = None, save' # None
  PROVE  job.stage = "pasteWrite" \/ barrier # "none"
<1>1. TimerFires \/ FlushRuns \/ RetrySave \/ PastePrepares
  BY DEF Next, Browser, Answers, vars, bufferVars, engineVars, taskVars, lockVars, serverVars,
         PasteEnds, StructureSends, Flushed, Settle, BarrierFlushed, BarrierChecks, Validate,
         ServerHandles, SaveSucceeds, SaveFails, SaveRefused, StructureAnswered, Edit, StagePaste,
         ApplyPaste, ChangeStructure, Enqueue, CancelPaste, Discard, LockEnds, HeartbeatRefused,
         Reacquire, Acquired, AcquireRefused, LateRequest
<1>2. TimerFires => timer
  BY DEF TimerFires
<1>3. FlushRuns => job.stage \in Flushing \/ barrier = "flush"
  BY DEF FlushRuns, Waiting
<1>4. ~RetrySave /\ ~PastePrepares
  BY DEF RetrySave, PastePrepares, PasteInv, PasteIsUnsaved
<1> QED
  BY <1>1, <1>2, <1>3, <1>4 DEF PasteInv, PasteHasReason, Flushing

\* The invariants of the buffer, of pastes and of what is under way, together.
LEMMA Pursuing == Spec => [](TypeOK /\ BufferInv /\ Drained /\ PasteInv /\ UnsavedWorkIsPursued)
<1> DEFINE I == TypeOK /\ BufferInv /\ Drained /\ PasteInv /\ UnsavedWorkIsPursued
<1>1. Init => Drained /\ PasteInv /\ UnsavedWorkIsPursued
  BY DEF Init, Drained, Saved, Structural, NoJob, PasteInv, PasteIsUnsaved, PasteHasReason,
         PasteIsThrough, PasteHasPanel, UnsavedWorkIsPursued, Pending, Holds
<1>2. I /\ [Next]_vars => I'
  BY StepType, StepBuffer, StepDrained, StepPaste, StepPursued
<1>3. Init => I
  BY <1>1, InitType, InitBuffer
<1> QED
  BY <1>2, <1>3, PTL DEF Spec

\* Stored values keep the order of the edits when no request is handled late
\* (with late requests they do not); retained pastes wait for Apply or for a
\* validation, and no unsaved edit is left without anything under way for it.
THEOREM EditsAreStoredInOrder == ASSUME MaxLate = 0 PROVE Spec => StoredInOrder
<1> DEFINE I == TypeOK /\ BufferInv /\ Drained /\ PasteInv /\ UnsavedWorkIsPursued
<1>1. Init => OrderInv
  <2>1. Clean \in Nat /\ Clean <= 0
    BY DEF Clean
  <2> QED
    BY <2>1 DEF Init, OrderInv, Old, NewerThan
<1>2. I /\ OrderInv /\ [Next]_vars => OrderInv' /\ [\A c \in Cell : server'[c] >= server[c]]_server
  BY StepOrder
<1>3. I /\ [Next]_vars =>
        [paste # None /\ save = None /\ save' # None =>
           job.stage = "pasteWrite" \/ barrier # "none"]_save
  BY PasteWaits
<1>4. Spec => []I
  BY Pursuing
<1>5. Spec => []OrderInv
  BY <1>1, <1>2, <1>4, PTL DEF Spec
<1>6. Spec => NoOverwrite
  BY <1>2, <1>4, <1>5, PTL DEF Spec, NoOverwrite
<1>7. Spec => RetainedPasteWaits
  BY <1>3, <1>4, PTL DEF Spec, RetainedPasteWaits
<1>8. Spec => []UnsavedWorkIsPursued
  BY <1>4, PTL
<1> QED
  BY <1>6, <1>7, <1>8 DEF StoredInOrder
=============================================================================
