-------------------------------- MODULE Sheet --------------------------------
(***************************************************************************)
(* The sheet of a project: the condition rows of its layers with their     *)
(* cells, the operations that add, clone, delete and replace rows, move the*)
(* POR and patch cells, and the change events each of them records. Beside *)
(* them administrators change which options the choice set offers.         *)
(*                                                                         *)
(* Every operation holds the project row from its first read to its commit *)
(* (EditLock), so one at a time is open. Its writes reach the database in  *)
(* flushes, each under the unique indexes, and become visible together at  *)
(* the commit. Of the committed events only what they tell is kept: the    *)
(* sheet that a reader of the log rebuilds from their payloads.            *)
(***************************************************************************)
EXTENDS Integers, FiniteSets, SequencesExt

CONSTANTS
  Layer,        \* the layers of the project
  Parameter,    \* parameter codes
  Choice,       \* the active parameters of value type CHOICE, with one choice set
  Value,        \* normalized cell values, each also the code of an option
  MaxId,        \* bound: the largest condition id
  MaxRows,      \* bound: the condition rows at once
  MaxBatch,     \* bound: the changes of one patch
  None

ASSUME ConstantsAssumption ==
  /\ IsFiniteSet(Layer) /\ Choice \subseteq Parameter
  /\ MaxId \in Nat /\ Cardinality(Layer) <= MaxId
  /\ MaxRows \in Nat /\ MaxBatch \in Nat
  /\ None \notin Layer \union Value \union Nat

Id == 1 .. MaxId

\* The label n stands for "C{n}", 0 for "base". A cell without a value is None,
\* whether or not it has a row.
Condition == [layer : Layer, label : Nat, index : Nat \ {0}, por : BOOLEAN,
              cells : [Parameter -> Value \union {None}]]

Change == [id : Id, param : Parameter, value : Value \union {None}]

IsSheet(rows) == DOMAIN rows \subseteq Id /\ rows \in [DOMAIN rows -> Condition]

VARIABLES
  sheet,     \* the committed condition rows, by id
  drawn,     \* the last id drawn from the sequence
  told,      \* what the committed events tell, and whether they agreed so far
  txn,       \* the open operation
  offered    \* the active options, while their choice set is active

vars == <<sheet, drawn, told, txn, offered>>

Stage == {"idle", "half", "written"}

\* An event, with what its payload says: the row added, removed or made the POR,
\* the row before; the cell with its old and new value; the rows of the layer
\* before, the capture by source row and the source of each new row.
Event ==
  [type : {"CONDITION_ADD", "CONDITION_REMOVE"}, id : Id, snapshot : Condition]
  \union [type : {"POR_CHANGE"}, old : Id \union {None}, new : Id]
  \union [type : {"CELL_UPDATE"}, id : Id, param : Parameter,
          old : Value \union {None}, new : Value \union {None}]

\* A change that changes nothing records no event.
NoEvent == [type |-> "none"]

IsReplacement(e) ==
  /\ DOMAIN e = {"type", "layer", "before", "capture", "detail"}
  /\ e.type = "BACKBONE_LAYER_REPLACE" /\ e.layer \in Layer /\ e.before \in Nat
  /\ IsSheet(e.capture)
  /\ DOMAIN e.detail \subseteq Id
  /\ \A i \in DOMAIN e.detail : e.detail[i] \in DOMAIN e.capture

\* An operation: the rows as flushed so far, its events; of a patch, whether it
\* locked the choice set; of a move of the POR, the row; of a replacement, the
\* layer and the capture.
TypeOK ==
  /\ IsSheet(sheet) /\ drawn \in 0 .. MaxId
  /\ DOMAIN told = {"rows", "agree"} /\ IsSheet(told.rows) /\ told.agree \in BOOLEAN
  /\ DOMAIN txn = {"stage", "op", "rows", "events", "locks", "target", "capture"}
  /\ txn.stage \in Stage /\ txn.op \in {"none", "add", "delete", "por", "patch", "replace"}
  /\ IsSheet(txn.rows) /\ IsSheet(txn.capture)
  /\ \A k \in DOMAIN txn.events :
       txn.events[k] \in Event \union {NoEvent} \/ IsReplacement(txn.events[k])
  /\ txn.locks \in BOOLEAN /\ txn.target \in Id \union Layer \union {None}
  /\ offered \subseteq Value

-----------------------------------------------------------------------------
(* Rows *)

NoRows == [i \in {} |-> None]
NoCells == [p \in Parameter |-> None]

Put(rows, i, row) == [j \in DOMAIN rows \union {i} |-> IF j = i THEN row ELSE rows[j]]
Without(rows, ids) == [j \in DOMAIN rows \ ids |-> rows[j]]
InLayer(rows, l) == {i \in DOMAIN rows : rows[i].layer = l}
PorOf(rows, l) == {i \in InLayer(rows, l) : rows[i].por}
SetPor(rows, i, por) == [rows EXCEPT ![i].por = por]
SetCell(rows, change) == [rows EXCEPT ![change.id].cells[change.param] = change.value]

\* _next_label: the smallest n such that no row is labelled C{n}.
NextLabel(rows, l) ==
  LET used == {rows[i].label : i \in InLayer(rows, l)} IN
  CHOOSE n \in 1 .. Cardinality(used) + 1 : n \notin used /\ 1 .. n - 1 \subseteq used

\* A new row comes last.
NextIndex(rows, l) ==
  IF InLayer(rows, l) = {} THEN 1
  ELSE 1 + Max({rows[i].index : i \in InLayer(rows, l)})

\* uq_condition_index and uq_layer_condition_por, checked at every flush.
Constraints(rows) ==
  \A i, j \in DOMAIN rows :
    i # j /\ rows[i].layer = rows[j].layer =>
      rows[i].index # rows[j].index /\ ~(rows[i].por /\ rows[j].por)

-----------------------------------------------------------------------------
(* Patches *)

\* The changes before the k-th that are of the cell.
Earlier(batch, k, i, p) == {j \in 1 .. k - 1 : batch[j].id = i /\ batch[j].param = p}

\* The rows a batch finds before its k-th change: the changes are simulated in
\* order, and of several of a cell the last before the k-th counts.
Simulated(rows, batch, k) ==
  [i \in DOMAIN rows |-> [rows[i] EXCEPT !.cells = [p \in Parameter |->
     LET earlier == Earlier(batch, k, i, p) IN
     IF earlier = {} THEN rows[i].cells[p] ELSE batch[Max(earlier)].value]]]

\* Mutant: the old value is always the stored one.
StoredValue(rows, batch, k) == rows[batch[k].id].cells[batch[k].param]

OldValue(rows, batch, k) == Simulated(rows, batch, k)[batch[k].id].cells[batch[k].param]

\* A change that sets an option sets an offered one, or the one that is there
\* already. A code of no active parameter is not validated.
Legal(batch) ==
  \A k \in DOMAIN batch :
    batch[k].param \in Choice =>
      batch[k].value \in offered \union {None, OldValue(sheet, batch, k)}

\* One event for each change that changes something.
CellEvents(rows, batch) ==
  [k \in 1 .. Len(batch) |->
     IF OldValue(rows, batch, k) = batch[k].value THEN NoEvent
     ELSE [type |-> "CELL_UPDATE", id |-> batch[k].id, param |-> batch[k].param,
           old |-> OldValue(rows, batch, k), new |-> batch[k].value]]

-----------------------------------------------------------------------------
(* What a reader of the log rebuilds *)

Retell(known, e) ==
  LET rows == known.rows IN
  CASE e.type = "CONDITION_ADD" ->
         [rows  |-> Put(rows, e.id, e.snapshot),
          agree |-> known.agree /\ e.id \notin DOMAIN rows]
    [] e.type = "CONDITION_REMOVE" ->
         [rows  |-> Without(rows, {e.id}),
          agree |-> known.agree /\ e.id \in DOMAIN rows /\ rows[e.id] = e.snapshot]
    [] e.type = "POR_CHANGE" ->
         [rows  |-> SetPor(IF e.old = None THEN rows ELSE SetPor(rows, e.old, FALSE), e.new, TRUE),
          agree |-> /\ known.agree
                    /\ PorOf(rows, rows[e.new].layer) = {e.old} \ {None}]
    [] e.type = "CELL_UPDATE" ->
         [rows  |-> SetCell(rows, [id |-> e.id, param |-> e.param, value |-> e.new]),
          agree |-> known.agree /\ rows[e.id].cells[e.param] = e.old]
    [] e.type = "BACKBONE_LAYER_REPLACE" ->
         LET kept == Without(rows, InLayer(rows, e.layer)) IN
         [rows  |-> [i \in DOMAIN kept \union DOMAIN e.detail |->
                       IF i \in DOMAIN kept THEN kept[i]
                       ELSE [e.capture[e.detail[i]] EXCEPT !.layer = e.layer]],
          agree |-> known.agree /\ Cardinality(InLayer(rows, e.layer)) = e.before]
    [] e.type = "none" -> known

\* What the events of an operation, in order, add to what is known.
Retold(known, events) ==
  LET after[k \in 0 .. Len(events)] == IF k = 0 THEN known ELSE Retell(after[k - 1], events[k])
  IN  after[Len(events)]

-----------------------------------------------------------------------------
(* Operations *)

Idle == [stage |-> "idle", op |-> "none", rows |-> NoRows, events |-> <<>>,
         locks |-> FALSE, target |-> None, capture |-> NoRows]

\* A project created without a backbone: one base row in each layer, no POR. The
\* options are all active.
Init ==
  /\ \E order \in Bijection(1 .. Cardinality(Layer), Layer) :
       sheet = [i \in DOMAIN order |->
                  [layer |-> order[i], label |-> 0, index |-> 1, por |-> FALSE,
                   cells |-> NoCells]]
  /\ drawn = Cardinality(Layer)
  /\ told = [rows |-> sheet, agree |-> TRUE]
  /\ txn = Idle
  /\ offered = Value

\* A row is added, empty or with the cells of a row of the same layer; the POR
\* is not cloned. The event carries the row as flushed.
AddCondition(l, source) ==
  /\ txn.stage = "idle"
  /\ source # None => source \in InLayer(sheet, l)
  /\ drawn < MaxId /\ Cardinality(DOMAIN sheet) < MaxRows
  /\ drawn' = drawn + 1
  /\ LET row == [layer |-> l, label |-> NextLabel(sheet, l), index |-> NextIndex(sheet, l),
                 por |-> FALSE,
                 cells |-> IF source = None THEN NoCells ELSE sheet[source].cells]
     IN  txn' = [Idle EXCEPT !.op = "add", !.stage = "written", !.rows = Put(sheet, drawn', row),
                   !.events = <<[type |-> "CONDITION_ADD", id |-> drawn', snapshot |-> row]>>]
  /\ UNCHANGED <<sheet, told, offered>>

\* Mutant: the POR row may go.
MayDeleteAny(i) == Cardinality(InLayer(sheet, sheet[i].layer)) > 1

\* Neither the last row of a layer nor its POR row can be deleted.
MayDelete(i) == Cardinality(InLayer(sheet, sheet[i].layer)) > 1 /\ ~sheet[i].por

DeleteCondition(i) ==
  /\ txn.stage = "idle" /\ MayDelete(i)
  /\ txn' = [Idle EXCEPT !.op = "delete", !.stage = "written", !.rows = Without(sheet, {i}),
               !.events = <<[type |-> "CONDITION_REMOVE", id |-> i, snapshot |-> sheet[i]]>>]
  /\ UNCHANGED <<sheet, drawn, told, offered>>

\* The first flush of a move of the POR.
ClearPor(rows, l) ==
  [i \in DOMAIN rows |-> IF i \in PorOf(rows, l) THEN [rows[i] EXCEPT !.por = FALSE] ELSE rows[i]]

\* The POR of the row's layer is cleared and flushed; nothing is done when it is
\* the row itself.
BeginSetPor(i) ==
  /\ txn.stage = "idle" /\ ~sheet[i].por
  /\ txn' = [Idle EXCEPT !.op = "por", !.stage = "half", !.target = i,
               !.rows = ClearPor(sheet, sheet[i].layer)]
  /\ UNCHANGED <<sheet, drawn, told, offered>>

FinishSetPor ==
  /\ txn.stage = "half" /\ txn.op = "por"
  /\ LET i == txn.target
         old == PorOf(sheet, sheet[i].layer)
     IN  txn' = [txn EXCEPT !.stage = "written", !.rows = SetPor(@, i, TRUE),
                   !.events = <<[type |-> "POR_CHANGE", new |-> i,
                                 old |-> IF old = {} THEN None ELSE CHOOSE j \in old : TRUE]>>]
  /\ UNCHANGED <<sheet, drawn, told, offered>>

\* Mutant: the options are read without a lock.
NeverLocks(batch) == FALSE

\* The choice set is locked when an option is there before or after a change.
Locks(batch) ==
  \E k \in DOMAIN batch :
    batch[k].param \in Choice /\ {batch[k].value, OldValue(sheet, batch, k)} # {None}

\* A batch on rows of the project: its changes are normalized and simulated, the
\* choice set is locked up to the commit and its options are read; the batch is
\* refused as a whole or applied and flushed. What is read before the lock is
\* immutable or guarded by the project row.
PatchCells(batch) ==
  /\ txn.stage = "idle" /\ batch # <<>>
  /\ \A k \in DOMAIN batch : batch[k].id \in DOMAIN sheet
  /\ Legal(batch)
  /\ txn' = [Idle EXCEPT !.op = "patch", !.stage = "written", !.locks = Locks(batch),
               !.rows = Simulated(sheet, batch, Len(batch) + 1),
               !.events = CellEvents(sheet, batch)]
  /\ UNCHANGED <<sheet, drawn, told, offered>>

\* The deletions of a replacement are flushed before its rows are inserted.
ClearLayer(l) == Without(sheet, InLayer(sheet, l))

\* The rows of another layer are captured, those of this one deleted.
BeginReplace(l, source) ==
  /\ txn.stage = "idle" /\ l # source
  /\ txn' = [Idle EXCEPT !.op = "replace", !.stage = "half", !.target = l,
               !.rows = ClearLayer(l),
               !.capture = Without(sheet, DOMAIN sheet \ InLayer(sheet, source))]
  /\ UNCHANGED <<sheet, drawn, told, offered>>

\* The captured rows by the ids of their copies: they are copied in the order of
\* the layer.
Ordered(capture, ids) ==
  {source \in [ids -> DOMAIN capture] :
     \A i, j \in ids : i < j => capture[source[i]].index < capture[source[j]].index}

\* _apply_snapshots: a copy of a captured row.
CopyTo(l, row) == [layer |-> l, label |-> row.label, index |-> row.index, por |-> row.por,
                   cells |-> row.cells]

\* A copy is inserted for each captured row. The event has the count of the
\* former rows, the capture, and the source of each new row.
FinishReplace ==
  /\ txn.stage = "half" /\ txn.op = "replace"
  /\ drawn + Cardinality(DOMAIN txn.capture) <= MaxId
  /\ Cardinality(DOMAIN txn.rows) + Cardinality(DOMAIN txn.capture) <= MaxRows
  /\ drawn' = drawn + Cardinality(DOMAIN txn.capture)
  /\ LET added == drawn + 1 .. drawn + Cardinality(DOMAIN txn.capture) IN
     \E source \in Ordered(txn.capture, added) :
       txn' = [txn EXCEPT !.stage = "written",
                 !.rows = [i \in DOMAIN txn.rows \union added |->
                             IF i \in added THEN CopyTo(txn.target, txn.capture[source[i]])
                             ELSE txn.rows[i]],
                 !.events = <<[type |-> "BACKBONE_LAYER_REPLACE", layer |-> txn.target,
                               before |-> Cardinality(InLayer(sheet, txn.target)),
                               capture |-> txn.capture, detail |-> source]>>]
  /\ UNCHANGED <<sheet, told, offered>>

Commit ==
  /\ txn.stage = "written"
  /\ sheet' = txn.rows
  /\ told' = Retold(told, txn.events)
  /\ txn' = Idle
  /\ UNCHANGED <<drawn, offered>>

\* A refusal, an error or a lost connection: nothing remains but the ids drawn.
Rollback ==
  /\ txn.stage # "idle"
  /\ txn' = Idle
  /\ UNCHANGED <<sheet, drawn, told, offered>>

-----------------------------------------------------------------------------
(* Administrators *)

\* An option or its whole set is activated or deactivated, or options imported.
ChangeOffer(options) ==
  /\ ~txn.locks
  /\ offered' = options
  /\ UNCHANGED <<sheet, drawn, told, txn>>

-----------------------------------------------------------------------------
Batch == UNION {[1 .. n -> Change] : n \in 1 .. MaxBatch}

Next ==
  \/ \E l \in Layer : \E source \in DOMAIN sheet \union {None} : AddCondition(l, source)
  \/ \E i \in DOMAIN sheet : DeleteCondition(i) \/ BeginSetPor(i)
  \/ \E batch \in Batch : PatchCells(batch)
  \/ \E l, source \in Layer : BeginReplace(l, source)
  \/ FinishSetPor \/ FinishReplace
  \/ Commit \/ Rollback
  \/ \E options \in SUBSET Value : ChangeOffer(options)

Spec == Init /\ [][Next]_vars

-----------------------------------------------------------------------------
(* Properties *)

\* Whoever reads the change events in order, with what their payloads say of
\* added, removed and copied rows, rebuilds the sheet; and each event's account
\* of the state before it agrees with the events before. This is what history
\* and restoring a deleted row rely on.
EventsTellTheSheet == told.rows = sheet /\ told.agree

\* No flush of a legal sequence of operations runs into a unique index: no two
\* rows of a layer ever have one index or are both the POR, even within a
\* transaction.
NoConstraintFires == Constraints(sheet) /\ Constraints(txn.rows)

\* The rows of a layer have different labels, although no index says so.
LabelsAreUnique ==
  \A i, j \in DOMAIN sheet :
    i # j /\ sheet[i].layer = sheet[j].layer => sheet[i].label # sheet[j].label

\* A layer keeps a row.
NoLayerIsEmpty == \A l \in Layer : InLayer(sheet, l) # {}

\* The stored rows and the change events fit together in every state.
RowsAreTold ==
  TypeOK /\ EventsTellTheSheet /\ NoConstraintFires /\ LabelsAreUnique /\ NoLayerIsEmpty

\* Once a layer has a POR, an edit moves it but never removes it; only the
\* replacement of the layer by one without a POR can.
PorIsOnlyMoved ==
  [][\A l \in Layer :
       PorOf(sheet, l) # {} /\ PorOf(sheet', l) = {} =>
         txn.op = "replace" /\ txn.target = l]_vars

\* A cell of a CHOICE parameter that a patch changes shows, when the patch
\* commits, an option that is offered at that moment.
OnlyOfferedOptionsAreChosen ==
  [][\A i \in DOMAIN sheet \intersect DOMAIN sheet' : \A p \in Choice :
       LET v == sheet'[i].cells[p] IN
       v \notin {None, sheet[i].cells[p]} => v \in offered]_vars

=============================================================================
