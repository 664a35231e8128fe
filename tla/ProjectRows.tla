------------------------------ MODULE ProjectRows ------------------------------
(***************************************************************************)
(* The project table: creating projects, revising approved ones, replacing *)
(* a layer from another project and editing a profile, each a transaction  *)
(* that takes row locks one after the other, and the unique index on the   *)
(* live projects of an identity.                                           *)
(*                                                                         *)
(* A revision runs REPEATABLE READ on the snapshot of its first query; the *)
(* other requests run READ COMMITTED. A transaction's writes are seen by   *)
(* nobody else before it commits, but the index makes others wait for them.*)
(* Moves between statuses that lock a single row are ReviewWorkflow's      *)
(* subject: here each is one step.                                         *)
(***************************************************************************)
EXTENDS Naturals, Sequences, FiniteSets, ProjectLifecycle

CONSTANTS
  Identity,    \* (line_id, process_id, part_id)
  Slot,        \* transactions at once
  MaxProject,  \* bound: the largest project id
  Nothing

\* What the constants must satisfy.
ConstantsFit ==
  MaxProject \in Nat \ {0} /\ Nothing \notin Slot \union Identity \union Nat

Ids      == 1 .. MaxProject
ChoiceSets == MaxProject + 1  \* of the profile fields: locked after any project
Row     == Ids \union {ChoiceSets}

Project == [identity : Identity, status : ProjectStatus, version : Ids,
            root : Ids, of : Ids \union {Nothing}]

Op    == {"create", "revise", "replace", "profile"}
TxnStage == {"free", "locking", "capture", "write", "written"}

VARIABLES
  project,  \* the committed rows
  holder,   \* the transaction that holds a row FOR UPDATE, or None
  sharer,   \* the transactions that hold a project FOR SHARE
  txns       \* the transactions

rowVars == <<project, holder, sharer, txns>>

IsRows(rows) == DOMAIN rows \subseteq Ids /\ \A p \in DOMAIN rows : rows[p] \in Project

\* A transaction: of the project to create, its identity; of the one to change,
\* its id; the source to copy from; the rows still to lock, in order; of a
\* revision, the candidate and whether it has a successor in the snapshot, and
\* which of the two rows changed since; the rows written.
IsTxn(t) ==
  /\ DOMAIN t = {"stage", "op", "identity", "target", "source", "plan", "view",
                 "followed", "stale", "writes"}
  /\ t.stage \in TxnStage /\ t.op \in Op
  /\ t.identity \in Identity \union {Nothing}
  /\ {t.target, t.source} \subseteq Ids \union {Nothing}
  /\ t.plan \in Seq(Row) /\ Len(t.plan) <= 2
  /\ t.view \in Project \union {Nothing} /\ t.followed \in BOOLEAN /\ t.stale \subseteq Ids
  /\ IsRows(t.writes)

RowsTypeOK ==
  /\ IsRows(project)
  /\ holder \in [Row -> Slot \union {Nothing}]
  /\ sharer \in [Ids -> SUBSET Slot]
  /\ DOMAIN txns = Slot /\ \A s \in Slot : IsTxn(txns[s])

-----------------------------------------------------------------------------
(* Helpers *)

Empty == [p \in {} |-> Nothing]

Free == [stage |-> "free", op |-> "create", identity |-> Nothing, target |-> Nothing,
         source |-> Nothing, plan |-> <<>>, view |-> Nothing,
         followed |-> FALSE, stale |-> {}, writes |-> Empty]

\* ORDER BY id: the rows are locked in ascending order.
Ascending(a, b) ==
  IF a = b THEN {<<a>>} ELSE IF a < b THEN {<<a, b>>} ELSE {<<b, a>>}

Live(p) == p.status # "archived"

HasSuccessor(p) == \E q \in DOMAIN project : project[q].of = p

\* The live rows of identity i in the index.
Indexed(i) == {p \in DOMAIN project : project[p].identity = i /\ Live(project[p])}

\* The identity whose index entry s adds.
EntryOf(s) == IF txns[s].op = "create" THEN txns[s].identity ELSE txns[s].view.identity

\* Another open transaction has written row p, or a new row of identity i.
Writing(s, p) == {t \in Slot \ {s} : p \in DOMAIN txns[t].writes}
Inserting(s, i) ==
  {t \in Slot \ {s} : \E p \in DOMAIN txns[t].writes \ DOMAIN project :
                        txns[t].writes[p].identity = i}

\* The next id of the sequence; ids of transactions rolled back leave no gap.
Draws(p) ==
  LET drawn == DOMAIN project \union UNION {DOMAIN txns[t].writes : t \in Slot} IN
  p - 1 \in drawn \union {0} /\ \A q \in drawn : q < p

\* Those that keep s from locking the row.
Blocking(s, row) ==
  ({holder[row]} \ {s, Nothing}) \union (IF row \in Ids THEN sharer[row] \ {s} ELSE {})

\* Those whose outcome s waits for: of its next row, or of the index entry of
\* the row it inserts.
WaitsFor(s) ==
  CASE txns[s].stage = "locking" /\ txns[s].plan # <<>> -> Blocking(s, Head(txns[s].plan))
    [] txns[s].stage = "write" /\ txns[s].op \in {"create", "revise"} ->
         Inserting(s, EntryOf(s)) \union UNION {Writing(s, p) : p \in Indexed(EntryOf(s))}
    [] OTHER -> {}

\* The locks go at the end of the transaction, whatever its outcome.
Released(s) ==
  /\ holder' = [row \in Row |-> IF holder[row] = s THEN Nothing ELSE holder[row]]
  /\ sharer' = [p \in Ids |-> sharer[p] \ {s}]

\* The transactions after rows changed: the snapshots of revisions grow stale.
Outdated(changed) ==
  [t \in Slot |-> IF txns[t].stage # "free" /\ txns[t].op = "revise"
                  THEN [txns[t] EXCEPT !.stale =
                           @ \union (changed \intersect {txns[t].target, txns[t].view.root})]
                  ELSE txns[t]]

Advance(s, t) == txns' = [txns EXCEPT ![s] = t]

-----------------------------------------------------------------------------
RowsInit ==
  /\ project = Empty
  /\ holder = [row \in Row |-> Nothing]
  /\ sharer = [p \in Ids |-> {}]
  /\ txns = [s \in Slot |-> Free]

\* get_by_identity finds no project of the identity, archived or not; then the
\* backbone, if one is given, is captured.
BeginCreate(s, i, backbone) ==
  /\ txns[s].stage = "free"
  /\ \A p \in DOMAIN project : project[p].identity # i
  /\ Advance(s, [Free EXCEPT !.stage = IF backbone = Nothing THEN "locking" ELSE "capture",
                             !.identity = i, !.source = backbone, !.plan = <<ChoiceSets>>])
  /\ UNCHANGED <<project, holder, sharer>>

\* The candidate is read, which fixes the snapshot; then it and its root are
\* locked.
BeginRevise(s, p) ==
  /\ txns[s].stage = "free"
  /\ \E plan \in Ascending(project[p].root, p) :
       Advance(s, [Free EXCEPT !.stage = "locking", !.op = "revise", !.target = p,
                               !.plan = plan, !.view = project[p],
                               !.followed = HasSuccessor(p)])
  /\ UNCHANGED <<project, holder, sharer>>

BeginReplacement(s, p, source) ==
  /\ txns[s].stage = "free"
  /\ Advance(s, [Free EXCEPT !.stage = "locking", !.op = "replace", !.target = p,
                             !.source = source, !.plan = <<p>>])
  /\ UNCHANGED <<project, holder, sharer>>

\* A profile patch locks the project, then the choice sets of its fields.
BeginProfile(s, p) ==
  /\ txns[s].stage = "free"
  /\ Advance(s, [Free EXCEPT !.stage = "locking", !.op = "profile", !.target = p,
                             !.plan = <<p, ChoiceSets>>])
  /\ UNCHANGED <<project, holder, sharer>>

\* The next row of the plan is free, and is the one the snapshot shows.
LockRow(s) ==
  /\ txns[s].stage = "locking" /\ txns[s].plan # <<>>
  /\ LET row == Head(txns[s].plan) IN
       /\ Blocking(s, row) = {}
       /\ row \notin txns[s].stale
       /\ holder' = [holder EXCEPT ![row] = s]
       /\ Advance(s, [txns[s] EXCEPT !.plan = Tail(@)])
  /\ UNCHANGED <<project, sharer>>

\* 40001, on a row changed since the snapshot: rolled back, then tried again
\* or answered with a conflict.
SerializationFailure(s) ==
  /\ txns[s].stage = "locking" /\ txns[s].plan # <<>>
  /\ Blocking(s, Head(txns[s].plan)) = {} /\ Head(txns[s].plan) \in txns[s].stale
  /\ Released(s)
  /\ \/ Advance(s, Free)
     \/ \E plan \in Ascending(project[txns[s].target].root, txns[s].target) :
          Advance(s, [txns[s] EXCEPT !.plan = plan, !.view = project[txns[s].target],
                                     !.followed = HasSuccessor(txns[s].target), !.stale = {}])
  /\ UNCHANGED project

\* All rows are locked: the status is checked, and a layer's source captured.
Locked(s) ==
  /\ txns[s].stage = "locking" /\ txns[s].plan = <<>>
  /\ txns[s].op \in {"replace", "profile"} => project[txns[s].target].status = "draft"
  /\ Advance(s, [txns[s] EXCEPT !.stage =
                   IF txns[s].op = "replace" /\ txns[s].source # txns[s].target
                   THEN "capture" ELSE "write"])
  /\ UNCHANGED <<project, holder, sharer>>

\* FOR SHARE NOWAIT: the source is free of writers at once, or the request is
\* refused with source_project_busy. A created project locks the choices next.
Capture(s) ==
  /\ txns[s].stage = "capture"
  /\ holder[txns[s].source] \in {s, Nothing}
  /\ sharer' = [sharer EXCEPT ![txns[s].source] = @ \union {s}]
  /\ Advance(s, [txns[s] EXCEPT !.stage =
                   IF txns[s].op = "create" THEN "locking" ELSE "write"])
  /\ UNCHANGED <<project, holder>>

\* The new project is its own root. The index admits it when no live project
\* of the identity is there and no transaction is about to add or archive one;
\* a conflict, then, is answered 409 (Rollback).
Insert(s) ==
  /\ txns[s].stage = "write" /\ txns[s].op = "create"
  /\ Indexed(txns[s].identity) = {} /\ Inserting(s, txns[s].identity) = {}
  /\ \E new \in Ids : Draws(new) /\ Advance(s, [txns[s] EXCEPT !.stage = "written",
       !.writes = [p \in {new} |-> [identity |-> txns[s].identity, status |-> "draft",
                                        version |-> 1, root |-> p, of |-> Nothing]]])
  /\ UNCHANGED <<project, holder, sharer>>

\* Mutant: the new version's root is its predecessor.
ArchiveAndCopyRooted(s) ==
  LET source == txns[s].view IN
  /\ txns[s].stage = "write" /\ txns[s].op = "revise"
  /\ source.status = "approved"
  /\ \E new \in Ids : Draws(new) /\ Advance(s, [txns[s] EXCEPT !.stage = "written",
       !.writes = [p \in {new, txns[s].target} |->
          IF p = new
          THEN [source EXCEPT !.status = "draft", !.version = @ + 1,
                               !.root = txns[s].target, !.of = txns[s].target]
          ELSE [source EXCEPT !.status = "archived"]]])
  /\ UNCHANGED <<project, holder, sharer>>

\* The approved source is archived before its successor enters the index.
ArchiveAndCopy(s) ==
  LET source == txns[s].view IN
  /\ txns[s].stage = "write" /\ txns[s].op = "revise"
  /\ source.status = "approved"
  /\ ~ txns[s].followed
  /\ Inserting(s, source.identity) = {}
  /\ Indexed(source.identity) \subseteq {txns[s].target}
  /\ \E new \in Ids : Draws(new) /\ Advance(s, [txns[s] EXCEPT !.stage = "written",
       !.writes = [p \in {new, txns[s].target} |->
          IF p = new
          THEN [source EXCEPT !.status = "draft", !.version = @ + 1,
                               !.of = txns[s].target]
          ELSE [source EXCEPT !.status = "archived"]]])
  /\ UNCHANGED <<project, holder, sharer>>

\* A replaced layer leaves the project's row alone, a profile patch does not.
Edit(s) ==
  /\ txns[s].stage = "write" /\ txns[s].op \in {"replace", "profile"}
  /\ Advance(s, [txns[s] EXCEPT !.stage = "written",
       !.writes = IF txns[s].op = "replace" THEN Empty
                  ELSE [p \in {txns[s].target} |-> project[p]]])
  /\ UNCHANGED <<project, holder, sharer>>

CommitTxn(s) ==
  LET writes == txns[s].writes IN
  /\ txns[s].stage = "written"
  /\ project' = [p \in DOMAIN project \union DOMAIN writes |->
                   IF p \in DOMAIN writes THEN writes[p] ELSE project[p]]
  /\ txns' = [Outdated(DOMAIN writes) EXCEPT ![s] = Free]
  /\ Released(s)

\* A refusal (busy source, wrong status, duplicate), a lost connection, a crash.
RollbackTxn(s) ==
  /\ txns[s].stage # "free"
  /\ Advance(s, Free)
  /\ Released(s)
  /\ UNCHANGED project

\* A transition of ReviewWorkflow, which holds the one row.
Transition(p) ==
  /\ holder[p] = Nothing /\ sharer[p] = {}
  /\ \E a \in ReviewAction, to \in ProjectStatus :
       /\ MayMove(project[p].status, a, to)
       /\ project' = [project EXCEPT ![p].status = to]
  /\ txns' = Outdated({p})
  /\ UNCHANGED <<holder, sharer>>

Begin(s) ==
  \/ \E i \in Identity, b \in DOMAIN project \union {Nothing} : BeginCreate(s, i, b)
  \/ \E p \in DOMAIN project : \/ BeginRevise(s, p) \/ BeginProfile(s, p)
                               \/ \E b \in DOMAIN project : BeginReplacement(s, p, b)

Step(s) ==
  \/ LockRow(s) \/ SerializationFailure(s) \/ Locked(s) \/ Capture(s)
  \/ Insert(s) \/ ArchiveAndCopy(s) \/ Edit(s) \/ CommitTxn(s) \/ RollbackTxn(s)

RowsNext ==
  \/ \E s \in Slot : Begin(s) \/ Step(s)
  \/ \E p \in DOMAIN project : Transition(p)

RowsSpec == RowsInit /\ [][RowsNext]_rowVars

-----------------------------------------------------------------------------
(* Properties *)

\* The versions of an identity form one chain: each has the root and the
\* identity of its predecessor and the next version, and only the last one is
\* not archived, however creations and revisions race.
LineageIsAChain ==
  \A p \in DOMAIN project :
    LET v == project[p] IN
    /\ IF v.version = 1 THEN v.root = p /\ v.of = Nothing
       ELSE /\ v.of \in DOMAIN project
            /\ project[v.of].root = v.root /\ project[v.of].identity = v.identity
            /\ project[v.of].version + 1 = v.version
            /\ project[v.of].status = "archived"
    /\ v.status = "archived" <=> \E q \in DOMAIN project : project[q].of = p
    /\ \A q \in DOMAIN project :
         project[q].identity = v.identity /\ project[q].version = v.version => q = p

\* No set of transactions waits for one another for ever: rows are waited for
\* in ascending order and choice sets last; a source in any order, but at once.
NoWaitCycle ==
  ~ \E S \in (SUBSET Slot) \ {{}} : \A s \in S : WaitsFor(s) \intersect S # {}

\* The projects of an identity, in the order of their ids, are the versions of
\* its line.
LineOf(i) ==
  LET versions == {p \in DOMAIN project : project[p].identity = i}
      Nth(n)   == CHOOSE p \in versions : Cardinality({q \in versions : q <= p}) = n
  IN [n \in 1 .. Cardinality(versions) |-> project[Nth(n)].status]

Lines == INSTANCE Lineage WITH line <- [i \in Identity |-> LineOf(i)]

\* The project table, with all its transactions, implements lines of versions:
\* create_project starts a line only once, create_revision appends a draft to
\* an approved last version and archives it in the same step.
ImplementsLineage == Lines!Spec

\* The table forms lines of versions, each a chain, and its transactions never
\* wait for one another in a circle.
RowsFormLines == ImplementsLineage /\ [](RowsTypeOK /\ LineageIsAChain /\ NoWaitCycle)
=============================================================================
