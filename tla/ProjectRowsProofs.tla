-------------------------- MODULE ProjectRowsProofs --------------------------
(***************************************************************************)
(* The project table keeps its lines for any identities, transactions and  *)
(* ids: the versions of an identity form a chain, and no transactions wait *)
(* for one another for ever.                                               *)
(***************************************************************************)
EXTENDS ProjectRows, FiniteSetTheorems, SequenceTheorems, TLAPS

-----------------------------------------------------------------------------
(* The inductive invariant *)

RowSet == UNION {[D -> Project] : D \in SUBSET Ids}
Plan == {<<>>} \union {<<a>> : a \in Row} \union {<<a, b>> : a \in Row, b \in Row}
Txn == [stage : TxnStage, op : Op, identity : Identity \union {Nothing},
        target : Ids \union {Nothing}, source : Ids \union {Nothing}, plan : Plan,
        view : Project \union {Nothing}, followed : BOOLEAN, stale : SUBSET Ids, writes : RowSet]
Types ==
  /\ project \in RowSet /\ holder \in [Row -> Slot \union {Nothing}]
  /\ sharer \in [Ids -> SUBSET Slot] /\ txns \in [Slot -> Txn]

\* Roots exist, ids grow along a line, and each identity has a live version.
IndexedIn(rows, i) == {p \in DOMAIN rows : rows[p].identity = i /\ Live(rows[p])}
FollowedIn(rows, p) == \E q \in DOMAIN rows : rows[q].of = p
RowsFit(rows) ==
  \A p \in DOMAIN rows :
    /\ rows[p].root \in DOMAIN rows /\ rows[p].version <= p
    /\ IndexedIn(rows, rows[p].identity) # {}

\* What a transaction has read, and has not written yet.
Fit(t, rows) ==
  /\ t.stage # "written" => t.writes = Empty
  /\ t.stage = "free" => t.plan = <<>>
  /\ t.stage = "capture" \/ t.op = "replace" => t.source \in Ids
  /\ t.op # "revise" => t.stale = {}
  /\ t.op = "revise" => t.view \in Project /\ t.view.root \in DOMAIN rows
  /\ t.op = "create" /\ t.stage # "free" =>
       t.identity \in Identity /\ t.plan \in {<<>>, <<ChoiceSets>>}
  /\ t.op # "create" =>
       /\ t.stage # "free" /\ t.target \in DOMAIN rows
       /\ t.stage # "locking" => t.plan = <<>>

InPlan(row, plan) == \E i \in DOMAIN plan : plan[i] = row
Sorted(plan) == \A i, j \in DOMAIN plan : i < j => plan[i] < plan[j]

\* What s has locked comes before all that it will lock.
Ordered(s, t, hold, share) ==
  /\ Sorted(t.plan)
  /\ \A row \in Row : InPlan(row, t.plan) =>
       /\ \A held \in Row : hold[held] = s => held < row
       /\ \A shared \in Ids : s \in share[shared] => shared < row
  /\ t.stage = "free" => (\A row \in Row : hold[row] # s) /\ (\A p \in Ids : s \notin share[p])

\* The projects that s decides on are, once they are locked, as it read them.
Needs(t) == IF t.op = "create" THEN {} ELSE IF t.op = "revise" THEN {t.target, t.view.root}
            ELSE {t.target}
Held(s, t, hold) ==
  \A row \in Needs(t) : InPlan(row, t.plan) \/ (hold[row] = s /\ row \notin t.stale)
Seen(t, rows) ==
  t.op = "revise" =>
    /\ t.view.root = rows[t.target].root
    /\ t.target \notin t.stale =>
         t.view = rows[t.target] /\ (t.followed <=> FollowedIn(rows, t.target))

\* What is to be committed.
First(new, i) == [identity |-> i, status |-> "draft", version |-> 1, root |-> new, of |-> Nothing]
Successor(view, p) == [view EXCEPT !.status = "draft", !.version = @ + 1, !.of = p]
Archived(view) == [view EXCEPT !.status = "archived"]
Creates(t, rows) ==
  \E new \in Ids \ DOMAIN rows :
    t.writes = [p \in {new} |-> First(p, t.identity)] /\ IndexedIn(rows, t.identity) = {}
Revises(t, rows) ==
  \E new \in Ids \ DOMAIN rows :
    /\ t.target < new /\ t.view.status = "approved" /\ ~ t.followed
    /\ IndexedIn(rows, t.view.identity) \subseteq {t.target}
    /\ t.writes = [p \in {new, t.target} |-> IF p = new THEN Successor(t.view, t.target)
                                            ELSE Archived(t.view)]
Written(t, rows) ==
  t.stage = "written" =>
    /\ t.op = "replace" => t.writes = Empty
    /\ t.op = "profile" => t.writes = [p \in {t.target} |-> rows[p]]
    /\ t.op = "create" => Creates(t, rows)
    /\ t.op = "revise" => Revises(t, rows)

\* No two transactions add the same row, or rows of one identity.
New(t, rows) == DOMAIN t.writes \ DOMAIN rows
Apart(t, u, rows) ==
  \A p \in New(t, rows), q \in New(u, rows) :
    p # q /\ t.writes[p].identity # u.writes[q].identity

SlotInv(s, t, rows, hold, share) ==
  Fit(t, rows) /\ Ordered(s, t, hold, share) /\ Held(s, t, hold) /\ Seen(t, rows)
  /\ Written(t, rows)
IInv ==
  /\ Types /\ RowsFit(project) /\ LineageIsAChain
  /\ \A s \in Slot : SlotInv(s, txns[s], project, holder, sharer)
  /\ \A s, u \in Slot : s # u => Apart(txns[s], txns[u], project)

-----------------------------------------------------------------------------
(* Rows and plans *)

LEMMA Numbers ==
  ASSUME ConstantsFit
  PROVE  /\ MaxProject \in Nat /\ ChoiceSets \in Nat /\ ChoiceSets \notin Ids
         /\ Ids \subseteq Nat /\ Row \subseteq Nat /\ Ids \subseteq Row /\ ChoiceSets \in Row
         /\ \A p \in Ids : p < ChoiceSets
         /\ Nothing \notin Ids /\ Nothing \notin Slot /\ Nothing \notin Identity
         /\ Nothing \notin Row
  <1>1. MaxProject \in Nat /\ ChoiceSets = MaxProject + 1
    BY DEF ConstantsFit, ChoiceSets
  <1>2. Ids \subseteq Nat /\ \A p \in Ids : p < ChoiceSets
    BY <1>1 DEF Ids
  <1>3. Nothing \notin Nat /\ Nothing \notin Slot /\ Nothing \notin Identity
    BY DEF ConstantsFit
  <1>4. ChoiceSets \in Nat /\ ChoiceSets \notin Ids
    BY <1>1, <1>2
  <1>5. Row = Ids \union {ChoiceSets}
    BY DEF Row
  <1>6. Nothing \notin Ids /\ Nothing # ChoiceSets
    BY <1>2, <1>3, <1>4
  <1> HIDE DEF ChoiceSets
  <1> QED BY <1>1, <1>2, <1>3, <1>4, <1>5, <1>6

LEMMA EmptyRows == Empty \in RowSet /\ DOMAIN Empty = {}
  <1>1. Empty \in [{} -> Project]
    BY DEF Empty
  <1>2. {} \in SUBSET Ids
    OBVIOUS
  <1> QED BY <1>1, <1>2 DEF RowSet

LEMMA RowSetRows ==
  ASSUME NEW w \in RowSet
  PROVE  /\ DOMAIN w \subseteq Ids /\ \A p \in DOMAIN w : w[p] \in Project
         /\ w = [p \in DOMAIN w |-> w[p]]
  BY DEF RowSet

LEMMA RowsInSet ==
  ASSUME NEW D \in SUBSET Ids, NEW w, w = [p \in D |-> w[p]], \A p \in D : w[p] \in Project
  PROVE  w \in RowSet /\ DOMAIN w = D
  <1>1. w \in [D -> Project] /\ DOMAIN w = D
    OBVIOUS
  <1> QED BY <1>1 DEF RowSet

\* The first row of a plan comes before the rest of it.
LEMMA Plans ==
  ASSUME NEW plan \in Plan
  PROVE  /\ plan \in Seq(Row) /\ Len(plan) <= 2
         /\ plan # <<>> =>
              /\ Head(plan) \in Row /\ Tail(plan) \in Plan
              /\ \A row : InPlan(row, plan) <=> row = Head(plan) \/ InPlan(row, Tail(plan))
              /\ Sorted(plan) => /\ Sorted(Tail(plan))
                                 /\ \A row : InPlan(row, Tail(plan)) => Head(plan) < row
  <1>1. CASE plan = <<>>
    BY <1>1
  <1>2. ASSUME NEW a \in Row, plan = <<a>>
        PROVE  /\ plan \in Seq(Row) /\ Len(plan) <= 2 /\ Head(plan) \in Row /\ Tail(plan) = <<>>
               /\ \A row : InPlan(row, plan) <=> row = a
               /\ \A row : ~ InPlan(row, Tail(plan))
               /\ Head(plan) = a /\ Sorted(Tail(plan))
    BY <1>2 DEF InPlan, Sorted
  <1>3. ASSUME NEW a \in Row, NEW b \in Row, plan = <<a, b>>
        PROVE  /\ plan \in Seq(Row) /\ Len(plan) <= 2 /\ Head(plan) = a /\ Tail(plan) = <<b>>
               /\ \A row : InPlan(row, plan) <=> row = a \/ row = b
               /\ \A row : InPlan(row, Tail(plan)) <=> row = b
               /\ Sorted(Tail(plan)) /\ (Sorted(plan) => a < b)
    <2>1. plan \in Seq(Row) /\ Len(plan) <= 2 /\ Head(plan) = a /\ Tail(plan) = <<b>>
      BY <1>3
    <2>2. \A row : InPlan(row, plan) <=> row = a \/ row = b
      BY <1>3 DEF InPlan
    <2>3. \A row : InPlan(row, Tail(plan)) <=> row = b
      <3> DEFINE rest == <<b>>
      <3>1. DOMAIN rest = {1} /\ rest[1] = b
        OBVIOUS
      <3> HIDE DEF rest
      <3>2. \A row : InPlan(row, rest) <=> row = b
        BY <3>1 DEF InPlan
      <3> QED BY <2>1, <3>2 DEF rest
    <2>4. Sorted(Tail(plan)) /\ (Sorted(plan) => a < b)
      BY <1>3, <2>1 DEF Sorted
    <2> QED BY <2>1, <2>2, <2>3, <2>4
  <1>4. ASSUME NEW a \in Row, plan = <<a>> PROVE Tail(plan) \in Plan
    BY <1>2, <1>4 DEF Plan
  <1>5. ASSUME NEW a \in Row, NEW b \in Row, plan = <<a, b>> PROVE Tail(plan) \in Plan
    BY <1>3, <1>5 DEF Plan
  <1> QED BY <1>1, <1>2, <1>3, <1>4, <1>5 DEF Plan

LEMMA TypesHold == ASSUME Types PROVE RowsTypeOK
  <1>1. ASSUME NEW s \in Slot PROVE IsTxn(txns[s])
    <2>1. txns[s] \in Txn /\ txns[s].plan \in Plan /\ txns[s].writes \in RowSet
      BY DEF Types, Txn
    <2>2. txns[s].plan \in Seq(Row) /\ Len(txns[s].plan) <= 2
      BY <2>1, Plans
    <2>3. IsRows(txns[s].writes)
      BY <2>1, RowSetRows DEF IsRows
    <2>4. DOMAIN txns[s] = {"stage", "op", "identity", "target", "source", "plan", "view",
                            "followed", "stale", "writes"}
      BY <2>1 DEF Txn
    <2> QED BY <2>1, <2>2, <2>3, <2>4 DEF IsTxn, Txn
  <1> QED BY <1>1, RowSetRows DEF Types, RowsTypeOK, IsRows

-----------------------------------------------------------------------------
LEMMA FreeFacts ==
  ASSUME ConstantsFit
  PROVE  /\ Free \in Txn /\ Free.stage = "free" /\ Free.op = "create" /\ Free.plan = <<>>
         /\ Free.stale = {} /\ Free.writes = Empty
  BY EmptyRows DEF Free, Txn, TxnStage, Op, Plan

LEMMA NoPlan == Sorted(<<>>) /\ \A row : ~ InPlan(row, <<>>)
  BY DEF Sorted, InPlan

LEMMA InitIInv == ASSUME ConstantsFit, RowsInit PROVE IInv
  <1>1. Types
    BY EmptyRows, FreeFacts DEF RowsInit, Types
  <1>2. RowsFit(project) /\ LineageIsAChain
    BY EmptyRows DEF RowsInit, RowsFit, LineageIsAChain
  <1>3. ASSUME NEW s \in Slot PROVE SlotInv(s, txns[s], project, holder, sharer)
    <2>1. txns[s] = Free
      BY DEF RowsInit
    <2>2. /\ Fit(Free, project) /\ Held(s, Free, holder) /\ Seen(Free, project)
          /\ Written(Free, project)
      BY FreeFacts DEF Fit, Held, Needs, Seen, Written
    <2>3. Ordered(s, Free, holder, sharer)
      BY FreeFacts, NoPlan, Numbers DEF Ordered, RowsInit
    <2> QED BY <2>1, <2>2, <2>3 DEF SlotInv
  <1>4. ASSUME NEW s \in Slot, NEW u \in Slot PROVE Apart(txns[s], txns[u], project)
    BY FreeFacts, EmptyRows DEF RowsInit, Apart, New
  <1> QED BY <1>1, <1>2, <1>3, <1>4 DEF IInv

-----------------------------------------------------------------------------
(* Steps of one transaction that commit nothing *)

\* The locks of the other transactions stay.
OthersHold(s) ==
  /\ holder' \in [Row -> Slot \union {Nothing}] /\ sharer' \in [Ids -> SUBSET Slot]
  /\ \A u \in Slot \ {s} : /\ \A row \in Row : holder'[row] = u <=> holder[row] = u
                           /\ \A p \in Ids : u \in sharer'[p] <=> u \in sharer[p]

LEMMA ApartEmpty ==
  ASSUME NEW t, t.writes = Empty, NEW u, NEW rows
  PROVE  Apart(t, u, rows) /\ Apart(u, t, rows)
  BY EmptyRows DEF Apart, New

LEMMA NeedsRows ==
  ASSUME NEW t, NEW rows, Fit(t, rows), DOMAIN rows \subseteq Ids
  PROVE  Needs(t) \subseteq Row
  BY DEF Needs, Fit, Row

LEMMA AdvanceKeeps ==
  ASSUME IInv, NEW s \in Slot, NEW t \in Txn, Advance(s, t), UNCHANGED project, OthersHold(s),
         SlotInv(s, t, project, holder', sharer'),
         \A u \in Slot \ {s} : Apart(t, txns[u], project) /\ Apart(txns[u], t, project)
  PROVE  IInv'
  <1>1. txns' = [txns EXCEPT ![s] = t] /\ project' = project /\ txns \in [Slot -> Txn]
    BY DEF Advance, IInv, Types
  <1>2. Types'
    BY <1>1 DEF IInv, Types, OthersHold
  <1>3. RowsFit(project') /\ LineageIsAChain'
    BY <1>1 DEF IInv, LineageIsAChain
  <1>4. ASSUME NEW u \in Slot \ {s} PROVE SlotInv(u, txns[u], project, holder', sharer')
    <2>1. SlotInv(u, txns[u], project, holder, sharer)
      BY DEF IInv
    <2>2. Ordered(u, txns[u], holder', sharer')
      BY <2>1 DEF SlotInv, Ordered, OthersHold
    <2>3. Needs(txns[u]) \subseteq Row
      BY <2>1, NeedsRows, RowSetRows DEF SlotInv, IInv, Types
    <2>4. Held(u, txns[u], holder')
      BY <2>1, <2>3 DEF SlotInv, Held, OthersHold
    <2> QED BY <2>1, <2>2, <2>4 DEF SlotInv
  <1>5. \A u \in Slot : SlotInv(u, txns'[u], project', holder', sharer')
    BY <1>1, <1>4
  <1>6. \A u, w \in Slot : u # w => Apart(txns'[u], txns'[w], project')
    BY <1>1 DEF IInv
  <1> QED BY <1>2, <1>3, <1>5, <1>6 DEF IInv

LEMMA SlotFacts ==
  ASSUME ConstantsFit, IInv, NEW s \in Slot
  PROVE  /\ txns[s] \in Txn /\ SlotInv(s, txns[s], project, holder, sharer)
         /\ project \in RowSet /\ DOMAIN project \subseteq Ids
         /\ \A p \in DOMAIN project : project[p] \in Project
         /\ holder \in [Row -> Slot \union {Nothing}] /\ sharer \in [Ids -> SUBSET Slot]
         /\ \A u \in Slot : u # s => /\ Apart(txns[s], txns[u], project)
                                     /\ Apart(txns[u], txns[s], project)
  BY RowSetRows DEF IInv, Types

LEMMA ReleasedFacts ==
  ASSUME ConstantsFit, IInv, NEW s \in Slot, Released(s)
  PROVE  /\ OthersHold(s)
         /\ \A row \in Row : holder'[row] # s /\ \A p \in Ids : s \notin sharer'[p]
  <1>1. Nothing \notin Slot
    BY Numbers
  <1>2. holder \in [Row -> Slot \union {Nothing}] /\ sharer \in [Ids -> SUBSET Slot]
    BY DEF IInv, Types
  <1> QED BY <1>1, <1>2 DEF Released, OthersHold

\* A transaction that holds nothing starts, starts again or ends.
LEMMA StartKeeps ==
  ASSUME ConstantsFit, IInv, NEW s \in Slot, NEW t \in Txn, Advance(s, t), UNCHANGED project,
         OthersHold(s), \A row \in Row : holder'[row] # s, \A p \in Ids : s \notin sharer'[p],
         t.stage # "written", Fit(t, project), Sorted(t.plan), Seen(t, project),
         \A row \in Needs(t) : InPlan(row, t.plan)
  PROVE  IInv'
  <1>1. SlotInv(s, t, project, holder', sharer')
    BY DEF SlotInv, Ordered, Held, Written
  <1>2. \A u \in Slot \ {s} : Apart(t, txns[u], project) /\ Apart(txns[u], t, project)
    BY ApartEmpty DEF Fit
  <1> QED BY <1>1, <1>2, AdvanceKeeps

LEMMA AscendingPlans ==
  ASSUME NEW a \in Row, NEW b \in Row, NEW plan \in Ascending(a, b), ConstantsFit
  PROVE  plan \in Plan /\ Sorted(plan) /\ InPlan(a, plan) /\ InPlan(b, plan)
  <1>1. a \in Nat /\ b \in Nat
    BY Numbers
  <1>2. CASE a = b
    <2>1. plan = <<a>>
      BY <1>2 DEF Ascending
    <2> QED BY <1>2, <2>1 DEF Plan, Sorted, InPlan
  <1>3. ASSUME NEW x \in {a, b}, NEW y \in {a, b}, x < y, plan = <<x, y>>
        PROVE  plan \in Plan /\ Sorted(plan) /\ InPlan(x, plan) /\ InPlan(y, plan)
    <2>1. DOMAIN plan = {1, 2} /\ plan[1] = x /\ plan[2] = y
      BY <1>3
    <2>2. plan \in Plan
      BY <1>3 DEF Plan
    <2>3. Sorted(plan)
      BY <1>1, <1>3, <2>1 DEF Sorted
    <2> QED BY <2>1, <2>2, <2>3 DEF InPlan
  <1>4. CASE a < b
    <2>1. plan = <<a, b>>
      BY <1>1, <1>4 DEF Ascending
    <2> QED BY <1>3, <1>4, <2>1
  <1>5. CASE b < a
    <2>1. plan = <<b, a>>
      BY <1>1, <1>5 DEF Ascending
    <2> QED BY <1>3, <1>5, <2>1
  <1> QED BY <1>1, <1>2, <1>4, <1>5

LEMMA BeginStep == ASSUME ConstantsFit, IInv, NEW s \in Slot, Begin(s) PROVE IInv'
  <1> USE SlotFacts, Numbers, FreeFacts
  <1>1. /\ txns[s].stage = "free" /\ UNCHANGED <<project, holder, sharer>>
    BY DEF Begin, BeginCreate, BeginRevise, BeginReplacement, BeginProfile
  <1>2. /\ OthersHold(s) /\ \A row \in Row : holder'[row] # s
        /\ \A p \in Ids : s \notin sharer'[p]
    BY <1>1 DEF OthersHold, SlotInv, Ordered
  <1>3. ASSUME NEW i \in Identity, NEW b \in DOMAIN project \union {Nothing}, BeginCreate(s, i, b)
        PROVE  IInv'
    <2>1. PICK t : /\ t = [Free EXCEPT !.stage = IF b = Nothing THEN "locking" ELSE "capture",
                                       !.identity = i, !.source = b, !.plan = <<ChoiceSets>>]
                   /\ Advance(s, t)
      BY <1>3 DEF BeginCreate
    <2>2. /\ t \in Txn /\ t.stage # "written" /\ t.op = "create" /\ t.writes = Empty
          /\ t.plan = <<ChoiceSets>> /\ t.stale = {} /\ t.identity = i /\ t.stage # "free"
          /\ t.stage = "capture" => t.source \in Ids
      <3> DEFINE plan == <<ChoiceSets>>
                 stage == IF b = Nothing THEN "locking" ELSE "capture"
      <3>1. plan \in Plan /\ stage \in {"locking", "capture"} /\ (stage = "capture" => b \in Ids)
        BY DEF Plan
      <3> HIDE DEF plan, stage
      <3>2. t = [Free EXCEPT !.stage = stage, !.identity = i, !.source = b, !.plan = plan]
        BY <2>1 DEF plan, stage
      <3>3. /\ t \in Txn /\ t.stage = stage /\ t.op = "create" /\ t.writes = Empty
            /\ t.plan = plan /\ t.stale = {} /\ t.identity = i /\ t.source = b
        BY <3>1, <3>2 DEF Txn, Free, TxnStage, Op
      <3> QED BY <3>1, <3>3 DEF plan
    <2>3. Fit(t, project) /\ Seen(t, project) /\ Needs(t) = {}
      BY <2>2 DEF Fit, Seen, Needs
    <2>4. Sorted(t.plan)
      BY <2>2 DEF Sorted
    <2> QED BY <1>1, <1>2, <2>1, <2>2, <2>3, <2>4, StartKeeps
  <1>4. ASSUME NEW p \in DOMAIN project, BeginRevise(s, p)
        PROVE  IInv'
    <2>1. PICK plan, t :
             /\ plan \in Ascending(project[p].root, p)
             /\ t = [Free EXCEPT !.stage = "locking", !.op = "revise", !.target = p,
                                 !.plan = plan, !.view = project[p], !.followed = HasSuccessor(p)]
             /\ Advance(s, t)
      BY <1>4 DEF BeginRevise
    <2>2. project[p].root \in DOMAIN project /\ project[p].root \in Row /\ p \in Row
      BY DEF IInv, RowsFit
    <2>3. plan \in Plan /\ Sorted(plan) /\ InPlan(project[p].root, plan) /\ InPlan(p, plan)
      BY <2>1, <2>2, AscendingPlans
    <2>4. HasSuccessor(p) \in BOOLEAN /\ (HasSuccessor(p) <=> FollowedIn(project, p))
      BY DEF HasSuccessor, FollowedIn
    <2>5. /\ t \in Txn /\ t.stage = "locking" /\ t.op = "revise" /\ t.writes = Empty
          /\ t.plan = plan /\ t.stale = {} /\ t.target = p /\ t.view = project[p]
          /\ t.followed = HasSuccessor(p)
      BY <2>1, <2>3, <2>4 DEF Txn, Free, TxnStage, Op
    <2>6. Fit(t, project) /\ Seen(t, project) /\ Needs(t) = {p, project[p].root}
      BY <2>2, <2>4, <2>5 DEF Fit, Seen, Needs
    <2> QED BY <1>1, <1>2, <2>1, <2>3, <2>5, <2>6, StartKeeps
  <1>5. ASSUME NEW t \in Txn, Advance(s, t), t.stage = "locking", t.op \in {"replace", "profile"},
               t.op = "replace" => t.source \in Ids,
               t.writes = Empty, t.stale = {}, t.target \in DOMAIN project,
               Sorted(t.plan), InPlan(t.target, t.plan)
        PROVE  IInv'
    <2>1. Fit(t, project) /\ Seen(t, project) /\ Needs(t) = {t.target}
      BY <1>5 DEF Fit, Seen, Needs
    <2> QED BY <1>1, <1>2, <1>5, <2>1, StartKeeps
  <1>6. ASSUME NEW p \in DOMAIN project, NEW b \in DOMAIN project, BeginReplacement(s, p, b)
        PROVE  IInv'
    <2>1. PICK plan, t : /\ plan = <<p>>
                         /\ t = [Free EXCEPT !.stage = "locking", !.op = "replace", !.target = p,
                                             !.source = b, !.plan = plan]
                         /\ Advance(s, t)
      BY <1>6 DEF BeginReplacement
    <2>2. plan \in Plan /\ Sorted(plan) /\ InPlan(p, plan)
      BY <2>1, AscendingPlans DEF Ascending
    <2>3. /\ t \in Txn /\ t.stage = "locking" /\ t.op = "replace"
          /\ t.writes = Empty /\ t.stale = {}
          /\ t.target = p /\ t.plan = plan /\ t.source \in Ids
      BY <2>1, <2>2 DEF Txn, Free, TxnStage, Op
    <2> QED BY <1>5, <2>1, <2>2, <2>3
  <1>7. ASSUME NEW p \in DOMAIN project, BeginProfile(s, p)
        PROVE  IInv'
    <2>1. PICK plan, t : /\ plan = <<p, ChoiceSets>>
                         /\ t = [Free EXCEPT !.stage = "locking", !.op = "profile", !.target = p,
                                             !.plan = plan]
                         /\ Advance(s, t)
      BY <1>7 DEF BeginProfile
    <2>2. plan \in Plan /\ Sorted(plan) /\ InPlan(p, plan)
      <3>1. plan \in Ascending(p, ChoiceSets)
        BY <2>1 DEF Ascending
      <3> QED BY <3>1, AscendingPlans
    <2>3. /\ t \in Txn /\ t.stage = "locking" /\ t.op = "profile"
          /\ t.writes = Empty /\ t.stale = {}
          /\ t.target = p /\ t.plan = plan
      BY <2>1, <2>2 DEF Txn, Free, TxnStage, Op
    <2> QED BY <1>5, <2>1, <2>2, <2>3
  <1> QED BY <1>3, <1>4, <1>6, <1>7 DEF Begin

LEMMA RollbackStep == ASSUME ConstantsFit, IInv, NEW s \in Slot, RollbackTxn(s) PROVE IInv'
  <1>1. Fit(Free, project) /\ Seen(Free, project) /\ Needs(Free) = {} /\ Sorted(Free.plan)
    BY FreeFacts, NoPlan DEF Fit, Seen, Needs
  <1> QED BY <1>1, FreeFacts, ReleasedFacts, Numbers, StartKeeps DEF RollbackTxn

LEMMA SerializationFailureStep ==
  ASSUME ConstantsFit, IInv, NEW s \in Slot, SerializationFailure(s) PROVE IInv'
  <1> USE SlotFacts, Numbers
  <1>1. OthersHold(s) /\ (\A row \in Row : holder'[row] # s) /\ \A p \in Ids : s \notin sharer'[p]
    BY ReleasedFacts DEF SerializationFailure
  <1>2. CASE Advance(s, Free)
    <2>1. Fit(Free, project) /\ Seen(Free, project) /\ Needs(Free) = {} /\ Sorted(Free.plan)
      BY FreeFacts, NoPlan DEF Fit, Seen, Needs
    <2> QED BY <1>1, <1>2, <2>1, FreeFacts, StartKeeps DEF SerializationFailure
  <1>3. CASE ~ Advance(s, Free)
    <2> DEFINE p == txns[s].target
    <2>0. /\ txns[s].op = "revise" /\ txns[s].stage = "locking" /\ p \in DOMAIN project
          /\ txns[s].writes = Empty
      <3>1. txns[s].stale # {} /\ txns[s].stage = "locking"
        BY DEF SerializationFailure
      <3> QED BY <3>1 DEF SlotInv, Fit
    <2>1. PICK plan, t :
             /\ plan \in Ascending(project[p].root, p)
             /\ t = [txns[s] EXCEPT !.plan = plan, !.view = project[p],
                                    !.followed = HasSuccessor(p), !.stale = {}]
             /\ Advance(s, t)
      BY <1>3 DEF SerializationFailure
    <2>2. project[p].root \in DOMAIN project /\ project[p].root \in Row /\ p \in Row
      BY <2>0 DEF IInv, RowsFit
    <2>3. plan \in Plan /\ Sorted(plan) /\ InPlan(project[p].root, plan) /\ InPlan(p, plan)
      BY <2>1, <2>2, AscendingPlans
    <2>4. HasSuccessor(p) \in BOOLEAN /\ (HasSuccessor(p) <=> FollowedIn(project, p))
      BY DEF HasSuccessor, FollowedIn
    <2>5. /\ t \in Txn /\ t.stage = "locking" /\ t.op = "revise" /\ t.writes = Empty
          /\ t.plan = plan /\ t.stale = {} /\ t.target = p /\ t.view = project[p]
          /\ t.followed = HasSuccessor(p)
      BY <2>0, <2>1, <2>3, <2>4 DEF Txn
    <2>6. Fit(t, project) /\ Seen(t, project) /\ Needs(t) = {p, project[p].root}
      BY <2>0, <2>2, <2>4, <2>5 DEF Fit, Seen, Needs
    <2>7. UNCHANGED project
      BY DEF SerializationFailure
    <2> QED BY <1>1, <2>1, <2>3, <2>5, <2>6, <2>7, StartKeeps
  <1> QED BY <1>2, <1>3

\* A step that keeps what the transaction has read and has not written.
LEMMA ReadingKeeps ==
  ASSUME ConstantsFit, IInv, NEW s \in Slot, NEW t \in Txn, Advance(s, t), UNCHANGED project,
         OthersHold(s), t.writes = Empty, txns[s].stage # "free",
         t.stage \notin {"free", "written"}, txns[s].stage # "written",
         t.op = txns[s].op, t.identity = txns[s].identity, t.target = txns[s].target,
         t.source = txns[s].source, t.view = txns[s].view, t.followed = txns[s].followed,
         t.stale = txns[s].stale,
         t.op = "create" => t.plan \in {<<>>, <<ChoiceSets>>},
         t.op # "create" /\ t.stage # "locking" => t.plan = <<>>,
         t.stage = "capture" => t.source \in Ids,
         Ordered(s, t, holder', sharer'), Held(s, t, holder')
  PROVE  IInv'
  <1>1. SlotInv(s, txns[s], project, holder, sharer)
    BY SlotFacts
  <1>2. Fit(t, project) /\ Seen(t, project) /\ Written(t, project)
    BY <1>1 DEF SlotInv, Fit, Seen, Written
  <1>3. \A u \in Slot \ {s} : Apart(t, txns[u], project) /\ Apart(txns[u], t, project)
    BY ApartEmpty
  <1> QED BY <1>2, <1>3, AdvanceKeeps DEF SlotInv

LEMMA LockRowStep == ASSUME ConstantsFit, IInv, NEW s \in Slot, LockRow(s) PROVE IInv'
  <1> USE SlotFacts, Numbers
  <1> DEFINE plan == txns[s].plan
             row == Head(plan)
             rest == Tail(plan)
  <1>1. /\ txns[s].stage = "locking" /\ plan # <<>> /\ Blocking(s, row) = {}
        /\ row \notin txns[s].stale
        /\ holder' = [holder EXCEPT ![row] = s] /\ Advance(s, [txns[s] EXCEPT !.plan = Tail(@)])
        /\ UNCHANGED <<project, sharer>>
    BY DEF LockRow
  <1>2. plan \in Plan /\ txns[s].writes = Empty
    BY <1>1 DEF Txn, SlotInv, Fit
  <1>3. /\ row \in Row /\ rest \in Plan
        /\ \A r : InPlan(r, plan) <=> r = row \/ InPlan(r, rest)
        /\ Sorted(plan) => Sorted(rest) /\ \A r : InPlan(r, rest) => row < r
    BY <1>1, <1>2, Plans
  <1>4. holder[row] \in {s, Nothing}
    BY <1>1 DEF Blocking
  <1>5. OthersHold(s)
    BY <1>1, <1>3, <1>4 DEF OthersHold
  <1>6. PICK t : t = [txns[s] EXCEPT !.plan = rest]
    OBVIOUS
  <1> HIDE DEF row, rest
  <1>7. /\ t \in Txn /\ t.plan = rest /\ t.stage = "locking" /\ t.op = txns[s].op
        /\ t.identity = txns[s].identity /\ t.target = txns[s].target /\ t.source = txns[s].source
        /\ t.view = txns[s].view /\ t.followed = txns[s].followed /\ t.stale = txns[s].stale
        /\ t.writes = Empty
    BY <1>1, <1>2, <1>3, <1>6 DEF Txn
  <1>8. Advance(s, t)
    BY <1>1, <1>6 DEF rest
  <1>9. Sorted(plan) /\ \A r \in Row : InPlan(r, plan) =>
          /\ \A held \in Row : holder[held] = s => held < r
          /\ \A shared \in Ids : s \in sharer[shared] => shared < r
    BY DEF SlotInv, Ordered
  <1>10. Ordered(s, t, holder', sharer')
    <2>1. ASSUME NEW r \in Row, InPlan(r, rest), NEW held \in Row, holder'[held] = s
          PROVE  held < r
      <3>1. held = row \/ holder[held] = s
        BY <1>1, <1>3, <2>1
      <3> QED BY <1>3, <1>9, <2>1, <3>1
    <2>2. ASSUME NEW r \in Row, InPlan(r, rest), NEW shared \in Ids, s \in sharer'[shared]
          PROVE  shared < r
      BY <1>1, <1>3, <1>9, <2>2
    <2> QED BY <1>3, <1>7, <1>9, <2>1, <2>2 DEF Ordered
  <1>11. Held(s, t, holder')
    <2>1. Needs(t) = Needs(txns[s])
      BY <1>7 DEF Needs
    <2>2. Needs(t) \subseteq Row
      BY <2>1, NeedsRows DEF SlotInv
    <2>3. Held(s, txns[s], holder)
      BY DEF SlotInv
    <2> QED BY <1>1, <1>3, <1>7, <2>1, <2>2, <2>3 DEF Held
  <1>12. t.op = "create" => rest = <<>>
    <2>1. t.op = "create" => plan = <<ChoiceSets>>
      BY <1>1, <1>7 DEF SlotInv, Fit
    <2>2. \A a : Tail(<<a>>) = <<>>
      OBVIOUS
    <2> QED BY <2>1, <2>2 DEF rest
  <1> QED BY <1>1, <1>5, <1>7, <1>8, <1>10, <1>11, <1>12, ReadingKeeps

LEMMA LockedStep == ASSUME ConstantsFit, IInv, NEW s \in Slot, Locked(s) PROVE IInv'
  <1> USE SlotFacts, Numbers
  <1> DEFINE stage == IF txns[s].op = "replace" /\ txns[s].source # txns[s].target
                      THEN "capture" ELSE "write"
  <1>1. PICK t : t = [txns[s] EXCEPT !.stage = stage] /\ Advance(s, t)
    BY DEF Locked
  <1>2. txns[s].stage = "locking" /\ txns[s].plan = <<>> /\ UNCHANGED <<project, holder, sharer>>
    BY DEF Locked
  <1>3. stage \in {"capture", "write"}
    OBVIOUS
  <1>4. stage = "capture" => txns[s].source \in Ids
    BY DEF SlotInv, Fit
  <1> HIDE DEF stage
  <1>5. /\ t \in Txn /\ t.plan = <<>> /\ t.stage = stage /\ t.op = txns[s].op
        /\ t.identity = txns[s].identity /\ t.target = txns[s].target /\ t.source = txns[s].source
        /\ t.view = txns[s].view /\ t.followed = txns[s].followed /\ t.stale = txns[s].stale
        /\ t.writes = txns[s].writes
    BY <1>1, <1>2, <1>3 DEF Txn, TxnStage
  <1>6. t.writes = Empty
    BY <1>2, <1>5 DEF SlotInv, Fit
  <1>7. Ordered(s, t, holder', sharer')
    BY <1>3, <1>5, NoPlan DEF Ordered
  <1>8. Held(s, t, holder')
    <2>1. Held(s, txns[s], holder) /\ Needs(t) = Needs(txns[s])
      BY <1>5 DEF SlotInv, Needs
    <2> QED BY <1>2, <1>5, <2>1 DEF Held
  <1>9. OthersHold(s)
    BY <1>2 DEF OthersHold
  <1> QED BY <1>1, <1>2, <1>3, <1>4, <1>5, <1>6, <1>7, <1>8, <1>9, ReadingKeeps

LEMMA CaptureStep == ASSUME ConstantsFit, IInv, NEW s \in Slot, Capture(s) PROVE IInv'
  <1> USE SlotFacts, Numbers
  <1> DEFINE stage == IF txns[s].op = "create" THEN "locking" ELSE "write"
             source == txns[s].source
  <1>1. PICK t : t = [txns[s] EXCEPT !.stage = stage] /\ Advance(s, t)
    BY DEF Capture
  <1>2. /\ txns[s].stage = "capture" /\ UNCHANGED <<project, holder>>
        /\ sharer' = [sharer EXCEPT ![source] = @ \union {s}]
    BY DEF Capture
  <1>3. stage \in {"locking", "write"} /\ source \in Ids
        /\ (stage = "locking" <=> txns[s].op = "create")
    BY <1>2 DEF SlotInv, Fit
  <1> HIDE DEF stage
  <1>4. /\ t \in Txn /\ t.plan = txns[s].plan /\ t.stage = stage /\ t.op = txns[s].op
        /\ t.identity = txns[s].identity /\ t.target = txns[s].target /\ t.source = txns[s].source
        /\ t.view = txns[s].view /\ t.followed = txns[s].followed /\ t.stale = txns[s].stale
        /\ t.writes = txns[s].writes
    BY <1>1, <1>2, <1>3 DEF Txn, TxnStage
  <1>5. /\ t.writes = Empty
        /\ t.op = "create" => t.plan \in {<<>>, <<ChoiceSets>>}
        /\ t.op # "create" => t.plan = <<>>
    BY <1>2, <1>4 DEF SlotInv, Fit
  <1>6. OthersHold(s)
    BY <1>2, <1>3 DEF OthersHold
  <1>7. Ordered(s, t, holder', sharer')
    <2>1. ASSUME NEW row \in Row, InPlan(row, t.plan), NEW shared \in Ids, s \in sharer'[shared]
          PROVE  shared < row
      <3>1. row = ChoiceSets
        <4>1. t.plan = <<ChoiceSets>>
          BY <1>5, <2>1, NoPlan
        <4>2. DOMAIN t.plan = {1} /\ t.plan[1] = ChoiceSets
          BY <4>1
        <4> QED BY <2>1, <4>2 DEF InPlan
      <3> QED BY <3>1
    <2>2. Ordered(s, txns[s], holder, sharer)
      BY DEF SlotInv
    <2> QED BY <1>2, <1>3, <1>4, <2>1, <2>2 DEF Ordered
  <1>8. Held(s, t, holder')
    <2>1. Held(s, txns[s], holder) /\ Needs(t) = Needs(txns[s])
      BY <1>4 DEF SlotInv, Needs
    <2> QED BY <1>2, <1>4, <2>1 DEF Held
  <1> QED BY <1>1, <1>2, <1>3, <1>4, <1>5, <1>6, <1>7, <1>8, ReadingKeeps

-----------------------------------------------------------------------------
(* Writing rows *)

LEMMA DrawsFacts ==
  ASSUME ConstantsFit, IInv, NEW new \in Ids, Draws(new)
  PROVE  /\ \A p \in DOMAIN project : p < new
         /\ \A u \in Slot : \A q \in DOMAIN txns[u].writes : q < new
         /\ new \notin DOMAIN project
  <1>1. \A p \in DOMAIN project : p < new
    BY DEF Draws
  <1>2. \A u \in Slot : \A q \in DOMAIN txns[u].writes : q < new
    BY DEF Draws
  <1>3. new \in Nat /\ ~ (new < new)
    BY Numbers
  <1> QED BY <1>1, <1>2, <1>3

LEMMA WriteKeeps ==
  ASSUME ConstantsFit, IInv, NEW s \in Slot, NEW t \in Txn, Advance(s, t),
         UNCHANGED <<project, holder, sharer>>,
         txns[s].stage = "write", t.stage = "written",
         t.op = txns[s].op, t.identity = txns[s].identity, t.target = txns[s].target,
         t.source = txns[s].source, t.view = txns[s].view, t.followed = txns[s].followed,
         t.stale = txns[s].stale, t.plan = txns[s].plan,
         Written(t, project),
         \A p \in New(t, project), u \in Slot \ {s} : \A q \in New(txns[u], project) :
            p # q /\ t.writes[p].identity # txns[u].writes[q].identity
  PROVE  IInv'
  <1>1. SlotInv(s, txns[s], project, holder, sharer)
    BY SlotFacts
  <1>2. Fit(t, project)
    BY <1>1 DEF SlotInv, Fit
  <1>3. Seen(t, project) /\ Ordered(s, t, holder', sharer')
    BY <1>1 DEF SlotInv, Seen, Ordered
  <1>4. Held(s, t, holder')
    BY <1>1 DEF SlotInv, Held, Needs
  <1>5. \A u \in Slot \ {s} : Apart(t, txns[u], project) /\ Apart(txns[u], t, project)
    BY DEF Apart
  <1>6. OthersHold(s)
    BY SlotFacts DEF OthersHold
  <1> QED BY <1>2, <1>3, <1>4, <1>5, <1>6, AdvanceKeeps DEF SlotInv

LEMMA InsertStep == ASSUME ConstantsFit, IInv, NEW s \in Slot, Insert(s) PROVE IInv'
  <1> USE SlotFacts, Numbers
  <1> DEFINE i == txns[s].identity
  <1>1. /\ txns[s].stage = "write" /\ txns[s].op = "create" /\ Indexed(i) = {}
        /\ Inserting(s, i) = {} /\ UNCHANGED <<project, holder, sharer>>
    BY DEF Insert
  <1>2. PICK new, w, t : /\ new \in Ids /\ Draws(new) /\ w = [p \in {new} |-> First(p, i)]
                         /\ t = [txns[s] EXCEPT !.stage = "written", !.writes = w]
                         /\ Advance(s, t)
    BY DEF Insert, First
  <1>2a. new \in Ids
    BY <1>2
  <1> USE <1>2a
  <1>3. i \in Identity
    BY <1>1 DEF SlotInv, Fit
  <1>4. new \notin DOMAIN project /\ \A u \in Slot : \A q \in DOMAIN txns[u].writes : q < new
    BY <1>2, DrawsFacts
  <1>5. w \in RowSet /\ DOMAIN w = {new} /\ w[new].identity = i
    <2>1. 1 \in Ids
      BY DEF ConstantsFit, Ids
    <2>2. First(new, i) \in Project
      BY <1>3, <2>1 DEF First, Project, ProjectStatus
    <2>3. DOMAIN w = {new} /\ w = [p \in {new} |-> w[p]] /\ w[new] = First(new, i)
      BY <1>2
    <2> QED BY <2>2, <2>3, RowsInSet DEF First
  <1>6. /\ t \in Txn /\ t.stage = "written" /\ t.writes = w
        /\ t.op = txns[s].op /\ t.identity = txns[s].identity /\ t.target = txns[s].target
        /\ t.source = txns[s].source /\ t.view = txns[s].view /\ t.followed = txns[s].followed
        /\ t.stale = txns[s].stale /\ t.plan = txns[s].plan
    BY <1>2, <1>5 DEF Txn, TxnStage
  <1>7. Written(t, project)
    <2>1. Creates(t, project)
      BY <1>1, <1>2, <1>4, <1>6 DEF Creates, Indexed, IndexedIn
    <2> QED BY <1>1, <1>6, <2>1 DEF Written
  <1>8. \A p \in New(t, project), u \in Slot \ {s} : \A q \in New(txns[u], project) :
          p # q /\ t.writes[p].identity # txns[u].writes[q].identity
    <2>1. ASSUME NEW u \in Slot \ {s}, NEW q \in New(txns[u], project)
          PROVE  new # q /\ i # txns[u].writes[q].identity
      <3>1. q < new /\ ~ (new < new)
        BY <1>4 DEF New
      <3> QED BY <1>1, <3>1 DEF Inserting, New
    <2> QED BY <1>5, <1>6, <2>1 DEF New
  <1> QED BY <1>1, <1>2, <1>6, <1>7, <1>8, WriteKeeps

\* A transaction that has locked its rows sees them as they are.
LEMMA LockedFacts ==
  ASSUME ConstantsFit, IInv, NEW s \in Slot, txns[s].stage \notin {"free", "locking"},
         txns[s].op # "create"
  PROVE  /\ txns[s].target \in DOMAIN project /\ holder[txns[s].target] = s
         /\ txns[s].op = "revise" =>
              /\ txns[s].view = project[txns[s].target]
              /\ txns[s].followed <=> FollowedIn(project, txns[s].target)
  <1>1. SlotInv(s, txns[s], project, holder, sharer)
    BY SlotFacts
  <1>2. txns[s].plan = <<>> /\ txns[s].target \in DOMAIN project
    BY <1>1 DEF SlotInv, Fit
  <1>3. \A row \in Needs(txns[s]) : holder[row] = s /\ row \notin txns[s].stale
    BY <1>1, <1>2, NoPlan DEF SlotInv, Held
  <1>4. txns[s].target \in Needs(txns[s])
    BY DEF Needs
  <1> QED BY <1>1, <1>2, <1>3, <1>4 DEF SlotInv, Seen

LEMMA ArchiveAndCopyStep ==
  ASSUME ConstantsFit, IInv, NEW s \in Slot, ArchiveAndCopy(s) PROVE IInv'
  <1> USE SlotFacts, Numbers
  <1> DEFINE view == txns[s].view
             target == txns[s].target
  <1>1. /\ txns[s].stage = "write" /\ txns[s].op = "revise" /\ view.status = "approved"
        /\ ~ txns[s].followed /\ Inserting(s, view.identity) = {}
        /\ Indexed(view.identity) \subseteq {target} /\ UNCHANGED <<project, holder, sharer>>
    BY DEF ArchiveAndCopy
  <1>2. PICK new, w, t :
          /\ new \in Ids /\ Draws(new)
          /\ w = [p \in {new, target} |-> IF p = new THEN Successor(view, target)
                                          ELSE Archived(view)]
          /\ t = [txns[s] EXCEPT !.stage = "written", !.writes = w]
          /\ Advance(s, t)
    BY DEF ArchiveAndCopy, Successor, Archived
  <1>2a. new \in Ids
    BY <1>2
  <1> USE <1>2a
  <1>3. target \in DOMAIN project /\ view = project[target] /\ view \in Project
    BY <1>1, LockedFacts
  <1>4. /\ new \notin DOMAIN project /\ \A u \in Slot : \A q \in DOMAIN txns[u].writes : q < new
        /\ target < new
    BY <1>2, <1>3, DrawsFacts
  <1>5. Successor(view, target) \in Project /\ Archived(view) \in Project
    <2>1. view.version <= target
      BY <1>3 DEF IInv, RowsFit
    <2>2. view.version \in Ids /\ target \in Ids
      BY <1>3 DEF Project
    <2>3. view.version + 1 \in Ids
      BY <1>4, <2>1, <2>2 DEF Ids
    <2>4. "draft" \in ProjectStatus /\ "archived" \in ProjectStatus
      BY DEF ProjectStatus
    <2> HIDE DEF view, target
    <2> QED BY <1>3, <2>2, <2>3, <2>4 DEF Successor, Archived, Project
  <1>6. Successor(view, target).identity = view.identity
    BY <1>3 DEF Successor, Project
  <1>7. w \in RowSet /\ DOMAIN w = {new, target} /\ w[new] = Successor(view, target)
    <2>1. DOMAIN w = {new, target} /\ w = [p \in {new, target} |-> w[p]]
          /\ w[new] = Successor(view, target) /\ w[target] = Archived(view)
      BY <1>2, <1>3, <1>4
    <2>2. \A p \in {new, target} : w[p] \in Project
      BY <1>5, <2>1
    <2>3. {new, target} \in SUBSET Ids
      BY <1>3
    <2> QED BY <2>1, <2>2, <2>3, RowsInSet
  <1>8. /\ t \in Txn /\ t.stage = "written" /\ t.writes = w
        /\ t.op = txns[s].op /\ t.identity = txns[s].identity /\ t.target = txns[s].target
        /\ t.source = txns[s].source /\ t.view = txns[s].view /\ t.followed = txns[s].followed
        /\ t.stale = txns[s].stale /\ t.plan = txns[s].plan
    BY <1>2, <1>7 DEF Txn, TxnStage
  <1>9. Written(t, project)
    <2>1. Revises(t, project)
      BY <1>1, <1>2, <1>4, <1>8 DEF Revises, Indexed, IndexedIn
    <2> QED BY <1>1, <1>8, <2>1 DEF Written
  <1>10. \A p \in New(t, project), u \in Slot \ {s} : \A q \in New(txns[u], project) :
           p # q /\ t.writes[p].identity # txns[u].writes[q].identity
    <2>1. ASSUME NEW u \in Slot \ {s}, NEW q \in New(txns[u], project)
          PROVE  new # q /\ view.identity # txns[u].writes[q].identity
      <3>1. q < new /\ ~ (new < new)
        BY <1>4 DEF New
      <3> QED BY <1>1, <3>1 DEF Inserting, New
    <2> QED BY <1>3, <1>6, <1>7, <1>8, <2>1 DEF New
  <1> QED BY <1>1, <1>2, <1>8, <1>9, <1>10, WriteKeeps

LEMMA EditStep == ASSUME ConstantsFit, IInv, NEW s \in Slot, Edit(s) PROVE IInv'
  <1> USE SlotFacts, Numbers
  <1> DEFINE target == txns[s].target
  <1>1. /\ txns[s].stage = "write" /\ txns[s].op \in {"replace", "profile"}
        /\ UNCHANGED <<project, holder, sharer>>
    BY DEF Edit
  <1>2. PICK w, t : /\ w = IF txns[s].op = "replace" THEN Empty ELSE [p \in {target} |-> project[p]]
                    /\ t = [txns[s] EXCEPT !.stage = "written", !.writes = w]
                    /\ Advance(s, t)
    BY DEF Edit
  <1>3. target \in DOMAIN project
    BY <1>1, LockedFacts
  <1>4. w \in RowSet /\ DOMAIN w \subseteq {target}
    <2>1. CASE txns[s].op = "replace"
      BY <1>2, <2>1, EmptyRows
    <2>2. CASE txns[s].op = "profile"
      <3>1. DOMAIN w = {target} /\ w = [p \in {target} |-> w[p]] /\ w[target] = project[target]
        BY <1>2, <2>2
      <3> QED BY <1>3, <3>1, RowsInSet
    <2> QED BY <1>1, <2>1, <2>2
  <1>3a. t = [txns[s] EXCEPT !.stage = "written", !.writes = w] /\ w \in RowSet
    BY <1>2, <1>4
  <1>5. /\ t \in Txn /\ t.stage = "written" /\ t.writes = w
        /\ t.op = txns[s].op /\ t.identity = txns[s].identity /\ t.target = txns[s].target
        /\ t.source = txns[s].source /\ t.view = txns[s].view /\ t.followed = txns[s].followed
        /\ t.stale = txns[s].stale /\ t.plan = txns[s].plan
    BY <1>3a DEF Txn, TxnStage
  <1>6. Written(t, project)
    BY <1>1, <1>2, <1>5 DEF Written
  <1>7. New(t, project) = {}
    BY <1>3, <1>4, <1>5 DEF New
  <1> QED BY <1>1, <1>2, <1>5, <1>6, <1>7, WriteKeeps

-----------------------------------------------------------------------------
(* Changes of the committed rows *)

ChainIn(rows) ==
  \A p \in DOMAIN rows :
    LET v == rows[p] IN
    /\ IF v.version = 1 THEN v.root = p /\ v.of = Nothing
       ELSE /\ v.of \in DOMAIN rows
            /\ rows[v.of].root = v.root /\ rows[v.of].identity = v.identity
            /\ rows[v.of].version + 1 = v.version /\ rows[v.of].status = "archived"
    /\ v.status = "archived" <=> FollowedIn(rows, p)
    /\ \A q \in DOMAIN rows :
         rows[q].identity = v.identity /\ rows[q].version = v.version => q = p

LEMMA ChainOfProjects == (LineageIsAChain <=> ChainIn(project))
                         /\ (LineageIsAChain' <=> ChainIn(project'))
  BY DEF LineageIsAChain, ChainIn, FollowedIn

\* A row that is not there is followed by none.
LEMMA NoneFollows ==
  ASSUME ConstantsFit, NEW rows \in RowSet, ChainIn(rows), NEW p \in Ids, ~ (p \in DOMAIN rows)
  PROVE  ~ FollowedIn(rows, p)
  BY Numbers DEF ChainIn, FollowedIn

\* Statuses change, to archived and from archived never.
LEMMA StatusChange ==
  ASSUME NEW old \in RowSet, NEW rows, ChainIn(old), RowsFit(old),
         DOMAIN rows = DOMAIN old,
         \A p \in DOMAIN old :
           /\ rows[p].identity = old[p].identity /\ rows[p].version = old[p].version
           /\ rows[p].root = old[p].root /\ rows[p].of = old[p].of
           /\ rows[p].status = "archived" <=> old[p].status = "archived"
  PROVE  ChainIn(rows) /\ RowsFit(rows)
  <1>1. ASSUME NEW p \in DOMAIN rows
        PROVE  /\ FollowedIn(rows, p) <=> FollowedIn(old, p)
               /\ IndexedIn(rows, rows[p].identity) # {}
    <2>1. FollowedIn(rows, p) <=> FollowedIn(old, p)
      BY DEF FollowedIn
    <2>2. PICK q \in DOMAIN old : old[q].identity = old[p].identity /\ Live(old[q])
      BY DEF RowsFit, IndexedIn
    <2>3. q \in IndexedIn(rows, rows[p].identity)
      BY <2>2 DEF IndexedIn, Live
    <2> QED BY <2>1, <2>3
  <1>2. RowsFit(rows)
    BY <1>1 DEF RowsFit
  <1>3. ChainIn(rows)
    BY <1>1 DEF ChainIn
  <1> QED BY <1>2, <1>3

\* What becomes of the rows: a first version, a next one, or a status.
Created(old, rows, new, i) ==
  /\ new \notin DOMAIN old /\ IndexedIn(old, i) = {}
  /\ DOMAIN rows = DOMAIN old \union {new} /\ rows[new] = First(new, i)
  /\ \A p \in DOMAIN old : rows[p] = old[p]
Revised(old, rows, new, target) ==
  /\ new \notin DOMAIN old /\ target \in DOMAIN old /\ target < new
  /\ old[target].status = "approved" /\ ~ FollowedIn(old, target)
  /\ DOMAIN rows = DOMAIN old \union {new}
  /\ rows[new] = Successor(old[target], target) /\ rows[target] = Archived(old[target])
  /\ \A p \in DOMAIN old \ {target} : rows[p] = old[p]
Moved(old, rows, p, to) ==
  /\ p \in DOMAIN old /\ DOMAIN rows = DOMAIN old
  /\ old[p].status # "archived" /\ rows[p] = [old[p] EXCEPT !.status = to]
  /\ \A q \in DOMAIN old \ {p} : rows[q] = old[q]

LEMMA FirstAdded ==
  ASSUME ConstantsFit, NEW old \in RowSet, NEW rows, ChainIn(old), RowsFit(old),
         NEW new \in Ids, NEW i, Created(old, rows, new, i)
  PROVE  ChainIn(rows) /\ RowsFit(rows)
  <1> USE Numbers, RowSetRows DEF Created
  <1>1. \A p \in DOMAIN old : old[p].identity # i
    BY DEF RowsFit
  <1>2. /\ rows[new].identity = i /\ rows[new].version = 1 /\ rows[new].root = new
        /\ rows[new].of = Nothing /\ rows[new].status = "draft"
    BY DEF First
  <1>3. ~ FollowedIn(rows, new)
    BY <1>2, NoneFollows DEF FollowedIn
  <1>4. \A p \in DOMAIN old : FollowedIn(rows, p) <=> FollowedIn(old, p)
    BY <1>2 DEF FollowedIn
  <1>5. ChainIn(rows)
    BY <1>1, <1>2, <1>3, <1>4 DEF ChainIn
  <1>6. ASSUME NEW p \in DOMAIN old PROVE IndexedIn(rows, rows[p].identity) # {}
    <2>1. PICK q \in DOMAIN old : old[q].identity = old[p].identity /\ Live(old[q])
      BY DEF RowsFit, IndexedIn
    <2>2. q \in IndexedIn(rows, rows[p].identity)
      BY <2>1 DEF IndexedIn
    <2> QED BY <2>2
  <1>7. IndexedIn(rows, rows[new].identity) # {}
    BY <1>2 DEF IndexedIn, Live
  <1>8. rows[new].version <= new
    BY <1>2 DEF Ids
  <1>9. ASSUME NEW p \in DOMAIN old
        PROVE  rows[p].root \in DOMAIN rows /\ rows[p].version <= p
    BY DEF RowsFit
  <1> QED BY <1>2, <1>5, <1>6, <1>7, <1>8, <1>9 DEF RowsFit

LEMMA SuccessorAdded ==
  ASSUME ConstantsFit, NEW old \in RowSet, NEW rows, ChainIn(old), RowsFit(old),
         NEW new \in Ids, NEW target, Revised(old, rows, new, target)
  PROVE  ChainIn(rows) /\ RowsFit(rows)
  <1> USE Numbers, RowSetRows DEF Revised
  <1> DEFINE view == old[target]
  <1>1. view \in Project /\ view.version \in Ids /\ target \in Ids /\ target # new
    BY DEF Project
  <1>2. /\ rows[new].identity = view.identity /\ rows[new].version = view.version + 1
        /\ rows[new].root = view.root /\ rows[new].of = target /\ rows[new].status = "draft"
    BY <1>1 DEF Successor, Project
  <1>3. /\ rows[target].identity = view.identity /\ rows[target].version = view.version
        /\ rows[target].root = view.root /\ rows[target].of = view.of
        /\ rows[target].status = "archived"
    BY <1>1 DEF Archived, Project
  <1>4. \A p \in DOMAIN old :
          /\ rows[p].identity = old[p].identity /\ rows[p].version = old[p].version
          /\ rows[p].root = old[p].root /\ rows[p].of = old[p].of
          /\ rows[p].status = "archived" <=> p = target \/ old[p].status = "archived"
    BY <1>3
  <1>5. view.version \in Nat /\ view.version + 1 # 1 /\ view.version + 1 # view.version
    BY <1>1 DEF Ids
  <1> HIDE DEF view
  <1>6. ~ FollowedIn(rows, new)
    BY <1>1, <1>2, <1>4, NoneFollows DEF FollowedIn
  <1>7. FollowedIn(rows, target)
    BY <1>2 DEF FollowedIn
  <1>8. \A p \in DOMAIN old \ {target} : FollowedIn(rows, p) <=> FollowedIn(old, p)
    BY <1>2, <1>4 DEF FollowedIn
  <1>9. ASSUME NEW q \in DOMAIN old, old[q].identity = view.identity,
               old[q].version = view.version + 1
        PROVE  FALSE
    <2>1. /\ old[q].of \in DOMAIN old /\ old[old[q].of].identity = view.identity
          /\ old[old[q].of].version + 1 = view.version + 1
      BY <1>5, <1>9 DEF ChainIn
    <2>2. old[old[q].of].version \in Nat
      BY <2>1 DEF Project
    <2>3. old[old[q].of].version = view.version
      BY <1>5, <2>1, <2>2
    <2>4. old[q].of = target
      BY <2>1, <2>3 DEF ChainIn, view
    <2> QED BY <2>4 DEF FollowedIn
  <1>10. ASSUME NEW p \in DOMAIN rows
         PROVE  IF rows[p].version = 1 THEN rows[p].root = p /\ rows[p].of = Nothing
                ELSE /\ rows[p].of \in DOMAIN rows
                     /\ rows[rows[p].of].root = rows[p].root
                     /\ rows[rows[p].of].identity = rows[p].identity
                     /\ rows[rows[p].of].version + 1 = rows[p].version
                     /\ rows[rows[p].of].status = "archived"
    <2>1. CASE p = new
      BY <1>2, <1>3, <1>5, <2>1
    <2>2. CASE p \in DOMAIN old
      BY <1>4, <2>2 DEF ChainIn
    <2> QED BY <2>1, <2>2
  <1>11. \A p \in DOMAIN rows : rows[p].status = "archived" <=> FollowedIn(rows, p)
    <2>1. ASSUME NEW p \in DOMAIN old \ {target}
          PROVE  rows[p].status = "archived" <=> FollowedIn(rows, p)
      BY <1>4, <1>8 DEF ChainIn
    <2> QED BY <1>2, <1>3, <1>6, <1>7, <2>1
  <1>12. ASSUME NEW p \in DOMAIN rows, NEW q \in DOMAIN rows,
                rows[q].identity = rows[p].identity, rows[q].version = rows[p].version
         PROVE  q = p
    <2>1. CASE p \in DOMAIN old /\ q \in DOMAIN old
      BY <1>4, <1>12, <2>1 DEF ChainIn
    <2>2. CASE p = new /\ q \in DOMAIN old
      BY <1>2, <1>4, <1>9, <1>12, <2>2
    <2>3. CASE p \in DOMAIN old /\ q = new
      BY <1>2, <1>4, <1>9, <1>12, <2>3
    <2> QED BY <2>1, <2>2, <2>3
  <1>13. ChainIn(rows)
    BY <1>10, <1>11, <1>12 DEF ChainIn
  <1>14. ASSUME NEW p \in DOMAIN rows PROVE rows[p].root \in DOMAIN rows /\ rows[p].version <= p
    <2>1. CASE p = new
      <3>1. view.version <= target /\ view.root \in DOMAIN old
        BY DEF RowsFit, view
      <3>2. view.version + 1 <= new
        BY <1>1, <1>5, <3>1
      <3> QED BY <1>2, <2>1, <3>1, <3>2
    <2>2. CASE p \in DOMAIN old
      BY <1>4, <2>2 DEF RowsFit
    <2> QED BY <2>1, <2>2
  <1>15. ASSUME NEW p \in DOMAIN rows PROVE IndexedIn(rows, rows[p].identity) # {}
    <2>1. CASE rows[p].identity = view.identity
      <3>1. new \in IndexedIn(rows, view.identity)
        BY <1>2 DEF IndexedIn, Live
      <3> QED BY <2>1, <3>1
    <2>2. CASE rows[p].identity # view.identity
      <3>1. p \in DOMAIN old /\ rows[p].identity = old[p].identity
        BY <1>2, <1>4, <2>2
      <3>2. PICK q \in DOMAIN old : old[q].identity = rows[p].identity /\ Live(old[q])
        BY <3>1 DEF RowsFit, IndexedIn
      <3>3. q # target
        BY <2>2, <3>2 DEF view
      <3> QED BY <3>2, <3>3 DEF IndexedIn
    <2> QED BY <2>1, <2>2
  <1> QED BY <1>13, <1>14, <1>15 DEF RowsFit

\* The rows after a commit that changed some and added others.
Changes(old, rows, changed) ==
  /\ rows \in RowSet /\ changed \in SUBSET Ids /\ DOMAIN old \subseteq DOMAIN rows
  /\ \A p \in DOMAIN old :
       /\ p \notin changed => rows[p] = old[p]
       /\ rows[p].identity = old[p].identity /\ rows[p].root = old[p].root
       /\ rows[p].of = old[p].of
       /\ Live(rows[p]) => Live(old[p])
  /\ \A q \in DOMAIN rows \ DOMAIN old : rows[q].of \in changed \union {Nothing}

Stale(t, changed) ==
  IF t.stage # "free" /\ t.op = "revise"
  THEN [t EXCEPT !.stale = @ \union (changed \intersect {t.target, t.view.root})] ELSE t

\* The rows a transaction holds do not change, so it goes on as before.
LEMMA OtherFollows ==
  ASSUME ConstantsFit, NEW old \in RowSet, NEW rows, NEW changed, Changes(old, rows, changed),
         NEW u \in Slot, NEW t \in Txn, NEW hold \in [Row -> Slot \union {Nothing}],
         NEW share \in [Ids -> SUBSET Slot], SlotInv(u, t, old, hold, share),
         \A p \in changed \intersect DOMAIN old : hold[p] # u,
         \A p \in New(t, old), q \in DOMAIN rows \ DOMAIN old :
            p # q /\ t.writes[p].identity # rows[q].identity
  PROVE  /\ Stale(t, changed) \in Txn /\ Stale(t, changed).writes = t.writes
         /\ SlotInv(u, Stale(t, changed), rows, hold, share)
  <1> USE Numbers, RowSetRows
  <1>0. /\ rows \in RowSet /\ changed \in SUBSET Ids /\ DOMAIN old \subseteq DOMAIN rows
        /\ DOMAIN old \subseteq Ids
    BY DEF Changes
  <1>1. PICK v : v = Stale(t, changed)
    OBVIOUS
  <1>2. PICK more \in SUBSET Ids :
          /\ v = [t EXCEPT !.stale = @ \union more] \/ (v = t /\ more = {})
          /\ more \subseteq changed
          /\ t.op # "revise" => v = t /\ more = {}
          /\ t.op = "revise" => more = changed \intersect {t.target, t.view.root}
    <2>1. CASE t.op = "revise"
      <3>1. t.stage # "free"
        BY <2>1 DEF SlotInv, Fit
      <3>2. v = [t EXCEPT !.stale = @ \union (changed \intersect {t.target, t.view.root})]
        BY <1>1, <2>1, <3>1 DEF Stale
      <3>3. changed \intersect {t.target, t.view.root} \in SUBSET Ids
        BY <1>0
      <3> QED BY <2>1, <3>2, <3>3
    <2>2. CASE t.op # "revise"
      <3>1. v = t
        BY <1>1, <2>2 DEF Stale
      <3>2. {} \in SUBSET Ids /\ {} \subseteq changed
        OBVIOUS
      <3> QED BY <2>2, <3>1, <3>2
    <2> QED BY <2>1, <2>2
  <1>3. /\ v \in Txn /\ v.stage = t.stage /\ v.op = t.op /\ v.identity = t.identity
        /\ v.target = t.target /\ v.source = t.source /\ v.plan = t.plan /\ v.view = t.view
        /\ v.followed = t.followed /\ v.writes = t.writes /\ v.stale = t.stale \union more
    BY <1>2 DEF Txn
  <1>4. Fit(v, rows)
    BY <1>0, <1>2, <1>3 DEF SlotInv, Fit
  <1>5. Ordered(u, v, hold, share)
    BY <1>3 DEF SlotInv, Ordered
  <1>6. Needs(v) = Needs(t) /\ Needs(t) \subseteq DOMAIN old
    BY <1>3 DEF SlotInv, Fit, Needs
  <1>7. Held(u, v, hold)
    BY <1>2, <1>3, <1>6 DEF SlotInv, Held
  <1>8. Seen(v, rows)
    <2>1. SUFFICES ASSUME t.op = "revise"
                   PROVE  /\ t.view.root = rows[t.target].root
                          /\ t.target \notin v.stale =>
                               /\ t.view = rows[t.target]
                               /\ t.followed <=> FollowedIn(rows, t.target)
      BY <1>3 DEF Seen
    <2>2. t.target \in DOMAIN old /\ t.view.root = old[t.target].root
      BY <2>1 DEF SlotInv, Fit, Seen
    <2>3. t.view.root = rows[t.target].root
      BY <2>2 DEF Changes
    <2>4. ASSUME t.target \notin v.stale
          PROVE  t.view = rows[t.target] /\ (t.followed <=> FollowedIn(rows, t.target))
      <3>1. t.target \notin t.stale /\ t.target \notin changed
        BY <1>2, <1>3, <2>1, <2>4
      <3>2. t.view = old[t.target] /\ (t.followed <=> FollowedIn(old, t.target))
        BY <2>1, <3>1 DEF SlotInv, Seen
      <3>3. rows[t.target] = old[t.target]
        BY <2>2, <3>1 DEF Changes
      <3>4. t.target # Nothing
        BY <2>2
      <3>5. FollowedIn(rows, t.target) <=> FollowedIn(old, t.target)
        BY <3>1, <3>4 DEF Changes, FollowedIn
      <3> QED BY <3>2, <3>3, <3>5
    <2> QED BY <2>3, <2>4
  <1>9. Written(v, rows)
    <2>1. SUFFICES ASSUME t.stage = "written" PROVE Written(v, rows)
      BY <1>3 DEF Written
    <2>2. Written(t, old) /\ Fit(t, old) /\ Held(u, t, hold)
      BY DEF SlotInv
    <2>3. t.op # "create" => /\ t.target \in DOMAIN old /\ hold[t.target] = u
                             /\ t.target \notin changed /\ rows[t.target] = old[t.target]
      <3>1. ASSUME t.op # "create" PROVE t.target \in DOMAIN old /\ hold[t.target] = u
        <4>1. t.plan = <<>> /\ t.target \in DOMAIN old /\ t.target \in Needs(t)
          BY <2>1, <2>2, <3>1 DEF Fit, Needs
        <4> QED BY <2>2, <4>1, NoPlan DEF Held
      <3> QED BY <3>1 DEF Changes
    <2>4. ASSUME NEW new \in Ids, ~ (new \in DOMAIN old), new \in DOMAIN t.writes, NEW i,
                 t.writes[new].identity = i, NEW S, IndexedIn(old, i) \subseteq S
          PROVE  ~ (new \in DOMAIN rows) /\ IndexedIn(rows, i) \subseteq S
      <3>1. new \in New(t, old)
        BY <2>4 DEF New
      <3>2. ~ (new \in DOMAIN rows)
        BY <2>4, <3>1
      <3>3. ASSUME NEW p \in DOMAIN rows, rows[p].identity = i, Live(rows[p])
            PROVE  p \in DOMAIN old /\ old[p].identity = i /\ Live(old[p])
        BY <2>4, <3>1, <3>3 DEF Changes
      <3>4. IndexedIn(rows, i) \subseteq IndexedIn(old, i)
        BY <3>3 DEF IndexedIn
      <3> QED BY <2>4, <3>2, <3>4
    <2>5. CASE t.op = "create"
      <3>1. PICK new \in Ids \ DOMAIN old : /\ t.writes = [p \in {new} |-> First(p, t.identity)]
                                            /\ IndexedIn(old, t.identity) = {}
        BY <2>1, <2>2, <2>5 DEF Written, Creates
      <3>2. new \in DOMAIN t.writes /\ t.writes[new].identity = t.identity
        BY <3>1 DEF First
      <3>3. ~ (new \in DOMAIN rows) /\ IndexedIn(rows, t.identity) \subseteq {}
        BY <2>4, <3>1, <3>2
      <3>4. Creates(v, rows)
        BY <1>3, <3>1, <3>3 DEF Creates
      <3> QED BY <1>3, <2>5, <3>4 DEF Written
    <2>6. CASE t.op = "revise"
      <3>1. PICK new \in Ids \ DOMAIN old :
              /\ t.target < new /\ t.view.status = "approved" /\ ~ t.followed
              /\ IndexedIn(old, t.view.identity) \subseteq {t.target}
              /\ t.writes = [p \in {new, t.target} |-> IF p = new THEN Successor(t.view, t.target)
                                                      ELSE Archived(t.view)]
        BY <2>1, <2>2, <2>6 DEF Written, Revises
      <3>2. new \in DOMAIN t.writes /\ t.writes[new] = Successor(t.view, t.target)
        BY <3>1
      <3>3. Successor(t.view, t.target).identity = t.view.identity
        BY <2>2, <2>6 DEF Successor, Fit, Project
      <3>4. ~ (new \in DOMAIN rows) /\ IndexedIn(rows, t.view.identity) \subseteq {t.target}
        <4>1. PICK i, S : i = t.view.identity /\ S = {t.target}
          OBVIOUS
        <4>2. new \in Ids /\ ~ (new \in DOMAIN old) /\ t.writes[new].identity = i
              /\ IndexedIn(old, i) \subseteq S
          BY <3>1, <3>2, <3>3, <4>1
        <4>3. ~ (new \in DOMAIN rows) /\ IndexedIn(rows, i) \subseteq S
          BY <2>4, <3>2, <4>2
        <4> QED BY <4>1, <4>3
      <3>5. Revises(v, rows)
        BY <1>3, <3>1, <3>4 DEF Revises
      <3> QED BY <1>3, <2>6, <3>5 DEF Written
    <2>7. CASE t.op \in {"replace", "profile"}
      BY <1>3, <2>1, <2>2, <2>3, <2>7 DEF Written
    <2>8. t.op \in Op
      BY DEF Txn
    <2> QED BY <2>5, <2>6, <2>7, <2>8 DEF Op
  <1> QED BY <1>1, <1>3, <1>4, <1>5, <1>7, <1>8, <1>9 DEF SlotInv

\* After a commit, or a transition: the transactions of S go on, the other one
\* has ended.
AfterCommit(rows, changed, S) ==
  /\ Changes(project, rows, changed) /\ ChainIn(rows) /\ RowsFit(rows)
  /\ project' = rows /\ S \in SUBSET Slot
  /\ holder' \in [Row -> Slot \union {Nothing}] /\ sharer' \in [Ids -> SUBSET Slot]
  /\ txns' = [u \in Slot |-> IF u \in S THEN Stale(txns[u], changed) ELSE Free]
  /\ \A u \in S : /\ \A row \in Row : holder'[row] = u <=> holder[row] = u
                  /\ \A p \in Ids : u \in sharer'[p] <=> u \in sharer[p]
                  /\ \A p \in changed \intersect DOMAIN project : holder[p] # u
                  /\ \A p \in New(txns[u], project), q \in DOMAIN rows \ DOMAIN project :
                       p # q /\ txns[u].writes[p].identity # rows[q].identity
  /\ \A u \in Slot \ S : /\ \A row \in Row : holder'[row] # u
                         /\ \A p \in Ids : u \notin sharer'[p]

LEMMA CommittedKeeps ==
  ASSUME ConstantsFit, IInv, NEW rows, NEW changed, NEW S, AfterCommit(rows, changed, S)
  PROVE  IInv'
  <1> USE Numbers DEF AfterCommit
  <1>1. ASSUME NEW u \in S
        PROVE  /\ txns'[u] \in Txn /\ txns'[u].writes = txns[u].writes
               /\ SlotInv(u, txns'[u], rows, holder', sharer')
    <2>0. PICK hold, share : hold = holder' /\ share = sharer'
      OBVIOUS
    <2>1. SlotInv(u, txns[u], project, holder, sharer) /\ txns[u] \in Txn /\ project \in RowSet
          /\ u \in Slot
      BY SlotFacts
    <2>2. Ordered(u, txns[u], hold, share)
      BY <2>0, <2>1 DEF SlotInv, Ordered
    <2>3. Needs(txns[u]) \subseteq Row
      BY <2>1, NeedsRows, RowSetRows DEF SlotInv
    <2>4. Held(u, txns[u], hold)
      BY <2>0, <2>1, <2>3 DEF SlotInv, Held
    <2>5. SlotInv(u, txns[u], project, hold, share)
      BY <2>1, <2>2, <2>4 DEF SlotInv
    <2>6. \A p \in changed \intersect DOMAIN project : hold[p] # u
      BY <2>0 DEF Changes
    <2>7. txns'[u] = Stale(txns[u], changed)
      BY <2>1
    <2>8. /\ hold \in [Row -> Slot \union {Nothing}] /\ share \in [Ids -> SUBSET Slot]
          /\ \A p \in New(txns[u], project), q \in DOMAIN rows \ DOMAIN project :
               p # q /\ txns[u].writes[p].identity # rows[q].identity
      BY <2>0
    <2> QED BY <2>0, <2>1, <2>5, <2>6, <2>7, <2>8, OtherFollows
  <1>2. ASSUME NEW u \in Slot \ S
        PROVE  /\ txns'[u] \in Txn /\ txns'[u].writes = Empty
               /\ SlotInv(u, txns'[u], rows, holder', sharer')
    <2>1. txns'[u] = Free
      OBVIOUS
    <2>2. Fit(Free, rows) /\ Held(u, Free, holder') /\ Seen(Free, rows) /\ Written(Free, rows)
      BY FreeFacts DEF Fit, Held, Needs, Seen, Written
    <2>3. Ordered(u, Free, holder', sharer')
      BY FreeFacts, NoPlan DEF Ordered
    <2> QED BY <2>1, <2>2, <2>3, FreeFacts DEF SlotInv
  <1>3. Types'
    BY <1>1, <1>2 DEF Types, Changes
  <1>4. \A u \in Slot : SlotInv(u, txns'[u], project', holder', sharer')
    BY <1>1, <1>2
  <1>5. RowsFit(project') /\ LineageIsAChain'
    BY ChainOfProjects
  <1>6. ASSUME NEW u \in Slot, NEW w \in Slot, u # w
        PROVE  Apart(txns'[u], txns'[w], project')
    <2>1. CASE u \in S /\ w \in S
      <3>1. Apart(txns[u], txns[w], project)
        BY <1>6 DEF IInv
      <3>2. New(txns'[u], rows) \subseteq New(txns[u], project)
            /\ New(txns'[w], rows) \subseteq New(txns[w], project)
        BY <1>1, <2>1 DEF New, Changes
      <3>3. txns'[u].writes = txns[u].writes /\ txns'[w].writes = txns[w].writes
        BY <1>1, <2>1
      <3>4. Apart(txns'[u], txns'[w], rows)
        BY <3>1, <3>2, <3>3 DEF Apart
      <3> QED BY <3>4
    <2>2. CASE ~ (u \in S /\ w \in S)
      BY <1>2, <2>2, ApartEmpty
    <2> QED BY <2>1, <2>2
  <1> QED BY <1>3, <1>4, <1>5, <1>6 DEF IInv

LEMMA TransitionStep ==
  ASSUME ConstantsFit, IInv, NEW p \in DOMAIN project, Transition(p) PROVE IInv'
  <1> USE SlotFacts, Numbers
  <1>1. PICK a \in ReviewAction, to \in ProjectStatus :
          MayMove(project[p].status, a, to) /\ project' = [project EXCEPT ![p].status = to]
    BY DEF Transition
  <1>2. PICK rows : rows = project'
    OBVIOUS
  <1>3. project \in RowSet /\ project[p] \in Project /\ p \in Ids
        /\ project = [q \in DOMAIN project |-> project[q]]
    BY RowSetRows DEF IInv, Types
  <1>4. to # "archived" /\ project[p].status # "archived"
    BY <1>1 DEF MayMove, LifecycleRules, TransitionRules, RevisionRules, ReviewAction
  <1>5. /\ DOMAIN rows = DOMAIN project /\ rows = [q \in DOMAIN project |-> rows[q]]
        /\ rows[p] = [project[p] EXCEPT !.status = to]
        /\ \A q \in DOMAIN project \ {p} : rows[q] = project[q]
    <2>1. DOMAIN rows = DOMAIN project
      BY <1>1, <1>2
    <2>2. rows = [q \in DOMAIN project |-> rows[q]]
      BY <1>1, <1>2
    <2> QED BY <1>1, <1>2, <2>1, <2>2
  <1>6. /\ rows[p] \in Project /\ rows[p].identity = project[p].identity
        /\ rows[p].version = project[p].version /\ rows[p].root = project[p].root
        /\ rows[p].of = project[p].of /\ rows[p].status = to
    BY <1>3, <1>5 DEF Project
  <1>7. rows \in RowSet
    BY <1>3, <1>5, <1>6, RowsInSet, RowSetRows
  <1>8. Changes(project, rows, {p})
    BY <1>3, <1>4, <1>5, <1>6, <1>7 DEF Changes, Live
  <1>9. ChainIn(rows) /\ RowsFit(rows)
    <2>1. \A q \in DOMAIN project :
           /\ rows[q].identity = project[q].identity /\ rows[q].version = project[q].version
           /\ rows[q].root = project[q].root /\ rows[q].of = project[q].of
           /\ rows[q].status = "archived" <=> project[q].status = "archived"
      BY <1>4, <1>5, <1>6
    <2>2. ChainIn(project) /\ RowsFit(project)
      BY ChainOfProjects DEF IInv
    <2> QED BY <1>3, <1>5, <2>1, <2>2, StatusChange
  <1>10. PICK S, changed : S = Slot /\ changed = {p}
    OBVIOUS
  <1>11. txns' = [u \in Slot |-> IF u \in S THEN Stale(txns[u], changed) ELSE Free]
    BY <1>10 DEF Transition, Outdated, Stale
  <1>12. UNCHANGED <<holder, sharer>> /\ holder[p] = Nothing
    BY DEF Transition
  <1>13. \A u \in S :
           /\ \A row \in Row : holder'[row] = u <=> holder[row] = u
           /\ \A q \in Ids : u \in sharer'[q] <=> u \in sharer[q]
           /\ \A q \in changed \intersect DOMAIN project : holder[q] # u
           /\ \A r \in New(txns[u], project), q \in DOMAIN rows \ DOMAIN project :
                r # q /\ txns[u].writes[r].identity # rows[q].identity
    BY <1>5, <1>10, <1>12
  <1>14. \A u \in Slot \ S : /\ \A row \in Row : holder'[row] # u
                             /\ \A q \in Ids : u \notin sharer'[q]
    BY <1>10
  <1>15. holder' \in [Row -> Slot \union {Nothing}] /\ sharer' \in [Ids -> SUBSET Slot]
    BY <1>12 DEF IInv, Types
  <1>16. Changes(project, rows, changed) /\ S \in SUBSET Slot
    BY <1>8, <1>10
  <1>17. project' = rows
    BY <1>2
  <1>18. AfterCommit(rows, changed, S)
    BY <1>9, <1>11, <1>13, <1>14, <1>15, <1>16, <1>17 DEF AfterCommit
  <1> QED BY <1>18, CommittedKeeps

\* What a commit does to the rows.
LEMMA CommitRows ==
  ASSUME ConstantsFit, IInv, NEW s \in Slot, CommitTxn(s), NEW w, w = txns[s].writes
  PROVE  /\ project' \in RowSet
         /\ \/ /\ project' = project
               /\ \A p \in DOMAIN w : p \in DOMAIN project /\ holder[p] = s
            \/ \E new \in Ids, i \in Identity :
                 Created(project, project', new, i) /\ DOMAIN w = {new}
            \/ \E new \in Ids, target \in DOMAIN project :
                 /\ Revised(project, project', new, target) /\ DOMAIN w = {new, target}
                 /\ holder[target] = s
  <1> USE SlotFacts, Numbers
  <1> DEFINE target == txns[s].target
             view == txns[s].view
  <1>1. PICK rows : rows = project'
    OBVIOUS
  <1>2. /\ txns[s].stage = "written"
        /\ rows = [p \in DOMAIN project \union DOMAIN w |->
                     IF p \in DOMAIN w THEN w[p] ELSE project[p]]
    BY <1>1 DEF CommitTxn
  <1>3. w \in RowSet /\ DOMAIN w \in SUBSET Ids /\ \A p \in DOMAIN w : w[p] \in Project
    BY RowSetRows DEF Txn
  <1>4. /\ DOMAIN rows = DOMAIN project \union DOMAIN w /\ DOMAIN rows \in SUBSET Ids
        /\ rows = [p \in DOMAIN rows |-> rows[p]]
        /\ \A p \in DOMAIN rows : rows[p] = IF p \in DOMAIN w THEN w[p] ELSE project[p]
    BY <1>2, <1>3
  <1>5. rows \in RowSet
    BY <1>3, <1>4, RowsInSet
  <1>6. Written(txns[s], project) /\ Fit(txns[s], project)
        /\ project = [p \in DOMAIN project |-> project[p]]
    BY RowSetRows DEF SlotInv
  <1>7. ASSUME txns[s].op \in {"replace", "profile"}
        PROVE  rows = project /\ \A p \in DOMAIN w : p \in DOMAIN project /\ holder[p] = s
    <2>1. target \in DOMAIN project /\ holder[target] = s
      BY <1>2, <1>7, LockedFacts
    <2>2. DOMAIN w \subseteq {target} /\ \A p \in DOMAIN w : w[p] = project[p]
      BY <1>2, <1>6, <1>7, EmptyRows DEF Written
    <2>3. DOMAIN rows = DOMAIN project /\ \A p \in DOMAIN project : rows[p] = project[p]
      BY <1>4, <2>1, <2>2
    <2> QED BY <1>4, <1>6, <2>1, <2>2, <2>3
  <1>8. ASSUME txns[s].op = "create"
        PROVE  \E new \in Ids, i \in Identity : Created(project, rows, new, i) /\ DOMAIN w = {new}
    <2> DEFINE i == txns[s].identity
    <2>1. i \in Identity
      BY <1>2, <1>6, <1>8 DEF Fit
    <2>2. PICK new \in Ids \ DOMAIN project :
            w = [p \in {new} |-> First(p, i)] /\ IndexedIn(project, i) = {}
      BY <1>2, <1>6, <1>8 DEF Written, Creates
    <2>3. DOMAIN w = {new} /\ w[new] = First(new, i) /\ ~ (new \in DOMAIN project)
      BY <2>2
    <2>4. /\ DOMAIN rows = DOMAIN project \union {new} /\ rows[new] = First(new, i)
          /\ \A p \in DOMAIN project : rows[p] = project[p]
      BY <1>4, <2>3
    <2>5. Created(project, rows, new, i)
      BY <2>2, <2>3, <2>4 DEF Created
    <2> QED BY <2>1, <2>3, <2>5
  <1>9. ASSUME txns[s].op = "revise"
        PROVE  \E new \in Ids, p \in DOMAIN project :
                 Revised(project, rows, new, p) /\ DOMAIN w = {new, p} /\ holder[p] = s
    <2>1. PICK new \in Ids \ DOMAIN project :
            /\ target < new /\ view.status = "approved" /\ ~ txns[s].followed
            /\ w = [p \in {new, target} |-> IF p = new THEN Successor(view, target)
                                            ELSE Archived(view)]
      BY <1>2, <1>6, <1>9 DEF Written, Revises
    <2>2. /\ target \in DOMAIN project /\ holder[target] = s /\ view = project[target]
          /\ ~ FollowedIn(project, target)
      BY <1>2, <1>9, <2>1, LockedFacts
    <2>3. view \in Project /\ target # new /\ ~ (new \in DOMAIN project)
      BY <2>2
    <2>4. DOMAIN w = {new, target} /\ w[new] = Successor(view, target) /\ w[target] = Archived(view)
      BY <2>1, <2>3
    <2>5. /\ DOMAIN rows = DOMAIN project \union {new}
          /\ rows[new] = Successor(view, target) /\ rows[target] = Archived(view)
          /\ \A p \in DOMAIN project \ {target} : rows[p] = project[p]
      BY <1>4, <2>2, <2>3, <2>4
    <2>6. Revised(project, rows, new, target)
      BY <2>1, <2>2, <2>3, <2>5 DEF Revised
    <2> QED BY <2>2, <2>4, <2>6
  <1> QED BY <1>1, <1>5, <1>7, <1>8, <1>9 DEF Txn, Op

LEMMA CommitStep == ASSUME ConstantsFit, IInv, NEW s \in Slot, CommitTxn(s) PROVE IInv'
  <1> USE SlotFacts, Numbers
  <1>1. PICK w, rows, S : w = txns[s].writes /\ rows = project' /\ S = Slot \ {s}
    OBVIOUS
  <1>2. /\ txns[s].stage = "written" /\ Released(s)
        /\ txns' = [Outdated(DOMAIN w) EXCEPT ![s] = Free]
        /\ rows = [p \in DOMAIN project \union DOMAIN w |->
                     IF p \in DOMAIN w THEN w[p] ELSE project[p]]
    BY <1>1 DEF CommitTxn
  <1>3. w \in RowSet /\ DOMAIN w \in SUBSET Ids
    BY <1>1, RowSetRows DEF Txn
  <1>4. /\ DOMAIN rows = DOMAIN project \union DOMAIN w
        /\ \A p \in DOMAIN rows : rows[p] = IF p \in DOMAIN w THEN w[p] ELSE project[p]
    BY <1>2, <1>3
  <1>5. ChainIn(project) /\ RowsFit(project)
    BY ChainOfProjects DEF IInv
  <1> DEFINE Keeps == /\ Changes(project, rows, DOMAIN w) /\ ChainIn(rows) /\ RowsFit(rows)
                      /\ \A p \in DOMAIN w \intersect DOMAIN project : holder[p] = s
  <1>6. /\ rows \in RowSet
        /\ \/ rows = project /\ \A p \in DOMAIN w : p \in DOMAIN project /\ holder[p] = s
           \/ \E new \in Ids, i \in Identity :
                Created(project, rows, new, i) /\ DOMAIN w = {new}
           \/ \E new \in Ids, target \in DOMAIN project :
                /\ Revised(project, rows, new, target) /\ DOMAIN w = {new, target}
                /\ holder[target] = s
    BY <1>1, CommitRows
  <1>7. ASSUME rows = project, \A p \in DOMAIN w : p \in DOMAIN project /\ holder[p] = s
        PROVE  Keeps
    <2>1. Changes(project, project, DOMAIN w)
      BY <1>3 DEF Changes
    <2> QED BY <1>5, <1>7, <2>1
  <1>8. ASSUME NEW new \in Ids, NEW i \in Identity,
               Created(project, rows, new, i), DOMAIN w = {new}
        PROVE  Keeps
    <2>1. /\ DOMAIN rows = DOMAIN project \union {new} /\ rows[new].of = Nothing
          /\ \A p \in DOMAIN project : rows[p] = project[p]
      BY <1>8 DEF Created, First
    <2>2. Changes(project, rows, DOMAIN w)
      BY <1>3, <1>6, <1>8, <2>1 DEF Changes, Created
    <2>3. ChainIn(rows) /\ RowsFit(rows)
      BY <1>5, <1>8, FirstAdded
    <2> QED BY <1>8, <2>2, <2>3 DEF Created
  <1>9. ASSUME NEW new \in Ids, NEW target \in DOMAIN project,
               Revised(project, rows, new, target), DOMAIN w = {new, target}, holder[target] = s
        PROVE  Keeps
    <2>1. project[target] \in Project
      OBVIOUS
    <2>2. rows[new].of = target
      BY <1>9, <2>1 DEF Revised, Successor, Project
    <2>3. /\ rows[target].identity = project[target].identity
          /\ rows[target].root = project[target].root
          /\ rows[target].of = project[target].of /\ ~ Live(rows[target])
      BY <1>9, <2>1 DEF Revised, Archived, Project, Live
    <2>4. /\ DOMAIN rows = DOMAIN project \union {new} /\ ~ (new \in DOMAIN project)
          /\ \A p \in DOMAIN project \ {target} : rows[p] = project[p]
      BY <1>9 DEF Revised
    <2>5. Changes(project, rows, DOMAIN w)
      BY <1>3, <1>6, <1>9, <2>2, <2>3, <2>4 DEF Changes
    <2>6. ChainIn(rows) /\ RowsFit(rows)
      BY <1>5, <1>9, SuccessorAdded
    <2> QED BY <1>9, <2>4, <2>5, <2>6
  <1>10. Keeps
    BY <1>6, <1>7, <1>8, <1>9
  <1> HIDE DEF Keeps
  <1>11. PICK changed : changed = DOMAIN w
    OBVIOUS
  <1>12. OthersHold(s) /\ \A row \in Row : holder'[row] # s /\ \A p \in Ids : s \notin sharer'[p]
    BY <1>2, ReleasedFacts
  <1>13. txns' = [u \in Slot |-> IF u \in S THEN Stale(txns[u], changed) ELSE Free]
    <2>1. Outdated(DOMAIN w) = [u \in Slot |-> Stale(txns[u], changed)]
      BY <1>11 DEF Outdated, Stale
    <2> QED BY <1>1, <1>2, <2>1
  <1>14. ASSUME NEW u \in S
         PROVE  /\ \A row \in Row : holder'[row] = u <=> holder[row] = u
                /\ \A p \in Ids : u \in sharer'[p] <=> u \in sharer[p]
                /\ \A p \in changed \intersect DOMAIN project : holder[p] # u
                /\ \A p \in New(txns[u], project), q \in DOMAIN rows \ DOMAIN project :
                     p # q /\ txns[u].writes[p].identity # rows[q].identity
    <2>1. ASSUME NEW p \in New(txns[u], project), NEW q \in DOMAIN rows \ DOMAIN project
          PROVE  p # q /\ txns[u].writes[p].identity # rows[q].identity
      <3>1. q \in New(txns[s], project) /\ rows[q] = txns[s].writes[q]
        BY <1>1, <1>4 DEF New
      <3>2. Apart(txns[u], txns[s], project)
        BY <1>1
      <3> QED BY <3>1, <3>2 DEF Apart
    <2>2. \A p \in changed \intersect DOMAIN project : holder[p] # u
      BY <1>1, <1>10, <1>11 DEF Keeps
    <2> QED BY <1>1, <1>12, <2>1, <2>2 DEF OthersHold
  <1>15. \A u \in Slot \ S : /\ \A row \in Row : holder'[row] # u
                             /\ \A p \in Ids : u \notin sharer'[p]
    BY <1>1, <1>12
  <1>16. Changes(project, rows, changed) /\ ChainIn(rows) /\ RowsFit(rows)
    BY <1>10, <1>11 DEF Keeps
  <1>17. AfterCommit(rows, changed, S)
    BY <1>1, <1>12, <1>13, <1>14, <1>15, <1>16 DEF AfterCommit, OthersHold
  <1> QED BY <1>17, CommittedKeeps

-----------------------------------------------------------------------------
(* The steps together *)

LEMMA StepIInv == ASSUME ConstantsFit, IInv, [RowsNext]_rowVars PROVE IInv'
  <1>1. CASE UNCHANGED rowVars
    <2>1. project' = project /\ holder' = holder /\ sharer' = sharer /\ txns' = txns
      BY <1>1 DEF rowVars
    <2> QED BY <2>1 DEF IInv, Types, LineageIsAChain
  <1>2. ASSUME NEW s \in Slot, Step(s) PROVE IInv'
    <2>1. CASE LockRow(s)
      BY <2>1, LockRowStep
    <2>2. CASE SerializationFailure(s)
      BY <2>2, SerializationFailureStep
    <2>3. CASE Locked(s)
      BY <2>3, LockedStep
    <2>4. CASE Capture(s)
      BY <2>4, CaptureStep
    <2>5. CASE Insert(s)
      BY <2>5, InsertStep
    <2>6. CASE ArchiveAndCopy(s)
      BY <2>6, ArchiveAndCopyStep
    <2>7. CASE Edit(s)
      BY <2>7, EditStep
    <2>8. CASE CommitTxn(s)
      BY <2>8, CommitStep
    <2>9. CASE RollbackTxn(s)
      BY <2>9, RollbackStep
    <2> QED BY <1>2, <2>1, <2>2, <2>3, <2>4, <2>5, <2>6, <2>7, <2>8, <2>9 DEF Step
  <1> QED BY <1>1, <1>2, BeginStep, TransitionStep DEF RowsNext

\* What a transaction waits for when it waits: a writer that waits for nobody,
\* or one that holds the row it is to lock next.
LEMMA Waiting ==
  ASSUME ConstantsFit, IInv, NEW s \in Slot, NEW u \in WaitsFor(s)
  PROVE  /\ u \in Slot
         /\ WaitsFor(u) = {} \/ ( /\ txns[s].stage = "locking" /\ txns[s].plan # <<>>
                                  /\ u \in Blocking(s, Head(txns[s].plan)) )
  <1> USE Numbers
  <1>1. CASE txns[s].stage = "locking" /\ txns[s].plan # <<>>
    <2>1. u \in Blocking(s, Head(txns[s].plan))
      BY <1>1 DEF WaitsFor
    <2>2. Head(txns[s].plan) \in Row
      BY <1>1, SlotFacts, Plans DEF Txn
    <2> QED BY <1>1, <2>1, <2>2, SlotFacts DEF Blocking
  <1>2. CASE ~ (txns[s].stage = "locking" /\ txns[s].plan # <<>>)
    <2>1. u \in Inserting(s, EntryOf(s)) \union UNION {Writing(s, p) : p \in Indexed(EntryOf(s))}
      BY <1>2 DEF WaitsFor
    <2>2. u \in Slot /\ DOMAIN txns[u].writes # {}
      BY <2>1 DEF Inserting, Writing
    <2>3. txns[u].stage = "written"
      BY <2>2, SlotFacts, EmptyRows DEF SlotInv, Fit
    <2>4. WaitsFor(u) = {}
      BY <2>3 DEF WaitsFor
    <2> QED BY <2>2, <2>4
  <1> QED BY <1>1, <1>2

LEMMA WaitsUpwards ==
  ASSUME ConstantsFit, IInv, NEW s \in Slot, NEW u \in Slot, txns[u].plan # <<>>,
         txns[s].plan # <<>>, u \in Blocking(s, Head(txns[s].plan))
  PROVE  Head(txns[s].plan) < Head(txns[u].plan)
  <1> USE Numbers
  <1>1. Head(txns[s].plan) \in Row /\ Head(txns[u].plan) \in Row
        /\ InPlan(Head(txns[u].plan), txns[u].plan)
    BY SlotFacts, Plans DEF Txn
  <1>2. holder[Head(txns[s].plan)] = u
        \/ (Head(txns[s].plan) \in Ids /\ u \in sharer[Head(txns[s].plan)])
    BY DEF Blocking
  <1>3. Ordered(u, txns[u], holder, sharer)
    BY SlotFacts DEF SlotInv
  <1> QED BY <1>1, <1>2, <1>3 DEF Ordered

LEMMA Greatest ==
  ASSUME NEW n \in Nat, NEW H, H # {}, \A h \in H : h \in Nat /\ h <= n
  PROVE  \E h \in H : \A k \in H : ~ (h < k)
  <1> DEFINE R == OpToRel(<, Nat)
             T == {n - h : h \in H}
  <1>1. IsWellFoundedOn(R, Nat)
    BY NatLessThanWellFounded
  <1>2. \A x, y \in Nat : x < y => <<x, y>> \in R
    BY DEF OpToRel
  <1>3. T # {} /\ \A x \in T : x \in Nat
    OBVIOUS
  <1> HIDE DEF R
  <1>4. PICK x \in T : \A y \in T : ~ (<<y, x>> \in R)
    <2> HIDE DEF T
    <2>1. T \subseteq Nat
      BY <1>3
    <2> QED BY <1>1, <1>3, <2>1, WFMin
  <1>5. \A y \in T : ~ (y < x)
    BY <1>2, <1>3, <1>4
  <1>6. PICK h \in H : x = n - h
    OBVIOUS
  <1>7. ASSUME NEW k \in H, h < k PROVE FALSE
    <2>1. n - k \in T /\ h \in Nat /\ k \in Nat
      OBVIOUS
    <2>2. n - k < n - h
      BY <1>7, <2>1
    <2> QED BY <1>5, <1>6, <2>1, <2>2
  <1> QED BY <1>7

LEMMA NoCycle == ASSUME ConstantsFit, IInv PROVE NoWaitCycle
  <1> USE Numbers
  <1>1. SUFFICES ASSUME NEW S \in (SUBSET Slot) \ {{}}, \A s \in S : WaitsFor(s) \intersect S # {}
                 PROVE  FALSE
    BY DEF NoWaitCycle
  <1>2. ASSUME NEW s \in S
        PROVE  /\ txns[s].plan # <<>>
               /\ \E u \in S : u \in Blocking(s, Head(txns[s].plan))
    <2>1. PICK u \in S : u \in WaitsFor(s)
      BY <1>1
    <2>2. WaitsFor(u) # {}
      BY <1>1
    <2> QED BY <2>1, <2>2, Waiting
  <1> DEFINE H == {Head(txns[s].plan) : s \in S}
  <1>3. \A s \in S : Head(txns[s].plan) \in Row
    BY <1>2, SlotFacts, Plans DEF Txn
  <1>4. \A h \in H : h \in Nat /\ h <= ChoiceSets
    BY <1>3 DEF Row
  <1>5. H # {}
    <2>1. PICK s : s \in S
      OBVIOUS
    <2>2. Head(txns[s].plan) \in H
      BY <2>1
    <2> HIDE DEF H
    <2> QED BY <2>2
  <1>6. PICK h \in H : \A k \in H : ~ (h < k)
    <2> HIDE DEF H
    <2> QED BY <1>4, <1>5, Greatest
  <1>7. PICK s \in S : h = Head(txns[s].plan)
    OBVIOUS
  <1>8. PICK u \in S : u \in Blocking(s, Head(txns[s].plan))
    BY <1>2
  <1>9. Head(txns[s].plan) < Head(txns[u].plan)
    BY <1>2, <1>8, WaitsUpwards
  <1> QED BY <1>6, <1>7, <1>9

-----------------------------------------------------------------------------
(* The lines of versions, counted *)

\* The projects of an identity in the order of their ids: f counts them.
Versions(rows, i) == {p \in DOMAIN rows : rows[p].identity = i}
Line(rows, i, n, f) ==
  /\ f \in [1 .. n -> Ids]
  /\ Versions(rows, i) = {f[k] : k \in 1 .. n}
  /\ \A j, k \in 1 .. n : j < k => f[j] < f[k]
  /\ \A k \in 1 .. n : k < n => rows[f[k]].status = "archived"
Lined(rows) == \A i \in Identity : \E n \in Nat : \E f \in [1 .. n -> Ids] : Line(rows, i, n, f)

Statuses(rows, n, f) == [k \in 1 .. n |-> rows[f[k]].status]
Ending(s, n, status) == [s EXCEPT ![n] = status]
With(line, i, s) == [line EXCEPT ![i] = s]
LineIn(rows, i) ==
  LET versions == {p \in DOMAIN rows : rows[p].identity = i}
      Nth(n)   == CHOOSE p \in versions : Cardinality({q \in versions : q <= p}) = n
  IN [n \in 1 .. Cardinality(versions) |-> rows[Nth(n)].status]

\* As many numbers as are counted.
LEMMA CountedSet ==
  ASSUME NEW n \in Nat, NEW f, NEW S, S = {f[k] : k \in 1 .. n},
         \A j, k \in 1 .. n : f[j] = f[k] => j = k
  PROVE  Cardinality(S) = n
  <1> DEFINE g == [k \in 1 .. n |-> f[k]]
  <1>1. g \in Bijection(1 .. n, S)
    BY DEF Bijection, Injection, Surjection, IsInjective
  <1> QED BY <1>1, FS_CountingElements DEF ExistsBijection

LEMMA Counted ==
  ASSUME ConstantsFit, NEW rows, NEW i, NEW n \in Nat, NEW f, Line(rows, i, n, f)
  PROVE  LineIn(rows, i) = Statuses(rows, n, f)
  <1> DEFINE V == {p \in DOMAIN rows : rows[p].identity = i}
             UpTo(p) == {q \in V : q <= p}
             Nth(k) == CHOOSE p \in V : Cardinality(UpTo(p)) = k
  <1>1. /\ f \in [1 .. n -> Ids] /\ V = {f[k] : k \in 1 .. n}
        /\ \A j, k \in 1 .. n : j < k => f[j] < f[k]
    BY DEF Line, Versions
  <1>2. \A k \in 1 .. n : f[k] \in Nat
    BY <1>1, Numbers
  <1>3. \A j, k \in 1 .. n : (f[j] = f[k] => j = k) /\ (f[j] <= f[k] <=> j <= k)
    <2> TAKE j, k \in 1 .. n
    <2>1. j \in Nat /\ k \in Nat /\ f[j] \in Nat /\ f[k] \in Nat
      BY <1>2
    <2>2. CASE j < k
      BY <1>1, <2>1, <2>2
    <2>3. CASE k < j
      BY <1>1, <2>1, <2>3
    <2>4. CASE j = k
      BY <2>1, <2>4
    <2> QED BY <2>1, <2>2, <2>3, <2>4
  <1>4. Cardinality(V) = n
    BY <1>1, <1>3, CountedSet
  <1>5. ASSUME NEW k \in 1 .. n PROVE Cardinality(UpTo(f[k])) = k
    <2>1. UpTo(f[k]) = {f[j] : j \in 1 .. k}
      <3>1. \A j \in 1 .. n : j <= k <=> j \in 1 .. k
        OBVIOUS
      <3>2. \A j \in 1 .. k : j \in 1 .. n
        OBVIOUS
      <3> QED BY <1>1, <1>3, <3>1, <3>2
    <2>2. \A j, m \in 1 .. k : f[j] = f[m] => j = m
      BY <1>3
    <2>3. k \in Nat
      OBVIOUS
    <2> HIDE DEF UpTo
    <2> QED BY <2>1, <2>2, <2>3, CountedSet
  <1>6. ASSUME NEW k \in 1 .. n PROVE Nth(k) = f[k]
    <2>1. f[k] \in V /\ Cardinality(UpTo(f[k])) = k
      BY <1>1, <1>5
    <2>2. ASSUME NEW p \in V, Cardinality(UpTo(p)) = k PROVE p = f[k]
      <3>1. PICK j \in 1 .. n : p = f[j]
        BY <1>1
      <3>2. Cardinality(UpTo(f[j])) = j
        BY <1>5
      <3> QED BY <2>2, <3>1, <3>2
    <2> HIDE DEF UpTo, V
    <2> QED BY <2>1, <2>2
  <1> HIDE DEF Nth, UpTo
  <1>7. [k \in 1 .. Cardinality(V) |-> rows[Nth(k)].status] = [k \in 1 .. n |-> rows[f[k]].status]
    BY <1>4, <1>6
  <1> QED BY <1>7 DEF LineIn, Statuses, Nth, UpTo

\* What is counted are the rows of the identity, the one that is alive last.
Counts(rows, i, n, f) ==
  /\ \A k \in 1 .. n : /\ f[k] \in DOMAIN rows /\ rows[f[k]].identity = i
                       /\ rows[f[k]].status \in ProjectStatus
                       /\ \A j \in 1 .. n : f[j] = f[k] => j = k
  /\ \A p \in DOMAIN rows : rows[p].identity = i => \E k \in 1 .. n : f[k] = p
  /\ \A p \in DOMAIN rows :
       rows[p].identity = i /\ rows[p].status # "archived" => n # 0 /\ p = f[n]

LEMMA LineCounts ==
  ASSUME ConstantsFit, NEW rows \in RowSet, NEW i, NEW n \in Nat, NEW f, Line(rows, i, n, f)
  PROVE  Counts(rows, i, n, f)
  <1>1. /\ f \in [1 .. n -> Ids] /\ Versions(rows, i) = {f[k] : k \in 1 .. n}
        /\ \A j, k \in 1 .. n : j < k => f[j] < f[k]
        /\ \A k \in 1 .. n : k < n => rows[f[k]].status = "archived"
    BY DEF Line
  <1>2. ASSUME NEW k \in 1 .. n
        PROVE  /\ f[k] \in DOMAIN rows /\ rows[f[k]].identity = i
               /\ rows[f[k]].status \in ProjectStatus
    <2>1. f[k] \in Versions(rows, i)
      BY <1>1
    <2>2. f[k] \in DOMAIN rows /\ rows[f[k]].identity = i
      BY <2>1 DEF Versions
    <2>3. rows[f[k]] \in Project
      BY <2>2, RowSetRows
    <2> QED BY <2>2, <2>3 DEF Project
  <1>3. ASSUME NEW j \in 1 .. n, NEW k \in 1 .. n, f[j] = f[k] PROVE j = k
    <2>1. j \in Nat /\ k \in Nat /\ f[j] \in Nat /\ f[k] \in Nat
      BY <1>1, Numbers
    <2> QED BY <1>1, <1>3, <2>1
  <1>4. ASSUME NEW p \in DOMAIN rows, rows[p].identity = i PROVE \E k \in 1 .. n : f[k] = p
    <2>1. p \in Versions(rows, i)
      BY <1>4 DEF Versions
    <2> QED BY <1>1, <2>1
  <1>5. ASSUME NEW p \in DOMAIN rows, rows[p].identity = i, rows[p].status # "archived"
        PROVE  n # 0 /\ p = f[n]
    <2>1. PICK k \in 1 .. n : f[k] = p
      BY <1>4, <1>5
    <2>2. ~ (k < n)
      BY <1>1, <1>5, <2>1
    <2> QED BY <2>1, <2>2
  <1> QED BY <1>2, <1>3, <1>4, <1>5 DEF Counts

\* A line whose rows did not change.
LEMMA OtherLine ==
  ASSUME NEW old, NEW rows, NEW i, NEW n, NEW f, Line(old, i, n, f),
         Versions(rows, i) = Versions(old, i), \A p \in Versions(old, i) : rows[p] = old[p]
  PROVE  Line(rows, i, n, f) /\ Statuses(rows, n, f) = Statuses(old, n, f)
  <1>1. \A k \in 1 .. n : f[k] \in Versions(old, i)
    BY DEF Line
  <1>2. \A k \in 1 .. n : rows[f[k]] = old[f[k]]
    BY <1>1
  <1> QED BY <1>2 DEF Line, Statuses

LEMMA CreatedLine ==
  ASSUME ConstantsFit, NEW old \in RowSet, RowsFit(old), NEW rows, NEW new \in Ids,
         NEW i, Created(old, rows, new, i), NEW n \in Nat, NEW f, Line(old, i, n, f)
  PROVE  n = 0 /\ Line(rows, i, 1, [k \in 1 .. 1 |-> new])
         /\ Statuses(rows, 1, [k \in 1 .. 1 |-> new]) = <<"draft">>
  <1> DEFINE g == [k \in 1 .. 1 |-> new]
  <1>0. Counts(old, i, n, f)
    BY LineCounts
  <1>1. \A p \in DOMAIN old : old[p].identity # i
    BY DEF Created, RowsFit
  <1>2. n = 0
    <2>1. ~ (1 \in 1 .. n)
      BY <1>0, <1>1 DEF Counts
    <2> QED BY <2>1
  <1>3. rows[new].identity = i /\ rows[new].status = "draft"
    BY DEF Created, First
  <1>4. Versions(rows, i) = {new}
    BY <1>1, <1>3 DEF Versions, Created
  <1>5. g \in [1 .. 1 -> Ids] /\ {g[k] : k \in 1 .. 1} = {new}
    <2>1. 1 .. 1 = {1}
      OBVIOUS
    <2> QED BY <2>1
  <1>6. Line(rows, i, 1, g)
    BY <1>4, <1>5 DEF Line
  <1>7. Statuses(rows, 1, g) = <<"draft">>
    <2>1. Statuses(rows, 1, g) = [k \in 1 .. 1 |-> "draft"]
      BY <1>3 DEF Statuses
    <2> QED BY <2>1
  <1> QED BY <1>2, <1>6, <1>7

LEMMA MovedLine ==
  ASSUME ConstantsFit, NEW old \in RowSet, NEW rows, NEW p, NEW to \in ProjectStatus,
         Moved(old, rows, p, to), NEW n \in Nat, NEW f, NEW i, i = old[p].identity,
         Line(old, i, n, f), NEW s, s = Statuses(old, n, f)
  PROVE  /\ Line(rows, i, n, f)
         /\ s \in Seq(ProjectStatus) /\ Len(s) = n /\ n # 0 /\ s[n] = old[p].status
         /\ Statuses(rows, n, f) = Ending(s, n, to)
  <1> USE DEF Moved
  <1>0. Counts(old, i, n, f)
    BY LineCounts
  <1>1. n # 0 /\ p = f[n] /\ n \in 1 .. n
    <2>1. n # 0 /\ p = f[n]
      BY <1>0 DEF Counts
    <2> QED BY <2>1
  <1>2. \A k \in 1 .. n : /\ f[k] \in DOMAIN old /\ old[f[k]].status \in ProjectStatus
                          /\ (f[k] = f[n] => k = n)
    BY <1>0, <1>1 DEF Counts
  <1>3. old[p] \in Project
    BY RowSetRows
  <1>4. rows[p].identity = i /\ rows[p].status = to
    BY <1>3 DEF Project
  <1>5. \A k \in 1 .. n : rows[f[k]].status = IF k = n THEN to ELSE old[f[k]].status
    BY <1>1, <1>2, <1>4
  <1>6. Versions(rows, i) = Versions(old, i)
    BY <1>4 DEF Versions
  <1>7. Line(rows, i, n, f)
    BY <1>1, <1>5, <1>6 DEF Line
  <1>8. s \in Seq(ProjectStatus) /\ Len(s) = n /\ s[n] = old[p].status /\ DOMAIN s = 1 .. n
    <2>1. s \in [1 .. n -> ProjectStatus]
      BY <1>2 DEF Statuses
    <2>2. s \in Seq(ProjectStatus)
      BY <2>1
    <2> QED BY <1>1, <2>1, <2>2 DEF Statuses
  <1>9. Statuses(rows, n, f) = Ending(s, n, to)
    BY <1>5, <1>8 DEF Statuses, Ending
  <1> QED BY <1>1, <1>7, <1>8, <1>9

Longer(f, n, new) == [k \in 1 .. n + 1 |-> IF k = n + 1 THEN new ELSE f[k]]

Continues(rows, i, n, g, s) ==
  /\ Line(rows, i, n + 1, g)
  /\ s \in Seq(ProjectStatus) /\ Len(s) = n /\ n # 0 /\ s[n] = "approved"
  /\ Statuses(rows, n + 1, g) = Append(Ending(s, n, "archived"), "draft")

LEMMA RevisedLine ==
  ASSUME ConstantsFit, NEW old \in RowSet, NEW rows, NEW new \in Ids, NEW target,
         Revised(old, rows, new, target), NEW n \in Nat, NEW f, NEW i,
         i = old[target].identity, Line(old, i, n, f), NEW s, s = Statuses(old, n, f),
         NEW g, g = Longer(f, n, new)
  PROVE  Continues(rows, i, n, g, s)
  <1> DEFINE a == Ending(s, n, "archived")
  <1> USE DEF Revised
  <1>0. Counts(old, i, n, f)
    BY LineCounts
  <1>1. n # 0 /\ target = f[n] /\ n \in 1 .. n
    <2>1. n # 0 /\ target = f[n]
      BY <1>0 DEF Counts
    <2> QED BY <2>1
  <1>2. \A k \in 1 .. n : /\ f[k] \in DOMAIN old /\ old[f[k]].status \in ProjectStatus
                          /\ (f[k] = f[n] => k = n) /\ f[k] # new
    BY <1>0, <1>1 DEF Counts
  <1>3. old[target] \in Project
    BY RowSetRows
  <1>4. /\ rows[target].identity = i /\ rows[target].status = "archived"
        /\ rows[new].identity = i /\ rows[new].status = "draft"
    BY <1>3 DEF Project, Archived, Successor
  <1>5. \A k \in 1 .. n : rows[f[k]].status = IF k = n THEN "archived" ELSE old[f[k]].status
    BY <1>1, <1>2, <1>4
  <1>6. Versions(rows, i) = Versions(old, i) \union {new}
    BY <1>4 DEF Versions
  <1>7. /\ f \in [1 .. n -> Ids] /\ Versions(old, i) = {f[k] : k \in 1 .. n}
        /\ \A j, k \in 1 .. n : j < k => f[j] < f[k]
        /\ \A k \in 1 .. n : k < n => old[f[k]].status = "archived"
    BY DEF Line
  <1>8. /\ \A k \in 1 .. n : g[k] = f[k] /\ k \in 1 .. n + 1
        /\ g[n + 1] = new /\ n + 1 \in 1 .. n + 1
        /\ \A k \in 1 .. n + 1 : k = n + 1 \/ k \in 1 .. n
        /\ DOMAIN g = 1 .. n + 1
    BY DEF Longer
  <1>9. g \in [1 .. n + 1 -> Ids]
    <2>1. \A k \in 1 .. n + 1 : g[k] \in Ids
      BY <1>7, <1>8
    <2>2. g = [k \in 1 .. n + 1 |-> g[k]]
      BY DEF Longer
    <2> QED BY <2>1, <2>2
  <1>10. {g[k] : k \in 1 .. n + 1} = Versions(rows, i)
    BY <1>6, <1>7, <1>8
  <1>11. ASSUME NEW j \in 1 .. n + 1, NEW k \in 1 .. n + 1, j < k PROVE g[j] < g[k]
    <2>1. j \in 1 .. n
      BY <1>11
    <2>2. CASE k \in 1 .. n
      BY <1>7, <1>8, <1>11, <2>1, <2>2
    <2>3. CASE k = n + 1
      <3>1. f[j] < f[n] \/ j = n
        BY <1>1, <1>7, <2>1
      <3>2. f[j] \in Nat /\ f[n] \in Nat /\ new \in Nat
        BY <1>1, <1>7, <2>1, Numbers
      <3>3. f[j] < new
        BY <1>1, <3>1, <3>2
      <3> QED BY <1>8, <2>1, <2>3, <3>3
    <2> QED BY <1>8, <2>2, <2>3
  <1>12. ASSUME NEW k \in 1 .. n + 1, k < n + 1 PROVE rows[g[k]].status = "archived"
    <2>1. k \in 1 .. n /\ (k = n \/ k < n)
      BY <1>12
    <2> QED BY <1>5, <1>7, <1>8, <2>1
  <1>13. Line(rows, i, n + 1, g)
    BY <1>9, <1>10, <1>11, <1>12 DEF Line
  <1>14. s \in [1 .. n -> ProjectStatus] /\ s \in Seq(ProjectStatus) /\ Len(s) = n
         /\ s[n] = "approved"
    <2>1. s \in [1 .. n -> ProjectStatus]
      BY <1>2 DEF Statuses
    <2>2. s \in Seq(ProjectStatus)
      BY <2>1
    <2> QED BY <1>1, <2>1, <2>2 DEF Statuses
  <1>15. "archived" \in ProjectStatus /\ "draft" \in ProjectStatus
    BY DEF ProjectStatus
  <1>16. /\ a \in Seq(ProjectStatus) /\ Len(a) = n
         /\ \A k \in 1 .. n : a[k] = IF k = n THEN "archived" ELSE s[k]
    BY <1>1, <1>14, <1>15, ExceptSeq DEF Ending
  <1>17. \A k \in 1 .. n : a[k] = rows[g[k]].status
    BY <1>5, <1>8, <1>16 DEF Statuses
  <1>18. Append(a, "draft") = [k \in 1 .. n + 1 |-> IF k = n + 1 THEN "draft" ELSE a[k]]
    <2> HIDE DEF a
    <2>1. PICK u : u = Append(a, "draft")
      OBVIOUS
    <2>2. /\ u \in Seq(ProjectStatus) /\ Len(u) = n + 1 /\ u[n + 1] = "draft"
          /\ \A k \in 1 .. n : u[k] = a[k]
      BY <1>15, <1>16, <2>1, AppendProperties
    <2>3. u \in [1 .. n + 1 -> ProjectStatus]
      BY <2>2, LenProperties
    <2>4. u = [k \in 1 .. n + 1 |-> IF k = n + 1 THEN "draft" ELSE a[k]]
      BY <2>2, <2>3
    <2> QED BY <2>1, <2>4
  <1>19. Statuses(rows, n + 1, g) = Append(a, "draft")
    <2> HIDE DEF a
    <2> QED BY <1>4, <1>8, <1>17, <1>18 DEF Statuses
  <1> QED BY <1>1, <1>13, <1>14, <1>19 DEF Continues

LEMMA LinedInit == ASSUME ConstantsFit, RowsInit PROVE Lined(project) /\ Lines!Init
  <1> DEFINE f == [k \in 1 .. 0 |-> 0]
  <1>1. project = Empty /\ DOMAIN project = {}
    BY DEF RowsInit, Empty
  <1>2. ASSUME NEW i \in Identity PROVE f \in [1 .. 0 -> Ids] /\ Line(project, i, 0, f)
    BY <1>1 DEF Line, Versions
  <1>3. Lined(project)
    BY <1>2 DEF Lined
  <1>4. ASSUME NEW i \in Identity PROVE LineOf(i) = <<>>
    <2>1. LineIn(project, i) = Statuses(project, 0, f)
      BY <1>2, Counted
    <2>2. Statuses(project, 0, f) = <<>>
      BY DEF Statuses
    <2> QED BY <2>1, <2>2 DEF LineOf, LineIn
  <1> QED BY <1>3, <1>4 DEF Lines!Init

\* The steps of Lineage.
LEMMA LineSteps ==
  ASSUME NEW i \in Identity, NEW s, LineOf(i) = s
  PROVE  LET line == [j \in Identity |-> LineOf(j)] IN
         /\ s = <<>> /\ line' = With(line, i, <<"draft">>) => Lines!Next
         /\ \A a \in ReviewAction, to \in ProjectStatus :
              s # <<>> /\ MayMove(s[Len(s)], a, to)
                /\ line' = With(line, i, Ending(s, Len(s), to)) => Lines!Next
         /\ s # <<>> /\ s[Len(s)] = "approved"
              /\ line' = With(line, i, Append(Ending(s, Len(s), "archived"), "draft"))
                => Lines!Next
  <1> DEFINE line == [j \in Identity |-> LineOf(j)]
  <1> USE DEF With, Ending
  <1>1. line[i] = s
    OBVIOUS
  <1>2. ASSUME s = <<>>, line' = With(line, i, <<"draft">>) PROVE Lines!Create(i)
    BY <1>1, <1>2 DEF Lines!Create
  <1>3. ASSUME NEW a \in ReviewAction, NEW to \in ProjectStatus, s # <<>>,
               MayMove(s[Len(s)], a, to), line' = With(line, i, Ending(s, Len(s), to))
        PROVE  Lines!Transition(i)
    <2>1. /\ a \in Lines!ReviewAction /\ to \in Lines!ProjectStatus
          /\ Lines!MayMove(s[Len(s)], a, to)
      BY <1>3 DEF ReviewAction, ProjectStatus, MayMove, LifecycleRules, TransitionRules,
                  RevisionRules, Lines!ReviewAction, Lines!ProjectStatus, Lines!MayMove,
                  Lines!LifecycleRules, Lines!TransitionRules, Lines!RevisionRules
    <2>2. line' = [line EXCEPT ![i][Len(line[i])] = to]
      <3> HIDE DEF line
      <3> QED BY <1>1, <1>3
    <2> QED BY <1>1, <1>3, <2>1, <2>2 DEF Lines!Transition
  <1>4. ASSUME s # <<>>, s[Len(s)] = "approved",
               line' = With(line, i, Append(Ending(s, Len(s), "archived"), "draft"))
        PROVE  Lines!Revise(i)
    <2>1. line' = [line EXCEPT ![i] =
                     Append([line[i] EXCEPT ![Len(line[i])] = "archived"], "draft")]
      <3> HIDE DEF line
      <3> QED BY <1>1, <1>4
    <2> QED BY <1>1, <1>4, <2>1 DEF Lines!Revise
  <1> QED BY <1>2, <1>3, <1>4 DEF Lines!Next

\* A step that changes one line, and how it looks in Lineage.
OnlyLine(old, rows, i) ==
  \A j \in Identity \ {i} : /\ Versions(rows, j) = Versions(old, j)
                            /\ \A p \in Versions(old, j) : rows[p] = old[p]

LEMMA OneLine ==
  ASSUME ConstantsFit, NEW i \in Identity, NEW n \in Nat, NEW f, Line(project, i, n, f),
         NEW m \in Nat, NEW g, Line(project', i, m, g), Lined(project),
         OnlyLine(project, project', i)
  PROVE  LET line == [j \in Identity |-> LineOf(j)] IN
         /\ Lined(project') /\ LineOf(i) = Statuses(project, n, f)
         /\ line' = With(line, i, Statuses(project', m, g))
  <1>1. ASSUME NEW j \in Identity \ {i}
        PROVE  LineOf(j)' = LineOf(j)
               /\ \E k \in Nat : \E h \in [1 .. k -> Ids] : Line(project', j, k, h)
    <2>1. PICK k \in Nat : \E h \in [1 .. k -> Ids] : Line(project, j, k, h)
      BY DEF Lined
    <2>2. PICK h \in [1 .. k -> Ids] : Line(project, j, k, h)
      BY <2>1
    <2>3. Line(project', j, k, h) /\ Statuses(project', k, h) = Statuses(project, k, h)
      BY <2>2, OtherLine DEF OnlyLine
    <2>4. /\ LineIn(project, j) = Statuses(project, k, h)
          /\ LineIn(project', j) = Statuses(project', k, h)
      BY <2>2, <2>3, Counted
    <2>5. LineOf(j) = LineIn(project, j) /\ LineOf(j)' = LineIn(project', j)
      BY DEF LineOf, LineIn
    <2> QED BY <2>3, <2>4, <2>5
  <1>2. LineOf(i) = Statuses(project, n, f) /\ LineOf(i)' = Statuses(project', m, g)
    <2>1. /\ LineIn(project, i) = Statuses(project, n, f)
          /\ LineIn(project', i) = Statuses(project', m, g)
      BY Counted
    <2>2. LineOf(i) = LineIn(project, i) /\ LineOf(i)' = LineIn(project', i)
      BY DEF LineOf, LineIn
    <2> QED BY <2>1, <2>2
  <1>3. Lined(project')
    <2>1. g \in [1 .. m -> Ids]
      BY DEF Line
    <2> QED BY <1>1, <2>1 DEF Lined
  <1>4. \A j \in Identity : LineOf(j)' = IF j = i THEN Statuses(project', m, g) ELSE LineOf(j)
    BY <1>1, <1>2
  <1> QED BY <1>2, <1>3, <1>4 DEF With

LEMMA LinedStep ==
  ASSUME ConstantsFit, IInv, Lined(project), [RowsNext]_rowVars
  PROVE  Lined(project') /\ [Lines!Next]_([i \in Identity |-> LineOf(i)])
  <1> DEFINE line == [i \in Identity |-> LineOf(i)]
  <1>1. CASE project' = project
    BY <1>1 DEF LineOf
  <1>2. project \in RowSet /\ RowsFit(project) /\ DOMAIN project \subseteq Ids
    BY RowSetRows DEF IInv, Types
  <1>3. ASSUME NEW i \in Identity
        PROVE  \E n \in Nat : \E f \in [1 .. n -> Ids] : Line(project, i, n, f)
    BY DEF Lined
  <1>4. ASSUME NEW new \in Ids, NEW i \in Identity, Created(project, project', new, i)
        PROVE  Lined(project') /\ [Lines!Next]_line
    <2>1. PICK n \in Nat : \E f \in [1 .. n -> Ids] : Line(project, i, n, f)
      BY <1>3
    <2>2. PICK f \in [1 .. n -> Ids] : Line(project, i, n, f)
      BY <2>1
    <2> DEFINE g == [k \in 1 .. 1 |-> new]
    <2>3. n = 0 /\ Line(project', i, 1, g) /\ Statuses(project', 1, g) = <<"draft">>
      BY <1>2, <1>4, <2>2, CreatedLine
    <2>4. project'[new].identity = i
      BY <1>4 DEF Created, First
    <2>5. OnlyLine(project, project', i)
      BY <1>4, <2>4 DEF Created, Versions, OnlyLine
    <2> HIDE DEF g
    <2>6. /\ Lined(project') /\ LineOf(i) = Statuses(project, n, f)
          /\ line' = With(line, i, Statuses(project', 1, g))
      <3>1. /\ Line(project, i, n, f) /\ n \in Nat /\ Line(project', i, 1, g) /\ 1 \in Nat
            /\ Lined(project) /\ OnlyLine(project, project', i)
        BY <2>2, <2>3, <2>5
      <3> QED BY ONLY <3>1, <1>4, ConstantsFit, OneLine
    <2>7. Statuses(project, n, f) = <<>>
      BY <2>3 DEF Statuses
    <2>8. Lines!Next
      BY <2>3, <2>6, <2>7, LineSteps
    <2> QED BY <2>6, <2>8
  <1>5. ASSUME NEW p \in DOMAIN project, Transition(p)
        PROVE  Lined(project') /\ [Lines!Next]_line
    <2>1. PICK a \in ReviewAction, to \in ProjectStatus :
            MayMove(project[p].status, a, to) /\ project' = [project EXCEPT ![p].status = to]
      BY <1>5 DEF Transition
    <2>2. project[p].status # "archived"
      BY <2>1 DEF MayMove, LifecycleRules, TransitionRules, RevisionRules
    <2>3. Moved(project, project', p, to)
      BY <2>1, <2>2 DEF Moved
    <2>4. project[p] \in Project
      BY <1>2, RowSetRows
    <2>5. PICK i \in Identity : i = project[p].identity
      BY <2>4 DEF Project
    <2>6. PICK n \in Nat : \E f \in [1 .. n -> Ids] : Line(project, i, n, f)
      BY <1>3
    <2>7. PICK f \in [1 .. n -> Ids] : Line(project, i, n, f)
      BY <2>6
    <2>0. PICK s : s = Statuses(project, n, f)
      OBVIOUS
    <2>8. /\ Line(project', i, n, f)
          /\ s \in Seq(ProjectStatus) /\ Len(s) = n /\ n # 0 /\ s[n] = project[p].status
          /\ Statuses(project', n, f) = Ending(s, n, to)
      BY <1>2, <2>0, <2>3, <2>5, <2>6, <2>7, MovedLine
    <2>9. project'[p].identity = i
      BY <2>3, <2>4, <2>5 DEF Moved, Project
    <2>10. OnlyLine(project, project', i)
      BY <2>3, <2>5, <2>9 DEF Moved, Versions, OnlyLine
    <2>11. /\ Lined(project') /\ LineOf(i) = s
           /\ line' = With(line, i, Statuses(project', n, f))
      <3>1. /\ i \in Identity /\ n \in Nat /\ Line(project, i, n, f) /\ Line(project', i, n, f)
            /\ Lined(project) /\ OnlyLine(project, project', i)
        BY <2>5, <2>6, <2>7, <2>8, <2>10
      <3>2. /\ Lined(project') /\ LineOf(i) = Statuses(project, n, f)
            /\ line' = With(line, i, Statuses(project', n, f))
        BY ONLY <3>1, ConstantsFit, OneLine
      <3> QED BY ONLY <3>2, <2>0
    <2>12. /\ s # <<>> /\ MayMove(s[Len(s)], a, to)
           /\ line' = With(line, i, Ending(s, Len(s), to))
      <3> HIDE DEF line
      <3> QED BY <2>1, <2>8, <2>11
    <2>13. Lines!Next
      BY <2>11, <2>12, LineSteps
    <2> QED BY <2>11, <2>13
  <1>6. ASSUME NEW new \in Ids, NEW target \in DOMAIN project,
               Revised(project, project', new, target)
        PROVE  Lined(project') /\ [Lines!Next]_line
    <2>1. project[target] \in Project
      BY <1>2, RowSetRows
    <2>2. PICK i \in Identity : i = project[target].identity
      BY <2>1 DEF Project
    <2>3. PICK n \in Nat : \E f \in [1 .. n -> Ids] : Line(project, i, n, f)
      BY <1>3
    <2>4. PICK f \in [1 .. n -> Ids] : Line(project, i, n, f)
      BY <2>3
    <2>0. PICK s, g : s = Statuses(project, n, f) /\ g = Longer(f, n, new)
      OBVIOUS
    <2>5. /\ Line(project', i, n + 1, g)
          /\ s \in Seq(ProjectStatus) /\ Len(s) = n /\ n # 0 /\ s[n] = "approved"
          /\ Statuses(project', n + 1, g) = Append(Ending(s, n, "archived"), "draft")
      <3>1. /\ project \in RowSet /\ new \in Ids /\ n \in Nat /\ i = project[target].identity
            /\ Revised(project, project', new, target) /\ Line(project, i, n, f)
            /\ s = Statuses(project, n, f) /\ g = Longer(f, n, new)
        BY <1>2, <1>6, <2>0, <2>2, <2>3, <2>4
      <3>2. Continues(project', i, n, g, s)
        BY ONLY <3>1, ConstantsFit, RevisedLine
      <3> QED BY <3>2 DEF Continues
    <2>6. project'[new].identity = i /\ project'[target].identity = i
      BY <1>6, <2>1, <2>2 DEF Revised, Successor, Archived, Project
    <2>7. OnlyLine(project, project', i)
      BY <1>6, <2>2, <2>6 DEF Revised, Versions, OnlyLine
    <2>8. n + 1 \in Nat
      OBVIOUS
    <2>9. /\ Lined(project') /\ LineOf(i) = s
          /\ line' = With(line, i, Statuses(project', n + 1, g))
      <3>1. /\ i \in Identity /\ n \in Nat /\ Line(project, i, n, f)
            /\ Line(project', i, n + 1, g) /\ Lined(project) /\ OnlyLine(project, project', i)
        BY <2>2, <2>3, <2>4, <2>5, <2>7
      <3>2. /\ Lined(project') /\ LineOf(i) = Statuses(project, n, f)
            /\ line' = With(line, i, Statuses(project', n + 1, g))
        BY ONLY <3>1, <2>8, ConstantsFit, OneLine
      <3> QED BY ONLY <3>2, <2>0
    <2>10. s # <<>>
      BY <2>5
    <2>11. Lines!Next
      BY <2>5, <2>9, <2>10, LineSteps
    <2> QED BY <2>9, <2>11
  <1>7. ASSUME NEW s \in Slot, Begin(s) \/ LockRow(s) \/ SerializationFailure(s) \/ Locked(s)
                               \/ Capture(s) \/ Insert(s) \/ ArchiveAndCopy(s) \/ Edit(s)
                               \/ RollbackTxn(s)
        PROVE  project' = project
    BY <1>7 DEF Begin, BeginCreate, BeginRevise, BeginProfile, BeginReplacement, LockRow,
                SerializationFailure, Locked, Capture, Insert, ArchiveAndCopy, Edit, RollbackTxn
  <1>8. ASSUME NEW s \in Slot, CommitTxn(s) PROVE Lined(project') /\ [Lines!Next]_line
    <2>1. PICK rows : rows = project'
      OBVIOUS
    <2> QED BY <1>1, <1>4, <1>6, <1>8, CommitRows
  <1>9. ASSUME project' = project PROVE Lined(project') /\ [Lines!Next]_line
    BY <1>1, <1>9
  <1>10. ASSUME NEW s \in Slot, Begin(s) \/ Step(s) PROVE Lined(project') /\ [Lines!Next]_line
    BY <1>7, <1>8, <1>9, <1>10 DEF Step
  <1>11. Lined(project')
    BY <1>5, <1>9, <1>10 DEF RowsNext, rowVars
  <1>12. [Lines!Next]_line
    BY <1>5, <1>9, <1>10 DEF RowsNext, rowVars
  <1> QED BY <1>11, <1>12

-----------------------------------------------------------------------------
(* Theorems *)

(* The rows, the locks and the open transactions fit together in every state.  *)
THEOREM Invariance == ASSUME ConstantsFit PROVE RowsSpec => []IInv
  <1>1. RowsInit => IInv
    BY InitIInv
  <1>2. IInv /\ [RowsNext]_rowVars => IInv'
    BY StepIInv
  <1> QED BY <1>1, <1>2, PTL DEF RowsSpec

(* The rows, the row locks and the transactions keep their types.              *)
THEOREM TypeCorrect == ASSUME ConstantsFit PROVE RowsSpec => []RowsTypeOK
  <1>1. IInv => RowsTypeOK
    BY TypesHold DEF IInv
  <1> QED BY <1>1, Invariance, PTL

(* However creations, revisions, layer replacements and profile patches race,  *)
(* the versions of an identity form one chain: the row locks and the           *)
(* REPEATABLE READ of create_revision, and the unique index, are enough.       *)
THEOREM LinesAreChains == ASSUME ConstantsFit PROVE RowsSpec => []LineageIsAChain
  <1>1. IInv => LineageIsAChain
    BY DEF IInv
  <1> QED BY <1>1, Invariance, PTL

(* Requests never wait for one another in a circle: rows are locked in         *)
(* ascending order, the choice sets after every project, and who waits for an  *)
(* index entry waits for a request that needs no more locks.                   *)
THEOREM NoDeadlock == ASSUME ConstantsFit PROVE RowsSpec => []NoWaitCycle
  <1>1. IInv => NoWaitCycle
    BY NoCycle
  <1> QED BY <1>1, Invariance, PTL

(* The project table, with all its transactions, implements lines of versions: *)
(* every creation, revision and review move is one step of Lineage, all else   *)
(* changes no line.                                                            *)
THEOREM FormsLines == ASSUME ConstantsFit PROVE RowsSpec => ImplementsLineage
  <1>1. RowsInit => Lined(project) /\ Lines!Init
    BY LinedInit
  <1>2. IInv /\ Lined(project) /\ [RowsNext]_rowVars
          => Lined(project)' /\ [Lines!Next]_([i \in Identity |-> LineOf(i)])
    BY LinedStep
  <1> QED BY <1>1, <1>2, Invariance, PTL DEF RowsSpec, ImplementsLineage, Lines!Spec

(* The lines, their chains and the absence of deadlocks together.              *)
THEOREM RowsFormTheirLines == ASSUME ConstantsFit PROVE RowsSpec => RowsFormLines
  BY FormsLines, TypeCorrect, LinesAreChains, NoDeadlock, PTL DEF RowsFormLines
=============================================================================
