----------------------------- MODULE SheetProofs -----------------------------
(***************************************************************************)
(* What TLAPS proves of Sheet for any layers, parameters, values and       *)
(* bounds: the rows obey the unique indexes and have labels of their own,  *)
(* the events tell them, no layer loses its last row or, but by a          *)
(* replacement, its POR, and a patch leaves options that are offered.  And *)
(* of ChoiceAdmin for any codes and bounds: what the browser caches as the *)
(* options of a version is what the set had then, and an import does what  *)
(* its preview announced.                                                  *)
(***************************************************************************)
EXTENDS Sheet, ChoiceAdmin, FiniteSetTheorems, WellFoundedInduction, TLAPS

\* The fields of a row and of an operation.
RowOf(layer, label, index, por, cells) ==
  [layer |-> layer, label |-> label, index |-> index, por |-> por, cells |-> cells]

IsRow(row) == row = RowOf(row.layer, row.label, row.index, row.por, row.cells)

Operation(stage, op, rows, events, locks, target, capture) ==
  [stage |-> stage, op |-> op, rows |-> rows, events |-> events, locks |-> locks,
   target |-> target, capture |-> capture]

IsOperation(t) ==
  t = Operation(t.stage, t.op, t.rows, t.events, t.locks, t.target, t.capture)

\* An event of one row, of one change or of one replacement.
IsEvent(e) == e \in Event \union {NoEvent} \/ IsReplacement(e)

OperationTyped(t) ==
  /\ DOMAIN t = {"stage", "op", "rows", "events", "locks", "target", "capture"}
  /\ t.stage \in Stage /\ t.op \in {"none", "add", "delete", "por", "patch", "replace"}
  /\ IsSheet(t.rows) /\ IsSheet(t.capture)
  /\ \A k \in DOMAIN t.events : IsEvent(t.events[k])
  /\ t.locks \in BOOLEAN /\ t.target \in Id \union Layer \union {None}

\* Rows with ids and indexes up to n.
Ranked(rows, n) == \A i \in DOMAIN rows : i <= n /\ rows[i].index <= n

NoneEmpty(rows) == \A l \in Layer : InLayer(rows, l) # {}

LabelsDiffer(rows) ==
  \A i, j \in DOMAIN rows :
    i # j /\ rows[i].layer = rows[j].layer => rows[i].label # rows[j].label

Lawful(rows, n) ==
  IsSheet(rows) /\ Ranked(rows, n) /\ Constraints(rows) /\ LabelsDiffer(rows) /\ NoneEmpty(rows)

\* The layers whose POR the change from one sheet to another loses.
LosesPor(before, after) ==
  {l \in Layer : PorOf(before, l) # {} /\ PorOf(after, l) = {}}

\* The cells of CHOICE parameters that change from one sheet to another show one
\* of the options, or nothing.
ChosenFrom(before, after, options) ==
  \A i \in DOMAIN before \intersect DOMAIN after : \A p \in Choice :
    after[i].cells[p] \in options \union {None, before[i].cells[p]}

\* What a reader knows of rows that were told well.
Known(rows) == [rows |-> rows, agree |-> TRUE]

\* What is to be committed is lawful and told by the events, takes the POR only
\* from the layer it replaces, and has options in it only under the lock.
Acceptable(t) ==
  /\ Lawful(t.rows, drawn)
  /\ Retold(Known(sheet), t.events) = Known(t.rows)
  /\ \A l \in LosesPor(sheet, t.rows) : t.op = "replace" /\ t.target = l
  /\ ChosenFrom(sheet, t.rows, IF t.locks THEN offered ELSE {})

\* Between its flushes a move of the POR has only cleared that of the row's layer.
PorCleared(t) ==
  t.target \in DOMAIN sheet /\ t.rows = ClearPor(sheet, sheet[t.target].layer)

\* Between its flushes a replacement has only emptied its layer, and has captured
\* another.
Captured(source) == Without(sheet, DOMAIN sheet \ InLayer(sheet, source))

LayerCleared(t) ==
  /\ t.target \in Layer /\ t.rows = ClearLayer(t.target)
  /\ \E source \in Layer : t.capture = Captured(source)

OperationInv(t) ==
  /\ OperationTyped(t) /\ IsOperation(t) /\ Constraints(t.rows)
  /\ t.stage = "written" => Acceptable(t)
  /\ t.stage = "half" => (t.op = "por" => PorCleared(t)) /\ (t.op = "replace" => LayerCleared(t))

IInv ==
  /\ drawn \in 0 .. MaxId /\ offered \subseteq Value
  /\ Lawful(sheet, drawn) /\ told = Known(sheet)
  /\ OperationInv(txn)

-----------------------------------------------------------------------------
(* Numbers *)

\* The least element of a set of naturals.
LEMMA LeastOf ==
  ASSUME NEW S, S \subseteq Nat, S # {}
  PROVE  \E m \in S : \A n \in S : m <= n
<1> DEFINE R == OpToRel(<, Nat)
<1>1. IsWellFoundedOn(R, Nat)
  BY NatLessThanWellFounded
<1>2. \A x, y \in Nat : x < y => <<x, y>> \in R
  BY DEF OpToRel
<1> HIDE DEF R
<1>3. PICK m \in S : \A n \in S : ~ (<<n, m>> \in R)
  BY <1>1, WFMin
<1>4. ASSUME NEW n \in S PROVE m <= n
  <2>1. m \in Nat /\ n \in Nat /\ ~ (n < m)
    BY <1>2, <1>3
  <2> QED
    BY <2>1
<1> QED
  BY <1>4

\* The greatest element of a bounded set of naturals.
LEMMA MaxOf ==
  ASSUME NEW n \in Nat, NEW S, S \subseteq 0 .. n, S # {}
  PROVE  Max(S) \in S /\ \A x \in S : x <= Max(S)
<1> DEFINE U == {b \in Nat : \A x \in S : x <= b}
<1>1. n \in U /\ U \subseteq Nat
  OBVIOUS
<1>2. PICK m \in U : \A b \in U : m <= b
  BY <1>1, LeastOf
<1>3. m \in S
  <2>1. SUFFICES ASSUME m \notin S PROVE FALSE
    OBVIOUS
  <2>2. PICK x \in S : TRUE
    OBVIOUS
  <2>3. \A y \in S : y \in Nat /\ y <= m /\ y # m
    BY <1>2, <2>1
  <2>4. m \in Nat /\ m > 0
    BY <1>2, <2>2, <2>3
  <2>5. m - 1 \in U
    BY <2>3, <2>4
  <2> QED
    BY <1>2, <2>4, <2>5
<1>4. \A y \in S : m >= y
  BY <1>2
<1> QED
  BY <1>3, <1>4 DEF Max

\* What holds of 0 and of each successor of a number it holds of, holds up to n:
\* there is no least exception.
LEMMA UpTo ==
  ASSUME NEW n \in Nat, NEW S, 0 \in S, \A k \in 1 .. n : k - 1 \in S => k \in S
  PROVE  0 .. n \subseteq S
<1> DEFINE rest == {k \in 0 .. n : k \notin S}
<1>1. SUFFICES ASSUME rest # {} PROVE FALSE
  OBVIOUS
<1>2. PICK m \in rest : \A k \in rest : m <= k
  <2>1. rest \subseteq Nat
    OBVIOUS
  <2> HIDE DEF rest
  <2> QED
    BY <1>1, <2>1, LeastOf
<1>3. m \in 1 .. n /\ m - 1 \in 0 .. n /\ m - 1 < m /\ m \notin S
  BY <1>2
<1>4. m - 1 \in S
  BY <1>2, <1>3
<1> QED
  BY <1>3, <1>4

-----------------------------------------------------------------------------
(* New labels and indexes *)

LEMMA FiniteRows ==
  ASSUME NEW rows, IsSheet(rows)
  PROVE  /\ IsFiniteSet(DOMAIN rows)
         /\ \A l : IsFiniteSet(InLayer(rows, l)) /\ Cardinality(InLayer(rows, l)) \in Nat
<1>1. IsFiniteSet(Id)
  BY FS_Interval, ConstantsAssumption DEF Id
<1>2. IsFiniteSet(DOMAIN rows)
  BY <1>1, FS_Subset DEF IsSheet
<1>3. ASSUME NEW l PROVE IsFiniteSet(InLayer(rows, l))
  BY <1>2, FS_Subset DEF InLayer
<1> QED
  BY <1>2, <1>3, FS_CardinalityType

LEMMA NewLabel ==
  ASSUME NEW rows, IsSheet(rows), NEW l
  PROVE  /\ NextLabel(rows, l) \in Nat
         /\ \A i \in InLayer(rows, l) : rows[i].label # NextLabel(rows, l)
<1> DEFINE used == {rows[i].label : i \in InLayer(rows, l)}
           c == Cardinality(used)
           labels == [i \in InLayer(rows, l) |-> rows[i].label]
<1>1. labels \in Surjection(InLayer(rows, l), used)
  BY DEF Surjection
<1>2. IsFiniteSet(used) /\ c \in Nat
  <2> HIDE DEF labels
  <2>1. IsFiniteSet(used)
    BY <1>1, FiniteRows, FS_Surjection
  <2> QED
    BY <2>1, FS_CardinalityType
<1>3. (1 .. c + 1) \ used # {}
  <2>1. SUFFICES ASSUME 1 .. c + 1 \subseteq used PROVE FALSE
    OBVIOUS
  <2> HIDE DEF used, labels
  <2>2. Cardinality(1 .. c + 1) <= c
    BY <1>2, <2>1, FS_Subset DEF c
  <2>3. Cardinality(1 .. c + 1) = c + 1
    BY <1>2, FS_Interval
  <2> QED
    BY <1>2, <2>2, <2>3
<1> HIDE DEF labels, c
<1>4. PICK n \in (1 .. c + 1) \ used : \A m \in (1 .. c + 1) \ used : n <= m
  <2> DEFINE free == (1 .. c + 1) \ used
  <2>1. free \subseteq Nat /\ free # {}
    BY <1>3
  <2> HIDE DEF free
  <2>2. \E m \in free : \A k \in free : m <= k
    BY <2>1, LeastOf
  <2> QED
    BY <2>2 DEF free
<1>5. n \in 1 .. c + 1 /\ n \notin used /\ 1 .. n - 1 \subseteq used
  <2> HIDE DEF used
  <2> QED BY <1>2, <1>4
<1>6. NextLabel(rows, l) = CHOOSE k \in 1 .. c + 1 : k \notin used /\ 1 .. k - 1 \subseteq used
  BY DEF NextLabel, c
<1>7. NextLabel(rows, l) \in 1 .. c + 1 /\ NextLabel(rows, l) \notin used
  <2> HIDE DEF used
  <2> QED BY <1>5, <1>6
<1>8. NextLabel(rows, l) \in Nat
  <2> HIDE DEF used
  <2> QED BY <1>2, <1>7
<1> QED
  BY <1>7, <1>8

LEMMA NewIndex ==
  ASSUME NEW n \in Nat, NEW rows, IsSheet(rows), Ranked(rows, n), NEW l
  PROVE  /\ NextIndex(rows, l) \in Nat \ {0} /\ NextIndex(rows, l) <= n + 1
         /\ \A i \in InLayer(rows, l) : rows[i].index # NextIndex(rows, l)
<1> DEFINE used == {rows[i].index : i \in InLayer(rows, l)}
<1>1. used \subseteq 0 .. n
  BY DEF IsSheet, Ranked, InLayer, Condition
<1>2. CASE InLayer(rows, l) = {}
  BY <1>2 DEF NextIndex
<1>3. CASE InLayer(rows, l) # {}
  <2>1. used # {} /\ \A i \in InLayer(rows, l) : rows[i].index \in used
    BY <1>3
  <2>2. NextIndex(rows, l) = 1 + Max(used)
    BY <1>3 DEF NextIndex
  <2> HIDE DEF used
  <2>3. Max(used) \in 0 .. n /\ \A x \in used : x \in 0 .. n /\ x <= Max(used)
    BY <1>1, <2>1, MaxOf
  <2> QED
    BY <2>1, <2>2, <2>3
<1> QED
  BY <1>2, <1>3

-----------------------------------------------------------------------------
(* The operators on rows *)

LEMMA RowFields ==
  ASSUME NEW row
  PROVE  row \in Condition <=>
           /\ IsRow(row) /\ row.layer \in Layer /\ row.label \in Nat
           /\ row.index \in Nat \ {0} /\ row.por \in BOOLEAN
           /\ row.cells \in [Parameter -> Value \union {None}]
BY DEF Condition, IsRow, RowOf

\* A row with its POR flag or its cells changed.
LEMMA ChangedRow ==
  ASSUME NEW row \in Condition
  PROVE  /\ \A x : [row EXCEPT !.por = x]
                     = RowOf(row.layer, row.label, row.index, x, row.cells)
         /\ \A c : [row EXCEPT !.cells = c]
                     = RowOf(row.layer, row.label, row.index, row.por, c)
<1>1. row = RowOf(row.layer, row.label, row.index, row.por, row.cells)
  BY RowFields DEF IsRow
<1> QED
  BY <1>1 DEF RowOf

LEMMA MadeRow ==
  ASSUME NEW a, NEW b, NEW c, NEW x, NEW y
  PROVE  /\ RowOf(a, b, c, x, y).layer = a /\ RowOf(a, b, c, x, y).label = b
         /\ RowOf(a, b, c, x, y).index = c /\ RowOf(a, b, c, x, y).por = x
         /\ RowOf(a, b, c, x, y).cells = y
         /\ IsRow(RowOf(a, b, c, x, y))
BY DEF RowOf, IsRow

\* The same rows with other PORs or cells.
SameRows(before, after) ==
  /\ DOMAIN after = DOMAIN before
  /\ \A i \in DOMAIN before : /\ after[i].layer = before[i].layer
                              /\ after[i].label = before[i].label
                              /\ after[i].index = before[i].index

SameCells(before, after) == \A i \in DOMAIN before : after[i].cells = before[i].cells

OnePor(rows) ==
  \A i, j \in DOMAIN rows :
    i # j /\ rows[i].layer = rows[j].layer => ~(rows[i].por /\ rows[j].por)

LEMMA SameRowsAreLawful ==
  ASSUME NEW before, NEW after, NEW n, Lawful(before, n), IsSheet(after),
         SameRows(before, after), OnePor(after)
  PROVE  Lawful(after, n)
BY DEF Lawful, SameRows, OnePor, Ranked, Constraints, LabelsDiffer, NoneEmpty, InLayer

\* Clearing the POR of one layer.
LEMMA ClearPorRows ==
  ASSUME NEW rows, IsSheet(rows), NEW l
  PROVE  /\ IsSheet(ClearPor(rows, l)) /\ SameRows(rows, ClearPor(rows, l))
         /\ SameCells(rows, ClearPor(rows, l))
         /\ \A i \in DOMAIN rows :
              /\ rows[i].layer = l => ClearPor(rows, l)[i].por = FALSE
              /\ rows[i].layer # l => ClearPor(rows, l)[i] = rows[i]
<1> DEFINE cleared == ClearPor(rows, l)
<1>1. DOMAIN cleared = DOMAIN rows /\ cleared = [i \in DOMAIN rows |-> cleared[i]]
  BY DEF ClearPor
<1>2. ASSUME NEW i \in DOMAIN rows
      PROVE  /\ cleared[i] \in Condition
             /\ cleared[i].layer = rows[i].layer /\ cleared[i].label = rows[i].label
             /\ cleared[i].index = rows[i].index /\ cleared[i].cells = rows[i].cells
             /\ rows[i].layer = l => cleared[i].por = FALSE
             /\ rows[i].layer # l => cleared[i] = rows[i]
  <2>1. rows[i] \in Condition
    BY DEF IsSheet
  <2>2. CASE i \in PorOf(rows, l)
    <3>1. cleared[i] = [rows[i] EXCEPT !.por = FALSE]
      BY <2>2 DEF ClearPor
    <3> DEFINE made == RowOf(rows[i].layer, rows[i].label, rows[i].index, FALSE, rows[i].cells)
    <3>2. cleared[i] = made
      BY <2>1, <3>1, ChangedRow
    <3>3. /\ made.layer = rows[i].layer /\ made.label = rows[i].label
          /\ made.index = rows[i].index /\ made.cells = rows[i].cells
          /\ made.por = FALSE /\ IsRow(made)
      BY DEF RowOf, IsRow
    <3> HIDE DEF cleared, made
    <3>4. rows[i].layer = l
      BY <2>2 DEF PorOf, InLayer
    <3> QED
      BY <2>1, <3>2, <3>3, <3>4, RowFields
  <2>3. CASE i \notin PorOf(rows, l)
    <3>1. cleared[i] = rows[i]
      BY <2>3 DEF ClearPor
    <3>2. rows[i].layer = l => rows[i].por = FALSE
      BY <2>1, <2>3, RowFields DEF PorOf, InLayer
    <3> QED
      BY <2>1, <3>1, <3>2
  <2> QED
    BY <2>2, <2>3
<1> HIDE DEF cleared
<1>3. IsSheet(cleared) /\ SameRows(rows, cleared) /\ SameCells(rows, cleared)
  BY <1>1, <1>2 DEF IsSheet, SameRows, SameCells
<1> QED
  BY <1>2, <1>3 DEF cleared

\* Setting or clearing the flag of one row.
LEMMA SetPorRows ==
  ASSUME NEW rows, IsSheet(rows), NEW i \in DOMAIN rows, NEW x \in BOOLEAN
  PROVE  /\ IsSheet(SetPor(rows, i, x)) /\ SameRows(rows, SetPor(rows, i, x))
         /\ SameCells(rows, SetPor(rows, i, x))
         /\ SetPor(rows, i, x)[i].por = x
         /\ \A j \in DOMAIN rows \ {i} : SetPor(rows, i, x)[j] = rows[j]
<1> DEFINE changed == SetPor(rows, i, x)
<1>1. /\ DOMAIN changed = DOMAIN rows /\ changed = [j \in DOMAIN rows |-> changed[j]]
      /\ changed[i] = [rows[i] EXCEPT !.por = x]
      /\ \A j \in DOMAIN rows \ {i} : changed[j] = rows[j]
  BY DEF SetPor
<1>2. rows[i] \in Condition
  BY DEF IsSheet
<1>3. changed[i] = RowOf(rows[i].layer, rows[i].label, rows[i].index, x, rows[i].cells)
  BY <1>1, <1>2, ChangedRow
<1> HIDE DEF changed
<1>4. /\ changed[i].layer = rows[i].layer /\ changed[i].label = rows[i].label
      /\ changed[i].index = rows[i].index /\ changed[i].cells = rows[i].cells
      /\ changed[i].por = x /\ IsRow(changed[i])
  BY <1>3, MadeRow
<1>5. changed[i] \in Condition
  BY <1>2, <1>4, RowFields
<1>6. IsSheet(changed) /\ SameRows(rows, changed) /\ SameCells(rows, changed)
  BY <1>1, <1>4, <1>5 DEF IsSheet, SameRows, SameCells
<1> QED
  BY <1>1, <1>4, <1>6 DEF changed

LEMMA PorSet ==
  ASSUME NEW rows, IsSheet(rows), NEW i \in DOMAIN rows
  PROVE  /\ IsSheet(SetPor(rows, i, TRUE)) /\ SameRows(rows, SetPor(rows, i, TRUE))
         /\ SameCells(rows, SetPor(rows, i, TRUE))
         /\ SetPor(rows, i, TRUE)[i].por = TRUE
         /\ \A j \in DOMAIN rows \ {i} : SetPor(rows, i, TRUE)[j] = rows[j]
<1> DEFINE yes == TRUE
<1>1. yes \in BOOLEAN
  OBVIOUS
<1> HIDE DEF yes
<1>2. /\ IsSheet(SetPor(rows, i, yes)) /\ SameRows(rows, SetPor(rows, i, yes))
      /\ SameCells(rows, SetPor(rows, i, yes))
      /\ SetPor(rows, i, yes)[i].por = yes
      /\ \A j \in DOMAIN rows \ {i} : SetPor(rows, i, yes)[j] = rows[j]
  BY <1>1, SetPorRows
<1> QED
  BY <1>2 DEF yes

LEMMA PorUnset ==
  ASSUME NEW rows, IsSheet(rows), NEW i \in DOMAIN rows
  PROVE  /\ IsSheet(SetPor(rows, i, FALSE)) /\ SameRows(rows, SetPor(rows, i, FALSE))
         /\ SameCells(rows, SetPor(rows, i, FALSE))
         /\ SetPor(rows, i, FALSE)[i].por = FALSE
         /\ \A j \in DOMAIN rows \ {i} : SetPor(rows, i, FALSE)[j] = rows[j]
<1> DEFINE no == FALSE
<1>1. no \in BOOLEAN
  OBVIOUS
<1> HIDE DEF no
<1>2. /\ IsSheet(SetPor(rows, i, no)) /\ SameRows(rows, SetPor(rows, i, no))
      /\ SameCells(rows, SetPor(rows, i, no))
      /\ SetPor(rows, i, no)[i].por = no
      /\ \A j \in DOMAIN rows \ {i} : SetPor(rows, i, no)[j] = rows[j]
  BY <1>1, SetPorRows
<1> QED
  BY <1>2 DEF no

\* Two sheets with the same rows, PORs and cells are one.
LEMMA SheetsAreEqual ==
  ASSUME NEW a, NEW b, IsSheet(a), IsSheet(b), SameRows(a, b), SameCells(a, b),
         \A i \in DOMAIN a : b[i].por = a[i].por
  PROVE  a = b
<1>1. ASSUME NEW i \in DOMAIN a PROVE a[i] = b[i]
  <2>1. IsRow(a[i]) /\ IsRow(b[i])
    BY RowFields DEF IsSheet, SameRows
  <2>2. /\ b[i].layer = a[i].layer /\ b[i].label = a[i].label /\ b[i].index = a[i].index
        /\ b[i].por = a[i].por /\ b[i].cells = a[i].cells
    BY DEF SameRows, SameCells
  <2>3. /\ a[i] = RowOf(a[i].layer, a[i].label, a[i].index, a[i].por, a[i].cells)
        /\ b[i] = RowOf(b[i].layer, b[i].label, b[i].index, b[i].por, b[i].cells)
    BY <2>1 DEF IsRow
  <2>4. RowOf(a[i].layer, a[i].label, a[i].index, a[i].por, a[i].cells)
          = RowOf(b[i].layer, b[i].label, b[i].index, b[i].por, b[i].cells)
    BY <2>2
  <2> QED
    BY <2>3, <2>4, Zenon
<1>2. DOMAIN a = DOMAIN b
  BY DEF SameRows
<1>3. a \in [DOMAIN a -> Condition] /\ b \in [DOMAIN b -> Condition]
  BY DEF IsSheet
<1> QED
  BY <1>1, <1>2, <1>3

-----------------------------------------------------------------------------
(* Patches *)

IsBatch(batch, n, rows) ==
  batch \in [1 .. n -> Change] /\ \A k \in 1 .. n : batch[k].id \in DOMAIN rows

LEMMA EarlierChanges ==
  ASSUME NEW n \in Nat, NEW batch, NEW k \in 1 .. n, NEW i, NEW p,
         ~(batch[k].id = i /\ batch[k].param = p)
  PROVE  Earlier(batch, k + 1, i, p) = Earlier(batch, k, i, p)
<1>1. k \in Nat /\ k + 1 - 1 = k /\ 1 .. k = (1 .. k - 1) \union {k}
  OBVIOUS
<1> QED
  BY <1>1 DEF Earlier

LEMMA LatestChange ==
  ASSUME NEW n \in Nat, NEW batch, NEW k \in 1 .. n
  PROVE  LET latest == Earlier(batch, k + 1, batch[k].id, batch[k].param) IN
         latest # {} /\ Max(latest) = k
<1> DEFINE S == Earlier(batch, k + 1, batch[k].id, batch[k].param)
<1>1. k \in S /\ S \subseteq 0 .. k
  BY DEF Earlier
<1> HIDE DEF S
<1>2. Max(S) \in 0 .. k /\ k <= Max(S)
  <2>1. k \in Nat /\ S # {}
    BY <1>1
  <2>2. Max(S) \in S /\ \A x \in S : x <= Max(S)
    BY <1>1, <2>1, MaxOf
  <2> QED
    BY <1>1, <2>2
<1>3. Max(S) = k
  BY <1>2
<1> QED
  BY <1>1, <1>3 DEF S

\* What a batch's cell is before the k-th change.
CellBefore(rows, batch, k, i, p) ==
  IF Earlier(batch, k, i, p) = {} THEN rows[i].cells[p]
  ELSE batch[Max(Earlier(batch, k, i, p))].value

LEMMA CellStep ==
  ASSUME NEW n \in Nat, NEW rows, NEW batch, NEW k \in 1 .. n, NEW i, NEW p
  PROVE  CellBefore(rows, batch, k + 1, i, p) =
           IF i = batch[k].id /\ p = batch[k].param THEN batch[k].value
           ELSE CellBefore(rows, batch, k, i, p)
<1>1. CASE i = batch[k].id /\ p = batch[k].param
  <2>1. /\ Earlier(batch, k + 1, i, p) # {}
        /\ Max(Earlier(batch, k + 1, i, p)) = k
    BY <1>1, LatestChange
  <2> QED
    BY <1>1, <2>1 DEF CellBefore
<1>2. CASE ~(i = batch[k].id /\ p = batch[k].param)
  <2>1. Earlier(batch, k + 1, i, p) = Earlier(batch, k, i, p)
    BY <1>2, EarlierChanges
  <2> QED
    BY <1>2, <2>1 DEF CellBefore
<1> QED
  BY <1>1, <1>2

LEMMA SimulatedRows ==
  ASSUME NEW n \in Nat, NEW rows, IsSheet(rows), NEW batch, IsBatch(batch, n, rows),
         NEW k \in 1 .. n + 1
  PROVE  /\ IsSheet(Simulated(rows, batch, k)) /\ SameRows(rows, Simulated(rows, batch, k))
         /\ \A i \in DOMAIN rows :
              /\ Simulated(rows, batch, k)[i].por = rows[i].por
              /\ Simulated(rows, batch, k)[i].cells \in [Parameter -> Value \union {None}]
              /\ \A p \in Parameter :
                   Simulated(rows, batch, k)[i].cells[p] = CellBefore(rows, batch, k, i, p)
<1> DEFINE after == Simulated(rows, batch, k)
           cells(i) == [p \in Parameter |-> CellBefore(rows, batch, k, i, p)]
<1>1. DOMAIN after = DOMAIN rows
      /\ after \in [DOMAIN rows -> {[rows[i] EXCEPT !.cells = cells(i)] : i \in DOMAIN rows}]
      /\ \A i \in DOMAIN rows : after[i] = [rows[i] EXCEPT !.cells = cells(i)]
  BY DEF Simulated, CellBefore
<1>2. ASSUME NEW i \in DOMAIN rows, NEW p \in Parameter
      PROVE  CellBefore(rows, batch, k, i, p) \in Value \union {None}
  <2>1. rows[i].cells[p] \in Value \union {None}
    BY RowFields DEF IsSheet
  <2>2. ASSUME Earlier(batch, k, i, p) # {}
        PROVE  batch[Max(Earlier(batch, k, i, p))].value \in Value \union {None}
    <3> DEFINE S == Earlier(batch, k, i, p)
    <3>1. S \subseteq 0 .. n /\ S \subseteq 1 .. n /\ S # {}
      BY <2>2 DEF Earlier
    <3> HIDE DEF S
    <3>2. Max(S) \in 1 .. n
      BY <3>1, MaxOf
    <3> QED
      BY <3>2 DEF S, IsBatch, Change
  <2> QED
    BY <2>1, <2>2 DEF CellBefore
<1>3. ASSUME NEW i \in DOMAIN rows
      PROVE  /\ after[i] \in Condition
             /\ after[i].layer = rows[i].layer /\ after[i].label = rows[i].label
             /\ after[i].index = rows[i].index /\ after[i].por = rows[i].por
             /\ after[i].cells = cells(i)
  <2>1. rows[i] \in Condition
    BY DEF IsSheet
  <2>2. cells(i) \in [Parameter -> Value \union {None}]
    BY <1>2
  <2> HIDE DEF cells
  <2>3. after[i] = RowOf(rows[i].layer, rows[i].label, rows[i].index, rows[i].por, cells(i))
    BY <1>1, <2>1, ChangedRow
  <2> HIDE DEF after
  <2>4. /\ after[i].layer = rows[i].layer /\ after[i].label = rows[i].label
        /\ after[i].index = rows[i].index /\ after[i].por = rows[i].por
        /\ after[i].cells = cells(i) /\ IsRow(after[i])
    BY <2>3, MadeRow
  <2> QED
    BY <2>1, <2>2, <2>4, RowFields
<1>4. ASSUME NEW i \in DOMAIN rows
      PROVE  /\ cells(i) \in [Parameter -> Value \union {None}]
             /\ \A p \in Parameter : cells(i)[p] = CellBefore(rows, batch, k, i, p)
  BY <1>2
<1> HIDE DEF after, cells
<1>5. SameRows(rows, after)
  BY <1>1, <1>3 DEF SameRows
<1>6. IsSheet(after)
  BY <1>1, <1>3 DEF IsSheet
<1> QED
  BY <1>3, <1>4, <1>5, <1>6 DEF after

\* Changing one cell.
LEMMA SetCellRows ==
  ASSUME NEW rows, IsSheet(rows), NEW change \in Change, change.id \in DOMAIN rows
  PROVE  LET after == SetCell(rows, change) IN
         /\ IsSheet(after) /\ SameRows(rows, after)
         /\ \A i \in DOMAIN rows :
              /\ after[i].por = rows[i].por
              /\ after[i].cells =
                   IF i = change.id THEN [rows[i].cells EXCEPT ![change.param] = change.value]
                   ELSE rows[i].cells
<1> DEFINE after == SetCell(rows, change)
           cells == [rows[change.id].cells EXCEPT ![change.param] = change.value]
<1>1. DOMAIN after = DOMAIN rows /\ after = [i \in DOMAIN rows |-> after[i]]
      /\ after[change.id] = [rows[change.id] EXCEPT !.cells = cells]
      /\ \A i \in DOMAIN rows \ {change.id} : after[i] = rows[i]
  BY DEF SetCell
<1>2. rows[change.id] \in Condition /\ \A i \in DOMAIN rows : rows[i] \in Condition
  BY DEF IsSheet
<1>3. cells \in [Parameter -> Value \union {None}]
  BY <1>2, RowFields DEF Change
<1> HIDE DEF cells
<1>4. after[change.id] = RowOf(rows[change.id].layer, rows[change.id].label,
                               rows[change.id].index, rows[change.id].por, cells)
  BY <1>1, <1>2, ChangedRow
<1> HIDE DEF after
<1>5. /\ after[change.id].layer = rows[change.id].layer
      /\ after[change.id].label = rows[change.id].label
      /\ after[change.id].index = rows[change.id].index
      /\ after[change.id].por = rows[change.id].por
      /\ after[change.id].cells = cells /\ IsRow(after[change.id])
  BY <1>4, MadeRow
<1>6. after[change.id] \in Condition
  BY <1>2, <1>3, <1>5, RowFields
<1>7. \A i \in DOMAIN rows : after[i] \in Condition
  BY <1>1, <1>2, <1>6
<1>8. IsSheet(after)
  BY <1>1, <1>7 DEF IsSheet
<1>9. SameRows(rows, after)
  BY <1>1, <1>5 DEF SameRows
<1>10. \A i \in DOMAIN rows :
         /\ after[i].por = rows[i].por
         /\ after[i].cells = IF i = change.id THEN cells ELSE rows[i].cells
  BY <1>1, <1>5
<1> QED
  BY <1>8, <1>9, <1>10 DEF after, cells

\* One change of a batch after another is the batch.
LEMMA SimulatedStep ==
  ASSUME NEW n \in Nat, NEW rows, IsSheet(rows), NEW batch, IsBatch(batch, n, rows),
         NEW k \in 1 .. n
  PROVE  SetCell(Simulated(rows, batch, k), batch[k]) = Simulated(rows, batch, k + 1)
<1> DEFINE now == Simulated(rows, batch, k)
           next == Simulated(rows, batch, k + 1)
           set == SetCell(now, batch[k])
<1>1. k \in 1 .. n + 1 /\ k + 1 \in 1 .. n + 1
  OBVIOUS
<1>2. /\ IsSheet(now) /\ SameRows(rows, now) /\ IsSheet(next) /\ SameRows(rows, next)
      /\ \A i \in DOMAIN rows :
           /\ now[i].por = rows[i].por /\ next[i].por = rows[i].por
           /\ now[i].cells \in [Parameter -> Value \union {None}]
           /\ next[i].cells \in [Parameter -> Value \union {None}]
           /\ \A p \in Parameter : /\ now[i].cells[p] = CellBefore(rows, batch, k, i, p)
                                   /\ next[i].cells[p] = CellBefore(rows, batch, k + 1, i, p)
  BY <1>1, SimulatedRows
<1> HIDE DEF now, next
<1>3. batch[k] \in Change /\ batch[k].id \in DOMAIN rows /\ DOMAIN now = DOMAIN rows
  BY <1>2 DEF IsBatch, SameRows
<1>4. /\ IsSheet(set) /\ SameRows(now, set)
      /\ \A i \in DOMAIN rows :
           /\ set[i].por = now[i].por
           /\ set[i].cells = IF i = batch[k].id
                             THEN [now[i].cells EXCEPT ![batch[k].param] = batch[k].value]
                             ELSE now[i].cells
  BY <1>2, <1>3, SetCellRows
<1> HIDE DEF set
<1>5. SameRows(set, next) /\ DOMAIN set = DOMAIN rows
  BY <1>2, <1>4 DEF SameRows
<1>6. ASSUME NEW i \in DOMAIN rows
      PROVE  next[i].cells = set[i].cells
  <2>1. /\ set[i].cells \in [Parameter -> Value \union {None}]
        /\ \A p \in Parameter :
             set[i].cells[p] = IF i = batch[k].id /\ p = batch[k].param THEN batch[k].value
                               ELSE now[i].cells[p]
    <3>1. now[i].cells \in [Parameter -> Value \union {None}]
      BY <1>2
    <3>2. batch[k].param \in Parameter /\ batch[k].value \in Value \union {None}
      BY <1>3 DEF Change
    <3>3. set[i].cells = IF i = batch[k].id
                         THEN [now[i].cells EXCEPT ![batch[k].param] = batch[k].value]
                         ELSE now[i].cells
      BY <1>4
    <3> QED
      BY ONLY <3>1, <3>2, <3>3
  <2>2. ASSUME NEW p \in Parameter
        PROVE  next[i].cells[p] = set[i].cells[p]
    BY <1>2, <2>1, CellStep
  <2>3. next[i].cells \in [Parameter -> Value \union {None}]
    BY <1>2
  <2> QED
    BY <2>1, <2>2, <2>3
<1>7. SameCells(set, next) /\ \A i \in DOMAIN set : next[i].por = set[i].por
  BY <1>2, <1>4, <1>5, <1>6 DEF SameCells
<1> QED
  BY <1>2, <1>4, <1>5, <1>7, SheetsAreEqual DEF now, next, set

LEMMA NothingSimulated ==
  ASSUME NEW n \in Nat, NEW rows, IsSheet(rows), NEW batch, IsBatch(batch, n, rows)
  PROVE  Simulated(rows, batch, 1) = rows
<1> DEFINE same == Simulated(rows, batch, 1)
<1>1. /\ IsSheet(same) /\ SameRows(rows, same)
      /\ \A i \in DOMAIN rows :
           /\ same[i].por = rows[i].por
           /\ same[i].cells \in [Parameter -> Value \union {None}]
           /\ \A p \in Parameter : same[i].cells[p] = CellBefore(rows, batch, 1, i, p)
  BY SimulatedRows
<1> HIDE DEF same
<1>2. \A i, p : Earlier(batch, 1, i, p) = {}
  BY DEF Earlier
<1>3. \A i \in DOMAIN rows : rows[i].cells \in [Parameter -> Value \union {None}]
  BY RowFields DEF IsSheet
<1>4. SameCells(rows, same)
  BY <1>1, <1>2, <1>3 DEF SameCells, CellBefore
<1> QED
  BY <1>1, <1>4, SheetsAreEqual DEF same

\* Before each change of a legal batch a cell shows what it showed at first,
\* nothing, or an option that is offered under the lock.
LEMMA ChosenBefore ==
  ASSUME NEW n \in Nat, IsSheet(sheet), NEW batch, IsBatch(batch, n, sheet), Legal(batch),
         NEW options, options = IF Locks(batch) THEN offered ELSE {},
         NEW i \in DOMAIN sheet, NEW p \in Choice, NEW k \in 0 .. n
  PROVE  Simulated(sheet, batch, k + 1)[i].cells[p] \in options \union {None, sheet[i].cells[p]}
<1> DEFINE cell(m) == CellBefore(sheet, batch, m + 1, i, p)
           S == {m \in 0 .. n : cell(m) \in options \union {None, sheet[i].cells[p]}}
<1>1. p \in Parameter
  BY ConstantsAssumption
<1>2. ASSUME NEW m \in 0 .. n
      PROVE  Simulated(sheet, batch, m + 1)[i].cells[p] = cell(m)
  BY <1>1, SimulatedRows
<1>3. 0 \in S
  <2>1. Earlier(batch, 1, i, p) = {}
    BY DEF Earlier
  <2> QED
    BY <2>1 DEF CellBefore
<1>4. ASSUME NEW m \in 1 .. n, m - 1 \in S PROVE m \in S
  <2>1. cell(m) = IF i = batch[m].id /\ p = batch[m].param THEN batch[m].value ELSE cell(m - 1)
    <3>1. m - 1 + 1 = m
      OBVIOUS
    <3> QED
      BY <3>1, CellStep
  <2>2. CASE i = batch[m].id /\ p = batch[m].param
    <3>1. OldValue(sheet, batch, m) = cell(m - 1) /\ m \in DOMAIN batch
      <4>1. m - 1 \in 0 .. n /\ m - 1 + 1 = m
        OBVIOUS
      <4> QED
        BY <1>2, <2>2, <4>1 DEF OldValue, IsBatch
    <3> HIDE DEF cell
    <3>2. batch[m].value \in offered \union {None, cell(m - 1)}
      BY <2>2, <3>1 DEF Legal
    <3>3. ~Locks(batch) => batch[m].value = None
      BY <2>2, <3>1 DEF Locks
    <3> QED
      BY <1>4, <2>1, <2>2, <3>2, <3>3
  <2>3. CASE ~(i = batch[m].id /\ p = batch[m].param)
    <3> HIDE DEF cell
    <3> QED
      BY <1>4, <2>1, <2>3
  <2> QED
    BY <2>2, <2>3
<1>5. k \in S
  <2> HIDE DEF S
  <2>1. 0 .. n \subseteq S
    BY <1>3, <1>4, UpTo
  <2> QED
    BY <2>1
<1> QED
  BY <1>2, <1>5

-----------------------------------------------------------------------------
(* What events tell *)

\* Any function that obeys the recursion shows that Retold does.
Obeys(f, n, known, events) ==
  f = [k \in 0 .. n |-> IF k = 0 THEN known ELSE Retell(f[k - 1], events[k])]

LEMMA Unfolded ==
  ASSUME NEW known, NEW events, NEW n, Len(events) = n, NEW h,
         Obeys(h, n, known, events)
  PROVE  \E x : Retold(known, events) = x[n] /\ Obeys(x, n, known, events)
BY Zenon DEF Retold, Obeys

LEMMA RetoldOne ==
  ASSUME NEW known, NEW e
  PROVE  Retold(known, <<e>>) = Retell(known, e)
<1> DEFINE events == <<e>>
           h == [k \in 0 .. 1 |-> IF k = 0 THEN known ELSE Retell(known, e)]
<1>1. Len(events) = 1 /\ events[1] = e
  OBVIOUS
<1>2. Obeys(h, 1, known, events)
  <2>1. h[0] = known
    OBVIOUS
  <2>2. \A k \in 0 .. 1 : k = 0 \/ k = 1
    OBVIOUS
  <2> HIDE DEF events
  <2>3. \A k \in 0 .. 1 : h[k] = IF k = 0 THEN known ELSE Retell(h[k - 1], events[k])
    <3>1. h[1] = Retell(known, e)
      OBVIOUS
    <3> HIDE DEF h
    <3>2. h[1] = Retell(h[1 - 1], events[1])
      BY <1>1, <2>1, <3>1
    <3> QED
      BY <2>1, <2>2, <3>2
  <2>4. DOMAIN h = 0 .. 1 /\ h = [k \in 0 .. 1 |-> h[k]]
    OBVIOUS
  <2> HIDE DEF h
  <2> QED
    BY <2>3, <2>4 DEF Obeys
<1> HIDE DEF h, events
<1>3. PICK x : Retold(known, events) = x[1] /\ Obeys(x, 1, known, events)
  BY <1>1, <1>2, Unfolded
<1>4. x[0] = known /\ x[1] = Retell(x[1 - 1], events[1])
  BY <1>3 DEF Obeys
<1>5. x[1] = Retell(known, e)
  BY <1>1, <1>4
<1> QED
  BY <1>3, <1>5 DEF events

\* The event of a change tells the step to the next change.
LEMMA ToldChange ==
  ASSUME NEW n \in Nat, NEW rows, IsSheet(rows), NEW batch, IsBatch(batch, n, rows),
         Len(batch) = n, NEW k \in 1 .. n
  PROVE  /\ Retell(Known(Simulated(rows, batch, k)), CellEvents(rows, batch)[k])
              = Known(Simulated(rows, batch, k + 1))
         /\ IsEvent(CellEvents(rows, batch)[k])
<1> DEFINE now == Simulated(rows, batch, k)
           old == OldValue(rows, batch, k)
           e == CellEvents(rows, batch)[k]
<1>1. batch[k] \in Change /\ batch[k].id \in DOMAIN rows /\ batch[k].id \in Id
      /\ batch[k].param \in Parameter /\ batch[k].value \in Value \union {None}
  BY DEF IsBatch, Change
<1>2. e = IF old = batch[k].value THEN NoEvent
          ELSE [type |-> "CELL_UPDATE", id |-> batch[k].id, param |-> batch[k].param,
                old |-> old, new |-> batch[k].value]
  BY DEF CellEvents
<1>3. /\ IsSheet(now) /\ DOMAIN now = DOMAIN rows
      /\ now[batch[k].id].cells \in [Parameter -> Value \union {None}]
  BY <1>1, SimulatedRows DEF SameRows
<1>4. old = now[batch[k].id].cells[batch[k].param] /\ old \in Value \union {None}
  BY <1>1, <1>3 DEF OldValue
<1>5. SetCell(now, batch[k]) = Simulated(rows, batch, k + 1)
  BY SimulatedStep
<1> HIDE DEF now, old, e
<1>6. CASE old = batch[k].value
  <2>1. e = NoEvent
    BY <1>2, <1>6
  <2>2. Retell(Known(now), e) = Known(now)
    BY <2>1 DEF Retell, NoEvent
  <2>3. /\ IsSheet(SetCell(now, batch[k])) /\ SameRows(now, SetCell(now, batch[k]))
        /\ \A i \in DOMAIN now :
             /\ SetCell(now, batch[k])[i].por = now[i].por
             /\ SetCell(now, batch[k])[i].cells =
                  IF i = batch[k].id THEN [now[i].cells EXCEPT ![batch[k].param] = batch[k].value]
                  ELSE now[i].cells
    BY <1>1, <1>3, SetCellRows
  <2>4. [now[batch[k].id].cells EXCEPT ![batch[k].param] = batch[k].value]
          = now[batch[k].id].cells
    BY <1>1, <1>3, <1>4, <1>6
  <2>5. SameCells(now, SetCell(now, batch[k]))
    BY <2>3, <2>4 DEF SameCells
  <2>6. now = SetCell(now, batch[k])
    BY <1>3, <2>3, <2>5, SheetsAreEqual
  <2> QED
    BY <1>5, <2>1, <2>2, <2>6 DEF IsEvent, now, e
<1>7. CASE old # batch[k].value
  <2>1. e = [type |-> "CELL_UPDATE", id |-> batch[k].id, param |-> batch[k].param,
             old |-> old, new |-> batch[k].value]
    BY <1>2, <1>7
  <2>2. e \in Event
    BY <1>1, <1>4, <2>1 DEF Event
  <2>3. Retell(Known(now), e) =
          [rows  |-> SetCell(now, [id |-> batch[k].id, param |-> batch[k].param,
                                   value |-> batch[k].value]),
           agree |-> TRUE]
    BY <1>4, <2>1 DEF Retell, Known
  <2>4. [id |-> batch[k].id, param |-> batch[k].param, value |-> batch[k].value] = batch[k]
    BY <1>1 DEF Change
  <2> QED
    BY <1>5, <2>2, <2>3, <2>4 DEF IsEvent, Known, now, e
<1> QED
  BY <1>6, <1>7

LEMMA ToldBatch ==
  ASSUME NEW n \in Nat, NEW rows, IsSheet(rows), NEW batch, IsBatch(batch, n, rows),
         Len(batch) = n
  PROVE  Retold(Known(rows), CellEvents(rows, batch)) = Known(Simulated(rows, batch, n + 1))
<1> DEFINE events == CellEvents(rows, batch)
           known(k) == Known(Simulated(rows, batch, k + 1))
           h == [k \in 0 .. n |-> known(k)]
<1>1. Len(events) = n
  BY DEF CellEvents
<1>2. Known(rows) = known(0)
  BY NothingSimulated
<1>3. \A k \in 1 .. n : Retell(known(k - 1), events[k]) = known(k)
  BY ToldChange
<1> HIDE DEF events, known
<1>4. Obeys(h, n, Known(rows), events)
  <2>1. ASSUME NEW k \in 0 .. n
        PROVE  known(k) = IF k = 0 THEN Known(rows) ELSE Retell(h[k - 1], events[k])
    <3>1. CASE k = 0
      BY <1>2, <3>1
    <3>2. CASE k # 0
      <4>1. k \in 1 .. n /\ k - 1 \in 0 .. n
        BY <3>2
      <4>2. h[k - 1] = known(k - 1)
        BY <4>1
      <4> QED
        BY <1>3, <3>2, <4>1, <4>2
    <3> QED
      BY <3>1, <3>2
  <2> QED
    BY <2>1 DEF Obeys
<1> HIDE DEF h
<1>5. PICK x : Retold(Known(rows), events) = x[n] /\ Obeys(x, n, Known(rows), events)
  BY <1>1, <1>4, Unfolded
<1> DEFINE S == {k \in 0 .. n : x[k] = known(k)}
<1>6. 0 \in S
  BY <1>2, <1>5 DEF Obeys
<1>7. ASSUME NEW k \in 1 .. n, k - 1 \in S PROVE k \in S
  <2>1. x[k] = Retell(x[k - 1], events[k])
    BY <1>5 DEF Obeys
  <2>2. x[k - 1] = known(k - 1)
    BY <1>7
  <2> QED
    BY <1>3, <2>1, <2>2
<1>8. n \in S
  <2> HIDE DEF S
  <2>1. 0 .. n \subseteq S
    BY <1>6, <1>7, UpTo
  <2> QED
    BY <2>1
<1>9. x[n] = known(n)
  BY <1>8
<1> QED
  BY <1>5, <1>9 DEF events, known

-----------------------------------------------------------------------------
(* What the operations do to a lawful sheet *)

\* A sheet with the ids drawn stays one when more are drawn.
LEMMA DrawnGrows ==
  ASSUME NEW rows, NEW n \in Nat, NEW m \in Nat, n <= m, Lawful(rows, n)
  PROVE  Lawful(rows, m)
<1>1. Ranked(rows, m)
  BY DEF Lawful, Ranked, IsSheet, Id, Condition
<1> QED
  BY <1>1 DEF Lawful

LEMMA SameCellsAreChosen ==
  ASSUME NEW before, NEW after, SameCells(before, after), NEW options
  PROVE  ChosenFrom(before, after, options)
BY DEF SameCells, ChosenFrom

\* A new row takes nothing from any layer.
LEMMA AddedRow ==
  ASSUME NEW n \in Nat, n < MaxId, NEW rows, Lawful(rows, n),
         NEW row \in Condition, row.por = FALSE, row.index <= n + 1,
         \A i \in InLayer(rows, row.layer) :
           rows[i].index # row.index /\ rows[i].label # row.label
  PROVE  LET more == Put(rows, n + 1, row) IN
         /\ Lawful(more, n + 1) /\ n + 1 \notin DOMAIN rows
         /\ LosesPor(rows, more) = {} /\ \A options : ChosenFrom(rows, more, options)
<1> DEFINE more == Put(rows, n + 1, row)
<1>1. n + 1 \notin DOMAIN rows
  BY DEF Lawful, Ranked
<1>2. /\ DOMAIN more = DOMAIN rows \union {n + 1} /\ more[n + 1] = row
      /\ \A i \in DOMAIN rows : more[i] = rows[i]
      /\ more = [i \in DOMAIN more |-> more[i]]
  BY <1>1 DEF Put
<1> HIDE DEF more
<1>3. IsSheet(more)
  <2>1. n + 1 \in Id
    BY ConstantsAssumption DEF Id
  <2>2. \A i \in DOMAIN more : more[i] \in Condition /\ i \in Id
    BY <1>2, <2>1 DEF Lawful, IsSheet
  <2> QED
    BY <1>2, <2>2 DEF IsSheet
<1>4. Ranked(more, n + 1)
  <2>1. \A i \in DOMAIN rows : i \in Nat /\ rows[i].index \in Nat /\ i <= n /\ rows[i].index <= n
    BY DEF Lawful, Ranked, IsSheet, Id, Condition
  <2> QED
    BY <1>2, <2>1 DEF Ranked
<1>5. Constraints(more) /\ LabelsDiffer(more)
  <2>1. ASSUME NEW i \in DOMAIN more, NEW j \in DOMAIN more, i # j, more[i].layer = more[j].layer
        PROVE  /\ more[i].index # more[j].index /\ more[i].label # more[j].label
               /\ ~(more[i].por /\ more[j].por)
    <3>1. CASE i \in DOMAIN rows /\ j \in DOMAIN rows
      BY <1>2, <2>1, <3>1 DEF Lawful, Constraints, LabelsDiffer
    <3>2. CASE i = n + 1 \/ j = n + 1
      BY <1>1, <1>2, <2>1, <3>2 DEF InLayer
    <3> QED
      BY <1>2, <3>1, <3>2
  <2> QED
    BY <2>1 DEF Constraints, LabelsDiffer
<1>6. \A l \in Layer : /\ InLayer(rows, l) \subseteq InLayer(more, l)
                       /\ PorOf(more, l) = PorOf(rows, l)
  BY <1>1, <1>2 DEF InLayer, PorOf
<1>7. NoneEmpty(more) /\ LosesPor(rows, more) = {}
  BY <1>6 DEF Lawful, NoneEmpty, LosesPor
<1>8. ASSUME NEW options PROVE ChosenFrom(rows, more, options)
  BY <1>2, SameCellsAreChosen DEF SameCells
<1> QED
  BY <1>1, <1>3, <1>4, <1>5, <1>7, <1>8 DEF Lawful, more

\* Fewer rows stay lawful as long as no layer is empty.
LEMMA FewerRows ==
  ASSUME NEW rows, NEW n \in Nat, Lawful(rows, n), NEW ids
  PROVE  LET rest == Without(rows, ids) IN
         /\ IsSheet(rest) /\ Ranked(rest, n) /\ Constraints(rest) /\ LabelsDiffer(rest)
         /\ DOMAIN rest = DOMAIN rows \ ids /\ \A i \in DOMAIN rest : rest[i] = rows[i]
<1> DEFINE rest == Without(rows, ids)
<1>1. /\ DOMAIN rest = DOMAIN rows \ ids /\ \A i \in DOMAIN rest : rest[i] = rows[i]
      /\ rest = [i \in DOMAIN rest |-> rest[i]]
  BY DEF Without
<1> HIDE DEF rest
<1>2. IsSheet(rest)
  BY <1>1 DEF Lawful, IsSheet
<1>3. Ranked(rest, n) /\ Constraints(rest) /\ LabelsDiffer(rest)
  BY <1>1 DEF Lawful, Ranked, Constraints, LabelsDiffer
<1> QED
  BY <1>1, <1>2, <1>3 DEF rest

\* A deletion the guard allows leaves the layer rows and its POR.
LEMMA DeletedRow ==
  ASSUME drawn \in Nat, Lawful(sheet, drawn), NEW i \in DOMAIN sheet, MayDelete(i)
  PROVE  LET rest == Without(sheet, {i}) IN
         /\ Lawful(rest, drawn) /\ LosesPor(sheet, rest) = {}
         /\ \A options : ChosenFrom(sheet, rest, options)
<1> DEFINE rest == Without(sheet, {i})
<1>1. ~sheet[i].por /\ Cardinality(InLayer(sheet, sheet[i].layer)) > 1
  BY DEF MayDelete
<1>2. /\ IsSheet(rest) /\ Ranked(rest, drawn) /\ Constraints(rest) /\ LabelsDiffer(rest)
      /\ DOMAIN rest = DOMAIN sheet \ {i} /\ \A j \in DOMAIN rest : rest[j] = sheet[j]
  BY FewerRows
<1> HIDE DEF rest
<1>3. ASSUME NEW l \in Layer
      PROVE  InLayer(sheet, l) \ {i} # {}
  <2>1. CASE l # sheet[i].layer
    BY <2>1 DEF Lawful, NoneEmpty, InLayer
  <2>2. CASE l = sheet[i].layer
    <3>1. SUFFICES ASSUME InLayer(sheet, l) \ {i} = {} PROVE FALSE
      OBVIOUS
    <3>2. InLayer(sheet, l) = {i}
      BY <2>2, <3>1 DEF InLayer
    <3>3. Cardinality({i}) = 1
      BY FS_Singleton
    <3> QED
      BY <1>1, <2>2, <3>2, <3>3
  <2> QED
    BY <2>1, <2>2
<1>4. \A l \in Layer : /\ InLayer(rest, l) = InLayer(sheet, l) \ {i}
                       /\ PorOf(rest, l) = PorOf(sheet, l)
  BY <1>1, <1>2 DEF InLayer, PorOf
<1>5. NoneEmpty(rest) /\ LosesPor(sheet, rest) = {}
  BY <1>3, <1>4 DEF NoneEmpty, LosesPor
<1>6. ASSUME NEW options PROVE ChosenFrom(sheet, rest, options)
  BY <1>2 DEF ChosenFrom
<1> QED
  BY <1>2, <1>5, <1>6 DEF Lawful, rest

\* A move of the POR: the cleared flag and the set one give the layer one POR.
LEMMA MovedPor ==
  ASSUME drawn \in Nat, Lawful(sheet, drawn), NEW i \in DOMAIN sheet
  PROVE  LET l == sheet[i].layer
             cleared == ClearPor(sheet, l)
             moved == SetPor(cleared, i, TRUE)
         IN  /\ Lawful(cleared, drawn) /\ Lawful(moved, drawn)
             /\ LosesPor(sheet, moved) = {} /\ \A options : ChosenFrom(sheet, moved, options)
             /\ DOMAIN moved = DOMAIN sheet /\ SameRows(sheet, moved) /\ SameCells(sheet, moved)
             /\ moved[i].por = TRUE
             /\ \A j \in DOMAIN sheet \ {i} : moved[j].por = (sheet[j].por /\ sheet[j].layer # l)
<1> DEFINE l == sheet[i].layer
           cleared == ClearPor(sheet, l)
           moved == SetPor(cleared, i, TRUE)
<1>1. IsSheet(sheet) /\ \A j \in DOMAIN sheet : sheet[j].por \in BOOLEAN
  BY RowFields DEF Lawful, IsSheet
<1>2. /\ IsSheet(cleared) /\ SameRows(sheet, cleared) /\ SameCells(sheet, cleared)
      /\ \A j \in DOMAIN sheet :
           /\ sheet[j].layer = l => cleared[j].por = FALSE
           /\ sheet[j].layer # l => cleared[j] = sheet[j]
  BY <1>1, ClearPorRows
<1> HIDE DEF cleared
<1>3. i \in DOMAIN cleared /\ DOMAIN cleared = DOMAIN sheet
  BY <1>2 DEF SameRows
<1>4. /\ IsSheet(moved) /\ SameRows(cleared, moved) /\ SameCells(cleared, moved)
      /\ moved[i].por = TRUE
      /\ \A j \in DOMAIN cleared \ {i} : moved[j] = cleared[j]
  BY <1>2, <1>3, PorSet, Zenon
<1> HIDE DEF moved
<1>5. SameRows(sheet, moved) /\ SameCells(sheet, moved) /\ DOMAIN moved = DOMAIN sheet
  BY <1>2, <1>3, <1>4 DEF SameRows, SameCells
<1>6. OnePor(sheet)
  BY DEF Lawful, Constraints, OnePor
<1>7. OnePor(cleared)
  BY <1>2, <1>3, <1>6 DEF OnePor, SameRows
<1>8. \A j \in DOMAIN sheet \ {i} :
        /\ sheet[j].layer = l => moved[j].por = FALSE
        /\ sheet[j].layer # l => moved[j].por = sheet[j].por
  BY <1>2, <1>3, <1>4
<1>9. OnePor(moved)
  BY <1>5, <1>6, <1>8 DEF OnePor, SameRows
<1>10. Lawful(cleared, drawn) /\ Lawful(moved, drawn)
  BY <1>2, <1>4, <1>5, <1>7, <1>9, SameRowsAreLawful
<1>11. \A m \in Layer : PorOf(sheet, m) # {} => PorOf(moved, m) # {}
  <2>1. i \in PorOf(moved, l)
    BY <1>4, <1>5 DEF PorOf, InLayer, SameRows
  <2>2. \A m \in Layer : m # l => PorOf(sheet, m) \subseteq PorOf(moved, m)
    BY <1>5, <1>8 DEF PorOf, InLayer, SameRows
  <2> QED
    BY <2>1, <2>2
<1>12. LosesPor(sheet, moved) = {}
  BY <1>11 DEF LosesPor
<1>13. ASSUME NEW options PROVE ChosenFrom(sheet, moved, options)
  BY <1>5, SameCellsAreChosen
<1>14. \A j \in DOMAIN sheet \ {i} : moved[j].por = (sheet[j].por /\ sheet[j].layer # l)
  BY <1>1, <1>8
<1> QED
  BY <1>4, <1>5, <1>10, <1>12, <1>13, <1>14 DEF moved, cleared

\* The rows of a layer whose rows are copied into another.
Filled(rows, added, l, capture, source) ==
  [i \in DOMAIN rows \union added |->
     IF i \in added THEN CopyTo(l, capture[source[i]]) ELSE rows[i]]

LEMMA FilledLayer ==
  ASSUME drawn \in Nat, Lawful(sheet, drawn), NEW l \in Layer, NEW other \in Layer,
         NEW capture, capture = Captured(other),
         NEW m, m = drawn + Cardinality(DOMAIN capture), m <= MaxId,
         NEW source \in Ordered(capture, drawn + 1 .. m)
  PROVE  LET filled == Filled(ClearLayer(l), drawn + 1 .. m, l, capture, source) IN
         /\ m \in Nat /\ drawn <= m /\ IsSheet(capture)
         /\ Lawful(filled, m) /\ LosesPor(sheet, filled) \subseteq {l}
         /\ \A options : ChosenFrom(sheet, filled, options)
<1> DEFINE rest == ClearLayer(l)
           added == drawn + 1 .. m
           filled == Filled(rest, added, l, capture, source)
<1>1. /\ IsSheet(rest) /\ Ranked(rest, drawn) /\ Constraints(rest) /\ LabelsDiffer(rest)
      /\ DOMAIN rest = DOMAIN sheet \ InLayer(sheet, l) /\ \A i \in DOMAIN rest : rest[i] = sheet[i]
  BY FewerRows DEF ClearLayer
<1>2. IsSheet(capture) /\ DOMAIN capture = InLayer(sheet, other)
      /\ \A s \in DOMAIN capture : capture[s] = sheet[s] /\ s \in DOMAIN sheet
  <2> DEFINE ids == DOMAIN sheet \ InLayer(sheet, other)
  <2>1. capture = Without(sheet, ids)
    BY DEF Captured
  <2> HIDE DEF ids
  <2>2. LET some == Without(sheet, ids) IN
        /\ IsSheet(some) /\ Ranked(some, drawn) /\ Constraints(some) /\ LabelsDiffer(some)
        /\ DOMAIN some = DOMAIN sheet \ ids /\ \A i \in DOMAIN some : some[i] = sheet[i]
    BY FewerRows
  <2> QED
    BY <2>1, <2>2 DEF InLayer, ids
<1>3. Cardinality(DOMAIN capture) \in Nat \ {0}
  <2>1. IsFiniteSet(DOMAIN capture) /\ DOMAIN capture # {}
    BY <1>2, FiniteRows DEF Lawful, NoneEmpty
  <2> QED
    BY <2>1, FS_CardinalityType, FS_EmptySet
<1>4. m \in Nat /\ drawn < m
  BY <1>3
<1>5. /\ DOMAIN rest \intersect added = {} /\ drawn + 1 \in added
      /\ \A i \in DOMAIN rest \union added : i \in Id /\ i <= m
      /\ \A i \in added : i \in Nat
  BY <1>1, <1>4, ConstantsAssumption DEF Ranked, IsSheet, Id
<1>6. /\ source \in [added -> DOMAIN capture]
      /\ \A i, j \in added : i < j => capture[source[i]].index < capture[source[j]].index
  BY DEF Ordered
<1> HIDE DEF rest, added
<1>7. /\ DOMAIN filled = DOMAIN rest \union added
      /\ filled = [i \in DOMAIN filled |-> filled[i]]
      /\ \A i \in added : filled[i] = CopyTo(l, sheet[source[i]])
      /\ \A i \in DOMAIN rest : filled[i] = rest[i]
  BY <1>2, <1>5, <1>6 DEF Filled
<1> HIDE DEF filled
<1>8. \A i \in added : source[i] \in DOMAIN sheet /\ sheet[source[i]].layer = other
  BY <1>2, <1>6 DEF InLayer
<1>9. ASSUME NEW i \in added
      PROVE  /\ filled[i] \in Condition /\ filled[i].layer = l
             /\ filled[i].label = sheet[source[i]].label /\ filled[i].index = sheet[source[i]].index
             /\ filled[i].por = sheet[source[i]].por
  <2> DEFINE row == sheet[source[i]]
  <2>1. row \in Condition
    BY <1>8 DEF Lawful, IsSheet
  <2>2. filled[i] = RowOf(l, row.label, row.index, row.por, row.cells)
    BY <1>7 DEF CopyTo, RowOf
  <2> HIDE DEF row
  <2>3. /\ filled[i].layer = l /\ filled[i].label = row.label /\ filled[i].index = row.index
        /\ filled[i].por = row.por /\ filled[i].cells = row.cells /\ IsRow(filled[i])
    BY <2>2, MadeRow
  <2>4. filled[i] \in Condition
    BY <2>1, <2>3, RowFields
  <2> QED
    BY <2>3, <2>4 DEF row
<1>10. IsSheet(filled)
  BY <1>1, <1>5, <1>7, <1>9 DEF IsSheet
<1>11. Ranked(filled, m)
  <2>1. \A i \in DOMAIN rest : rest[i].index \in Nat /\ rest[i].index <= drawn
    BY <1>1 DEF Ranked, IsSheet, Condition
  <2>2. \A i \in added : filled[i].index \in Nat /\ filled[i].index <= drawn
    BY <1>8, <1>9 DEF Lawful, Ranked, Condition
  <2> QED
    BY <1>4, <1>5, <1>7, <2>1, <2>2 DEF Ranked
<1>12. \A i, j \in added : i # j => /\ source[i] # source[j]
                                   /\ sheet[source[i]].index # sheet[source[j]].index
  <2>1. ASSUME NEW i \in added, NEW j \in added, i < j
        PROVE  /\ sheet[source[i]].index # sheet[source[j]].index
    <3>1. sheet[source[i]].index < sheet[source[j]].index
      BY <1>2, <1>6, <2>1
    <3>2. sheet[source[i]].index \in Nat /\ sheet[source[j]].index \in Nat
      BY <1>8 DEF Lawful, IsSheet, Condition
    <3> QED
      BY <3>1, <3>2
  <2> QED
    BY <1>5, <2>1
<1>13. Constraints(filled) /\ LabelsDiffer(filled)
  <2>1. ASSUME NEW i \in DOMAIN filled, NEW j \in DOMAIN filled, i # j,
               filled[i].layer = filled[j].layer
        PROVE  /\ filled[i].index # filled[j].index /\ filled[i].label # filled[j].label
               /\ ~(filled[i].por /\ filled[j].por)
    <3>1. CASE i \in DOMAIN rest /\ j \in DOMAIN rest
      BY <1>1, <1>7, <2>1, <3>1 DEF Constraints, LabelsDiffer
    <3>2. CASE i \in added /\ j \in added
      <4>1. /\ source[i] \in DOMAIN sheet /\ source[j] \in DOMAIN sheet /\ source[i] # source[j]
            /\ sheet[source[i]].layer = sheet[source[j]].layer
        BY <1>8, <1>12, <2>1, <3>2
      <4>2. /\ sheet[source[i]].index # sheet[source[j]].index
            /\ sheet[source[i]].label # sheet[source[j]].label
            /\ ~(sheet[source[i]].por /\ sheet[source[j]].por)
        BY <4>1 DEF Lawful, Constraints, LabelsDiffer
      <4> QED
        BY <1>9, <3>2, <4>2
    <3>3. \A k \in DOMAIN rest : rest[k].layer # l
      BY <1>1 DEF InLayer
    <3> QED
      BY <1>7, <1>9, <2>1, <3>1, <3>2, <3>3
  <2> QED
    BY <2>1 DEF Constraints, LabelsDiffer
<1>14. /\ drawn + 1 \in InLayer(filled, l)
       /\ \A k \in Layer \ {l} : /\ InLayer(sheet, k) \subseteq InLayer(filled, k)
                                 /\ PorOf(sheet, k) \subseteq PorOf(filled, k)
  BY <1>1, <1>5, <1>7, <1>9 DEF InLayer, PorOf
<1>15. NoneEmpty(filled) /\ LosesPor(sheet, filled) \subseteq {l}
  BY <1>14 DEF Lawful, NoneEmpty, LosesPor
<1>16. ASSUME NEW options PROVE ChosenFrom(sheet, filled, options)
  <2>1. \A i \in DOMAIN sheet \intersect DOMAIN filled : filled[i] = sheet[i]
    <3>1. \A i \in added : i \notin DOMAIN sheet
      BY <1>4 DEF Lawful, Ranked, added
    <3> QED
      BY <1>1, <1>7, <3>1
  <2> QED
    BY <2>1 DEF ChosenFrom
<1>17. drawn <= m
  BY <1>4
<1> QED
  BY <1>2, <1>4, <1>10, <1>11, <1>13, <1>15, <1>16, <1>17 DEF Lawful, filled, rest, added

-----------------------------------------------------------------------------
(* What the operations tell *)

LEMMA ToldAdd ==
  ASSUME NEW rows, NEW i, i \notin DOMAIN rows, NEW row
  PROVE  Retold(Known(rows), <<[type |-> "CONDITION_ADD", id |-> i, snapshot |-> row]>>)
           = Known(Put(rows, i, row))
<1> DEFINE e == [type |-> "CONDITION_ADD", id |-> i, snapshot |-> row]
<1>1. Retell(Known(rows), e) = Known(Put(rows, i, row))
  BY DEF Retell, Known
<1> QED
  BY <1>1, RetoldOne

LEMMA ToldDelete ==
  ASSUME NEW rows, NEW i \in DOMAIN rows
  PROVE  Retold(Known(rows), <<[type |-> "CONDITION_REMOVE", id |-> i, snapshot |-> rows[i]]>>)
           = Known(Without(rows, {i}))
<1> DEFINE e == [type |-> "CONDITION_REMOVE", id |-> i, snapshot |-> rows[i]]
<1>1. Retell(Known(rows), e) = Known(Without(rows, {i}))
  BY DEF Retell, Known
<1> QED
  BY <1>1, RetoldOne

\* The event of a move of the POR names the former POR of the layer, the only one.
LEMMA ToldPor ==
  ASSUME drawn \in Nat, Lawful(sheet, drawn), NEW i \in DOMAIN sheet
  PROVE  LET l == sheet[i].layer
             old == PorOf(sheet, l)
             e == [type |-> "POR_CHANGE", new |-> i,
                   old |-> IF old = {} THEN None ELSE CHOOSE j \in old : TRUE]
         IN  /\ Retold(Known(sheet), <<e>>) = Known(SetPor(ClearPor(sheet, l), i, TRUE))
             /\ e \in Event
<1> DEFINE l == sheet[i].layer
           por == PorOf(sheet, l)
           old == IF por = {} THEN None ELSE CHOOSE j \in por : TRUE
           e == [type |-> "POR_CHANGE", new |-> i, old |-> old]
           cleared == ClearPor(sheet, l)
           found == IF old = None THEN sheet ELSE SetPor(sheet, old, FALSE)
<1>1. IsSheet(sheet) /\ i \in Id
  BY DEF Lawful, IsSheet
<1>2. por \subseteq DOMAIN sheet /\ por \subseteq Id /\ None \notin Id
  BY <1>1, ConstantsAssumption DEF PorOf, InLayer, IsSheet, Id
<1>3. ASSUME NEW j \in por, NEW k \in por PROVE j = k
  BY <1>3 DEF Lawful, Constraints, PorOf, InLayer
<1>4. por = {} => old = None
  OBVIOUS
<1>5. por # {} => old \in por /\ old # None
  BY <1>2
<1>6. old \in Id \union {None} /\ por = {old} \ {None}
  BY <1>2, <1>3, <1>4, <1>5
<1>7. /\ IsSheet(cleared) /\ SameRows(sheet, cleared) /\ SameCells(sheet, cleared)
      /\ \A j \in DOMAIN sheet :
           /\ sheet[j].layer = l => cleared[j].por = FALSE
           /\ sheet[j].layer # l => cleared[j] = sheet[j]
  BY <1>1, ClearPorRows
<1> HIDE DEF old, cleared
<1>8. found = cleared
  <2>1. CASE por = {}
    <3>1. \A j \in DOMAIN sheet : sheet[j].layer = l => sheet[j].por = FALSE
      BY <1>1, <2>1, RowFields DEF PorOf, InLayer, IsSheet
    <3>2. \A j \in DOMAIN sheet : cleared[j].por = sheet[j].por
      BY <1>7, <3>1
    <3> QED
      BY <1>1, <1>4, <1>7, <2>1, <3>2, SheetsAreEqual
  <2>2. CASE por # {}
    <3> DEFINE unset == SetPor(sheet, old, FALSE)
    <3>1. old \in por /\ old \in DOMAIN sheet /\ found = unset
      BY <1>2, <1>5, <2>2
    <3>2. /\ IsSheet(unset) /\ SameRows(sheet, unset) /\ SameCells(sheet, unset)
          /\ unset[old].por = FALSE
          /\ \A j \in DOMAIN sheet \ {old} : unset[j] = sheet[j]
      BY <1>1, <3>1, PorUnset, Zenon
    <3> HIDE DEF unset
    <3>3. \A j \in DOMAIN sheet : j # old /\ sheet[j].layer = l => sheet[j].por = FALSE
      BY <1>1, <1>3, <3>1, RowFields DEF PorOf, InLayer, IsSheet
    <3>4. sheet[old].layer = l
      BY <3>1 DEF PorOf, InLayer
    <3>5. \A j \in DOMAIN sheet : cleared[j].por = unset[j].por
      BY <1>7, <3>2, <3>3, <3>4
    <3>6. SameRows(unset, cleared) /\ SameCells(unset, cleared) /\ DOMAIN unset = DOMAIN sheet
      BY <1>7, <3>2 DEF SameRows, SameCells
    <3>7. unset = cleared
      BY <1>7, <3>2, <3>5, <3>6, SheetsAreEqual
    <3> QED
      BY <3>1, <3>7
  <2> QED
    BY <2>1, <2>2
<1>9. Retell(Known(sheet), e) = Known(SetPor(cleared, i, TRUE))
  <2>1. Retell(Known(sheet), e) =
          [rows |-> SetPor(found, i, TRUE), agree |-> por = {old} \ {None}]
    BY DEF Retell, Known
  <2>2. Retell(Known(sheet), e) = [rows |-> SetPor(found, i, TRUE), agree |-> TRUE]
    BY <1>6, <2>1
  <2> QED
    BY <1>8, <2>2 DEF Known
<1>10. e \in Event
  BY <1>1, <1>6 DEF Event
<1>11. Retold(Known(sheet), <<e>>) = Known(SetPor(cleared, i, TRUE))
  BY <1>9, RetoldOne
<1> QED
  BY <1>10, <1>11 DEF old, cleared

\* The event of a replacement has the rows from which the reader makes the copies.
LEMMA ToldReplacement ==
  ASSUME drawn \in Nat, Lawful(sheet, drawn), NEW l \in Layer, NEW capture, IsSheet(capture),
         NEW m \in Nat, NEW source \in [drawn + 1 .. m -> DOMAIN capture], m <= MaxId
  PROVE  LET e == [type |-> "BACKBONE_LAYER_REPLACE", layer |-> l,
                   before |-> Cardinality(InLayer(sheet, l)), capture |-> capture,
                   detail |-> source]
         IN  /\ Retold(Known(sheet), <<e>>)
                   = Known(Filled(ClearLayer(l), drawn + 1 .. m, l, capture, source))
             /\ IsReplacement(e)
<1> DEFINE e == [type |-> "BACKBONE_LAYER_REPLACE", layer |-> l,
                 before |-> Cardinality(InLayer(sheet, l)), capture |-> capture,
                 detail |-> source]
           kept == Without(sheet, InLayer(sheet, l))
           added == drawn + 1 .. m
           copied == [i \in DOMAIN kept \union DOMAIN source |->
                        IF i \in DOMAIN kept THEN kept[i]
                        ELSE [capture[source[i]] EXCEPT !.layer = l]]
<1>1. Retell(Known(sheet), e) = [rows |-> copied, agree |-> TRUE]
  BY DEF Retell, Known
<1>2. DOMAIN source = added /\ DOMAIN kept \intersect added = {}
      /\ \A i \in added : capture[source[i]] \in Condition
  BY DEF Lawful, Ranked, IsSheet, Without, Id
<1>3. ASSUME NEW row \in Condition PROVE [row EXCEPT !.layer = l] = CopyTo(l, row)
  <2>1. row = RowOf(row.layer, row.label, row.index, row.por, row.cells)
    BY RowFields DEF IsRow
  <2> QED
    BY <2>1 DEF RowOf, CopyTo
<1>4. copied = Filled(kept, added, l, capture, source)
  BY <1>2, <1>3 DEF Filled
<1>5. Retold(Known(sheet), <<e>>) = Known(Filled(ClearLayer(l), added, l, capture, source))
  BY <1>1, <1>4, RetoldOne DEF Known, ClearLayer
<1>6. IsReplacement(e)
  <2>1. Cardinality(InLayer(sheet, l)) \in Nat
    BY FiniteRows DEF Lawful
  <2>2. added \subseteq Id
    BY ConstantsAssumption DEF Id
  <2> QED
    BY <2>1, <2>2 DEF IsReplacement
<1> QED
  BY <1>5, <1>6

-----------------------------------------------------------------------------
(* The invariant *)

LEMMA NoRowsIsSheet == IsSheet(NoRows) /\ Constraints(NoRows)
BY DEF IsSheet, NoRows, Constraints

\* No event, or one.
LEMMA EventsTyped ==
  /\ \A k \in DOMAIN << >> : IsEvent(<< >>[k])
  /\ \A e : IsEvent(e) => \A k \in DOMAIN <<e>> : IsEvent(<<e>>[k])
<1>1. ASSUME NEW e, IsEvent(e), NEW k \in DOMAIN <<e>> PROVE IsEvent(<<e>>[k])
  <2>1. k = 1 /\ <<e>>[1] = e
    OBVIOUS
  <2> QED
    BY <1>1, <2>1
<1> QED
  BY <1>1

LEMMA MadeOperation ==
  ASSUME NEW stage \in Stage, NEW op \in {"none", "add", "delete", "por", "patch", "replace"},
         NEW rows, IsSheet(rows), NEW events, \A k \in DOMAIN events : IsEvent(events[k]),
         NEW locks \in BOOLEAN, NEW target \in Id \union Layer \union {None},
         NEW capture, IsSheet(capture), NEW t,
         t = Operation(stage, op, rows, events, locks, target, capture)
  PROVE  /\ OperationTyped(t) /\ IsOperation(t)
         /\ t.stage = stage /\ t.op = op /\ t.rows = rows /\ t.events = events
         /\ t.target = target /\ t.capture = capture /\ t.locks = locks
<1>1. /\ t.stage = stage /\ t.op = op /\ t.rows = rows /\ t.events = events
      /\ t.target = target /\ t.capture = capture /\ t.locks = locks
      /\ DOMAIN t = {"stage", "op", "rows", "events", "locks", "target", "capture"}
  BY DEF Operation
<1>2. IsOperation(t)
  BY <1>1 DEF IsOperation
<1> QED
  BY <1>1, <1>2 DEF OperationTyped

\* The same for the operations that lock nothing.
Plain(stage, op, rows, events, target, capture) ==
  [stage |-> stage, op |-> op, rows |-> rows, events |-> events, locks |-> FALSE,
   target |-> target, capture |-> capture]

LEMMA MadePlainOperation ==
  ASSUME NEW stage \in Stage, NEW op \in {"none", "add", "delete", "por", "patch", "replace"},
         NEW rows, IsSheet(rows), NEW events, \A k \in DOMAIN events : IsEvent(events[k]),
         NEW target \in Id \union Layer \union {None}, NEW capture, IsSheet(capture), NEW t,
         t = Plain(stage, op, rows, events, target, capture)
  PROVE  /\ OperationTyped(t) /\ IsOperation(t)
         /\ t.stage = stage /\ t.op = op /\ t.rows = rows /\ t.events = events
         /\ t.target = target /\ t.capture = capture
<1>1. /\ t.stage = stage /\ t.op = op /\ t.rows = rows /\ t.events = events
      /\ t.target = target /\ t.capture = capture /\ t.locks = FALSE
      /\ DOMAIN t = {"stage", "op", "rows", "events", "locks", "target", "capture"}
  BY DEF Plain
<1>2. IsOperation(t)
  BY <1>1 DEF IsOperation, Plain, Operation
<1> QED
  BY <1>1, <1>2 DEF OperationTyped

LEMMA WrittenOperation ==
  ASSUME NEW op \in {"add", "delete"}, NEW rows, IsSheet(rows), NEW e, IsEvent(e), NEW t,
         t = Plain("written", op, rows, <<e>>, None, NoRows)
  PROVE  /\ OperationTyped(t) /\ IsOperation(t)
         /\ t.stage = "written" /\ t.rows = rows /\ t.events = <<e>>
<1>1. \A k \in DOMAIN <<e>> : IsEvent(<<e>>[k])
  BY EventsTyped
<1> QED
  BY <1>1, NoRowsIsSheet, MadePlainOperation DEF Stage

LEMMA InitHolds == Init => IInv
<1> SUFFICES ASSUME Init PROVE IInv
  OBVIOUS
<1>1. drawn \in Nat /\ drawn = Cardinality(Layer) /\ drawn \in 0 .. MaxId
  BY FS_CardinalityType, ConstantsAssumption DEF Init
<1>2. PICK drawnAs \in Bijection(1 .. Cardinality(Layer), Layer) :
        sheet = [i \in DOMAIN drawnAs |->
                   [layer |-> drawnAs[i], label |-> 0, index |-> 1, por |-> FALSE,
                    cells |-> NoCells]]
  BY DEF Init
<1>3. /\ drawnAs \in [1 .. drawn -> Layer] /\ DOMAIN drawnAs = 1 .. drawn
      /\ \A i, j \in 1 .. drawn : drawnAs[i] = drawnAs[j] => i = j
      /\ \A l \in Layer : \E i \in 1 .. drawn : drawnAs[i] = l
  BY <1>1, <1>2 DEF Bijection, Injection, Surjection, IsInjective
<1>4. DOMAIN sheet = 1 .. drawn /\ sheet = [i \in 1 .. drawn |-> sheet[i]]
      /\ \A i \in 1 .. drawn :
           sheet[i] = [layer |-> drawnAs[i], label |-> 0, index |-> 1, por |-> FALSE,
                       cells |-> NoCells]
  BY <1>2, <1>3
<1>5. \A i \in 1 .. drawn : /\ sheet[i].layer = drawnAs[i] /\ sheet[i].index = 1
                            /\ sheet[i] \in Condition
  <2>1. NoCells \in [Parameter -> Value \union {None}]
    BY DEF NoCells
  <2>2. ASSUME NEW i \in 1 .. drawn
        PROVE  sheet[i].layer = drawnAs[i] /\ sheet[i].index = 1 /\ sheet[i] \in Condition
    <3>1. sheet[i] = [layer |-> drawnAs[i], label |-> 0, index |-> 1, por |-> FALSE,
                      cells |-> NoCells]
      BY <1>4
    <3>2. drawnAs[i] \in Layer
      BY <1>3
    <3>3. [layer |-> drawnAs[i], label |-> 0, index |-> 1, por |-> FALSE, cells |-> NoCells]
            \in Condition
      BY <2>1, <3>2 DEF Condition
    <3> QED
      BY <3>1, <3>3
  <2> QED
    BY <2>2
<1>6. IsSheet(sheet)
  <2>1. 1 .. drawn \subseteq Id
    BY <1>1, ConstantsAssumption DEF Id
  <2> QED
    BY <1>4, <1>5, <2>1 DEF IsSheet
<1>7. Ranked(sheet, drawn)
  BY <1>1, <1>4, <1>5 DEF Ranked
<1>8. Constraints(sheet) /\ LabelsDiffer(sheet)
  BY <1>3, <1>4, <1>5 DEF Constraints, LabelsDiffer
<1>9. NoneEmpty(sheet)
  BY <1>3, <1>4, <1>5 DEF NoneEmpty, InLayer
<1>10. told = Known(sheet) /\ offered \subseteq Value
  BY DEF Init, Known
<1>11. OperationInv(txn)
  <2>1. txn = Plain("idle", "none", NoRows, << >>, None, NoRows)
    BY DEF Init, Idle, Plain
  <2>2. /\ OperationTyped(txn) /\ IsOperation(txn) /\ txn.stage = "idle" /\ txn.rows = NoRows
    BY <2>1, NoRowsIsSheet, EventsTyped, MadePlainOperation DEF Stage
  <2> QED
    BY <2>2, NoRowsIsSheet DEF OperationInv
<1> QED
  BY <1>1, <1>6, <1>7, <1>8, <1>9, <1>10, <1>11 DEF IInv, Lawful

\* The sheet without the operation.
Rest == /\ drawn \in 0 .. MaxId /\ offered \subseteq Value
        /\ Lawful(sheet, drawn) /\ told = Known(sheet)

\* An operation that ends leaves nothing half done.
LEMMA OperationEnds ==
  ASSUME Rest', txn' = Idle
  PROVE  IInv'
<1>1. txn' = Plain("idle", "none", NoRows, << >>, None, NoRows)
  BY DEF Idle, Plain
<1>2. /\ OperationTyped(txn') /\ IsOperation(txn') /\ txn'.stage = "idle" /\ txn'.rows = NoRows
  BY <1>1, NoRowsIsSheet, EventsTyped, MadePlainOperation DEF Stage
<1>3. OperationInv(txn)'
  BY <1>2, NoRowsIsSheet DEF OperationInv
<1> QED
  BY <1>3 DEF IInv, Rest

\* What a written operation must show.
LEMMA Writes ==
  ASSUME IInv, UNCHANGED <<sheet, told, offered>>, drawn' \in drawn .. MaxId,
         OperationTyped(txn'), IsOperation(txn'), txn'.stage = "written",
         Lawful(txn'.rows, drawn'), Retold(Known(sheet), txn'.events) = Known(txn'.rows),
         \A l \in LosesPor(sheet, txn'.rows) : txn'.op = "replace" /\ txn'.target = l,
         ChosenFrom(sheet, txn'.rows, IF txn'.locks THEN offered ELSE {})
  PROVE  IInv'
<1>1. drawn \in Nat /\ drawn' \in Nat /\ drawn <= drawn' /\ drawn' \in 0 .. MaxId
  BY DEF IInv
<1>2. Lawful(sheet, drawn')
  BY <1>1, DrawnGrows DEF IInv
<1>3. Acceptable(txn)'
  BY DEF Acceptable
<1>4. Constraints(txn'.rows)
  BY DEF Lawful
<1>5. OperationInv(txn)'
  BY <1>3, <1>4 DEF OperationInv
<1> QED
  BY <1>1, <1>2, <1>5 DEF IInv

LEMMA Facts ==
  ASSUME IInv
  PROVE  /\ drawn \in Nat /\ drawn <= MaxId /\ Lawful(sheet, drawn) /\ IsSheet(sheet)
         /\ DOMAIN sheet \subseteq Id
BY ConstantsAssumption DEF IInv, Lawful, IsSheet

LEMMA AddKeepsInv ==
  ASSUME IInv, NEW l \in Layer, NEW source \in DOMAIN sheet \union {None},
         AddCondition(l, source)
  PROVE  IInv'
<1> DEFINE row == [layer |-> l, label |-> NextLabel(sheet, l), index |-> NextIndex(sheet, l),
                   por |-> FALSE,
                   cells |-> IF source = None THEN NoCells ELSE sheet[source].cells]
           event == [type |-> "CONDITION_ADD", id |-> drawn + 1, snapshot |-> row]
           more == Put(sheet, drawn + 1, row)
<1>1. /\ drawn' = drawn + 1 /\ UNCHANGED <<sheet, told, offered>> /\ drawn < MaxId
      /\ txn' = Plain("written", "add", more, <<event>>, None, NoRows)
  BY DEF AddCondition, Idle, Plain
<1>2. row \in Condition
  <2>1. NextLabel(sheet, l) \in Nat /\ NextIndex(sheet, l) \in Nat \ {0}
    BY Facts, NewLabel, NewIndex DEF Lawful
  <2>2. (IF source = None THEN NoCells ELSE sheet[source].cells)
          \in [Parameter -> Value \union {None}]
    BY Facts, RowFields DEF NoCells, IsSheet
  <2> QED
    BY <2>1, <2>2 DEF Condition
<1>3. /\ row.layer = l /\ row.por = FALSE /\ row.label = NextLabel(sheet, l)
      /\ row.index = NextIndex(sheet, l)
  OBVIOUS
<1>4. drawn' \in drawn .. MaxId /\ drawn + 1 \in Id
  BY <1>1, Facts, ConstantsAssumption DEF Id
<1>5. IsEvent(event)
  BY <1>2, <1>4 DEF IsEvent, Event
<1> HIDE DEF row
<1>6. /\ row.index <= drawn + 1
      /\ \A i \in InLayer(sheet, row.layer) :
           sheet[i].index # row.index /\ sheet[i].label # row.label
  BY <1>3, Facts, NewLabel, NewIndex DEF Lawful
<1>7. /\ Lawful(more, drawn + 1) /\ drawn + 1 \notin DOMAIN sheet
      /\ LosesPor(sheet, more) = {} /\ \A options : ChosenFrom(sheet, more, options)
  BY <1>1, <1>2, <1>3, <1>6, Facts, AddedRow
<1>8. Retold(Known(sheet), <<event>>) = Known(more)
  BY <1>1, <1>7, ToldAdd
<1> HIDE DEF more, event
<1>9. /\ OperationTyped(txn') /\ IsOperation(txn')
      /\ txn'.stage = "written" /\ txn'.rows = more /\ txn'.events = <<event>>
  <2>1. IsSheet(more)
    BY <1>7 DEF Lawful
  <2> QED
    BY <1>1, <1>5, <2>1, WrittenOperation
<1> QED
  BY <1>1, <1>4, <1>7, <1>8, <1>9, Writes

LEMMA DeleteKeepsInv ==
  ASSUME IInv, NEW i \in DOMAIN sheet, DeleteCondition(i)
  PROVE  IInv'
<1> DEFINE event == [type |-> "CONDITION_REMOVE", id |-> i, snapshot |-> sheet[i]]
           rest == Without(sheet, {i})
<1>1. /\ MayDelete(i) /\ UNCHANGED <<sheet, drawn, told, offered>>
      /\ txn' = Plain("written", "delete", rest, <<event>>, None, NoRows)
  BY DEF DeleteCondition, Idle, Plain
<1>2. drawn' \in drawn .. MaxId
  BY <1>1, Facts, ConstantsAssumption
<1>3. IsEvent(event)
  BY Facts DEF IsEvent, Event, IsSheet
<1>4. /\ Lawful(rest, drawn) /\ LosesPor(sheet, rest) = {}
      /\ \A options : ChosenFrom(sheet, rest, options)
  BY <1>1, Facts, DeletedRow
<1>5. Retold(Known(sheet), <<event>>) = Known(rest)
  BY ToldDelete
<1> HIDE DEF rest, event
<1>6. /\ OperationTyped(txn') /\ IsOperation(txn')
      /\ txn'.stage = "written" /\ txn'.rows = rest /\ txn'.events = <<event>>
  <2>1. IsSheet(rest)
    BY <1>4 DEF Lawful
  <2> QED
    BY <1>1, <1>3, <2>1, WrittenOperation
<1> QED
  BY <1>1, <1>2, <1>4, <1>5, <1>6, Writes

LEMMA BeginSetPorKeepsInv ==
  ASSUME IInv, NEW i \in DOMAIN sheet, BeginSetPor(i)
  PROVE  IInv'
<1> DEFINE cleared == ClearPor(sheet, sheet[i].layer)
<1>1. /\ UNCHANGED <<sheet, drawn, told, offered>>
      /\ txn' = Plain("half", "por", cleared, << >>, i, NoRows)
  BY DEF BeginSetPor, Idle, Plain
<1>2. Lawful(cleared, drawn)
  BY Facts, MovedPor
<1>3. i \in Id
  BY Facts
<1> HIDE DEF cleared
<1>4. /\ OperationTyped(txn') /\ IsOperation(txn') /\ txn'.stage = "half"
      /\ txn'.op = "por" /\ txn'.rows = cleared /\ txn'.target = i
  BY <1>1, <1>2, <1>3, NoRowsIsSheet, EventsTyped, MadePlainOperation DEF Stage, Lawful
<1>5. PorCleared(txn)'
  <2>1. i \in DOMAIN sheet /\ txn'.rows = ClearPor(sheet, sheet[i].layer)
    BY <1>4 DEF cleared
  <2>2. txn'.target \in DOMAIN sheet' /\ txn'.rows = ClearPor(sheet', sheet'[txn'.target].layer)
    BY <1>1, <1>4, <2>1
  <2> QED
    BY <2>2 DEF PorCleared
<1>6. OperationInv(txn)'
  BY <1>2, <1>4, <1>5 DEF OperationInv, Lawful
<1> QED
  BY <1>1, <1>6 DEF IInv

LEMMA FinishSetPorKeepsInv ==
  ASSUME IInv, FinishSetPor
  PROVE  IInv'
<1> DEFINE i == txn.target
           old == PorOf(sheet, sheet[i].layer)
           event == [type |-> "POR_CHANGE", new |-> i,
                     old |-> IF old = {} THEN None ELSE CHOOSE j \in old : TRUE]
           moved == SetPor(ClearPor(sheet, sheet[i].layer), i, TRUE)
<1>1. /\ i \in DOMAIN sheet /\ txn.rows = ClearPor(sheet, sheet[i].layer)
      /\ OperationTyped(txn) /\ IsOperation(txn)
  BY DEF FinishSetPor, IInv, OperationInv, PorCleared
<1>2. /\ UNCHANGED <<sheet, drawn, told, offered>>
      /\ txn' = Operation("written", txn.op, moved, <<event>>, txn.locks, i, txn.capture)
  BY <1>1 DEF FinishSetPor, IsOperation, Operation
<1>3. drawn' \in drawn .. MaxId
  BY <1>2, Facts, ConstantsAssumption
<1>4. /\ Lawful(moved, drawn) /\ LosesPor(sheet, moved) = {}
      /\ \A options : ChosenFrom(sheet, moved, options)
  BY <1>1, Facts, MovedPor
<1>5. Retold(Known(sheet), <<event>>) = Known(moved) /\ event \in Event
  BY <1>1, Facts, ToldPor
<1>6. IsEvent(event)
  BY <1>5 DEF IsEvent
<1> HIDE DEF moved, event
<1>7. /\ OperationTyped(txn') /\ IsOperation(txn')
      /\ txn'.stage = "written" /\ txn'.rows = moved /\ txn'.events = <<event>>
  <2>1. IsSheet(moved) /\ \A k \in DOMAIN <<event>> : IsEvent(<<event>>[k])
    BY <1>4, <1>6, EventsTyped DEF Lawful
  <2>2. /\ txn.op \in {"none", "add", "delete", "por", "patch", "replace"}
        /\ txn.locks \in BOOLEAN /\ i \in Id \union Layer \union {None}
        /\ IsSheet(txn.capture) /\ "written" \in Stage
    BY <1>1 DEF OperationTyped, Stage
  <2> QED
    BY <1>2, <2>1, <2>2, MadeOperation
<1> QED
  BY <1>2, <1>3, <1>4, <1>5, <1>7, Writes

LEMMA PatchKeepsInv ==
  ASSUME IInv, NEW batch \in Batch, PatchCells(batch)
  PROVE  IInv'
<1>1. PICK n \in 1 .. MaxBatch : batch \in [1 .. n -> Change]
  BY DEF Batch
<1> DEFINE patched == Simulated(sheet, batch, n + 1)
           events == CellEvents(sheet, batch)
           options == IF Locks(batch) THEN offered ELSE {}
<1>2. n \in Nat /\ Len(batch) = n /\ DOMAIN batch = 1 .. n
  BY <1>1, ConstantsAssumption
<1>3. /\ UNCHANGED <<sheet, drawn, told, offered>> /\ Legal(batch)
      /\ txn' = Operation("written", "patch", patched, events, Locks(batch), None, NoRows)
  BY <1>2 DEF PatchCells, Idle, Operation
<1>4. IsBatch(batch, n, sheet)
  BY <1>1, <1>2 DEF PatchCells, IsBatch
<1>5. drawn' \in drawn .. MaxId
  BY <1>3, Facts, ConstantsAssumption
<1>6. n + 1 \in 1 .. n + 1
  BY <1>2
<1>7. /\ IsSheet(patched) /\ SameRows(sheet, patched)
      /\ \A i \in DOMAIN sheet : patched[i].por = sheet[i].por
  <2>1. IsSheet(sheet)
    BY Facts
  <2> QED
    BY <1>2, <1>4, <1>6, <2>1, SimulatedRows
<1>8. Retold(Known(sheet), events) = Known(patched)
  BY <1>2, <1>4, Facts, ToldBatch
<1>9. \A k \in DOMAIN events : IsEvent(events[k])
  <2>1. DOMAIN events = 1 .. n
    BY <1>2 DEF CellEvents
  <2> QED
    BY <1>2, <1>4, <2>1, Facts, ToldChange
<1>10. ChosenFrom(sheet, patched, options)
  <2> HIDE DEF options
  <2>1. n \in 0 .. n /\ options = IF Locks(batch) THEN offered ELSE {}
    BY <1>2 DEF options
  <2>2. \A i \in DOMAIN sheet : \A p \in Choice :
          patched[i].cells[p] \in options \union {None, sheet[i].cells[p]}
    BY <1>2, <1>3, <1>4, <2>1, Facts, ChosenBefore
  <2> QED
    BY <2>2 DEF ChosenFrom
<1> HIDE DEF patched, events
<1>11. OnePor(patched)
  BY <1>7, Facts DEF OnePor, SameRows, Lawful, Constraints
<1>12. Lawful(patched, drawn)
  BY <1>7, <1>11, Facts, SameRowsAreLawful
<1>13. LosesPor(sheet, patched) = {}
  BY <1>7 DEF LosesPor, PorOf, InLayer, SameRows
<1> DEFINE locks == Locks(batch)
<1>14. locks \in BOOLEAN
  BY DEF Locks
<1>15. /\ OperationTyped(txn') /\ IsOperation(txn')
       /\ txn'.stage = "written" /\ txn'.rows = patched /\ txn'.events = events
       /\ txn'.locks = locks
  <2> HIDE DEF locks
  <2>1. txn' = Operation("written", "patch", patched, events, locks, None, NoRows)
    BY <1>3 DEF locks
  <2>2. "written" \in Stage
    BY DEF Stage
  <2> QED
    BY <1>7, <1>9, <1>14, <2>1, <2>2, NoRowsIsSheet, MadeOperation
<1>16. ChosenFrom(sheet, txn'.rows, IF txn'.locks THEN offered ELSE {})
  BY <1>10, <1>15
<1> QED
  BY <1>3, <1>5, <1>8, <1>12, <1>13, <1>15, <1>16, Writes

LEMMA BeginReplaceKeepsInv ==
  ASSUME IInv, NEW l \in Layer, NEW source \in Layer, BeginReplace(l, source)
  PROVE  IInv'
<1> DEFINE rest == ClearLayer(l)
           captured == Captured(source)
<1>1. /\ UNCHANGED <<sheet, drawn, told, offered>>
      /\ txn' = Plain("half", "replace", rest, << >>, l, captured)
  BY DEF BeginReplace, Idle, Plain, Captured
<1>2. IsSheet(rest) /\ Ranked(rest, drawn) /\ Constraints(rest)
  BY Facts, FewerRows DEF ClearLayer
<1>3. IsSheet(captured) /\ Ranked(captured, drawn)
  BY Facts, FewerRows DEF Captured
<1> HIDE DEF rest, captured
<1>4. /\ OperationTyped(txn') /\ IsOperation(txn') /\ txn'.stage = "half"
      /\ txn'.op = "replace" /\ txn'.rows = rest /\ txn'.target = l /\ txn'.capture = captured
  BY <1>1, <1>2, <1>3, EventsTyped, MadePlainOperation DEF Stage
<1>5. LayerCleared(txn)'
  <2>1. /\ txn'.target \in Layer /\ txn'.rows = ClearLayer(txn'.target)
        /\ txn'.capture = Captured(source)
    BY <1>4 DEF rest, captured
  <2> QED
    BY <1>1, <2>1 DEF LayerCleared, ClearLayer, Captured
<1>6. OperationInv(txn)'
  BY <1>2, <1>4, <1>5 DEF OperationInv
<1> QED
  BY <1>1, <1>6 DEF IInv

LEMMA FinishReplaceKeepsInv ==
  ASSUME IInv, FinishReplace
  PROVE  IInv'
<1> DEFINE l == txn.target
           capture == txn.capture
           m == drawn + Cardinality(DOMAIN capture)
           added == drawn + 1 .. m
<1>1. PICK other \in Layer : capture = Captured(other)
  BY DEF FinishReplace, IInv, OperationInv, LayerCleared
<1>2. /\ l \in Layer /\ txn.rows = ClearLayer(l) /\ OperationTyped(txn) /\ IsOperation(txn)
  BY DEF FinishReplace, IInv, OperationInv, LayerCleared
<1>3. PICK source \in Ordered(capture, added) :
        txn' = [txn EXCEPT !.stage = "written",
                  !.rows = Filled(txn.rows, added, l, capture, source),
                  !.events = <<[type |-> "BACKBONE_LAYER_REPLACE", layer |-> l,
                                before |-> Cardinality(InLayer(sheet, l)),
                                capture |-> capture, detail |-> source]>>]
  BY DEF FinishReplace, Filled
<1> DEFINE filled == Filled(ClearLayer(l), added, l, capture, source)
           event == [type |-> "BACKBONE_LAYER_REPLACE", layer |-> l,
                     before |-> Cardinality(InLayer(sheet, l)), capture |-> capture,
                     detail |-> source]
<1>4. txn' = Operation("written", "replace", filled, <<event>>, txn.locks, l, capture)
  <2>1. txn = Operation(txn.stage, txn.op, txn.rows, txn.events, txn.locks, txn.target,
                        txn.capture) /\ txn.op = "replace"
    BY <1>2 DEF IsOperation, FinishReplace
  <2> QED
    BY <1>2, <1>3, <2>1 DEF Operation
<1>5. /\ UNCHANGED <<sheet, told, offered>> /\ drawn' = m /\ m <= MaxId
  BY DEF FinishReplace
<1>6. /\ m \in Nat /\ drawn <= m /\ IsSheet(capture)
      /\ Lawful(filled, m) /\ LosesPor(sheet, filled) \subseteq {l}
      /\ \A options : ChosenFrom(sheet, filled, options)
  <2> HIDE DEF l, capture, m
  <2>1. m = drawn + Cardinality(DOMAIN capture)
    BY DEF m
  <2> QED
    BY <1>1, <1>2, <1>5, <2>1, Facts, FilledLayer
<1>7. source \in [drawn + 1 .. m -> DOMAIN capture]
  BY DEF Ordered
<1>8. Retold(Known(sheet), <<event>>) = Known(filled) /\ IsReplacement(event)
  <2> HIDE DEF l, capture, m
  <2> QED
    BY <1>2, <1>5, <1>6, <1>7, Facts, ToldReplacement
<1>9. drawn' \in drawn .. MaxId
  BY <1>5, <1>6, Facts, ConstantsAssumption
<1> HIDE DEF filled, event
<1>10. /\ OperationTyped(txn') /\ IsOperation(txn') /\ txn'.op = "replace" /\ txn'.target = l
       /\ txn'.stage = "written" /\ txn'.rows = filled /\ txn'.events = <<event>>
  <2>1. IsSheet(filled) /\ \A k \in DOMAIN <<event>> : IsEvent(<<event>>[k])
    BY <1>6, <1>8, EventsTyped DEF Lawful, IsEvent
  <2>2. "written" \in Stage /\ txn.locks \in BOOLEAN
    BY <1>2 DEF Stage, OperationTyped
  <2> QED
    BY <1>2, <1>4, <1>6, <2>1, <2>2, MadeOperation
<1>11. Lawful(txn'.rows, drawn') /\ Retold(Known(sheet), txn'.events) = Known(txn'.rows)
  BY <1>5, <1>6, <1>8, <1>10
<1>12. /\ \A k \in LosesPor(sheet, txn'.rows) : txn'.op = "replace" /\ txn'.target = k
       /\ ChosenFrom(sheet, txn'.rows, IF txn'.locks THEN offered ELSE {})
  BY <1>6, <1>10
<1> QED
  BY <1>5, <1>9, <1>10, <1>11, <1>12, Writes

LEMMA CommitKeepsInv ==
  ASSUME IInv, Commit
  PROVE  IInv'
<1>1. /\ sheet' = txn.rows /\ told' = Retold(told, txn.events) /\ txn' = Idle
      /\ UNCHANGED <<drawn, offered>> /\ Acceptable(txn)
  BY DEF Commit, IInv, OperationInv
<1>2. told' = Known(txn.rows) /\ Lawful(txn.rows, drawn)
  BY <1>1 DEF IInv, Acceptable
<1>3. Rest'
  BY <1>1, <1>2 DEF Rest, IInv
<1> QED
  BY <1>1, <1>3, OperationEnds

\* A change of the offer meets no operation that has locked the options.
LEMMA OfferKeepsInv ==
  ASSUME IInv, NEW options \in SUBSET Value, ChangeOffer(options)
  PROVE  IInv'
<1>1. ~txn.locks /\ offered' = options /\ UNCHANGED <<sheet, drawn, told, txn>>
  BY DEF ChangeOffer
<1>2. OperationInv(txn)'
  BY <1>1 DEF IInv, OperationInv, Acceptable, PorCleared, LayerCleared, ClearLayer, Captured
<1> QED
  BY <1>1, <1>2 DEF IInv

LEMMA UnchangedKeepsInv ==
  ASSUME IInv, UNCHANGED vars
  PROVE  IInv'
<1>1. UNCHANGED <<sheet, drawn, told, txn, offered>>
  BY DEF vars
<1>2. OperationInv(txn)'
  BY <1>1 DEF IInv, OperationInv, Acceptable, PorCleared, LayerCleared, ClearLayer, Captured
<1> QED
  BY <1>1, <1>2 DEF IInv

LEMMA NextKeepsInv == IInv /\ [Next]_vars => IInv'
<1> SUFFICES ASSUME IInv, [Next]_vars PROVE IInv'
  OBVIOUS
<1>1. ASSUME NEW l \in Layer, NEW source \in DOMAIN sheet \union {None}, AddCondition(l, source)
      PROVE  IInv'
  BY <1>1, AddKeepsInv
<1>2. ASSUME NEW i \in DOMAIN sheet, DeleteCondition(i) PROVE IInv'
  BY <1>2, DeleteKeepsInv
<1>3. ASSUME NEW i \in DOMAIN sheet, BeginSetPor(i) PROVE IInv'
  BY <1>3, BeginSetPorKeepsInv
<1>4. ASSUME NEW batch \in Batch, PatchCells(batch) PROVE IInv'
  BY <1>4, PatchKeepsInv
<1>5. ASSUME NEW l \in Layer, NEW source \in Layer, BeginReplace(l, source) PROVE IInv'
  BY <1>5, BeginReplaceKeepsInv
<1>6. CASE FinishSetPor
  BY <1>6, FinishSetPorKeepsInv
<1>7. CASE FinishReplace
  BY <1>7, FinishReplaceKeepsInv
<1>8. CASE Commit
  BY <1>8, CommitKeepsInv
<1>9. CASE Rollback
  <2>1. UNCHANGED <<sheet, drawn, told, offered>> /\ txn' = Idle
    BY <1>9 DEF Rollback
  <2>2. Rest'
    BY <2>1 DEF Rest, IInv
  <2> QED
    BY <2>1, <2>2, OperationEnds
<1>10. ASSUME NEW options \in SUBSET Value, ChangeOffer(options) PROVE IInv'
  BY <1>10, OfferKeepsInv
<1>11. CASE UNCHANGED vars
  BY <1>11, UnchangedKeepsInv
<1> QED
  BY <1>1, <1>2, <1>3, <1>4, <1>5, <1>6, <1>7, <1>8, <1>9, <1>10, <1>11 DEF Next

THEOREM SheetInvariant == Spec => []IInv
<1> QED
  BY InitHolds, NextKeepsInv, PTL DEF Spec

-----------------------------------------------------------------------------
(* Theorems *)

\* The rows and the change events of a sheet fit together: every operation writes
\* rows that keep the unique indexes in each flush, labels of their own and a row
\* in every layer, and records events from which a reader rebuilds those rows.
THEOREM SheetIsTold == Spec => []RowsAreTold
<1>1. ASSUME IInv PROVE RowsAreTold
  <2>1. TypeOK
    <3>1. IsSheet(sheet) /\ drawn \in 0 .. MaxId /\ offered \subseteq Value
      BY <1>1 DEF IInv, Lawful
    <3>2. DOMAIN told = {"rows", "agree"} /\ IsSheet(told.rows) /\ told.agree \in BOOLEAN
      BY <1>1, <3>1 DEF IInv, Known
    <3>3. OperationTyped(txn)
      BY <1>1 DEF IInv, OperationInv
    <3> QED
      BY <3>1, <3>2, <3>3 DEF TypeOK, OperationTyped, IsEvent
  <2>2. EventsTellTheSheet
    BY <1>1 DEF IInv, EventsTellTheSheet, Known
  <2>3. NoConstraintFires
    BY <1>1 DEF IInv, OperationInv, NoConstraintFires, Lawful
  <2>4. LabelsAreUnique /\ NoLayerIsEmpty
    BY <1>1 DEF IInv, Lawful, LabelsDiffer, NoneEmpty, LabelsAreUnique, NoLayerIsEmpty
  <2> QED
    BY <2>1, <2>2, <2>3, <2>4 DEF RowsAreTold
<1> QED
  BY <1>1, SheetInvariant, PTL

\* Only a commit changes the sheet, into what the operation wrote.
LEMMA Commits ==
  ASSUME IInv, Next
  PROVE  sheet' = sheet \/ (sheet' = txn.rows /\ Acceptable(txn))
<1>1. CASE Commit
  BY <1>1 DEF Commit, IInv, OperationInv
<1>2. Commit \/ sheet' = sheet
  BY DEF Next, AddCondition, DeleteCondition, BeginSetPor, FinishSetPor, PatchCells,
         BeginReplace, FinishReplace, Rollback, ChangeOffer
<1> QED
  BY <1>1, <1>2

\* A layer with a POR never loses it but to a replacement of the whole layer: the
\* two flushes of set_por are one commit, and delete_condition spares the POR.
THEOREM PorIsKept == Spec => PorIsOnlyMoved
<1> DEFINE Kept == \A l \in Layer : PorOf(sheet, l) # {} /\ PorOf(sheet', l) = {} =>
                                      txn.op = "replace" /\ txn.target = l
<1>1. ASSUME IInv, Next PROVE Kept
  BY <1>1, Commits DEF Acceptable, LosesPor
<1>2. IInv /\ [Next]_vars => [Kept]_vars
  BY <1>1
<1> QED
  BY <1>2, SheetInvariant, PTL DEF Spec, PorIsOnlyMoved

\* The options a batch leaves in cells are offered when it commits: resolve_options
\* locks the choice set for every batch that has an option before or after a
\* change, up to the commit.
THEOREM ChosenOptionsAreOffered == Spec => OnlyOfferedOptionsAreChosen
<1> DEFINE Chosen ==
      \A i \in DOMAIN sheet \intersect DOMAIN sheet' : \A p \in Choice :
        LET v == sheet'[i].cells[p] IN v \notin {None, sheet[i].cells[p]} => v \in offered
<1>1. ASSUME IInv, Next PROVE Chosen
  <2>1. CASE sheet' = sheet
    BY <2>1
  <2>2. CASE sheet' = txn.rows /\ Acceptable(txn)
    <3>1. ChosenFrom(sheet, sheet', IF txn.locks THEN offered ELSE {})
      BY <2>2 DEF Acceptable
    <3> QED
      BY <3>1 DEF ChosenFrom
  <2> QED
    BY <1>1, <2>1, <2>2, Commits
<1>2. IInv /\ [Next]_vars => [Chosen]_vars
  <2>1. CASE UNCHANGED vars
    BY <2>1 DEF vars
  <2> QED
    BY <1>1, <2>1
<1> QED
  BY <1>2, SheetInvariant, PTL DEF Spec, OnlyOfferedOptionsAreChosen

-----------------------------------------------------------------------------
(* The administration of a choice set: the states of the set, and which of its *)
(* versions there are.                                                         *)
Option == [l : Nat, s : Nat, on : BOOLEAN]
OptionSets == UNION {[C -> Option] : C \in SUBSET Codes}
SetStates == [on : BOOLEAN, name : Nat, opts : OptionSets]
Made == 1..Version

LEMMA OptionSetShape ==
    ASSUME NEW o \in OptionSets PROVE DOMAIN o \subseteq Codes /\ o \in [DOMAIN o -> Option]
  BY DEF OptionSets

LEMMA OptionSetMade ==
    ASSUME NEW o, DOMAIN o \subseteq Codes, o \in [DOMAIN o -> Option] PROVE o \in OptionSets
  BY DEF OptionSets

LEMMA NoOptions == <<>> \in OptionSets
  <1>1. <<>> \in [{} -> Option]
    OBVIOUS
  <1> QED BY <1>1 DEF OptionSets

LEMMA OptionChanged ==
    ASSUME NEW o \in OptionSets, NEW c, NEW w \in Option PROVE [o EXCEPT ![c] = w] \in OptionSets
  BY OptionSetShape, OptionSetMade

LEMMA OptionPut ==
    ASSUME NEW o \in OptionSets, NEW c \in Codes, NEW w \in Option
    PROVE  WithOption(o, c, w) \in OptionSets
  <1> DEFINE p == WithOption(o, c, w)
  <1>1. (DOMAIN p = (DOMAIN o) \cup {c}) /\ (p \in [(DOMAIN o) \cup {c} -> Option])
    BY OptionSetShape DEF WithOption
  <1> QED BY <1>1, OptionSetShape, OptionSetMade

(* A version once made stays as it is when others are made.                    *)
Grown == \E set \in SetStates : Bump(set)
LogFits == versions \in Seq(SetStates) /\ Version >= 1

LEMMA VersionsStay ==
    ASSUME LogFits, UNCHANGED versions \/ Grown
    PROVE  /\ LogFits' /\ Made \subseteq Made'
           /\ \A v \in Made : versions'[v] = versions[v]
  <1>1. CASE UNCHANGED versions
    BY <1>1 DEF LogFits, Version, Made
  <1>2. CASE Grown
    <2>1. PICK set \in SetStates : versions' = Append(versions, set)
      BY <1>2 DEF Grown, Bump
    <2>2. versions' \in Seq(SetStates) /\ Len(versions') = Len(versions) + 1 /\ Len(versions) \in Nat
      BY <2>1 DEF LogFits
    <2>3. \A v \in 1..Len(versions) : versions'[v] = versions[v]
      BY <2>1 DEF LogFits
    <2> QED BY <2>2, <2>3 DEF LogFits, Version, Made
  <1> QED BY <1>1, <1>2

LEMMA NowIsASet == ASSUME LogFits PROVE Version \in Made /\ Now \in SetStates /\ Made \subseteq Nat
  BY DEF LogFits, Version, Made, Now
LEMMA KnownAreSets ==
    ASSUME LogFits, NEW v \in Made PROVE v \in Nat /\ versions[v] \in SetStates
  BY DEF LogFits, Version, Made

-----------------------------------------------------------------------------
(* A reading of the options: what has been read is what the set had at the     *)
(* version read, up to the cursor.                                             *)
Readings == [want : Nat \cup {Absent}, restarts : Nat, v : Nat \cup {Absent}, opts : OptionSets,
             after : [s : Nat, c : Codes] \cup {Absent}]
ReadUpTo(opts, after) == [c \in DOMAIN opts \ Beyond(opts, after) |-> opts[c]]
ReadFits(r) ==
    /\ r \in Readings
    /\ r.v = Absent => r.opts = <<>> /\ r.after = Absent
    /\ r.v # Absent => /\ r.v \in Made /\ r.after # Absent
                       /\ r.opts = ReadUpTo(versions[r.v].opts, r.after)

LEMMA NothingRead ==
    ASSUME AdminConstants, NEW w \in Nat \cup {Absent}, NEW n \in Nat
    PROVE  ReadFits(StartRead(w, n)) /\ ReadFits(NoRead)
  BY NoOptions DEF AdminConstants, ReadFits, StartRead, NoRead, Readings

LEMMA FirstOfThem ==
    ASSUME AdminConstants, NEW o \in OptionSets, NEW S, S \subseteq DOMAIN o, S # {}
    PROVE  First(o, S) \in S /\ \A d \in S : d = First(o, S) \/ Precedes(o, First(o, S), d)
  <1> DEFINE Orders == {o[c].s : c \in S}
  <1>1. \A c \in S : c \in Nat /\ o[c].s \in Nat
    BY OptionSetShape DEF Option, AdminConstants
  <1>2. Orders \subseteq Nat /\ Orders # {}
    BY <1>1
  <1> HIDE DEF Orders
  <1>3. PICK m \in Orders : \A n \in Orders : m <= n
    BY <1>2, LeastOf
  <1> DEFINE Least == {c \in S : o[c].s = m}
  <1>4. Least \subseteq Nat /\ Least # {}
    BY <1>1, <1>3 DEF Orders
  <1> HIDE DEF Least
  <1>5. PICK c \in Least : \A d \in Least : c <= d
    BY <1>4, LeastOf
  <1>6. \A d \in S : d = c \/ Precedes(o, c, d)
    <2> SUFFICES ASSUME NEW d \in S, d # c PROVE Precedes(o, c, d)
      OBVIOUS
    <2>1. c \in S /\ o[c].s = m /\ m <= o[d].s
      BY <1>3, <1>5 DEF Least, Orders
    <2>2. o[d].s = m => c <= d
      BY <1>5 DEF Least
    <2> QED BY <1>1, <2>1, <2>2 DEF Precedes
  <1>7. c \in S
    BY <1>5 DEF Least
  <1>8. \E e \in S : \A d \in S : d = e \/ Precedes(o, e, d)
    BY <1>6, <1>7
  <1> QED BY <1>8 DEF First

(* Behind the first option of the rest the rest goes on without it.            *)
LEMMA CursorMoves ==
    ASSUME AdminConstants, NEW o \in OptionSets, NEW after \in [s : Nat, c : Codes] \cup {Absent},
           Beyond(o, after) # {}
    PROVE  LET f == First(o, Beyond(o, after))
               next == [s |-> o[f].s, c |-> f]
           IN /\ f \in Beyond(o, after) /\ f \in Codes /\ f \in DOMAIN o /\ o[f] \in Option
              /\ next \in [s : Nat, c : Codes] /\ next # Absent
              /\ Beyond(o, next) = Beyond(o, after) \ {f}
              /\ WithOption(ReadUpTo(o, after), f, o[f]) = ReadUpTo(o, next)
  <1> DEFINE rest == Beyond(o, after)
             f == First(o, rest)
             next == [s |-> o[f].s, c |-> f]
  <1>1. rest \subseteq DOMAIN o /\ (after = Absent => rest = DOMAIN o)
    BY DEF Beyond
  <1>2. f \in rest /\ \A d \in rest : d = f \/ Precedes(o, f, d)
    <2> HIDE DEF f, rest
    <2>1. First(o, rest) \in rest /\ \A d \in rest : d = First(o, rest) \/ Precedes(o, First(o, rest), d)
      BY <1>1, FirstOfThem DEF rest
    <2> QED BY <2>1 DEF f
  <1>3. \A c \in DOMAIN o : c \in Nat /\ c \in Codes /\ o[c] \in Option /\ o[c].s \in Nat
    BY OptionSetShape DEF Option, AdminConstants
  <1>4. f \in DOMAIN o /\ f \in Codes /\ f \in Nat /\ o[f] \in Option /\ o[f].s \in Nat
    BY <1>1, <1>2, <1>3
  <1> HIDE DEF f
  <1>5. next \in [s : Nat, c : Codes] /\ next.s = o[f].s /\ next.c = f
    BY <1>4
  <1>6. next # Absent
    BY <1>5 DEF AdminConstants
  <1> HIDE DEF next
  <1>7. \A d \in DOMAIN o : d \in Beyond(o, next) <=> Precedes(o, f, d)
    BY <1>3, <1>4, <1>5, <1>6 DEF Beyond, Precedes
  <1>8. \A d \in DOMAIN o : Precedes(o, f, d) => d \in rest /\ d # f
    <2> SUFFICES ASSUME NEW d \in DOMAIN o, Precedes(o, f, d) PROVE d \in rest /\ d # f
      OBVIOUS
    <2>1. d \in Nat /\ o[d].s \in Nat
      BY <1>3
    <2>2. CASE after = Absent
      BY <1>1, <1>4, <2>1, <2>2 DEF Precedes
    <2>3. CASE after # Absent
      <3>1. after.s \in Nat /\ after.c \in Nat
        BY <2>3 DEF AdminConstants
      <3>2. o[f].s > after.s \/ (o[f].s = after.s /\ f > after.c)
        BY <1>2, <2>3 DEF Beyond
      <3> QED BY <1>4, <2>1, <3>1, <3>2 DEF Precedes, Beyond
    <2> QED BY <2>2, <2>3
  <1>9. Beyond(o, next) = rest \ {f}
    <2>1. Beyond(o, next) \subseteq DOMAIN o
      BY DEF Beyond
    <2> QED BY <1>1, <1>2, <1>7, <1>8, <2>1
  <1>10. WithOption(ReadUpTo(o, after), f, o[f]) = ReadUpTo(o, next)
    <2>1. (DOMAIN o) \ Beyond(o, next) = ((DOMAIN o) \ rest) \cup {f}
      BY <1>1, <1>2, <1>4, <1>9
    <2> QED BY <2>1 DEF WithOption, ReadUpTo
  <1> QED BY <1>2, <1>4, <1>5, <1>6, <1>9, <1>10 DEF f, next

LEMMA PageTaken ==
    ASSUME AdminConstants, LogFits, NEW r, ReadFits(r), ~ReadingFails(r, NextPage(r))
    PROVE  /\ ~Ends(NextPage(r)) => ReadFits(TakePage(r, NextPage(r)))
           /\ Ends(NextPage(r)) =>
                /\ TakePage(r, NextPage(r)).v \in Made
                /\ TakePage(r, NextPage(r)).opts = versions[TakePage(r, NextPage(r)).v].opts
  <1> DEFINE p == NextPage(r)
             q == TakePage(r, p)
             rest == Beyond(Now.opts, r.after)
  <1> SUFFICES /\ ~Ends(p) => ReadFits(q)
               /\ Ends(p) => q.v \in Made /\ q.opts = versions[q.v].opts
    OBVIOUS
  <1>1. Version \in Made /\ Version \in Nat /\ Now.opts \in OptionSets
    BY NowIsASet DEF SetStates
  <1>2. CASE VersionAsked(r) # Version
    <2>1. p = [conflict |-> TRUE, v |-> Version]
      BY <1>2 DEF NextPage, ListOptions
    <2>2. q = StartRead(Version, r.restarts + 1) /\ r.restarts + 1 \in Nat /\ ~Ends(p)
      BY <2>1 DEF TakePage, Ends, ReadFits, Readings
    <2> QED BY <1>1, <2>2, NothingRead
  <1>3. CASE VersionAsked(r) = Version
    <2>1. p = APage(Version, rest)
      BY <1>3 DEF NextPage, ListOptions
    <2> PICK more \in BOOLEAN : more = \E c, d \in rest : c # d
      OBVIOUS
    <2>2. /\ p.conflict = FALSE /\ p.v = Version /\ p.more = more
          /\ p.code = IF rest = {} THEN Absent ELSE First(Now.opts, rest)
      BY <2>1 DEF APage
    <2> HIDE DEF p
    <2>3. /\ r \in Readings /\ r.opts = ReadUpTo(Now.opts, r.after)
          /\ r.after \in [s : Nat, c : Codes] \cup {Absent}
      <3>1. CASE r.v = Absent
        <4>1. r.opts = <<>> /\ r.after = Absent
          BY <3>1 DEF ReadFits
        <4>2. DOMAIN Now.opts \ Beyond(Now.opts, Absent) = {}
          BY DEF Beyond
        <4>3. ReadUpTo(Now.opts, Absent) = <<>>
          BY <4>2 DEF ReadUpTo
        <4> QED BY <4>1, <4>3 DEF ReadFits, Readings
      <3>2. CASE r.v # Absent
        BY <1>3, <3>2 DEF VersionAsked, ReadFits, Readings, Now
      <3> QED BY <3>1, <3>2
    <2>4. CASE rest = {}
      <3>1. p.code = Absent /\ Ends(p)
        BY <2>2, <2>4 DEF Ends
      <3>2. q.v = Version /\ q.opts = r.opts
        BY <2>2, <2>3, <3>1 DEF TakePage, Readings
      <3>3. r.opts = Now.opts
        BY <1>1, <2>3, <2>4, OptionSetShape DEF ReadUpTo
      <3> QED BY <1>1, <3>1, <3>2, <3>3 DEF Now
    <2>5. CASE rest # {}
      <3> DEFINE f == First(Now.opts, rest)
                 next == [s |-> Now.opts[f].s, c |-> f]
      <3>1. /\ f \in rest /\ f \in Codes /\ Now.opts[f] \in Option
            /\ next \in [s : Nat, c : Codes] /\ next # Absent
            /\ Beyond(Now.opts, next) = rest \ {f}
            /\ WithOption(r.opts, f, Now.opts[f]) = ReadUpTo(Now.opts, next)
        BY <1>1, <2>3, <2>5, CursorMoves
      <3>2. p.code = f /\ f # Absent
        BY <2>2, <2>5, <3>1 DEF AdminConstants
      <3> HIDE DEF f
      <3>3. PICK opts \in OptionSets : opts = WithOption(r.opts, f, Now.opts[f])
        BY <2>3, <3>1, OptionPut DEF Readings
      <3>4. q = [r EXCEPT !.v = Version, !.after = next, !.opts = opts]
        BY <2>2, <3>2, <3>3 DEF TakePage
      <3> HIDE DEF q, next
      <3>5. /\ q \in Readings /\ q.v = Version /\ q.after = next
            /\ q.opts = ReadUpTo(versions[Version].opts, next)
        BY <1>1, <2>3, <3>1, <3>3, <3>4 DEF Readings, Now
      <3>6. ReadFits(q)
        BY <1>1, <3>1, <3>5 DEF ReadFits, AdminConstants
      <3>7. Ends(p) => q.opts = versions[q.v].opts
        <4> SUFFICES ASSUME Ends(p) PROVE q.opts = versions[q.v].opts
          OBVIOUS
        <4>1. rest = {f}
          BY <2>2, <3>1 DEF Ends
        <4>2. Beyond(Now.opts, next) = {}
          BY <3>1, <4>1
        <4>3. ReadUpTo(Now.opts, next) = Now.opts
          BY <1>1, <4>2, OptionSetShape DEF ReadUpTo
        <4> QED BY <3>5, <4>3 DEF Now
      <3> QED BY <1>1, <3>5, <3>6, <3>7 DEF q
    <2> QED BY <2>4, <2>5 DEF p
  <1> QED BY <1>2, <1>3

-----------------------------------------------------------------------------
(* What the page knows of the versions, what it has cached, and its draft.     *)
SumsFit == {sum, listed, sread} \subseteq Made \cup {Absent}
AggregateFits(a) == a.v \in Made /\ a.opts = versions[a.v].opts
CacheFits == \A a \in aggregates : AggregateFits(a)
ReadingsFit ==
    /\ ReadFits(reading) /\ ReadFits(reload.read)
    /\ reload = [phase |-> reload.phase, read |-> reload.read, v |-> reload.v,
                 tries |-> reload.tries]
Draft(o) == o = [base |-> o.base, seq |-> o.seq, opts |-> o.opts, conflict |-> o.conflict,
                 dirty |-> o.dirty, rebased |-> o.rebased]
OrderFits(o) == Draft(o) /\ o.opts \in OptionSets /\ DOMAIN o.seq \subseteq Nat \ {0}

(* A dialog, and a mutation under way, by their kinds: a preview is the plan   *)
(* for the version it was made of.                                             *)
PlanFits(v, csv, plan) == v \in Made /\ plan = ImportPlan(versions[v], csv)
OptionDialog(d) ==
    /\ d.kind \in {"create", "edit", "deactivate"}
    /\ d = [kind |-> d.kind, snap |-> d.snap, base |-> d.base, conflict |-> d.conflict,
            code |-> d.code, draft |-> d.draft, touched |-> d.touched]
    /\ d.code \in Codes /\ d.draft \in Option
ImportDialog(d) ==
    /\ d.kind = "import"
    /\ d = [kind |-> d.kind, snap |-> d.snap, base |-> d.base, conflict |-> d.conflict,
            csv |-> d.csv, preview |-> d.preview]
    /\ d.preview = Absent \/ PlanFits(d.preview.v, d.preview.csv, d.preview.plan)
SetDialog(d) ==
    /\ d.kind = "set"
    /\ d = [kind |-> d.kind, base |-> d.base, conflict |-> d.conflict, on |-> d.on,
            name |-> d.name]
    /\ d.on \in BOOLEAN /\ d.name \in Nat /\ d.conflict \in Made \cup {Absent}
DialogFits(d) == d = NoDialog \/ OptionDialog(d) \/ ImportDialog(d) \/ SetDialog(d)

Refused(m) == /\ m.phase = "conflict" /\ m = [op |-> m.op, phase |-> m.phase, latest |-> m.latest]
              /\ m.latest \in Made
OptionChange(m) ==
    /\ m.op \in {"create", "patch"} /\ m.phase # "conflict"
    /\ m = [op |-> m.op, phase |-> m.phase, base |-> m.base, code |-> m.code,
            option |-> m.option, fields |-> m.fields, touched |-> m.touched]
    /\ m.code \in Codes /\ m.option \in Option
OrderChange(m) ==
    /\ m.op = "order" /\ m.phase # "conflict"
    /\ m = [op |-> m.op, phase |-> m.phase, base |-> m.base, codes |-> m.codes]
    /\ DOMAIN m.codes \subseteq Nat \ {0}
SetChange(m) ==
    /\ m.op = "set" /\ m.phase # "conflict"
    /\ m = [op |-> m.op, phase |-> m.phase, base |-> m.base, on |-> m.on, name |-> m.name]
    /\ m.on \in BOOLEAN /\ m.name \in Nat
ImportChange(m) ==
    /\ m.op = "import" /\ m.phase # "conflict"
    /\ m = [op |-> m.op, phase |-> m.phase, base |-> m.base, csv |-> m.csv, plan |-> m.plan]
    /\ PlanFits(m.base, m.csv, m.plan) /\ ~m.plan.errors
PreviewAsked(m) ==
    /\ m.op = "preview" /\ m.phase = "sent"
    /\ m = [op |-> m.op, phase |-> m.phase, base |-> m.base, csv |-> m.csv]
PreviewMade(m) ==
    /\ m.op = "preview" /\ m.phase = "accepted"
    /\ m = [op |-> m.op, phase |-> m.phase, base |-> m.base, csv |-> m.csv, plan |-> m.plan]
    /\ PlanFits(m.base, m.csv, m.plan)
MutFits(m) == \/ m = NoMut \/ Refused(m) \/ OptionChange(m) \/ OrderChange(m) \/ SetChange(m)
              \/ ImportChange(m) \/ PreviewAsked(m) \/ PreviewMade(m)

AdminInv == /\ LogFits /\ SumsFit /\ CacheFits /\ ReadingsFit /\ OrderFits(order)
            /\ DialogFits(dialog) /\ MutFits(mut)

LEMMA NoOrderIsADraft == Draft(NoOrder)
  <1>1. NoOrder = [base |-> NoOrder.base, seq |-> NoOrder.seq, opts |-> NoOrder.opts,
                   conflict |-> NoOrder.conflict, dirty |-> NoOrder.dirty,
                   rebased |-> NoOrder.rebased]
    BY DEF NoOrder
  <1> QED BY <1>1 DEF Draft

LEMMA NoOrderFits == OrderFits(NoOrder)
  BY NoOptions, NoOrderIsADraft DEF OrderFits, NoOrder

LEMMA InitAdmin == ASSUME AdminConstants PROVE AdminInit => AdminInv
  <1> SUFFICES ASSUME AdminInit PROVE AdminInv
    OBVIOUS
  <1>1. PICK on \in BOOLEAN :
            versions = <<[on |-> on, name |-> 1,
                          opts |-> [c \in Initial |-> [l |-> 1, s |-> c, on |-> TRUE]]]>>
    BY DEF AdminInit
  <1> DEFINE opts == [c \in Initial |-> [l |-> 1, s |-> c, on |-> TRUE]]
  <1>2. opts \in OptionSets
    <2>1. \A c \in Initial : c \in Nat /\ c \in Codes
      BY DEF AdminConstants
    <2>2. DOMAIN opts \subseteq Codes /\ opts \in [DOMAIN opts -> Option]
      BY <2>1 DEF Option
    <2> HIDE DEF opts
    <2> QED BY <2>2, OptionSetMade
  <1> HIDE DEF opts
  <1>3. versions = <<[on |-> on, name |-> 1, opts |-> opts]>>
    BY <1>1 DEF opts
  <1>4. LogFits
    BY <1>2, <1>3 DEF LogFits, Version, SetStates
  <1>5. ReadFits(NoRead) /\ OrderFits(NoOrder)
    BY NothingRead, NoOrderFits
  <1> QED BY <1>4, <1>5 DEF AdminInit, AdminInv, SumsFit, CacheFits, ReadingsFit, NoReload, DialogFits,
                            MutFits

-----------------------------------------------------------------------------
(* The order draft: whatever snapshot the page takes, its options are a set's. *)
LEMMA SortedIsNumbered == ASSUME NEW o PROVE DOMAIN SortedCodes(o) \subseteq Nat \ {0}
  BY DEF SortedCodes

LEMMA SessionStarts ==
    ASSUME NEW a, a.opts \in OptionSets PROVE OrderFits(StartChoiceOrderSession(a))
  <1>1. PICK seq : seq = SortedCodes(a.opts)
    OBVIOUS
  <1>2. PICK n : n = NoOrder /\ Draft(n)
    BY NoOrderIsADraft
  <1>3. PICK m : m = [n EXCEPT !.base = a.v, !.seq = seq, !.opts = a.opts]
    OBVIOUS
  <1>4. Draft(m) /\ m.seq = seq /\ m.opts = a.opts
    BY <1>2, <1>3 DEF Draft
  <1>5. m = StartChoiceOrderSession(a)
    BY <1>1, <1>2, <1>3 DEF StartChoiceOrderSession
  <1> QED BY <1>1, <1>4, <1>5, SortedIsNumbered DEF OrderFits

LEMMA SessionReloads ==
    ASSUME NEW o, OrderFits(o), NEW a, a.opts \in OptionSets PROVE OrderFits(OrderReloaded(o, a))
  <1> DEFINE same == ToSet(o.seq) = DOMAIN a.opts
  <1>1. PICK seq : seq = IF same THEN o.seq ELSE SortedCodes(a.opts)
    OBVIOUS
  <1>2. PICK n : n = NoOrder /\ Draft(n)
    BY NoOrderIsADraft
  <1>3. PICK dirty : dirty = (same /\ o.dirty)
    OBVIOUS
  <1>4. PICK m : m = [n EXCEPT !.base = a.v, !.seq = seq, !.opts = a.opts, !.dirty = dirty,
                               !.rebased = dirty]
    OBVIOUS
  <1>5. Draft(m) /\ m.seq = seq /\ m.opts = a.opts
    BY <1>2, <1>4 DEF Draft
  <1>6. m = OrderReloaded(o, a)
    BY <1>1, <1>2, <1>3, <1>4 DEF OrderReloaded
  <1>7. DOMAIN seq \subseteq Nat \ {0}
    BY <1>1, SortedIsNumbered DEF OrderFits
  <1> QED BY <1>5, <1>6, <1>7 DEF OrderFits, Draft

LEMMA SessionSees ==
    ASSUME NEW o, OrderFits(o), NEW a, a.opts \in OptionSets PROVE OrderFits(OrderSeen(o, a))
  BY SessionStarts DEF OrderFits, Draft, OrderSeen

LEMMA SnapshotFits ==
    ASSUME NEW aggs, \A a \in aggs : a.opts \in OptionSets, NEW v
    PROVE  ExactSnapshot(v, aggs).opts \in OptionSets
  <1>1. ASSUME NEW b \in aggs, b.v = v PROVE (CHOOSE a \in aggs : a.v = v) \in aggs
    BY <1>1
  <1> QED BY <1>1, NoOptions DEF ExactSnapshot, IsExactChoiceSetAdminSnapshot, NoSnapshot

LEMMA CachedFit ==
    ASSUME LogFits, NEW a, AggregateFits(a)
    PROVE  a.opts \in OptionSets /\ a.v \in Nat
  BY KnownAreSets DEF AggregateFits, SetStates

LEMMA CacheHasSets ==
    ASSUME LogFits, CacheFits
    PROVE  (\A a \in aggregates : a.opts \in OptionSets) /\ Snapshot.opts \in OptionSets
  BY CachedFit, SnapshotFits DEF CacheFits, Snapshot

-----------------------------------------------------------------------------
(* What was known of the versions stays known when others are made.            *)
LEMMA RestFits ==
    ASSUME AdminInv, UNCHANGED versions \/ Grown
    PROVE  /\ LogFits' /\ Made \subseteq Made' /\ \A v \in Made : versions'[v] = versions[v]
           /\ UNCHANGED <<sum, listed, sread>> => SumsFit'
           /\ UNCHANGED aggregates => CacheFits'
           /\ UNCHANGED <<reading, reload>> => ReadingsFit'
           /\ UNCHANGED order => OrderFits(order)'
           /\ UNCHANGED dialog => DialogFits(dialog)'
           /\ UNCHANGED mut => MutFits(mut)'
  <1>1. LogFits' /\ Made \subseteq Made' /\ \A v \in Made : versions'[v] = versions[v]
    BY VersionsStay DEF AdminInv
  <1>2. UNCHANGED <<sum, listed, sread>> => SumsFit'
    BY <1>1 DEF AdminInv, SumsFit
  <1>3. UNCHANGED aggregates => CacheFits'
    BY <1>1 DEF AdminInv, CacheFits, AggregateFits
  <1>4. UNCHANGED <<reading, reload>> => ReadingsFit'
    BY <1>1 DEF AdminInv, ReadingsFit, ReadFits
  <1>5. UNCHANGED order => OrderFits(order)'
    BY DEF AdminInv, OrderFits, Draft
  <1>6. UNCHANGED dialog => DialogFits(dialog)'
    BY <1>1 DEF AdminInv, DialogFits, OptionDialog, ImportDialog, SetDialog, PlanFits
  <1>7. UNCHANGED mut => MutFits(mut)'
    BY <1>1 DEF AdminInv, MutFits, Refused, OptionChange, OrderChange, SetChange, ImportChange,
                PreviewAsked, PreviewMade, PlanFits
  <1> QED BY <1>1, <1>2, <1>3, <1>4, <1>5, <1>6, <1>7

LEMMA OptionsChanged ==
    ASSUME LogFits, NEW o \in OptionSets PROVE [Now EXCEPT !.opts = o] \in SetStates
  BY NowIsASet DEF SetStates

LEMMA OthersGrow == ASSUME AdminConstants, LogFits, OtherAdminWrites PROVE Grown
  <1>1. Now \in SetStates /\ Now.opts \in OptionSets /\ Version \in Nat
    BY NowIsASet DEF SetStates
  <1>2. \A c \in DOMAIN Now.opts : c \in Codes /\ Now.opts[c] \in Option
    BY <1>1, OptionSetShape
  <1>3. ASSUME NEW o \in OptionSets, Bump([Now EXCEPT !.opts = o]) PROVE Grown
    BY <1>3, OptionsChanged DEF Grown
  <1>4. ASSUME NEW c \in DOMAIN Now.opts, NEW w \in Option,
               Bump([Now EXCEPT !.opts = WithOption(@, c, w)])
        PROVE  Grown
    <2>1. PICK o \in OptionSets : o = WithOption(Now.opts, c, w)
      BY <1>1, <1>2, OptionPut
    <2> QED BY <1>3, <1>4, <2>1
  <1>5. CASE \E c \in DOMAIN Now.opts :
               Bump([Now EXCEPT !.opts = WithOption(@, c, [Now.opts[c] EXCEPT !.l = Version + 1])])
    <2>1. PICK c \in DOMAIN Now.opts :
             Bump([Now EXCEPT !.opts = WithOption(@, c, [Now.opts[c] EXCEPT !.l = Version + 1])])
      BY <1>5
    <2>2. PICK w \in Option : w = [Now.opts[c] EXCEPT !.l = Version + 1]
      <3>1. PICK old \in Option, n \in Nat : old = Now.opts[c] /\ n = Version + 1
        BY <1>1, <1>2
      <3>2. [old EXCEPT !.l = n] \in Option
        BY DEF Option
      <3> QED BY <3>1, <3>2
    <2>3. Bump([Now EXCEPT !.opts = WithOption(@, c, w)])
      BY <2>1, <2>2
    <2> QED BY <1>4, <2>3
  <1>6. CASE \E c \in DOMAIN Now.opts :
               Bump([Now EXCEPT !.opts = WithOption(@, c, [Now.opts[c] EXCEPT !.on = ~@])])
    <2>1. PICK c \in DOMAIN Now.opts :
             Bump([Now EXCEPT !.opts = WithOption(@, c, [Now.opts[c] EXCEPT !.on = ~@])])
      BY <1>6
    <2>2. PICK w \in Option : w = [Now.opts[c] EXCEPT !.on = ~@]
      BY <1>2 DEF Option
    <2>3. Bump([Now EXCEPT !.opts = WithOption(@, c, w)])
      BY <2>1, <2>2
    <2> QED BY <1>4, <2>3
  <1>7. CASE Bump([Now EXCEPT !.opts = [d \in DOMAIN @ |->
                     [@[d] EXCEPT !.s = Cardinality({e \in DOMAIN Now.opts : e > d})]]])
    <2> DEFINE rank(d) == Cardinality({e \in DOMAIN Now.opts : e > d})
               o == [d \in DOMAIN Now.opts |-> [Now.opts[d] EXCEPT !.s = rank(d)]]
    <2>1. \A d \in DOMAIN Now.opts : rank(d) \in Nat
      <3> TAKE d \in DOMAIN Now.opts
      <3>1. {e \in DOMAIN Now.opts : e > d} \subseteq Codes /\ IsFiniteSet(Codes)
        BY <1>2 DEF AdminConstants
      <3> QED BY <3>1, FS_Subset, FS_CardinalityType
    <2>2. Bump([Now EXCEPT !.opts = o])
      BY <1>7
    <2> HIDE DEF rank
    <2>3. DOMAIN o \subseteq Codes /\ o \in [DOMAIN o -> Option]
      BY <1>2, <2>1 DEF Option
    <2> HIDE DEF o
    <2> QED BY <1>3, <2>2, <2>3, OptionSetMade
  <1>8. CASE Bump([Now EXCEPT !.opts = WithOption(@, Added, [l |-> Version + 1, s |-> 0, on |-> TRUE])])
    <2>1. [l |-> Version + 1, s |-> 0, on |-> TRUE] \in Option /\ Added \in Codes
      BY <1>1 DEF Option, AdminConstants
    <2>2. PICK o \in OptionSets : o = WithOption(Now.opts, Added, [l |-> Version + 1, s |-> 0, on |-> TRUE])
      BY <1>1, <2>1, OptionPut
    <2> QED BY <1>3, <1>8, <2>2
  <1>9. CASE Bump([Now EXCEPT !.on = ~@])
    <2>1. [Now EXCEPT !.on = ~@] \in SetStates
      BY <1>1 DEF SetStates
    <2> QED BY <1>9, <2>1 DEF Grown
  <1> QED BY <1>5, <1>6, <1>7, <1>8, <1>9 DEF OtherAdminWrites

(* What the service makes of a mutation is a set, too.                         *)
LEMMA ResultIsASet ==
    ASSUME AdminConstants, LogFits, MutFits(mut), mut.phase = "sent",
           mut.op # "preview", Result(mut) # Absent
    PROVE  Result(mut) \in SetStates
  <1>1. Now \in SetStates /\ Now.opts \in OptionSets
    BY NowIsASet DEF SetStates
  <1>2. mut # NoMut /\ ~Refused(mut) /\ ~PreviewAsked(mut) /\ ~PreviewMade(mut)
    BY DEF NoMut, Refused, PreviewAsked, PreviewMade
  <1>3. CASE OptionChange(mut) /\ mut.op = "create"
    <2>1. Result(mut) = CreateOption(mut)
      BY <1>3 DEF Result
    <2>2. PICK o \in OptionSets : o = WithOption(Now.opts, mut.code, mut.option)
      BY <1>1, <1>3, OptionPut DEF OptionChange
    <2> QED BY <2>1, <2>2, OptionsChanged DEF CreateOption
  <1>4. CASE OptionChange(mut) /\ mut.op = "patch"
    <2>1. Result(mut) = PatchOption(mut)
      BY <1>4 DEF Result
    <2> DEFINE old == Now.opts[mut.code]
               new == IF mut.fields = "all" THEN mut.option ELSE [old EXCEPT !.on = FALSE]
    <2>2. PICK o : o = [Now.opts EXCEPT ![mut.code] = new]
      OBVIOUS
    <2>3. o \in OptionSets
      <3>1. CASE mut.code \in DOMAIN Now.opts
        <4>1. old \in Option /\ mut.option \in Option
          BY <1>1, <1>4, <3>1, OptionSetShape DEF OptionChange
        <4>2. new \in Option
          <5> HIDE DEF old
          <5> QED BY <4>1 DEF Option
        <4> HIDE DEF new
        <4> QED BY <1>1, <2>2, <4>2, OptionChanged
      <3>2. CASE mut.code \notin DOMAIN Now.opts
        <4>1. o = Now.opts
          <5> HIDE DEF new
          <5> QED BY <1>1, <2>2, <3>2, OptionSetShape
        <4> QED BY <1>1, <4>1
      <3> QED BY <3>1, <3>2
    <2>4. Result(mut) = [Now EXCEPT !.opts = o]
      BY <2>1, <2>2 DEF PatchOption
    <2> QED BY <2>3, <2>4, OptionsChanged
  <1>5. CASE OrderChange(mut)
    <2>1. Result(mut) = ReorderOptions(mut)
      BY <1>5 DEF Result, OrderChange
    <2> DEFINE place(c) == (CHOOSE i \in DOMAIN mut.codes : mut.codes[i] = c) - 1
               o == [c \in DOMAIN Now.opts |-> [Now.opts[c] EXCEPT !.s = place(c)]]
    <2>2. ToSet(mut.codes) = DOMAIN Now.opts /\ Result(mut) = [Now EXCEPT !.opts = o]
      BY <2>1 DEF ReorderOptions
    <2>3. \A c \in DOMAIN Now.opts : place(c) \in Nat
      <3> TAKE c \in DOMAIN Now.opts
      <3>1. \E i \in DOMAIN mut.codes : mut.codes[i] = c
        BY <2>2 DEF ToSet
      <3>2. PICK i \in DOMAIN mut.codes : i = CHOOSE j \in DOMAIN mut.codes : mut.codes[j] = c
        BY <3>1
      <3>3. i \in Nat \ {0}
        BY <1>5, <3>2 DEF OrderChange
      <3> QED BY <3>2, <3>3
    <2> HIDE DEF place
    <2>4. \A c \in DOMAIN Now.opts : c \in Codes /\ Now.opts[c] \in Option
      BY <1>1, OptionSetShape
    <2>5. DOMAIN o \subseteq Codes /\ o \in [DOMAIN o -> Option]
      BY <2>3, <2>4 DEF Option
    <2> HIDE DEF o
    <2> QED BY <2>2, <2>5, OptionSetMade, OptionsChanged
  <1>6. CASE SetChange(mut)
    <2>1. Result(mut) = [Now EXCEPT !.on = mut.on, !.name = mut.name]
      BY <1>6 DEF Result, SetChange, PatchSet
    <2> QED BY <1>1, <1>6, <2>1 DEF SetChange, SetStates
  <1>7. CASE ImportChange(mut)
    <2>1. Result(mut) = ImportApply(mut)
      BY <1>7 DEF Result, ImportChange
    <2>2. Row \in Option /\ Added \in Codes
      BY DEF Row, Option, AdminConstants
    <2>3. PICK o \in OptionSets : o = WithOption(Now.opts, Added, Row)
      BY <1>1, <2>2, OptionPut
    <2> QED BY <2>1, <2>3, OptionsChanged DEF ImportApply
  <1> QED BY <1>2, <1>3, <1>4, <1>5, <1>6, <1>7 DEF MutFits, OptionChange

-----------------------------------------------------------------------------
(* The steps: first the reads of the page.                                     *)
LEMMA SnapshotSeen ==
    ASSUME LogFits, OrderFits(order), NEW v, NEW aggs, \A a \in aggs : a.opts \in OptionSets,
           SeeSnapshot(v, aggs)
    PROVE  OrderFits(order)'
  <1>1. ExactSnapshot(v, aggs).opts \in OptionSets
    BY SnapshotFits
  <1>2. OrderFits(OrderSeen(order, ExactSnapshot(v, aggs)))
    BY <1>1, SessionSees
  <1> QED BY <1>2 DEF SeeSnapshot, OrderFits, Draft

LEMMA CachedFits ==
    ASSUME LogFits, CacheFits, NEW a, AggregateFits(a)
    PROVE  \A b \in Cached(a) : AggregateFits(b) /\ b.opts \in OptionSets
  BY CachedFit DEF CacheFits, Cached

LEMMA SameVersions == ASSUME UNCHANGED versions PROVE Made' = Made /\ Version' = Version
  BY DEF Made, Version

LEMMA ReadSteps ==
    ASSUME AdminConstants, AdminInv,
           \/ SetsRead \/ SummaryRequested \/ SummaryAnswered \/ ChoiceOptionQuery \/ OptionsFail
           \/ ChangeActive \/ Navigate
    PROVE  AdminInv'
  <1>1. Version \in Made /\ LogFits /\ SumsFit /\ OrderFits(order) /\ ReadingsFit /\ CacheFits
    BY NowIsASet DEF AdminInv
  <1>2. UNCHANGED versions => Made' = Made
    BY SameVersions
  <1>3. CASE SetsRead
    <2>1. /\ UNCHANGED <<versions, sum, sread, aggregates, reading, reload, order, dialog, mut>>
          /\ listed' = Version
      BY <1>3 DEF SetsRead, StayServer, StayPage, StayCalls
    <2>2. SumsFit'
      BY <1>1, <1>2, <2>1 DEF SumsFit
    <2> QED BY <2>1, <2>2, RestFits DEF AdminInv
  <1>4. CASE SummaryRequested
    <2>1. /\ UNCHANGED <<versions, sum, listed, aggregates, reading, reload, order, dialog, mut>>
          /\ sread' = Version
      BY <1>4 DEF SummaryRequested, StayServer, StayPage, StayCalls
    <2>2. SumsFit'
      BY <1>1, <1>2, <2>1 DEF SumsFit
    <2> QED BY <2>1, <2>2, RestFits DEF AdminInv
  <1>5. CASE SummaryAnswered
    <2>1. /\ UNCHANGED <<versions, listed, aggregates, reading, reload, dialog, mut>>
          /\ sum' = sread /\ sread' = Absent /\ SeeSnapshot(sread, aggregates)
      BY <1>5 DEF SummaryAnswered, StayServer, StayCalls
    <2>2. SumsFit'
      BY <1>1, <1>2, <2>1 DEF SumsFit
    <2>3. OrderFits(order)'
      BY <1>1, <2>1, CacheHasSets, SnapshotSeen
    <2> QED BY <2>1, <2>2, <2>3, RestFits DEF AdminInv
  <1>6. CASE ChoiceOptionQuery
    <2>1. /\ UNCHANGED <<versions, sum, listed, sread, aggregates, reload, order, dialog, mut>>
          /\ reading' = StartRead(sum, 0) /\ sum # Absent
      BY <1>6 DEF ChoiceOptionQuery, StayServer, StayPage, StayCalls
    <2>2. ReadFits(StartRead(sum, 0))
      BY <1>1, NothingRead, NowIsASet DEF SumsFit
    <2>3. ReadingsFit'
      BY <1>1, <1>2, <2>1, <2>2 DEF ReadingsFit, ReadFits
    <2> QED BY <2>1, <2>3, RestFits DEF AdminInv
  <1>7. CASE OptionsFail
    <2>1. /\ UNCHANGED <<versions, sum, listed, sread, aggregates, reload, order, dialog, mut>>
          /\ reading' = NoRead
      BY <1>7 DEF OptionsFail, StayServer, StayPage, StayCalls
    <2>2. ReadFits(NoRead)
      BY NothingRead
    <2>3. ReadingsFit'
      BY <1>1, <1>2, <2>1, <2>2 DEF ReadingsFit, ReadFits
    <2> QED BY <2>1, <2>3, RestFits DEF AdminInv
  <1>8. CASE ChangeActive
    <2>1. UNCHANGED <<versions, sum, listed, sread, aggregates, reading, reload, order, dialog, mut>>
      BY <1>8 DEF ChangeActive, StayServer, StayCache, StayCalls
    <2> QED BY <2>1, RestFits DEF AdminInv
  <1>9. CASE Navigate
    <2>1. /\ UNCHANGED <<versions, sum, listed, sread, aggregates, reload, dialog, mut>>
          /\ reading' = NoRead
          /\ order' = StartChoiceOrderSession(Snapshot) \/ order' = NoOrder
      BY <1>9 DEF Navigate, StayServer
    <2>2. ReadFits(NoRead)
      BY NothingRead
    <2>3. ReadingsFit'
      BY <1>1, <1>2, <2>1, <2>2 DEF ReadingsFit, ReadFits
    <2>4. OrderFits(StartChoiceOrderSession(Snapshot)) /\ OrderFits(NoOrder)
      BY <1>1, CacheHasSets, SessionStarts, NoOrderFits
    <2>5. OrderFits(order)'
      BY <2>1, <2>4 DEF OrderFits, Draft
    <2> QED BY <2>1, <2>3, <2>5, RestFits DEF AdminInv
  <1> QED BY <1>3, <1>4, <1>5, <1>6, <1>7, <1>8, <1>9

LEMMA FetchStep == ASSUME AdminConstants, AdminInv, FetchPage PROVE AdminInv'
  <1> DEFINE p == NextPage(reading)
             q == TakePage(reading, p)
             agg == [v |-> q.v, opts |-> q.opts]
  <1>1. /\ Version \in Made /\ LogFits /\ SumsFit /\ OrderFits(order) /\ ReadingsFit /\ CacheFits
        /\ ReadFits(reading)
    BY NowIsASet DEF AdminInv, ReadingsFit
  <1>2. UNCHANGED <<versions, sum, listed, dialog, mut, reload>> /\ Made' = Made
    BY SameVersions DEF FetchPage, StayServer, StayCalls
  <1>3. CASE ReadingFails(reading, p)
    <2>1. reading' = NoRead /\ UNCHANGED <<aggregates, sread, order>>
      BY <1>3 DEF FetchPage
    <2>2. ReadFits(NoRead)
      BY NothingRead
    <2>3. ReadingsFit'
      BY <1>1, <1>2, <2>1, <2>2 DEF ReadingsFit, ReadFits
    <2> QED BY <1>2, <2>1, <2>3, RestFits DEF AdminInv
  <1>4. CASE ~ReadingFails(reading, p) /\ ~Ends(p)
    <2>1. reading' = q /\ UNCHANGED <<aggregates, sread, order>>
      BY <1>4 DEF FetchPage
    <2>2. ReadFits(q)
      BY <1>1, <1>4, PageTaken
    <2> HIDE DEF q
    <2>3. ReadingsFit'
      BY <1>1, <1>2, <2>1, <2>2 DEF ReadingsFit, ReadFits
    <2> QED BY <1>2, <2>1, <2>3, RestFits DEF AdminInv
  <1>5. CASE ~ReadingFails(reading, p) /\ Ends(p)
    <2>1. /\ reading' = NoRead /\ aggregates' = Cached(agg)
          /\ UNCHANGED sread \/ sread' = Version
          /\ SeeSnapshot(sum, Cached(agg))
      BY <1>5 DEF FetchPage
    <2>2. q.v \in Made /\ q.opts = versions[q.v].opts
      BY <1>1, <1>5, PageTaken
    <2>3. AggregateFits(agg)
      BY <2>2 DEF AggregateFits
    <2>4. ReadFits(NoRead)
      BY NothingRead
    <2> HIDE DEF agg, p, q
    <2>5. ReadingsFit'
      BY <1>1, <1>2, <2>1, <2>4 DEF ReadingsFit, ReadFits
    <2>6. SumsFit'
      BY <1>1, <1>2, <2>1 DEF SumsFit
    <2>7. \A b \in Cached(agg) : AggregateFits(b) /\ b.opts \in OptionSets
      BY <1>1, <2>3, CachedFits
    <2>8. CacheFits'
      BY <1>2, <2>1, <2>7 DEF CacheFits, AggregateFits
    <2>9. OrderFits(order)'
      BY <1>1, <2>1, <2>7, SnapshotSeen
    <2> QED BY <1>2, <2>5, <2>6, <2>8, <2>9, RestFits DEF AdminInv
  <1> QED BY <1>3, <1>4, <1>5

-----------------------------------------------------------------------------
(* The order draft and the dialogs.                                            *)
LEMMA SubmissionFits ==
    ASSUME NEW o, OrderFits(o) PROVE MutFits(BuildChoiceReorderSubmission(o))
  BY DEF OrderFits, BuildChoiceReorderSubmission, MutFits, OrderChange

LEMMA MovedFits ==
    ASSUME NEW o, OrderFits(o), NEW i, NEW j PROVE OrderFits(Moved(o, i, j))
  <1>1. PICK seq : seq = MoveOption(o.seq, i, j)
    OBVIOUS
  <1>2. PICK m : m = [o EXCEPT !.seq = seq, !.dirty = TRUE]
    OBVIOUS
  <1>3. Draft(m) /\ m.seq = seq /\ m.opts = o.opts
    BY <1>2 DEF OrderFits, Draft
  <1>4. DOMAIN seq = DOMAIN o.seq
    BY <1>1 DEF MoveOption
  <1>5. m = Moved(o, i, j)
    BY <1>1, <1>2 DEF Moved, OrderFits, Draft
  <1> QED BY <1>3, <1>4, <1>5 DEF OrderFits

LEMMA AskedFits ==
    ASSUME AdminConstants, NEW a, a = [NoReload EXCEPT !.phase = "summary"]
    PROVE  /\ ReadFits(a.read)
           /\ a = [phase |-> a.phase, read |-> a.read, v |-> a.v, tries |-> a.tries]
  BY NothingRead DEF NoReload

LEMMA OrderSteps ==
    ASSUME AdminConstants, AdminInv, Reorder \/ RetryReorder \/ ReloadLatestOrder
    PROVE  AdminInv'
  <1>1. OrderFits(order) /\ ReadingsFit
    BY DEF AdminInv
  <1>2. CASE Reorder
    <2>1. PICK i \in DOMAIN order.seq :
             /\ order' = Moved(order, i, i + 1)
             /\ mut' = BuildChoiceReorderSubmission(Moved(order, i, i + 1))
      BY <1>2 DEF Reorder
    <2>2. UNCHANGED <<versions, sum, listed, sread, aggregates, reading, reload, dialog>>
      BY <1>2 DEF Reorder, StayServer, StayCache
    <2>3. OrderFits(Moved(order, i, i + 1))
      BY <1>1, MovedFits
    <2>4. MutFits(BuildChoiceReorderSubmission(Moved(order, i, i + 1)))
      BY <2>3, SubmissionFits
    <2>5. MutFits(mut)'
      BY <2>1, <2>2, <2>4 DEF MutFits, Refused, OptionChange, OrderChange, SetChange, ImportChange,
                              PreviewAsked, PreviewMade, PlanFits, Made, Version
    <2>6. OrderFits(order)'
      BY <2>1, <2>3 DEF OrderFits, Draft
    <2> QED BY <2>2, <2>5, <2>6, RestFits DEF AdminInv
  <1>3. CASE RetryReorder
    <2>1. /\ mut' = BuildChoiceReorderSubmission(order)
          /\ UNCHANGED <<versions, sum, listed, sread, aggregates, reading, reload, order, dialog>>
      BY <1>3 DEF RetryReorder, StayServer, StayCache, StayPage
    <2>2. MutFits(BuildChoiceReorderSubmission(order))
      BY <1>1, SubmissionFits
    <2>3. MutFits(mut)'
      BY <2>1, <2>2 DEF MutFits, Refused, OptionChange, OrderChange, SetChange, ImportChange,
                              PreviewAsked, PreviewMade, PlanFits, Made, Version
    <2> QED BY <2>1, <2>3, RestFits DEF AdminInv
  <1>4. CASE ReloadLatestOrder
    <2>1. /\ reload' = [NoReload EXCEPT !.phase = "summary"]
          /\ UNCHANGED <<versions, sum, listed, sread, aggregates, reading, order, dialog, mut>>
      BY <1>4 DEF ReloadLatestOrder, StayServer, StayCache, StayPage
    <2>2. ReadingsFit'
      BY <1>1, <2>1, SameVersions, AskedFits DEF ReadingsFit, ReadFits
    <2> QED BY <2>1, <2>2, RestFits DEF AdminInv
  <1> QED BY <1>2, <1>3, <1>4

LEMMA OptionsOnDisplay ==
    ASSUME AdminInv, NEW c \in Rows PROVE c \in Codes /\ DisplayOptions[c] \in Option
  <1>1. DisplayOptions \in OptionSets
    BY CacheHasSets DEF AdminInv, DisplayOptions, OrderFits
  <1>2. c \in DOMAIN DisplayOptions
    BY DEF Rows, FilterChoiceOptions
  <1> QED BY <1>1, <1>2, OptionSetShape

LEMMA OptionSessionFits ==
    ASSUME NEW kind \in {"create", "edit", "deactivate"}, NEW snap, NEW c \in Codes,
           NEW w \in Option
    PROVE  DialogFits(OptionSession(kind, snap, c, w))
  BY DEF OptionSession, DialogFits, OptionDialog

LEMMA SetSessionFits ==
    ASSUME LogFits, NEW v \in Made PROVE DialogFits(SetSession(v))
  <1>1. versions[v] \in SetStates
    BY KnownAreSets
  <1> QED BY <1>1 DEF SetSession, DialogFits, SetDialog, SetStates

LEMMA ChangeFits ==
    ASSUME DialogFits(dialog), NEW f \in {"l", "on"},
           ChangeOption(f) \/ AcknowledgeImpact \/ ChangeSet \/ ChangeCsv
    PROVE  \E d : dialog' = d /\ DialogFits(d)
  <1>1. CASE ChangeOption(f)
    <2>1. OptionDialog(dialog)
      BY <1>1 DEF ChangeOption, DialogFits, NoDialog, ImportDialog, SetDialog
    <2>2. Retyped(dialog.draft, f) \in Option
      <3>1. PICK old \in Option : old = dialog.draft
        BY <2>1 DEF OptionDialog
      <3>2. CASE f = "l"
        BY <3>1, <3>2 DEF Option, Retyped
      <3>3. CASE f = "on"
        BY <3>1, <3>3 DEF Option, Retyped
      <3> QED BY <3>2, <3>3
    <2>3. PICK new \in Option : new = Retyped(dialog.draft, f)
      BY <2>2
    <2>4. PICK touched : touched = dialog.touched \cup {f}
      OBVIOUS
    <2>5. PICK d : d = [dialog EXCEPT !.touched = touched, !.draft = new]
      OBVIOUS
    <2>6. dialog' = d
      BY <1>1, <2>3, <2>4, <2>5 DEF ChangeOption
    <2>7. OptionDialog(d)
      BY <2>1, <2>5 DEF OptionDialog
    <2> QED BY <2>6, <2>7 DEF DialogFits
  <1>2. CASE AcknowledgeImpact
    <2>1. OptionDialog(dialog)
      BY <1>2 DEF AcknowledgeImpact, DialogFits, NoDialog, ImportDialog, SetDialog
    <2> QED BY <1>2, <2>1 DEF AcknowledgeImpact, OptionDialog, DialogFits
  <1>3. CASE ChangeSet
    <2>1. SetDialog(dialog)
      BY <1>3 DEF ChangeSet, DialogFits, NoDialog, ImportDialog, OptionDialog
    <2>2. PICK on \in BOOLEAN : on = ~dialog.on
      OBVIOUS
    <2>3. dialog' = [dialog EXCEPT !.on = on] \/ dialog' = [dialog EXCEPT !.name = 0]
      BY <1>3, <2>1, <2>2 DEF ChangeSet, SetDialog
    <2> QED BY <2>1, <2>3 DEF SetDialog, DialogFits
  <1>4. CASE ChangeCsv
    <2>1. ImportDialog(dialog)
      BY <1>4 DEF ChangeCsv, DialogFits, NoDialog, SetDialog, OptionDialog
    <2>2. PICK csv : dialog' = [dialog EXCEPT !.csv = csv]
      BY <1>4 DEF ChangeCsv
    <2> QED BY <2>1, <2>2 DEF ImportDialog, DialogFits
  <1> QED BY <1>1, <1>2, <1>3, <1>4

LEMMA DialogSteps ==
    ASSUME AdminConstants, AdminInv,
           \/ OpenOptionEditor \/ OpenImport \/ OpenSetEditor \/ ChangeField \/ CloseDialog
           \/ ReloadDialog /\ UNCHANGED reload
    PROVE  AdminInv'
  <1>1. LogFits /\ DialogFits(dialog) /\ SumsFit
    BY DEF AdminInv
  <1>2. UNCHANGED <<versions, sum, listed, sread, aggregates, reading, reload, order, mut>>
    BY DEF OpenOptionEditor, OpenImport, OpenSetEditor, ChangeField, CloseDialog, ReloadDialog,
           StayServer, StayCache, StayCalls
  <1>3. \E d : dialog' = d /\ DialogFits(d)
    <2>1. CASE OpenOptionEditor
      <3>1. Row \in Option /\ Added \in Codes
        BY DEF Row, Option, AdminConstants
      <3> QED BY <2>1, <3>1, OptionsOnDisplay, OptionSessionFits DEF OpenOptionEditor
    <2>2. CASE OpenImport
      <3>1. DialogFits(ImportSession(Snapshot))
        BY DEF ImportSession, DialogFits, ImportDialog
      <3> QED BY <2>2, <3>1 DEF OpenImport
    <2>3. CASE OpenSetEditor
      <3>1. \/ listed # Absent /\ dialog' = SetSession(listed)
            \/ sum # Absent /\ dialog' = SetSession(sum)
        BY <2>3 DEF OpenSetEditor, EditRowOffered, OnDetail
      <3> QED BY <1>1, <3>1, SetSessionFits DEF SumsFit
    <2>4. CASE ChangeField
      <3>1. OptionFields \subseteq {"l", "on"}
        BY DEF OptionFields
      <3> QED BY <1>1, <2>4, <3>1, ChangeFits DEF ChangeField
    <2>5. CASE CloseDialog
      BY <2>5 DEF CloseDialog, DialogFits
    <2>6. CASE ReloadDialog /\ UNCHANGED reload
      <3>1. \/ UNCHANGED dialog
            \/ dialog.kind = "set" /\ dialog.conflict # Absent /\ dialog' = SetSession(dialog.conflict)
        BY <2>6 DEF ReloadDialog
      <3>2. dialog.kind = "set" => SetDialog(dialog)
        BY <1>1 DEF DialogFits, NoDialog, OptionDialog, ImportDialog
      <3> QED BY <1>1, <3>1, <3>2, SetSessionFits DEF SetDialog
    <2> QED BY <2>1, <2>2, <2>3, <2>4, <2>5, <2>6
  <1>4. DialogFits(dialog)'
    BY <1>2, <1>3 DEF DialogFits, OptionDialog, ImportDialog, SetDialog, PlanFits, Made, Version
  <1> QED BY <1>2, <1>4, RestFits DEF AdminInv

-----------------------------------------------------------------------------
(* The mutations, from the form to the answer.                                 *)
LEMMA MutTaken ==
    ASSUME AdminInv, UNCHANGED versions \/ Grown, NEW m, MutFits(m), mut' = m
    PROVE  MutFits(mut)'
  <1>1. Made \subseteq Made' /\ \A v \in Made : versions'[v] = versions[v]
    BY RestFits
  <1> QED BY <1>1 DEF MutFits, Refused, OptionChange, OrderChange, SetChange, ImportChange,
                      PreviewAsked, PreviewMade, PlanFits

LEMMA DialogTaken ==
    ASSUME AdminInv, UNCHANGED versions, NEW d, DialogFits(d), dialog' = d
    PROVE  DialogFits(dialog)'
  BY DEF DialogFits, OptionDialog, ImportDialog, SetDialog, PlanFits, Made, Version

LEMMA PhaseFits ==
    ASSUME NEW m, MutFits(m), m.op # "preview", m.phase # "conflict", m.phase # "none",
           NEW phase, phase # "conflict"
    PROVE  MutFits([m EXCEPT !.phase = phase])
  <1>1. OptionChange(m) \/ OrderChange(m) \/ SetChange(m) \/ ImportChange(m)
    BY DEF MutFits, NoMut, Refused, PreviewAsked, PreviewMade
  <1>2. PICK n : n = [m EXCEPT !.phase = phase]
    OBVIOUS
  <1>3. CASE OptionChange(m)
    BY <1>2, <1>3 DEF OptionChange, MutFits
  <1>4. CASE OrderChange(m)
    BY <1>2, <1>4 DEF OrderChange, MutFits
  <1>5. CASE SetChange(m)
    BY <1>2, <1>5 DEF SetChange, MutFits
  <1>6. CASE ImportChange(m)
    BY <1>2, <1>6 DEF ImportChange, MutFits
  <1> QED BY <1>1, <1>3, <1>4, <1>5, <1>6

LEMMA SubmitSteps ==
    ASSUME AdminConstants, AdminInv, SubmitOption \/ SubmitSet \/ Preview \/ ApplyImport
    PROVE  AdminInv'
  <1>1. DialogFits(dialog)
    BY DEF AdminInv
  <1>2. UNCHANGED <<versions, sum, listed, sread, aggregates, reading, reload, order, dialog>>
    BY DEF SubmitOption, SubmitSet, Preview, ApplyImport, StayServer, StayCache, StayPage
  <1>3. \E m : mut' = m /\ MutFits(m)
    <2>1. CASE SubmitOption
      <3>1. OptionDialog(dialog)
        BY <1>1, <2>1 DEF SubmitOption, OptionSubmitOffered, IsOption, DialogFits, NoDialog,
                          ImportDialog, SetDialog
      <3>2. MutFits(BuildChoiceOptionSubmission)
        BY <3>1 DEF OptionDialog, BuildChoiceOptionSubmission, MutFits, OptionChange
      <3> QED BY <2>1, <3>2 DEF SubmitOption
    <2>2. CASE SubmitSet
      <3>1. SetDialog(dialog)
        BY <1>1, <2>2 DEF SubmitSet, SetSubmitOffered, DialogFits, NoDialog, ImportDialog,
                          OptionDialog
      <3>2. MutFits(BuildChoiceSetEditorSubmission)
        BY <3>1 DEF SetDialog, BuildChoiceSetEditorSubmission, MutFits, SetChange
      <3> QED BY <2>2, <3>2 DEF SubmitSet
    <2>3. CASE Preview
      <3>1. PICK m : m = [op |-> "preview", phase |-> "sent", base |-> dialog.snap.v,
                          csv |-> dialog.csv]
        OBVIOUS
      <3>2. MutFits(m) /\ mut' = m
        BY <2>3, <3>1 DEF Preview, MutFits, PreviewAsked
      <3> QED BY <3>2
    <2>4. CASE ApplyImport
      <3>1. ImportDialog(dialog) /\ dialog.preview # Absent /\ ~dialog.preview.plan.errors
        BY <1>1, <2>4 DEF ApplyImport, ApplyOffered, CanApplyChoicePreview, IsCurrentChoicePreview,
                          DialogFits, NoDialog, SetDialog, OptionDialog
      <3>2. PICK m : m = [op |-> "import", phase |-> "sent", base |-> dialog.preview.v,
                          csv |-> dialog.preview.csv, plan |-> dialog.preview.plan]
        OBVIOUS
      <3>3. MutFits(m) /\ mut' = m
        BY <2>4, <3>1, <3>2 DEF ApplyImport, MutFits, ImportChange, ImportDialog
      <3> QED BY <3>3
    <2> QED BY <2>1, <2>2, <2>3, <2>4
  <1>4. MutFits(mut)'
    BY <1>2, <1>3, MutTaken
  <1> QED BY <1>2, <1>4, RestFits DEF AdminInv

LEMMA HandleStep == ASSUME AdminConstants, AdminInv, Handle PROVE AdminInv'
  <1>1. MutFits(mut) /\ LogFits /\ Version \in Made /\ mut.phase = "sent"
    BY NowIsASet DEF AdminInv, Handle
  <1>2. /\ UNCHANGED <<sum, listed, sread, aggregates, reading, reload, order, dialog>>
    BY DEF Handle, StayCache, StayPage
  <1>3. (UNCHANGED versions \/ Grown) /\ MutFits(mut)'
    <2>1. CASE mut.base # Version
      <3>1. PICK m : m = [op |-> mut.op, phase |-> "conflict", latest |-> Version]
        OBVIOUS
      <3>2. mut' = m /\ UNCHANGED versions
        BY <2>1, <3>1 DEF Handle, RequireExpectedVersion, StayServer
      <3>3. MutFits(m)
        BY <1>1, <3>1 DEF MutFits, Refused
      <3> QED BY <3>2, <3>3, MutTaken
    <2>2. CASE mut.base = Version /\ mut.op = "preview"
      <3>1. PICK plan : plan = ImportPlan(Now, mut.csv)
        OBVIOUS
      <3>2. PICK m : m = [op |-> "preview", phase |-> "accepted", base |-> mut.base,
                          csv |-> mut.csv, plan |-> plan]
        OBVIOUS
      <3>3. mut' = m /\ UNCHANGED versions
        BY <2>2, <3>1, <3>2 DEF Handle, RequireExpectedVersion, StayServer
      <3>4. PlanFits(m.base, m.csv, m.plan)
        BY <1>1, <2>2, <3>1, <3>2 DEF PlanFits, Now
      <3>5. MutFits(m)
        BY <3>2, <3>4 DEF MutFits, PreviewMade
      <3> QED BY <3>3, <3>5, MutTaken
    <2>3. CASE mut.base = Version /\ mut.op # "preview" /\ Result(mut) = Absent
      <3>1. mut' = [mut EXCEPT !.phase = "refused"] /\ UNCHANGED versions
        BY <2>3 DEF Handle, RequireExpectedVersion, StayServer
      <3>2. MutFits([mut EXCEPT !.phase = "refused"])
        BY <1>1, <2>3, PhaseFits
      <3> QED BY <3>1, <3>2, MutTaken
    <2>4. CASE mut.base = Version /\ mut.op # "preview" /\ Result(mut) # Absent
      <3>1. mut' = [mut EXCEPT !.phase = "accepted"] /\ Bump(Result(mut))
        BY <2>4 DEF Handle, RequireExpectedVersion
      <3>2. MutFits([mut EXCEPT !.phase = "accepted"])
        BY <1>1, <2>4, PhaseFits
      <3>3. Grown
        BY <1>1, <2>4, <3>1, ResultIsASet DEF Grown
      <3> QED BY <3>1, <3>2, <3>3, MutTaken
    <2> QED BY <2>1, <2>2, <2>3, <2>4
  <1> QED BY <1>2, <1>3, RestFits DEF AdminInv

(* The answers, in the dialog and in the order draft.                          *)
LEMMA Answered ==
    ASSUME DialogFits(dialog), NEW latest \in Made \cup {Absent}
    PROVE  DialogFits([dialog EXCEPT !.conflict = latest])
  <1>1. PICK d : d = [dialog EXCEPT !.conflict = latest]
    OBVIOUS
  <1>2. CASE dialog = NoDialog
    <2>1. NoDialog = [kind |-> NoDialog.kind]
      BY DEF NoDialog
    <2>2. d = dialog
      BY <1>1, <1>2, <2>1
    <2> QED BY <1>1, <1>2, <2>2 DEF DialogFits
  <1>3. CASE OptionDialog(dialog)
    BY <1>1, <1>3 DEF OptionDialog, DialogFits
  <1>4. CASE ImportDialog(dialog)
    BY <1>1, <1>4 DEF ImportDialog, DialogFits
  <1>5. CASE SetDialog(dialog)
    BY <1>1, <1>5 DEF SetDialog, DialogFits
  <1> QED BY <1>2, <1>3, <1>4, <1>5 DEF DialogFits

LEMMA PreviewSettled ==
    ASSUME DialogFits(dialog), NEW p, PlanFits(p.v, p.csv, p.plan)
    PROVE  DialogFits([dialog EXCEPT !.conflict = Absent, !.preview = p])
  <1>1. PICK d : d = [dialog EXCEPT !.conflict = Absent]
    OBVIOUS
  <1>2. PICK e : e = [d EXCEPT !.preview = p]
    OBVIOUS
  <1>3. e = [dialog EXCEPT !.conflict = Absent, !.preview = p] /\ DialogFits(d)
    BY <1>1, <1>2, Answered
  <1>4. CASE ImportDialog(d)
    <2>1. /\ e = [kind |-> e.kind, snap |-> e.snap, base |-> e.base, conflict |-> e.conflict,
                  csv |-> e.csv, preview |-> e.preview]
          /\ e.preview = p /\ e.kind = "import"
      BY <1>2, <1>4 DEF ImportDialog
    <2> QED BY <1>3, <2>1 DEF ImportDialog, DialogFits
  <1>5. CASE d = NoDialog \/ OptionDialog(d) \/ SetDialog(d)
    <2>1. DOMAIN d \in {{"kind"}, {"kind", "snap", "base", "conflict", "code", "draft", "touched"},
                        {"kind", "base", "conflict", "on", "name"}}
      <3>1. CASE d = NoDialog
        BY <3>1 DEF NoDialog
      <3>2. CASE OptionDialog(d)
        BY <3>2 DEF OptionDialog
      <3>3. CASE SetDialog(d)
        BY <3>3 DEF SetDialog
      <3> QED BY <1>5, <3>1, <3>2, <3>3
    <2>2. "preview" \notin DOMAIN d
      BY <2>1
    <2>3. d = [x \in DOMAIN d |-> d[x]]
      BY <1>5 DEF NoDialog, OptionDialog, SetDialog
    <2>4. e = d
      BY <1>2, <2>2, <2>3
    <2> QED BY <1>3, <2>4
  <1> QED BY <1>3, <1>4, <1>5 DEF DialogFits

LEMMA AnswerSteps ==
    ASSUME AdminConstants, AdminInv,
           \/ SettlePreview \/ InvalidateChoiceSetMutation \/ CompleteChoiceSetMutation
           \/ MutationConflict \/ MutationFails
    PROVE  AdminInv'
  <1>1. /\ Version \in Made /\ LogFits /\ SumsFit /\ OrderFits(order) /\ ReadingsFit /\ CacheFits
        /\ DialogFits(dialog) /\ MutFits(mut) /\ MutFits(NoMut)
    BY NowIsASet DEF AdminInv, MutFits
  <1>2. UNCHANGED <<versions, reload>> /\ Made' = Made
    BY SameVersions DEF SettlePreview, InvalidateChoiceSetMutation, CompleteChoiceSetMutation,
                        MutationConflict, MutationFails, StayServer
  <1>3. CASE SettlePreview
    <2>1. UNCHANGED <<sum, listed, sread, aggregates, reading, order>> /\ mut' = NoMut
      BY <1>3 DEF SettlePreview, StayCache
    <2>2. PICK p : p = [csv |-> mut.csv, v |-> mut.base, plan |-> mut.plan]
      OBVIOUS
    <2>3. dialog' = [dialog EXCEPT !.conflict = Absent, !.preview = p]
      BY <1>3, <2>2 DEF SettlePreview
    <2>4. PlanFits(p.v, p.csv, p.plan)
      <3>1. PreviewMade(mut)
        BY <1>1, <1>3 DEF SettlePreview, MutFits, NoMut, Refused, OptionChange, OrderChange,
                          SetChange, ImportChange, PreviewAsked
      <3> QED BY <2>2, <3>1 DEF PreviewMade
    <2>5. DialogFits(dialog)'
      BY <1>1, <1>2, <2>3, <2>4, PreviewSettled, DialogTaken
    <2> QED BY <1>1, <1>2, <2>1, <2>5, RestFits, MutTaken DEF AdminInv
  <1>4. CASE InvalidateChoiceSetMutation
    <2>1. /\ mut' = [mut EXCEPT !.phase = "refreshing"] /\ reading' = NoRead
          /\ UNCHANGED <<sum, aggregates, dialog>>
          /\ \/ sread' = Version /\ UNCHANGED listed
             \/ listed' = Version /\ UNCHANGED sread
          /\ \/ order' = [order EXCEPT !.base = Version, !.conflict = Absent, !.dirty = FALSE,
                                       !.rebased = FALSE]
             \/ UNCHANGED order
      BY <1>4 DEF InvalidateChoiceSetMutation
    <2>2. MutFits(mut)'
      BY <1>1, <1>2, <1>4, <2>1, PhaseFits, MutTaken DEF InvalidateChoiceSetMutation
    <2>3. SumsFit'
      BY <1>1, <1>2, <2>1 DEF SumsFit
    <2>4. ReadFits(NoRead)
      BY NothingRead
    <2>5. ReadingsFit'
      BY <1>1, <1>2, <2>1, <2>4 DEF ReadingsFit, ReadFits
    <2>6. OrderFits(order)'
      BY <1>1, <2>1 DEF OrderFits, Draft
    <2> QED BY <1>2, <2>1, <2>2, <2>3, <2>5, <2>6, RestFits DEF AdminInv
  <1>5. CASE CompleteChoiceSetMutation
    <2>1. /\ mut' = NoMut /\ UNCHANGED <<listed, reading, order>>
          /\ dialog' = dialog \/ dialog' = NoDialog
          /\ sread' = Absent /\ aggregates' = {} /\ (sum' = sum \/ sum' = sread)
      BY <1>5 DEF CompleteChoiceSetMutation
    <2>2. SumsFit'
      BY <1>1, <1>2, <2>1 DEF SumsFit
    <2>3. CacheFits'
      BY <2>1 DEF CacheFits
    <2>4. DialogFits(dialog)'
      BY <1>1, <1>2, <2>1, DialogTaken DEF DialogFits
    <2> QED BY <1>1, <1>2, <2>1, <2>2, <2>3, <2>4, RestFits, MutTaken DEF AdminInv
  <1>6. CASE MutationConflict
    <2>1. /\ mut' = NoMut /\ UNCHANGED <<sum, listed, sread, aggregates, reading>>
          /\ \/ order' = [order EXCEPT !.conflict = mut.latest] /\ UNCHANGED dialog
             \/ dialog' = [dialog EXCEPT !.conflict = mut.latest] /\ UNCHANGED order
      BY <1>6 DEF MutationConflict, StayCache
    <2>2. mut.latest \in Made
      BY <1>1, <1>6 DEF MutationConflict, MutFits, NoMut, Refused, OptionChange, OrderChange,
                        SetChange, ImportChange, PreviewAsked, PreviewMade
    <2>3. DialogFits(dialog)'
      BY <1>1, <1>2, <2>1, <2>2, Answered, DialogTaken
    <2>4. OrderFits(order)'
      BY <1>1, <2>1 DEF OrderFits, Draft
    <2> QED BY <1>1, <1>2, <2>1, <2>3, <2>4, RestFits, MutTaken DEF AdminInv
  <1>7. CASE MutationFails
    <2>1. mut' = NoMut /\ UNCHANGED <<sum, listed, sread, aggregates, reading, order, dialog>>
      BY <1>7 DEF MutationFails, StayCache, StayPage
    <2> QED BY <1>1, <1>2, <2>1, RestFits, MutTaken DEF AdminInv
  <1> QED BY <1>3, <1>4, <1>5, <1>6, <1>7

-----------------------------------------------------------------------------
(* The reading of an exact snapshot, for the page or a dialog.                 *)
LEMMA ReloadedFits ==
    ASSUME AdminConstants, DialogFits(dialog), NEW a, a.opts \in OptionSets
    PROVE  DialogFits(DialogReloaded(a))
  <1>1. CASE dialog = NoDialog \/ SetDialog(dialog)
    BY <1>1 DEF DialogReloaded, DialogFits, NoDialog, SetDialog
  <1>2. CASE ImportDialog(dialog)
    <2>1. PICK d : d = [dialog EXCEPT !.snap = a, !.base = a.v, !.conflict = Absent]
      OBVIOUS
    <2>2. d = DialogReloaded(a)
      BY <1>2, <2>1 DEF ImportDialog, DialogReloaded
    <2> QED BY <1>2, <2>1, <2>2 DEF ImportDialog, DialogFits
  <1>3. CASE OptionDialog(dialog)
    <2>1. PICK w \in Option : w = IF dialog.kind = "create" \/ dialog.code \notin DOMAIN a.opts
                                  THEN Row ELSE a.opts[dialog.code]
      <3>1. Row \in Option
        BY DEF Row, Option
      <3> QED BY <3>1, OptionSetShape
    <2>2. PICK d : d = [dialog EXCEPT !.snap = a, !.base = a.v, !.conflict = Absent,
                                      !.touched = {}, !.draft = w]
      OBVIOUS
    <2>3. d = DialogReloaded(a)
      BY <1>3, <2>1, <2>2 DEF OptionDialog, DialogReloaded
    <2> QED BY <1>3, <2>2, <2>3 DEF OptionDialog, DialogFits
  <1> QED BY <1>1, <1>2, <1>3 DEF DialogFits

LEMMA LoadedFits ==
    ASSUME AdminConstants, AdminInv, NEW a, AggregateFits(a), ReloadLoaded(a),
           UNCHANGED <<versions, listed, sread, reading, mut>>
    PROVE  AdminInv'
  <1>1. /\ LogFits /\ SumsFit /\ CacheFits /\ ReadingsFit /\ OrderFits(order) /\ DialogFits(dialog)
        /\ Made' = Made /\ a.opts \in OptionSets /\ a.v \in Made
    BY SameVersions, CachedFit DEF AdminInv, AggregateFits
  <1>2. reload' = NoReload /\ sum' = a.v /\ aggregates' = Cached(a)
    BY DEF ReloadLoaded
  <1>3. \A b \in Cached(a) : AggregateFits(b) /\ b.opts \in OptionSets
    BY <1>1, CachedFits
  <1>4. SumsFit' /\ CacheFits'
    BY <1>1, <1>2, <1>3 DEF SumsFit, CacheFits, AggregateFits
  <1>5. ReadFits(NoRead)
    BY NothingRead
  <1>6. ReadingsFit'
    BY <1>1, <1>2, <1>5 DEF ReadingsFit, ReadFits, NoReload
  <1>7. OrderFits(order)' /\ DialogFits(dialog)'
    <2>1. CASE dialog.kind = "none"
      <3>1. /\ UNCHANGED dialog
            /\ order' = StartChoiceOrderSession(a) \/ order' = OrderReloaded(order, a)
        BY <2>1 DEF ReloadLoaded
      <3>2. OrderFits(StartChoiceOrderSession(a)) /\ OrderFits(OrderReloaded(order, a))
        BY <1>1, SessionStarts, SessionReloads
      <3> QED BY <3>1, <3>2, RestFits DEF OrderFits, Draft
    <2>2. CASE dialog.kind # "none"
      <3>1. dialog' = DialogReloaded(a) /\ SeeSnapshot(a.v, Cached(a))
        BY <2>2 DEF ReloadLoaded
      <3> QED BY <1>1, <1>3, <3>1, ReloadedFits, DialogTaken, SnapshotSeen
    <2> QED BY <2>1, <2>2
  <1> QED BY <1>4, <1>6, <1>7, RestFits DEF AdminInv

LEMMA ReloadSteps ==
    ASSUME AdminConstants, AdminInv,
           ReloadSummary \/ LoadExactSnapshot \/ (ReloadDialog /\ ~UNCHANGED reload)
    PROVE  AdminInv'
  <1>1. /\ LogFits /\ ReadingsFit /\ Version \in Made /\ Version \in Nat /\ ReadFits(reload.read)
        /\ ReadFits(reading) /\ ReadFits(NoRead)
        /\ reload = [phase |-> reload.phase, read |-> reload.read, v |-> reload.v,
                     tries |-> reload.tries]
    BY NothingRead, NowIsASet DEF AdminInv, ReadingsFit
  <1>2. ASSUME NEW r, reload' = r, ReadFits(r.read),
               r = [phase |-> r.phase, read |-> r.read, v |-> r.v, tries |-> r.tries],
               UNCHANGED <<versions, sum, listed, sread, aggregates, reading, order, dialog, mut>>
        PROVE  AdminInv'
    <2>1. ReadingsFit'
      BY <1>1, <1>2, SameVersions DEF ReadingsFit, ReadFits
    <2> QED BY <1>2, <2>1, RestFits DEF AdminInv
  <1>3. ReadFits(NoReload.read) /\ NoReload = [phase |-> NoReload.phase, read |-> NoReload.read,
                                               v |-> NoReload.v, tries |-> NoReload.tries]
    BY <1>1 DEF NoReload
  <1>4. CASE ReloadSummary
    <2>1. PICK read : read = StartRead(Version, 0) /\ ReadFits(read)
      BY <1>1, NothingRead
    <2>2. PICK tries : tries = reload.tries + 1
      OBVIOUS
    <2>3. PICK r : r = [reload EXCEPT !.phase = "options", !.v = Version, !.tries = tries,
                                      !.read = read]
      OBVIOUS
    <2>4. reload' = [reload EXCEPT !.phase = "options", !.v = Version, !.tries = @ + 1,
                                   !.read = StartRead(Version, 0)]
      BY <1>4 DEF ReloadSummary
    <2>5. reload' = r
      BY <2>1, <2>2, <2>3, <2>4
    <2>6. UNCHANGED <<versions, sum, listed, sread, aggregates, reading, order, dialog, mut>>
      BY <1>4 DEF ReloadSummary, StayServer, StayCache, StayPage
    <2>7. r.read = read /\ r = [phase |-> r.phase, read |-> r.read, v |-> r.v, tries |-> r.tries]
      BY <1>1, <2>3
    <2> QED BY <1>2, <2>1, <2>5, <2>6, <2>7
  <1>5. CASE ReloadDialog /\ ~UNCHANGED reload
    <2>1. PICK r : r = [NoReload EXCEPT !.phase = "summary"]
      OBVIOUS
    <2>2. reload' = r /\ UNCHANGED <<versions, sum, listed, sread, aggregates, reading, order, dialog, mut>>
      BY <1>5, <2>1 DEF ReloadDialog, StayServer, StayCache
    <2> QED BY <1>2, <2>1, <2>2, AskedFits
  <1>6. CASE LoadExactSnapshot
    <2> DEFINE p == NextPage(reload.read)
               q == TakePage(reload.read, p)
               agg == [v |-> q.v, opts |-> q.opts]
    <2>0. \/ /\ ReadingFails(reload.read, p)
             /\ reload' = NoReload /\ UNCHANGED <<sum, aggregates, order, dialog>>
          \/ /\ ~ReadingFails(reload.read, p) /\ ~Ends(p)
             /\ reload' = [reload EXCEPT !.read = q] /\ UNCHANGED <<sum, aggregates, order, dialog>>
          \/ /\ ~ReadingFails(reload.read, p) /\ Ends(p)
             /\ IF IsExactChoiceSetAdminSnapshot(reload.v, agg) THEN ReloadLoaded(agg)
                ELSE /\ reload' = IF reload.tries < 3 THEN [reload EXCEPT !.phase = "summary"]
                                  ELSE NoReload
                     /\ UNCHANGED <<sum, aggregates, order, dialog>>
      BY <1>6 DEF LoadExactSnapshot
    <2>1. UNCHANGED <<versions, listed, sread, reading, mut>>
      BY <1>6 DEF LoadExactSnapshot, StayServer
    <2>2. CASE ReadingFails(reload.read, p)
      <3>1. reload' = NoReload /\ UNCHANGED <<sum, aggregates, order, dialog>>
        BY <1>6, <2>2 DEF LoadExactSnapshot
      <3> QED BY <1>2, <1>3, <2>1, <3>1
    <2>3. CASE ~ReadingFails(reload.read, p) /\ ~Ends(p)
      <3>1. reload' = [reload EXCEPT !.read = q] /\ UNCHANGED <<sum, aggregates, order, dialog>>
        BY <1>6, <2>3 DEF LoadExactSnapshot
      <3>2. ReadFits(q)
        BY <1>1, <2>3, PageTaken
      <3> HIDE DEF q
      <3>3. PICK r : r = [reload EXCEPT !.read = q]
        OBVIOUS
      <3> QED BY <1>1, <1>2, <2>1, <3>1, <3>2, <3>3
    <2>4. CASE ~ReadingFails(reload.read, p) /\ Ends(p)
      <3>1. IF IsExactChoiceSetAdminSnapshot(reload.v, agg) THEN ReloadLoaded(agg)
            ELSE /\ reload' = IF reload.tries < 3 THEN [reload EXCEPT !.phase = "summary"] ELSE NoReload
                 /\ UNCHANGED <<sum, aggregates, order, dialog>>
        BY <2>0, <2>4
      <3>2. q.v \in Made /\ q.opts = versions[q.v].opts
        BY <1>1, <2>4, PageTaken
      <3>3. AggregateFits(agg)
        BY <3>2 DEF AggregateFits
      <3> HIDE DEF agg, p, q
      <3>4. CASE IsExactChoiceSetAdminSnapshot(reload.v, agg)
        BY <2>1, <3>1, <3>3, <3>4, LoadedFits
      <3>5. CASE ~IsExactChoiceSetAdminSnapshot(reload.v, agg)
        <4>1. UNCHANGED <<sum, aggregates, order, dialog>>
          BY <3>1, <3>5
        <4>2. PICK r : r = [reload EXCEPT !.phase = "summary"]
          OBVIOUS
        <4>3. reload' = r \/ reload' = NoReload
          BY <3>1, <3>5, <4>2
        <4> QED BY <1>1, <1>2, <1>3, <2>1, <4>1, <4>2, <4>3
      <3> QED BY <3>4, <3>5
    <2> QED BY <2>2, <2>3, <2>4
  <1> QED BY <1>4, <1>5, <1>6

-----------------------------------------------------------------------------
LEMMA AdminStepsFit == ASSUME AdminConstants, AdminInv, [AdminNext]_adminVars PROVE AdminInv'
  <1>1. CASE OtherAdminWrites
    <2>1. UNCHANGED <<sum, listed, sread, aggregates, reading, reload, order, dialog, mut>>
      BY <1>1 DEF OtherAdminWrites, StayCache, StayPage, StayCalls
    <2>2. Grown
      BY <1>1, OthersGrow DEF AdminInv
    <2> QED BY <2>1, <2>2, RestFits DEF AdminInv
  <1>2. CASE UNCHANGED adminVars
    <2>1. UNCHANGED <<versions, sum, listed, sread, aggregates, reading, reload, order, dialog, mut>>
      BY <1>2 DEF adminVars
    <2> QED BY <2>1, RestFits DEF AdminInv
  <1> QED BY <1>1, <1>2, ReadSteps, FetchStep, OrderSteps, DialogSteps, SubmitSteps, HandleStep,
             AnswerSteps, ReloadSteps DEF AdminNext

(* Whatever the administrator of a choice set and the others do, the readings  *)
(* of the options hold what the set had at the version they ask for, up to     *)
(* their cursor, and the cache, the drafts and the previews fit a version.     *)
THEOREM AdminInvariance == ASSUME AdminConstants PROVE AdminSpec => []AdminInv
  <1>1. AdminInit => AdminInv
    BY InitAdmin
  <1>2. AdminInv /\ [AdminNext]_adminVars => AdminInv'
    BY AdminStepsFit
  <1> QED BY <1>1, <1>2, PTL DEF AdminSpec

(* What the browser caches as the options of a version of the set is what the  *)
(* set had at that version, for every number of options and restarts, although *)
(* it was read page by page while others changed the set.                      *)
THEOREM AggregatesMatchTheirVersions ==
    ASSUME AdminConstants PROVE AdminSpec => []AggregateMatchesVersion
  <1>1. AdminInv => AggregateMatchesVersion
    BY NowIsASet DEF AdminInv, CacheFits, AggregateFits, AggregateMatchesVersion, Made
  <1> QED BY <1>1, AdminInvariance, PTL

(* An import that the service applies creates and updates what the preview     *)
(* announced, which was without an error: the version is the same.             *)
LEMMA ImportKeepsItsPlan ==
    ASSUME AdminConstants, AdminInv, Handle, Accepted("import")
    PROVE  /\ ~mut.plan.errors
           /\ mut.plan.created = DOMAIN versions'[Len(versions')].opts \ DOMAIN Now.opts
           /\ mut.plan.updated = {Added} \cap DOMAIN Now.opts
  <1>1. /\ LogFits /\ MutFits(mut) /\ mut.op = "import" /\ mut.phase = "sent"
        /\ mut'.phase = "accepted" /\ Now \in SetStates
    BY NowIsASet DEF AdminInv, Accepted
  <1>2. ImportChange(mut)
    BY <1>1 DEF MutFits, NoMut, Refused, OptionChange, OrderChange, SetChange, PreviewAsked,
                PreviewMade
  <1>3. mut.base = Version /\ Result(mut) # Absent
    <2>1. CASE mut.base # Version
      <3>1. mut' = [op |-> mut.op, phase |-> "conflict", latest |-> Version]
        BY <2>1 DEF Handle, RequireExpectedVersion
      <3> QED BY <1>1, <3>1
    <2>2. CASE mut.base = Version /\ Result(mut) = Absent
      <3>1. mut' = [mut EXCEPT !.phase = "refused"]
        BY <1>1, <2>2 DEF Handle, RequireExpectedVersion
      <3> QED BY <1>1, <1>2, <3>1 DEF ImportChange
    <2> QED BY <2>1, <2>2
  <1>4. versions' = Append(versions, Result(mut))
    BY <1>1, <1>3 DEF Handle, RequireExpectedVersion, Bump
  <1>5. Result(mut) = ImportApply(mut)
    BY <1>1 DEF Result
  <1>6. Result(mut) = [Now EXCEPT !.opts = WithOption(@, Added, Row)]
    BY <1>3, <1>5 DEF ImportApply
  <1>7. DOMAIN Result(mut).opts = DOMAIN Now.opts \cup {Added}
    BY <1>1, <1>6 DEF SetStates, WithOption
  <1>8. versions'[Len(versions')] = Result(mut)
    BY <1>1, <1>4 DEF LogFits
  <1>9. mut.plan = ImportPlan(Now, mut.csv) /\ ~mut.plan.errors
    BY <1>2, <1>3 DEF ImportChange, PlanFits, Now
  <1>10. /\ mut.plan.created = {Added} \ DOMAIN Now.opts
         /\ mut.plan.updated = DOMAIN Now.opts \cap {Added}
    BY <1>9 DEF ImportPlan
  <1> QED BY <1>7, <1>8, <1>9, <1>10

LEMMA OnlyHandleAccepts ==
    ASSUME AdminConstants, AdminInv, [AdminNext]_adminVars, Accepted("import") PROVE Handle
  <1>1. /\ mut.phase = "sent" /\ mut'.phase = "accepted" /\ mut # mut'
    BY DEF Accepted
  <1> QED BY <1>1
       DEF AdminNext, adminVars, OtherAdminWrites, SetsRead, SummaryRequested, SummaryAnswered,
           ChoiceOptionQuery, FetchPage, OptionsFail, Reorder, RetryReorder, ReloadLatestOrder,
           ChangeActive, OpenOptionEditor, OpenImport, OpenSetEditor, ChangeField, SubmitOption,
           SubmitSet, Preview, ApplyImport, ReloadDialog, CloseDialog, ReloadSummary,
           LoadExactSnapshot, SettlePreview, InvalidateChoiceSetMutation,
           CompleteChoiceSetMutation, MutationConflict, MutationFails, Navigate, StayCalls, NoMut,
           InDialog, ReorderPending

(* An import that is applied creates and updates exactly what the preview      *)
(* announced, and the administrator saw no error in it.                        *)
THEOREM ImportsAreAppliedAsPreviewed ==
    ASSUME AdminConstants PROVE AdminSpec => AppliedAsPreviewed
  <1>1. AdminInv /\ [AdminNext]_adminVars =>
            [Accepted("import") =>
               /\ ~mut.plan.errors
               /\ mut.plan.created = DOMAIN versions'[Len(versions')].opts \ DOMAIN Now.opts
               /\ mut.plan.updated = {Added} \cap DOMAIN Now.opts]_adminVars
    BY OnlyHandleAccepts, ImportKeepsItsPlan
  <1> QED BY <1>1, AdminInvariance, PTL DEF AdminSpec, AppliedAsPreviewed
=============================================================================
