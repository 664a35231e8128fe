--------------------------- MODULE RuleEvaluation ---------------------------
(* The evaluation of the validation rules over one sheet, as the browser runs *)
(* it on every render: two documents read apart, the sheet and the project,   *)
(* are joined or refused, the parameters are prepared, and layer after layer  *)
(* the cells and then the rules are evaluated.  The program loops over sorted *)
(* lists; here each turn of a loop is a step that takes the least of what is  *)
(* left.  Codes, keys and identities are numbers, in the order of their text. *)
(* Cell texts are opaque, and Numerals has the digits of those that read as a *)
(* decimal.                                                                   *)
EXTENDS Naturals, Sequences, FiniteSets, SequencesExt

CONSTANTS
  Books,       \* pairs of documents that may be evaluated
  Numerals,    \* texts that are decimals |-> [negative, integer, fraction]
  MaxDigits,   \* digits a decimal may have (128 in the code)
  None

\* What the constants must satisfy.
RuleConstants ==
    /\ MaxDigits \in Nat
    /\ \A t \in DOMAIN Numerals :
           /\ Numerals[t].negative \in BOOLEAN
           /\ {Numerals[t].integer, Numerals[t].fraction} \subseteq Seq(0..9)

VARIABLES book,      \* the documents and the edits on display
          stage,     \* where the evaluation is
          todo,      \* layers the running loop has not reached
          pending,   \* rules not taken yet
          rule,      \* the rule being evaluated, or None
          prior,     \* candidate values of the layers this rule has passed
          issues, list

vars == <<book, stage, todo, pending, rule, prior, issues, list>>

-----------------------------------------------------------------------------
(* Decimals: digits are normalized as text and compared as text.              *)

StripLeading(s) ==
    LET zeros == {i \in DOMAIN s : \A j \in 1..i : s[j] = 0}
    IN IF s = <<>> THEN <<0>>
       ELSE IF Cardinality(zeros) = Len(s) THEN <<0>> ELSE SubSeq(s, Cardinality(zeros) + 1, Len(s))
StripTrailing(s) ==
    SubSeq(s, 1, Len(s) - Cardinality({i \in DOMAIN s : \A j \in i..Len(s) : s[j] = 0}))
Normalized(d) ==
    LET i == StripLeading(d.integer)
        f == StripTrailing(d.fraction)
    IN [negative |-> d.negative /\ ~(i = <<0>> /\ f = <<>>), integer |-> i, fraction |-> f]

IsDecimal(t) == /\ t \in DOMAIN Numerals
                /\ Len(Numerals[t].integer) + Len(Numerals[t].fraction) \in 1..MaxDigits

TextLess(s, t) == \E i \in DOMAIN s : s[i] < t[i] /\ \A j \in 1..(i - 1) : s[j] = t[j]
Padded(s, n) == [i \in 1..n |-> IF i <= Len(s) THEN s[i] ELSE 0]
MagnitudeLess(a, b) ==
    LET width == IF Len(a.fraction) > Len(b.fraction) THEN Len(a.fraction) ELSE Len(b.fraction)
    IN \/ Len(a.integer) < Len(b.integer)
       \/ Len(a.integer) = Len(b.integer) /\ TextLess(a.integer, b.integer)
       \/ a.integer = b.integer /\ TextLess(Padded(a.fraction, width), Padded(b.fraction, width))
DecimalLess(a, b) == \/ a.negative /\ ~b.negative
                     \/ ~a.negative /\ ~b.negative /\ MagnitudeLess(a, b)
                     \/ a.negative /\ b.negative /\ MagnitudeLess(b, a)

-----------------------------------------------------------------------------
(* Joining the documents: anything that does not fit refuses the whole.       *)

Bound(c) == IF c.type = "choice" THEN c.set # None /\ c.version # None
            ELSE c.set = None /\ c.version = None
BindingsHold(columns) ==
    /\ \A c \in columns : Bound(c)
    /\ \A c, d \in columns : c.set # None /\ c.set = d.set => c.version = d.version

RowsOf(b, l) == {r \in b.rows : r.layer = l.key}
LayersFit(b) ==
    /\ \A l, m \in b.layers : l.key = m.key => l = m
    /\ \A r \in b.rows : \E l \in b.layers : l.key = r.layer /\ l.order = r.layerOrder
    /\ \A l \in b.layers : Cardinality(RowsOf(b, l)) = l.count

ResourceFits(b, c) ==
    /\ c.set \in DOMAIN b.resources
    /\ LET resource == b.resources[c.set]
       IN /\ resource.options # None
          /\ resource.target = c.version /\ resource.summary = c.version
          /\ resource.version = c.version
          /\ resource.active # None /\ ~resource.stale
ChoicesFit(b) == \A c \in b.columns : c.type = "choice" => ResourceFits(b, c)

(* The rows on display carry the edits, and must be the rows of the sheet.    *)
DisplayFits(b) == {<<r.id, r.layer>> : r \in b.rows} = {<<r.id, r.layer>> : r \in b.display}

Joins(b) == BindingsHold(b.columns) /\ LayersFit(b) /\ ChoicesFit(b) /\ DisplayFits(b)

OptionsOf(b, c) == LET resource == b.resources[c.set]
                 IN [o \in DOMAIN resource.options |-> resource.active /\ resource.options[o]]
Cells(b, r) == (CHOOSE d \in b.display : d.id = r.id).cells
Column(b, code) == CHOOSE c \in b.columns : c.code = code

-----------------------------------------------------------------------------
(* Preparing the parameters, and the scope of a rule.                         *)

Prepared(c) ==
    CASE c.type = "number" ->
           /\ c.pattern = None
           /\ {c.min, c.max} \ {None} \subseteq {t \in DOMAIN Numerals : IsDecimal(t)}
           /\ None \notin {c.min, c.max} =>
                  ~DecimalLess(Normalized(Numerals[c.max]), Normalized(Numerals[c.min]))
      [] c.type = "text" -> c.min = None /\ c.max = None
      [] c.type = "choice" -> c.min = None /\ c.max = None /\ c.pattern = None

Admits(filter, value) == filter = {} \/ (value # None /\ value \in filter)
ScopeApplies(r, l) == /\ Admits(r.scope.layers, l.layer) /\ Admits(r.scope.steps, l.step)
                      /\ Admits(r.scope.equipment, l.equipment) /\ Admits(r.scope.areas, l.area)

(* What a stored text is worth to a rule: nothing, when it is empty or a      *)
(* malformed number.                                                          *)
Worth(c, text) == CASE text = None -> None
                    [] text # None /\ c.type = "number" /\ ~IsDecimal(text) -> None
                    [] text # None /\ c.type = "number" /\ IsDecimal(text) ->
                         Normalized(Numerals[text])
                    [] OTHER -> text
Stored(b, r, code) == Worth(Column(b, code), Cells(b, r)[code])

RuleFits(b, r) ==
    /\ {r.left, r.right} \subseteq {c.code : c \in b.columns}
    /\ IF r.type = "required_if"
       THEN LET when == Column(b, r.left)
            IN /\ Worth(when, r.equals) # None
               /\ when.type = "choice" => r.equals \in DOMAIN OptionsOf(b, when)
       ELSE /\ Column(b, r.left).type = Column(b, r.right).type
            /\ Column(b, r.left).set = Column(b, r.right).set

-----------------------------------------------------------------------------
(* The issues of one layer.                                                   *)

Issue(code, severity, r, l, column, of, searched) ==
    [code |-> code, severity |-> severity, condition |-> r.id, index |-> r.index,
     layer |-> l.key, layerOrder |-> l.order, parameter |-> column.code,
     parameterOrder |-> column.order, rule |-> of, searched |-> searched]

OfRange(c, n) ==
    CASE c.min # None /\ DecimalLess(n, Normalized(Numerals[c.min])) -> "range_min"
      [] c.max # None /\ DecimalLess(Normalized(Numerals[c.max]), n) -> "range_max"
      [] OTHER -> "none"
CellVerdict(b, c, text) ==
    CASE text = None -> IF c.required THEN "required" ELSE "none"
      [] text # None /\ c.type = "number" ->
           IF IsDecimal(text) THEN OfRange(c, Normalized(Numerals[text])) ELSE "number_malformed"
      [] text # None /\ c.type = "text" ->
           IF c.pattern # None /\ text \notin c.pattern THEN "pattern_mismatch" ELSE "none"
      [] text # None /\ c.type = "choice" ->
           LET choices == OptionsOf(b, c)
           IN IF text \notin DOMAIN choices THEN "choice_unknown"
              ELSE IF choices[text] THEN "none" ELSE "choice_inactive"
SeverityOf(verdict) == IF verdict = "choice_inactive" THEN "warning" ELSE "error"

CellIssues(b, l) ==
    {Issue(CellVerdict(b, x[2], Cells(b, x[1])[x[2].code]),
           SeverityOf(CellVerdict(b, x[2], Cells(b, x[1])[x[2].code])), x[1], l, x[2], None, 0) :
        x \in {y \in RowsOf(b, l) \X b.columns :
                  CellVerdict(b, y[2], Cells(b, y[1])[y[2].code]) # "none"}}

RequiredIfIssues(b, r, l) ==
    {Issue("required_if", r.severity, c, l, Column(b, r.right), r, 0) :
        c \in {x \in RowsOf(b, l) :
                  /\ Stored(b, x, r.left) = Worth(Column(b, r.left), r.equals)
                  /\ Cells(b, x)[r.right] = None}}

PriorPorIssuesOwn(b, r, l, known, searched) ==
    {Issue("value_not_found_in_prior_por", r.severity, c, l, Column(b, r.left), r, searched) :
        c \in {x \in RowsOf(b, l) :
                  /\ Stored(b, x, r.left) # None
                  /\ Stored(b, x, r.left) \notin known \cup {Stored(b, y, r.right) : y \in RowsOf(b, l)}}}
PriorPorIssues(b, r, l, known, searched) ==
    {Issue("value_not_found_in_prior_por", r.severity, c, l, Column(b, r.left), r, searched) :
        c \in {x \in RowsOf(b, l) : /\ Stored(b, x, r.left) # None
                                    /\ Stored(b, x, r.left) \notin known}}
Candidates(b, r, l) == {Stored(b, x, r.right) : x \in {y \in RowsOf(b, l) : y.por}} \ {None}

(* The order of the list: severity, layer, condition, parameter, rule.        *)
Key(i) == <<IF i.severity = "error" THEN 0 ELSE 1, i.layerOrder, i.layer, i.index, i.condition,
            i.parameterOrder, i.parameter, IF i.rule = None THEN 0 ELSE i.rule.code>>
IssueBefore(i, j) == TextLess(Key(i), Key(j))
Inserted(i, s) == InsertAt(s, Cardinality({n \in DOMAIN s : IssueBefore(s[n], i)}) + 1, i)

-----------------------------------------------------------------------------
Init == /\ book \in Books /\ stage = "join" /\ todo = {} /\ pending = {} /\ rule = None
        /\ prior = {} /\ issues = {} /\ list = <<>>

LayerBefore(l, m) == l.order < m.order \/ (l.order = m.order /\ l.key < m.key)
First(l) == l \in todo /\ \A m \in todo \ {l} : LayerBefore(l, m)
FirstRule(r) == r \in pending /\ \A q \in pending \ {r} : r.code < q.code

Join == /\ stage = "join"
        /\ stage' = IF Joins(book) THEN "prepare" ELSE "refused"
        /\ UNCHANGED <<book, todo, pending, rule, prior, issues, list>>

PrepareParameters ==
    /\ stage = "prepare"
    /\ IF \A c \in book.columns : Prepared(c)
       THEN stage' = "cells" /\ todo' = book.layers
       ELSE stage' = "invalid" /\ UNCHANGED todo
    /\ UNCHANGED <<book, pending, rule, prior, issues, list>>

EvaluateCells ==
    /\ stage = "cells"
    /\ \E l \in todo : /\ First(l) /\ todo' = todo \ {l}
                       /\ issues' = issues \cup CellIssues(book, l)
    /\ UNCHANGED <<book, stage, pending, rule, prior, list>>
CellsDone == /\ stage = "cells" /\ todo = {} /\ stage' = "rules" /\ pending' = book.rules
             /\ UNCHANGED <<book, todo, rule, prior, issues, list>>

TakeRule ==
    /\ stage = "rules" /\ todo = {}
    /\ \E r \in pending :
         /\ FirstRule(r) /\ pending' = pending \ {r}
         /\ IF RuleFits(book, r) THEN rule' = r /\ todo' = book.layers /\ UNCHANGED stage
                                 ELSE stage' = "invalid" /\ UNCHANGED <<rule, todo>>
    /\ prior' = {} /\ UNCHANGED <<book, issues, list>>

EvaluateRequiredIf ==
    /\ stage = "rules" /\ rule # None /\ rule.type = "required_if"
    /\ \E l \in todo :
         /\ First(l) /\ todo' = todo \ {l}
         /\ issues' = issues \cup IF ScopeApplies(rule, l) THEN RequiredIfIssues(book, rule, l) ELSE {}
    /\ UNCHANGED <<book, stage, pending, rule, prior, list>>

(* The layer is judged by the layers before it, and its POR counts only for   *)
(* the layers after it.  Layers outside the scope, and layers without rows,   *)
(* are searched all the same.                                                 *)
EvaluatePriorPor ==
    /\ stage = "rules" /\ rule # None /\ rule.type = "prior_por"
    /\ \E l \in todo :
         /\ First(l) /\ todo' = todo \ {l}
         /\ issues' = issues \cup
                IF ScopeApplies(rule, l)
                THEN PriorPorIssues(book, rule, l, prior, Cardinality(book.layers \ todo)) ELSE {}
         /\ prior' = prior \cup Candidates(book, rule, l)
    /\ UNCHANGED <<book, stage, pending, rule, list>>

SortIssues == /\ stage = "rules" /\ todo = {} /\ pending = {}
              /\ stage' = "done" /\ list' = FoldSet(Inserted, <<>>, issues)
              /\ UNCHANGED <<book, todo, pending, rule, prior, issues>>

Next == \/ Join \/ PrepareParameters \/ EvaluateCells \/ CellsDone \/ TakeRule
        \/ EvaluateRequiredIf \/ EvaluatePriorPor \/ SortIssues

Spec == Init /\ [][Next]_vars

-----------------------------------------------------------------------------
(* What the rules say of a sheet, without any order of evaluation: a required *)
(* cell is filled where its condition holds, and a value is one some POR      *)
(* condition of an earlier layer has as its candidate.                        *)
KnownBefore(b, r, l, value) ==
    \E m \in b.layers : LayerBefore(m, l) /\ value \in Candidates(b, r, m)
DeclaredOf(b, r, l) ==
    IF ~ScopeApplies(r, l) THEN {}
    ELSE IF r.type = "required_if" THEN RequiredIfIssues(b, r, l)
    ELSE {Issue("value_not_found_in_prior_por", r.severity, c, l, Column(b, r.left), r,
                Cardinality({m \in b.layers : LayerBefore(m, l)})) :
             c \in {x \in RowsOf(b, l) : /\ Stored(b, x, r.left) # None
                                         /\ ~KnownBefore(b, r, l, Stored(b, x, r.left))}}
Declared(b) == UNION {CellIssues(b, l) : l \in b.layers}
               \cup UNION {DeclaredOf(b, x[1], x[2]) : x \in b.rules \X b.layers}

(* A finished evaluation has found what the rules say, no more and no less,   *)
(* although it went through layers and rules once and carried a running set   *)
(* (evaluator.ts, evaluatePriorPor and evaluateProject).                      *)
IssuesAreTheRules == stage = "done" => issues = Declared(book)

(* The list has every issue once, errors before warnings, and what is found   *)
(* in one layer, and in one condition of it, stands together in the order of  *)
(* the sheet, although layers may share an order number (compareIssue).       *)
Together(i, j) == /\ ~(i.severity = "warning" /\ j.severity = "error")
                  /\ i.severity = j.severity =>
                        /\ i.layerOrder <= j.layerOrder
                        /\ i.layerOrder = j.layerOrder => i.layer <= j.layer
                        /\ i.layer = j.layer => i.index <= j.index
                        /\ i.condition = j.condition => i.parameterOrder <= j.parameterOrder
ListIsOrdered ==
    stage = "done" => /\ ToSet(list) = issues /\ Len(list) = Cardinality(issues)
                      /\ \A m, n \in DOMAIN list : m < n => Together(list[m], list[n])

(* The value of a decimal, in units of the last digit any of them may have.   *)
Value(d) == LET digits == d.integer \o Padded(d.fraction, MaxDigits)
            IN FoldLeft(LAMBDA sum, digit : 10 * sum + digit, 0, digits)
Smaller(d, e) == \/ d.negative /\ ~e.negative /\ Value(d) + Value(e) > 0
                 \/ ~d.negative /\ ~e.negative /\ Value(d) < Value(e)
                 \/ d.negative /\ e.negative /\ Value(e) < Value(d)

(* Two numbers of the sheet are one text to a rule exactly when they are one  *)
(* number, and their texts compare as the numbers do, signs, zeros and places *)
(* of different length included (decimal.ts).                                 *)
TextsCompareAsNumbers ==
    stage = "join" =>
        \A s, t \in {x \in DOMAIN Numerals : IsDecimal(x)} :
            LET a == Numerals[s]  b == Numerals[t]
            IN /\ DecimalLess(Normalized(a), Normalized(b)) <=> Smaller(a, b)
               /\ Normalized(a) = Normalized(b) <=> ~Smaller(a, b) /\ ~Smaller(b, a)
=============================================================================
