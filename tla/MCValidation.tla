---------------------------- MODULE MCValidation ----------------------------
(* The validation of a sheet, for TLC, in three parts, one of which takes     *)
(* steps in a behaviour: the page that asks for it and shows what it knows,   *)
(* the evaluation of the rules, and the scan of a portable pattern.  The page *)
(* is this module's own; the second of its two writes leaves an error.        *)
EXTENDS SheetValidation, Integers, Sequences, SequencesExt
CONSTANTS Dot, None

VARIABLE part   \* the part that takes steps

-----------------------------------------------------------------------------
(* Sheets for the evaluation of the rules: four layers, one of them without   *)
(* rows and two of one order number; values that are one number in two        *)
(* writings; rules of both types; and documents that do not fit.              *)
Number(negative, integer, fraction) ==
    [negative |-> negative, integer |-> integer, fraction |-> fraction]
Numerals == [one |-> Number(FALSE, <<1>>, <<>>), one0 |-> Number(FALSE, <<0, 1>>, <<0>>),
               half |-> Number(FALSE, <<>>, <<5>>), minus |-> Number(TRUE, <<1>>, <<0, 5>>),
               ten |-> Number(FALSE, <<1, 0>>, <<>>), less |-> Number(TRUE, <<1>>, <<>>),
               none |-> Number(TRUE, <<0, 0>>, <<0>>), zero |-> Number(FALSE, <<0>>, <<>>),
               long |-> Number(FALSE, <<1, 1, 1>>, <<1, 1>>)]

AColumn(code, type) ==
    [code |-> code, order |-> 4 - code, type |-> type, required |-> FALSE, min |-> None,
     max |-> None, pattern |-> None, set |-> None, version |-> None]
Columns == {[AColumn(1, "number") EXCEPT !.min = "half", !.max = "one0"],
            [AColumn(2, "number") EXCEPT !.required = TRUE],
            [AColumn(3, "choice") EXCEPT !.set = "s", !.version = 1],
            [AColumn(4, "text") EXCEPT !.pattern = {"good"}]}
Resource == [target |-> 1, summary |-> 1, version |-> 1, active |-> TRUE, stale |-> FALSE,
             options |-> [new |-> TRUE, old |-> FALSE]]

Layer(key, order, count, equipment) ==
    [key |-> key, order |-> order, count |-> count, layer |-> key, step |-> key,
     equipment |-> equipment, area |-> None]
Project == {Layer(1, 2, 2, "e"), Layer(2, 2, 1, None), Layer(3, 1, 1, None), Layer(4, 1, 0, None)}

AScope == [layers |-> {}, steps |-> {}, equipment |-> {}, areas |-> {}]
NeedRule == [code |-> 1, type |-> "required_if", severity |-> "warning", left |-> 1, right |-> 3,
             equals |-> "one0", scope |-> AScope]
PriorRule == [code |-> 2, type |-> "prior_por", severity |-> "error", left |-> 1, right |-> 2,
              equals |-> None, scope |-> AScope]
RuleSets == {{NeedRule, PriorRule}, {[PriorRule EXCEPT !.scope.equipment = {"e"}]}}
BadRules == {[PriorRule EXCEPT !.right = 3], [NeedRule EXCEPT !.right = 9],
             [NeedRule EXCEPT !.left = 3], [NeedRule EXCEPT !.equals = "odd"]}

Row(id, layer, order, index, por, cells) ==
    [id |-> id, layer |-> layer, layerOrder |-> order, index |-> index, por |-> por,
     cells |-> <<cells[1], cells[2], cells[3], cells[4]>>]
Document(rows, rules) ==
    [columns |-> Columns, layers |-> Project, rows |-> rows, display |-> rows, rules |-> rules,
     resources |-> [s |-> Resource]]

Sheets == {{Row(1, 3, 1, 1, por, <<"one", a, None, None>>),
            Row(2, 1, 2, 2, q = 2, <<b, "half", c, "good">>),
            Row(3, 1, 2, 1, q = 3, <<d, "one0", "new", "bad">>),
            Row(4, 2, 2, 1, FALSE, <<e, None, None, None>>)} :
               por \in BOOLEAN, q \in {0, 2, 3}, a \in {None, "one", "x"}, b \in {"one0", "half"},
               c \in {None, "old", "odd"}, d \in {None, "half"}, e \in {"half", "one", "ten"}}
Fitting == {Document(s, rules) : s \in Sheets, rules \in RuleSets}

(* One document, and what may be wrong with it: the project is of another     *)
(* time, options are missing or stale, the definitions contradict themselves, *)
(* or the rows on display are others.                                         *)
Plain == CHOOSE b \in Fitting : b.rules = {NeedRule, PriorRule}
Misfits == {[Plain EXCEPT !.layers = {l \in @ : l.key # 1}],
            [Plain EXCEPT !.layers = @ \cup {Layer(1, 3, 2, "e")}],
            [Plain EXCEPT !.layers = {[l EXCEPT !.order = 3] : l \in @}],
            [Plain EXCEPT !.rows = {r \in @ : r.id # 2}, !.display = {r \in @ : r.id # 2}],
            [Plain EXCEPT !.display = {r \in @ : r.id # 2}],
            [Plain EXCEPT !.resources.s.stale = TRUE],
            [Plain EXCEPT !.resources.s.summary = 2],
            [Plain EXCEPT !.columns = {[c EXCEPT !.version = None] : c \in @}],
            [Plain EXCEPT !.columns = {[c EXCEPT !.max = IF c.code = 1 THEN "minus" ELSE @] : c \in @}],
            [Plain EXCEPT !.columns = {[c EXCEPT !.min = IF c.code = 2 THEN "x" ELSE @] : c \in @}]}
           \cup {[Plain EXCEPT !.rules = @ \cup {[r EXCEPT !.code = 3]}] : r \in BadRules}

VARIABLES book, stage, todo, pending, rule, prior, issues, list
ruleVars == <<book, stage, todo, pending, rule, prior, issues, list>>
Rules == INSTANCE RuleEvaluation WITH
    Books <- Fitting \cup Misfits, Numerals <- Numerals, MaxDigits <- 4
NoRules == /\ book = Plain /\ stage = "join" /\ todo = {} /\ pending = {} /\ rule = None
           /\ prior = {} /\ issues = {} /\ list = <<>>

-----------------------------------------------------------------------------
(* Sources of patterns: up to two alternatives of up to four atoms, each a    *)
(* character (1 to 7), the dot or a class, some with a repetition, and odd    *)
(* ones that a scan must refuse.                                              *)
Item(char, escaped) == [char |-> char, escaped |-> escaped]
Atom(kind, char, items, times) ==
    [kind |-> kind, char |-> char, escaped |-> FALSE, items |-> items,
     quantified |-> times # <<>>,
     lower |-> IF times = <<>> THEN 1 ELSE times[1],
     upper |-> IF times = <<>> THEN 1 ELSE times[2]]
Class(chars) == [i \in DOMAIN chars |-> Item(chars[i], FALSE)]
Atoms == {Atom("character", 1, <<>>, <<>>), Atom("character", 3, <<>>, <<0, 1>>),
          Atom("class", 0, Class(<<1, 5, 3>>), <<2, 2>>), Atom("class", 0, Class(<<5, 2>>), <<0, 1>>),
          Atom("class", 0, Class(<<3, 5, 2>>), <<>>), Atom("dot", 0, <<>>, <<0, 3>>)}
Odd == {Atom("character", 6, <<>>, <<>>), Atom("dot", 0, <<>>, <<2, 1>>),
        [Atom("character", 5, <<>>, <<>>) EXCEPT !.escaped = TRUE],
        [Atom("character", 1, <<>>, <<>>) EXCEPT !.escaped = TRUE],
        Atom("class", 0, Class(<<2, 5, 3, 5, 1>>), <<>>), Atom("class", 0, Class(<<7, 1>>), <<>>),
        Atom("class", 0, <<>>, <<>>),
        Atom("class", 0, <<Item(1, FALSE), Item(5, TRUE), Item(3, FALSE)>>, <<0, 1>>)}
Branches == BoundedSeq(Atoms, 4) \cup {<<a>> : a \in Odd} \cup {<<a, b>> : a \in Odd, b \in Atoms}
Short == {b \in Branches : Len(b) <= 1}
Plainest == {b \in Short : \A a \in ToSet(b) : a.kind # "class"}
PatternSources == {<<>>} \cup {<<b>> : b \in Branches} \cup {<<b, c>> : b, c \in Short}
                  \cup {<<b, c, d>> : b, c, d \in Plainest}

VARIABLES source, branch, atoms, repeated, length, maxima, verdict
patternVars == <<source, branch, atoms, repeated, length, maxima, verdict>>
Pattern == INSTANCE PortablePattern WITH
    Sources <- PatternSources, Hyphen <- 5, Open <- 6, Caret <- 7, Meta <- {5, 6, 7},
    Forbidden <- {7}, MaxAlternatives <- 2, MaxAtoms <- 3, MaxQuantified <- 2,
    MaxRepetition <- 2, MaxLength <- 4
NoPattern == /\ source = <<>> /\ branch = 1 /\ atoms = 0 /\ repeated = 0 /\ length = 0
             /\ maxima = <<>> /\ verdict = "scanning"

ASSUME Constants == /\ ValidationConstants /\ Rules!RuleConstants
                    /\ Pattern!PatternConstants

-----------------------------------------------------------------------------
vars == <<part, validationVars, ruleVars, patternVars>>

Init == /\ ValidationInit
        /\ \/ part = "page" /\ NoRules /\ NoPattern
           \/ part = "rules" /\ Rules!Init /\ NoPattern
           \/ part = "pattern" /\ NoRules /\ Pattern!Init

OfPage == part = "page" /\ UNCHANGED <<part, ruleVars, patternVars>>
Next == \/ OfPage /\ ValidationNext
        \/ part = "rules" /\ Rules!Next /\ UNCHANGED <<part, validationVars, patternVars>>
        \/ part = "pattern" /\ Pattern!Next /\ UNCHANGED <<part, validationVars, ruleVars>>

(* The fairness of the page; the evaluation and the scan are functions.       *)
Fairness ==
    /\ WF_vars(OfPage /\ Publish) /\ WF_vars(OfPage /\ TimerFires)
    /\ WF_vars(OfPage /\ WaitEnds) /\ WF_vars(OfPage /\ Save)
    /\ WF_vars(OfPage /\ WriteServed) /\ WF_vars(OfPage /\ WriteAnswered)
    /\ WF_vars(OfPage /\ ReadServed) /\ WF_vars(OfPage /\ ReadAnswered)
    /\ WF_vars(OfPage /\ ProjectAnswered) /\ WF_vars(OfPage /\ RequestServed)
    /\ WF_vars(OfPage /\ RequestAnswered) /\ WF_vars(OfPage /\ RequestReread)

Spec == Init /\ [][Next]_vars /\ Fairness

-----------------------------------------------------------------------------
(* A finished evaluation has found what the rules say, its list has each      *)
(* issue once, in the order of the sheet, and texts of numbers compare as the *)
(* numbers do (RuleEvaluation).                                               *)
IssuesAreTheRules ==
    part = "rules" => /\ Rules!IssuesAreTheRules /\ Rules!ListIsOrdered
                      /\ Rules!TextsCompareAsNumbers

(* The scan compiles the portable patterns and no others (PortablePattern).   *)
ScanIsExact == part = "pattern" => Pattern!ScanIsExact
=============================================================================
