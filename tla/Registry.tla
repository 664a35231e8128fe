------------------------------- MODULE Registry -------------------------------
(* Administrators of the registry: rules that refer to parameters, parameters  *)
(* that are created, changed, deactivated and imported.  A request is a READ   *)
(* COMMITTED transaction: it locks rows one after the other, reads what is     *)
(* committed when it asks, and what it writes is seen at its commit.           *)
(*                                                                             *)
(* The type of a choice parameter is its set; choice sets and their locks,     *)
(* categories, names and patterns are left out.                                *)
EXTENDS Naturals, Sequences

CONSTANTS Code,     \* the codes of parameters, in their order
          TypeOf,   \* the type of each, which never changes
          Limit,    \* the values a bound of a number has
          Rule, Admin,
          Nothing, Keep,         \* no bound, nobody; a field that was not sent
          MaxVersion, MaxSteps   \* bounds: versions of a rule, and requests

VARIABLES parameters, \* the committed parameters, by code
          rules,      \* the committed rules
          locked,     \* who holds the row of a parameter or a rule
          request,    \* the request of each administrator
          steps

registryVars == <<parameters, rules, locked, request, steps>>

ASSUME RegistryConstants ==
    /\ Code \subseteq Nat /\ Limit \subseteq Nat /\ MaxVersion \in Nat /\ MaxSteps \in Nat
    /\ Code \cap Rule = {} /\ DOMAIN TypeOf = Code
    /\ Nothing \notin Code \cup Rule \cup Admin /\ Keep \notin Limit \cup {Nothing}

Bounds == [min : Limit \cup {Nothing}, max : Limit \cup {Nothing}]
Changes == [min : Limit \cup {Nothing, Keep}, max : Limit \cup {Nothing, Keep}]
Ordered(b) == b.min # Nothing /\ b.max # Nothing => b.min <= b.max
Fits(p, b) == TypeOf[p] = "number" \/ (b.min = Nothing /\ b.max = Nothing)

Specs == [type : {"required_if", "prior_por"}, first : Code, second : Code]
Codes(spec) == {spec.first, spec.second}
Unlocked(spec) == <<>>  \* changes InOrder: the parameters are read without their rows
InOrder(spec) == IF spec.first = spec.second THEN <<spec.first>>
                 ELSE IF spec.first < spec.second THEN <<spec.first, spec.second>>
                 ELSE <<spec.second, spec.first>>

TypesFit(spec) == spec.type = "prior_por" => TypeOf[spec.first] = TypeOf[spec.second]
(* The parameters of a rule exist, are active, and of the types it asks for.   *)
Canonical(spec) ==
    /\ \A p \in Codes(spec) : p \in DOMAIN parameters /\ parameters[p].active
    /\ TypesFit(spec)

(* A request: its rule or parameter, what it asks for, the rows of the file    *)
(* that are left, the rows still to lock, and what it has written.             *)
Resting == [op |-> "idle", stage |-> "end", row |-> Nothing, spec |-> Keep, active |-> Keep,
            version |-> 0, bounds |-> Keep, file |-> <<>>, plan |-> <<>>, writes |-> <<>>]

(* A registry of parameters, perhaps with a rule of parameters that are there. *)
RegistryInit ==
    /\ parameters \in UNION {[C -> {[active |-> TRUE, min |-> Nothing, max |-> Nothing]}] :
                              C \in SUBSET Code}
    /\ \/ rules = <<>>
       \/ \E rule \in Rule, spec \in Specs, on \in BOOLEAN :
              /\ Canonical(spec)
              /\ rules = [r \in {rule} |-> [spec |-> spec, active |-> on, version |-> 1]]
    /\ locked = [row \in Code \cup Rule |-> Nothing]
    /\ request = [a \in Admin |-> Resting] /\ steps = 0

Begins(a, r) == /\ request[a].op = "idle" /\ steps < MaxSteps /\ steps' = steps + 1
                /\ request' = [request EXCEPT ![a] = r]
                /\ UNCHANGED <<parameters, rules, locked>>
Becomes(a, r) == /\ request' = [request EXCEPT ![a] = r]
                 /\ UNCHANGED <<parameters, rules, steps>>
At(a, op, stage) == request[a].op = op /\ request[a].stage = stage /\ request[a].plan = <<>>

Put(f, x, v) == [y \in DOMAIN f \cup {x} |-> IF y = x THEN v ELSE f[y]]
Given(new, old) == IF new = Keep THEN old ELSE new
Inserting(row) == \E a \in Admin : row \in DOMAIN request[a].writes

Lock(a) == LET r == request[a] IN
    /\ r.plan # <<>> /\ locked[Head(r.plan)] \in {Nothing, a}
    /\ locked' = [locked EXCEPT ![Head(r.plan)] = a]
    /\ Becomes(a, [r EXCEPT !.plan = Tail(@)])

-----------------------------------------------------------------------------
(* Rules.  The parameters of one are locked in the order of their codes before *)
(* they are looked at.                                                         *)

AskNewRule(a) == \E rule \in Rule \ DOMAIN rules, spec \in Specs, on \in BOOLEAN :
    /\ Codes(spec) \subseteq DOMAIN parameters
    /\ Begins(a, [Resting EXCEPT !.op = "create rule", !.stage = "write", !.row = rule,
                                !.spec = spec, !.active = on, !.plan = InOrder(spec)])
(* The code is unique: who inserts it first is waited for, and wins.           *)
InsertRule(a) == LET r == request[a] IN
    /\ At(a, "create rule", "write") /\ Canonical(r.spec)
    /\ r.row \notin DOMAIN rules /\ ~Inserting(r.row)
    /\ Becomes(a, [r EXCEPT !.stage = "end", !.writes =
           Put(@, r.row, [spec |-> r.spec, active |-> r.active, version |-> 1])])
    /\ UNCHANGED locked

AskRule(a) == \E rule \in DOMAIN rules, spec \in Specs \cup {Keep}, on \in BOOLEAN \cup {Keep},
                 seen \in 1 .. MaxVersion :
    /\ seen <= rules[rule].version
    /\ Begins(a, [Resting EXCEPT !.op = "patch rule", !.stage = "read", !.row = rule,
                                !.spec = spec, !.active = on, !.version = seen, !.plan = <<rule>>])
(* Under the lock of its row the version is compared.  A rule that is to be    *)
(* active, or gets a specification, has its parameters locked and checked.     *)
ReadRule(a) == LET r == request[a]
                   stored == rules[r.row]
                   spec == Given(r.spec, stored.spec)
                   on == Given(r.active, stored.active)
                   checks == r.spec # Keep \/ on IN
    /\ At(a, "patch rule", "read") /\ stored.version = r.version /\ r.version < MaxVersion
    /\ checks => Codes(spec) \subseteq DOMAIN parameters
    /\ Becomes(a, [r EXCEPT !.stage = IF checks THEN "check" ELSE "write", !.spec = spec,
                            !.active = on, !.plan = IF checks THEN InOrder(spec) ELSE <<>>])
    /\ UNCHANGED locked
(* Content that is what it was is not written.                                 *)
PatchRule(a) == LET r == request[a]
                    next == [spec |-> r.spec, active |-> r.active, version |-> r.version + 1] IN
    /\ At(a, "patch rule", "write") \/ (At(a, "patch rule", "check") /\ Canonical(r.spec))
    /\ Becomes(a, [r EXCEPT !.stage = "end", !.writes =
           IF [next EXCEPT !.version = r.version] = rules[r.row] THEN @ ELSE Put(@, r.row, next)])
    /\ UNCHANGED locked

-----------------------------------------------------------------------------
(* Parameters.                                                                 *)

Referenced(p) == \E rule \in DOMAIN rules : rules[rule].active /\ p \in Codes(rules[rule].spec)
Changed(p, on, change) == [active |-> Given(on, parameters[p].active),
                           min |-> Given(change.min, parameters[p].min),
                           max |-> Given(change.max, parameters[p].max)]

CreateParameter(a) == \E p \in Code \ DOMAIN parameters, b \in Bounds :
    /\ Fits(p, b) /\ Ordered(b) /\ ~Inserting(p)
    /\ Begins(a, [Resting EXCEPT !.op = "create", !.writes =
           Put(@, p, [active |-> TRUE, min |-> b.min, max |-> b.max])])

(* Other types get no bounds here: normalisation refuses them before anything  *)
(* is written.                                                                 *)
AskParameter(a) == \E p \in DOMAIN parameters, on \in BOOLEAN \cup {Keep}, change \in Changes :
    /\ TypeOf[p] # "number" => change = [min |-> Keep, max |-> Keep]
    /\ Begins(a, [Resting EXCEPT !.op = "parameter", !.stage = "write", !.row = p,
                                !.active = on, !.bounds = change, !.plan = <<p>>])
(* update_parameter and, with nothing but active FALSE, deactivate_parameter:  *)
(* under the lock, an active rule that refers to the parameter is looked for.  *)
UpdateParameter(a) == LET r == request[a]
                          next == Changed(r.row, r.active, r.bounds) IN
    /\ At(a, "parameter", "write")
    /\ parameters[r.row].active /\ ~next.active => ~Referenced(r.row)
    /\ Fits(r.row, next) /\ Ordered(next)
    /\ Becomes(a, [r EXCEPT !.stage = "end", !.writes = Put(@, r.row, next)])
    /\ UNCHANGED locked

(* import_apply: which rows create and which update is planned first.          *)
AskImport(a) == \E p, q \in Code, b, c \in Bounds :
    /\ p # q /\ Fits(p, b) /\ Fits(q, c) /\ Ordered(b) /\ Ordered(c)
    /\ Begins(a, [Resting EXCEPT !.op = "import", !.stage = "read", !.file =
           <<[code |-> p, next |-> b, new |-> p \notin DOMAIN parameters],
             [code |-> q, next |-> c, new |-> q \notin DOMAIN parameters]>>])
ImportNew(a) == LET r == request[a]
                    row == Head(r.file) IN
    /\ At(a, "import", "read") /\ r.file # <<>> /\ row.new
    /\ row.code \notin DOMAIN parameters /\ ~Inserting(row.code)
    /\ Becomes(a, [r EXCEPT !.file = Tail(@), !.stage = IF Len(r.file) = 1 THEN "end" ELSE @,
           !.writes = Put(@, row.code, [active |-> TRUE, min |-> row.next.min, max |-> row.next.max])])
    /\ UNCHANGED locked
(* A row is read without a lock, and its columns that differ are updated       *)
(* before the next query of the session.                                       *)
ImportRead(a) == LET r == request[a]
                     row == Head(r.file)
                     Differs(old, new) == IF old = new THEN Keep ELSE new IN
    /\ At(a, "import", "read") /\ r.file # <<>> /\ ~row.new
    /\ Becomes(a, [r EXCEPT !.stage = "write", !.plan = <<row.code>>, !.bounds =
           [min |-> Differs(parameters[row.code].min, row.next.min),
            max |-> Differs(parameters[row.code].max, row.next.max)]])
    /\ UNCHANGED locked
ImportUpdate(a) == LET r == request[a]
                       p == Head(r.file).code IN
    /\ At(a, "import", "write")
    /\ Becomes(a, [r EXCEPT !.file = Tail(@), !.stage = IF Len(r.file) = 1 THEN "end" ELSE "read",
                            !.writes = Put(@, p, Changed(p, Keep, r.bounds))])
    /\ UNCHANGED locked

-----------------------------------------------------------------------------
Released(a) ==
    locked' = [row \in DOMAIN locked |-> IF locked[row] = a THEN Nothing ELSE locked[row]]
Merged(f, writes) == [x \in DOMAIN f \cup DOMAIN writes |->
                        IF x \in DOMAIN writes THEN writes[x] ELSE f[x]]
Part(writes, S) == [x \in DOMAIN writes \cap S |-> writes[x]]

CommitRequest(a) == LET writes == request[a].writes IN
    /\ request[a].op # "idle" /\ request[a].stage = "end"
    /\ parameters' = Merged(parameters, Part(writes, Code))
    /\ rules' = Merged(rules, Part(writes, Rule))
    /\ request' = [request EXCEPT ![a] = Resting] /\ Released(a) /\ UNCHANGED steps
(* A refusal, a duplicate code, a deadlock the database found, a crash.        *)
RollbackRequest(a) == /\ request[a].op # "idle" /\ Released(a) /\ Becomes(a, Resting)

RegistryNext == \E a \in Admin :
    \/ AskNewRule(a) \/ InsertRule(a) \/ AskRule(a) \/ ReadRule(a) \/ PatchRule(a)
    \/ CreateParameter(a) \/ AskParameter(a) \/ UpdateParameter(a)
    \/ AskImport(a) \/ ImportNew(a) \/ ImportRead(a) \/ ImportUpdate(a)
    \/ Lock(a) \/ CommitRequest(a) \/ RollbackRequest(a)
RegistrySpec == RegistryInit /\ [][RegistryNext]_registryVars

-----------------------------------------------------------------------------
(* An active rule refers to active parameters of fitting types, however rules  *)
(* are activated while parameters are deactivated (rule_service.py,            *)
(* _canonical_spec; parameters/service.py, _ensure_parameter_can_deactivate),  *)
(* and a rule changes under its next version only, so no change is overwritten *)
(* by who has not seen it (patch_rule, expected_version).                      *)
RegistryIsConsistent ==
    /\ [](\A rule \in DOMAIN rules : rules[rule].active => Canonical(rules[rule].spec))
    /\ [][\A rule \in DOMAIN rules :
            rules'[rule] # rules[rule] => rules'[rule].version = rules[rule].version + 1]_registryVars

(* Refuted: an import reads a row that another administrator then changes, and *)
(* updates only the columns in which its file differs from what it read.       *)
BoundsAreOrdered == \A p \in DOMAIN parameters : Ordered(parameters[p])
===============================================================================
