------------------------------ MODULE MCRegistry ------------------------------
(* The review of a project and the registry that its definitions come from,   *)
(* for TLC: one of the two takes steps in a behaviour.                        *)
EXTENDS MCReviewWorkflow, Registry
CONSTANTS rule1

VARIABLE part

(* Two administrators, a number and a text, and a rule; one request for each  *)
(* of two, or two of one. Neither property depends on the bounds of a number. *)
NumberAndText == <<"number", "text">>

BothInit == /\ part \in {"review", "registry"}
            /\ Init /\ \/ part = "review"
                       \/ content = (CHOOSE c \in Content : TRUE) /\ defs = d1
            /\ RegistryInit /\ (part = "registry" \/ parameters = <<>>)
(* The registry rests when its requests are used up.                          *)
BothNext == \/ part = "review" /\ Next /\ UNCHANGED <<part, registryVars>>
            \/ part = "registry" /\ RegistryNext /\ UNCHANGED <<part, vars>>
            \/ part = "registry" /\ steps = MaxSteps /\ UNCHANGED <<part, vars, registryVars>>
BothSpec == BothInit /\ [][BothNext]_<<part, vars, registryVars>>
=============================================================================
