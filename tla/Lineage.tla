------------------------------- MODULE Lineage -------------------------------
(***************************************************************************)
(* What project creation and revision promise, without ids, requests or a  *)
(* database: the projects of one product identity are the versions of one  *)
(* line, and only its last version is alive.                               *)
(***************************************************************************)
EXTENDS Naturals, Sequences, ProjectLifecycle

CONSTANT Identity

VARIABLE line  \* the statuses of the versions of each identity

Init == line = [i \in Identity |-> <<>>]

Create(i) ==
  /\ line[i] = <<>>
  /\ line' = [line EXCEPT ![i] = <<"draft">>]

Transition(i) ==
  /\ line[i] # <<>>
  /\ LET last == Len(line[i])
         status == line[i][last]
     IN  \E a \in ReviewAction, to \in ProjectStatus :
           MayMove(status, a, to) /\ line' = [line EXCEPT ![i][last] = to]

Revise(i) ==
  /\ line[i] # <<>>
  /\ line[i][Len(line[i])] = "approved"
  /\ line' = [line EXCEPT ![i] =
                Append([line[i] EXCEPT ![Len(line[i])] = "archived"], "draft")]

Next == \E i \in Identity : Create(i) \/ Transition(i) \/ Revise(i)

Spec == Init /\ [][Next]_line
=============================================================================
