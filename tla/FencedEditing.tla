---------------------------- MODULE FencedEditing ----------------------------
(***************************************************************************)
(* What the edit lock of a project promises, without requests, users,      *)
(* expiry or a database: ownership passes from token to token, every edit  *)
(* that takes effect is made by the owner of that moment, and none takes   *)
(* effect while the project is closed to editing.                          *)
(***************************************************************************)
CONSTANTS Token, None

VARIABLES
  open,    \* edits are allowed
  owner,   \* the token that may edit, or None
  wrote    \* the token of the last edit that took effect, or None

vars == <<open, owner, wrote>>

TypeOK ==
  /\ open \in BOOLEAN
  /\ owner \in Token \union {None}
  /\ wrote \in Token \union {None}

Init == open = TRUE /\ owner = None /\ wrote = None

\* A new owner is never mistaken for the old one or for the last writer.
Grant ==
  /\ open
  /\ \E t \in Token \ {owner, wrote} : owner' = t
  /\ UNCHANGED <<open, wrote>>

Give == owner' = None /\ UNCHANGED <<open, wrote>>

Write ==
  /\ open /\ owner # None
  /\ wrote' = owner
  /\ UNCHANGED <<open, owner>>

\* Closing may leave an owner behind; it cannot write until editing reopens.
Close ==
  /\ open
  /\ open' = FALSE
  /\ owner' \in {owner, None}
  /\ UNCHANGED wrote

Reopen == ~open /\ open' = TRUE /\ UNCHANGED <<owner, wrote>>

Next == Grant \/ Give \/ Write \/ Close \/ Reopen

Spec == Init /\ [][Next]_vars
=============================================================================
