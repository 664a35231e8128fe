--------------------------- MODULE ProjectLifecycle ---------------------------
(***************************************************************************)
(* The status of a project and the moves between statuses, as data.        *)
(* Pure tables shared by the modules that change a project's status.       *)
(***************************************************************************)

ProjectStatus == {"draft", "review", "approved", "rejected", "archived"}

\* _TRANSITION_RULES: <<status, action, next status>>.
TransitionRules == {
  <<"draft",    "request_review",  "review">>,
  <<"review",   "approve",         "approved">>,
  <<"review",   "reject",          "rejected">>,
  <<"rejected", "return_to_draft", "draft">> }

\* create_revision is the one other writer of the column: it archives the
\* approved source of the new draft.
RevisionRules == { <<"approved", "create_revision", "archived">> }

LifecycleRules == TransitionRules \union RevisionRules

ReviewAction == {"request_review", "approve", "reject", "return_to_draft"}
StatusAction == ReviewAction \union {"create_revision"}

\* apply_review_transition, as a relation: no next status is the refusal
\* workflow_transition_invalid.
MayMove(from, action, to) == <<from, action, to>> \in LifecycleRules

\* The status writers that also delete the project's edit lock.
ClearsLock == {"request_review", "create_revision"}
=============================================================================
