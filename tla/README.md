# Process Condition Manager: a TLA+ model

PCM keeps, for every *project* (one product on one process line), a sheet of
process conditions: layers, the conditions of each layer, and a cell per
condition and parameter. A FastAPI/SQLAlchemy backend on PostgreSQL
(`src/backend/app`) serves a React client (`src/frontend/src`). Projects are
copied from one another, edited under an edit lock, reviewed, approved, and
revised. This directory models the parts in which requests, transactions, time,
cached answers and status changes interleave, checks them with TLC, and proves
the core with TLAPS.

    tlc -workers 2 -config EditLock.cfg MCEditLock      # one of the runs below
    tlapm EditLockProofs.tla                            # one of the proofs

## 1. Inventory

Paths are relative to `src/backend/app` unless they start with `frontend/`
(`src/frontend/src/features`) or `grid/` (`src/frontend/src/grid`).

| component | state | operations | hard behaviour | correct when |
|---|---|---|---|---|
| edit lock (`core/locks.py`, `features/locks`) | `edit_lock` row: user, token, expiry | acquire, heartbeat, release, beacon; `require_edit_lock` in front of every editing route | requests of several tabs lost, delayed, repeated; check before commit; expiry | an edit commits only under the lock it was checked against; handover only by expiry, release or status change |
| review workflow (`features/approval`, `domain/workflow`) | `project.status`, review hash, rule versions, frozen definitions, change events | request review, approve, reject, return to draft, revise | decides on a REPEATABLE READ snapshot older than its row lock; retried on 40001 | decisions are current, content is frozen outside draft, evidence matches status, events chain |
| projects (`features/projects`, `models/project.py`) | project rows, lineage, unique index of live projects | create, revise, replace a layer, patch the profile | races for one identity, row locks taken in several orders | one line of versions per identity with one live end; no deadlock |
| comments (`features/approval`, `frontend/projects/ProjectDetailPage.tsx`, `frontend/sheets/SheetView.tsx`) | comment rows and their events; cached pages | add, resolve, delete, page | two users on one comment, pages read at different times | a deleted comment does not change; no gap in a list |
| conditions and POR (`features/conditions`) | condition rows of a layer | add, clone, delete, set POR | partial unique index, labels after deletions | at most one POR, which is never deleted; unique labels and indices |
| cells (`features/cells`) | cell values | patch a batch | whole batch refused; duplicates; inactive choices | events replay to the cells |
| choice sets (`features/choice_sets`, `domain/choices`, `frontend/choiceSets`) | versioned sets of options; cached summaries and pages | edit, activate, import, list by page, choose | stale version, page across a change, withdrawn option | what is cached as a version is that version; a withdrawn option is not chosen |
| parameter registry and rules (`features/parameters`, `features/validation`, `frontend/parameters`) | parameters, categories, rules | create, change, activate, import | a rule is activated while its parameter is deactivated; others change the registry while a form is open | active rules refer to active parameters; the form starts from current data and loses nothing |
| validation (`domain/validation`, `src/frontend/src/shared/domain`) | none | evaluate, hash, scan a pattern | two documents of different times, order of layers | the issues are what the rules say |
| backbone copy, matching, diff (`domain/backbone`) | layer snapshots | match, copy, diff | none (pure) | matching is injective where it must be |
| history (`features/history`) | none, reads events | pages by cursor | log grows between pages | no event twice or missing |
| sheet editing session (`frontend/sheets/useSheetEditing.ts`) | token, lock status, generations, queue | acquire, heartbeat, suspend, leave, beacon | answers of an older session or token | never edits without the lock it believes it has; forgets none |
| autosave and edit buffer (`frontend/sheets/autosave.ts`, `editStore.ts`) | timer, attempts, dirty cells with revisions | schedule, flush, retry, cancel | edits during a save, timers racing | no edit lost or wrongly marked saved |
| profile drawer (`frontend/projects/profileLockState.ts`) | phase, generation, token, pending PATCH | open, load, save, close, reacquire, dispose | an answer of a closed drawer, a PATCH that outlives it | releases what it acquired, once its write is through |
| product workspace (`frontend/projects/ProductWorkspace.tsx`) | which panel may mutate | hand the lock from the sheet to the drawer or the dialog and back | three holders of one lock in one tab | never two at once |
| sheet page (`frontend/sheets/SheetView.tsx`) | layer, focus, jump, paste under review, structural operation | stage, apply, jump, add, delete | handlers of an older rendering | a paste writes what was reviewed and still holds |
| grid (`grid/`) | selection, editor, clipboard, drafts | edit, paste, jump, menu | coordinates kept while rows move | a coordinate keeps its meaning |
| validation workbench (`frontend/sheets/useSheetValidation.ts`) | timer, active request, result | validate automatically or on demand | superseded answers, changed definitions | an old answer is never shown as current |
| history and diff workbenches (`frontend/sheets/use*Workbench*`) | lists, details, tokens | page, expand, filter | superseded answers, own changes | what is on screen belongs together |
| creation wizard (`frontend/projects/ProjectCreateWizard.tsx`) | route, matches, form | select, override, submit | back and forward during reads and the submission | what is sent belongs together and stays on display |
| release (`scripts/qa/build_phase26_dist.mjs`, `serve_phase26_dist.mjs`) | build, manifest, server | build from a clean commit, check, serve | the repository changes during a build or under a server, builds die | a file is sent under the commit it was made from |
| authentication, maintenance gate, configuration, ingest reader, migrations, other scripts | – | – | stateless or I/O | not modelled |

Interactions. Every editing route passes `require_edit_lock`, which takes the
project row `FOR UPDATE` and reads the lock row; the transaction keeps the row
until its commit, so the project row is the mutex of everything that happens to
one project. Status changes take the same row, but under REPEATABLE READ, and
delete the lock row. Creation and replacement read another project under
`FOR SHARE NOWAIT`. Profile patches, cell patches and creations lock choice sets
after project rows.

In the browser, the workspace decides which of three parts may hold the lock:
the sheet's session, the profile drawer, the layer replacement. The session
carries its token in every write; the autosave engine decides when writes are
sent; the sheet page stages what the grid reports. The query cache is shared:
writes complete or invalidate cached documents, and the workbenches fetch pages
through it under tokens of their own.

Every hazard found in this code is listed, with the line where it bites and the
properties that cover it, in `PROJECT.json` under `hazards`.

## 2. Modules

| module | models | composed from |
|---|---|---|
| `ProjectLifecycle` | the table of status moves (pure) | |
| `FencedEditing` | abstract: what an edit lock promises | |
| `EditLock` | the lock row, its requests, the tabs that keep tokens, the status changes that clear it | `ProjectLifecycle`; implements `FencedEditing` |
| `ReviewWorkflow` | status changes on snapshots against edits and definition changes | `ProjectLifecycle` |
| `Lineage` | abstract: the versions of each product identity | `ProjectLifecycle` |
| `ProjectRows` | transactions that create, revise, copy from and patch projects, row by row | `ProjectLifecycle`; implements `Lineage` |
| `Sheet` | the condition rows and cells of a project, their operations flush by flush, their events, and the options administrators offer | |
| `Autosave` | the client's edit buffer, autosave engine, paste and structural jobs, validation barrier and lock state, with the server they save to | |
| `SheetSession` | the lock as the sheet of a tab uses it: mount, heartbeat, loss, suspension, leaving, beacon | |
| `ProfileDrawer` | the profile editor's controller with its generations and tokens | |
| `Workspace` | the page of a project: sheet, drawer, layer replacement and transitions, over one lock that expires | `SheetSession`, `ProfileDrawer` |
| `SheetPage` | interactions policy, layer and focus, jumps, the review of a paste, the row manager | |
| `GridAdapter` | numbers of the grid library against cells of the application | |
| `SheetValidation` | local and server issues, automatic and explicit validation | |
| `RuleEvaluation` | the evaluator of the browser, layer by layer, against what the rules say | |
| `PortablePattern` | the scanner of patterns, against what a portable pattern is | |
| `HistoryWorkbench` | timeline, cell history, details of a batch | |
| `DiffWorkbench` | root, branch and cell pages of the comparison, their cache and ledger of tokens | |
| `Comments` | the comment service, and a tab with both lists | |
| `ChoiceAdmin` | the service of a choice set, and the page that administers it | |
| `ChoiceClient` | summaries and options in the cache, the two resources, the chooser | |
| `ParameterPage` | the registry page of parameters | |
| `CreateWizard` | the creation of a project | |
| `Registry` | rules and parameters on the server: row locks, versions, references, imports | |
| `Release` | the production build, the developers around it, the server of its files | |
| `AutosaveProofs`, `ProjectRowsProofs` | theorems | the module they are named after |
| `EditLockProofs`, `SheetProofs`, `ReviewRegistryProofs`, `PanelProofs`, `OpeningProofs`, `WorkspaceProofs` | theorems | `EditLock` and `SheetValidation`; `Sheet` and `ChoiceAdmin`; `ReviewWorkflow` and `Registry`; `Comments`, `HistoryWorkbench` and `GridAdapter`; `Release`, `ChoiceClient`, `CreateWizard` and `DiffWorkbench`; `Workspace`, `SheetPage` and `ParameterPage` |
| `MCEditLock`, `MCReviewWorkflow`, `MCAutosave` | one module each for TLC | |
| `MCRegistry` | `Registry` beside the review, for TLC | extends `MCReviewWorkflow` and `Registry` |
| `MCStored`, `MCPages`, `MCOpening` | several modules each for TLC | extend `Sheet` and `ProjectRows`; `Workspace`, `SheetPage`, `GridAdapter`, `HistoryWorkbench`, `Comments`, `ChoiceAdmin`, `ParameterPage` and `CreateWizard`; `Release`, `ChoiceClient`, `CreateWizard` and `DiffWorkbench`; `MCStored` instantiates the rest |
| `MCLive` | several modules for TLC | instances |
| `MCValidation` | the validation of the page, the evaluator and the scanner for TLC | extends `SheetValidation`, instantiates the others |

Some operators have a wrong variant beside them that no specification uses
(`ClearedKept` before `Cleared`). `PROJECT.json` lists each under `mutants`;
substituted for the right one, it must break the property named there, which
shows that the property is about the code.

### EditLock

A request has a stage: `queued` on its way, `waiting` for the row with a snapshot
in hand (status changes only), `open` from its checks to its commit, `granted` or
`refused` when an answer travels back. `mutex` is the `FOR UPDATE` lock of the
project row. The `Open*` actions are the checks of `LockService` and of
`require_edit_lock`; `Commit*` store the effect. What an open request will store
was computed at its check (`lock`), because `utcnow()` is read there, and ages
with the clock until the commit. `Lose` loses a request or an answer; a
copy is just another `Send`. A tab keeps the token of the last grant
(`Deliver`) and forgets it on a conflict or when it is closed.

PostgreSQL's isolation levels are modelled by what they do here: a READ COMMITTED
transaction that got the row reads what is committed; a REPEATABLE READ one reads
its snapshot (`sees`, whether a lock row is in it) and fails with 40001 when a row
it locks or deletes has changed since (`stale`).

Time appears only as the difference `expires_at - now`, so a lock row stores the
ticks it has left. `left = 0` is "expired", as `is_expired` uses `<=`.

### ReviewWorkflow

One project with its sheet reduced to one cell and to whether its layer has a
POR condition: validation distinguishes no more than valid and invalid content
per definition (`Allowed`). `defs` stands for everything that
`validation_basis_hash` covers. A status change records what it `saw` at its first
statement, waits, fails if `stale`, and decides on what it saw. `attempt` counts the
tries of `_run_consistent_operation`. `log` is the chain of STATUS_CHANGE and
REVISION_CREATE events. Lock ownership is not repeated here: an editing request is
one whose `require_edit_lock` passes.

### ProjectRows

The table of projects and transactions that lock rows one after the other
(`plan` is what is left to lock). `holder` and `sharer` are the row locks; the
largest row stands for the choice sets. A revision works on the snapshot of
its first read. `writes` are rows written but not committed: nobody sees them,
but the partial unique index of live projects makes others wait for their outcome
(`WaitsFor`). Status changes that touch a single row are one step here, as
`ReviewWorkflow` has their detail. The retry of a revision is not counted here,
because nothing here depends on the count. The next id is larger than every id in
use, which keeps the order of ids (all that locking and `LineOf` use) and
lets ids of rolled back transactions be used again.

### Autosave

One session of a sheet, from its lock's acquisition on. `dirty` is the edit buffer
(`editStore.ts`), `timer`, `attempts`, `state` and `save` are the engine's variables
(`autosave.ts`), `job` the immediate write in the operation queue, `barrier` the
wait of an explicit validation, `lock` and `token` the session's refs.

* A value is the revision of its edit. Two edits never share a revision, so a
  value that comes back is still told from its first time. A paste allocates one
  revision per cell in the code and one per batch here: only equality of
  a cell's own revisions is ever tested.
* JavaScript runs an event and the promise reactions it causes to the end before
  the next event. `Quiet` says that no reaction is left: events (a click,
  a timer, a heartbeat's or an acquisition's answer) require it, reactions
  (`FlushRuns`, `PastePrepares`, `PasteEnds`, `StructureSends`, `BarrierChecks`, `BarrierFlushed`)
  do not. When one settled save wakes several waiters, their order is left open.
* A save has three stages: `sent`, `applied` or `refused` by the server. It may fail
  for the client in any of them (`SaveFails`): a failed request that was not
  handled yet may be handled later (`LateRequest`). The reaction that moves the
  response into the query cache before `markSaved` is part of the answer
  (`SaveSucceeds`).
* The queue holds at most one job, since the interface refuses a second one while one
  is pending (`resolveSheetInteraction`, `canApplyPaste`, `canManageConditions`). The branch
  of `applyPaste` that replaces an older retained paste is left out: a panel closes only
  by success or by `abandonPaste`, so a new panel never meets an older paste.
* The server is one cell store and the token it accepts; that it checks token
  and stores the batch in one transaction is what `EditLock` shows.

### Sheet

The rows of one project by id, and the one operation that is open on it: every editing
route holds the project row from its checks to its commit (`EditLock`). `txn.rows` is
what has been flushed so far, and `Constraints` are the two unique indexes that
PostgreSQL checks at each flush. `set_por` and `replace_layer_backbone` flush twice, so
they have two actions (`Begin*`, `Finish*`); the others are one. `Commit` publishes the rows
and the events; `Rollback` is any refusal, error or lost connection after the first flush. A
refusal before it changes nothing and is a guard.

* The events are not kept, only what they tell: `told` is the sheet that a reader rebuilds
  from the payloads of all committed events (`Retold`), and whether each event's
  account of the state before it agreed with the earlier ones. A change of a batch that
  changes nothing records none, which `NoEvent` stands for.
* The rows a replacement adds get their ids in the order of the captured indices;
  `Ordered` is the set of the maps of the new ids to the captured rows that keep it.
* A cell with a NULL value and a cell without a row are both `None`. Values are taken as
  trimmed and canonical; a number that is none is a refused batch. The batch is
  simulated in order as in `_normalize_candidates`, by the last earlier change of the cell.
* What a patch reads before it locks the choice set is guarded by the project row or
  immutable (a parameter's value type and set), so reading, locking and applying are one action;
  the lock lasts to the commit, and `ChangeOffer` needs it. Whether a
  parameter is active is fixed: codes outside `Choice` stand for those the registry does not
  list as active choices, which are not validated.
* A replacement copies from another layer of the project. A source in another project is
  locked `FOR SHARE` meanwhile (`ProjectRows`) and differs in nothing else.

### SheetSession, ProfileDrawer, Workspace

A request carries the generation of the session that sent it and gets its answer
from the one lock of the server (`holder`), which may expire between any two
steps. `SheetSession` and `ProfileDrawer` have the variables of their hook or
controller; the server is given to them, and `Workspace` gives them the same one.
A tab's unsaved work is none, some, or a write under way: what the writes carry
is `Autosave`'s. `Suspend` waits for the acquisition and heartbeat under way and
for the writes, as `suspend()` does, and `Leave` puts the release behind the
writes. In the drawer every continuation first asks `Owns`: are generation and
token still the controller's? A PATCH that outlives the drawer is a `chain`,
and the release of its token waits for it (`parting`).
`LateAnswers = FALSE` leaves out the case in which a new lock is granted before an answer
about the one before is read; see the refuted statements below.

### SheetPage and GridAdapter

A handler belongs to the rendering that created it. `committed` is what the last
commit rendered, and actions of a handler read it; refs are read as they are now.
`CommitRendering` is a rendering with all its effects. Cells are identities, and a paste
is the set of cells it writes with the context it was staged in.

The adapter sees the library's events with coordinates (`at`), never with cells.
Rows, category and the right to edit may change between two events. `selection`
remembers the layout it was made in, as the code does. Whether the library's own
editor outlives a change of the layout is left open (`Relayout`), because the library is not in
the repository. An input goes to the cell that is displayed at the editor's
coordinate when it closes (`handleCellEdited`), which after such a change need not be the
cell it was opened on; `meant` and `layout` of `editor` remember that one. The
context menu is given its cell when it opens, so nothing can happen to it.

### SheetValidation, RuleEvaluation, PortablePattern

Rows are the set of the writes they show; `Bad` writes leave an error. `ctl` is
the controller of `createSheetValidationController`, `pub` the context published
in a layout effect, so a handler may run between a change and its publication.
An answer under another basis has the sheet read again and fails unless the new
definitions supersede it.

`RuleEvaluation` turns each loop over a sorted list into steps that take the
least of what is left, with the running set that `evaluatePriorPor` carries from
layer to layer; `Declared` says what the rules mean without any order.
`PortablePattern` does the same for the one-pass scanner. Texts are not put
together character by character: a numeral is a record of digits, an atom of a
pattern is the set of characters it accepts.

### HistoryWorkbench and DiffWorkbench

Both page lists through the query cache. In the history a cursor carries the
snapshot of its first page (`snap`); a detail page is published only under the
token of the request that asked for it. In the comparison the ledger of tokens
decides whether a cached page may be shown, and `floor` is the latest change the
tab has seen: its own, or one that a refused page revealed.

### Comments

The service takes the project row and then loads the comment, one request after
the other (`TakeRow`, `Load`); events record each change. The tab has two lists
read in pages, newest first. A page is read by the service (`ReadPage`) before the tab
has it, and the tab then asks for the page before it or ends the list (`PageTaken`,
`ListTaken`). Invalidation starts a list again from its newest page, as often as it had pages, unless it is
read for the first time (`Restarted`); a next page asked for meanwhile drops that
reading, and its arrival clears the mark that the list is stale. A write of the panel answers into
the panel as it is then; one that another of its kind has followed keeps the cell of that
time (`SendInPlace`), as a mutation's observer does. `LeavesCells` says whether another cell may be
selected while a post is on its way. Readings that a regained window focus starts, and lists that the
cache drops after five minutes without use, are not modelled.

### ChoiceAdmin, ChoiceClient, ParameterPage, CreateWizard

A version of a choice set is a place in a log; a request carries what the
service answered when it handled it. `ChoiceAdmin` reads options page by page
and starts again when the version moved on; its dialogs may be open while the
page is read again. `ChoiceClient` has the confirmations that each opening and
each new summary starts; the sheet's resource never goes back to an older
version. The answer of a request is in the cache before React draws it;
`LateRenders` says whether the user may open a chooser in between. The run says no: the gap
is shorter than a click, and with it `ChoiceIsCurrent` fails for a sheet (section 3). `ParameterPage` keeps list and filters in the address; one parameter
stands for the registry. `CreateWizard` is entered by any address and goes back and forth
over visited routes, also while its one submission is under way. What was read stays usable
while it is read again (`again`); the server knows a project by its process (with the line) and Part ID,
and `projects` is what it has created for this tab, also when the answer is lost.

### Registry

A request of an administrator is a transaction under READ COMMITTED. `plan` is what it has
still to lock, in the order of the query; `writes` is what it has flushed, and
`CommitRequest` publishes it. `_canonical_spec` is a lock of each parameter and then `Canonical`;
`Referenced` is the query that a deactivation makes under the lock of its own
row, and sees committed rules only. An import locks nothing before its updates: it reads
a row (`ImportRead`) and later writes the columns that differ from what it read
(`ImportUpdate`), as the session does. `RollbackRequest` is a refusal, a duplicate
code, or a deadlock that the database resolves. A definition of `ReviewWorkflow` is
what such a registry looks like at one time.

### Release

A commit is its content, a version for each of the code, the lock file and the
scripts. Each check of the build is a step of its own, and others edit, commit and
change installed packages between any two. `npm ci` and `npm run build` are
external; `Compile` writes file after file from what the sources then are. `Fail`
is a failed check or a build that is killed: files and manifest stay as they are,
and `Torn` is a manifest cut off in the middle, whose digest the server refuses.
One build runs at a time, and nobody else writes its files. With `Undo`, edits and
packages may also be put back.

## 3. Runs

| run | instance | distinct states | shows |
|---|---|---|---|
| `edit_lock` | 2 tabs of one user, 2 requests in flight, 5 tokens, TTL 2 | 493,019 | who holds the lock and why it changes hands; refinement of `FencedEditing` |
| `review_workflow` | review: 2 values, 2 definitions, 2 requests, 3 attempts, 6 moves; registry: 2 parameters, 1 rule, 2 administrators, 2 requests | 2,569,297 | decisions, approvals, audit chain, frozen content; active rules refer to active parameters, no change of a rule is overwritten |
| `stored` | sheet: 2 layers, 5 ids, 4 rows at once, 1 choice parameter with 1 option, batches of 2; projects: 2 identities, ids 1..3, 2 transactions | 732,090 | events rebuild the sheet, no unique index fires, rows and POR kept, only offered options chosen; lines of versions, no deadlock, refinement of `Lineage` |
| `autosave` | 2 cells, 3 revisions, 1 retry, 2 tokens, 1 late request, validations | 1,391,216 | no edit lost or shown as saved too early; validations see every edit |
| `autosave_live` | as above with 2 revisions and no late request | 99,868 | stored values only get newer; a failed paste waits for Apply or a validation; unsaved work and barriers come to an end |
| `live` | lock: 2 tabs of two users, 1 request, 4 tokens; review: 1 value, 1 definition, 2 requests, 3 attempts, 2 moves | 105,608 | an orphaned lock runs out; every status request is answered |
| `opening` | wizard: 1 process, 2 backbones, 5 addresses to enter by, 4 steps; chooser: 2 versions, 2 steps; comparison: 2 filters, 1 layer, 4 steps, 2 mounts; release: 2 files, 3 changes or builds | 187,170 | what a user opens settles and shows one state of the server; files are sent under the commit they were made from |
| `validation` | page: 2 writes, 3 steps; 1,296 documents and 14 that do not fit; sources of at most 3 branches and 4 atoms | 370,278 | issues belong to the rows on display, saves are validated; evaluator and scanner compute their definitions |
| `pages` | product 6 steps, sheet 3, grid 5, history 6, comments 1 stored and 3 steps, choice sets 4, parameters 5, wizard 1 process, 2 backbones, 2 addresses to enter by, 5 steps | 1,396,821 | what each page promises while answers are late and others write; what the wizard submits |
| `review_workflow_por` | 1 attempt, 2 moves | violation | a layer without POR can enter review |
| `autosave_late` | as `autosave`, no validation | violation | a late request overwrites a newer value |
| `kept_lock` | `Workspace`, 7 steps | violation | a drawer that kept its lock does not renew it |

Composite runs. `MCRegistry`, `MCStored`, `MCLive`, `MCPages`, `MCOpening` and `MCValidation`
each extend or instantiate several modules that do not interact. A behaviour chooses one of
them (`part`, `shows`, `opens`) and only that one takes steps, so the states are
the sum and not the product of the parts, and each part's bounds stand where it
is instantiated or in the cfg. A module with theorems is extended, so that the run and the theorem
are about the same definition; its variables rest while another part runs, and its
properties hold of them all the same. `CreateWizard` is in two runs, because its liveness is checked within smaller bounds
than its submission. The other properties say which part they are about.
Fairness is restated per part, because a fair action of a part that stands still
is never enabled. Modules that do interact are composed for real: `Workspace` has
the session and the drawer over one lock.

Bounds, and why they are enough.

* `EditLock`: two tabs are the holder and a rival; two requests in flight give
  every overlap of a check with another request's commit. Tokens in use at once
  are at most one per tab, request, lock row and last writer; five leave a fresh
  one in all but a few of the states in which four would not, and a sixth adds only
  72 states. TTL 2 distinguishes fresh, half-spent and expired. Both tabs belong to
  one user in the safety run, so that only tokens tell them apart.
* `ReviewWorkflow`: six moves are a rejection, a return, a second review, an
  approval and a revision. With two definitions an admin can change them and
  change them back between review and approval. Three attempts are the
  code's own number.
* `Registry`: two requests are an activation against a deactivation, two changes from one
  version, or an import against a change. The registry they start from has any set
  of the two parameters and perhaps a rule, active or not. Bounds of numbers are not
  given values there, since neither property depends on them.
* `ProjectRows`: three ids are a project and two revisions of it (so that source
  and root differ), or two lines one of which is revised. A deadlock
  of more than two transactions would need a cycle through rows in ascending
  order, which the argument below rules out for any number.
* `Sheet`: five ids give a layer three rows, a gap in its labels and a row that fills it, or
  a layer of two rows that replaces another. One option besides the empty cell lets a batch set,
  clear and set again; a second change of a cell is the first that sees a simulated value.
* `Autosave`: three revisions are a saved edit, one that arrives during the save and
  a paste; two cells let a save carry one and leave the other. The code
  retries three times; one retry already separates the first failure, the
  last one and the giving up, and the proofs hold for every number. Two tokens are a lock
  lost and got back, one late request overtakes one newer save.
* The pages count only what nobody has to do: actions of users, failures, expiry
  and other users' writes (`MaxSteps`). Answers, renderings and timers are free, so a bound
  of *n* is any *n* such events with every interleaving of their consequences.
  Six in `Workspace` are: edit, open the drawer, save, fail, close, expire.
  Five in `GridAdapter` are: select, copy, rows move, paste, end of review. Three in
  `SheetPage` are: stage a paste, a change of rows or options, apply; frozen and editable sheets are initial states. Six in `HistoryWorkbench` are:
  open, expand, page, an own change, filter, a failure. Three in `Comments`, with pages of one comment
  and one stored before the tab opens, are: two posts or writes of others and a next page, a retry or a failure.
  Five in `CreateWizard` are: override, go back, fill in the form, submit, and one failure, loss or deletion. The user need not walk to the review for that: the page
  may be entered by its address, coming from that of the other backbone, which is the state the longer way
  (process, step, backbone, step) leads to. Four in the run `opening` are a deletion, a failure, and what the user does about them.
  The refuted statements below were found within the same bounds or one step more.
* `Release`: two files differ when a source changes between them. Three changes are a
  build, another that starts over its files, and an edit at any point of either.
* `RuleEvaluation`: four layers, one empty and two of one order number; a number in
  two writings, negative numbers and zeros; rules of both types, with and
  without a scope, and fourteen documents that do not fit. `PortablePattern`: the limits of the
  scanner are lowered to 2 alternatives, 3 atoms, 2 repetitions and length 4,
  and the sources go one beyond each.

`CHECK_DEADLOCK FALSE` appears in the `Autosave*.cfg`, `Live.cfg`, `Opening.cfg`,
`Pages.cfg`, `Validation.cfg` and `KeptLock.cfg`: a user who has used up the bound
may leave a settled page alone, an evaluation ends, and past `MaxMoves` no request arrives.
The server runs check for deadlock.

Fairness. `EditLock`'s liveness assumes only that time passes (`WF(Tick)`): no tab,
user or network must do anything for an orphaned lock to run out.
`ReviewWorkflow` assumes `SF` of the steps that start and that end a request: the
server ends every transaction it began, and PostgreSQL queues the waiters of a row
instead of passing one over for ever. It does not assume that a status change ever
sees a quiet row; that it is answered all the same is what the retry limit is for.
`Autosave` assumes `WF` of its timer, of its promise reactions, and of the answers: a
browser runs them, and `fetch` settles every request, if only with an error.
`CreateWizard`, `ChoiceClient`, `DiffWorkbench`, `SheetPage` and `SheetValidation` assume `WF`
of their effects and renderings, of the answers, of timers and of the clock that
polls the summary of a sheet, for the same reasons. Nothing
is assumed of users, administrators, heartbeats, expiry or late requests.

### Where the code and its documents disagree

* `review_workflow_por`: `docs/phase-5-approval-revision-prd.md:56` says that review requires
  exactly one POR per layer. The gate counts them in the snapshot it took before it got
  the row. A layer replacement that commits between the two copies a layer without
  POR and leaves the project row alone; the project enters review without POR.
* `autosave_late`: `useSheetEditing.ts:436` says that an old autosave cannot undo a paste. It
  can when its connection failed, its request was handled only after the paste's, and the
  lock is still the same. Nothing on the server orders the batches of one token.
* `kept_lock`: `ProjectProfileDrawer.tsx:204` and `:216` tell the user that the lock is kept.
  `close()` and `save()` stop the heartbeat before they release; when the release fails
  they return to the form without starting it again, and the lock runs out.

TLC refutes these statements as well; they are written in their modules and belong to no run.

| statement | module | what happens |
|---|---|---|
| `NoLockOutsideDraft` | `EditLock` | `request_review` deletes the lock through a snapshot; an acquire that commits between snapshot and row lock leaves a lock behind (`approval/service.py:271`). It is harmless: `ClosedProjectLockOnlyAges` |
| `RetainedPasteNeedsApply` | `Autosave` | a validation that waits while a paste fails calls `flushNow`, which sends it again (`useSheetEditing.ts:86`, against the comment at `:126`) |
| `NoLockIsForgotten` with `LateAnswers` | `Workspace` | a refused heartbeat of the old token, read after the new one was granted, clears the new token (`useSheetEditing.ts:334`) |
| `MutationHasAnOwner` | `Workspace` | the frame is remounted when the project leaves draft, and the mutation that was under way is ended by nobody on the page (`SheetView.tsx:481-503`) |
| `PasteLandsOnDisplay` | `SheetPage` | a paste is staged over all rows although the grid shows those of one layer (`SheetView.tsx:1443`, `:998`) |
| `JumpTellsTheTruth` without its condition on the category of the column | `GridAdapter` | a jump takes a column without category for visible while the filter by category hides it, and says that it is missing (`workbenchCoordinateNavigation.ts:34`, `grid/model.ts:25`) |
| `NoRootFromBeforeTheFence` | `DiffWorkbench` | a panel opened again publishes a cached root from before the change (`useBackboneDiffWorkbenchController.ts:396`); on the first page, and on a page never opened again, it holds (`FencedRootsStayOut`, `OneMountFences`) |
| `OwnChangesAreListed` | `HistoryWorkbench` | a next page asked for while the list is read again after an own change cancels that reading, and its arrival clears the mark that the list is stale (`useHistoryWorkbenchController.ts:648-697`) |
| `NoStaleConfirmation` with other writers | `SheetValidation` | a confirmation stays authoritative after another user has written (`validationState.ts:114`) |
| `StructureIsShown` | `SheetValidation` | a PATCH answered while the read after a structural change is under way cancels that read (`persistenceReconciliation.ts:15`) |
| `OwnCommentsAreAlwaysListed` | `Comments` | as `OwnChangesAreListed`: a next page asked for while the list is read again after an own post drops that reading, and the list ends without the comment and without the mark that it is stale (`ProjectDetailPage.tsx:535-546`, `SheetView.tsx:402`); a list that is not extended shows it (`OwnCommentsAreListed`) |
| `EarlyCommentsAreListed` | `Comments` | a post answered while the list is read for the first time invalidates a read that has no data, which is not started again: the page read before the post is shown, without the comment and without the mark that it is stale (`ProjectDetailPage.tsx:160-166`) |
| `OwnCommentsAreListed` with `LeavesCells`, two cells and 4 steps | `Comments` | a comment posted while another cell is selected invalidates that cell's list instead (`SheetView.tsx:302-318`) |
| `ChoiceIsCurrent` with `LateRenders`, 3 versions and 3 steps | `ChoiceClient` | the chooser of a sheet opened after a newer summary has come and before it is drawn loses readiness while it prepares, gets it back without its own confirmation, and offers options older than the opening asked for (`searchableChoiceState.ts:149-166`); the plan says that it "cannot commit until the same generation confirms" (`docs/superpowers/plans/2026-07-14-phase-2-6-project-profile-managed-choice.md:2493`) |
| `NoUnseenOverwrite` | `ChoiceAdmin` | an editor opened from an order draft has the fields of the draft and the version of a newer snapshot, and overwrites what came between (`ChoiceSetDetailPage.tsx:362-375`) |
| `BoundsAreOrdered` with `Limit = {0, 1}` | `Registry` | an import reads a parameter without its lock, another administrator changes it, and the import updates only the column that differs from what it read: the minimum ends above the maximum, which no constraint of the table refuses and the evaluator later does (`parameters/service.py:287`, `models/parameter.py:59`) |
| `LabelsAreTrue` with `Undo` | `Release` | sources changed after the check that they are clean, and put back before the next check, are built and labelled as the commit (`build_phase26_dist.mjs:372`) |

Observations without a property: a choice that is unavailable when its editor closes
drops the edit silently (`grid/cellValue.ts:111-122`); an editor that the grid library keeps open while rows or columns
change ends in the cell then displayed at its number (`GlideConditionGrid.tsx:945-983`), where the selection of the application
is dropped for that reason (`:664`); the deactivation of a
parameter drops unsaved edits without asking (`ParameterEditorDrawer.tsx:264`);
text typed while a comment is being posted is cleared with it.

## 4. Proofs

The theorems of `EditLockProofs`, `ReviewRegistryProofs`, `AutosaveProofs`,
`SheetProofs`, `ProjectRowsProofs`, `PanelProofs`, `OpeningProofs` and `WorkspaceProofs` hold for every value of the constants
that satisfies the assumption of their modules: any number of tabs, users,
tokens, requests, values, definitions, attempts and moves, parameters, rules and administrators, cells,
revisions and retries, layers and rows, identities, transactions and projects, pages and filters, comments, grids, files and changes, versions and options of a choice set, restarts and openings, processes, backbones, filters and pages of lists, writes and validations, conditions and columns.
The theorems about `SheetPage` and `ParameterPage` need no assumption.
The assumption is an `ASSUME` of the module, or a hypothesis (`ConstantsFit`, `HistoryConstants`,
`CommentConstants`, `GridConstants`, `AdminConstants`, `ReleaseConstants`, `ClientConstants`, `WizardConstants`, `WorkbenchConstants`, `ValidationConstants`) of each theorem
about `ProjectRows`, `HistoryWorkbench`, `Comments`, `GridAdapter`, `ChoiceAdmin`, `Release`, `ChoiceClient`, `CreateWizard`, `DiffWorkbench` and `SheetValidation` that needs it;
`MCStored`, `MCPages`, `MCOpening` and `MCValidation` assume these of what they extend, so TLC
evaluates them. The type invariants of the proved modules, `ClosedProjectLockOnlyAges`, `EvidenceMatchesStatus` and
`StructureAfterEdits` are proved and are not listed in a run of their own.

*EditLock.* `CheckedEditHoldsLock` is not inductive: it says nothing of what an
open request will store. `IInv` adds that an open request holds the row
(`OpenHoldsRow`), that editing requests come from tabs (`EditsComeFromTabs`), that
only status changes wait (`OnlyStatusWaits`), and that an open acquire carries a token
different from the owner's and the last writer's and finds no live lock
(`PreparedRow`). From `IInv` follow `TypeCorrect`, `CheckedEditsHoldTheLock`,
`HandoversAreJustified`, `ClosedLocksOnlyAge` and, with every step mapped to a step
of `FencedEditing` or a stutter, `ImplementsFenced`.

*ReviewWorkflow.* The invariant has two halves. `RowInv`: the open request holds the
row, and a waiting status change that is not marked stale has a current snapshot
(`WaitingIsCurrent`), which becomes `DecisionsAreCurrent` when it gets the row.
`HistoryInv`: the evidence of a review is that of the content its gate evaluated
(`GateHeld`), and there is no approval before there is a snapshot
(`NoEarlierApproval`). From it follow `TypeCorrect`, `StatusChangesDecideOnCurrentState`,
`EventsChain`, `EvidenceFollowsStatus`, `ApprovalsAreValid` and `ContentIsFrozen`.

*Registry.* `RegistryIsConsistent` says nothing of open requests. `RegistryInv` adds what each has
established at its stage (`Prepared`): the rows of a rule it will activate are locked or
still in its plan (`Due`), and a rule it patches has, once locked, the version it was read with. What it has written
may be committed at any time (`Stands`): an active rule is canonical and all its parameters are held,
and a parameter that is switched off is held and referenced by no committed rule. No
two requests write one row (`WritersDiffer`). A commit then keeps the writes of the others good,
because whoever would invalidate them would hold a row that they hold (`RegistryConsistency`).

*Autosave.* `EditsAreKept` needs to know what a saved revision means. `BufferInv` adds
that what is unsaved is what is wanted (`UnsavedIsWanted`), that no revision in the buffer, a
paste or a request is newer than the last one allocated (`AllIsOld`), and that what an answered
save carries has landed if it is still wanted (`StoredHasLanded`). `Drained` adds that
nothing is unsaved while "saved" is shown (`Saved`) or a structural change is out, beside which
there is no save either (`Structural`). From them follow `TypeCorrect`, `NoEditIsLost`, `SavedMeansStored`,
`StructureFollowsEdits` and `ValidationsSeeEdits`. Late requests and lost answers are no
exception: these theorems hold with any number of them. `EditsAreStoredInOrder` is the one about order, and has `MaxLate = 0` as a
hypothesis: no request reaches the server after its client has given it up. A lost answer is still allowed, and
`autosave_late` shows that the hypothesis is needed. `OrderInv` says that what is unsaved is not older than what a save carries or the
server has, nor what a save carries than what the server has. `PasteInv` says that a retained paste is all that is unsaved,
while its panel is open, and on its way only for this panel or a validation.

*Sheet.* `RowsAreTold` says nothing of an open operation. `IInv` adds that the rows, the ids and the
indices handed out so far fit together (`Lawful`: types, unique indexes, labels of their own in each layer, no empty layer),
that the reader knows exactly the rows (`told = Known(sheet)`), and of the operation: its written rows are lawful, its events
retell them from the sheet, it takes a POR only from the layer it replaces, and it shows
new options only under the lock (`Acceptable`); half a move of the POR has cleared that of one layer only (`PorCleared`);
half a replacement has emptied one layer and captured another (`LayerCleared`). From it follow `SheetIsTold`,
`PorIsKept` and `ChosenOptionsAreOffered`. What the proof needs beyond this: `next_label` returns a label that is
not in use (`NewLabel`, by counting labels); a batch simulated change by
change and the same batch retold event by event agree after every change (`UpTo`: of a property that holds of 0
and goes from each number to its successor there is no least exception, which is
the induction that the provers here can do); and rows retold in the order of their capture keep it.

*ProjectRows.* `LineageIsAChain` says nothing of open transactions. `IInv` adds, of each: what it
has locked comes before all that it will lock (`Ordered`); the rows it decides on are, once
it has locked them, the ones it read, or are marked stale (`Held`, `Seen`); and what it is about
to commit is the first version of an identity without projects, or the next version of an approved
one without successor, and otherwise changes no row (`Written`). No two of them add the same row or rows of one
identity (`Apart`), which is what the unique index and its waits give. Of the rows it adds that ids grow
along a line and that every identity has a live version (`RowsFit`). A commit changes no row that
another transaction holds (`OtherFollows`), and appending a first version or a successor keeps
the chains (`FirstAdded`, `SuccessorAdded`). From it follow `TypeCorrect`, `LinesAreChains` and
`NoDeadlock`: who waits for an index entry waits for one that waits for nobody, and who
waits for a row waits for one whose next row is larger, so in a circle there would be no
largest row. `FormsLines` is the refinement of `Lineage`: the abstract line of an identity counts its rows, so the
proof carries an enumeration of them in the order of their ids (`Line`), of which a commit
appends one at the end, moves the status of the last, or changes nothing. `RowsFormTheirLines` puts them
together as the property `RowsFormLines` of the run `stored`.

*HistoryWorkbench.* What the tab has been told of its own changes is never ahead of the log; `IInv` adds that every
page that is read, cached or shown with details was read after the change it was
asked for. From it follows `DetailsAreCurrent`: details follow own changes, and what is shown as loading is under way or in the cache (`DetailsHold`).

*Comments.* `TrailIsTrue` needs that one request at a time holds a comment's
row and that what it loaded is still so, that comments which are shown or about to be written exist, and that every
event has its comment. The lists need two more facts (`LInv`): what is not in a list or a reading is
newer or older than all of it, and only newer once no more pages are left (`Connected`, `Complete`), also of a page
that is read and not yet taken (`Hangs`); and an
own comment posted after the first reading is shown or being read, or the list has failed or was extended, and a first page
on its way has it or tells of more (`Pursued`, `Offers`), because a post stays with the cell it was made for (`Placed`). From them follow
`TrailsAreTrue`, `ListsHaveNoGaps` and, with both, `CommentsAreToldWell`, which is the property `CommentsAreTold` of the run `pages`. Its part
`OwnCommentsAreListed` is about lists that no next page extends and posts answered after the first reading; without either
restriction TLC refutes it, see above.

*GridAdapter.* `CoordinateInv` says that the selection means, in the layout it was made in, the cell that was chosen,
and that a clipboard of the current generation was opened in the current layout: no step changes the layout and keeps the
generation. An editor is, in the layout it was opened in, on the cell chosen then (`EditorIsOnItsCell`), because it opens on the selection only.
`CoordinatesMeanWhatTheyMeant` follows for any rows, categories and number of steps. `LastInputIsKept` has two parts. That what was typed is shown and can be saved
(`TypedIsShownAndSavable`) rests on what one finished edit does to the cell it ends in (`Took`), whichever that is, so the theorem holds also for an editor that
the library keeps open over another layout. That a jump lands on its cell, is still under way or tells the truth (`JumpInv`) needs that a column with a category on display
has a number (`VisibleHasANumber`); a column without category is the divergence described in section 3. `LastInputIsNotLost` puts them together.

*ChoiceAdmin.* Neither property says anything of a reading under way. `AdminInv` adds that such a reading holds exactly the options that the set had at
the version it read, up to its cursor (`ReadFits`): a page is answered under that version only if it is still the present
one, and the first option beyond the cursor leaves only those beyond itself (`CursorMoves`), so none is skipped or read twice. When no more
is left, what was read is the version (`PageTaken`), and versions made later leave it alone (`VersionsStay`). Then `AggregatesMatchTheirVersions`
says that what is cached for a version is that version, also when the reading started again for another than it was asked for. Of the dialogs and mutations it
adds that a preview is the plan for the version it was made of (`PlanFits`). Since the service applies an import only to that version,
`ImportsAreAppliedAsPreviewed`.

*Release.* Without `Undo` versions only grow, so what is found equal at two times was equal in between; the theorem
`FilesAreLabelled` has `~Undo` as a hypothesis, and with `Undo` TLC refutes the property. `IInv` says, for each stage of a
build, between which contents of the repository the files on the disk were made: after the first capture not older than its commit,
when the worktree is found clean not newer than the commit checked out then, and at the second capture this commit is still the first
one, so they are it (`SourcesInv`). The packages are those of the label, or were changed and stay so until a check fails
(`ToolInv`). A manifest is true of its files when it is written (`ManifestInv`), and the server sends only what equals its manifest.

*ChoiceClient.* `ChoiceIsCurrent` says nothing of the options on offer. `ClientInv` adds that these are those of the version on
display, which is not older than the opening asked for (`OfferFits`), and why. A confirmation of the latest opening that has
its summary has one as new as that, and while a newer one is needed, a confirmation of this generation waits for it, so whatever
becomes of the request either brings the summary or an error (`Confirming`). A form trusts nothing until its preparation is over.
A sheet keeps its resource meanwhile. Either it is ready and its chooser still prepares, or the options of its version cannot
be read again and it stays unready (`Steady`, `Stuck`, `StaleRests`): no request for them is under way, and those for
other versions are for newer ones. So readiness does not come back without the summary. This needs that
what is on display was drawn from the cache when the chooser was opened: `ChosenOptionsAreCurrent` has `~LateRenders` as a hypothesis,
`ChosenInFormsAreCurrent` does not need it.

*DiffWorkbench.* `DiffInv` says of the view that the pages shown are of the open list and of the basis on screen, and that
an open list has a layer (`Sound`); each function of the reducer keeps it, so `PagesAreOfTheRoot` needs nothing of the requests.
The fence does: no token is above the ledger's last, a request in flight has the token issued last for its key, and a cached page an older
one (`Tokens`). A request takes a token above all, so the page cached before is no longer issued; the fence gives every known key such
a token and drops the requests. What may be published was then read after the fence (`SinceFence`), and a refused list is
of a basis the server has left (`RefusedFits`). This is `FencedRootsStayOut`. On a page opened again the count of own changes starts
at 0 while the ledger remembers the count it fenced last, and may take a new change for that one.

*CreateWizard.* `WizardInv` adds to `SubmissionIsWhatWasSeen` that overrides are of the selection in the address, or there are none
(`OverInv`), and that only a created project is opened (`CreateInv`). Every step of the route drops the overrides of another
selection, also when the browser goes back. While a submission is under way and once its project is created the wizard is locked, so that the form
stays and the overrides stay or are dropped (`SubmissionKept`); an answer that arrives tells what the server did, so what it has created is what the wizard
reports until an answer is lost (`ProjectsInv`).

*SheetValidation.* `IssuesFitTheRows` speaks of what is shown as the server's, and says nothing of how it got there. `VInv` adds
that the sheet, and a read of it under way, lack only rows that are dirty or changed the structure (`SheetLacksLittle`): the
answer of a PATCH cancels the reads, and rows leave the buffer only when the sheet has them. The layers of the project are those stored unless they are
being read, a structural change is out, or the user was told that one failed (`LayersAreKnown`). And what was found in
the present generation is about the rows stored (`FindingsFit`), but only while nothing dirty is stored (`Quiet`), that is, until the answer of a
save begins the next generation. A sheet that is ready, at rest and knows its layers then lacks nothing. The theorem `IssuesFitTheRowsShown` has `~OthersWrite` as
a hypothesis: with other writers TLC refutes the property, and `NoStaleConfirmation`, for the reason given in section 3.

*Workspace.* Both properties are about who has the live lock, and neither says where it is while a request is on
its way. `IInv` adds it for each of the three holders. The page (`PageFits`): a draft has a sheet, an editor is open in
its own mutation alone, a suspension runs in a handoff alone. The sheet (`AsksFit`, `SheetFits`): of one mount
at most one acquisition and one release are under way, and an acquisition only once the lock before has been given away (`MountFits`);
what else is under way is for the token the sheet has or for one that is no longer live; a sheet
that is not suspended and not "held" has no live token, and one whose suspension is done has neither a token nor an acquisition (`Stopped`).
The drawer (`CallsFit`, `ControllerFits`, `SessionFits`): a granted token is not anybody's else (`Fresh`), a draft stands
under the token it was read with, and a live session is released once, by the release the controller
waits for or behind the last save. A token is live only while it is the last one issued, so no step of the server revives one
(`Revival`), and what was known of a dead token stays true. From `IInv` follow `EditorsTakeTurns` and
`LocksAreRemembered`. Their hypothesis `~LateAnswers` is the one described in section 2; without it
TLC refutes `NoLockIsForgotten`, see above.

*SheetPage.* What is written is decided by one action, `ApplyPaste`, from the cells under review and the last commit, or is what a
failed attempt carried; the exclusion of other edits reads the paste as it is now and not as it was rendered, so it holds of late handlers too.
That the page settles needs `SheetPageInv`: a jump under way aims at a column that the category on display has (`JumpFits`), because
whoever changes the category drops the jump or makes it anew. From these follows `PastesWriteWhatHolds`.

*ParameterPage.* `FormInv` adds of the editor that its session is that of the address (`EditorFits`); that an answer under way or
fresh in the cache is no older than the session (`DetailIsRecent`: opening makes the cache stale, and a save puts its own answer there);
that a set which counts was taken after every list that left it out (`AuthFits`: a list can only take the selection back); and
that a request is of the form as it stands, which no step changes until the request is over, so what the service stored is what is shown when
the editor closes (`SaveFits`). With the import's preview (`CsvFits`) this is `ParameterFormsHold`.

Only model-checked: the liveness properties, whole or in part (`WorkComesToAnEnd`, `OrphanedLockRunsOut`,
`RequestsAreAnswered`, `SelectionIsRepaired`, `OpeningSettles`, `OutdatedRootIsReplaced`, `SavesAreValidated`), because TLAPS proves no
fairness argument here; `IssuesAreTheRules` and `ScanIsExact`, which say what an evaluation or a scan computes for
every input.

## 5. Not modelled

* Names, severities, scopes and literals of rules; categories, patterns and texts of parameters;
  the locks of choice sets that a new parameter takes.
* The server's copy of the evaluator, the basis hash and layer matching: pure functions, of
  which only the browser's evaluator is compared with a definition.
* History and comparison on the server, and the sheet read API: read-only queries. What
  `HistoryWorkbench` and `DiffWorkbench` take from them (a cursor carries its
  snapshot, a page is refused for another basis) is stated there.
* Authentication, maintenance gate, configuration, the ingest reader, migrations,
  the proxy, browser QA, seed and containers: stateless checks or I/O. What the modelled parts rely on (one
  session and one transaction per request, the constraints of the schema) enters
  the modules that need it.
* Layout, drawing, exports, key bindings, tooltips and wording in the browser; sorting and searching of
  lists; the creation of a choice set; the Unicode tables behind patterns; the lines of a CSV.

## 6. Plan

1. Layer matching, the diff and the cursor over a growing log as algorithms with reference definitions.
2. A composition of `Autosave` with `SheetSession`, so that a late heartbeat
   answer meets a save in every stage.
