----------------------------- MODULE ParameterPage ------------------------------
(* The registry page of parameters: its list and filters kept in the address,  *)
(* the drawer that creates, edits and deactivates a parameter, the import of a *)
(* CSV text and the creation of a category, while other administrators work on *)
(* the same registry.  One parameter stands for the registry; its value for    *)
(* all its fields.  A request carries what the service answered when it        *)
(* handled it; ver counts the writes of the registry.                          *)
EXTENDS Naturals, FiniteSets

CONSTANTS Sets,      \* codes of choice sets
          Values,    \* values of the fields; 0 is what a new form shows
          Bad,       \* a value that the form refuses
          Texts,     \* texts of an import; 0 is the empty text
          Missing,
          MaxVer,    \* bound: writes of the registry
          MaxFormSteps   \* bound: actions of the user, and failures

\* What the constants must satisfy.
ParameterConstants == /\ {MaxVer, MaxFormSteps} \subseteq Nat /\ Bad \in Values
                      /\ 0 \in Values \ {Bad}
                      /\ 0 \in Texts /\ Texts \subseteq Nat
                      /\ Missing \notin Values \cup Texts \cup Sets

VARIABLES parameter,  \* the parameter of the registry: its value, whether it is active, ver
          setsOn,  \* the choice sets that are active
          url,     \* what the address says: the editor, the search, a category it knows or not
          draft,   \* the text in the search field
          list,    \* the cached list: its data, an answer under way, the failure of the last
          detail,  \* the same for the parameter; fresh: read since the editor was opened
          sets,    \* the same for the active choice sets
          ed,      \* the session of the editor
          save,    \* the request of the editor under way
          csv,     \* the import: text, preview and its text, applied
          creqs,   \* previews under way, and the application of an import
          cat,     \* the dialog of a category
          storedForm,  \* the form of this session that the service stored
          shownOff,\* the sets that a list did not show since the user took them
          formSteps

registry == <<parameter, setsOn>>
route == <<url, draft>>
editorVars == <<detail, sets, ed, save, storedForm, shownOff>>
dialogs == <<csv, creqs, cat>>
formVars == <<registry, route, list, editorVars, dialogs, formSteps>>

FormStep == formSteps < MaxFormSteps /\ formSteps' = formSteps + 1
Query(data) == [data |-> data, req |-> Missing, err |-> FALSE]
InitialForm == [v |-> 0, type |-> "text", set |-> Missing]
NoSession == [target |-> "closed", hydrated |-> FALSE, orig |-> Missing, form |-> InitialForm,
              auth |-> Missing, complete |-> FALSE, ask |-> FALSE, off |-> FALSE, since |-> 0]
InitialCsv == [open |-> FALSE, text |-> 0, preview |-> Missing, of |-> Missing, applied |-> FALSE]
NoCategory == [open |-> FALSE, filled |-> FALSE, sent |-> FALSE]

FormInit == /\ parameter = [v |-> 0, on |-> TRUE, ver |-> 0] /\ setsOn \in SUBSET Sets
            /\ url = [edit |-> "closed", query |-> 0, cat |-> "unknown"] /\ draft = 0
            /\ list = [Query(Missing) EXCEPT !.req = parameter]
            /\ detail = [data |-> Missing, req |-> Missing, err |-> FALSE, fresh |-> FALSE]
            /\ sets = Query(Missing)
            /\ ed = NoSession /\ save = Missing
            /\ csv = InitialCsv /\ creqs = {} /\ cat = NoCategory
            /\ storedForm = Missing /\ shownOff = {} /\ formSteps = 0

OthersWrite == /\ parameter.ver < MaxVer
               /\ \E v \in Values \ {Bad}, on \in BOOLEAN :
                    parameter' = [v |-> v, on |-> on, ver |-> parameter.ver + 1]
               /\ UNCHANGED <<setsOn, route, list, editorVars, dialogs, formSteps>>
OthersSwitchSet == /\ parameter.ver < MaxVer /\ parameter' = [parameter EXCEPT !.ver = @ + 1]
                   /\ \E s \in Sets : setsOn' = IF s \in setsOn THEN setsOn \ {s} ELSE setsOn \cup {s}
                   /\ UNCHANGED <<route, list, editorVars, dialogs, formSteps>>

-----------------------------------------------------------------------------
(* Queries.                                                                   *)

(* The detail is hydrated once, and only from an answer read since opening.    *)
SelectFreshParameterForHydration(d) == d.fresh /\ ~d.err /\ d.data # Missing
Hydrated(e, d) ==
    IF e.target # "existing" \/ e.hydrated \/ ~SelectFreshParameterForHydration(d) THEN e
    ELSE [e EXCEPT !.hydrated = TRUE, !.orig = d.data, !.form = [InitialForm EXCEPT !.v = d.data.v]]
DetailAnswered == /\ detail.req # Missing
                  /\ detail' = [data |-> detail.req, req |-> Missing, err |-> FALSE, fresh |-> TRUE]
                  /\ ed' = Hydrated(ed, detail')
                  /\ UNCHANGED <<registry, route, list, sets, save, storedForm, shownOff, dialogs, formSteps>>
DetailFails == /\ FormStep /\ detail.req # Missing
               /\ detail' = [detail EXCEPT !.req = Missing, !.err = TRUE, !.fresh = TRUE]
               /\ UNCHANGED <<registry, route, list, sets, ed, save, storedForm, shownOff, dialogs>>
RetryParameter == /\ FormStep /\ detail.err /\ url.edit = "existing"
                  /\ detail' = [detail EXCEPT !.req = parameter]
                  /\ UNCHANGED <<registry, route, list, sets, ed, save, storedForm, shownOff, dialogs>>

(* A fresh list of sets can revoke the selection of one, never restore it.     *)
ReconcileAuthorization(auth, code, s) ==
    IF auth = Missing \/ auth # code \/ code \notin s.data THEN Missing ELSE auth
Reconciled(e, s) ==
    IF e.target # "new" \/ s.data = Missing \/ s.err \/ s.req # Missing THEN e
    ELSE [e EXCEPT !.auth = ReconcileAuthorization(e.auth, e.form.set, s)]
SetsAnswered == /\ sets.req # Missing /\ sets' = Query(sets.req) /\ ed' = Reconciled(ed, sets')
                /\ shownOff' = shownOff \cup (Sets \ sets.req)
                /\ UNCHANGED <<registry, route, list, detail, save, storedForm, dialogs, formSteps>>
SetsFail == /\ FormStep /\ sets.req # Missing
            /\ sets' = [sets EXCEPT !.req = Missing, !.err = TRUE]
            /\ UNCHANGED <<registry, route, list, detail, ed, save, storedForm, shownOff, dialogs>>
PreparePicker == /\ FormStep /\ ed.target = "new" /\ ed.form.type = "choice" /\ save = Missing
                 /\ sets' = [sets EXCEPT !.req = setsOn]
                 /\ UNCHANGED <<registry, route, list, detail, ed, save, storedForm, shownOff, dialogs>>

ListAnswered == /\ list.req # Missing /\ list' = Query(list.req)
                /\ UNCHANGED <<registry, route, editorVars, dialogs, formSteps>>
ListReadFails == /\ FormStep /\ list.req # Missing
                 /\ list' = [list EXCEPT !.req = Missing, !.err = TRUE]
                 /\ UNCHANGED <<registry, route, editorVars, dialogs>>
RetryParameterList == /\ FormStep /\ list.err /\ list' = [list EXCEPT !.req = parameter]
                      /\ UNCHANGED <<registry, route, editorVars, dialogs>>

(* A write makes the page read all it shows again.                             *)
InvalidateParameterAdminQueries(d) ==
    /\ list' = [list EXCEPT !.req = parameter]
    /\ detail' = IF url.edit = "existing" THEN [d EXCEPT !.req = parameter] ELSE d
    /\ sets' = IF url.edit = "new" THEN [sets EXCEPT !.req = setsOn] ELSE sets

-----------------------------------------------------------------------------
(* The address: search, filters, editor.                                      *)

Typing == FormStep /\ \E q \in 0..1 : q # draft /\ draft' = q
          /\ UNCHANGED <<registry, url, list, editorVars, dialogs>>
(* 250 ms after the last key the search goes to the address, and back to the   *)
(* field when it changes.                                                      *)
SearchTimer == /\ draft # url.query /\ url' = [url EXCEPT !.query = draft]
               /\ UNCHANGED <<registry, draft, list, editorVars, dialogs, formSteps>>
BackInHistory == /\ FormStep /\ url.edit = "closed" /\ url.query # 0
                 /\ url' = [url EXCEPT !.query = 0] /\ draft' = 0
                 /\ UNCHANGED <<registry, list, editorVars, dialogs>>
(* A category that the registry does not have is taken out of the address.     *)
RepairRoute == /\ url.cat = "unknown" /\ list.data # Missing
               /\ url' = [url EXCEPT !.cat = "none"]
               /\ UNCHANGED <<registry, draft, list, editorVars, dialogs, formSteps>>
SetFilter == /\ FormStep /\ url.edit = "closed"
             /\ \E c \in {"none", "known"} : c # url.cat /\ url' = [url EXCEPT !.cat = c]
             /\ UNCHANGED <<registry, draft, list, editorVars, dialogs>>
IsListed == list.data # Missing /\ list.data.on /\ ~list.err /\ url.query = 0
                                /\ url.cat # "unknown"

StartParameterEditorSession(target) ==
    [NoSession EXCEPT !.target = target, !.hydrated = target # "existing", !.since = parameter.ver]
OpenParameterEditor(target) ==
    /\ url.edit = "closed" /\ ~csv.open /\ ~cat.open
    /\ url' = [url EXCEPT !.edit = target]
    /\ detail' = [detail EXCEPT !.fresh = FALSE,
                                !.req = IF target = "existing" THEN parameter ELSE Missing]
    /\ ed' = Hydrated(StartParameterEditorSession(target), detail')
    /\ sets' = IF target = "new" THEN [sets EXCEPT !.req = setsOn] ELSE sets
    /\ storedForm' = Missing /\ shownOff' = {}
    /\ UNCHANGED <<registry, draft, list, save, dialogs>>
OpenNew == FormStep /\ OpenParameterEditor("new")
OpenExisting == FormStep /\ IsListed /\ OpenParameterEditor("existing")

-----------------------------------------------------------------------------
(* The editor.                                                                *)

Unlocked == FALSE
FieldsLocked == save # Missing
ResourceReady == sets.data # Missing /\ ~sets.err /\ sets.req = Missing
CreateErrors(f) == \/ f.v = Bad
                   \/ /\ f.type = "choice"
                      /\ f.set = Missing \/ sets.data = Missing \/ f.set \notin sets.data \/ ed.auth # f.set
CreateBlocked == ed.target = "new" /\ ed.form.type = "choice" /\ ~ResourceReady
CreateFingerprint(f) == IF f.type = "choice" THEN f ELSE [f EXCEPT !.set = Missing]
CreateDirty == ed.target = "new" /\ CreateFingerprint(ed.form) # InitialForm
UpdateDirty == ed.target = "existing" /\ ed.hydrated /\ ed.form.v # ed.orig.v
Dirty == CreateDirty \/ UpdateDirty
UpdateErrors(f) == f.v = Bad
FieldErrors == IF ed.target = "new" THEN CreateErrors(ed.form) ELSE UpdateErrors(ed.form)

(* The effect that closes a completed editor runs before the next event.       *)
EditorShown == ed.target # "closed" /\ ed.hydrated /\ ~ed.complete
UpdateField ==
    /\ FormStep /\ EditorShown /\ ~FieldsLocked /\ ~ed.ask
    /\ \/ \E v \in Values : v # ed.form.v /\ ed' = [ed EXCEPT !.form.v = v]
       \/ /\ ed.target = "new"
          /\ \E t \in {"text", "choice"} : t # ed.form.type /\ ed' = [ed EXCEPT !.form.type = t]
    /\ UNCHANGED <<registry, route, list, detail, sets, save, storedForm, shownOff, dialogs>>
Selectable(c) == ResourceReady /\ c \in sets.data
SelectChoiceSet ==
    /\ FormStep /\ EditorShown /\ ed.target = "new" /\ ed.form.type = "choice" /\ ~FieldsLocked
    /\ \E c \in Sets \cup {Missing} :
          /\ c = Missing \/ Selectable(c)
          /\ ed' = Reconciled([ed EXCEPT !.form.set = c, !.auth = c], sets)
          /\ shownOff' = shownOff \ {c}
    /\ UNCHANGED <<registry, route, list, detail, sets, save, storedForm, dialogs>>

PersistParameter == [kind |-> ed.target, form |-> ed.form, off |-> ed.form.set \in shownOff,
                     phase |-> "sent"]
Submit == /\ FormStep /\ EditorShown /\ save = Missing /\ ~ed.ask /\ Dirty /\ ~FieldErrors
          /\ ~CreateBlocked
          /\ save' = PersistParameter
          /\ UNCHANGED <<registry, route, list, detail, sets, ed, storedForm, shownOff, dialogs>>
AskDeactivation == /\ FormStep /\ EditorShown /\ ed.target = "existing" /\ ed.orig.on
                   /\ save = Missing
                   /\ \E ask \in BOOLEAN : ask # ed.ask /\ ed' = [ed EXCEPT !.ask = ask]
                   /\ UNCHANGED <<registry, route, list, detail, sets, save, storedForm, shownOff, dialogs>>
Deactivate == /\ FormStep /\ ed.ask /\ save = Missing
              /\ save' = [kind |-> "off", form |-> ed.form, off |-> FALSE, phase |-> "sent"]
              /\ UNCHANGED <<registry, route, list, detail, sets, ed, storedForm, shownOff, dialogs>>

(* The service stores the changed fields, or refuses.                          *)
HandleSave == /\ save # Missing /\ save.phase = "sent"
              /\ parameter' = [v |-> IF save.kind = "off" THEN parameter.v ELSE save.form.v,
                                  on |-> parameter.on /\ save.kind # "off", ver |-> parameter.ver + 1]
              /\ save' = [save EXCEPT !.phase = "done"]
              /\ storedForm' = IF save.kind = "off" THEN storedForm ELSE save.form
              /\ UNCHANGED <<setsOn, route, list, detail, sets, ed, shownOff, dialogs, formSteps>>
Refuse == /\ FormStep /\ save # Missing /\ save.phase = "sent" /\ save' = Missing
          /\ UNCHANGED <<registry, route, list, detail, sets, ed, storedForm, shownOff, dialogs>>
SavePersisted == /\ save # Missing /\ save.phase = "done"
                 /\ save' = [save EXCEPT !.phase = "settling"]
                 /\ UNCHANGED parameter
                 /\ InvalidateParameterAdminQueries(
                        [detail EXCEPT !.data = parameter, !.err = FALSE, !.fresh = TRUE])
                 /\ ed' = [ed EXCEPT !.off = save.kind = "off"]
                 /\ UNCHANGED <<setsOn, route, storedForm, shownOff, dialogs, formSteps>>
(* When the page was read again the editor closes without asking.              *)
Complete == /\ save # Missing /\ save.phase = "settling" /\ list.req = Missing
            /\ detail.req = Missing /\ sets.req = Missing
            /\ save' = Missing /\ ed' = [ed EXCEPT !.complete = TRUE, !.ask = FALSE]
            /\ UNCHANGED <<registry, route, list, detail, sets, storedForm, shownOff, dialogs, formSteps>>
Close == /\ url' = [url EXCEPT !.edit = "closed"] /\ ed' = NoSession
         /\ detail' = [detail EXCEPT !.req = Missing]
         /\ UNCHANGED <<registry, draft, list, sets, save, storedForm, shownOff, dialogs>>
CompletionCloses == ed.complete /\ Close /\ UNCHANGED formSteps
(* The user closes or navigates: frozen while a request is under way, asked    *)
(* when there are changes.                                                     *)
Leave == FormStep /\ ed.target # "closed" /\ ~ed.complete /\ save = Missing /\ ~ed.ask /\ Close

-----------------------------------------------------------------------------
(* The import and the category.                                               *)

CsvPending(k) == \E r \in creqs : r.kind = k /\ r.seen
OpenCsv == /\ FormStep /\ url.edit = "closed" /\ ~cat.open /\ ~csv.open
           /\ csv' = [csv EXCEPT !.open = TRUE]
           /\ UNCHANGED <<registry, route, list, editorVars, creqs, cat>>
(* An edit forgets the preview and the requests that the dialog watched.       *)
EditCsv == /\ FormStep /\ csv.open /\ ~CsvPending("apply")
           /\ \E t \in Texts : t # csv.text /\ csv' = [InitialCsv EXCEPT !.open = TRUE, !.text = t]
           /\ creqs' = {[r EXCEPT !.seen = FALSE] : r \in creqs}
           /\ UNCHANGED <<registry, route, list, editorVars, cat>>
CsvRequest(kind) ==
    creqs' = creqs \cup {[kind |-> kind, text |-> csv.text, ver |-> parameter.ver, seen |-> TRUE]}
PreviewCsv == /\ FormStep /\ csv.open /\ csv.text # 0 /\ ~CsvPending("preview")
              /\ ~CsvPending("apply")
              /\ CsvRequest("preview")
              /\ UNCHANGED <<registry, route, list, editorVars, csv, cat>>
CanApplyCsvImport == csv.preview # Missing /\ csv.of = csv.text
ApplyCsv == /\ FormStep /\ csv.open /\ CanApplyCsvImport /\ ~CsvPending("preview")
            /\ ~CsvPending("apply")
            /\ parameter' = [parameter EXCEPT !.v = 1, !.on = TRUE, !.ver = @ + 1]
            /\ CsvRequest("apply") /\ UNCHANGED <<setsOn, route, list, editorVars, csv, cat>>
PreviewSucceeded(r) == IF r.text # csv.text THEN csv
                       ELSE [csv EXCEPT !.preview = r.ver, !.of = r.text, !.applied = FALSE]
ApplySucceeded(r) == IF r.text # csv.text \/ r.text # csv.of THEN csv
                     ELSE [csv EXCEPT !.preview = r.ver, !.applied = TRUE]
CsvAnswered == /\ \E r \in creqs : /\ creqs' = creqs \ {r}
                                   /\ csv' = IF r.kind = "preview" THEN PreviewSucceeded(r) ELSE ApplySucceeded(r)
                                   /\ list' = IF r.kind = "apply" THEN [list EXCEPT !.req = parameter] ELSE list
               /\ UNCHANGED <<registry, route, editorVars, cat, formSteps>>
CsvFails == /\ FormStep /\ \E r \in creqs : creqs' = creqs \ {r}
            /\ UNCHANGED <<registry, route, list, editorVars, csv, cat>>
CloseCsv == /\ FormStep /\ csv.open /\ ~CsvPending("preview") /\ ~CsvPending("apply")
            /\ csv' = InitialCsv
            /\ UNCHANGED <<registry, route, list, editorVars, creqs, cat>>

ToggleCategory == /\ FormStep /\ ~cat.sent /\ url.edit = "closed" /\ ~csv.open
                  /\ cat' = [NoCategory EXCEPT !.open = ~cat.open]
                  /\ UNCHANGED <<registry, route, list, editorVars, csv, creqs>>
FillCategory == /\ FormStep /\ cat.open /\ ~cat.filled /\ cat' = [cat EXCEPT !.filled = TRUE]
                /\ UNCHANGED <<registry, route, list, editorVars, csv, creqs>>
SubmitCategory == /\ FormStep /\ cat.open /\ cat.filled /\ ~cat.sent
                  /\ cat' = [cat EXCEPT !.sent = TRUE]
                  /\ UNCHANGED <<registry, route, list, editorVars, csv, creqs>>
CategoryAnswered == /\ cat.sent /\ cat' \in {NoCategory, [cat EXCEPT !.sent = FALSE]}
                    /\ UNCHANGED <<registry, route, list, editorVars, csv, creqs, formSteps>>

FormNext == \/ OthersWrite \/ OthersSwitchSet
            \/ DetailAnswered \/ DetailFails \/ RetryParameter \/ SetsAnswered \/ SetsFail \/ PreparePicker
            \/ ListAnswered \/ ListReadFails \/ RetryParameterList
            \/ Typing \/ SearchTimer \/ BackInHistory \/ RepairRoute \/ SetFilter \/ OpenNew \/ OpenExisting
            \/ UpdateField \/ SelectChoiceSet \/ Submit \/ AskDeactivation \/ Deactivate
            \/ HandleSave \/ Refuse \/ SavePersisted \/ Complete \/ CompletionCloses \/ Leave
            \/ OpenCsv \/ EditCsv \/ PreviewCsv \/ ApplyCsv \/ CsvAnswered \/ CsvFails \/ CloseCsv
            \/ ToggleCategory \/ FillCategory \/ SubmitCategory \/ CategoryAnswered

FormSpec == FormInit /\ [][FormNext]_formVars

-----------------------------------------------------------------------------
(* The editor that closes by itself after a save loses nothing: what the form  *)
(* shows then is what the service stored.  (A deactivation drops the form.)    *)
SavedBeforeClosing ==
    [][ed.complete /\ ed'.target = "closed" => ed.off \/ storedForm = ed.form]_formVars

(* The form starts from what the registry held after the editor was opened,    *)
(* a parameter is created with a choice set only if the user took the set      *)
(* after the last list that did not show it, and the preview on the screen is  *)
(* that of the text beside it.                                                 *)
EditorStartsFresh == ed.target = "existing" /\ ed.hydrated => ed.orig.ver >= ed.since
SetIsReconfirmed == save # Missing /\ save.kind = "new"
                                   /\ save.form.type = "choice" => ~save.off
PreviewIsOfTheText == csv.preview # Missing => csv.of = csv.text
WhatIsShownHolds == EditorStartsFresh /\ SetIsReconfirmed /\ PreviewIsOfTheText

(* The form starts from the registry as it is, shows a preview of the text     *)
(* beside it alone, and loses nothing when it closes by itself.                *)
ParameterFormHolds == []WhatIsShownHolds /\ SavedBeforeClosing
=============================================================================
