--------------------------- MODULE SheetValidation ---------------------------
(* The validation of the sheet in one browser tab: issues computed from the    *)
(* rows on display, and issues the server found in the rows it stores, which   *)
(* win while they are about the same generation and definitions.  The rows     *)
(* are abstracted to the set of writes they show; the writes of the tab and    *)
(* of other users, the reads of the sheet and of the project, the definitions  *)
(* an administrator changes, and the answers of the server interleave.         *)
EXTENDS Naturals, FiniteSets

CONSTANTS
  Bad,           \* writes that leave an error in the sheet
  MaxWrites,     \* bound: writes of all users
  OthersWrite,   \* whether another user may take the lock and write
  MaxSteps       \* bound: actions of users, of the administrator, and failures

\* What the constants must satisfy.
ValidationConstants ==
    /\ {MaxWrites, MaxSteps} \subseteq Nat /\ OthersWrite \in BOOLEAN
    /\ Bad \subseteq 1..MaxWrites

VARIABLES server,    \* rows stored and basis of the definitions
          made,      \* number of writes so far
          sheet,     \* the cached sheet and project: rows, basis, layers, choices
          get,       \* the read of the sheet in flight
          project,   \* the project is being read
          edit,      \* the buffer, the write in flight, and what became of the last
          auth,      \* the definition authority of the render
          pub,       \* the context last published to the controller, or none
          ctl,       \* the controller: its timer, its intention, its present request
          requests,  \* validations in flight, superseded ones among them
          waits,     \* explicit validations that wait for the autosave
          result,    \* what the controller's state tells the panel
          steps

client == <<sheet, get, project, edit, auth>>
controller == <<pub, ctl, requests, waits, result>>
validationVars == <<server, made, client, controller, steps>>

Step == steps < MaxSteps /\ steps' = steps + 1

NoRead == [stage |-> "none", rows |-> {}, basis |-> 0, awaited |-> FALSE]
NoWrite == [stage |-> "none", ids |-> {}, structure |-> FALSE]
NoResult == [confirmed |-> FALSE, rows |-> {}, basis |-> 0, auth |-> 0, gen |-> 0,
             status |-> "idle", failure |-> "none", explicit |-> FALSE]

ValidationInit == /\ server = [rows |-> {}, basis |-> 0, layers |-> {}]
                  /\ made = 0 /\ steps = 0
                  /\ sheet = [rows |-> {}, basis |-> 0, layers |-> {}, choices |-> TRUE,
                              failed |-> FALSE]
                  /\ get = NoRead /\ project = FALSE
                  /\ edit = [dirty |-> {}, write |-> NoWrite, held |-> TRUE, error |-> FALSE,
                             told |-> FALSE, gen |-> 0, shaped |-> {}]
                  /\ auth = 0
                  /\ pub = [auth |-> 0, basis |-> 0, ready |-> TRUE, gen |-> 0, idle |-> TRUE]
                  /\ ctl = [timer |-> FALSE, pending |-> FALSE, active |-> 0, issued |-> 0]
                  /\ requests = {} /\ waits = {} /\ result = NoResult

-----------------------------------------------------------------------------
(* The render.  Definitions fit only rows of the layers the project shows.    *)

Ready(s) == s.choices /\ s.rows \cap server.layers = s.layers
Saving == edit.write.stage # "none"
PersistenceIdle == edit.dirty = {} /\ ~Saving /\ ~edit.error
Definitions(s) == <<s.layers, s.basis, s.choices, Ready(s)>>
Show(s) == /\ sheet' = s
           /\ auth' = IF Definitions(s) = Definitions(sheet) THEN auth ELSE auth + 1

Context == [auth |-> auth, basis |-> sheet.basis, ready |-> Ready(sheet), gen |-> edit.gen,
            idle |-> PersistenceIdle]

Shown == sheet.rows \cup edit.dirty
AuthorityOfAnyTime ==
    CASE ~Ready(sheet) -> "unavailable"
      [] Ready(sheet) /\ PersistenceIdle /\ result.confirmed /\ result.basis = sheet.basis
           -> "authoritative"
      [] OTHER -> "provisional"
Authority == CASE ~Ready(sheet) -> "unavailable"
               [] /\ Ready(sheet) /\ PersistenceIdle /\ result.confirmed
                  /\ result.basis = sheet.basis /\ result.auth = auth /\ result.gen = edit.gen
                    -> "authoritative"
               [] OTHER -> "provisional"
ProvisionalIssues == IF Ready(sheet) THEN Shown \cap Bad ELSE {}
Issues == IF Authority = "authoritative" THEN result.rows \cap Bad ELSE ProvisionalIssues

(* The strip of the panel, and when it is shown at all.                       *)
Strip == CASE Authority = "unavailable" -> "definitions"
           [] result.status = "failed" /\ result.failure # "none" -> result.failure
           [] result.status \in {"waiting", "validating"} -> result.status
           [] Authority = "authoritative" /\ result.status = "confirmed" /\ Issues = {} -> "clean"
           [] Authority = "authoritative" -> "confirmed"
           [] OTHER -> "local"
MayRetry == result.status = "failed" /\ result.failure = "server"

-----------------------------------------------------------------------------
(* The server, its administrator and other users.                             *)

ChangeRules == Step /\ server' = [server EXCEPT !.basis = @ + 1]
               /\ UNCHANGED <<made, client, controller>>
OtherWrites == /\ OthersWrite /\ Step /\ ~edit.held /\ made < MaxWrites /\ made' = made + 1
               /\ server' = [server EXCEPT !.rows = @ \cup {made + 1}]
               /\ UNCHANGED <<client, controller>>
LockChanges == /\ OthersWrite /\ Step /\ ~Saving /\ edit' = [edit EXCEPT !.held = ~@]
               /\ UNCHANGED <<server, made, sheet, get, project, auth, controller>>

-----------------------------------------------------------------------------
(* The editing session, as far as validation tells it apart: Autosave has the *)
(* engine, and EditLock the lock.                                             *)

Edit == /\ Step /\ edit.held /\ ~(Saving /\ edit.write.structure)
        /\ made < MaxWrites /\ made' = made + 1
        /\ edit' = [edit EXCEPT !.dirty = @ \cup {made + 1}]
        /\ UNCHANGED <<server, sheet, get, project, auth, controller>>
Save == /\ edit.held /\ edit.dirty # {} /\ ~Saving
        /\ edit' = [edit EXCEPT !.write = [NoWrite EXCEPT !.stage = "sent", !.ids = edit.dirty],
                                !.error = FALSE]
        /\ UNCHANGED <<server, made, sheet, get, project, auth, controller, steps>>
Restructure ==
    /\ Step /\ edit.held /\ edit.dirty = {} /\ ~Saving /\ ~edit.error
    /\ made < MaxWrites /\ made' = made + 1
    /\ edit' = [edit EXCEPT !.write = [stage |-> "sent", ids |-> {made + 1}, structure |-> TRUE],
                            !.told = FALSE]
    /\ sheet' = [sheet EXCEPT !.failed = FALSE]
    /\ UNCHANGED <<server, get, project, auth, controller>>
WriteServed ==
    /\ edit.write.stage = "sent" /\ edit' = [edit EXCEPT !.write = [@ EXCEPT !.stage = "applied"]]
    /\ server' = [server EXCEPT !.rows = @ \cup edit.write.ids,
                                !.layers = IF edit.write.structure THEN @ \cup edit.write.ids ELSE @]
    /\ UNCHANGED <<made, sheet, get, project, auth, controller, steps>>

ReadSheet(awaited) == get' = [NoRead EXCEPT !.stage = "asked", !.awaited = awaited]
(* The answer of a PATCH cancels a read and completes the cached sheet; that  *)
(* of a structural change asks for the sheet and the project again.           *)
WriteAnswered ==
    /\ edit.write.stage = "applied"
    /\ edit' = [edit EXCEPT !.write = NoWrite, !.dirty = @ \ edit.write.ids, !.gen = @ + 1,
                            !.shaped = IF edit.write.structure THEN @ \cup edit.write.ids ELSE @]
    /\ IF edit.write.structure
       THEN /\ ReadSheet(FALSE) /\ project' = TRUE
            /\ UNCHANGED <<sheet, auth>>
       ELSE /\ get' = NoRead /\ Show([sheet EXCEPT !.rows = @ \cup edit.write.ids])
            /\ UNCHANGED project
    /\ UNCHANGED <<server, made, controller, steps>>
WriteFails ==
    /\ Step /\ Saving
    /\ edit' = [edit EXCEPT !.write = NoWrite, !.error = ~edit.write.structure,
                            !.told = @ \/ edit.write.structure]
    /\ UNCHANGED <<server, made, sheet, get, project, auth, controller>>

-----------------------------------------------------------------------------
(* Reads: after a structural change, for a validation, when the window is     *)
(* focused; and the choice sets, which load and reload on their own.          *)

Focus == /\ Step /\ get.stage = "none" /\ ReadSheet(FALSE)
         /\ project' = TRUE
         /\ UNCHANGED <<server, made, sheet, edit, auth, controller>>
ReadServed ==
    /\ get.stage = "asked"
    /\ get' = [get EXCEPT !.stage = "served", !.rows = server.rows, !.basis = server.basis]
    /\ UNCHANGED <<server, made, sheet, project, edit, auth, controller, steps>>
ReadAnswered ==
    /\ get.stage = "served" /\ get' = NoRead
    /\ Show([sheet EXCEPT !.rows = get.rows, !.basis = get.basis, !.failed = FALSE])
    /\ UNCHANGED <<server, made, project, edit, controller, steps>>
ReadFails == /\ Step /\ get.stage # "none" /\ get' = NoRead
             /\ sheet' = [sheet EXCEPT !.failed = TRUE]
             /\ UNCHANGED <<server, made, project, edit, auth, controller>>
ProjectAnswered == /\ project /\ project' = FALSE
                   /\ Show([sheet EXCEPT !.layers = server.layers])
                   /\ UNCHANGED <<server, made, get, edit, controller, steps>>
ChoicesChange == /\ Step /\ Show([sheet EXCEPT !.choices = ~@])
                 /\ UNCHANGED <<server, made, get, project, edit, controller>>

-----------------------------------------------------------------------------
(* The controller.                                                            *)

MayPersist == edit.dirty = {} /\ ~Saving /\ ~edit.error
Schedule(c, p) == [c EXCEPT !.timer = c.pending /\ p.ready /\ p.idle /\ MayPersist]

SupersededOnly(c) == [c EXCEPT !.active = 0]
Superseded(c) == [c EXCEPT !.active = 0, !.pending = TRUE]
Publish ==
    /\ pub # Context /\ pub' = Context
    /\ IF pub.auth # auth \/ pub.basis # sheet.basis \/ pub.gen # edit.gen
       THEN /\ ctl' = Schedule(Superseded(ctl), Context)
            /\ result' = [result EXCEPT !.status = "idle",
                            !.failure = IF Ready(sheet) THEN "none" ELSE "definitions"]
       ELSE ctl' = Schedule(ctl, Context) /\ UNCHANGED result
    /\ UNCHANGED <<server, made, client, requests, waits, steps>>

StartRequest(explicit) ==
    LET quiet == [ctl EXCEPT !.timer = FALSE, !.pending = FALSE]
        Refuse(why) == /\ ctl' = quiet /\ UNCHANGED requests
                       /\ result' = [result EXCEPT !.status = "failed", !.failure = why]
    IN CASE ~pub.ready -> Refuse("definitions")
         [] pub.ready /\ ~MayPersist -> Refuse("persistence")
         [] OTHER ->
              /\ ctl' = [quiet EXCEPT !.active = ctl.issued + 1, !.issued = @ + 1]
              /\ requests' = requests \cup
                   {[id |-> ctl.issued + 1, auth |-> pub.auth, basis |-> pub.basis, gen |-> edit.gen,
                     explicit |-> explicit, stage |-> "asked", rows |-> {}, found |-> 0]}
              /\ result' = [result EXCEPT !.status = "validating", !.failure = "none"]

TimerFires == /\ ctl.timer /\ StartRequest(FALSE)
              /\ UNCHANGED <<server, made, client, pub, waits, steps>>

Ask(explicit) ==
    IF MayPersist /\ pub.idle THEN StartRequest(explicit) /\ UNCHANGED waits
    ELSE /\ waits' = waits \cup {[auth |-> pub.auth, explicit |-> explicit]}
         /\ result' = [result EXCEPT !.status = "waiting", !.failure = "none"]
         /\ UNCHANGED <<ctl, requests>>
ExplicitlyValidate == /\ Step /\ Ready(sheet) /\ result.status \notin {"waiting", "validating"}
                      /\ Ask(TRUE) /\ UNCHANGED <<server, made, client, pub>>
Retry == Step /\ MayRetry /\ Ask(FALSE) /\ UNCHANGED <<server, made, client, pub>>

(* The barrier ends when nothing is left to write, or with a failed write.    *)
WaitEnds == \E w \in waits :
    /\ MayPersist \/ (edit.error /\ ~Saving)
    /\ waits' = waits \ {w}
    /\ CASE w.auth # pub.auth -> UNCHANGED <<ctl, requests, result>>
         [] w.auth = pub.auth /\ MayPersist -> StartRequest(w.explicit)
         [] OTHER -> /\ result' = [result EXCEPT !.status = "failed", !.failure = "persistence"]
                     /\ UNCHANGED <<ctl, requests>>
    /\ UNCHANGED <<server, made, client, pub, steps>>

RequestServed == \E r \in requests :
    /\ r.stage = "asked"
    /\ requests' = (requests \ {r}) \cup
         {[r EXCEPT !.stage = "served", !.rows = server.rows, !.found = server.basis]}
    /\ UNCHANGED <<server, made, client, pub, ctl, waits, result, steps>>

CaptureIsCurrent(r) == /\ ctl.active = r.id /\ pub.auth = r.auth
                       /\ edit.gen = r.gen /\ pub.basis = r.basis
Finish(r) == /\ requests' = requests \ {r}
             /\ ctl' = IF ctl.active = r.id THEN [ctl EXCEPT !.active = 0] ELSE ctl
Adopt(r) == result' = [confirmed |-> TRUE, rows |-> r.rows, basis |-> r.found, auth |-> r.auth,
                       gen |-> r.gen, status |-> "confirmed", failure |-> "none",
                       explicit |-> result.explicit \/ r.explicit]
(* An answer under other definitions has the sheet read again; the validation *)
(* then fails unless the new definitions have superseded it.                  *)
RequestAnswered == \E r \in requests :
    /\ r.stage = "served"
    /\ CASE ~CaptureIsCurrent(r) -> Finish(r) /\ UNCHANGED <<result, get>>
         [] CaptureIsCurrent(r) /\ r.found # r.basis ->
              /\ requests' = (requests \ {r}) \cup {[r EXCEPT !.stage = "reading"]}
              /\ ReadSheet(TRUE) /\ UNCHANGED <<ctl, result>>
         [] OTHER -> Finish(r) /\ Adopt(r) /\ UNCHANGED get
    /\ UNCHANGED <<server, made, sheet, project, edit, auth, pub, waits, steps>>
Fails(r, why) ==
    /\ Finish(r)
    /\ result' = IF CaptureIsCurrent(r)
                 THEN [result EXCEPT !.status = "failed", !.failure = why] ELSE result
    /\ UNCHANGED <<server, made, client, pub, waits>>
RequestReread == \E r \in requests :
    r.stage = "reading" /\ ~get.awaited /\ Fails(r, "definitions") /\ UNCHANGED steps
RequestFails == \E r \in requests : Step /\ r.stage = "asked" /\ Fails(r, "server")

ValidationNext == \/ ChangeRules \/ OtherWrites \/ LockChanges
                  \/ Edit \/ Save \/ Restructure \/ WriteServed \/ WriteAnswered \/ WriteFails
                  \/ Focus \/ ReadServed \/ ReadAnswered \/ ReadFails \/ ProjectAnswered
                  \/ ChoicesChange
                  \/ Publish \/ TimerFires \/ ExplicitlyValidate \/ Retry \/ WaitEnds
                  \/ RequestServed \/ RequestAnswered \/ RequestReread \/ RequestFails

(* The browser renders, timers fire, and the server answers.                  *)
ValidationFairness ==
    /\ WF_validationVars(Publish) /\ WF_validationVars(TimerFires)
    /\ WF_validationVars(WaitEnds) /\ WF_validationVars(Save)
    /\ WF_validationVars(WriteServed) /\ WF_validationVars(WriteAnswered)
    /\ WF_validationVars(ReadServed) /\ WF_validationVars(ReadAnswered)
    /\ WF_validationVars(ProjectAnswered)
    /\ WF_validationVars(RequestServed) /\ WF_validationVars(RequestAnswered)
    /\ WF_validationVars(RequestReread)
ValidationSpec == ValidationInit /\ [][ValidationNext]_validationVars /\ ValidationFairness

-----------------------------------------------------------------------------

(* Issues labelled as the server's are about the rows on display: unless the   *)
(* project is being read or the user was told that a structural change failed, *)
(* the rows the server evaluated are the rows shown, under the definitions     *)
(* shown; and the strip calls a sheet clean only if it shows none of the       *)
(* errors (selectEffectiveValidation, the capture of a request).               *)
OutOfStep == project \/ edit.told
IssuesFitTheRows ==
    /\ Authority = "authoritative" /\ ~OutOfStep => result.rows = Shown
    /\ Strip = "clean" /\ ~OutOfStep => Shown \cap Bad = {}

(* The user sees a change of structure he was told was made, unless the sheet  *)
(* is still being read or he was told that the read failed                     *)
(* (performStructural, refreshSheet).                                          *)
StructureIsShown == \/ edit.shaped \subseteq sheet.rows
                    \/ get.stage # "none" \/ sheet.failed
                    \/ edit.told \/ (Saving /\ edit.write.structure)

(* A confirmation is never older than the rows it is shown for.                *)
NoStaleConfirmation == Authority = "authoritative" => Shown \subseteq result.rows

(* What was saved is validated without being asked: once writes are at rest    *)
(* and the definitions known, the sheet shows the server's issues or why not   *)
(* (publish, scheduleIfReady, startRequest).                                   *)
SavesAreValidated ==
    edit.gen > 0 /\ PersistenceIdle /\ Ready(sheet) /\ Authority # "authoritative"
    ~> Authority = "authoritative" \/ result.failure # "none" \/ ~PersistenceIdle \/ ~Ready(sheet)
=============================================================================
