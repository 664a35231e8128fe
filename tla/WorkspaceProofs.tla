---------------------------- MODULE WorkspaceProofs ----------------------------
(* The page of a product: its editors take turns, and no lock is forgotten.    *)
(* Its sheet: a paste writes what was reviewed and still holds.  The form of a *)
(* parameter: it starts from the registry, and closes over nothing unsaved.    *)
EXTENDS Workspace, SheetPage, ParameterPage, TLAPS

(* Types.                                                                      *)
Sheet == [on : BOOLEAN, gen : Nat,
          status : {"acquiring", "reacquiring", "held", "lost", "readonly"}, token : Nat,
          suspended : BOOLEAN, stage : {"no", "wait", "release", "done", "failed"},
          beating : BOOLEAN, seeking : BOOLEAN, work : {"none", "dirty", "writing"}]
Answers == {"none", "ok", "refused", "failed"}
Ask == [op : {"acquire", "beat", "write", "suspend", "drop"}, gen : Nat, token : Nat,
        last : BOOLEAN, answer : Answers]
Controller == [phase : {"closed", "acquiring", "loading-profile", "load-error", "editable",
                        "saving", "releasing", "lock-lost", "conflict"},
               gen : Nat, token : Nat, session : Nat, sessionGen : Nat,
               draft : {"none", "clean", "dirty", "invalid"}, under : Nat,
               recovery : BOOLEAN, beating : BOOLEAN]
Call == [op : {"acquire", "load", "refresh", "beat", "patch"} \cup P!Releases,
         gen : Nat, token : Nat, answer : Answers]
Session == [gen : Nat, token : Nat]
Shell == [mutation : Kinds \cup {"none", "handoff", "refresh"}, next : Kinds \cup {"none", "recover"},
          page : BOOLEAN, draft : BOOLEAN, drawer : BOOLEAN, orphan : BOOLEAN,
          releaseFailed : BOOLEAN]
Dialog == [open : BOOLEAN, doing : {"nothing", "acquire", "replace", "release", "reload"},
           token : Nat, done : BOOLEAN]
SheetTypes == sheet \in Sheet /\ asks \in SUBSET Ask
DrawerTypes == /\ ctl \in Controller /\ calls \in SUBSET Call /\ released \in SUBSET Nat
               /\ chain \in Session /\ parting \in SUBSET Session
PageTypes == shell \in Shell /\ modal \in Dialog
ServerTypes == /\ drafting \in BOOLEAN /\ issued \in Nat /\ holder \in {0, issued}
               /\ abandoned \in SUBSET Nat /\ (~drafting => holder = 0)

(* The server gave every token that anybody knows; the live one is the last.   *)
Live(t) == t = holder /\ holder # 0
Given(t) == t <= issued
SheetGiven == Given(sheet.token) /\ \A a \in asks : Given(a.token)
DrawerGiven == /\ Given(ctl.token) /\ Given(ctl.session) /\ \A c \in calls : Given(c.token)
               /\ (\A t \in released : Given(t)) /\ (\A p \in parting : Given(p.token))

(* The page: a draft has a sheet; each editor is open in its own mutation; a   *)
(* suspension is in progress in a handoff alone.                               *)
PageFits ==
    /\ sheet.on <=> shell.page /\ shell.draft
    /\ ~shell.page => Idle
    /\ shell.drawer => shell.mutation = "profile" /\ shell.draft
    /\ ctl.phase # "closed" => shell.drawer
    /\ modal.open \/ modal.doing # "nothing" => shell.mutation = "layer"
    /\ modal.doing \in {"acquire", "reload"} => modal.token = 0
    /\ shell.orphan => shell.mutation = "handoff"
    /\ sheet.stage # "no" => shell.mutation = "handoff" /\ ~shell.orphan /\ sheet.on
    /\ shell.mutation = "handoff" /\ ~shell.orphan => sheet.on

(* The sheet: its requests.                                                    *)
Mine(a) == a.gen = sheet.gen
Acquires(a) == Mine(a) /\ a.op = "acquire"
Suspends(a) == Mine(a) /\ a.op = "suspend"
Uses(a) == Mine(a) /\ a.op \in {"beat", "write", "suspend"}
AsksFit ==
    \A a \in asks :
        /\ a.gen <= sheet.gen
        /\ a.op = "acquire" /\ a.answer # "ok" => a.token = 0
        /\ a.op = "suspend" /\ a.answer = "ok" => ~Live(a.token)
        /\ a.op \in {"beat", "write"} /\ a.answer = "refused" => ~Live(a.token)

(* Of this mount, one acquisition and one release are under way at most, the   *)
(* one while it is sought, the other at its stage; the rest is for the token   *)
(* the sheet has.                                                              *)
Quiet == \A a \in asks : ~Acquires(a)
MountFits ==
    /\ \A a \in asks : Acquires(a) => sheet.seeking /\ ~Live(sheet.token)
    /\ \A a, b \in asks : Acquires(a) /\ Acquires(b) => a = b
    /\ \A a \in asks : Suspends(a) => sheet.stage = "release"
    /\ \A a, b \in asks : Suspends(a) /\ Suspends(b) => a = b
    /\ \A a \in asks : Uses(a) => a.token = sheet.token \/ (~Live(a.token) /\ ~Live(sheet.token))

(* The status "held" is for a sheet that may edit; a sheet that is to acquire  *)
(* a lock has given the one before away.                                       *)
Stopped == Quiet /\ ~Live(sheet.token)
SheetFits ==
    /\ sheet.status = "held" => sheet.on /\ ~sheet.suspended
    /\ sheet.on =>
         /\ MountFits
         /\ ~Idle \/ sheet.stage # "no" => sheet.suspended
         /\ ~sheet.suspended /\ sheet.status # "held" => ~Live(sheet.token)
         /\ sheet.stage \in {"release", "done", "failed"} => Quiet
         /\ sheet.stage = "done" \/ shell.orphan \/ shell.mutation \notin {"none", "handoff"} => Stopped

(* The drawer: tokens and generations of the controller and its calls.         *)
Owned(c) == c.gen = ctl.gen /\ c.token = ctl.token
Fresh(c) == /\ c.token \notin released /\ c.token # ctl.session
            /\ \A d \in calls : d.token = c.token => d = c
            /\ \A p \in parting : p.token # c.token
CallsFit ==
    \A c \in calls :
        /\ c.gen <= ctl.gen
        /\ c.op # "acquire" => c.token # 0
        /\ c.op = "acquire" /\ c.answer = "ok" => c.token # 0 /\ Fresh(c)
        /\ c.op = "acquire" /\ c.answer # "ok" => c.token = 0
        /\ c.op \in {"beat", "patch"} /\ c.answer = "refused" => ~Live(c.token)
        /\ c.op \in P!Releases /\ c.answer = "ok" => ~Live(c.token)

(* The controller knows the token of its session, and edits a draft that was   *)
(* read under it.                                                              *)
ControllerFits ==
    /\ ctl.token # 0 => ctl.token = ctl.session
    /\ ctl.phase \in {"acquiring", "closed", "conflict"} => ctl.token = 0
    /\ ctl.phase = "closed" => ctl.session = 0
    /\ ctl.draft # "none" => ctl.under = ctl.token /\ ctl.token # 0
    /\ ctl.phase \in {"editable", "saving"} => ctl.draft # "none"
    /\ \A c \in calls : c.op = "again-release" => c.token # ctl.token
    /\ \A c \in calls : c.op \in {"patch", "refresh", "save-release"} /\ Owned(c) => ctl.draft # "none"

(* A live session is released once: by the release the controller waits for,   *)
(* or, of a session that was left, when its last save has ended.               *)
SessionFits ==
    /\ Live(ctl.session) =>
         /\ ctl.phase # "acquiring" => ctl.token = ctl.session
         /\ ctl.phase \notin {"acquiring", "releasing"} => ctl.session \notin released
         /\ ctl.phase = "acquiring" => \A c \in calls :
              c.gen = ctl.gen => /\ c.op # "acquire"
                                 /\ c.op = "again-release" => c.token = ctl.session
    /\ \A c \in calls : c.op \in {"save-release", "close-release"} /\ Live(c.token) =>
         /\ Owned(c) /\ ctl.phase = "releasing"
         /\ \A d \in calls : d.op \in {"save-release", "close-release"} /\ d.token = c.token => d = c
    /\ \A c \in calls : c.op = "load" /\ Live(c.token) /\ Owned(c) =>
         /\ ctl.phase = "loading-profile"
         /\ \A d \in calls : d.op = "load" /\ Owned(d) => d = c
    /\ \A p \in parting : Live(p.token) =>
         /\ p.token # ctl.session /\ p.token \notin released
         /\ \A q \in parting : q.token = p.token => q = p

(* The live lock has somebody who will give it back.                           *)
SheetHas(t) == \/ sheet.on /\ sheet.token = t
               \/ \E a \in asks : a.token = t /\ a.op \in {"acquire", "write", "drop"}
DrawerHas(t) == \/ ctl.session = t
                \/ \E c \in calls : c.token = t /\ c.op \in {"acquire"} \cup P!Releases
                \/ \E p \in parting : p.token = t
LockIsHeld == holder # 0 => \/ SheetHas(holder) \/ DrawerHas(holder) \/ modal.token = holder
                            \/ holder \in abandoned

SheetInv == SheetTypes /\ SheetGiven /\ AsksFit /\ SheetFits
DrawerInv == DrawerTypes /\ DrawerGiven /\ CallsFit /\ ControllerFits /\ SessionFits
PageInv == PageTypes /\ Given(modal.token) /\ PageFits
SessionIsOfThePast == ctl.sessionGen <= ctl.gen
IInv == ServerTypes /\ SheetInv /\ DrawerInv /\ SessionIsOfThePast /\ PageInv /\ LockIsHeld

(* Steps of the server: the lock ends, stays as it is or is granted anew.      *)
Grants == holder' = issued + 1 /\ issued' = issued + 1
Keeps == issued' = issued /\ holder' \in {0, holder}
NoneRevives == \A t \in Nat : t <= issued /\ Live(t)' => Live(t)
GivenStays == issued' \in Nat /\ \A t \in Nat : t <= issued => t <= issued'

LEMMA Revival == ASSUME ServerTypes, Grants \/ Keeps PROVE NoneRevives /\ GivenStays
  BY DEF ServerTypes, Grants, Keeps, NoneRevives, GivenStays, Live

(* What a step of the sheet leaves of the lock it has.                         *)
SheetPasses == \/ holder' = 0 \/ SheetHas(holder)'
               \/ holder' = holder /\ (holder \in abandoned' \/ ~SheetHas(holder))

(* An ask is answered: nothing else of it changes, but for a token granted.    *)
LEMMA Answering ==
    ASSUME ServerTypes, SheetInv, NEW a \in asks, NEW b \in Ask, ~S!Answered(a),
           UNCHANGED <<sheet, shell>>, asks' = (asks \ {a}) \cup {b},
           b.op = a.op, b.gen = a.gen, NoneRevives, GivenStays,
           b.token = a.token \/ (a.op = "acquire" /\ b.token <= issued'),
           b.op = "acquire" /\ b.answer # "ok" => b.token = 0,
           b.op = "suspend" /\ b.answer = "ok" => ~Live(b.token)',
           b.op \in {"beat", "write"} /\ b.answer = "refused" => ~Live(b.token)'
    PROVE  SheetInv'
  <1>1. SheetTypes' /\ SheetGiven'
    BY DEF SheetInv, SheetTypes, SheetGiven, Given, GivenStays, Ask, Sheet
  <1>2. \A x \in asks' : \/ x = b \/ x \in asks
    OBVIOUS
  <1>3. AsksFit'
    BY <1>1, <1>2 DEF SheetInv, SheetTypes, SheetGiven, Given, AsksFit, NoneRevives, Ask, Sheet, Live
  <1>4. SheetFits'
    BY DEF SheetInv, SheetTypes, SheetGiven, Given, SheetFits, MountFits, Stopped, Quiet, Acquires,
        Suspends, Uses, Mine, Idle, NoneRevives, Ask, Sheet
  <1> QED BY <1>1, <1>3, <1>4 DEF SheetInv

(* A step of the sheet neither mounts it nor begins or ends a suspension.      *)
SheetStays == /\ UNCHANGED shell /\ sheet'.on = sheet.on
              /\ (sheet'.stage = "no" <=> sheet.stage = "no")

LEMMA ServeAsk ==
    ASSUME IInv, S!Serve, UNCHANGED shell
    PROVE  SheetInv' /\ SheetPasses /\ SheetStays /\ (Grants \/ Keeps)
  <1>0. PICK a \in asks : /\ ~S!Answered(a)
         /\ \/ a.op = "acquire" /\ holder = 0 /\ drafting /\ S!Grant(a)
            \/ /\ a.op = "acquire" /\ (holder # 0 \/ ~drafting)
               /\ S!Reply(a, "refused") /\ UNCHANGED <<holder, issued>>
            \/ /\ a.op \in {"beat", "write"}
               /\ S!Reply(a, IF holder = a.token THEN "ok" ELSE "refused") /\ UNCHANGED <<holder, issued>>
            \/ /\ a.op \in {"suspend", "drop"}
               /\ holder' = (IF holder = a.token THEN 0 ELSE holder)
               /\ IF a.op = "drop" THEN asks' = asks \ {a} ELSE S!Reply(a, "ok")
               /\ UNCHANGED issued
         /\ UNCHANGED <<sheet, drafting, abandoned, steps>>
    BY DEF S!Serve
  <1>1. ServerTypes /\ SheetInv /\ a \in Ask /\ a.token \in Nat /\ a.answer = "none" /\ issued \in Nat
    BY <1>0, <1>0 DEF IInv, SheetInv, SheetTypes, S!Answered, Ask, ServerTypes
  <1>2. CASE a.op = "acquire" /\ holder = 0 /\ drafting /\ S!Grant(a)
    <2>1. PICK t \in Nat : t = issued + 1
      BY <1>1
    <2> DEFINE b == [a EXCEPT !.token = t, !.answer = "ok"]
    <2>2. b \in Ask /\ b.op = a.op /\ b.gen = a.gen /\ b.token = t /\ b.answer = "ok"
      BY <1>1 DEF Ask, Answers
    <2>3. asks' = (asks \ {a}) \cup {b} /\ Grants
      BY <1>2, <2>1 DEF S!Grant, Grants
    <2> HIDE DEF b
    <2>4. SheetInv'
      <3>1. NoneRevives /\ GivenStays
        BY <1>1, <2>3, Revival
      <3>2. issued' = t /\ t <= issued'
        BY <2>1, <2>3 DEF Grants
      <3> QED BY <1>0, <1>1, <1>2, <2>2, <2>3, <3>1, <3>2, Answering
    <2>5. SheetHas(holder)'
      BY <1>2, <2>1, <2>2, <2>3 DEF SheetHas, Grants
    <2> QED BY <1>0, <2>3, <2>4, <2>5 DEF SheetPasses, SheetStays
  <1>3. ASSUME NEW answer \in Answers, S!Reply(a, answer), Keeps,
               a.op # "drop", a.op = "acquire" => answer # "ok",
               a.op = "suspend" => holder' # a.token \/ a.token = 0,
               a.op \in {"beat", "write"} /\ answer = "refused" => holder' # a.token
        PROVE  SheetInv' /\ SheetPasses
    <2> DEFINE b == [a EXCEPT !.answer = answer]
    <2>1. b \in Ask /\ b.op = a.op /\ b.gen = a.gen /\ b.token = a.token /\ b.answer = answer
      BY <1>0, <1>1 DEF Ask
    <2>2. asks' = (asks \ {a}) \cup {b}
      BY <1>0, <1>3 DEF S!Reply
    <2>3. a.op = "acquire" => a.token = 0
      BY <1>0, <1>1 DEF SheetInv, AsksFit
    <2>4. SheetInv'
      <3> HIDE DEF b
      <3> QED BY <1>0, <1>1, <1>3, <2>1, <2>2, <2>3, Revival, Answering DEF Live
    <2>5. holder' = holder /\ SheetHas(holder) => SheetHas(holder)'
      <3> HIDE DEF b
      <3> QED BY <1>0, <2>1, <2>2 DEF SheetHas
    <2> QED BY <1>0, <1>3, <2>4, <2>5 DEF SheetPasses, Keeps
  <1>4. CASE a.op = "drop" /\ holder' = (IF holder = a.token THEN 0 ELSE holder)
             /\ asks' = asks \ {a} /\ UNCHANGED issued
    <2>1. Keeps /\ NoneRevives /\ GivenStays
      BY <1>0, <1>1, <1>4, Revival DEF Keeps
    <2>2. SheetTypes' /\ SheetGiven'
      BY <1>0, <1>1, <1>4, <2>1 DEF SheetInv, SheetTypes, SheetGiven, Given, GivenStays
    <2>3. AsksFit'
      BY <1>0, <1>1, <1>4, <2>1 DEF SheetInv, SheetTypes, SheetGiven, Given, AsksFit, NoneRevives, Ask
    <2>4. SheetFits'
      BY <1>0, <1>1, <1>4, <2>1 DEF SheetInv, SheetTypes, SheetGiven, Given, SheetFits, MountFits, Stopped,
        Quiet, Acquires, Suspends, Uses, Mine, Idle, NoneRevives, Ask, Sheet
    <2>5. SheetPasses
      BY <1>0, <1>1, <1>4 DEF SheetPasses, SheetHas
    <2> QED BY <1>0, <2>1, <2>2, <2>3, <2>4, <2>5 DEF SheetInv, SheetStays
  <1>5. SheetStays
    BY <1>0 DEF SheetStays
  <1> QED BY <1>0, <1>1, <1>2, <1>3, <1>4, <1>5 DEF Keeps, Answers

LEMMA FailAsk ==
    ASSUME IInv, S!Fail, UNCHANGED shell
    PROVE  SheetInv' /\ SheetPasses /\ SheetStays /\ Keeps
  <1>0. PICK a \in asks : /\ ~S!Answered(a)
         /\ IF a.op = "drop" THEN asks' = asks \ {a} /\ S!Abandon(a)
            ELSE S!Reply(a, "failed") /\ UNCHANGED abandoned
    BY DEF S!Fail
  <1>1. UNCHANGED <<sheet, drafting, holder, issued>>
    BY DEF S!Fail
  <1>2. /\ ServerTypes /\ SheetInv /\ a \in Ask /\ Keeps /\ SheetStays
        /\ NoneRevives /\ GivenStays
    BY <1>0, <1>1, Revival DEF IInv, SheetInv, SheetTypes, Keeps, SheetStays
  <1>3. CASE a.op = "drop"
    <2>1. asks' = asks \ {a} /\ abandoned' = abandoned \cup {a.token}
      BY <1>0, <1>3 DEF S!Abandon
    <2>2. SheetTypes' /\ SheetGiven' /\ AsksFit'
      BY <1>0, <1>1, <1>2, <2>1 DEF SheetInv, SheetTypes, SheetGiven, Given, AsksFit, Live
    <2>3. SheetFits'
      BY <1>0, <1>1, <1>2, <2>1 DEF SheetInv, SheetFits, MountFits, Stopped, Quiet, Acquires, Suspends,
        Uses, Mine, Idle, Live
    <2>4. SheetPasses
      BY <1>0, <1>1, <2>1 DEF SheetPasses, SheetHas
    <2> QED BY <1>0, <1>2, <2>2, <2>3, <2>4 DEF SheetInv
  <1>4. CASE a.op # "drop"
    <2> DEFINE b == [a EXCEPT !.answer = "failed"]
    <2>1. b \in Ask /\ b.op = a.op /\ b.gen = a.gen /\ b.token = a.token /\ b.answer = "failed"
      BY <1>0, <1>2 DEF Ask, Answers
    <2>2. asks' = (asks \ {a}) \cup {b}
      BY <1>0, <1>4 DEF S!Reply
    <2>3. a.op = "acquire" => a.token = 0
      BY <1>0, <1>2 DEF SheetInv, AsksFit, S!Answered
    <2>4. SheetInv'
      <3> HIDE DEF b
      <3> QED BY <1>0, <1>1, <1>2, <2>1, <2>2, <2>3, Answering
    <2>5. SheetPasses
      <3> HIDE DEF b
      <3> QED BY <1>0, <1>1, <2>1, <2>2 DEF SheetPasses, SheetHas
    <2> QED BY <1>0, <1>2, <2>4, <2>5
  <1> QED BY <1>0, <1>3, <1>4

(* A sheet that may try asks for the lock.                                     *)
LEMMA SeekStep ==
    ASSUME IInv, S!MayReacquire, sheet.status \in {"lost", "readonly"},
           NEW s \in Sheet, UNCHANGED <<shell, holder, issued>>,
           sheet' = [s EXCEPT !.seeking = TRUE], s.status # "held",
           s.on = sheet.on, s.gen = sheet.gen, s.token = sheet.token, s.suspended = sheet.suspended,
           s.stage = sheet.stage, asks' = asks \cup {S!Ask("acquire", 0)}
    PROVE  SheetInv' /\ SheetPasses /\ SheetStays
  <1> DEFINE b == S!Ask("acquire", 0)
  <1>1. SheetInv /\ PageInv /\ sheet \in Sheet
    BY DEF IInv, SheetInv, SheetTypes
  <1>2. b \in Ask /\ b.op = "acquire" /\ b.gen = sheet.gen /\ b.token = 0 /\ b.answer = "none"
    BY <1>1 DEF S!Ask, Ask, Answers, Sheet
  <1>3. asks' = asks \cup {b} /\ Given(0)
    BY DEF Given, IInv, ServerTypes
  <1> HIDE DEF b
  <1>4. /\ sheet' \in Sheet /\ sheet'.on = sheet.on /\ sheet'.gen = sheet.gen
        /\ sheet'.token = sheet.token /\ sheet'.suspended = sheet.suspended
        /\ sheet'.stage = sheet.stage /\ sheet'.seeking /\ sheet'.status # "held"
    BY <1>1 DEF Sheet
  <1>5. sheet.on /\ ~sheet.suspended /\ ~sheet.seeking
    BY DEF S!MayReacquire
  <1>6. SheetTypes' /\ SheetGiven' /\ AsksFit'
    BY <1>1, <1>2, <1>3, <1>4 DEF SheetInv, SheetTypes, SheetGiven, Given, AsksFit, Live, Sheet
  <1>7. Idle /\ sheet.stage = "no" /\ ~shell.orphan /\ Quiet /\ ~Live(sheet.token)
    BY <1>1, <1>5 DEF SheetInv, SheetFits, MountFits, Quiet, PageInv, PageFits, Idle
  <1>8. SheetFits'
    BY <1>1, <1>2, <1>3, <1>4, <1>5, <1>7 DEF SheetInv, SheetFits, MountFits, Stopped, Quiet, Acquires, Suspends, Uses, Mine, Idle, Live
  <1>9. SheetPasses
    BY <1>3, <1>4, <1>5 DEF SheetPasses, SheetHas
  <1> QED BY <1>4, <1>6, <1>8, <1>9 DEF SheetInv, SheetStays

LEMMA ReacquireStep ==
    ASSUME IInv, S!Reacquire \/ S!ReadonlyRetry, UNCHANGED shell
    PROVE  SheetInv' /\ SheetPasses /\ SheetStays /\ Keeps
  <1>1. /\ S!MayReacquire /\ sheet.status \in {"lost", "readonly"} /\ UNCHANGED <<shell, holder, issued>>
        /\ asks' = asks \cup {S!Ask("acquire", 0)} /\ sheet \in Sheet
    BY DEF S!Reacquire, S!ReadonlyRetry, S!Seek, S!server, IInv, SheetInv, SheetTypes
  <1>2. CASE S!Reacquire
    <2> DEFINE s == [sheet EXCEPT !.status = IF @ = "readonly" THEN "acquiring" ELSE "reacquiring"]
    <2>1. s \in Sheet /\ sheet' = [s EXCEPT !.seeking = TRUE]
      BY <1>1, <1>2 DEF Sheet, S!Reacquire, S!Seek
    <2>2. /\ s.status # "held" /\ s.on = sheet.on /\ s.gen = sheet.gen /\ s.token = sheet.token
          /\ s.suspended = sheet.suspended /\ s.stage = sheet.stage
      BY <1>1 DEF Sheet
    <2> HIDE DEF s
    <2> QED BY <1>1, <2>1, <2>2, SeekStep DEF Keeps
  <1>3. CASE S!ReadonlyRetry
    <2>1. sheet' = [sheet EXCEPT !.seeking = TRUE]
      BY <1>3 DEF S!ReadonlyRetry
    <2> QED BY <1>1, <2>1, SeekStep DEF Keeps
  <1> QED BY <1>2, <1>3

LEMMA AcquireStep ==
    ASSUME IInv, ~LateAnswers, S!AcquireAnswered, UNCHANGED shell
    PROVE  SheetInv' /\ SheetPasses /\ SheetStays /\ Keeps
  <1>0. PICK a \in asks :
         /\ a.op = "acquire" /\ S!Answered(a)
         /\ \A b \in asks : b.op \in {"beat", "write"} => ~S!Ours(b)
         /\ IF ~S!Ours(a) \/ ~sheet.on
            THEN /\ asks' = (asks \ {a}) \cup S!GiveBack(a)
                 /\ UNCHANGED sheet
            ELSE /\ asks' = asks \ {a}
                 /\ sheet' =
                      IF a.answer = "ok"
                      THEN S!Taken(a.token)
                      ELSE [sheet EXCEPT !.seeking = FALSE,
                              !.status = IF @ = "reacquiring" THEN "lost" ELSE "readonly"]
    BY DEF S!AcquireAnswered
  <1>1. /\ SheetInv /\ sheet \in Sheet /\ a \in Ask /\ UNCHANGED <<holder, issued>> /\ Keeps
        /\ PageInv
    BY DEF S!AcquireAnswered, S!server, IInv, SheetInv, SheetTypes, Keeps
  <1>2. CASE ~S!Ours(a) \/ ~sheet.on
    <2> DEFINE b == [a EXCEPT !.op = "drop", !.answer = "none"]
    <2>1. b \in Ask /\ b.op = "drop" /\ b.gen = a.gen /\ b.token = a.token /\ b.answer = "none"
      BY <1>1 DEF Ask, Answers
    <2>2. \/ a.answer = "ok" /\ asks' = (asks \ {a}) \cup {b}
          \/ a.token = 0 /\ asks' = asks \ {a}
      BY <1>0, <1>1, <1>2 DEF S!GiveBack, SheetInv, AsksFit
    <2>3. UNCHANGED sheet
      BY <1>0, <1>2
    <2> HIDE DEF b
    <2>4. SheetTypes' /\ SheetGiven' /\ AsksFit'
      BY <1>1, <2>1, <2>2, <2>3 DEF SheetInv, SheetTypes, SheetGiven, Given, AsksFit, Live
    <2>5. SheetFits'
      BY <1>1, <2>1, <2>2, <2>3 DEF SheetInv, SheetFits, MountFits, Stopped, Quiet, Acquires, Suspends, Uses, Mine, Idle, Live
    <2>6. SheetPasses
      BY <1>1, <2>1, <2>2, <2>3 DEF SheetPasses, SheetHas
    <2> QED BY <1>1, <2>3, <2>4, <2>5, <2>6 DEF SheetInv, SheetStays
  <1>3. CASE S!Ours(a) /\ sheet.on
    <2>1. Acquires(a) /\ asks' = asks \ {a} /\ a.token \in Nat
      BY <1>0, <1>1, <1>3 DEF Acquires, Mine, S!Ours, Ask
    <2>2. sheet.seeking /\ ~Live(sheet.token) /\ \A x \in asks' : ~Acquires(x)
      BY <1>1, <1>3, <2>1 DEF SheetInv, SheetFits, MountFits
    <2>3. \A x \in asks' : ~Suspends(x) /\ ~Uses(x)
      BY <1>0, <1>1, <1>3, <2>1 DEF SheetInv, SheetFits, MountFits, Quiet, Suspends, Uses, Mine, S!Ours
    <2>4. sheet.stage \in {"no", "wait"} /\ ~shell.orphan /\ shell.mutation \in {"none", "handoff"}
      BY <1>1, <1>3, <2>1 DEF SheetInv, SheetFits, Stopped, Quiet, Sheet
    <2>5. /\ sheet' \in Sheet /\ sheet'.on /\ sheet'.gen = sheet.gen
          /\ sheet'.suspended = sheet.suspended /\ sheet'.stage = sheet.stage
          /\ sheet'.token = (IF a.answer = "ok" THEN a.token ELSE sheet.token)
          /\ sheet.suspended => sheet'.status \in {sheet.status, "lost", "readonly"}
          /\ ~sheet.suspended /\ a.answer = "ok" => sheet'.status = "held"
          /\ a.answer # "ok" => sheet'.status # "held"
      BY <1>0, <1>1, <1>3, <2>1 DEF S!Taken, S!TakenAnyway, Sheet
    <2>6. SheetTypes' /\ SheetGiven' /\ AsksFit'
      BY <1>1, <2>1, <2>5 DEF SheetInv, SheetTypes, SheetGiven, Given, AsksFit, Live
    <2>7. MountFits'
      BY <2>1, <2>2, <2>3, <2>5 DEF MountFits, Acquires, Suspends, Uses, Mine
    <2>8. SheetFits'
      BY <1>1, <1>3, <2>2, <2>4, <2>5, <2>7 DEF SheetInv, SheetFits, Idle, Live
    <2>9. SheetPasses
      BY <1>0, <1>1, <2>1, <2>2, <2>5 DEF SheetPasses, SheetHas, Live, SheetInv, AsksFit
    <2> QED BY <1>1, <1>3, <2>5, <2>6, <2>8, <2>9 DEF SheetInv, SheetStays
  <1> QED BY <1>2, <1>3

LEMMA HeartbeatStep ==
    ASSUME IInv, S!Heartbeat, UNCHANGED shell
    PROVE  SheetInv' /\ SheetPasses /\ SheetStays /\ Keeps
  <1> DEFINE b == S!Ask("beat", sheet.token)
  <1>1. /\ SheetInv /\ sheet \in Sheet /\ UNCHANGED <<sheet, holder, issued>> /\ Keeps
        /\ asks \in SUBSET Ask /\ sheet.on
        /\ asks' = {IF a.op = "beat" THEN [a EXCEPT !.last = FALSE] ELSE a : a \in asks} \cup {b}
    BY DEF S!Heartbeat, S!server, IInv, SheetInv, SheetTypes, Keeps
  <1>2. b \in Ask /\ b.op = "beat" /\ b.gen = sheet.gen /\ b.token = sheet.token /\ b.answer = "none"
    BY <1>1 DEF S!Ask, Ask, Answers, Sheet
  <1> HIDE DEF b
  <1>3. \A x \in asks' : \/ x = b
                         \/ x \in asks /\ x.op # "beat"
                         \/ \E a \in asks : /\ x \in Ask /\ x.op = "beat" /\ a.op = "beat" /\ x.gen = a.gen
                                            /\ x.token = a.token /\ x.answer = a.answer
    BY <1>1 DEF Ask
  <1>4. \A a \in asks : a.op # "beat" => a \in asks'
    BY <1>1
  <1>5. SheetTypes' /\ SheetGiven'
    BY <1>1, <1>2, <1>3 DEF SheetInv, SheetTypes, SheetGiven, Given
  <1>6. AsksFit'
    BY <1>1, <1>2, <1>3 DEF SheetInv, AsksFit, Live, Sheet
  <1>7. SheetFits'
    BY <1>1, <1>2, <1>3 DEF SheetInv, SheetFits, MountFits, Stopped, Quiet, Acquires, Suspends, Uses, Mine, Idle, Live
  <1>8. SheetPasses
    BY <1>1, <1>4 DEF SheetPasses, SheetHas
  <1> QED BY <1>1, <1>5, <1>6, <1>7, <1>8 DEF SheetInv, SheetStays

(* The sheet has lost its lock: the token it forgets is not alive.             *)
LEMMA Losing ==
    ASSUME NEW s \in Sheet, NEW l, l = S!Lose(s)
    PROVE  /\ l \in Sheet /\ l.on = s.on /\ l.gen = s.gen /\ l.token = 0 /\ l.status = "lost"
           /\ l.suspended = s.suspended /\ l.stage = s.stage /\ l.seeking = s.seeking
  <1>1. PICK w \in {"none", "dirty", "writing"} :
           l = [s EXCEPT !.status = "lost", !.beating = FALSE, !.token = 0, !.work = w]
    <2>1. s.work \in {"none", "dirty", "writing"}
      BY DEF Sheet
    <2>2. CASE s.work = "writing"
      BY <2>2 DEF S!Lose
    <2>3. CASE s.work # "writing"
      BY <2>1, <2>3 DEF S!Lose
    <2> QED BY <2>2, <2>3
  <1>2. PICK z \in Nat : z = 0
    OBVIOUS
  <1>3. l = [s EXCEPT !.status = "lost", !.beating = FALSE, !.token = z, !.work = w]
    BY <1>1, <1>2
  <1>4. /\ l \in Sheet /\ l.on = s.on /\ l.gen = s.gen /\ l.token = z /\ l.status = "lost"
        /\ l.suspended = s.suspended /\ l.stage = s.stage /\ l.seeking = s.seeking
    BY <1>3 DEF Sheet
  <1> QED BY <1>2, <1>4

(* An answer about the lock the sheet has, or of an earlier mount.             *)
LEMMA UseAnswered ==
    ASSUME IInv, NEW a \in asks, asks' = asks \ {a}, UNCHANGED <<shell, holder, issued>>,
           a.op \in {"beat", "write"}, sheet' \in Sheet,
           sheet'.on = sheet.on, sheet'.gen = sheet.gen, sheet'.suspended = sheet.suspended,
           sheet'.stage = sheet.stage, sheet'.seeking = sheet.seeking,
           sheet'.token \in {sheet.token, 0, a.token}, sheet'.status \in {sheet.status, "lost"},
           ~Uses(a) => sheet'.token = sheet.token /\ sheet'.status = sheet.status,
           sheet'.token = 0 \/ sheet'.status # sheet.status =>
               a.answer = "refused" \/ ~Live(sheet.token) \/ ~sheet.on
    PROVE  SheetInv' /\ (a.op = "beat" \/ (Uses(a) /\ sheet.on) => SheetPasses)
  <1>1. SheetInv /\ sheet \in Sheet /\ a \in Ask /\ asks \in SUBSET Ask
    BY DEF IInv, SheetInv, SheetTypes
  <1>2. SheetTypes' /\ SheetGiven' /\ AsksFit'
    BY <1>1 DEF SheetInv, SheetTypes, SheetGiven, Given, AsksFit, Live, IInv, ServerTypes
  <1>3. sheet.on => \/ sheet'.token = sheet.token
                    \/ ~Live(sheet.token) /\ ~Live(sheet'.token)
    BY <1>1 DEF SheetInv, SheetFits, MountFits, AsksFit, Live
  <1>4. sheet.on /\ sheet'.status # sheet.status => ~Live(sheet'.token)
    BY <1>1 DEF SheetInv, SheetFits, MountFits, AsksFit, Live
  <1>5. sheet.on => MountFits'
    BY <1>1, <1>3 DEF SheetInv, SheetFits, MountFits, Acquires, Suspends, Uses, Mine, Live
  <1>6. SheetFits'
    BY <1>1, <1>3, <1>4, <1>5 DEF SheetInv, SheetFits, Stopped, Quiet, Acquires, Mine, Idle, Live
  <1>7. sheet.on /\ Uses(a) => a.token = sheet.token \/ ~Live(a.token)
    BY <1>1 DEF SheetInv, SheetFits, MountFits
  <1>8. a.op = "beat" \/ (Uses(a) /\ sheet.on) => SheetPasses
    BY <1>1, <1>3, <1>7 DEF SheetPasses, SheetHas, Live
  <1> QED BY <1>2, <1>6, <1>8 DEF SheetInv

LEMMA HeartbeatAnsweredStep ==
    ASSUME IInv, S!HeartbeatAnswered, UNCHANGED shell
    PROVE  SheetInv' /\ SheetPasses /\ SheetStays /\ Keeps
  <1>0. PICK a \in asks :
         /\ a.op = "beat" /\ S!Answered(a) /\ asks' = asks \ {a}
         /\ sheet' = IF ~S!Ours(a) THEN sheet
                     ELSE CASE a.answer = "ok" -> [sheet EXCEPT !.token = a.token]
                            [] a.answer = "refused" -> S!Lose(sheet)
                            [] OTHER -> sheet
    BY DEF S!HeartbeatAnswered
  <1>1. /\ sheet \in Sheet /\ a \in Ask /\ UNCHANGED <<shell, holder, issued>> /\ Keeps
    BY DEF S!HeartbeatAnswered, S!server, IInv, SheetInv, SheetTypes, Keeps
  <1>2. Uses(a) <=> S!Ours(a)
    BY <1>0 DEF Uses, Mine, S!Ours
  <1>3. CASE S!Ours(a) /\ a.answer = "ok"
    <2>1. sheet' = [sheet EXCEPT !.token = a.token] /\ a.token \in Nat
      BY <1>0, <1>1, <1>3 DEF Ask
    <2>2. /\ sheet' \in Sheet /\ sheet'.on = sheet.on /\ sheet'.gen = sheet.gen
          /\ sheet'.suspended = sheet.suspended /\ sheet'.stage = sheet.stage
          /\ sheet'.seeking = sheet.seeking /\ sheet'.token = a.token /\ sheet'.status = sheet.status
      BY <1>1, <2>1 DEF Sheet
    <2>3. sheet.on => a.token = sheet.token \/ ~Live(sheet.token)
      BY <1>1, <1>2, <1>3 DEF IInv, SheetInv, SheetFits, MountFits
    <2>4. sheet'.token = 0 \/ sheet'.status # sheet.status => ~Live(sheet.token) \/ ~sheet.on
      BY <2>2, <2>3 DEF Live
    <2> QED BY <1>0, <1>1, <1>2, <1>3, <2>2, <2>4, UseAnswered DEF SheetStays
  <1>4. CASE S!Ours(a) /\ a.answer = "refused"
    <2>1. sheet' = S!Lose(sheet)
      BY <1>0, <1>4
    <2>2. /\ sheet' \in Sheet /\ sheet'.on = sheet.on /\ sheet'.gen = sheet.gen /\ sheet'.token = 0
          /\ sheet'.status = "lost" /\ sheet'.suspended = sheet.suspended
          /\ sheet'.stage = sheet.stage /\ sheet'.seeking = sheet.seeking
      BY <1>1, <2>1, Losing
    <2> QED BY <1>0, <1>1, <1>2, <1>4, <2>2, UseAnswered DEF SheetStays
  <1>5. CASE ~S!Ours(a) \/ a.answer \notin {"ok", "refused"}
    BY <1>0, <1>1, <1>2, <1>5, UseAnswered DEF SheetStays, Live
  <1> QED BY <1>3, <1>4, <1>5

LEMMA EditStep ==
    ASSUME IInv, S!Edit, UNCHANGED shell
    PROVE  SheetInv' /\ SheetPasses /\ SheetStays /\ Keeps
  <1>1. /\ SheetInv /\ UNCHANGED <<asks, holder, issued>> /\ Keeps /\ sheet \in Sheet
        /\ sheet' = [sheet EXCEPT !.work = "dirty"]
    BY DEF S!Edit, S!server, IInv, SheetInv, SheetTypes, Keeps
  <1>2. /\ sheet' \in Sheet /\ sheet'.on = sheet.on /\ sheet'.gen = sheet.gen
        /\ sheet'.suspended = sheet.suspended /\ sheet'.stage = sheet.stage
        /\ sheet'.seeking = sheet.seeking /\ sheet'.token = sheet.token /\ sheet'.status = sheet.status
    BY <1>1 DEF Sheet
  <1>3. SheetTypes' /\ SheetGiven' /\ AsksFit'
    BY <1>1, <1>2 DEF SheetInv, SheetTypes, SheetGiven, Given, AsksFit, Live
  <1>4. SheetFits'
    BY <1>1, <1>2 DEF SheetInv, SheetFits, MountFits, Stopped, Quiet, Acquires, Suspends, Uses, Mine, Idle, Live
  <1> QED BY <1>1, <1>2, <1>3, <1>4 DEF SheetInv, SheetStays, SheetPasses, SheetHas

LEMMA WriteStep ==
    ASSUME IInv, S!Write, UNCHANGED shell
    PROVE  SheetInv' /\ SheetPasses /\ SheetStays /\ Keeps
  <1> DEFINE b == S!Ask("write", sheet.token)
  <1>1. /\ SheetInv /\ UNCHANGED <<holder, issued>> /\ Keeps /\ sheet \in Sheet /\ asks \in SUBSET Ask
        /\ sheet' = [sheet EXCEPT !.work = "writing"] /\ asks' = asks \cup {b}
    BY DEF S!Write, S!server, IInv, SheetInv, SheetTypes, Keeps
  <1>2. b \in Ask /\ b.op = "write" /\ b.gen = sheet.gen /\ b.token = sheet.token /\ b.answer = "none"
    BY <1>1 DEF S!Ask, Ask, Answers, Sheet
  <1> HIDE DEF b
  <1>3. /\ sheet' \in Sheet /\ sheet'.on = sheet.on /\ sheet'.gen = sheet.gen
        /\ sheet'.suspended = sheet.suspended /\ sheet'.stage = sheet.stage
        /\ sheet'.seeking = sheet.seeking /\ sheet'.token = sheet.token /\ sheet'.status = sheet.status
    BY <1>1 DEF Sheet
  <1>4. SheetTypes' /\ SheetGiven' /\ AsksFit'
    BY <1>1, <1>2, <1>3 DEF SheetInv, SheetTypes, SheetGiven, Given, AsksFit, Live, Sheet
  <1>5. SheetFits'
    BY <1>1, <1>2, <1>3 DEF SheetInv, SheetFits, MountFits, Stopped, Quiet, Acquires, Suspends, Uses, Mine, Idle, Live
  <1> QED BY <1>1, <1>3, <1>4, <1>5 DEF SheetInv, SheetStays, SheetPasses, SheetHas

(* A write of a sheet that was left gives its lock back, or leaves it.         *)
LEMMA WriteAnsweredStep ==
    ASSUME IInv, S!WriteAnswered, UNCHANGED shell
    PROVE  SheetInv' /\ SheetPasses /\ SheetStays /\ Keeps
  <1>0. PICK a \in asks :
        /\ a.op = "write" /\ S!Answered(a)
        /\ IF S!Ours(a) /\ sheet.on
           THEN /\ asks' = asks \ {a} /\ UNCHANGED abandoned
                /\ sheet' = CASE a.answer = "ok" -> [sheet EXCEPT !.work = "none"]
                              [] a.answer = "refused" -> S!Lose(sheet)
                              [] OTHER -> [sheet EXCEPT !.work = "dirty"]
           ELSE /\ asks' = (asks \ {a}) \cup S!GiveBack(a)
                /\ IF a.answer = "ok" THEN UNCHANGED abandoned ELSE S!Abandon(a)
                /\ UNCHANGED sheet
    BY DEF S!WriteAnswered
  <1>1. /\ SheetInv /\ sheet \in Sheet /\ a \in Ask /\ UNCHANGED <<shell, holder, issued>> /\ Keeps
    BY DEF S!WriteAnswered, IInv, SheetInv, SheetTypes, Keeps
  <1>2. Uses(a) <=> S!Ours(a)
    BY <1>0 DEF Uses, Mine, S!Ours
  <1>3. CASE S!Ours(a) /\ sheet.on
    <2>1. CASE a.answer = "refused"
      BY <1>0, <1>1, <1>2, <1>3, <2>1, UseAnswered, Losing DEF SheetStays
    <2>2. CASE a.answer # "refused"
      <3>1. PICK w \in {"none", "dirty"} : sheet' = [sheet EXCEPT !.work = w]
        BY <1>0, <1>3, <2>2
      <3>2. /\ sheet' \in Sheet /\ sheet'.on = sheet.on /\ sheet'.gen = sheet.gen
            /\ sheet'.suspended = sheet.suspended /\ sheet'.stage = sheet.stage
            /\ sheet'.seeking = sheet.seeking /\ sheet'.token = sheet.token /\ sheet'.status = sheet.status
        BY <1>1, <3>1 DEF Sheet
      <3>3. sheet'.token = 0 \/ sheet'.status # sheet.status => ~Live(sheet.token)
        BY <3>2 DEF Live
      <3> QED BY <1>0, <1>1, <1>2, <1>3, <3>2, <3>3, UseAnswered DEF SheetStays
    <2> QED BY <2>1, <2>2
  <1>4. CASE ~(S!Ours(a) /\ sheet.on)
    <2> DEFINE b == [a EXCEPT !.op = "drop", !.answer = "none"]
    <2>1. b \in Ask /\ b.op = "drop" /\ b.gen = a.gen /\ b.token = a.token /\ b.answer = "none"
      BY <1>1 DEF Ask, Answers
    <2>2. /\ UNCHANGED sheet
          /\ \/ a.answer = "ok" /\ asks' = (asks \ {a}) \cup {b}
             \/ asks' = asks \ {a} /\ a.token \in abandoned'
      BY <1>0, <1>4 DEF S!GiveBack, S!Abandon
    <2> HIDE DEF b
    <2>3. SheetTypes' /\ SheetGiven' /\ AsksFit'
      BY <1>1, <2>1, <2>2 DEF SheetInv, SheetTypes, SheetGiven, Given, AsksFit, Live
    <2>4. SheetFits'
      BY <1>1, <2>1, <2>2 DEF SheetInv, SheetFits, MountFits, Stopped, Quiet, Acquires, Suspends, Uses, Mine, Idle, Live
    <2>5. SheetPasses
      BY <1>1, <2>1, <2>2 DEF SheetPasses, SheetHas
    <2> QED BY <1>1, <2>2, <2>3, <2>4, <2>5 DEF SheetInv, SheetStays
  <1> QED BY <1>3, <1>4

LEMMA SuspendReleasesStep ==
    ASSUME IInv, S!SuspendReleases, UNCHANGED shell
    PROVE  SheetInv' /\ SheetPasses /\ SheetStays /\ Keeps
  <1>1. /\ SheetInv /\ PageInv /\ UNCHANGED <<holder, issued>> /\ Keeps
        /\ sheet \in Sheet /\ asks \in SUBSET Ask /\ sheet.stage = "wait"
        /\ \A a \in asks : ~S!AwaitedBySuspend(a)
    BY DEF S!SuspendReleases, S!server, IInv, SheetInv, SheetTypes, Keeps
  <1>2. /\ sheet.on /\ sheet.suspended /\ Quiet /\ shell.mutation = "handoff" /\ ~shell.orphan
        /\ ~Idle /\ \A a \in asks : ~Suspends(a)
    BY <1>1 DEF PageInv, PageFits, Quiet, Acquires, Mine, S!AwaitedBySuspend, S!Ours, Idle, SheetInv,
        SheetFits, MountFits
  <1>3. CASE sheet.token = 0
    <2>1. sheet' = [sheet EXCEPT !.stage = "done", !.seeking = FALSE] /\ UNCHANGED asks
      BY <1>3 DEF S!SuspendReleases
    <2>2. /\ sheet' \in Sheet /\ sheet'.on = sheet.on /\ sheet'.gen = sheet.gen
          /\ sheet'.suspended = sheet.suspended /\ sheet'.stage = "done"
          /\ sheet'.token = sheet.token /\ sheet'.status = sheet.status
      BY <1>1, <2>1 DEF Sheet
    <2>3. SheetTypes' /\ SheetGiven' /\ AsksFit'
      BY <1>1, <2>1, <2>2 DEF SheetInv, SheetTypes, SheetGiven, Given, AsksFit, Live
    <2>4. ~Live(sheet.token)
      BY <1>3 DEF Live
    <2>5. MountFits'
      BY <1>1, <1>2, <2>1, <2>2 DEF SheetInv, SheetFits, MountFits, Quiet, Acquires, Suspends, Uses, Mine, Live
    <2>6. SheetFits'
      BY <1>1, <1>2, <2>1, <2>2, <2>4, <2>5 DEF SheetInv, SheetFits, Stopped, Quiet, Acquires, Mine, Idle, Live
    <2>7. SheetPasses
      BY <1>1, <2>1, <2>2 DEF SheetPasses, SheetHas
    <2> QED BY <1>1, <2>2, <2>3, <2>6, <2>7 DEF SheetInv, SheetStays
  <1>4. CASE sheet.token # 0
    <2> DEFINE b == S!Ask("suspend", sheet.token)
    <2>1. sheet' = [sheet EXCEPT !.stage = "release"] /\ asks' = asks \cup {b}
      BY <1>4 DEF S!SuspendReleases
    <2>2. /\ sheet' \in Sheet /\ sheet'.on = sheet.on /\ sheet'.gen = sheet.gen
          /\ sheet'.suspended = sheet.suspended /\ sheet'.stage = "release"
          /\ sheet'.seeking = sheet.seeking /\ sheet'.token = sheet.token /\ sheet'.status = sheet.status
      BY <1>1, <2>1 DEF Sheet
    <2>3. b \in Ask /\ b.op = "suspend" /\ b.gen = sheet.gen /\ b.token = sheet.token /\ b.answer = "none"
      BY <1>1 DEF S!Ask, Ask, Answers, Sheet
    <2> HIDE DEF b
    <2>4. SheetTypes' /\ SheetGiven' /\ AsksFit'
      BY <1>1, <2>1, <2>2, <2>3 DEF SheetInv, SheetTypes, SheetGiven, Given, AsksFit, Live, Sheet
    <2>5. MountFits'
      BY <1>1, <1>2, <2>1, <2>2, <2>3 DEF SheetInv, SheetFits, MountFits, Quiet, Acquires, Suspends, Uses, Mine, Live
    <2>6. SheetFits'
      BY <1>1, <1>2, <2>1, <2>2, <2>3, <2>5 DEF SheetInv, SheetFits, Stopped, Quiet, Acquires, Mine, Idle, Live
    <2>7. SheetPasses
      BY <1>1, <2>1, <2>2 DEF SheetPasses, SheetHas
    <2> QED BY <1>1, <2>2, <2>4, <2>6, <2>7 DEF SheetInv, SheetStays
  <1> QED BY <1>3, <1>4

LEMMA SuspendAnsweredStep ==
    ASSUME IInv, S!SuspendAnswered, UNCHANGED shell
    PROVE  SheetInv' /\ SheetPasses /\ SheetStays /\ Keeps
  <1>0. PICK a \in asks :
        /\ a.op = "suspend" /\ S!Answered(a) /\ asks' = asks \ {a}
        /\ sheet' = IF ~S!Ours(a) \/ ~sheet.on THEN sheet
                    ELSE IF a.answer = "ok"
                    THEN [sheet EXCEPT !.stage = "done", !.seeking = FALSE,
                                       !.token = IF @ = a.token THEN 0 ELSE @]
                    ELSE [sheet EXCEPT !.stage = "failed"]
    BY DEF S!SuspendAnswered
  <1>1. /\ SheetInv /\ PageInv /\ UNCHANGED <<holder, issued>> /\ Keeps /\ a \in Ask
        /\ sheet \in Sheet /\ asks \in SUBSET Ask
    BY DEF S!SuspendAnswered, S!server, IInv, SheetInv, SheetTypes, Keeps
  <1>2. CASE ~S!Ours(a) \/ ~sheet.on
    <2>1. SheetTypes' /\ SheetGiven' /\ AsksFit'
      BY <1>0, <1>1, <1>2 DEF SheetInv, SheetTypes, SheetGiven, Given, AsksFit, Live
    <2>2. SheetFits'
      BY <1>0, <1>1, <1>2 DEF SheetInv, SheetFits, MountFits, Stopped, Quiet, Acquires, Suspends, Uses, Mine, Idle, Live
    <2>3. SheetPasses
      BY <1>0, <1>1, <1>2 DEF SheetPasses, SheetHas
    <2> QED BY <1>0, <1>1, <1>2, <2>1, <2>2, <2>3 DEF SheetInv, SheetStays
  <1>3. CASE S!Ours(a) /\ sheet.on
    <2>1. /\ Suspends(a) /\ Uses(a) /\ sheet.stage = "release" /\ Quiet /\ sheet.suspended
          /\ \A x \in asks' : ~Suspends(x)
      BY <1>0, <1>1, <1>3 DEF Suspends, Uses, Mine, S!Ours, SheetInv, SheetFits, MountFits
    <2>2. shell.mutation = "handoff" /\ ~shell.orphan /\ ~Idle
      BY <1>1, <2>1 DEF PageInv, PageFits, Idle
    <2>3. a.token = sheet.token \/ (~Live(a.token) /\ ~Live(sheet.token))
      BY <1>1, <1>3, <2>1 DEF SheetInv, SheetFits, MountFits
    <2>4. PICK t \in Nat : t = IF sheet.token = a.token THEN 0 ELSE sheet.token
      BY <1>1 DEF Sheet, Ask
    <2>5. /\ sheet' \in Sheet /\ sheet'.on = sheet.on /\ sheet'.gen = sheet.gen
          /\ sheet'.suspended = sheet.suspended /\ sheet'.status = sheet.status
          /\ sheet'.stage = (IF a.answer = "ok" THEN "done" ELSE "failed")
          /\ sheet'.token = (IF a.answer = "ok" THEN t ELSE sheet.token)
      <3>1. CASE a.answer = "ok"
        <4>1. sheet' = [sheet EXCEPT !.stage = "done", !.seeking = FALSE, !.token = t]
          BY <1>0, <1>3, <2>4, <3>1
        <4> QED BY <1>1, <3>1, <4>1 DEF Sheet
      <3>2. CASE a.answer # "ok"
        <4>1. sheet' = [sheet EXCEPT !.stage = "failed"]
          BY <1>0, <1>3, <3>2
        <4> QED BY <1>1, <3>2, <4>1 DEF Sheet
      <3> QED BY <3>1, <3>2
    <2>6. a.answer = "ok" => ~Live(a.token) /\ ~Live(sheet.token) /\ ~Live(t)
      BY <1>0, <1>1, <2>3, <2>4 DEF SheetInv, AsksFit, Live
    <2>7. SheetTypes' /\ SheetGiven' /\ AsksFit'
      BY <1>0, <1>1, <2>4, <2>5 DEF SheetInv, SheetTypes, SheetGiven, Given, AsksFit, Live, IInv, ServerTypes
    <2>8. MountFits'
      BY <1>0, <1>1, <1>3, <2>1, <2>5, <2>6 DEF SheetInv, SheetFits, MountFits, Quiet, Acquires, Suspends,
        Uses, Mine, Live
    <2>9. SheetFits'
      BY <1>0, <1>1, <1>3, <2>1, <2>2, <2>5, <2>6, <2>8 DEF SheetInv, SheetFits, Stopped, Quiet, Acquires,
        Mine, Idle, Live
    <2>10. SheetPasses
      BY <1>0, <1>1, <1>3, <2>5, <2>6 DEF SheetPasses, SheetHas, Live
    <2> QED BY <1>1, <2>1, <2>5, <2>7, <2>9, <2>10 DEF SheetInv, SheetStays
  <1> QED BY <1>2, <1>3

LEMMA BeforeUnloadStep ==
    ASSUME IInv, S!BeforeUnload, UNCHANGED shell
    PROVE  SheetInv' /\ SheetPasses /\ SheetStays /\ Keeps
  <1> DEFINE b == S!Ask("drop", sheet.token)
  <1>1. /\ SheetInv /\ UNCHANGED <<sheet, holder, issued>> /\ Keeps /\ sheet \in Sheet
        /\ asks \in SUBSET Ask /\ asks' = asks \cup {b}
    BY DEF S!BeforeUnload, S!server, IInv, SheetInv, SheetTypes, Keeps
  <1>2. b \in Ask /\ b.op = "drop" /\ b.gen = sheet.gen /\ b.token = sheet.token /\ b.answer = "none"
    BY <1>1 DEF S!Ask, Ask, Answers, Sheet
  <1> HIDE DEF b
  <1>3. SheetTypes' /\ SheetGiven' /\ AsksFit'
    BY <1>1, <1>2 DEF SheetInv, SheetTypes, SheetGiven, Given, AsksFit, Live, Sheet
  <1>4. SheetFits'
    BY <1>1, <1>2 DEF SheetInv, SheetFits, MountFits, Stopped, Quiet, Acquires, Suspends, Uses, Mine, Idle, Live
  <1> QED BY <1>1, <1>3, <1>4 DEF SheetInv, SheetStays, SheetPasses, SheetHas

(* Every step of the sheet keeps its invariant.                                *)
LEMMA SheetStep ==
    ASSUME IInv, ~LateAnswers, S!Next, UNCHANGED shell
    PROVE  SheetInv' /\ SheetPasses /\ SheetStays /\ (Grants \/ Keeps)
  BY ServeAsk, FailAsk, ReacquireStep, AcquireStep, HeartbeatStep, HeartbeatAnsweredStep, EditStep,
     WriteStep, WriteAnsweredStep, SuspendReleasesStep, SuspendAnsweredStep, BeforeUnloadStep
  DEF S!Next

-----------------------------------------------------------------------------
(* The drawer.                                                                 *)

DrawerPasses == \/ holder' = 0 \/ DrawerHas(holder)'
                \/ holder' = holder /\ (holder \in abandoned' \/ ~DrawerHas(holder))
DrawerStays == UNCHANGED shell /\ (ctl.phase = "closed" => ctl'.phase = "closed")

(* A call is answered: nothing else of it changes, but for a token granted.    *)
LEMMA CallAnswering ==
    ASSUME ServerTypes, DrawerInv, NEW c \in calls, NEW d \in Call, c.answer = "none",
           UNCHANGED <<ctl, released, parting, chain>>, calls' = (calls \ {c}) \cup {d},
           d.op = c.op, d.gen = c.gen, NoneRevives, GivenStays,
           \/ d.token = c.token /\ (c.op = "acquire" => d.answer # "ok")
           \/ c.op = "acquire" /\ d.answer = "ok" /\ d.token = issued' /\ issued' = issued + 1,
           d.op \in P!Releases /\ d.answer = "ok" => ~Live(d.token)',
           d.op \in {"beat", "patch"} /\ d.answer = "refused" => ~Live(d.token)'
    PROVE  DrawerInv'
  <1>1. DrawerTypes' /\ DrawerGiven'
    BY DEF DrawerInv, DrawerTypes, DrawerGiven, Given, GivenStays, Call, Controller, Session
  <1>2. \A x \in calls' : x = d \/ (x \in calls /\ x # c)
    OBVIOUS
  <1>3. c.op = "acquire" => c.token = 0
    BY DEF DrawerInv, CallsFit
  <1>4. \A x \in calls \ {c} : x.op = "acquire" /\ x.answer = "ok" => Fresh(x)'
    <2> SUFFICES ASSUME NEW x \in calls \ {c}, x.op = "acquire", x.answer = "ok" PROVE Fresh(x)'
      OBVIOUS
    <2>1. Fresh(x) /\ x.token # 0 /\ x.token <= issued /\ x.token \in Nat /\ issued \in Nat
      BY DEF DrawerInv, DrawerTypes, DrawerGiven, Given, CallsFit, Call, ServerTypes
    <2>2. d.token # x.token
      BY <2>1 DEF Fresh
    <2> QED BY <2>1, <2>2 DEF Fresh
  <1>5. d.op = "acquire" /\ d.answer = "ok" => d.token # 0 /\ Fresh(d)'
    <2> SUFFICES ASSUME d.op = "acquire", d.answer = "ok" PROVE d.token # 0 /\ Fresh(d)'
      OBVIOUS
    <2>1. d.token = issued + 1 /\ issued \in Nat
      BY DEF ServerTypes
    <2> QED BY <2>1 DEF DrawerInv, DrawerTypes, DrawerGiven, Given, Fresh, Call, Controller, Session
  <1>6. CallsFit'
    <2> SUFFICES ASSUME NEW x \in calls'
                 PROVE  /\ x.gen <= ctl.gen
                        /\ x.op # "acquire" => x.token # 0
                        /\ x.op = "acquire" /\ x.answer = "ok" => x.token # 0 /\ Fresh(x)'
                        /\ x.op = "acquire" /\ x.answer # "ok" => x.token = 0
                        /\ x.op \in {"beat", "patch"} /\ x.answer = "refused" => ~Live(x.token)'
                        /\ x.op \in P!Releases /\ x.answer = "ok" => ~Live(x.token)'
      BY DEF CallsFit
    <2>1. CASE x = d
      BY <1>3, <1>5, <2>1 DEF DrawerInv, CallsFit
    <2>2. CASE x \in calls \ {c}
      BY <1>4, <2>2 DEF DrawerInv, DrawerTypes, DrawerGiven, Given, CallsFit, NoneRevives, Call
    <2> QED BY <1>2, <2>1, <2>2
  <1>7. ControllerFits'
    BY <1>2, <1>3 DEF DrawerInv, ControllerFits, Owned
  <1>8. SessionFits'
    <2>1. \A t \in Nat : t <= issued /\ Live(t)' => Live(t)
      BY DEF NoneRevives
    <2>2. ctl.session \in Nat /\ ctl.session <= issued /\ (Live(ctl.session)' => Live(ctl.session))
      BY <2>1 DEF DrawerInv, DrawerTypes, DrawerGiven, Given, Controller
    <2>3. \A x \in calls : x.token \in Nat /\ x.token <= issued /\ (Live(x.token)' => Live(x.token))
      BY <2>1 DEF DrawerInv, DrawerTypes, DrawerGiven, Given, Call
    <2>4. \A x \in parting : x.token \in Nat /\ x.token <= issued /\ (Live(x.token)' => Live(x.token))
      BY <2>1 DEF DrawerInv, DrawerTypes, DrawerGiven, Given, Session
    <2>5. \A x \in calls' : \E y \in calls : /\ x.op = y.op /\ x.gen = y.gen
                                             /\ x.op # "acquire" => x.token = y.token
                                             /\ (x # d => y = x) /\ (x = d => y = c)
      BY <1>2
    <2> QED BY <2>2, <2>3, <2>4, <2>5 DEF DrawerInv, SessionFits, Owned
  <1> QED BY <1>1, <1>6, <1>7, <1>8 DEF DrawerInv

(* What is given up with nothing else changed only leaves less to go wrong.    *)
LEMMA Shrinking ==
    ASSUME IInv, ctl' = ctl, calls' \subseteq calls, released' \subseteq released,
           parting' \subseteq parting, chain' \in Session, UNCHANGED <<holder, issued>>
    PROVE  DrawerInv'
  <1>1. DrawerInv
    BY DEF IInv
  <1>2. DrawerTypes' /\ DrawerGiven'
    BY <1>1 DEF DrawerInv, DrawerTypes, DrawerGiven, Given
  <1>3. CallsFit'
    BY <1>1 DEF DrawerInv, CallsFit, Fresh, P!Releases, Live
  <1>4. ControllerFits'
    BY <1>1 DEF DrawerInv, ControllerFits, Owned
  <1>5. SessionFits'
    BY <1>1 DEF DrawerInv, SessionFits, Owned, Live
  <1> QED BY <1>2, <1>3, <1>4, <1>5 DEF DrawerInv

LEMMA ServeCall ==
    ASSUME IInv, P!Serve, UNCHANGED shell
    PROVE  DrawerInv' /\ DrawerPasses /\ DrawerStays /\ (Grants \/ Keeps)
  <1>0. PICK c \in calls :
        /\ ~P!Answered(c)
        /\ \/ /\ c.op = "acquire" /\ holder = 0 /\ drafting
              /\ issued' = issued + 1 /\ holder' = issued + 1
              /\ calls' = (calls \ {c}) \cup {[c EXCEPT !.token = issued + 1, !.answer = "ok"]}
           \/ /\ c.op = "acquire" /\ (holder # 0 \/ ~drafting)
              /\ P!Reply(c, "refused") /\ UNCHANGED <<holder, issued>>
           \/ /\ c.op \in {"beat", "patch"}
              /\ P!Reply(c, IF holder = c.token THEN "ok" ELSE "refused") /\ UNCHANGED <<holder, issued>>
           \/ c.op \in {"load", "refresh"} /\ P!Reply(c, "ok") /\ UNCHANGED <<holder, issued>>
           \/ /\ c.op \in P!Releases
              /\ holder' = (IF holder = c.token THEN 0 ELSE holder)
              /\ P!Reply(c, "ok") /\ UNCHANGED issued
    BY DEF P!Serve
  <1>1. /\ ServerTypes /\ DrawerInv /\ c \in Call /\ c.answer = "none" /\ issued \in Nat
        /\ UNCHANGED <<ctl, released, chain, parting, abandoned>> /\ DrawerStays
    BY <1>0 DEF P!Serve, IInv, DrawerInv, DrawerTypes, P!Answered, ServerTypes, DrawerStays
  <1>2. CASE /\ c.op = "acquire" /\ holder = 0 /\ drafting
             /\ issued' = issued + 1 /\ holder' = issued + 1
             /\ calls' = (calls \ {c}) \cup {[c EXCEPT !.token = issued + 1, !.answer = "ok"]}
    <2>1. PICK t \in Nat : t = issued + 1
      BY <1>1
    <2> DEFINE d == [c EXCEPT !.token = t, !.answer = "ok"]
    <2>2. d \in Call /\ d.op = c.op /\ d.gen = c.gen /\ d.token = t /\ d.answer = "ok"
      BY <1>1 DEF Call, Answers
    <2>3. calls' = (calls \ {c}) \cup {d} /\ Grants
      BY <1>2, <2>1 DEF Grants
    <2> HIDE DEF d
    <2>4. NoneRevives /\ GivenStays
      BY <1>1, <2>3, Revival
    <2>5. d.op \notin P!Releases \cup {"beat", "patch"} /\ d.token = issued' /\ issued' = issued + 1
      BY <1>2, <2>1, <2>2, <2>3 DEF P!Releases, Grants
    <2>6. DrawerInv'
      BY <1>0, <1>1, <1>2, <2>2, <2>3, <2>4, <2>5, CallAnswering
    <2>7. DrawerHas(holder)'
      BY <1>2, <2>1, <2>2, <2>3 DEF DrawerHas, Grants
    <2> QED BY <1>1, <2>3, <2>6, <2>7 DEF DrawerPasses
  <1>3. ASSUME NEW answer \in Answers, P!Reply(c, answer), Keeps,
               c.op = "acquire" => answer # "ok",
               c.op \in P!Releases => holder' # c.token \/ holder' = 0,
               c.op \in {"beat", "patch"} /\ answer = "refused" => holder' # c.token
        PROVE  DrawerInv' /\ DrawerPasses
    <2> DEFINE d == [c EXCEPT !.answer = answer]
    <2>1. d \in Call /\ d.op = c.op /\ d.gen = c.gen /\ d.token = c.token /\ d.answer = answer
      BY <1>1 DEF Call
    <2>2. calls' = (calls \ {c}) \cup {d}
      BY <1>3 DEF P!Reply
    <2> HIDE DEF d
    <2>3. NoneRevives /\ GivenStays
      BY <1>1, <1>3, Revival
    <2>4. /\ d.op \in P!Releases /\ d.answer = "ok" => ~Live(d.token)'
          /\ d.op \in {"beat", "patch"} /\ d.answer = "refused" => ~Live(d.token)'
      BY <1>3, <2>1 DEF Live
    <2>5. DrawerInv'
      BY <1>0, <1>1, <1>3, <2>1, <2>2, <2>3, <2>4, CallAnswering
    <2>6. holder' = holder /\ DrawerHas(holder) => DrawerHas(holder)'
      BY <1>1, <2>1, <2>2 DEF DrawerHas
    <2> QED BY <1>3, <2>5, <2>6 DEF DrawerPasses, Keeps
  <1>4. "ok" \in Answers /\ "refused" \in Answers
    BY DEF Answers
  <1>5. CASE c.op = "acquire" /\ P!Reply(c, "refused") /\ UNCHANGED <<holder, issued>>
    BY <1>1, <1>3, <1>4, <1>5 DEF Keeps, P!Releases
  <1>6. CASE /\ c.op \in {"beat", "patch"}
             /\ P!Reply(c, IF holder = c.token THEN "ok" ELSE "refused") /\ UNCHANGED <<holder, issued>>
    <2> DEFINE answer == IF holder = c.token THEN "ok" ELSE "refused"
    <2>1. answer \in Answers /\ (answer = "refused" => holder # c.token)
      BY <1>4
    <2>2. P!Reply(c, answer)
      BY <1>6
    <2> HIDE DEF answer
    <2> QED BY <1>1, <1>3, <1>6, <2>1, <2>2 DEF Keeps, P!Releases
  <1>7. CASE c.op \in {"load", "refresh"} /\ P!Reply(c, "ok") /\ UNCHANGED <<holder, issued>>
    BY <1>1, <1>3, <1>4, <1>7 DEF Keeps, P!Releases
  <1>8. CASE /\ c.op \in P!Releases
             /\ holder' = (IF holder = c.token THEN 0 ELSE holder)
             /\ P!Reply(c, "ok") /\ UNCHANGED issued
    BY <1>1, <1>3, <1>4, <1>8 DEF Keeps, P!Releases
  <1> QED BY <1>0, <1>1, <1>2, <1>5, <1>6, <1>7, <1>8 DEF Keeps

LEMMA FailCall ==
    ASSUME IInv, P!Fail, UNCHANGED shell
    PROVE  DrawerInv' /\ DrawerPasses /\ DrawerStays /\ Keeps
  <1>0. PICK c \in calls : ~P!Answered(c) /\ P!Reply(c, "failed")
    BY DEF P!Fail
  <1>1. /\ ServerTypes /\ DrawerInv /\ c \in Call /\ c.answer = "none"
        /\ UNCHANGED <<ctl, released, chain, parting, holder, issued>> /\ DrawerStays /\ Keeps
    BY <1>0 DEF P!Fail, P!server, IInv, DrawerInv, DrawerTypes, P!Answered, DrawerStays, Keeps
  <1> DEFINE d == [c EXCEPT !.answer = "failed"]
  <1>2. d \in Call /\ d.op = c.op /\ d.gen = c.gen /\ d.token = c.token /\ d.answer = "failed"
    BY <1>1 DEF Call, Answers
  <1>3. calls' = (calls \ {c}) \cup {d}
    BY <1>0 DEF P!Reply
  <1> HIDE DEF d
  <1>4. NoneRevives /\ GivenStays
    BY <1>1, Revival
  <1>5. DrawerInv'
    BY <1>0, <1>1, <1>2, <1>3, <1>4, CallAnswering
  <1>6. DrawerPasses
    BY <1>1, <1>2, <1>3 DEF DrawerPasses, DrawerHas
  <1> QED BY <1>1, <1>5, <1>6

LEMMA AcquireAnsweredStep ==
    ASSUME IInv, P!AcquireAnswered, UNCHANGED shell
    PROVE  DrawerInv' /\ DrawerPasses /\ DrawerStays /\ Keeps
  <1>0. PICK c \in calls :
        /\ c.op = "acquire" /\ P!Answered(c)
        /\ IF ctl.gen # c.gen \/ ctl.phase # "acquiring"
           THEN /\ UNCHANGED ctl
                /\ IF c.answer = "ok"
                   THEN calls' = (calls \ {c}) \cup {P!Call("drop", c.gen, c.token)} /\ P!Sent(c.token)
                   ELSE calls' = calls \ {c} /\ UNCHANGED released
           ELSE /\ UNCHANGED released
                /\ IF c.answer = "ok"
                   THEN /\ ctl' = [ctl EXCEPT !.phase = "loading-profile", !.token = c.token,
                                     !.session = c.token, !.sessionGen = c.gen, !.beating = TRUE]
                        /\ calls' = (calls \ {c}) \cup {P!Call("load", c.gen, c.token)}
                   ELSE ctl' = [ctl EXCEPT !.phase = "conflict"] /\ calls' = calls \ {c}
    BY DEF P!AcquireAnswered
  <1>1. /\ DrawerInv /\ c \in Call /\ ctl \in Controller /\ UNCHANGED <<chain, parting, holder, issued>>
        /\ Keeps /\ calls \in SUBSET Call /\ c.token \in Nat /\ c.gen \in Nat
    BY DEF P!AcquireAnswered, P!server, IInv, DrawerInv, DrawerTypes, Keeps, Call
  <1>2. CASE c.answer # "ok"
    <2>1. c.token = 0 /\ calls' = calls \ {c} /\ UNCHANGED released
      BY <1>0, <1>1, <1>2 DEF DrawerInv, CallsFit
    <2>2. DrawerPasses /\ DrawerStays
      BY <1>0, <1>1, <1>2, <2>1 DEF DrawerPasses, DrawerStays, DrawerHas, Controller
    <2>3. CASE ctl.gen # c.gen \/ ctl.phase # "acquiring"
      BY <1>0, <1>1, <2>1, <2>2, <2>3, Shrinking DEF DrawerInv, DrawerTypes
    <2>4. CASE ctl.gen = c.gen /\ ctl.phase = "acquiring"
      <3>1. ctl' = [ctl EXCEPT !.phase = "conflict"]
        BY <1>0, <1>2, <2>4
      <3>2. /\ ctl' \in Controller /\ ctl'.phase = "conflict" /\ ctl'.gen = ctl.gen /\ ctl'.token = ctl.token
            /\ ctl'.session = ctl.session /\ ctl'.draft = ctl.draft /\ ctl'.under = ctl.under
        BY <1>1, <3>1 DEF Controller
      <3>3. DrawerTypes' /\ DrawerGiven'
        BY <1>1, <2>1, <3>2 DEF DrawerInv, DrawerTypes, DrawerGiven, Given
      <3>4. CallsFit'
        BY <1>1, <2>1, <3>2 DEF DrawerInv, CallsFit, Fresh, P!Releases, Live
      <3>5. ControllerFits'
        BY <1>1, <2>1, <2>4, <3>2 DEF DrawerInv, ControllerFits, Owned
      <3>6. SessionFits'
        BY <1>0, <1>1, <2>1, <2>4, <3>2 DEF DrawerInv, SessionFits, Owned, Live
      <3> QED BY <1>1, <2>2, <3>3, <3>4, <3>5, <3>6 DEF DrawerInv
    <2> QED BY <2>3, <2>4
  <1>3. CASE c.answer = "ok" /\ (ctl.gen # c.gen \/ ctl.phase # "acquiring")
    <2> DEFINE d == P!Call("drop", c.gen, c.token)
    <2>1. d \in Call /\ d.op = "drop" /\ d.gen = c.gen /\ d.token = c.token /\ d.answer = "none"
      BY <1>1 DEF P!Call, Call, P!Releases, Answers
    <2>2. calls' = (calls \ {c}) \cup {d} /\ released' = released \cup {c.token} /\ UNCHANGED ctl
      BY <1>0, <1>3 DEF P!Sent
    <2> HIDE DEF d
    <2>3. Fresh(c) /\ c.token # 0
      BY <1>0, <1>1, <1>3 DEF DrawerInv, CallsFit
    <2>4. DrawerTypes' /\ DrawerGiven'
      BY <1>1, <2>1, <2>2 DEF DrawerInv, DrawerTypes, DrawerGiven, Given
    <2>5. CallsFit'
      BY <1>0, <1>1, <2>1, <2>2, <2>3 DEF DrawerInv, CallsFit, Fresh, P!Releases, Live
    <2>6. ControllerFits'
      BY <1>1, <2>1, <2>2 DEF DrawerInv, ControllerFits, Owned
    <2>7. SessionFits'
      BY <1>1, <2>1, <2>2, <2>3 DEF DrawerInv, SessionFits, Owned, Live, Fresh
    <2>8. DrawerPasses /\ DrawerStays
      BY <1>1, <2>1, <2>2 DEF DrawerPasses, DrawerStays, DrawerHas, P!Releases
    <2> QED BY <1>1, <2>4, <2>5, <2>6, <2>7, <2>8 DEF DrawerInv
  <1>4. CASE c.answer = "ok" /\ ctl.gen = c.gen /\ ctl.phase = "acquiring"
    <2> DEFINE d == P!Call("load", c.gen, c.token)
    <2>1. d \in Call /\ d.op = "load" /\ d.gen = c.gen /\ d.token = c.token /\ d.answer = "none"
      BY <1>1 DEF P!Call, Call, Answers
    <2>2. /\ calls' = (calls \ {c}) \cup {d} /\ UNCHANGED released
          /\ ctl' = [ctl EXCEPT !.phase = "loading-profile", !.token = c.token,
                                !.session = c.token, !.sessionGen = c.gen, !.beating = TRUE]
      BY <1>0, <1>4
    <2> HIDE DEF d
    <2>3. /\ ctl' \in Controller /\ ctl'.phase = "loading-profile" /\ ctl'.gen = ctl.gen
          /\ ctl'.token = c.token /\ ctl'.session = c.token /\ ctl'.draft = ctl.draft /\ ctl'.under = ctl.under
      BY <1>1, <2>2 DEF Controller
    <2>4. Fresh(c) /\ c.token # 0
      BY <1>0, <1>1, <1>4 DEF DrawerInv, CallsFit
    <2>5. ctl.draft = "none" /\ ctl.token = 0 /\ ~Live(ctl.session)
      BY <1>0, <1>1, <1>4 DEF DrawerInv, ControllerFits, Owned, SessionFits
    <2>6. DrawerTypes' /\ DrawerGiven'
      BY <1>1, <2>1, <2>2, <2>3 DEF DrawerInv, DrawerTypes, DrawerGiven, Given
    <2>7. CallsFit'
      BY <1>0, <1>1, <2>1, <2>2, <2>3, <2>4 DEF DrawerInv, CallsFit, Fresh, P!Releases, Live
    <2>8. ControllerFits'
      BY <1>1, <2>1, <2>2, <2>3, <2>4, <2>5 DEF DrawerInv, ControllerFits, Owned, Fresh
    <2>9. SessionFits'
      BY <1>1, <1>4, <2>1, <2>2, <2>3, <2>4, <2>5 DEF DrawerInv, SessionFits, Owned, Live, Fresh
    <2>10. DrawerPasses /\ DrawerStays
      BY <1>1, <1>4, <2>2, <2>3, <2>5 DEF DrawerPasses, DrawerStays, DrawerHas, Live
    <2> QED BY <1>1, <2>6, <2>7, <2>8, <2>9, <2>10 DEF DrawerInv
  <1> QED BY <1>2, <1>3, <1>4

LEMMA LoadAnsweredStep ==
    ASSUME IInv, P!LoadAnswered, UNCHANGED shell
    PROVE  DrawerInv' /\ DrawerPasses /\ DrawerStays /\ Keeps
  <1>0. PICK c \in calls :
        /\ c.op = "load" /\ P!Answered(c) /\ calls' = calls \ {c}
        /\ ctl' = CASE ~P!Owns(c) -> ctl
                    [] P!Owns(c) /\ c.answer = "ok" ->
                         [ctl EXCEPT !.phase = "editable", !.draft = "clean", !.under = c.token]
                    [] OTHER -> [ctl EXCEPT !.phase = "load-error"]
    BY DEF P!LoadAnswered
  <1>1. /\ DrawerInv /\ c \in Call /\ ctl \in Controller
        /\ UNCHANGED <<released, chain, parting, holder, issued>> /\ Keeps /\ c.token \in Nat
    BY DEF P!LoadAnswered, P!server, IInv, DrawerInv, DrawerTypes, Keeps, Call
  <1>2. P!Owns(c) <=> Owned(c)
    BY DEF P!Owns, Owned
  <1>3. CASE ~Owned(c)
    BY <1>0, <1>1, <1>2, <1>3, Shrinking
    DEF DrawerPasses, DrawerStays, DrawerHas, DrawerInv, DrawerTypes, P!Releases
  <1>4. CASE Owned(c)
    <2>1. ctl.token = c.token /\ c.token # 0 /\ ctl.phase \notin {"acquiring", "closed", "conflict"}
      BY <1>0, <1>1, <1>4 DEF DrawerInv, CallsFit, ControllerFits, Owned
    <2>2. /\ ctl' \in Controller /\ ctl'.gen = ctl.gen /\ ctl'.token = ctl.token /\ ctl'.session = ctl.session
          /\ \/ ctl'.phase = "editable" /\ ctl'.draft = "clean" /\ ctl'.under = ctl.token
             \/ ctl'.phase = "load-error" /\ ctl'.draft = ctl.draft /\ ctl'.under = ctl.under
      <3>1. CASE c.answer = "ok"
        <4>1. ctl' = [ctl EXCEPT !.phase = "editable", !.draft = "clean", !.under = c.token]
          BY <1>0, <1>2, <1>4, <3>1
        <4> QED BY <1>1, <2>1, <4>1 DEF Controller
      <3>2. CASE c.answer # "ok"
        <4>1. ctl' = [ctl EXCEPT !.phase = "load-error"]
          BY <1>0, <1>2, <1>4, <3>2
        <4> QED BY <1>1, <4>1 DEF Controller
      <3> QED BY <3>1, <3>2
    <2>3. DrawerTypes' /\ DrawerGiven'
      BY <1>0, <1>1, <2>2 DEF DrawerInv, DrawerTypes, DrawerGiven, Given
    <2>4. CallsFit'
      BY <1>0, <1>1, <2>2 DEF DrawerInv, CallsFit, Fresh, P!Releases, Live
    <2>5. ControllerFits'
      BY <1>0, <1>1, <2>1, <2>2 DEF DrawerInv, ControllerFits, Owned
    <2>6. SessionFits'
      BY <1>0, <1>1, <1>4, <2>1, <2>2 DEF DrawerInv, SessionFits, Owned, Live
    <2>7. DrawerPasses /\ DrawerStays
      BY <1>0, <1>1, <2>1, <2>2 DEF DrawerPasses, DrawerStays, DrawerHas, P!Releases
    <2> QED BY <1>1, <2>3, <2>4, <2>5, <2>6, <2>7 DEF DrawerInv
  <1> QED BY <1>3, <1>4

(* A call under the token the controller has is sent.                          *)
LEMMA CallStep ==
    ASSUME IInv, NEW op \in {"load", "beat", "patch", "drop"}, ctl.token # 0, ctl' \in Controller,
           calls' = calls \cup {P!Call(op, ctl.gen, ctl.token)},
           UNCHANGED <<released, parting, holder, issued>>, chain' \in Session,
           ctl'.gen = ctl.gen, ctl'.token = ctl.token, ctl'.session = ctl.session,
           ctl'.draft = ctl.draft, ctl'.under = ctl.under,
           ctl'.phase # ctl.phase => /\ ctl.phase \in {"load-error", "editable"}
                                     /\ ctl'.phase \in {"loading-profile", "saving"},
           ctl'.phase = "saving" => ctl.draft # "none",
           op = "load" => ctl.phase = "load-error" /\ ctl'.phase = "loading-profile",
           op = "patch" => ctl.draft # "none"
    PROVE  DrawerInv' /\ DrawerPasses
  <1> DEFINE d == P!Call(op, ctl.gen, ctl.token)
  <1>1. DrawerInv /\ ctl \in Controller
    BY DEF IInv, DrawerInv, DrawerTypes
  <1>2. d \in Call /\ d.op = op /\ d.gen = ctl.gen /\ d.token = ctl.token /\ d.answer = "none"
    BY <1>1 DEF P!Call, Call, Answers, Controller, P!Releases
  <1>3. calls' = calls \cup {d}
    OBVIOUS
  <1> HIDE DEF d
  <1>4. ctl.token = ctl.session /\ ctl.phase \notin {"acquiring", "closed", "conflict"}
    BY <1>1 DEF DrawerInv, ControllerFits
  <1>5. DrawerTypes' /\ DrawerGiven'
    BY <1>1, <1>2, <1>3 DEF DrawerInv, DrawerTypes, DrawerGiven, Given
  <1>6. \A x \in calls : x.op = "acquire" /\ x.answer = "ok" => Fresh(x)'
    <2> SUFFICES ASSUME NEW x \in calls, x.op = "acquire", x.answer = "ok" PROVE Fresh(x)'
      OBVIOUS
    <2>1. Fresh(x)
      BY <1>1 DEF DrawerInv, CallsFit
    <2>2. d.token # x.token
      BY <1>2, <1>4, <2>1 DEF Fresh
    <2> QED BY <1>3, <2>1, <2>2 DEF Fresh
  <1>7. CallsFit'
    BY <1>1, <1>2, <1>3, <1>6 DEF DrawerInv, CallsFit, Live, Controller, P!Releases
  <1>8. ControllerFits'
    BY <1>1, <1>2, <1>3, <1>4 DEF DrawerInv, ControllerFits, Owned
  <1>9. SessionFits'
    BY <1>1, <1>2, <1>3, <1>4 DEF DrawerInv, SessionFits, Owned, Live
  <1>10. DrawerPasses
    BY <1>3 DEF DrawerPasses, DrawerHas
  <1> QED BY <1>5, <1>7, <1>8, <1>9, <1>10 DEF DrawerInv

LEMMA SendStep ==
    ASSUME IInv, P!RetryLoad \/ P!Heartbeat \/ P!Save \/ P!Unload, UNCHANGED shell
    PROVE  DrawerInv' /\ DrawerPasses /\ DrawerStays /\ Keeps
  <1>1. /\ DrawerInv /\ ctl \in Controller /\ chain \in Session
        /\ UNCHANGED <<released, parting, holder, issued>> /\ Keeps
    BY DEF P!RetryLoad, P!Heartbeat, P!Save, P!Unload, P!server, IInv, DrawerInv, DrawerTypes, Keeps
  <1>2. CASE P!RetryLoad
    <2>1. /\ ctl.phase = "load-error" /\ ctl.token # 0 /\ ctl' = [ctl EXCEPT !.phase = "loading-profile"]
          /\ calls' = calls \cup {P!Call("load", ctl.gen, ctl.token)} /\ UNCHANGED chain
      BY <1>2 DEF P!RetryLoad, P!RetryOffered
    <2>2. /\ ctl' \in Controller /\ ctl'.gen = ctl.gen /\ ctl'.token = ctl.token
          /\ ctl'.session = ctl.session /\ ctl'.draft = ctl.draft /\ ctl'.under = ctl.under
          /\ ctl'.phase = "loading-profile"
      BY <1>1, <2>1 DEF Controller
    <2> QED BY <1>1, <2>1, <2>2, CallStep DEF DrawerStays
  <1>3. CASE P!Heartbeat
    <2>1. /\ ctl.token # 0 /\ UNCHANGED <<ctl, chain>>
          /\ calls' = calls \cup {P!Call("beat", ctl.gen, ctl.token)}
      BY <1>3 DEF P!Heartbeat
    <2>2. ctl.phase = "saving" => ctl.draft # "none"
      BY <1>1 DEF DrawerInv, ControllerFits
    <2> QED BY <1>1, <2>1, <2>2, CallStep DEF DrawerStays
  <1>4. CASE P!Save
    <2>1. /\ ctl.phase = "editable" /\ ctl.draft = "dirty" /\ ctl' = [ctl EXCEPT !.phase = "saving"]
          /\ calls' = calls \cup {P!Call("patch", ctl.gen, ctl.token)}
          /\ chain' = [gen |-> ctl.gen, token |-> ctl.token]
      BY <1>4 DEF P!Save, P!SaveOffered, P!ControlsEnabled, P!HasPayload
    <2>2. /\ ctl' \in Controller /\ ctl'.gen = ctl.gen /\ ctl'.token = ctl.token
          /\ ctl'.session = ctl.session /\ ctl'.draft = ctl.draft /\ ctl'.under = ctl.under
          /\ ctl'.phase = "saving"
      BY <1>1, <2>1 DEF Controller
    <2>3. ctl.token # 0 /\ chain' \in Session
      BY <1>1, <2>1 DEF DrawerInv, ControllerFits, Session, Controller
    <2> QED BY <1>1, <2>1, <2>2, <2>3, CallStep DEF DrawerStays
  <1>5. CASE P!Unload
    <2>1. /\ ctl.session # 0 /\ ctl.token = ctl.session /\ UNCHANGED <<ctl, chain>>
          /\ calls' = calls \cup {P!Call("drop", ctl.gen, ctl.token)}
      BY <1>5 DEF P!Unload
    <2>2. ctl.phase = "saving" => ctl.draft # "none"
      BY <1>1 DEF DrawerInv, ControllerFits
    <2> QED BY <1>1, <2>1, <2>2, CallStep DEF DrawerStays
  <1> QED BY <1>2, <1>3, <1>4, <1>5


(* The drawer has lost its lock: it keeps the token, under a new generation.   *)
LEMMA LockLost ==
    ASSUME ctl \in Controller, ctl' = P!LoseLock(ctl)
    PROVE  /\ ctl' \in Controller /\ ctl'.phase = "lock-lost" /\ ctl'.gen = ctl.gen + 1
           /\ ctl'.token = ctl.token /\ ctl'.session = ctl.session
           /\ ctl'.draft = ctl.draft /\ ctl'.under = ctl.under
  <1>1. PICK g \in Nat : g = ctl.gen + 1
    BY DEF Controller
  <1>2. PICK r \in BOOLEAN : r = (ctl.recovery \/ ctl.draft # "none")
    OBVIOUS
  <1>3. ctl' = [ctl EXCEPT !.phase = "lock-lost", !.gen = g, !.beating = FALSE, !.recovery = r]
    BY <1>1, <1>2 DEF P!LoseLock, P!Fresh
  <1>4. /\ ctl' \in Controller /\ ctl'.phase = "lock-lost" /\ ctl'.gen = g
        /\ ctl'.token = ctl.token /\ ctl'.session = ctl.session
        /\ ctl'.draft = ctl.draft /\ ctl'.under = ctl.under
    BY <1>3 DEF Controller
  <1> QED BY <1>1, <1>4

LEMMA BeatAnsweredStep ==
    ASSUME IInv, P!HeartbeatAnswered, UNCHANGED shell
    PROVE  DrawerInv' /\ DrawerPasses /\ DrawerStays /\ Keeps
  <1>0. PICK c \in calls :
        /\ c.op = "beat" /\ P!Answered(c) /\ calls' = calls \ {c}
        /\ ctl' = IF P!Owns(c) /\ c.answer = "refused" /\ ctl.phase # "releasing"
                  THEN P!LoseLock(ctl) ELSE ctl
    BY DEF P!HeartbeatAnswered
  <1>1. /\ DrawerInv /\ ctl \in Controller
        /\ UNCHANGED <<released, chain, parting, holder, issued>> /\ Keeps
    BY DEF P!HeartbeatAnswered, P!server, IInv, DrawerInv, DrawerTypes, Keeps
  <1>2. \A t : DrawerHas(t) /\ ctl'.session = ctl.session => DrawerHas(t)'
    BY <1>0, <1>1 DEF DrawerHas, P!Releases
  <1>3. CASE ctl' = ctl
    BY <1>0, <1>1, <1>2, <1>3, Shrinking DEF DrawerInv, DrawerTypes, DrawerPasses, DrawerStays
  <1>4. CASE ctl' = P!LoseLock(ctl) /\ P!Owns(c) /\ c.answer = "refused" /\ ctl.phase # "releasing"
    <2>1. /\ ctl' \in Controller /\ ctl'.phase = "lock-lost" /\ ctl'.gen = ctl.gen + 1
          /\ ctl'.token = ctl.token /\ ctl'.session = ctl.session
          /\ ctl'.draft = ctl.draft /\ ctl'.under = ctl.under
      BY <1>1, <1>4, LockLost
    <2>2. /\ Owned(c) /\ c.token # 0 /\ ctl.session = ctl.token /\ ~Live(ctl.session)
          /\ ctl.phase \notin {"acquiring", "closed"}
      BY <1>0, <1>1, <1>4 DEF P!Owns, Owned, DrawerInv, CallsFit, ControllerFits
    <2>3. \A x \in calls : x.gen # ctl'.gen /\ x.gen <= ctl'.gen
      <3> SUFFICES ASSUME NEW x \in calls PROVE x.gen # ctl'.gen /\ x.gen <= ctl'.gen
        OBVIOUS
      <3>1. x.gen \in Nat /\ x.gen <= ctl.gen /\ ctl.gen \in Nat
        BY <1>1 DEF DrawerInv, DrawerTypes, CallsFit, Call, Controller
      <3> QED BY <2>1, <3>1
    <2>4. DrawerTypes' /\ DrawerGiven'
      BY <1>0, <1>1, <2>1 DEF DrawerInv, DrawerTypes, DrawerGiven, Given
    <2>5. CallsFit'
      BY <1>0, <1>1, <2>1, <2>3 DEF DrawerInv, CallsFit, Fresh, P!Releases, Live
    <2>6. ControllerFits'
      BY <1>0, <1>1, <2>1, <2>2, <2>3 DEF DrawerInv, ControllerFits, Owned
    <2>7. SessionFits'
      BY <1>0, <1>1, <1>4, <2>1, <2>2, <2>3 DEF DrawerInv, SessionFits, Owned, Live
    <2> QED BY <1>1, <1>2, <2>1, <2>2, <2>4, <2>5, <2>6, <2>7 DEF DrawerInv, DrawerPasses, DrawerStays
  <1> QED BY <1>0, <1>3, <1>4

LEMMA UpdateDraftStep ==
    ASSUME IInv, P!UpdateDraft, UNCHANGED shell
    PROVE  DrawerInv' /\ DrawerPasses /\ DrawerStays /\ Keeps
  <1>0. /\ ctl.phase = "editable" /\ ctl.draft # "none"
        /\ \E d \in {"clean", "dirty", "invalid"} \ {ctl.draft} : ctl' = [ctl EXCEPT !.draft = d]
        /\ UNCHANGED <<calls, released, chain, parting, holder, issued>> /\ Keeps
    BY DEF P!UpdateDraft, P!ControlsEnabled, P!FormVisible, P!server, Keeps
  <1>1. DrawerInv /\ ctl \in Controller
    BY DEF IInv, DrawerInv, DrawerTypes
  <1>2. /\ ctl' \in Controller /\ ctl'.phase = "editable" /\ ctl'.gen = ctl.gen
        /\ ctl'.token = ctl.token /\ ctl'.session = ctl.session
        /\ ctl'.draft # "none" /\ ctl'.under = ctl.under
    BY <1>0, <1>1 DEF Controller
  <1>3. DrawerTypes' /\ DrawerGiven'
    BY <1>0, <1>1, <1>2 DEF DrawerInv, DrawerTypes, DrawerGiven, Given
  <1>4. CallsFit'
    BY <1>0, <1>1, <1>2 DEF DrawerInv, CallsFit, Fresh, P!Releases, Live
  <1>5. ControllerFits'
    BY <1>0, <1>1, <1>2 DEF DrawerInv, ControllerFits, Owned
  <1>6. SessionFits'
    BY <1>0, <1>1, <1>2 DEF DrawerInv, SessionFits, Owned, Live
  <1>7. DrawerPasses /\ DrawerStays
    BY <1>0, <1>2 DEF DrawerPasses, DrawerStays, DrawerHas
  <1> QED BY <1>0, <1>3, <1>4, <1>5, <1>6, <1>7 DEF DrawerInv


(* The end of a save: of the sessions that waited for it nobody is lost, and   *)
(* nothing else is released.                                                   *)
LEMMA Finishing ==
    ASSUME IInv, NEW c \in calls, NEW sent \in SUBSET released, P!Finish(c, sent)
    PROVE  /\ chain' \in Session /\ parting' \subseteq parting /\ calls' \in SUBSET Call
           /\ released' \in SUBSET Nat
           /\ \A x \in calls' : \/ x \in calls /\ x # c
                                \/ /\ x.op = "drop" /\ x.gen = c.gen /\ x.token = c.token /\ x.answer = "none"
                                   /\ \E p \in parting : p.token = c.token
           /\ \A x \in calls : x # c => x \in calls'
           /\ \A t \in released' : t \in sent \/ (t = c.token /\ \E p \in parting : p.token = t)
           /\ \A p \in parting : \/ p \in parting'
                                 \/ /\ p.token = c.token
                                    /\ p.token \in sent \/ \E x \in calls' : x.op = "drop" /\ x.token = p.token
           /\ \A p \in parting' : p.token = c.token /\ c.token \in released' =>
                 c.token \in sent \/ \E q \in parting : q.token = c.token /\ q # p
  <1>1. /\ DrawerInv /\ c \in Call /\ chain \in Session /\ parting \in SUBSET Session
        /\ calls \in SUBSET Call /\ released \in SUBSET Nat
    BY DEF IInv, DrawerInv, DrawerTypes
  <1>2. chain' \in Session
    <2>1. PICK z \in Nat : z = 0
      OBVIOUS
    <2>2. P!NoChain = [gen |-> z, token |-> z]
      BY <2>1 DEF P!NoChain
    <2>3. P!NoChain \in Session
      BY <2>2 DEF Session
    <2> QED BY <1>1, <2>3 DEF P!Finish, P!EndChain
  <1>3. parting' = {p \in parting : ~(p.gen = c.gen /\ p.token = c.token)}
    BY DEF P!Finish, P!EndChain, P!Waiting
  <1> DEFINE d == P!Call("drop", c.gen, c.token)
  <1>4. d \in Call /\ d.op = "drop" /\ d.gen = c.gen /\ d.token = c.token /\ d.answer = "none"
    BY <1>1 DEF P!Call, Call, Answers, P!Releases
  <1>5. CASE P!Waiting(c) = {}
    <2>1. calls' = calls \ {c} /\ released' = sent /\ parting' = parting
      BY <1>3, <1>5 DEF P!Finish, P!Parted, P!Waiting
    <2> QED BY <1>1, <1>2, <2>1
  <1>6. CASE P!Waiting(c) # {}
    <2>1. PICK w \in parting : w.gen = c.gen /\ w.token = c.token
      BY <1>6 DEF P!Waiting
    <2>2. /\ released' = sent \cup {c.token}
          /\ calls' = (calls \ {c}) \cup (IF c.token \in sent THEN {} ELSE {d})
      BY <1>6 DEF P!Finish, P!Parted
    <2> HIDE DEF d
    <2>3. calls' \in SUBSET Call /\ released' \in SUBSET Nat
      BY <1>1, <1>4, <2>2 DEF Call
    <2>4. \A p \in parting' : w # p
      BY <1>3, <2>1
    <2> QED BY <1>1, <1>2, <1>3, <1>4, <2>1, <2>2, <2>3, <2>4
  <1> QED BY <1>5, <1>6

(* After it the drawer is as before, but for what the controller does.         *)
LEMMA Finished ==
    ASSUME IInv, NEW c \in calls, c.op \in {"patch", "refresh", "save-release"},
           NEW sent \in SUBSET released, P!Finish(c, sent), UNCHANGED <<holder, issued>>,
           ctl' \in Controller, ctl'.gen \in Nat, ctl'.gen >= ctl.gen,
           \/ ctl'.token = ctl.token /\ ctl'.session = ctl.session
           \/ ctl'.token = 0 /\ ctl'.session = 0
    PROVE  /\ DrawerTypes' /\ DrawerGiven' /\ CallsFit'
           /\ \A p \in parting' : Live(p.token) =>
                 /\ p.token # ctl'.session /\ p.token \notin released'
                 /\ \A q \in parting' : q.token = p.token => q = p
           /\ Live(ctl.session) => \A t \in released' : t = ctl.session => t \in sent
           /\ ctl'.session = ctl.session \/ ~Live(ctl.session) => DrawerPasses
  <1>0. /\ DrawerInv /\ c \in Call /\ c.token \in Nat /\ ctl \in Controller /\ issued \in Nat
    BY DEF IInv, DrawerInv, DrawerTypes, Call, ServerTypes
  <1>1. /\ chain' \in Session /\ parting' \subseteq parting /\ calls' \in SUBSET Call
        /\ released' \in SUBSET Nat
        /\ \A x \in calls' : \/ x \in calls /\ x # c
                             \/ /\ x.op = "drop" /\ x.gen = c.gen /\ x.token = c.token /\ x.answer = "none"
                                /\ \E p \in parting : p.token = c.token
        /\ \A x \in calls : x # c => x \in calls'
        /\ \A t \in released' : t \in sent \/ (t = c.token /\ \E p \in parting : p.token = t)
        /\ \A p \in parting : \/ p \in parting'
                              \/ /\ p.token = c.token
                                 /\ p.token \in sent \/ \E x \in calls' : x.op = "drop" /\ x.token = p.token
        /\ \A p \in parting' : p.token = c.token /\ c.token \in released' =>
              c.token \in sent \/ \E q \in parting : q.token = c.token /\ q # p
    BY Finishing
  <1>2. \A x \in calls' : x.gen <= c.gen \/ x \in calls
    BY <1>0, <1>1 DEF Call
  <1>3. DrawerTypes'
    BY <1>0, <1>1 DEF DrawerInv, DrawerTypes
  <1>4. DrawerGiven'
    BY <1>0, <1>1 DEF DrawerInv, DrawerTypes, DrawerGiven, Given
  <1>5. CallsFit'
    <2> SUFFICES ASSUME NEW x \in calls'
                 PROVE  /\ x.gen <= ctl'.gen
                        /\ x.op # "acquire" => x.token # 0
                        /\ x.op = "acquire" /\ x.answer = "ok" => x.token # 0 /\ Fresh(x)'
                        /\ x.op = "acquire" /\ x.answer # "ok" => x.token = 0
                        /\ x.op \in {"beat", "patch"} /\ x.answer = "refused" => ~Live(x.token)'
                        /\ x.op \in P!Releases /\ x.answer = "ok" => ~Live(x.token)'
      BY DEF CallsFit
    <2>1. c.gen <= ctl.gen /\ c.token # 0 /\ c.gen \in Nat /\ ctl.gen \in Nat
      BY <1>0 DEF DrawerInv, CallsFit, Call, Controller
    <2>2. CASE x \in calls /\ x # c
      <3>1. x.op = "acquire" /\ x.answer = "ok" => Fresh(x)'
        <4> SUFFICES ASSUME x.op = "acquire", x.answer = "ok" PROVE Fresh(x)'
          OBVIOUS
        <4>1. Fresh(x) /\ c.token # x.token /\ x.token # 0
          BY <1>0, <2>2 DEF DrawerInv, CallsFit, Fresh
        <4>2. x.token \notin released' /\ x.token # ctl'.session
          BY <1>1, <4>1 DEF Fresh
        <4>3. /\ \A d \in calls' : d.token = x.token => d = x
              /\ \A p \in parting' : p.token # x.token
          BY <1>1, <4>1 DEF Fresh
        <4> QED BY <4>2, <4>3 DEF Fresh
      <3>2. x.gen <= ctl'.gen
        <4>1. x.gen <= ctl.gen /\ x.gen \in Nat /\ ctl.gen \in Nat
          BY <1>0, <2>2 DEF DrawerInv, DrawerTypes, CallsFit, Call, Controller
        <4> QED BY <4>1
      <3> QED BY <1>0, <2>2, <3>1, <3>2 DEF DrawerInv, CallsFit, Live
    <2>3. CASE x.op = "drop" /\ x.gen = c.gen /\ x.token = c.token /\ x.answer = "none"
      BY <2>1, <2>3
    <2> QED BY <1>1, <2>2, <2>3
  <1>6. \A p \in parting : Live(p.token) => /\ p.token # ctl.session /\ p.token \notin released /\ p.token # 0
                                            /\ \A q \in parting : q.token = p.token => q = p
    BY <1>0 DEF DrawerInv, SessionFits, Owned, Live
  <1>7. \A p \in parting' : Live(p.token) =>
           /\ p.token # ctl'.session /\ p.token \notin released'
           /\ \A q \in parting' : q.token = p.token => q = p
    <2> SUFFICES ASSUME NEW p \in parting', Live(p.token)
                 PROVE  /\ p.token # ctl'.session /\ p.token \notin released'
                        /\ \A q \in parting' : q.token = p.token => q = p
      OBVIOUS
    <2>1. /\ p \in parting /\ p.token # ctl.session /\ p.token \notin released /\ p.token # 0
          /\ \A q \in parting : q.token = p.token => q = p
      BY <1>1, <1>6
    <2>2. p.token \notin sent
      BY <2>1
    <2>3. p.token \notin released'
      <3> SUFFICES ASSUME p.token \in released' PROVE FALSE
        OBVIOUS
      <3>1. p.token = c.token
        BY <1>1, <2>2
      <3>2. \E q \in parting : q.token = c.token /\ q # p
        BY <1>1, <2>2, <3>1
      <3> QED BY <2>1, <3>1, <3>2
    <2>4. p.token # ctl'.session
      BY <2>1
    <2> QED BY <1>1, <2>1, <2>3, <2>4
  <1>8. Live(ctl.session) => \A t \in released' : t = ctl.session => t \in sent
    <2> SUFFICES ASSUME Live(ctl.session), NEW t \in released', t = ctl.session, t \notin sent
                 PROVE  FALSE
      OBVIOUS
    <2>1. PICK p \in parting : p.token = t
      BY <1>1
    <2>2. Live(p.token)
      BY <2>1
    <2> QED BY <1>6, <2>1, <2>2
  <1>9. ctl'.session = ctl.session \/ ~Live(ctl.session) => DrawerPasses
    <2> SUFFICES ASSUME ctl'.session = ctl.session \/ ~Live(ctl.session), holder # 0, DrawerHas(holder),
                        holder' = holder
                 PROVE  DrawerHas(holder)'
      BY DEF DrawerPasses
    <2>1. CASE ctl.session = holder
      BY <2>1 DEF DrawerHas, Live
    <2>2. CASE \E x \in calls : x # c /\ x.token = holder /\ x.op \in {"acquire"} \cup P!Releases
      BY <1>1, <2>2 DEF DrawerHas
    <2>3. CASE \E p \in parting : p.token = holder
      <3>1. PICK p \in parting : p.token = holder
        BY <2>3
      <3>2. p.token \notin sent
        BY <1>6, <3>1 DEF Live
      <3> QED BY <1>1, <3>1, <3>2 DEF DrawerHas, P!Releases
    <2>4. CASE c.token = holder /\ c.op = "save-release"
      <3>1. Live(c.token) /\ ctl.token = c.token /\ c.token # 0
        BY <1>0, <2>4 DEF DrawerInv, SessionFits, CallsFit, Owned, Live
      <3>2. ctl.session = holder
        BY <1>0, <2>4, <3>1 DEF DrawerInv, ControllerFits
      <3> QED BY <2>1, <3>2
    <2> QED BY <2>1, <2>2, <2>3, <2>4 DEF DrawerHas, P!Releases
  <1> QED BY <1>3, <1>4, <1>5, <1>7, <1>8, <1>9


(* The end of a save leaves the drawer as it is, without its lock, with its    *)
(* form again, or closed.                                                      *)
LEMMA SaveEnds ==
    ASSUME IInv, NEW c \in calls, c.op \in {"patch", "refresh", "save-release"},
           NEW sent \in SUBSET released, P!Finish(c, sent), UNCHANGED <<holder, issued, shell>>,
           \/ ctl' = ctl
           \/ /\ ctl' \in Controller /\ Owned(c) /\ ctl.phase = "saving"
              /\ ctl'.phase = "lock-lost" /\ ctl'.gen = ctl.gen + 1
              /\ ctl'.token = ctl.token /\ ctl'.session = ctl.session
              /\ ctl'.draft = ctl.draft /\ ctl'.under = ctl.under
              /\ ctl.session = ctl.token /\ ~Live(ctl.session)
           \/ /\ ctl' \in Controller /\ Owned(c) /\ ctl'.phase = "editable" /\ ctl'.gen = ctl.gen
              /\ ctl.phase = "saving" \/ (ctl.phase = "releasing" /\ c.op = "save-release")
              /\ ctl'.token = ctl.token /\ ctl'.session = ctl.session
              /\ ctl'.draft = ctl.draft /\ ctl'.under = ctl.under
              /\ Live(ctl.session) => ctl.session \notin sent
           \/ /\ ctl' \in Controller /\ Owned(c) /\ ctl'.phase = "closed" /\ ctl'.gen = ctl.gen
              /\ ctl.phase = "releasing"
              /\ ctl'.token = 0 /\ ctl'.session = 0 /\ ctl'.draft = "none" /\ ~Live(ctl.session)
    PROVE  DrawerInv' /\ DrawerPasses /\ DrawerStays
  <1>0. /\ DrawerInv /\ ctl \in Controller /\ c \in Call /\ c.token # 0 /\ c.gen <= ctl.gen
        /\ ctl.gen \in Nat /\ ctl' \in Controller /\ ctl'.gen \in Nat /\ ctl'.gen >= ctl.gen
    BY DEF IInv, DrawerInv, DrawerTypes, CallsFit, Controller
  <1>1. /\ DrawerTypes' /\ DrawerGiven' /\ CallsFit'
        /\ \A p \in parting' : Live(p.token) =>
              /\ p.token # ctl'.session /\ p.token \notin released'
              /\ \A q \in parting' : q.token = p.token => q = p
        /\ Live(ctl.session) => \A t \in released' : t = ctl.session => t \in sent
        /\ DrawerPasses
    BY <1>0, Finished
  <1>2. \A x \in calls' : \/ x \in calls /\ x # c
                          \/ x.op = "drop" /\ x.gen = c.gen /\ x.token = c.token
    BY Finishing
  <1>3. \A x \in calls : x.gen \in Nat /\ x.gen <= ctl.gen /\ (x.op # "acquire" => x.token # 0)
    BY <1>0 DEF DrawerInv, DrawerTypes, CallsFit, Call
  <1>4. CASE ctl' = ctl
    <2>1. ControllerFits'
      BY <1>0, <1>2, <1>4 DEF DrawerInv, ControllerFits, Owned
    <2>2. SessionFits'
      BY <1>0, <1>1, <1>2, <1>4 DEF DrawerInv, SessionFits, Owned, Live
    <2> QED BY <1>1, <1>4, <2>1, <2>2 DEF DrawerInv, DrawerStays
  <1>5. CASE /\ Owned(c) /\ ctl.phase = "saving"
             /\ ctl'.phase = "lock-lost" /\ ctl'.gen = ctl.gen + 1
             /\ ctl'.token = ctl.token /\ ctl'.session = ctl.session
             /\ ctl'.draft = ctl.draft /\ ctl'.under = ctl.under
             /\ ctl.session = ctl.token /\ ~Live(ctl.session)
    <2>1. \A x \in calls' : x.gen # ctl'.gen
      BY <1>0, <1>2, <1>3, <1>5
    <2>2. ControllerFits'
      BY <1>0, <1>2, <1>5, <2>1 DEF DrawerInv, ControllerFits, Owned
    <2>3. SessionFits'
      BY <1>0, <1>1, <1>2, <1>5, <2>1 DEF DrawerInv, SessionFits, Owned, Live
    <2> QED BY <1>1, <1>5, <2>2, <2>3 DEF DrawerInv, DrawerStays
  <1>6. CASE /\ Owned(c) /\ ctl'.phase = "editable" /\ ctl'.gen = ctl.gen
             /\ ctl.phase = "saving" \/ (ctl.phase = "releasing" /\ c.op = "save-release")
             /\ ctl'.token = ctl.token /\ ctl'.session = ctl.session
             /\ ctl'.draft = ctl.draft /\ ctl'.under = ctl.under
             /\ Live(ctl.session) => ctl.session \notin sent
    <2>1. ctl.draft # "none" /\ ctl.token # 0 /\ ctl.token = ctl.session
      BY <1>0, <1>6 DEF DrawerInv, ControllerFits, Owned
    <2>2. ControllerFits'
      BY <1>0, <1>2, <1>6, <2>1 DEF DrawerInv, ControllerFits, Owned
    <2>3. \A x \in calls' : x.op \in {"save-release", "close-release"} => ~Live(x.token)
      BY <1>0, <1>2, <1>6 DEF DrawerInv, SessionFits, Owned, Live
    <2>4. \A x \in calls' : x.op = "load" => ~(Live(x.token) /\ Owned(x))
      BY <1>0, <1>2, <1>6 DEF DrawerInv, SessionFits, Owned, Live
    <2>5. SessionFits'
      BY <1>0, <1>1, <1>2, <1>6, <2>1, <2>3, <2>4 DEF DrawerInv, SessionFits, Owned, Live
    <2> QED BY <1>1, <1>6, <2>2, <2>5 DEF DrawerInv, DrawerStays
  <1>7. CASE /\ Owned(c) /\ ctl'.phase = "closed" /\ ctl'.gen = ctl.gen /\ ctl.phase = "releasing"
             /\ ctl'.token = 0 /\ ctl'.session = 0 /\ ctl'.draft = "none" /\ ~Live(ctl.session)
    <2>1. ctl.token = ctl.session
      BY <1>0, <1>7 DEF DrawerInv, ControllerFits, Owned
    <2>2. \A x \in calls' : x.op # "acquire" => x.token # 0
      BY <1>0, <1>2, <1>3
    <2>3. ControllerFits'
      BY <1>0, <1>2, <1>7, <2>2 DEF DrawerInv, ControllerFits, Owned
    <2>4. SessionFits'
      BY <1>0, <1>1, <1>2, <1>7, <2>1, <2>2 DEF DrawerInv, SessionFits, Owned, Live
    <2> QED BY <1>1, <1>7, <2>3, <2>4 DEF DrawerInv, DrawerStays
  <1> QED BY <1>4, <1>5, <1>6, <1>7

LEMMA PatchAnsweredStep ==
    ASSUME IInv, P!PatchAnswered, UNCHANGED shell
    PROVE  DrawerInv' /\ DrawerPasses /\ DrawerStays /\ Keeps
  <1>0. PICK c \in calls :
        /\ c.op = "patch" /\ P!Answered(c)
        /\ IF ~P!Owns(c) \/ ctl.phase # "saving" THEN P!Finish(c, released) /\ UNCHANGED ctl
           ELSE CASE c.answer = "ok" ->
                       /\ ctl' = [ctl EXCEPT !.draft = "clean"]
                       /\ calls' = (calls \ {c}) \cup {P!Call("refresh", c.gen, c.token)}
                       /\ UNCHANGED <<released, chain, parting>>
                  [] c.answer = "refused" -> P!Finish(c, released) /\ ctl' = P!LoseLock(ctl)
                  [] OTHER -> P!Finish(c, released) /\ ctl' = [ctl EXCEPT !.phase = "editable"]
    BY DEF P!PatchAnswered
  <1>1. /\ DrawerInv /\ ctl \in Controller /\ UNCHANGED <<holder, issued>> /\ Keeps
        /\ c \in Call /\ c.token \in Nat /\ c.gen \in Nat /\ c.token # 0 /\ ctl.gen \in Nat
    BY <1>0 DEF P!PatchAnswered, P!server, IInv, DrawerInv, DrawerTypes, Keeps, Call, Controller, CallsFit
  <1>2. P!Owns(c) <=> Owned(c)
    BY DEF P!Owns, Owned
  <1>3. CASE ~Owned(c) \/ ctl.phase # "saving"
    <2>1. P!Finish(c, released) /\ ctl' = ctl
      BY <1>0, <1>2, <1>3
    <2> QED BY <1>0, <1>1, <2>1, SaveEnds
  <1>4. CASE Owned(c) /\ ctl.phase = "saving" /\ c.answer = "ok"
    <2> DEFINE d == P!Call("refresh", c.gen, c.token)
    <2>1. d \in Call /\ d.op = "refresh" /\ d.gen = c.gen /\ d.token = c.token /\ d.answer = "none"
      BY <1>1 DEF P!Call, Call, Answers
    <2>2. /\ calls' = (calls \ {c}) \cup {d} /\ ctl' = [ctl EXCEPT !.draft = "clean"]
          /\ UNCHANGED <<released, chain, parting>>
      BY <1>0, <1>2, <1>4
    <2> HIDE DEF d
    <2>3. /\ ctl' \in Controller /\ ctl'.phase = "saving" /\ ctl'.gen = ctl.gen /\ ctl'.token = ctl.token
          /\ ctl'.session = ctl.session /\ ctl'.draft = "clean" /\ ctl'.under = ctl.under
      BY <1>1, <1>4, <2>2 DEF Controller
    <2>4. ctl.draft # "none" /\ ctl.token = ctl.session /\ ctl.token = c.token
      BY <1>1, <1>4 DEF DrawerInv, ControllerFits, Owned
    <2>5. DrawerTypes' /\ DrawerGiven'
      BY <1>1, <2>1, <2>2, <2>3 DEF DrawerInv, DrawerTypes, DrawerGiven, Given
    <2>6. \A x \in calls : x.op = "acquire" /\ x.answer = "ok" => Fresh(x)'
      <3> SUFFICES ASSUME NEW x \in calls, x.op = "acquire", x.answer = "ok" PROVE Fresh(x)'
        OBVIOUS
      <3>1. Fresh(x) /\ c.token # x.token
        BY <1>1, <2>4 DEF DrawerInv, CallsFit, Fresh
      <3> QED BY <2>1, <2>2, <2>3, <3>1 DEF Fresh
    <2>7. CallsFit'
      BY <1>1, <2>1, <2>2, <2>3, <2>6 DEF DrawerInv, CallsFit, P!Releases, Live
    <2>8. ControllerFits'
      BY <1>1, <2>1, <2>2, <2>3, <2>4 DEF DrawerInv, ControllerFits, Owned
    <2>9. SessionFits'
      BY <1>1, <1>4, <2>1, <2>2, <2>3, <2>4 DEF DrawerInv, SessionFits, Owned, Live
    <2>10. DrawerPasses /\ DrawerStays
      BY <1>0, <1>1, <1>4, <2>2, <2>3 DEF DrawerPasses, DrawerStays, DrawerHas, P!Releases
    <2> QED BY <1>1, <2>5, <2>7, <2>8, <2>9, <2>10 DEF DrawerInv
  <1>5. CASE Owned(c) /\ ctl.phase = "saving" /\ c.answer = "refused"
    <2>1. P!Finish(c, released) /\ ctl' = P!LoseLock(ctl)
      BY <1>0, <1>2, <1>5
    <2>2. /\ ctl' \in Controller /\ ctl'.phase = "lock-lost" /\ ctl'.gen = ctl.gen + 1
          /\ ctl'.token = ctl.token /\ ctl'.session = ctl.session
          /\ ctl'.draft = ctl.draft /\ ctl'.under = ctl.under
      BY <1>1, <2>1, LockLost
    <2>3. ctl.session = ctl.token /\ ~Live(ctl.session)
      BY <1>0, <1>1, <1>5 DEF DrawerInv, CallsFit, ControllerFits, Owned
    <2> QED BY <1>0, <1>1, <1>5, <2>1, <2>2, <2>3, SaveEnds
  <1>6. CASE Owned(c) /\ ctl.phase = "saving" /\ c.answer \notin {"ok", "refused"}
    <2>1. P!Finish(c, released) /\ ctl' = [ctl EXCEPT !.phase = "editable"]
      BY <1>0, <1>2, <1>6
    <2>2. /\ ctl' \in Controller /\ ctl'.phase = "editable" /\ ctl'.gen = ctl.gen
          /\ ctl'.token = ctl.token /\ ctl'.session = ctl.session
          /\ ctl'.draft = ctl.draft /\ ctl'.under = ctl.under
      BY <1>1, <2>1 DEF Controller
    <2>3. Live(ctl.session) => ctl.session \notin released
      BY <1>1, <1>6 DEF DrawerInv, SessionFits, Owned, Live
    <2> QED BY <1>0, <1>1, <1>6, <2>1, <2>2, <2>3, SaveEnds
  <1> QED BY <1>3, <1>4, <1>5, <1>6


LEMMA RefreshedStep ==
    ASSUME IInv, P!Refreshed, UNCHANGED shell
    PROVE  DrawerInv' /\ DrawerPasses /\ DrawerStays /\ Keeps
  <1>0. PICK c \in calls :
        /\ c.op = "refresh" /\ P!Answered(c)
        /\ IF ~P!Owns(c) \/ ctl.phase # "saving" THEN P!Finish(c, released) /\ UNCHANGED ctl
           ELSE /\ ctl' = [ctl EXCEPT !.phase = "releasing", !.beating = FALSE]
                /\ calls' = (calls \ {c}) \cup P!ReleaseOnce("save-release", c.gen, c.token)
                /\ P!Sent(c.token) /\ UNCHANGED <<chain, parting>>
    BY DEF P!Refreshed
  <1>1. /\ DrawerInv /\ ctl \in Controller /\ UNCHANGED <<holder, issued>> /\ Keeps
        /\ c \in Call /\ c.token \in Nat /\ c.gen \in Nat /\ c.token # 0
    BY <1>0 DEF P!Refreshed, P!server, IInv, DrawerInv, DrawerTypes, Keeps, Call, CallsFit
  <1>2. P!Owns(c) <=> Owned(c)
    BY DEF P!Owns, Owned
  <1>3. CASE ~Owned(c) \/ ctl.phase # "saving"
    <2>1. P!Finish(c, released) /\ ctl' = ctl
      BY <1>0, <1>2, <1>3
    <2> QED BY <1>0, <1>1, <2>1, SaveEnds
  <1>4. CASE Owned(c) /\ ctl.phase = "saving"
    <2> DEFINE d == P!Call("save-release", c.gen, c.token)
    <2>1. d \in Call /\ d.op = "save-release" /\ d.gen = c.gen /\ d.token = c.token /\ d.answer = "none"
      BY <1>1 DEF P!Call, Call, Answers, P!Releases
    <2>2. /\ \/ calls' = (calls \ {c}) \cup {d}
             \/ calls' = calls \ {c} /\ c.token \in released
          /\ ctl' = [ctl EXCEPT !.phase = "releasing", !.beating = FALSE]
          /\ released' = released \cup {c.token} /\ UNCHANGED <<chain, parting>>
      BY <1>0, <1>2, <1>4 DEF P!ReleaseOnce, P!Sent
    <2> HIDE DEF d
    <2>3. /\ ctl' \in Controller /\ ctl'.phase = "releasing" /\ ctl'.gen = ctl.gen /\ ctl'.token = ctl.token
          /\ ctl'.session = ctl.session /\ ctl'.draft = ctl.draft /\ ctl'.under = ctl.under
      BY <1>1, <1>4, <2>2 DEF Controller
    <2>4. ctl.draft # "none" /\ ctl.token = ctl.session /\ ctl.token = c.token
      BY <1>1, <1>4 DEF DrawerInv, ControllerFits, Owned
    <2>5. DrawerTypes' /\ DrawerGiven'
      BY <1>1, <2>1, <2>2, <2>3 DEF DrawerInv, DrawerTypes, DrawerGiven, Given
    <2>6. \A x \in calls : x.op = "acquire" /\ x.answer = "ok" => Fresh(x)'
      <3> SUFFICES ASSUME NEW x \in calls, x.op = "acquire", x.answer = "ok" PROVE Fresh(x)'
        OBVIOUS
      <3>1. Fresh(x) /\ c.token # x.token
        BY <1>1, <2>4 DEF DrawerInv, CallsFit, Fresh
      <3> QED BY <2>1, <2>2, <2>3, <3>1 DEF Fresh
    <2>7. CallsFit'
      BY <1>1, <1>4, <2>1, <2>2, <2>3, <2>6 DEF DrawerInv, CallsFit, P!Releases, Live
    <2>8. ControllerFits'
      BY <1>1, <2>1, <2>2, <2>3, <2>4 DEF DrawerInv, ControllerFits, Owned
    <2>9. SessionFits'
      BY <1>1, <1>4, <2>1, <2>2, <2>3, <2>4 DEF DrawerInv, SessionFits, Owned, Live
    <2>10. DrawerPasses /\ DrawerStays
      BY <1>0, <1>1, <1>4, <2>2, <2>3 DEF DrawerPasses, DrawerStays, DrawerHas, P!Releases
    <2> QED BY <1>1, <2>5, <2>7, <2>8, <2>9, <2>10 DEF DrawerInv
  <1> QED BY <1>3, <1>4

(* The controller closes, and forgets its session.                             *)
LEMMA EndedDrawer ==
    ASSUME ctl \in Controller, ctl' = P!Ended
    PROVE  /\ ctl' \in Controller /\ ctl'.phase = "closed" /\ ctl'.gen = ctl.gen
           /\ ctl'.token = 0 /\ ctl'.session = 0 /\ ctl'.draft = "none"
  <1>1. PICK z \in Nat : z = 0
    OBVIOUS
  <1>2. ctl' = [ctl EXCEPT !.phase = "closed", !.token = z, !.session = z, !.draft = "none"]
    BY <1>1 DEF P!Ended
  <1>3. /\ ctl' \in Controller /\ ctl'.phase = "closed" /\ ctl'.gen = ctl.gen
        /\ ctl'.token = z /\ ctl'.session = z /\ ctl'.draft = "none"
    BY <1>2 DEF Controller
  <1> QED BY <1>1, <1>3

LEMMA SaveReleasedStep ==
    ASSUME IInv, P!SaveReleased, UNCHANGED shell
    PROVE  DrawerInv' /\ DrawerPasses /\ DrawerStays /\ Keeps
  <1>0. PICK c \in calls :
        /\ c.op = "save-release" /\ P!Answered(c)
        /\ P!Finish(c, IF c.answer = "ok" THEN released ELSE released \ {c.token})
        /\ ctl' = CASE ~P!Owns(c) \/ ctl.phase # "releasing" -> ctl
                    [] P!Owns(c) /\ ctl.phase = "releasing" /\ c.answer = "ok" -> P!Ended
                    [] OTHER -> [ctl EXCEPT !.phase = "editable"]
    BY DEF P!SaveReleased
  <1>1. /\ DrawerInv /\ ctl \in Controller /\ UNCHANGED <<holder, issued>> /\ Keeps
        /\ (c.answer = "ok" => ~Live(c.token)) /\ c.token # 0
    BY <1>0 DEF P!SaveReleased, P!server, IInv, DrawerInv, DrawerTypes, Keeps, CallsFit, P!Releases
  <1>2. P!Owns(c) <=> Owned(c)
    BY DEF P!Owns, Owned
  <1> DEFINE sent == IF c.answer = "ok" THEN released ELSE released \ {c.token}
  <1>3. sent \in SUBSET released /\ P!Finish(c, sent) /\ (c.answer # "ok" => c.token \notin sent)
    BY <1>0
  <1> HIDE DEF sent
  <1>4. CASE ~Owned(c) \/ ctl.phase # "releasing"
    <2>1. ctl' = ctl
      BY <1>0, <1>2, <1>4
    <2> QED BY <1>0, <1>1, <1>3, <2>1, SaveEnds
  <1>5. CASE Owned(c) /\ ctl.phase = "releasing"
    <2>1. ctl.session = c.token /\ ctl.draft # "none"
      BY <1>0, <1>1, <1>5 DEF DrawerInv, ControllerFits, Owned
    <2>2. CASE c.answer = "ok"
      <3>1. ctl' = P!Ended
        BY <1>0, <1>2, <1>5, <2>2
      <3>2. /\ ctl' \in Controller /\ ctl'.phase = "closed" /\ ctl'.gen = ctl.gen
            /\ ctl'.token = 0 /\ ctl'.session = 0 /\ ctl'.draft = "none"
        BY <1>1, <3>1, EndedDrawer
      <3> QED BY <1>0, <1>1, <1>3, <1>5, <2>1, <2>2, <3>2, SaveEnds
    <2>3. CASE c.answer # "ok"
      <3>1. ctl' = [ctl EXCEPT !.phase = "editable"]
        BY <1>0, <1>2, <1>5, <2>3
      <3>2. /\ ctl' \in Controller /\ ctl'.phase = "editable" /\ ctl'.gen = ctl.gen
            /\ ctl'.token = ctl.token /\ ctl'.session = ctl.session
            /\ ctl'.draft = ctl.draft /\ ctl'.under = ctl.under
        BY <1>1, <3>1 DEF Controller
      <3> QED BY <1>0, <1>1, <1>3, <1>5, <2>1, <2>3, <3>2, SaveEnds
    <2> QED BY <2>2, <2>3
  <1> QED BY <1>4, <1>5


LEMMA CloseStep ==
    ASSUME IInv, P!Close, UNCHANGED shell
    PROVE  DrawerInv' /\ DrawerPasses /\ DrawerStays /\ Keeps
  <1>1. /\ DrawerInv /\ ctl \in Controller /\ UNCHANGED <<chain, parting, holder, issued>> /\ Keeps
        /\ ctl.phase \notin {"closed", "acquiring", "saving", "releasing"}
    BY DEF P!Close, P!CloseDisabled, P!server, IInv, DrawerInv, DrawerTypes, Keeps
  <1>2. PICK g \in Nat : g = ctl.gen + 1
    BY <1>1 DEF Controller
  <1>3. \A x \in calls : x.gen \in Nat /\ x.gen <= g /\ x.gen # g /\ (x.op # "acquire" => x.token # 0)
    <2> SUFFICES ASSUME NEW x \in calls
                 PROVE  x.gen \in Nat /\ x.gen <= g /\ x.gen # g /\ (x.op # "acquire" => x.token # 0)
      OBVIOUS
    <2>1. x.gen \in Nat /\ x.gen <= ctl.gen /\ ctl.gen \in Nat /\ (x.op # "acquire" => x.token # 0)
      BY <1>1 DEF DrawerInv, DrawerTypes, CallsFit, Call, Controller
    <2> QED BY <1>2, <2>1
  <1>4. CASE ctl.token = 0
    <2>1. PICK z \in Nat : z = 0
      OBVIOUS
    <2>2. /\ ctl' = [P!Ended EXCEPT !.gen = g, !.beating = FALSE]
          /\ UNCHANGED <<calls, released>>
      BY <1>2, <1>4 DEF P!Close, P!Fresh
    <2>3. ctl' = [ctl EXCEPT !.phase = "closed", !.token = z, !.session = z, !.draft = "none",
                             !.gen = g, !.beating = FALSE]
      BY <2>1, <2>2 DEF P!Ended
    <2>4. /\ ctl' \in Controller /\ ctl'.phase = "closed" /\ ctl'.gen = g
          /\ ctl'.token = z /\ ctl'.session = z /\ ctl'.draft = "none"
      BY <1>1, <2>3 DEF Controller
    <2>5. ~Live(ctl.session)
      BY <1>1, <1>4 DEF DrawerInv, SessionFits, Owned, Live
    <2>6. DrawerTypes' /\ DrawerGiven'
      BY <1>1, <2>1, <2>2, <2>4 DEF DrawerInv, DrawerTypes, DrawerGiven, Given, IInv, ServerTypes
    <2>7. CallsFit'
      BY <1>1, <1>3, <2>1, <2>2, <2>4 DEF DrawerInv, CallsFit, Fresh, P!Releases, Live
    <2>8. ControllerFits'
      BY <1>1, <1>3, <2>1, <2>2, <2>4 DEF DrawerInv, ControllerFits, Owned
    <2>9. SessionFits'
      BY <1>1, <1>3, <2>1, <2>2, <2>4, <2>5 DEF DrawerInv, SessionFits, Owned, Live
    <2>10. DrawerPasses /\ DrawerStays
      BY <1>1, <2>2, <2>4, <2>5 DEF DrawerPasses, DrawerStays, DrawerHas, Live
    <2> QED BY <1>1, <2>6, <2>7, <2>8, <2>9, <2>10 DEF DrawerInv
  <1>5. CASE ctl.token # 0
    <2> DEFINE d == P!Call("close-release", g, ctl.token)
    <2>1. d \in Call /\ d.op = "close-release" /\ d.gen = g /\ d.token = ctl.token /\ d.answer = "none"
      BY <1>1 DEF P!Call, Call, Answers, P!Releases, Controller
    <2>2. /\ \/ calls' = calls \cup {d}
             \/ calls' = calls /\ ctl.token \in released
          /\ ctl' = [ctl EXCEPT !.phase = "releasing", !.gen = g, !.beating = FALSE]
          /\ released' = released \cup {ctl.token}
      BY <1>2, <1>5 DEF P!Close, P!Fresh, P!ReleaseOnce, P!Sent
    <2> HIDE DEF d
    <2>3. /\ ctl' \in Controller /\ ctl'.phase = "releasing" /\ ctl'.gen = g /\ ctl'.token = ctl.token
          /\ ctl'.session = ctl.session /\ ctl'.draft = ctl.draft /\ ctl'.under = ctl.under
      BY <1>1, <2>2 DEF Controller
    <2>4. ctl.token = ctl.session
      BY <1>1, <1>5 DEF DrawerInv, ControllerFits, Owned
    <2>5. DrawerTypes' /\ DrawerGiven'
      BY <1>1, <2>1, <2>2, <2>3 DEF DrawerInv, DrawerTypes, DrawerGiven, Given, Controller
    <2>6. \A x \in calls : x.op = "acquire" /\ x.answer = "ok" => Fresh(x)'
      <3> SUFFICES ASSUME NEW x \in calls, x.op = "acquire", x.answer = "ok" PROVE Fresh(x)'
        OBVIOUS
      <3>1. Fresh(x) /\ ctl.token # x.token
        BY <1>1, <2>4 DEF DrawerInv, CallsFit, Fresh
      <3> QED BY <1>1, <2>1, <2>2, <2>3, <3>1 DEF Fresh
    <2>7. CallsFit'
      BY <1>1, <1>3, <1>5, <2>1, <2>2, <2>3, <2>6 DEF DrawerInv, CallsFit, P!Releases, Live
    <2>8. ControllerFits'
      BY <1>1, <1>3, <1>5, <2>1, <2>2, <2>3, <2>4 DEF DrawerInv, ControllerFits, Owned
    <2>9. SessionFits'
      BY <1>1, <1>3, <2>1, <2>2, <2>3, <2>4 DEF DrawerInv, SessionFits, Owned, Live
    <2>10. DrawerPasses /\ DrawerStays
      BY <1>1, <2>2, <2>3 DEF DrawerPasses, DrawerStays, DrawerHas, P!Releases
    <2> QED BY <1>1, <2>5, <2>7, <2>8, <2>9, <2>10 DEF DrawerInv
  <1> QED BY <1>4, <1>5

LEMMA CloseReleasedStep ==
    ASSUME IInv, P!CloseReleased, UNCHANGED shell
    PROVE  DrawerInv' /\ DrawerPasses /\ DrawerStays /\ Keeps
  <1>0. PICK c \in calls :
        /\ c.op = "close-release" /\ P!Answered(c) /\ calls' = calls \ {c}
        /\ released' = (IF c.answer = "ok" THEN released ELSE released \ {c.token})
        /\ ctl' = CASE ~P!Owns(c) \/ ctl.phase # "releasing" -> ctl
                    [] P!Owns(c) /\ ctl.phase = "releasing" /\ c.answer = "ok" -> P!Ended
                    [] OTHER -> [ctl EXCEPT !.phase = IF ctl.draft = "none" THEN "load-error" ELSE "editable"]
    BY DEF P!CloseReleased
  <1>1. /\ DrawerInv /\ ctl \in Controller /\ UNCHANGED <<chain, parting, holder, issued>> /\ Keeps
        /\ (c.answer = "ok" => ~Live(c.token)) /\ c.token # 0
    BY <1>0 DEF P!CloseReleased, P!server, IInv, DrawerInv, DrawerTypes, Keeps, CallsFit, P!Releases
  <1>2. P!Owns(c) <=> Owned(c)
    BY DEF P!Owns, Owned
  <1>3. released' \subseteq released /\ (c.answer # "ok" => c.token \notin released')
    BY <1>0
  <1>4. CASE ~Owned(c) \/ ctl.phase # "releasing"
    <2>1. ctl' = ctl
      BY <1>0, <1>2, <1>4
    <2>2. ~Live(c.token)
      BY <1>0, <1>1, <1>4 DEF DrawerInv, SessionFits, Owned, Live
    <2>3. DrawerPasses
      BY <1>0, <1>1, <2>1, <2>2 DEF DrawerPasses, DrawerHas, Live
    <2> QED BY <1>0, <1>1, <1>3, <2>1, <2>3, Shrinking DEF DrawerStays, DrawerInv, DrawerTypes
  <1>5. CASE Owned(c) /\ ctl.phase = "releasing"
    <2>1. ctl.session = c.token /\ ctl.token = c.token
      BY <1>0, <1>1, <1>5 DEF DrawerInv, ControllerFits, Owned
    <2>2. CASE c.answer = "ok"
      <3>1. ctl' = P!Ended
        BY <1>0, <1>2, <1>5, <2>2
      <3>2. /\ ctl' \in Controller /\ ctl'.phase = "closed" /\ ctl'.gen = ctl.gen
            /\ ctl'.token = 0 /\ ctl'.session = 0 /\ ctl'.draft = "none"
        BY <1>1, <3>1, EndedDrawer
      <3>3. \A x \in calls : x.op # "acquire" => x.token # 0
        BY <1>1 DEF DrawerInv, CallsFit
      <3>4. DrawerTypes' /\ DrawerGiven'
        BY <1>0, <1>1, <1>3, <3>2 DEF DrawerInv, DrawerTypes, DrawerGiven, Given, IInv, ServerTypes
      <3>5. CallsFit'
        BY <1>0, <1>1, <1>3, <3>2 DEF DrawerInv, CallsFit, Fresh, P!Releases, Live
      <3>6. ControllerFits'
        BY <1>0, <1>1, <3>2, <3>3 DEF DrawerInv, ControllerFits, Owned
      <3>7. SessionFits'
        BY <1>0, <1>1, <1>3, <2>1, <2>2, <3>2, <3>3 DEF DrawerInv, SessionFits, Owned, Live
      <3>8. DrawerPasses /\ DrawerStays
        BY <1>0, <1>1, <1>5, <2>1, <2>2, <3>2 DEF DrawerPasses, DrawerStays, DrawerHas, Live
      <3> QED BY <1>1, <3>4, <3>5, <3>6, <3>7, <3>8 DEF DrawerInv
    <2>3. CASE c.answer # "ok"
      <3>1. PICK h \in {"load-error", "editable"} : /\ h = (IF ctl.draft = "none" THEN "load-error" ELSE "editable")
                                                    /\ ctl' = [ctl EXCEPT !.phase = h]
        BY <1>0, <1>2, <1>5, <2>3
      <3>2. /\ ctl' \in Controller /\ ctl'.phase = h /\ ctl'.gen = ctl.gen
            /\ ctl'.token = ctl.token /\ ctl'.session = ctl.session
            /\ ctl'.draft = ctl.draft /\ ctl'.under = ctl.under
        BY <1>1, <3>1 DEF Controller
      <3>3. \A x \in calls' : x.op \in {"save-release", "close-release"} => ~Live(x.token)
        BY <1>0, <1>1, <1>5, <2>1 DEF DrawerInv, SessionFits, Owned, Live
      <3>4. \A x \in calls' : x.op = "load" => ~(Live(x.token) /\ Owned(x))
        BY <1>0, <1>1, <1>5 DEF DrawerInv, SessionFits, Owned, Live
      <3>5. DrawerTypes' /\ DrawerGiven'
        BY <1>0, <1>1, <1>3, <3>2 DEF DrawerInv, DrawerTypes, DrawerGiven, Given
      <3>6. CallsFit'
        BY <1>0, <1>1, <1>3, <3>2 DEF DrawerInv, CallsFit, Fresh, P!Releases, Live
      <3>7. ControllerFits'
        BY <1>0, <1>1, <1>5, <2>1, <3>1, <3>2 DEF DrawerInv, ControllerFits, Owned
      <3>8. SessionFits'
        BY <1>0, <1>1, <1>3, <2>1, <2>3, <3>1, <3>2, <3>3, <3>4 DEF DrawerInv, SessionFits, Owned, Live
      <3>9. DrawerPasses /\ DrawerStays
        BY <1>0, <1>1, <1>5, <2>1, <3>2 DEF DrawerPasses, DrawerStays, DrawerHas
      <3> QED BY <1>1, <3>5, <3>6, <3>7, <3>8, <3>9 DEF DrawerInv
    <2> QED BY <2>2, <2>3
  <1> QED BY <1>4, <1>5

LEMMA DropAnsweredStep ==
    ASSUME IInv, P!DropAnswered, UNCHANGED shell
    PROVE  DrawerInv' /\ DrawerPasses /\ DrawerStays /\ Keeps
  <1>0. PICK c \in calls :
        /\ c.op = "drop" /\ calls' = calls \ {c}
        /\ released' = (IF c.answer = "ok" THEN released ELSE released \ {c.token})
        /\ abandoned' = (IF c.answer = "ok" THEN abandoned ELSE abandoned \cup {c.token})
    BY DEF P!DropAnswered, P!Abandon
  <1>1. /\ DrawerInv /\ UNCHANGED <<ctl, chain, parting, holder, issued>> /\ Keeps
        /\ (c.answer = "ok" => ~Live(c.token)) /\ released' \subseteq released
    BY <1>0 DEF P!DropAnswered, IInv, DrawerInv, DrawerTypes, Keeps, CallsFit, P!Releases
  <1>2. DrawerPasses
    BY <1>0, <1>1 DEF DrawerPasses, DrawerHas, Live
  <1> QED BY <1>0, <1>1, <1>2, Shrinking DEF DrawerStays, DrawerInv, DrawerTypes


(* The lock is asked for again, once the session that lost it is released.     *)
LEMMA ReacquireDrawer ==
    ASSUME IInv, P!Reacquire, UNCHANGED shell
    PROVE  DrawerInv' /\ DrawerPasses /\ DrawerStays /\ Keeps
  <1>1. /\ DrawerInv /\ ctl \in Controller /\ UNCHANGED <<chain, parting, holder, issued>> /\ Keeps
        /\ ctl.phase \in {"lock-lost", "conflict"} /\ ctl' = P!Again
    BY DEF P!Reacquire, P!ReacquireOffered, P!server, IInv, DrawerInv, DrawerTypes, Keeps
  <1>2. PICK g \in Nat : g = ctl.gen + 1
    BY <1>1 DEF Controller
  <1>3. PICK z \in Nat : z = 0
    OBVIOUS
  <1>4. PICK r \in BOOLEAN : r = (ctl.recovery \/ ctl.draft # "none")
    OBVIOUS
  <1>5. ctl' = [ctl EXCEPT !.phase = "acquiring", !.gen = g, !.token = z, !.recovery = r,
                           !.draft = "none", !.beating = FALSE]
    BY <1>1, <1>2, <1>3, <1>4 DEF P!Again, P!Fresh
  <1>6. /\ ctl' \in Controller /\ ctl'.phase = "acquiring" /\ ctl'.gen = g /\ ctl'.token = z
        /\ ctl'.session = ctl.session /\ ctl'.draft = "none"
    BY <1>1, <1>5 DEF Controller
  <1>7. \A x \in calls : x.gen \in Nat /\ x.gen <= g /\ x.gen # g /\ (x.op # "acquire" => x.token # 0)
    <2> SUFFICES ASSUME NEW x \in calls
                 PROVE  x.gen \in Nat /\ x.gen <= g /\ x.gen # g /\ (x.op # "acquire" => x.token # 0)
      OBVIOUS
    <2>1. x.gen \in Nat /\ x.gen <= ctl.gen /\ ctl.gen \in Nat /\ (x.op # "acquire" => x.token # 0)
      BY <1>1 DEF DrawerInv, DrawerTypes, CallsFit, Call, Controller
    <2> QED BY <1>2, <2>1
  <1>8. ASSUME NEW op \in {"acquire", "again-release"}, NEW t \in Nat, calls' = calls \cup {P!Call(op, g, t)},
               op = "acquire" => t = z /\ released' = released /\ ~Live(ctl.session),
               op = "again-release" => t = ctl.session /\ t # 0 /\ released' = released \cup {t}
        PROVE  DrawerInv' /\ DrawerPasses
    <2> DEFINE d == P!Call(op, g, t)
    <2>1. d \in Call /\ d.op = op /\ d.gen = g /\ d.token = t /\ d.answer = "none"
      BY DEF P!Call, Call, Answers, P!Releases
    <2>2. calls' = calls \cup {d}
      BY <1>8
    <2> HIDE DEF d
    <2>3. t <= issued /\ z <= issued /\ issued' = issued
      BY <1>1, <1>3, <1>8 DEF DrawerInv, DrawerGiven, Given, IInv, ServerTypes
    <2>4. released' = released \/ released' = released \cup {t}
      BY <1>8
    <2>5. DrawerTypes' /\ DrawerGiven'
      BY <1>1, <1>6, <2>1, <2>2, <2>3, <2>4 DEF DrawerInv, DrawerTypes, DrawerGiven, Given
    <2>6. \A x \in calls : x.op = "acquire" /\ x.answer = "ok" => Fresh(x)'
      <3> SUFFICES ASSUME NEW x \in calls, x.op = "acquire", x.answer = "ok" PROVE Fresh(x)'
        OBVIOUS
      <3>1. Fresh(x) /\ x.token # 0 /\ t # x.token
        BY <1>1, <1>3, <1>8 DEF DrawerInv, CallsFit, Fresh
      <3> QED BY <1>1, <1>6, <1>8, <2>1, <2>2, <3>1 DEF Fresh
    <2>7. CallsFit'
      BY <1>1, <1>3, <1>6, <1>7, <1>8, <2>1, <2>2, <2>6 DEF DrawerInv, CallsFit, P!Releases, Live
    <2>8. ControllerFits'
      BY <1>1, <1>3, <1>6, <1>7, <1>8, <2>1, <2>2 DEF DrawerInv, ControllerFits, Owned
    <2>9. SessionFits'
      BY <1>1, <1>3, <1>6, <1>7, <1>8, <2>1, <2>2 DEF DrawerInv, SessionFits, Owned, Live
    <2>10. DrawerPasses
      BY <1>1, <1>6, <2>2 DEF DrawerPasses, DrawerHas
    <2> QED BY <2>5, <2>7, <2>8, <2>9, <2>10 DEF DrawerInv
  <1>9. CASE ctl.session # 0 /\ ctl.session \notin released
    <2>1. ctl.session \in Nat /\ calls' = calls \cup {P!Call("again-release", g, ctl.session)}
          /\ released' = released \cup {ctl.session}
      BY <1>1, <1>2, <1>9 DEF P!Reacquire, P!Fresh, P!Sent, Controller
    <2> QED BY <1>1, <1>8, <1>9, <2>1 DEF DrawerStays
  <1>10. CASE ~(ctl.session # 0 /\ ctl.session \notin released)
    <2>1. calls' = calls \cup {P!Call("acquire", g, z)} /\ released' = released
      BY <1>2, <1>3, <1>10 DEF P!Reacquire, P!Fresh
    <2>2. ~Live(ctl.session)
      BY <1>1, <1>10 DEF DrawerInv, SessionFits, Owned, Live
    <2> QED BY <1>1, <1>8, <2>1, <2>2 DEF DrawerStays
  <1> QED BY <1>9, <1>10

LEMMA ReleasedAgainStep ==
    ASSUME IInv, P!ReleasedAgain, UNCHANGED shell
    PROVE  DrawerInv' /\ DrawerPasses /\ DrawerStays /\ Keeps
  <1>0. PICK c \in calls :
        /\ c.op = "again-release" /\ P!Answered(c)
        /\ released' = (IF c.answer = "ok" THEN released ELSE released \ {c.token})
        /\ ctl' = [ctl EXCEPT !.session = IF @ = c.token THEN 0 ELSE @]
        /\ calls' = (calls \ {c}) \cup (IF ctl.gen = c.gen /\ ctl.phase = "acquiring"
                                        THEN {P!Call("acquire", c.gen, 0)} ELSE {})
        /\ abandoned' = (IF c.answer = "ok" THEN abandoned ELSE abandoned \cup {c.token})
    BY DEF P!ReleasedAgain, P!Abandon
  <1>1. /\ DrawerInv /\ ctl \in Controller /\ UNCHANGED <<chain, parting, holder, issued>> /\ Keeps
        /\ (c.answer = "ok" => ~Live(c.token)) /\ released' \subseteq released
        /\ c.token # 0 /\ c \in Call /\ c.gen \in Nat /\ c.gen <= ctl.gen /\ c.token # ctl.token
    BY <1>0 DEF P!ReleasedAgain, IInv, DrawerInv, DrawerTypes, Keeps, CallsFit, ControllerFits, P!Releases, Call
  <1>2. PICK z \in Nat : z = 0
    OBVIOUS
  <1>3. PICK s \in Nat : s = (IF ctl.session = c.token THEN z ELSE ctl.session)
    BY <1>1 DEF Controller
  <1>4. ctl' = [ctl EXCEPT !.session = s]
    BY <1>0, <1>2, <1>3
  <1>5. /\ ctl' \in Controller /\ ctl'.phase = ctl.phase /\ ctl'.gen = ctl.gen /\ ctl'.token = ctl.token
        /\ ctl'.session = s /\ ctl'.draft = ctl.draft /\ ctl'.under = ctl.under
    BY <1>1, <1>4 DEF Controller
  <1> DEFINE d == P!Call("acquire", c.gen, z)
  <1>6. d \in Call /\ d.op = "acquire" /\ d.gen = c.gen /\ d.token = z /\ d.answer = "none"
    BY <1>1 DEF P!Call, Call, Answers, P!Releases
  <1>7. \/ calls' = calls \ {c}
        \/ calls' = (calls \ {c}) \cup {d} /\ ctl.gen = c.gen /\ ctl.phase = "acquiring"
    BY <1>0, <1>2
  <1> HIDE DEF d
  <1>8. DrawerTypes' /\ DrawerGiven'
    BY <1>1, <1>2, <1>3, <1>5, <1>6, <1>7 DEF DrawerInv, DrawerTypes, DrawerGiven, Given, Controller, IInv, ServerTypes
  <1>9. \A x \in calls : x.op = "acquire" /\ x.answer = "ok" => Fresh(x)'
    <2> SUFFICES ASSUME NEW x \in calls, x.op = "acquire", x.answer = "ok" PROVE Fresh(x)'
      OBVIOUS
    <2>1. Fresh(x) /\ x.token # 0
      BY <1>1 DEF DrawerInv, CallsFit
    <2> QED BY <1>1, <1>2, <1>3, <1>5, <1>6, <1>7, <2>1 DEF Fresh
  <1>10. CallsFit'
    BY <1>1, <1>2, <1>5, <1>6, <1>7, <1>9 DEF DrawerInv, CallsFit, P!Releases, Live
  <1>11. ControllerFits'
    BY <1>1, <1>2, <1>3, <1>5, <1>6, <1>7 DEF DrawerInv, ControllerFits, Owned
  <1>12. Live(s) => s = ctl.session /\ calls' \subseteq calls
    BY <1>0, <1>1, <1>2, <1>3, <1>7 DEF DrawerInv, SessionFits, Owned, Live
  <1>13. SessionFits'
    <2>1. CASE Live(s)
      BY <1>1, <1>5, <1>12, <2>1 DEF DrawerInv, SessionFits, Owned, Live
    <2>2. CASE ~Live(s)
      BY <1>1, <1>2, <1>3, <1>5, <1>6, <1>7, <2>2 DEF DrawerInv, SessionFits, Owned, Live
    <2> QED BY <2>1, <2>2
  <1>14. DrawerPasses
    <2>1. CASE holder = c.token
      BY <1>0, <1>1, <2>1 DEF DrawerPasses, Live
    <2>2. CASE holder # c.token
      BY <1>1, <1>3, <1>5, <1>7, <2>2 DEF DrawerPasses, DrawerHas
    <2> QED BY <2>1, <2>2
  <1> QED BY <1>1, <1>5, <1>8, <1>10, <1>11, <1>13, <1>14 DEF DrawerInv, DrawerStays


LEMMA SessionGeneration ==
    ASSUME IInv, P!Next
    PROVE  SessionIsOfThePast'
  <1>1. /\ DrawerInv /\ ctl \in Controller /\ ctl.sessionGen <= ctl.gen
        /\ ctl.gen \in Nat /\ ctl.sessionGen \in Nat /\ ctl.gen + 1 \in Nat
    BY DEF IInv, DrawerInv, DrawerTypes, SessionIsOfThePast, Controller
  <1>2. ASSUME ctl' = P!LoseLock(ctl) PROVE SessionIsOfThePast'
    <2>1. ctl'.gen = ctl.gen + 1
      BY <1>1, <1>2, LockLost
    <2>2. ctl'.sessionGen = ctl.sessionGen
      BY <1>1, <1>2 DEF P!LoseLock, Controller
    <2> QED BY <1>1, <2>1, <2>2 DEF SessionIsOfThePast
  <1>3. ASSUME ctl' = P!Ended PROVE SessionIsOfThePast'
    <2>1. ctl'.sessionGen = ctl.sessionGen /\ ctl'.gen = ctl.gen
      BY <1>1, <1>3 DEF P!Ended, Controller
    <2> QED BY <1>1, <2>1 DEF SessionIsOfThePast
  <1>4. CASE P!Serve \/ P!Fail \/ P!Heartbeat \/ P!DropAnswered \/ P!Unload
    BY <1>1, <1>4 DEF P!Serve, P!Fail, P!Heartbeat, P!DropAnswered, P!Unload, SessionIsOfThePast
  <1>5. CASE P!AcquireAnswered
    <2>1. PICK c \in calls : \/ ctl' = ctl
                             \/ ctl' = [ctl EXCEPT !.phase = "conflict"]
                             \/ /\ ctl.gen = c.gen
                                /\ ctl' = [ctl EXCEPT !.phase = "loading-profile", !.token = c.token,
                                            !.session = c.token, !.sessionGen = c.gen, !.beating = TRUE]
      BY <1>5 DEF P!AcquireAnswered
    <2>2. ctl'.gen = ctl.gen /\ ctl'.sessionGen \in {ctl.sessionGen, ctl.gen}
      BY <1>1, <2>1 DEF Controller
    <2> QED BY <1>1, <2>2 DEF SessionIsOfThePast
  <1>6. CASE P!LoadAnswered
    <2>1. PICK t : \/ ctl' = ctl
                   \/ ctl' = [ctl EXCEPT !.phase = "editable", !.draft = "clean", !.under = t]
                   \/ ctl' = [ctl EXCEPT !.phase = "load-error"]
      <3>1. PICK c \in calls :
              ctl' = CASE ~P!Owns(c) -> ctl
                       [] P!Owns(c) /\ c.answer = "ok" ->
                            [ctl EXCEPT !.phase = "editable", !.draft = "clean", !.under = c.token]
                       [] OTHER -> [ctl EXCEPT !.phase = "load-error"]
        BY <1>6 DEF P!LoadAnswered
      <3> QED BY <3>1
    <2> QED BY <1>1, <2>1 DEF SessionIsOfThePast, Controller
  <1>7. CASE P!RetryLoad \/ P!Save \/ P!UpdateDraft
    <2>1. \/ ctl' = [ctl EXCEPT !.phase = "loading-profile"]
          \/ ctl' = [ctl EXCEPT !.phase = "saving"]
          \/ \E d : ctl' = [ctl EXCEPT !.draft = d]
      BY <1>7 DEF P!RetryLoad, P!Save, P!UpdateDraft
    <2> QED BY <1>1, <2>1 DEF SessionIsOfThePast, Controller
  <1>8. CASE P!HeartbeatAnswered
    <2>1. ctl' = P!LoseLock(ctl) \/ ctl' = ctl
      BY <1>8 DEF P!HeartbeatAnswered
    <2> QED BY <1>1, <1>2, <2>1 DEF SessionIsOfThePast
  <1>9. CASE P!PatchAnswered
    <2>1. \/ ctl' = ctl \/ ctl' = P!LoseLock(ctl)
          \/ ctl' = [ctl EXCEPT !.draft = "clean"]
          \/ ctl' = [ctl EXCEPT !.phase = "editable"]
      BY <1>9 DEF P!PatchAnswered
    <2> QED BY <1>1, <1>2, <2>1 DEF SessionIsOfThePast, Controller
  <1>10. CASE P!Refreshed
    <2>1. ctl' = ctl \/ ctl' = [ctl EXCEPT !.phase = "releasing", !.beating = FALSE]
      BY <1>10 DEF P!Refreshed
    <2> QED BY <1>1, <2>1 DEF SessionIsOfThePast, Controller
  <1>11. CASE P!SaveReleased \/ P!CloseReleased
    <2>1. ctl' = ctl \/ ctl' = P!Ended \/ \E h : ctl' = [ctl EXCEPT !.phase = h]
      <3>1. CASE P!SaveReleased
        <4>1. PICK c \in calls :
               ctl' = CASE ~P!Owns(c) \/ ctl.phase # "releasing" -> ctl
                        [] P!Owns(c) /\ ctl.phase = "releasing" /\ c.answer = "ok" -> P!Ended
                        [] OTHER -> [ctl EXCEPT !.phase = "editable"]
          BY <3>1 DEF P!SaveReleased
        <4> QED BY <4>1
      <3>2. CASE P!CloseReleased
        <4>1. PICK c \in calls :
               ctl' = CASE ~P!Owns(c) \/ ctl.phase # "releasing" -> ctl
                        [] P!Owns(c) /\ ctl.phase = "releasing" /\ c.answer = "ok" -> P!Ended
                        [] OTHER -> [ctl EXCEPT !.phase = IF ctl.draft = "none" THEN "load-error" ELSE "editable"]
          BY <3>2 DEF P!CloseReleased
        <4> QED BY <4>1
      <3> QED BY <1>11, <3>1, <3>2
    <2> QED BY <1>1, <1>3, <2>1 DEF SessionIsOfThePast, Controller
  <1>12. CASE P!Close
    <2>1. PICK g \in Nat : g = ctl.gen + 1
      BY <1>1
    <2>2. \/ ctl' = [P!Ended EXCEPT !.gen = g, !.beating = FALSE]
          \/ ctl' = [ctl EXCEPT !.phase = "releasing", !.gen = g, !.beating = FALSE]
      BY <1>12, <2>1 DEF P!Close, P!Fresh
    <2>3. ctl'.gen = g /\ ctl'.sessionGen = ctl.sessionGen
      BY <1>1, <2>2 DEF P!Ended, Controller
    <2> QED BY <1>1, <2>1, <2>3 DEF SessionIsOfThePast
  <1>13. CASE P!Reacquire
    <2>1. PICK g \in Nat : g = ctl.gen + 1
      BY <1>1
    <2>2. ctl'.gen = g /\ ctl'.sessionGen = ctl.sessionGen
      BY <1>1, <1>13, <2>1 DEF P!Reacquire, P!Again, P!Fresh, Controller
    <2> QED BY <1>1, <2>1, <2>2 DEF SessionIsOfThePast
  <1>14. CASE P!ReleasedAgain
    <2>1. ctl'.gen = ctl.gen /\ ctl'.sessionGen = ctl.sessionGen
      BY <1>1, <1>14 DEF P!ReleasedAgain, Controller
    <2> QED BY <1>1, <2>1 DEF SessionIsOfThePast
  <1> QED BY <1>4, <1>5, <1>6, <1>7, <1>8, <1>9, <1>10, <1>11, <1>12, <1>13, <1>14 DEF P!Next

(* Every step of the drawer keeps its invariant.                               *)
LEMMA DrawerStep ==
    ASSUME IInv, P!Next, UNCHANGED shell
    PROVE  DrawerInv' /\ SessionIsOfThePast' /\ DrawerPasses /\ DrawerStays /\ (Grants \/ Keeps)
  BY ServeCall, FailCall, AcquireAnsweredStep, LoadAnsweredStep, SendStep, BeatAnsweredStep,
     UpdateDraftStep, PatchAnsweredStep, RefreshedStep, SaveReleasedStep, CloseStep, CloseReleasedStep,
     ReacquireDrawer, ReleasedAgainStep, DropAnsweredStep, SessionGeneration
  DEF P!Next


-----------------------------------------------------------------------------
(* The page opens the drawer and disposes of it.                               *)

LEMMA BeginOpenStep ==
    ASSUME IInv, P!BeginOpen, ctl.phase = "closed", UNCHANGED <<holder, issued>>
    PROVE  DrawerInv' /\ SessionIsOfThePast' /\ DrawerPasses /\ ctl'.phase = "acquiring"
  <1>1. /\ DrawerInv /\ ctl \in Controller /\ UNCHANGED <<released, chain, parting>>
    BY DEF P!BeginOpen, IInv, DrawerInv, DrawerTypes
  <1>2. PICK g \in Nat : g = ctl.gen + 1
    BY <1>1 DEF Controller
  <1>3. PICK z \in Nat : z = 0
    OBVIOUS
  <1>4. PICK r \in BOOLEAN : r = ctl.recovery
    BY <1>1 DEF Controller
  <1>5. ctl' = [phase |-> "acquiring", gen |-> g, token |-> z, session |-> z, sessionGen |-> z,
                draft |-> "none", under |-> z, recovery |-> r, beating |-> FALSE]
    BY <1>2, <1>3, <1>4 DEF P!BeginOpen, P!Closed, P!Fresh
  <1>6. /\ ctl' \in Controller /\ ctl'.phase = "acquiring" /\ ctl'.gen = g /\ ctl'.token = z
        /\ ctl'.session = z /\ ctl'.sessionGen = z /\ ctl'.draft = "none"
    BY <1>5 DEF Controller
  <1> DEFINE d == P!Call("acquire", g, z)
  <1>7. d \in Call /\ d.op = "acquire" /\ d.gen = g /\ d.token = z /\ d.answer = "none"
    BY DEF P!Call, Call, Answers, P!Releases
  <1>8. calls' = calls \cup {d}
    BY <1>2, <1>3 DEF P!BeginOpen, P!Fresh
  <1> HIDE DEF d
  <1>9. \A x \in calls : x.gen \in Nat /\ x.gen <= g /\ x.gen # g /\ (x.op # "acquire" => x.token # 0)
    <2> SUFFICES ASSUME NEW x \in calls
                 PROVE  x.gen \in Nat /\ x.gen <= g /\ x.gen # g /\ (x.op # "acquire" => x.token # 0)
      OBVIOUS
    <2>1. x.gen \in Nat /\ x.gen <= ctl.gen /\ ctl.gen \in Nat /\ (x.op # "acquire" => x.token # 0)
      BY <1>1 DEF DrawerInv, DrawerTypes, CallsFit, Call, Controller
    <2> QED BY <1>2, <2>1
  <1>10. z <= issued /\ z <= g /\ ctl.session = 0
    BY <1>1, <1>3 DEF IInv, ServerTypes, DrawerInv, ControllerFits
  <1>11. DrawerTypes' /\ DrawerGiven'
    BY <1>1, <1>6, <1>7, <1>8, <1>10 DEF DrawerInv, DrawerTypes, DrawerGiven, Given
  <1>12. \A x \in calls : x.op = "acquire" /\ x.answer = "ok" => Fresh(x)'
    <2> SUFFICES ASSUME NEW x \in calls, x.op = "acquire", x.answer = "ok" PROVE Fresh(x)'
      OBVIOUS
    <2>1. Fresh(x) /\ x.token # 0
      BY <1>1 DEF DrawerInv, CallsFit
    <2> QED BY <1>1, <1>3, <1>6, <1>7, <1>8, <2>1 DEF Fresh
  <1>13. CallsFit'
    BY <1>1, <1>3, <1>6, <1>7, <1>8, <1>9, <1>12 DEF DrawerInv, CallsFit, P!Releases, Live
  <1>14. ControllerFits'
    BY <1>1, <1>3, <1>6, <1>7, <1>8, <1>9 DEF DrawerInv, ControllerFits, Owned
  <1>15. SessionFits'
    BY <1>1, <1>3, <1>6, <1>7, <1>8, <1>9 DEF DrawerInv, SessionFits, Owned, Live
  <1>16. SessionIsOfThePast' /\ DrawerPasses
    BY <1>1, <1>6, <1>8, <1>10 DEF SessionIsOfThePast, DrawerPasses, DrawerHas
  <1> QED BY <1>6, <1>11, <1>13, <1>14, <1>15, <1>16 DEF DrawerInv

LEMMA DisposeStep ==
    ASSUME IInv, P!Dispose, P!MayNavigate \/ holder = 0, UNCHANGED <<holder, issued>>
    PROVE  DrawerInv' /\ SessionIsOfThePast' /\ DrawerPasses /\ ctl'.phase = "closed"
  <1>1. /\ DrawerInv /\ ctl \in Controller /\ UNCHANGED chain
    BY DEF P!Dispose, IInv, DrawerInv, DrawerTypes
  <1>2. PICK g \in Nat : g = ctl.gen + 1
    BY <1>1 DEF Controller
  <1>3. PICK z \in Nat : z = 0
    OBVIOUS
  <1>4. ctl' = [phase |-> "closed", gen |-> g, token |-> z, session |-> z, sessionGen |-> z,
                draft |-> "none", under |-> z, recovery |-> FALSE, beating |-> FALSE]
    BY <1>2, <1>3 DEF P!Dispose, P!Closed, P!Fresh
  <1>5. /\ ctl' \in Controller /\ ctl'.phase = "closed" /\ ctl'.gen = g /\ ctl'.token = z
        /\ ctl'.session = z /\ ctl'.sessionGen = z /\ ctl'.draft = "none"
    BY <1>4 DEF Controller
  <1>6. \A x \in calls : x.gen \in Nat /\ x.gen <= g /\ x.gen # g /\ (x.op # "acquire" => x.token # 0)
    <2> SUFFICES ASSUME NEW x \in calls
                 PROVE  x.gen \in Nat /\ x.gen <= g /\ x.gen # g /\ (x.op # "acquire" => x.token # 0)
      OBVIOUS
    <2>1. x.gen \in Nat /\ x.gen <= ctl.gen /\ ctl.gen \in Nat /\ (x.op # "acquire" => x.token # 0)
      BY <1>1 DEF DrawerInv, DrawerTypes, CallsFit, Call, Controller
    <2> QED BY <1>2, <2>1
  <1>7. /\ z <= issued /\ z <= g /\ ctl.session <= issued /\ ctl.session \in Nat
        /\ ctl.sessionGen \in Nat /\ ctl.sessionGen <= g
    <2>1. ctl.sessionGen <= ctl.gen /\ ctl.sessionGen \in Nat /\ ctl.gen \in Nat /\ issued \in Nat
      BY <1>1 DEF IInv, SessionIsOfThePast, Controller, ServerTypes
    <2>2. ctl.session <= issued /\ ctl.session \in Nat
      BY <1>1 DEF DrawerInv, DrawerGiven, Given, Controller
    <2> QED BY <1>2, <1>3, <2>1, <2>2
  <1>8. ctl.phase \notin {"acquiring", "releasing", "loading-profile"} \/ holder = 0
    BY DEF P!MayNavigate, P!Frozen, P!CloseDisabled
  <1>9. Live(ctl.session) => ctl.session \notin released
    BY <1>1, <1>8 DEF DrawerInv, SessionFits, Owned, Live
  <1>10. \A x \in calls : x.op \in {"save-release", "close-release", "load"} => ~Live(x.token) \/ ~Owned(x)
    BY <1>1, <1>8 DEF DrawerInv, SessionFits, Owned, Live
  <1>11. \A x \in calls : x.op \in {"save-release", "close-release"} => ~Live(x.token)
    BY <1>1, <1>10 DEF DrawerInv, SessionFits, Owned, Live
  <1>12. SessionIsOfThePast'
    BY <1>5, <1>7 DEF SessionIsOfThePast
  <1> DEFINE p == [gen |-> ctl.sessionGen, token |-> ctl.session]
  <1> DEFINE d == P!Call("drop", ctl.sessionGen, ctl.session)
  <1>13. /\ p \in Session /\ p.token = ctl.session
         /\ d \in Call /\ d.op = "drop" /\ d.gen = ctl.sessionGen /\ d.token = ctl.session /\ d.answer = "none"
    BY <1>7 DEF Session, P!Call, Call, Answers, P!Releases
  <1>14. \/ calls' = calls /\ released' = released /\ parting' = parting /\ ctl.session = 0
         \/ calls' = calls /\ released' = released /\ parting' = parting \cup {p} /\ ctl.session # 0
         \/ /\ ctl.session # 0 /\ parting' = parting /\ released' = released \cup {ctl.session}
            /\ calls' = calls \cup {d} \/ (calls' = calls /\ ctl.session \in released)
    BY DEF P!Dispose, P!ReleaseOnce, P!Sent
  <1> HIDE DEF p, d
  <1>15. DrawerTypes' /\ DrawerGiven'
    BY <1>1, <1>5, <1>7, <1>13, <1>14 DEF DrawerInv, DrawerTypes, DrawerGiven, Given
  <1>16. \A x \in calls : x.op = "acquire" /\ x.answer = "ok" => Fresh(x)'
    <2> SUFFICES ASSUME NEW x \in calls, x.op = "acquire", x.answer = "ok" PROVE Fresh(x)'
      OBVIOUS
    <2>1. Fresh(x) /\ x.token # 0 /\ x.token # ctl.session
      BY <1>1 DEF DrawerInv, CallsFit, Fresh
    <2> QED BY <1>1, <1>3, <1>5, <1>13, <1>14, <2>1 DEF Fresh
  <1>17. CallsFit'
    BY <1>1, <1>3, <1>5, <1>6, <1>7, <1>13, <1>14, <1>16 DEF DrawerInv, CallsFit, P!Releases, Live
  <1>18. ControllerFits'
    BY <1>1, <1>3, <1>5, <1>6, <1>13, <1>14 DEF DrawerInv, ControllerFits, Owned
  <1>19. SessionFits'
    <2>1. \A q \in parting' : Live(q.token) =>
            /\ q.token # z /\ q.token \notin released'
            /\ \A r \in parting' : r.token = q.token => r = q
      BY <1>1, <1>3, <1>9, <1>13, <1>14 DEF DrawerInv, SessionFits, Owned, Live
    <2> QED BY <1>3, <1>5, <1>6, <1>11, <1>13, <1>14, <2>1 DEF DrawerInv, SessionFits, Owned, Live
  <1>20. DrawerPasses
    BY <1>1, <1>5, <1>9, <1>13, <1>14 DEF DrawerPasses, DrawerHas, P!Releases, Live
  <1> QED BY <1>5, <1>12, <1>15, <1>17, <1>18, <1>19, <1>20 DEF DrawerInv


-----------------------------------------------------------------------------
(* The parts of the page that a step leaves alone.                             *)

(* What a step does to the lock, the project and the tokens left to expire.    *)
Serves == /\ drafting' = drafting /\ abandoned' \in SUBSET Nat /\ abandoned \subseteq abandoned'
          /\ (holder' \in {0, holder} \/ drafting)

LEMMA SheetServes == ASSUME IInv, S!Next PROVE Serves
  <1>1. /\ abandoned \in SUBSET Nat /\ SheetTypes /\ \A a \in asks : a.token \in Nat
    BY DEF IInv, ServerTypes, SheetInv, SheetTypes, Ask
  <1>2. CASE S!Serve
    BY <1>1, <1>2 DEF S!Serve, Serves
  <1>3. CASE S!Fail
    <2>1. PICK a \in asks : abandoned' = abandoned \/ abandoned' = abandoned \cup {a.token}
      BY <1>3 DEF S!Fail, S!Abandon
    <2> QED BY <1>1, <1>3, <2>1 DEF S!Fail, Serves
  <1>4. CASE S!WriteAnswered
    <2>1. PICK a \in asks : abandoned' = abandoned \/ abandoned' = abandoned \cup {a.token}
      BY <1>4 DEF S!WriteAnswered, S!Abandon
    <2> QED BY <1>1, <1>4, <2>1 DEF S!WriteAnswered, Serves
  <1>5. CASE UNCHANGED server
    BY <1>1, <1>5 DEF server, Serves
  <1> QED BY <1>2, <1>3, <1>4, <1>5
      DEF S!Next, S!server, server, S!Reacquire, S!ReadonlyRetry, S!AcquireAnswered, S!Heartbeat,
          S!HeartbeatAnswered, S!Edit, S!Write, S!SuspendReleases, S!SuspendAnswered, S!BeforeUnload

LEMMA DrawerServes == ASSUME IInv, P!Next PROVE Serves
  <1>1. /\ abandoned \in SUBSET Nat /\ DrawerTypes /\ \A c \in calls : c.token \in Nat
    BY DEF IInv, ServerTypes, DrawerInv, DrawerTypes, Call
  <1>2. CASE P!Serve
    BY <1>1, <1>2 DEF P!Serve, Serves
  <1>3. CASE P!ReleasedAgain \/ P!DropAnswered
    <2>1. PICK c \in calls : abandoned' = abandoned \/ abandoned' = abandoned \cup {c.token}
      BY <1>3 DEF P!ReleasedAgain, P!DropAnswered, P!Abandon
    <2> QED BY <1>1, <1>3, <2>1 DEF P!ReleasedAgain, P!DropAnswered, Serves
  <1>4. CASE UNCHANGED server
    BY <1>1, <1>4 DEF server, Serves
  <1> QED BY <1>2, <1>3, <1>4
      DEF P!Next, P!server, server, P!Fail, P!AcquireAnswered, P!LoadAnswered, P!RetryLoad, P!Heartbeat,
          P!HeartbeatAnswered, P!UpdateDraft, P!Save, P!PatchAnswered, P!Refreshed, P!SaveReleased,
          P!Close, P!CloseReleased, P!Reacquire, P!Unload

LEMMA ServerStays ==
    ASSUME ServerTypes, Serves, Grants \/ Keeps
    PROVE  ServerTypes'
  BY DEF ServerTypes, Serves, Grants, Keeps

LEMMA SheetFrame ==
    ASSUME IInv, UNCHANGED <<sheet, asks>>, Grants \/ Keeps,
           sheet.on => /\ shell'.mutation # "none" \/ sheet.stage # "no" => sheet.suspended
                       /\ sheet.stage = "done" \/ shell'.orphan \/ shell'.mutation \notin {"none", "handoff"} => Stopped
    PROVE  SheetInv'
  <1>1. /\ SheetInv /\ ServerTypes /\ SheetTypes
        /\ NoneRevives /\ GivenStays
    BY Revival DEF IInv, SheetInv
  <1>2. SheetTypes' /\ SheetGiven'
    BY <1>1 DEF SheetInv, SheetTypes, SheetGiven, Given, GivenStays, Sheet, Ask
  <1>3. /\ sheet.token \in Nat /\ (~Live(sheet.token) => ~Live(sheet.token)')
        /\ \A a \in asks : a.token \in Nat /\ (~Live(a.token) => ~Live(a.token)')
    BY <1>1 DEF SheetInv, SheetTypes, SheetGiven, Given, NoneRevives, Sheet, Ask
  <1>4. AsksFit'
    BY <1>1, <1>3 DEF SheetInv, AsksFit
  <1>5. SheetFits'
    BY <1>1, <1>3 DEF SheetInv, SheetFits, MountFits, Stopped, Quiet, Acquires, Suspends, Uses, Mine, Idle
  <1> QED BY <1>2, <1>4, <1>5 DEF SheetInv

LEMMA DrawerFrame ==
    ASSUME IInv, UNCHANGED drawerVars, Grants \/ Keeps
    PROVE  DrawerInv' /\ SessionIsOfThePast' /\ \A t : DrawerHas(t) => DrawerHas(t)'
  <1>1. /\ DrawerInv /\ ServerTypes /\ DrawerTypes /\ SessionIsOfThePast
        /\ NoneRevives /\ GivenStays /\ UNCHANGED <<ctl, calls, released, chain, parting>>
    BY Revival DEF IInv, DrawerInv, drawerVars
  <1>2. DrawerTypes' /\ DrawerGiven'
    BY <1>1 DEF DrawerInv, DrawerTypes, DrawerGiven, Given, GivenStays, Controller, Call, Session
  <1>3. /\ Live(ctl.session)' => Live(ctl.session)
        /\ \A c \in calls : (Live(c.token)' => Live(c.token))
        /\ \A p \in parting : (Live(p.token)' => Live(p.token))
    BY <1>1 DEF DrawerInv, DrawerTypes, DrawerGiven, Given, NoneRevives, Controller, Call, Session
  <1>4. CallsFit'
    BY <1>1, <1>3 DEF DrawerInv, CallsFit, Fresh
  <1>5. ControllerFits'
    BY <1>1 DEF DrawerInv, ControllerFits, Owned
  <1>6. SessionFits'
    BY <1>1, <1>3 DEF DrawerInv, SessionFits, Owned
  <1>7. SessionIsOfThePast' /\ \A t : DrawerHas(t) => DrawerHas(t)'
    BY <1>1 DEF SessionIsOfThePast, DrawerHas
  <1> QED BY <1>2, <1>4, <1>5, <1>6, <1>7 DEF DrawerInv

(* The lock has somebody still, when what was in hand of one part is there, or  *)
(* with the server.                                                            *)
LEMMA HeldOn ==
    ASSUME IInv, holder' \in {0, holder}, SheetPasses, DrawerPasses, abandoned \subseteq abandoned',
           modal'.token = modal.token \/ ~Live(modal.token)
    PROVE  LockIsHeld'
  BY DEF IInv, LockIsHeld, SheetPasses, DrawerPasses, Live

(* The page is as before, or is as it should be, with the project's status.     *)
LEMMA PageFrame ==
    ASSUME IInv, UNCHANGED <<shell, modal>>, Grants \/ Keeps, sheet'.on = sheet.on,
           sheet'.stage = "no" <=> sheet.stage = "no", ctl.phase = "closed" => ctl'.phase = "closed"
    PROVE  PageInv'
  <1>1. PageInv /\ ServerTypes /\ GivenStays
    BY Revival DEF IInv
  <1>2. PageTypes' /\ Given(modal.token)'
    BY <1>1 DEF PageInv, PageTypes, Given, GivenStays, Dialog
  <1>3. PageFits'
    BY <1>1 DEF PageInv, PageFits, Idle
  <1> QED BY <1>2, <1>3 DEF PageInv


-----------------------------------------------------------------------------
(* The steps of the page.                                                      *)

LEMMA SheetActsStep ==
    ASSUME IInv, ~LateAnswers, SheetActs
    PROVE  IInv'
  <1>1. /\ S!Next /\ UNCHANGED <<shell, modal>> /\ UNCHANGED drawerVars
    BY DEF SheetActs, OnlySheet, drawerVars
  <1>2. SheetInv' /\ SheetPasses /\ SheetStays /\ (Grants \/ Keeps) /\ Serves
    BY <1>1, SheetStep, SheetServes
  <1>3. DrawerInv' /\ SessionIsOfThePast' /\ \A t : DrawerHas(t) => DrawerHas(t)'
    BY <1>1, <1>2, DrawerFrame
  <1>4. ServerTypes'
    BY <1>2, ServerStays DEF IInv
  <1>5. PageInv'
    BY <1>1, <1>2, PageFrame DEF SheetStays, drawerVars
  <1>6. LockIsHeld'
    <2>1. CASE holder' \in {0, holder}
      <3>1. DrawerPasses
        BY <1>3, <2>1 DEF DrawerPasses
      <3> QED BY <1>1, <1>2, <2>1, <3>1, HeldOn DEF Serves
    <2>2. CASE holder' \notin {0, holder}
      BY <1>2, <2>2 DEF SheetPasses, LockIsHeld
    <2> QED BY <2>1, <2>2
  <1> QED BY <1>2, <1>3, <1>4, <1>5, <1>6 DEF IInv

LEMMA DrawerActsStep ==
    ASSUME IInv, DrawerActs
    PROVE  IInv'
  <1>1. P!Next /\ UNCHANGED <<sheet, asks, shell, modal>>
    BY DEF DrawerActs, OnlyDrawer
  <1>2. DrawerInv' /\ SessionIsOfThePast' /\ DrawerPasses /\ DrawerStays /\ (Grants \/ Keeps) /\ Serves
    BY <1>1, DrawerStep, DrawerServes
  <1>3. SheetInv'
    BY <1>1, <1>2, SheetFrame DEF IInv, SheetInv, SheetFits, Idle
  <1>4. ServerTypes'
    BY <1>2, ServerStays DEF IInv
  <1>5. PageInv'
    BY <1>1, <1>2, PageFrame DEF DrawerStays
  <1>6. LockIsHeld'
    <2>1. CASE holder' \in {0, holder}
      <3>1. SheetPasses
        BY <1>1, <2>1 DEF SheetPasses, SheetHas
      <3> QED BY <1>1, <1>2, <2>1, <3>1, HeldOn DEF Serves
    <2>2. CASE holder' \notin {0, holder}
      BY <1>2, <2>2 DEF DrawerPasses, LockIsHeld
    <2> QED BY <2>1, <2>2
  <1> QED BY <1>2, <1>3, <1>4, <1>5, <1>6 DEF IInv

LEMMA OthersStep ==
    ASSUME IInv, Others
    PROVE  IInv'
  <1>1. /\ UNCHANGED <<sheet, asks, shell, modal>> /\ UNCHANGED drawerVars
        /\ Expire \/ OtherTakes \/ StatusChanges
    BY DEF Others, drawerVars
  <1>2. ServerTypes /\ issued \in Nat /\ issued + 1 \in Nat
    BY DEF IInv, ServerTypes
  <1>3. Grants \/ Keeps
    BY <1>1 DEF Expire, OtherTakes, StatusChanges, Grants, Keeps
  <1>4. /\ ServerTypes' /\ abandoned \subseteq abandoned'
        /\ holder' \in {0, holder} \/ holder' \in abandoned'
    BY <1>1, <1>2 DEF ServerTypes, Expire, OtherTakes, StatusChanges
  <1>5. SheetInv'
    BY <1>1, <1>3, SheetFrame DEF IInv, SheetInv, SheetFits, Idle
  <1>6. DrawerInv' /\ SessionIsOfThePast' /\ \A t : DrawerHas(t) => DrawerHas(t)'
    BY <1>1, <1>3, DrawerFrame
  <1>7. PageInv'
    BY <1>1, <1>3, PageFrame DEF drawerVars
  <1>8. LockIsHeld'
    <2>1. CASE holder' \in {0, holder}
      <3>1. SheetPasses /\ DrawerPasses
        BY <1>1, <1>6, <2>1 DEF SheetPasses, SheetHas, DrawerPasses
      <3> QED BY <1>1, <1>4, <2>1, <3>1, HeldOn
    <2>2. CASE holder' \in abandoned'
      BY <2>2 DEF LockIsHeld
    <2> QED BY <1>4, <2>1, <2>2
  <1> QED BY <1>4, <1>5, <1>6, <1>7, <1>8 DEF IInv


(* What the page does to the sheet: mounts it, leaves it, suspends and resumes  *)
(* it, and ends a suspension.                                                  *)
LEMMA MountStep ==
    ASSUME IInv, ~sheet.on, NEW b \in Ask, UNCHANGED <<holder, issued>>, sheet' \in Sheet,
           sheet'.on, sheet'.gen = sheet.gen + 1, sheet'.token = 0, sheet'.stage = "no",
           sheet'.status # "held",
           b.op = "acquire", b.gen = sheet'.gen, b.token = 0, b.answer = "none",
           asks' = IF sheet'.seeking THEN asks \cup {b} ELSE asks,
           shell'.mutation # "none" => sheet'.suspended,
           shell'.orphan \/ shell'.mutation \notin {"none", "handoff"} => ~sheet'.seeking
    PROVE  SheetInv' /\ SheetPasses
  <1>1. /\ SheetInv /\ sheet \in Sheet /\ asks \in SUBSET Ask /\ issued \in Nat
    BY DEF IInv, SheetInv, SheetTypes, ServerTypes
  <1>2. \A x \in asks : x.gen \in Nat /\ x.gen <= sheet'.gen /\ x.gen # sheet'.gen
    <2> SUFFICES ASSUME NEW x \in asks PROVE x.gen \in Nat /\ x.gen <= sheet'.gen /\ x.gen # sheet'.gen
      OBVIOUS
    <2>1. x.gen \in Nat /\ x.gen <= sheet.gen /\ sheet.gen \in Nat
      BY <1>1 DEF SheetInv, AsksFit, Ask, Sheet
    <2> QED BY <2>1
  <1>3. SheetTypes' /\ SheetGiven'
    BY <1>1 DEF SheetInv, SheetTypes, SheetGiven, Given
  <1>4. b.gen <= sheet'.gen
    BY <1>1 DEF Sheet
  <1>5. AsksFit'
    BY <1>1, <1>2, <1>4 DEF SheetInv, AsksFit, Live
  <1>6. SheetFits'
    BY <1>1, <1>2 DEF SheetFits, MountFits, Stopped, Quiet, Acquires, Suspends, Uses, Mine, Idle, Live
  <1>7. SheetPasses
    BY <1>1 DEF SheetPasses, SheetHas
  <1> QED BY <1>3, <1>5, <1>6, <1>7 DEF SheetInv

LEMMA LeftStep ==
    ASSUME IInv, sheet' = S!Left, asks' = asks \cup S!Leave(sheet), UNCHANGED <<holder, issued>>,
           sheet.work # "writing" \/ holder = 0
    PROVE  SheetInv' /\ SheetPasses /\ ~sheet'.on /\ sheet'.stage = "no"
  <1>1. /\ SheetInv /\ sheet \in Sheet /\ asks \in SUBSET Ask /\ issued \in Nat
        /\ sheet.token \in Nat /\ sheet.gen \in Nat
    BY DEF IInv, SheetInv, SheetTypes, ServerTypes, Sheet
  <1>2. PICK z \in Nat : z = 0
    OBVIOUS
  <1>3. sheet' = [sheet EXCEPT !.on = FALSE, !.status = "acquiring", !.token = z, !.beating = FALSE,
                      !.work = "none", !.seeking = FALSE, !.stage = "no", !.suspended = FALSE]
    BY <1>2 DEF S!Left
  <1>4. /\ sheet' \in Sheet /\ ~sheet'.on /\ sheet'.gen = sheet.gen /\ sheet'.token = z
        /\ sheet'.status = "acquiring" /\ sheet'.stage = "no"
    BY <1>1, <1>3 DEF Sheet
  <1> DEFINE b == [S!Ask("drop", sheet.token) EXCEPT !.gen = sheet.gen]
  <1>5. b \in Ask /\ b.op = "drop" /\ b.gen = sheet.gen /\ b.token = sheet.token /\ b.answer = "none"
    BY <1>1 DEF S!Ask, Ask, Answers
  <1>6. \/ asks' = asks /\ (sheet.token = 0 \/ (sheet.status = "held" /\ sheet.work = "writing"))
        \/ asks' = asks \cup {b}
    BY DEF S!Leave
  <1> HIDE DEF b
  <1>7. z <= issued /\ b.gen <= sheet.gen
    BY <1>1, <1>2, <1>5
  <1>8. SheetTypes' /\ SheetGiven'
    BY <1>1, <1>4, <1>5, <1>6, <1>7 DEF SheetInv, SheetTypes, SheetGiven, Given
  <1>9. AsksFit'
    BY <1>1, <1>4, <1>5, <1>6, <1>7 DEF SheetInv, AsksFit, Live
  <1>10. SheetFits'
    BY <1>4 DEF SheetFits
  <1>11. SheetPasses
    BY <1>1, <1>4, <1>5, <1>6 DEF SheetPasses, SheetHas
  <1> QED BY <1>4, <1>8, <1>9, <1>10, <1>11 DEF SheetInv

LEMMA SuspendStep ==
    ASSUME IInv, sheet' = S!Suspended(sheet), UNCHANGED <<asks, holder, issued>>, Idle, sheet.on,
           shell'.mutation = "handoff", ~shell'.orphan
    PROVE  SheetInv' /\ SheetPasses /\ sheet'.on /\ sheet'.stage # "no"
  <1>1. /\ SheetInv /\ sheet \in Sheet /\ asks \in SUBSET Ask /\ sheet.stage = "no"
    BY DEF IInv, SheetInv, SheetTypes, PageInv, PageFits, Idle
  <1>2. /\ sheet' \in Sheet /\ sheet'.on /\ sheet'.gen = sheet.gen /\ sheet'.token = sheet.token
        /\ sheet'.status = "readonly" /\ sheet'.stage = "wait" /\ sheet'.suspended
        /\ sheet'.seeking = sheet.seeking
    BY <1>1 DEF Sheet, S!Suspended
  <1>3. SheetTypes' /\ SheetGiven' /\ AsksFit'
    BY <1>1, <1>2 DEF SheetInv, SheetTypes, SheetGiven, Given, AsksFit, Live
  <1>4. SheetFits'
    BY <1>1, <1>2 DEF SheetInv, SheetFits, MountFits, Stopped, Quiet, Acquires, Suspends, Uses, Mine, Idle, Live
  <1>5. SheetPasses
    BY <1>2 DEF SheetPasses, SheetHas
  <1> QED BY <1>2, <1>3, <1>4, <1>5 DEF SheetInv

LEMMA ResumeStep ==
    ASSUME IInv, S!Resume, UNCHANGED <<holder, issued>>, sheet.on, Stopped, sheet.stage # "release",
           shell'.mutation = "none", ~shell'.orphan
    PROVE  SheetInv' /\ SheetPasses /\ sheet'.on /\ sheet'.stage = "no"
  <1>1. /\ SheetInv /\ sheet \in Sheet /\ asks \in SUBSET Ask /\ issued \in Nat
    BY DEF IInv, SheetInv, SheetTypes, ServerTypes
  <1>2. PICK h \in {"acquiring", "reacquiring"} :
          sheet' = [sheet EXCEPT !.suspended = FALSE, !.stage = "no", !.seeking = TRUE, !.status = h]
    <2>1. CASE sheet.status = "readonly"
      BY <2>1 DEF S!Resume, S!Resumed
    <2>2. CASE sheet.status # "readonly"
      BY <2>2 DEF S!Resume, S!Resumed
    <2> QED BY <2>1, <2>2
  <1>3. /\ sheet' \in Sheet /\ sheet'.on /\ sheet'.gen = sheet.gen /\ sheet'.token = sheet.token
        /\ sheet'.status # "held" /\ sheet'.stage = "no" /\ ~sheet'.suspended
        /\ sheet'.seeking
    BY <1>1, <1>2 DEF Sheet
  <1>4. PICK z \in Nat : z = 0
    OBVIOUS
  <1> DEFINE b == S!Ask("acquire", z)
  <1>5. b \in Ask /\ b.op = "acquire" /\ b.gen = sheet.gen /\ b.token = z /\ b.answer = "none"
    BY <1>1 DEF S!Ask, Ask, Answers, Sheet
  <1>6. asks' = asks \cup {b} /\ z <= issued /\ b.gen <= sheet.gen
    BY <1>1, <1>4, <1>5 DEF S!Resume, Sheet
  <1> HIDE DEF b
  <1>7. SheetTypes' /\ SheetGiven'
    BY <1>1, <1>3, <1>5, <1>6 DEF SheetInv, SheetTypes, SheetGiven, Given
  <1>8. AsksFit'
    BY <1>1, <1>3, <1>4, <1>5, <1>6 DEF SheetInv, AsksFit, Live
  <1>9. SheetFits'
    BY <1>1, <1>3, <1>5, <1>6 DEF SheetInv, SheetFits, MountFits, Stopped, Quiet, Acquires, Suspends, Uses, Mine, Idle, Live
  <1>10. SheetPasses
    BY <1>3, <1>6 DEF SheetPasses, SheetHas
  <1> QED BY <1>3, <1>7, <1>8, <1>9, <1>10 DEF SheetInv

LEMMA StageEndsStep ==
    ASSUME IInv, NEW u \in BOOLEAN, sheet' = [sheet EXCEPT !.stage = "no", !.suspended = u],
           UNCHANGED <<asks, holder, issued>>, sheet.stage # "release", ~Idle,
           sheet.on => u \/ Stopped, shell'.mutation # "none" => u \/ ~sheet.on,
           shell'.orphan \/ shell'.mutation \notin {"none", "handoff"} => ~sheet.on \/ Stopped
    PROVE  SheetInv' /\ SheetPasses /\ sheet'.on = sheet.on /\ sheet'.stage = "no"
  <1>1. /\ SheetInv /\ sheet \in Sheet /\ asks \in SUBSET Ask
    BY DEF IInv, SheetInv, SheetTypes
  <1>2. /\ sheet' \in Sheet /\ sheet'.on = sheet.on /\ sheet'.gen = sheet.gen /\ sheet'.token = sheet.token
        /\ sheet'.status = sheet.status /\ sheet'.stage = "no" /\ sheet'.suspended = u
        /\ sheet'.seeking = sheet.seeking
    BY <1>1 DEF Sheet
  <1>3. SheetTypes' /\ SheetGiven' /\ AsksFit'
    BY <1>1, <1>2 DEF SheetInv, SheetTypes, SheetGiven, Given, AsksFit, Live
  <1>4. sheet.status # "held"
    BY <1>1 DEF SheetInv, SheetFits
  <1>5. SheetFits'
    BY <1>1, <1>2, <1>4 DEF SheetInv, SheetFits, MountFits, Stopped, Quiet, Acquires, Suspends, Uses, Mine, Idle, Live
  <1>6. SheetPasses
    BY <1>2 DEF SheetPasses, SheetHas
  <1> QED BY <1>2, <1>3, <1>5, <1>6 DEF SheetInv


(* The page itself.                                                            *)
LEMMA OpenPageStep ==
    ASSUME IInv, OpenPage
    PROVE  IInv'
  <1>1. /\ ServerTypes /\ SheetInv /\ PageInv /\ DrawerInv /\ ~shell.page /\ UNCHANGED modal
        /\ UNCHANGED drawerVars /\ UNCHANGED <<drafting, holder, issued, abandoned>> /\ Keeps
        /\ shell' = [NoPage EXCEPT !.page = TRUE, !.draft = drafting]
    BY DEF OpenPage, IInv, S!Mount, S!server, server, Keeps
  <1>2. /\ shell' \in Shell /\ shell'.mutation = "none" /\ shell'.page /\ shell'.draft = drafting
        /\ ~shell'.drawer /\ ~shell'.orphan
    BY <1>1 DEF NoPage, Shell, ServerTypes
  <1>3. ~sheet.on /\ Idle /\ ~shell.drawer /\ ctl.phase = "closed" /\ sheet.stage = "no"
    BY <1>1 DEF PageInv, PageFits, Idle
  <1>4. DrawerInv' /\ SessionIsOfThePast' /\ (\A t : DrawerHas(t) => DrawerHas(t)') /\ ctl' = ctl
    BY <1>1, DrawerFrame DEF drawerVars
  <1>5. SheetInv' /\ SheetPasses /\ sheet'.stage = "no" /\ (sheet'.on <=> drafting)
    <2>1. CASE drafting
      <3>1. PICK g \in Nat : g = sheet.gen + 1
        BY <1>1 DEF SheetInv, SheetTypes, Sheet
      <3>2. PICK z \in Nat : z = 0
        OBVIOUS
      <3>3. sheet' = [S!Unmounted EXCEPT !.on = TRUE, !.gen = g, !.suspended = FALSE,
                        !.status = "acquiring", !.seeking = TRUE]
        BY <1>1, <2>1, <3>1 DEF OpenPage, S!Mount
      <3>4. sheet' = [on |-> TRUE, gen |-> g, status |-> "acquiring", token |-> z, suspended |-> FALSE,
                      stage |-> "no", beating |-> FALSE, seeking |-> TRUE, work |-> "none"]
        BY <3>2, <3>3 DEF S!Unmounted
      <3>5. /\ sheet' \in Sheet /\ sheet'.on /\ sheet'.gen = g /\ sheet'.token = z /\ sheet'.stage = "no"
            /\ sheet'.status = "acquiring" /\ sheet'.seeking
        BY <3>4 DEF Sheet
      <3> DEFINE b == [S!Ask("acquire", z) EXCEPT !.gen = g]
      <3>6. b \in Ask /\ b.op = "acquire" /\ b.gen = g /\ b.token = z /\ b.answer = "none"
        BY DEF S!Ask, Ask, Answers
      <3>7. asks' = asks \cup {b}
        BY <1>1, <2>1, <3>1, <3>2 DEF OpenPage, S!Mount
      <3> HIDE DEF b
      <3> QED BY <1>1, <1>2, <1>3, <2>1, <3>1, <3>2, <3>5, <3>6, <3>7, MountStep
    <2>2. CASE ~drafting
      <3>1. UNCHANGED <<sheet, asks>>
        BY <1>1, <2>2 DEF OpenPage
      <3>2. SheetInv'
        BY <1>1, <1>3, <3>1, SheetFrame
      <3> QED BY <1>1, <1>3, <2>2, <3>1, <3>2 DEF SheetPasses, SheetHas
    <2> QED BY <1>1, <2>1, <2>2 DEF ServerTypes
  <1>6. ServerTypes'
    BY <1>1 DEF ServerTypes
  <1>7. PageInv'
    <2>1. PageTypes' /\ Given(modal.token)'
      BY <1>1, <1>2 DEF PageInv, PageTypes, Given
    <2>2. PageFits'
      BY <1>1, <1>2, <1>3, <1>4, <1>5 DEF PageInv, PageFits, Idle
    <2> QED BY <2>1, <2>2 DEF PageInv
  <1>8. LockIsHeld'
    <2>1. DrawerPasses
      BY <1>1, <1>4 DEF DrawerPasses
    <2> QED BY <1>1, <1>5, <2>1, HeldOn
  <1> QED BY <1>4, <1>5, <1>6, <1>7, <1>8 DEF IInv

LEMMA LeavePageStep ==
    ASSUME IInv, LeavePage
    PROVE  IInv'
  <1>1. /\ ServerTypes /\ SheetInv /\ PageInv /\ DrawerInv /\ shell.page /\ MayLeave
        /\ UNCHANGED <<drafting, holder, issued, abandoned>> /\ Keeps
        /\ shell' = NoPage /\ modal' = [modal EXCEPT !.open = FALSE]
    BY DEF LeavePage, IInv, server, Keeps
  <1>2. /\ shell' \in Shell /\ shell'.mutation = "none" /\ ~shell'.page
        /\ ~shell'.drawer /\ ~shell'.orphan
    BY <1>1 DEF NoPage, Shell, Kinds
  <1>3. /\ modal' \in Dialog /\ ~modal'.open /\ modal'.doing = modal.doing /\ modal'.token = modal.token
    BY <1>1 DEF PageInv, PageTypes, Dialog
  <1>4. SheetInv' /\ SheetPasses /\ sheet'.stage = "no" /\ ~sheet'.on
    <2>1. CASE sheet.on
      BY <1>1, <2>1, LeftStep DEF LeavePage, MayLeave
    <2>2. CASE ~sheet.on
      <3>1. UNCHANGED <<sheet, asks>>
        BY <2>2 DEF LeavePage
      <3>2. SheetInv'
        BY <1>1, <2>2, <3>1, SheetFrame
      <3> QED BY <1>1, <2>2, <3>1, <3>2 DEF SheetPasses, SheetHas, PageInv, PageFits
    <2> QED BY <2>1, <2>2
  <1>5. DrawerInv' /\ SessionIsOfThePast' /\ DrawerPasses /\ ctl'.phase = "closed"
    <2>1. CASE shell.drawer
      <3>1. P!Dispose /\ P!MayNavigate
        BY <1>1, <2>1 DEF LeavePage, MayLeave, PageInv, PageFits
      <3> QED BY <1>1, <3>1, DisposeStep
    <2>2. CASE ~shell.drawer
      <3>1. UNCHANGED drawerVars /\ ctl.phase = "closed"
        BY <1>1, <2>2 DEF LeavePage, PageInv, PageFits
      <3>2. DrawerInv' /\ SessionIsOfThePast' /\ \A t : DrawerHas(t) => DrawerHas(t)'
        BY <1>1, <3>1, DrawerFrame
      <3> QED BY <1>1, <3>1, <3>2 DEF DrawerPasses, drawerVars
    <2> QED BY <2>1, <2>2
  <1>6. ServerTypes'
    BY <1>1 DEF ServerTypes
  <1>7. PageInv'
    <2>1. PageTypes' /\ Given(modal.token)'
      BY <1>1, <1>2, <1>3 DEF PageInv, PageTypes, Given
    <2>2. modal.doing = "nothing"
      BY <1>1 DEF MayLeave, Idle, PageInv, PageFits, PageTypes, Dialog
    <2>3. PageFits'
      BY <1>1, <1>2, <1>3, <1>4, <1>5, <2>2 DEF PageInv, PageFits, Idle
    <2> QED BY <2>1, <2>3 DEF PageInv
  <1>8. LockIsHeld'
    BY <1>1, <1>3, <1>4, <1>5, HeldOn
  <1> QED BY <1>4, <1>5, <1>6, <1>7, <1>8 DEF IInv


(* What is left to show of a step in which the server has no part.             *)
LEMMA PageStep ==
    ASSUME IInv, UNCHANGED server, SheetInv', SheetPasses, DrawerInv', SessionIsOfThePast', DrawerPasses,
           shell' \in Shell, modal' \in Dialog, modal'.token = modal.token, PageFits'
    PROVE  IInv'
  <1>1. UNCHANGED <<drafting, holder, issued, abandoned>> /\ ServerTypes /\ PageInv
    BY DEF server, IInv
  <1>2. ServerTypes'
    BY <1>1 DEF ServerTypes
  <1>3. PageInv'
    BY <1>1 DEF PageInv, PageTypes, Given
  <1>4. LockIsHeld'
    BY <1>1, HeldOn
  <1> QED BY <1>2, <1>3, <1>4 DEF IInv

(* A mutation starts: its editor is opened.                                    *)
LEMMA Starting ==
    ASSUME IInv, NEW kind \in Kinds, UNCHANGED server, Opened(kind), ctl.phase = "closed"
    PROVE  /\ DrawerInv' /\ SessionIsOfThePast' /\ DrawerPasses
           /\ ctl'.phase # "closed" => kind = "profile"
           /\ Start(kind) \in Shell /\ Start(kind).mutation = kind
           /\ Start(kind).page = shell.page /\ Start(kind).draft = shell.draft
           /\ Start(kind).drawer = (shell.drawer \/ kind = "profile") /\ Start(kind).orphan = shell.orphan
  <1>1. UNCHANGED <<drafting, holder, issued, abandoned>> /\ shell \in Shell /\ Keeps
    BY DEF server, IInv, PageInv, PageTypes, Keeps
  <1>2. DrawerInv' /\ SessionIsOfThePast' /\ DrawerPasses /\ (ctl'.phase # "closed" => kind = "profile")
    <2>1. CASE kind = "profile"
      <3>1. P!BeginOpen
        BY <2>1 DEF Opened
      <3> QED BY <1>1, <2>1, <3>1, BeginOpenStep
    <2>2. CASE kind # "profile"
      <3>1. UNCHANGED drawerVars
        BY <2>2 DEF Opened
      <3>2. DrawerInv' /\ SessionIsOfThePast' /\ \A t : DrawerHas(t) => DrawerHas(t)'
        BY <1>1, <3>1, DrawerFrame
      <3> QED BY <1>1, <3>1, <3>2 DEF DrawerPasses, drawerVars
    <2> QED BY <2>1, <2>2
  <1>3. /\ Start(kind) \in Shell /\ Start(kind).mutation = kind
        /\ Start(kind).page = shell.page /\ Start(kind).draft = shell.draft
        /\ Start(kind).drawer = (shell.drawer \/ kind = "profile") /\ Start(kind).orphan = shell.orphan
    BY <1>1 DEF Start, Shell, Kinds
  <1> QED BY <1>2, <1>3

LEMMA BeginMutationStep ==
    ASSUME IInv, NEW kind \in Kinds, BeginMutation(kind)
    PROVE  IInv'
  <1>1. /\ SheetInv /\ PageInv /\ shell \in Shell /\ modal \in Dialog /\ UNCHANGED server /\ Idle
        /\ shell.page /\ UNCHANGED <<drafting, holder, issued, abandoned>> /\ Keeps
    BY DEF BeginMutation, IInv, PageInv, PageTypes, server, Keeps
  <1>2. ~shell.drawer /\ ctl.phase = "closed" /\ ~modal.open /\ modal.doing = "nothing" /\ ~shell.orphan
        /\ sheet.stage = "no"
    BY <1>1 DEF PageInv, PageFits, Idle, Dialog
  <1>3. CASE sheet.on
    <2>1. /\ sheet' = S!Suspended(sheet) /\ UNCHANGED <<asks, modal>> /\ UNCHANGED drawerVars
          /\ shell' = [shell EXCEPT !.mutation = "handoff", !.next = kind, !.releaseFailed = FALSE]
      BY <1>3 DEF BeginMutation
    <2>2. /\ shell' \in Shell /\ shell'.mutation = "handoff" /\ shell'.page = shell.page
          /\ shell'.draft = shell.draft /\ ~shell'.drawer /\ ~shell'.orphan
      BY <1>1, <1>2, <2>1 DEF Shell, Kinds
    <2>3. SheetInv' /\ SheetPasses /\ sheet'.on /\ sheet'.stage # "no"
      BY <1>1, <1>3, <2>1, <2>2, SuspendStep
    <2>4. DrawerInv' /\ SessionIsOfThePast' /\ (\A t : DrawerHas(t) => DrawerHas(t)') /\ ctl' = ctl
      BY <1>1, <2>1, DrawerFrame DEF drawerVars
    <2>5. DrawerPasses
      BY <1>1, <2>4 DEF DrawerPasses
    <2>6. PageFits'
      BY <1>1, <1>2, <1>3, <2>1, <2>2, <2>3, <2>4 DEF PageInv, PageFits, Idle
    <2> QED BY <1>1, <2>1, <2>2, <2>3, <2>4, <2>5, <2>6, PageStep
  <1>4. CASE ~sheet.on
    <2>1. /\ UNCHANGED <<sheet, asks>> /\ Opened(kind) /\ shell' = [Start(kind) EXCEPT !.releaseFailed = FALSE]
          /\ modal' = [modal EXCEPT !.open = kind = "layer"]
      BY <1>4 DEF BeginMutation
    <2>2. kind = "transition"
      BY <1>1, <1>4 DEF BeginMutation, Offered, MayEditDraft, PageInv, PageFits
    <2>3. /\ DrawerInv' /\ SessionIsOfThePast' /\ DrawerPasses /\ ctl'.phase = "closed"
          /\ Start(kind) \in Shell /\ Start(kind).mutation = kind
          /\ Start(kind).page = shell.page /\ Start(kind).draft = shell.draft
          /\ Start(kind).drawer = (shell.drawer \/ kind = "profile") /\ Start(kind).orphan = shell.orphan
      BY <1>1, <1>2, <2>1, <2>2, Starting
    <2>4. /\ shell' \in Shell /\ shell'.mutation = "transition" /\ shell'.page = shell.page
          /\ shell'.draft = shell.draft /\ ~shell'.drawer /\ ~shell'.orphan
      BY <1>2, <2>1, <2>2, <2>3 DEF Shell
    <2>5. modal' \in Dialog /\ ~modal'.open /\ modal'.doing = modal.doing /\ modal'.token = modal.token
      BY <1>1, <2>1, <2>2 DEF Dialog
    <2>6. SheetInv'
      BY <1>1, <1>4, <2>1, SheetFrame
    <2>7. SheetPasses
      BY <1>1, <2>1 DEF SheetPasses, SheetHas
    <2>8. PageFits'
      BY <1>1, <1>2, <1>4, <2>1, <2>3, <2>4, <2>5 DEF PageInv, PageFits, Idle
    <2> QED BY <1>1, <2>3, <2>4, <2>5, <2>6, <2>7, <2>8, PageStep
  <1> QED BY <1>3, <1>4

LEMMA HandedOverStep ==
    ASSUME IInv, HandedOver
    PROVE  IInv'
  <1>1. /\ SheetInv /\ PageInv /\ shell \in Shell /\ modal \in Dialog /\ UNCHANGED server /\ sheet \in Sheet
        /\ UNCHANGED <<drafting, holder, issued, abandoned>> /\ Keeps /\ UNCHANGED asks
        /\ shell.mutation = "handoff" /\ shell.next \in Kinds /\ ~shell.orphan
        /\ sheet.stage \in {"done", "failed"} /\ sheet' = [sheet EXCEPT !.stage = "no"]
    BY DEF HandedOver, IInv, PageInv, PageTypes, SheetInv, SheetTypes, server, Keeps
  <1>2. /\ ~shell.drawer /\ ctl.phase = "closed" /\ ~modal.open /\ modal.doing = "nothing"
        /\ sheet.on /\ shell.draft /\ shell.page /\ ~Idle /\ sheet.suspended
    BY <1>1 DEF PageInv, PageFits, Idle, SheetInv, SheetFits, Dialog
  <1>3. PICK u \in BOOLEAN : u = TRUE
    OBVIOUS
  <1>4. sheet' = [sheet EXCEPT !.stage = "no", !.suspended = u]
    BY <1>1, <1>2, <1>3 DEF Sheet
  <1>5. CASE sheet.stage = "done"
    <2>1. /\ Opened(shell.next) /\ shell' = Start(shell.next)
          /\ modal' = [modal EXCEPT !.open = shell.next = "layer"]
      BY <1>5 DEF HandedOver
    <2>2. /\ DrawerInv' /\ SessionIsOfThePast' /\ DrawerPasses
          /\ ctl'.phase # "closed" => shell.next = "profile"
          /\ shell' \in Shell /\ shell'.mutation = shell.next
          /\ shell'.page = shell.page /\ shell'.draft = shell.draft
          /\ shell'.drawer = (shell.drawer \/ shell.next = "profile") /\ shell'.orphan = shell.orphan
      BY <1>1, <1>2, <2>1, Starting
    <2>3. Stopped
      BY <1>1, <1>2, <1>5 DEF SheetInv, SheetFits
    <2>4. SheetInv' /\ SheetPasses /\ sheet'.on = sheet.on /\ sheet'.stage = "no"
      BY <1>1, <1>2, <1>3, <1>4, <2>3, StageEndsStep
    <2>5. /\ modal' \in Dialog /\ (modal'.open <=> shell.next = "layer") /\ modal'.doing = modal.doing
          /\ modal'.token = modal.token
      BY <1>1, <2>1 DEF Dialog
    <2>6. PageFits'
      BY <1>1, <1>2, <2>2, <2>4, <2>5 DEF PageFits, Idle, Kinds
    <2> QED BY <1>1, <2>2, <2>4, <2>5, <2>6, PageStep
  <1>6. CASE sheet.stage # "done"
    <2>1. /\ shell' = [shell EXCEPT !.mutation = "none", !.next = "none", !.releaseFailed = TRUE]
          /\ UNCHANGED modal /\ UNCHANGED drawerVars
      BY <1>6 DEF HandedOver
    <2>2. /\ shell' \in Shell /\ shell'.mutation = "none" /\ shell'.page = shell.page
          /\ shell'.draft = shell.draft /\ ~shell'.drawer /\ ~shell'.orphan
      BY <1>1, <1>2, <2>1 DEF Shell
    <2>3. SheetInv' /\ SheetPasses /\ sheet'.on = sheet.on /\ sheet'.stage = "no"
      BY <1>1, <1>2, <1>3, <1>4, <2>2, StageEndsStep
    <2>4. DrawerInv' /\ SessionIsOfThePast' /\ (\A t : DrawerHas(t) => DrawerHas(t)') /\ ctl' = ctl
      BY <1>1, <2>1, DrawerFrame DEF drawerVars
    <2>5. DrawerPasses
      BY <1>1, <2>4 DEF DrawerPasses
    <2>6. PageFits'
      BY <1>1, <1>2, <2>1, <2>2, <2>3, <2>4 DEF PageInv, PageFits, Idle
    <2> QED BY <1>1, <2>1, <2>2, <2>3, <2>4, <2>5, <2>6, PageStep
  <1> QED BY <1>5, <1>6


LEMMA OrphanedHandoffStep ==
    ASSUME IInv, OrphanedHandoff
    PROVE  IInv'
  <1>1. /\ SheetInv /\ PageInv /\ shell \in Shell /\ modal \in Dialog /\ UNCHANGED server
        /\ UNCHANGED <<sheet, asks, modal>> /\ UNCHANGED drawerVars /\ Keeps
        /\ shell.mutation = "handoff" /\ shell.next \in Kinds /\ shell.orphan
    BY DEF OrphanedHandoff, IInv, PageInv, PageTypes, server, Keeps
  <1>2. /\ ~shell.drawer /\ ctl.phase = "closed" /\ ~modal.open /\ modal.doing = "nothing"
        /\ sheet.stage = "no" /\ ~Idle /\ (sheet.on => sheet.suspended /\ Stopped) /\ shell.page
    BY <1>1 DEF PageInv, PageFits, Idle, SheetInv, SheetFits, Dialog
  <1>3. /\ shell' \in Shell /\ shell'.mutation \in {shell.next, "none"} /\ shell'.page = shell.page
        /\ shell'.draft = shell.draft /\ ~shell'.drawer /\ ~shell'.orphan
    <2>1. \/ shell' = [shell EXCEPT !.mutation = shell.next, !.next = "none", !.orphan = FALSE]
          \/ shell' = [shell EXCEPT !.mutation = "none", !.next = "none", !.orphan = FALSE,
                                    !.releaseFailed = TRUE]
      BY DEF OrphanedHandoff
    <2> QED BY <1>1, <1>2, <2>1 DEF Shell
  <1>4. SheetInv' /\ SheetPasses
    <2>1. SheetInv'
      BY <1>1, <1>2, SheetFrame
    <2> QED BY <1>1, <2>1 DEF SheetPasses, SheetHas, server
  <1>5. DrawerInv' /\ SessionIsOfThePast' /\ (\A t : DrawerHas(t) => DrawerHas(t)') /\ ctl' = ctl
    BY <1>1, DrawerFrame DEF drawerVars
  <1>6. DrawerPasses
    BY <1>1, <1>5 DEF DrawerPasses, server
  <1>7. PageFits'
    BY <1>1, <1>2, <1>3, <1>5 DEF PageInv, PageFits, Idle, Kinds
  <1> QED BY <1>1, <1>3, <1>4, <1>5, <1>6, <1>7, PageStep

LEMMA RecoverEditingStep ==
    ASSUME IInv, RecoverEditing
    PROVE  IInv'
  <1>1. /\ SheetInv /\ PageInv /\ shell \in Shell /\ modal \in Dialog /\ UNCHANGED server
        /\ UNCHANGED <<drafting, holder, issued, abandoned>>
        /\ UNCHANGED <<asks, modal>> /\ UNCHANGED drawerVars /\ Keeps /\ Idle
    BY DEF RecoverEditing, IInv, PageInv, PageTypes, server, Keeps
  <1>2. /\ ~shell.drawer /\ ctl.phase = "closed" /\ ~modal.open /\ modal.doing = "nothing"
        /\ sheet.stage = "no" /\ ~shell.orphan
    BY <1>1 DEF PageInv, PageFits, Idle, Dialog
  <1>3. DrawerInv' /\ SessionIsOfThePast' /\ (\A t : DrawerHas(t) => DrawerHas(t)') /\ ctl' = ctl
    BY <1>1, DrawerFrame DEF drawerVars
  <1>4. DrawerPasses
    BY <1>1, <1>3 DEF DrawerPasses
  <1>5. CASE sheet.on
    <2>1. /\ sheet' = S!Suspended(sheet) /\ shell' = [shell EXCEPT !.mutation = "handoff", !.next = "recover"]
      BY <1>5 DEF RecoverEditing
    <2>2. /\ shell' \in Shell /\ shell'.mutation = "handoff" /\ shell'.page = shell.page
          /\ shell'.draft = shell.draft /\ ~shell'.drawer /\ ~shell'.orphan
      BY <1>1, <1>2, <2>1 DEF Shell
    <2>3. SheetInv' /\ SheetPasses /\ sheet'.on /\ sheet'.stage # "no"
      BY <1>1, <1>5, <2>1, <2>2, SuspendStep
    <2>4. PageFits'
      BY <1>1, <1>2, <1>3, <1>5, <2>2, <2>3 DEF PageInv, PageFits, Idle
    <2> QED BY <1>1, <1>3, <1>4, <2>2, <2>3, <2>4, PageStep
  <1>6. CASE ~sheet.on
    <2>1. UNCHANGED sheet /\ shell' = [shell EXCEPT !.releaseFailed = FALSE]
      BY <1>6 DEF RecoverEditing
    <2>2. /\ shell' \in Shell /\ shell'.mutation = "none" /\ shell'.page = shell.page
          /\ shell'.draft = shell.draft /\ ~shell'.drawer /\ ~shell'.orphan
      BY <1>1, <1>2, <2>1 DEF Shell, Idle
    <2>3. SheetInv' /\ SheetPasses
      BY <1>1, <1>6, <2>1, SheetFrame DEF SheetPasses, SheetHas
    <2>4. PageFits'
      BY <1>1, <1>2, <1>3, <1>6, <2>1, <2>2 DEF PageInv, PageFits, Idle
    <2> QED BY <1>1, <1>3, <1>4, <2>2, <2>3, <2>4, PageStep
  <1> QED BY <1>5, <1>6

LEMMA RecoveredStep ==
    ASSUME IInv, Recovered
    PROVE  IInv'
  <1>0. PICK ok \in IF shell.orphan THEN BOOLEAN ELSE {sheet.stage = "done"} :
          /\ shell' = [shell EXCEPT !.mutation = "none", !.next = "none", !.orphan = FALSE,
                                    !.releaseFailed = ~ok]
          /\ IF ok /\ sheet.on THEN S!Resume
             ELSE sheet' = [sheet EXCEPT !.stage = "no"] /\ UNCHANGED asks
    BY DEF Recovered
  <1>1. /\ SheetInv /\ PageInv /\ shell \in Shell /\ modal \in Dialog /\ UNCHANGED server /\ sheet \in Sheet
        /\ UNCHANGED <<drafting, holder, issued, abandoned>>
        /\ UNCHANGED modal /\ UNCHANGED drawerVars /\ Keeps
        /\ shell.mutation = "handoff" /\ (shell.orphan \/ sheet.stage \in {"done", "failed"})
    BY DEF Recovered, IInv, PageInv, PageTypes, SheetInv, SheetTypes, server, Keeps
  <1>2. /\ ~shell.drawer /\ ctl.phase = "closed" /\ ~modal.open /\ modal.doing = "nothing"
        /\ ~Idle /\ (sheet.on => sheet.suspended) /\ shell.page /\ sheet.stage # "release"
        /\ (sheet.stage = "done" \/ shell.orphan) /\ sheet.on => Stopped
    <2>1. /\ ~shell.drawer /\ ctl.phase = "closed" /\ ~modal.open /\ modal.doing = "nothing"
          /\ ~Idle /\ shell.page /\ sheet.stage # "release"
      BY <1>1 DEF PageInv, PageFits, Idle, Dialog
    <2> QED BY <1>1, <2>1 DEF SheetInv, SheetFits
  <1>3. /\ shell' \in Shell /\ shell'.mutation = "none" /\ shell'.page = shell.page
        /\ shell'.draft = shell.draft /\ ~shell'.drawer /\ ~shell'.orphan
    <2>1. PICK f \in BOOLEAN : f = ~ok
      OBVIOUS
    <2>2. shell' = [shell EXCEPT !.mutation = "none", !.next = "none", !.orphan = FALSE,
                                 !.releaseFailed = f]
      BY <1>0, <2>1
    <2> QED BY <1>1, <1>2, <2>2 DEF Shell
  <1>4. DrawerInv' /\ SessionIsOfThePast' /\ (\A t : DrawerHas(t) => DrawerHas(t)') /\ ctl' = ctl
    BY <1>1, DrawerFrame DEF drawerVars
  <1>5. DrawerPasses
    BY <1>1, <1>4 DEF DrawerPasses
  <1>6. SheetInv' /\ SheetPasses /\ sheet'.on = sheet.on /\ sheet'.stage = "no"
    <2>1. CASE ok /\ sheet.on
      <3>1. Stopped
        BY <1>0, <1>2, <2>1
      <3>2. S!Resume
        BY <1>0, <2>1
      <3> QED BY <1>1, <1>2, <1>3, <2>1, <3>1, <3>2, ResumeStep
    <2>2. CASE ~(ok /\ sheet.on)
      <3>1. sheet' = [sheet EXCEPT !.stage = "no"] /\ UNCHANGED asks
        BY <1>0, <2>2
      <3>2. PICK u \in BOOLEAN : u = sheet.suspended
        BY <1>1 DEF Sheet
      <3>3. sheet' = [sheet EXCEPT !.stage = "no", !.suspended = u]
        BY <1>1, <3>1, <3>2 DEF Sheet
      <3> QED BY <1>1, <1>2, <1>3, <3>1, <3>2, <3>3, StageEndsStep
    <2> QED BY <2>1, <2>2
  <1>7. PageFits'
    BY <1>1, <1>2, <1>3, <1>4, <1>6 DEF PageInv, PageFits, Idle
  <1> QED BY <1>1, <1>3, <1>4, <1>5, <1>6, <1>7, PageStep


(* The end of a mutation whose editor is closed.                               *)
LEMMA Ending ==
    ASSUME IInv, shell.mutation \in Kinds, shell' = End, UNCHANGED <<sheet, asks>>, UNCHANGED drawerVars,
           ctl.phase = "closed", Keeps, modal' \in Dialog, ~modal'.open, modal'.doing = "nothing",
           modal'.token <= issued
    PROVE  SheetInv' /\ DrawerInv' /\ SessionIsOfThePast' /\ PageInv' /\ SheetPasses /\ DrawerPasses
  <1>1. /\ SheetInv /\ PageInv /\ shell \in Shell /\ issued' = issued
        /\ shell.mutation \notin {"none", "handoff", "refresh"}
    BY DEF IInv, PageInv, PageTypes, Keeps, Kinds
  <1>2. /\ shell' \in Shell /\ shell'.mutation = "refresh" /\ shell'.page = shell.page
        /\ shell'.draft = shell.draft /\ ~shell'.drawer /\ shell'.orphan = shell.orphan
    BY <1>1 DEF Shell, End
  <1>3. /\ sheet.stage = "no" /\ ~shell.orphan /\ ~Idle /\ (sheet.on => sheet.suspended) /\ shell.page
        /\ sheet.on => Stopped
    <2>1. sheet.stage = "no" /\ ~shell.orphan /\ ~Idle /\ shell.page
      BY <1>1 DEF PageInv, PageFits, Idle
    <2> QED BY <1>1, <2>1 DEF SheetInv, SheetFits
  <1>4. SheetInv'
    BY <1>2, <1>3, SheetFrame
  <1>5. DrawerInv' /\ SessionIsOfThePast' /\ (\A t : DrawerHas(t) => DrawerHas(t)') /\ ctl' = ctl
    BY DrawerFrame DEF drawerVars
  <1>6. SheetPasses /\ DrawerPasses
    BY <1>5 DEF SheetPasses, SheetHas, DrawerPasses, Keeps
  <1>7. PageFits'
    BY <1>1, <1>2, <1>3, <1>5 DEF PageInv, PageFits, Idle
  <1>8. PageInv'
    BY <1>1, <1>2, <1>7 DEF PageInv, PageTypes, Given
  <1> QED BY <1>4, <1>5, <1>6, <1>8

LEMMA TransitionStep ==
    ASSUME IInv, Transition
    PROVE  IInv'
  <1>1. /\ ServerTypes /\ PageInv /\ modal \in Dialog /\ UNCHANGED <<issued, abandoned, sheet, asks, modal>>
        /\ UNCHANGED drawerVars /\ shell.mutation = "transition" /\ shell' = End
        /\ \/ drafting' = ~drafting /\ holder' = 0
           \/ UNCHANGED <<drafting, holder>>
    BY DEF Transition, IInv, PageInv, PageTypes
  <1>2. ServerTypes' /\ Keeps
    BY <1>1 DEF ServerTypes, Keeps
  <1>3. ctl.phase = "closed" /\ ~modal.open /\ modal.doing = "nothing" /\ modal.token <= issued
    BY <1>1 DEF PageInv, PageFits, Dialog, Given
  <1>4. SheetInv' /\ DrawerInv' /\ SessionIsOfThePast' /\ PageInv' /\ SheetPasses /\ DrawerPasses
    BY <1>1, <1>2, <1>3, Ending DEF Kinds
  <1>5. LockIsHeld'
    BY <1>1, <1>2, <1>4, HeldOn DEF Keeps
  <1> QED BY <1>2, <1>4, <1>5 DEF IInv

LEMMA DrawerClosedStep ==
    ASSUME IInv, DrawerClosed
    PROVE  IInv'
  <1>1. /\ ServerTypes /\ PageInv /\ modal \in Dialog /\ UNCHANGED <<sheet, asks, modal>>
        /\ UNCHANGED <<drafting, holder, issued, abandoned>> /\ Keeps
        /\ UNCHANGED drawerVars /\ shell.drawer /\ ctl.phase = "closed" /\ shell' = End
    BY DEF DrawerClosed, IInv, PageInv, PageTypes, server, Keeps
  <1>2. ServerTypes' /\ shell.mutation = "profile"
    BY <1>1 DEF ServerTypes, PageInv, PageFits
  <1>3. ~modal.open /\ modal.doing = "nothing" /\ modal.token <= issued
    BY <1>1, <1>2 DEF PageInv, PageFits, Dialog, Given
  <1>4. SheetInv' /\ DrawerInv' /\ SessionIsOfThePast' /\ PageInv' /\ SheetPasses /\ DrawerPasses
    BY <1>1, <1>2, <1>3, Ending DEF Kinds
  <1>5. LockIsHeld'
    BY <1>1, <1>4, HeldOn
  <1> QED BY <1>2, <1>4, <1>5 DEF IInv

LEMMA RefreshSucceedsStep ==
    ASSUME IInv, RefreshSucceeds
    PROVE  IInv'
  <1>1. /\ SheetInv /\ PageInv /\ shell \in Shell /\ modal \in Dialog /\ UNCHANGED server /\ sheet \in Sheet
        /\ UNCHANGED <<drafting, holder, issued, abandoned>>
        /\ UNCHANGED modal /\ UNCHANGED drawerVars /\ Keeps
        /\ shell.mutation = "refresh" /\ shell' = [shell EXCEPT !.mutation = "none"]
    BY DEF RefreshSucceeds, IInv, PageInv, PageTypes, SheetInv, SheetTypes, server, Keeps
  <1>2. /\ ~shell.drawer /\ ctl.phase = "closed" /\ ~modal.open /\ modal.doing = "nothing"
        /\ ~Idle /\ shell.page /\ sheet.stage = "no" /\ ~shell.orphan
    BY <1>1 DEF PageInv, PageFits, Idle, Dialog
  <1>3. sheet.on => sheet.suspended /\ Stopped
    BY <1>1, <1>2 DEF SheetInv, SheetFits
  <1>4. /\ shell' \in Shell /\ shell'.mutation = "none" /\ shell'.page = shell.page
        /\ shell'.draft = shell.draft /\ ~shell'.drawer /\ ~shell'.orphan
    BY <1>1, <1>2 DEF Shell
  <1>5. DrawerInv' /\ SessionIsOfThePast' /\ (\A t : DrawerHas(t) => DrawerHas(t)') /\ ctl' = ctl
    BY <1>1, DrawerFrame DEF drawerVars
  <1>6. DrawerPasses
    BY <1>1, <1>5 DEF DrawerPasses
  <1>7. SheetInv' /\ SheetPasses /\ sheet'.on = sheet.on /\ sheet'.stage = "no"
    <2>1. CASE sheet.on /\ ~sheet.seeking
      <3>1. S!Resume
        BY <2>1 DEF RefreshSucceeds
      <3> QED BY <1>1, <1>2, <1>3, <1>4, <2>1, <3>1, ResumeStep
    <2>2. CASE ~(sheet.on /\ ~sheet.seeking)
      <3>1. PICK u \in BOOLEAN : u = FALSE
        OBVIOUS
      <3>2. sheet' = [sheet EXCEPT !.suspended = u] /\ UNCHANGED asks
        BY <2>2, <3>1 DEF RefreshSucceeds
      <3>3. sheet' = [sheet EXCEPT !.stage = "no", !.suspended = u]
        BY <1>1, <1>2, <3>2 DEF Sheet
      <3> QED BY <1>1, <1>2, <1>3, <1>4, <3>2, <3>3, StageEndsStep
    <2> QED BY <2>1, <2>2
  <1>8. PageFits'
    BY <1>1, <1>2, <1>4, <1>5, <1>7 DEF PageInv, PageFits, Idle
  <1> QED BY <1>1, <1>4, <1>5, <1>6, <1>7, <1>8, PageStep


LEMMA ProjectReadStep ==
    ASSUME IInv, ProjectRead
    PROVE  IInv'
  <1>1. /\ ServerTypes /\ SheetInv /\ PageInv /\ shell \in Shell /\ modal \in Dialog /\ UNCHANGED server
        /\ sheet \in Sheet /\ UNCHANGED <<drafting, holder, issued, abandoned>> /\ Keeps
        /\ shell.page /\ shell.draft # drafting /\ modal' = [modal EXCEPT !.open = FALSE]
        /\ shell' = [shell EXCEPT !.draft = drafting, !.drawer = FALSE, !.orphan = shell.mutation = "handoff"]
    BY DEF ProjectRead, IInv, PageInv, PageTypes, SheetInv, SheetTypes, server, Keeps
  <1>2. /\ shell' \in Shell /\ shell'.mutation = shell.mutation /\ shell'.page
        /\ shell'.draft = drafting /\ ~shell'.drawer
        /\ (shell'.orphan <=> shell.mutation = "handoff")
    <2>1. PICK o \in BOOLEAN : o = (shell.mutation = "handoff")
      OBVIOUS
    <2>2. shell' = [shell EXCEPT !.draft = drafting, !.drawer = FALSE, !.orphan = o]
      BY <1>1, <2>1
    <2> QED BY <1>1, <2>1, <2>2 DEF Shell, ServerTypes
  <1>3. /\ modal' \in Dialog /\ ~modal'.open /\ modal'.doing = modal.doing /\ modal'.token = modal.token
    BY <1>1 DEF Dialog
  <1>4. /\ sheet.on <=> shell.draft
        /\ shell.draft => ~drafting /\ holder = 0
        /\ ~shell.draft => drafting
        /\ shell.drawer => shell.draft
        /\ ~shell.drawer => ctl.phase = "closed"
    BY <1>1 DEF PageInv, PageFits, Shell, ServerTypes
  <1>5. SheetInv' /\ SheetPasses /\ sheet'.stage = "no" /\ (sheet'.on <=> drafting)
    <2>1. CASE sheet.on
      <3>1. sheet' = S!Left /\ asks' = asks \cup S!Leave(sheet)
        BY <2>1 DEF ProjectRead
      <3> QED BY <1>1, <1>4, <2>1, <3>1, LeftStep
    <2>2. CASE ~sheet.on
      <3>1. PICK g \in Nat : g = sheet.gen + 1
        BY <1>1 DEF Sheet
      <3>2. PICK z \in Nat : z = 0
        OBVIOUS
      <3>3. PICK h \in {"acquiring", "readonly"} : h = IF Idle THEN "acquiring" ELSE "readonly"
        OBVIOUS
      <3>4. PICK i \in BOOLEAN : i = Idle
        BY DEF Idle
      <3>5. PICK n \in BOOLEAN : n = ~Idle
        BY DEF Idle
      <3>6. sheet' = [S!Unmounted EXCEPT !.on = TRUE, !.gen = g, !.suspended = n, !.status = h, !.seeking = i]
        BY <2>2, <3>1, <3>3, <3>4, <3>5 DEF ProjectRead
      <3>7. sheet' = [on |-> TRUE, gen |-> g, status |-> h, token |-> z, suspended |-> n,
                      stage |-> "no", beating |-> FALSE, seeking |-> i, work |-> "none"]
        BY <3>2, <3>6 DEF S!Unmounted
      <3>8. /\ sheet' \in Sheet /\ sheet'.on /\ sheet'.gen = g /\ sheet'.token = z /\ sheet'.stage = "no"
            /\ sheet'.status # "held" /\ (sheet'.seeking <=> Idle) /\ (sheet'.suspended <=> ~Idle)
        BY <3>4, <3>5, <3>7 DEF Sheet
      <3> DEFINE b == [S!Ask("acquire", z) EXCEPT !.gen = g]
      <3>9. b \in Ask /\ b.op = "acquire" /\ b.gen = g /\ b.token = z /\ b.answer = "none"
        BY DEF S!Ask, Ask, Answers
      <3>10. asks' = IF Idle THEN asks \cup {b} ELSE asks
        BY <2>2, <3>1, <3>2 DEF ProjectRead
      <3> HIDE DEF b
      <3>11. asks' = IF sheet'.seeking THEN asks \cup {b} ELSE asks
        BY <3>8, <3>10
      <3>12. /\ shell'.mutation # "none" => sheet'.suspended
             /\ shell'.orphan \/ shell'.mutation \notin {"none", "handoff"} => ~sheet'.seeking
        BY <1>2, <3>8 DEF Idle
      <3>13. sheet'.gen = sheet.gen + 1 /\ sheet'.token = 0 /\ b.gen = sheet'.gen /\ b.token = 0
        BY <3>1, <3>2, <3>8, <3>9
      <3> QED BY <1>1, <1>4, <2>2, <3>8, <3>9, <3>11, <3>12, <3>13, MountStep
    <2> QED BY <2>1, <2>2
  <1>6. DrawerInv' /\ SessionIsOfThePast' /\ DrawerPasses /\ ctl'.phase = "closed"
    <2>1. CASE shell.drawer
      <3>1. P!Dispose /\ holder = 0
        BY <1>4, <2>1 DEF ProjectRead
      <3> QED BY <1>1, <3>1, DisposeStep
    <2>2. CASE ~shell.drawer
      <3>1. UNCHANGED drawerVars /\ ctl.phase = "closed"
        BY <1>4, <2>2 DEF ProjectRead
      <3>2. DrawerInv' /\ SessionIsOfThePast' /\ \A t : DrawerHas(t) => DrawerHas(t)'
        BY <1>1, <3>1, DrawerFrame
      <3> QED BY <1>1, <3>1, <3>2 DEF DrawerPasses, drawerVars
    <2> QED BY <2>1, <2>2
  <1>7. PageFits'
    BY <1>1, <1>2, <1>3, <1>5, <1>6 DEF PageInv, PageFits, Idle
  <1> QED BY <1>1, <1>2, <1>3, <1>5, <1>6, <1>7, PageStep

-----------------------------------------------------------------------------
(* The layer replacement.                                                      *)

(* A step of the modal: the sheet, the drawer and the frame are as they were.   *)
LEMMA ModalStep ==
    ASSUME IInv, UNCHANGED <<sheet, asks, drafting, abandoned, shell>>, UNCHANGED drawerVars, Grants \/ Keeps,
           Grants => drafting,
           modal' \in Dialog, modal'.open = modal.open, shell.mutation = "layer",
           modal'.doing \in {"acquire", "reload"} => modal'.token = 0, modal'.token <= issued',
           holder' = 0 \/ modal'.token = holder' \/ (holder' = holder /\ holder # modal.token)
    PROVE  IInv'
  <1>1. /\ SheetInv /\ PageInv /\ ServerTypes /\ issued \in Nat
    BY DEF IInv, ServerTypes
  <1>2. SheetInv'
    BY <1>1, SheetFrame DEF SheetInv, SheetFits, Idle
  <1>3. DrawerInv' /\ SessionIsOfThePast' /\ (\A t : DrawerHas(t) => DrawerHas(t)') /\ ctl' = ctl
    BY DrawerFrame DEF drawerVars
  <1>4. ServerTypes'
    BY <1>1 DEF ServerTypes, Grants, Keeps
  <1>5. PageInv'
    BY <1>1, <1>3 DEF PageInv, PageTypes, PageFits, Idle, Given
  <1>6. LockIsHeld'
    BY <1>3 DEF IInv, LockIsHeld, SheetHas
  <1> QED BY <1>2, <1>3, <1>4, <1>5, <1>6 DEF IInv

LEMMA ModalRunStep ==
    ASSUME IInv, Apply \/ ModalAcquires \/ ModalReplaces \/ ModalReleases
    PROVE  IInv'
  <1>1. /\ ServerTypes /\ PageInv /\ shell \in Shell /\ modal \in Dialog /\ issued \in Nat
        /\ modal.token \in Nat /\ modal.token <= issued
        /\ UNCHANGED <<sheet, asks, drafting, abandoned, shell>> /\ UNCHANGED drawerVars
    BY DEF Apply, ModalAcquires, ModalReplaces, ModalReleases, Modal, IInv, PageInv, PageTypes, ServerTypes,
           Dialog, Given
  <1>2. modal.open \/ modal.doing # "nothing" => shell.mutation = "layer"
    BY <1>1 DEF PageInv, PageFits
  <1>3. modal.doing \in {"acquire", "reload"} => modal.token = 0
    BY <1>1 DEF PageInv, PageFits
  <1>4. CASE Apply
    <2>1. /\ modal.open /\ modal.token = 0 /\ UNCHANGED <<holder, issued>>
          /\ modal' = [modal EXCEPT !.doing = "acquire", !.done = FALSE]
      BY <1>4 DEF Apply, Modal
    <2>2. modal' \in Dialog /\ modal'.open = modal.open /\ modal'.doing = "acquire" /\ modal'.token = modal.token
      BY <1>1, <2>1 DEF Dialog
    <2> QED BY <1>1, <1>2, <2>1, <2>2, ModalStep DEF Keeps, Grants
  <1>5. CASE ModalAcquires
    <2>1. PICK t \in Nat : t = issued + 1
      BY <1>1
    <2>2. modal.doing = "acquire"
      BY <1>5 DEF ModalAcquires
    <2>3. \/ /\ drafting /\ holder' = t /\ issued' = t
             /\ modal' = [modal EXCEPT !.doing = "replace", !.token = t]
          \/ modal' = [modal EXCEPT !.doing = "nothing"] /\ UNCHANGED <<holder, issued>>
      BY <1>5, <2>1 DEF ModalAcquires, Modal
    <2>4. CASE /\ drafting /\ holder' = t /\ issued' = t
               /\ modal' = [modal EXCEPT !.doing = "replace", !.token = t]
      <3>1. modal' \in Dialog /\ modal'.open = modal.open /\ modal'.doing = "replace" /\ modal'.token = t
        BY <1>1, <2>4 DEF Dialog
      <3> QED BY <1>1, <1>2, <2>1, <2>2, <2>4, <3>1, ModalStep DEF Keeps, Grants
    <2>5. CASE modal' = [modal EXCEPT !.doing = "nothing"] /\ UNCHANGED <<holder, issued>>
      <3>1. modal' \in Dialog /\ modal'.open = modal.open /\ modal'.doing = "nothing" /\ modal'.token = modal.token
        BY <1>1, <2>5 DEF Dialog
      <3> QED BY <1>1, <1>2, <2>2, <2>5, <3>1, ModalStep DEF Keeps, Grants
    <2> QED BY <2>3, <2>4, <2>5
  <1>6. CASE ModalReplaces
    <2>1. PICK ok \in BOOLEAN : modal' = [modal EXCEPT !.doing = "release", !.done = ok]
      BY <1>6 DEF ModalReplaces, Modal
    <2>2. modal.doing = "replace" /\ UNCHANGED <<holder, issued>>
      BY <1>6 DEF ModalReplaces
    <2>3. modal' \in Dialog /\ modal'.open = modal.open /\ modal'.doing = "release" /\ modal'.token = modal.token
      BY <1>1, <2>1 DEF Dialog
    <2> QED BY <1>1, <1>2, <2>2, <2>3, ModalStep DEF Keeps, Grants
  <1>7. CASE ModalReleases
    <2>1. PICK z \in Nat : z = 0
      OBVIOUS
    <2>2. modal.doing = "release" /\ UNCHANGED issued
      BY <1>7 DEF ModalReleases
    <2>3. \/ /\ holder' = (IF holder = modal.token THEN 0 ELSE holder)
             /\ modal' = [modal EXCEPT !.doing = IF modal.done THEN "reload" ELSE "nothing", !.token = z]
          \/ holder' = holder /\ modal' = [modal EXCEPT !.doing = "nothing"]
      BY <1>7, <2>1 DEF ModalReleases, Modal, Free
    <2>4. CASE /\ holder' = (IF holder = modal.token THEN 0 ELSE holder)
               /\ modal' = [modal EXCEPT !.doing = IF modal.done THEN "reload" ELSE "nothing", !.token = z]
      <3>1. modal' \in Dialog /\ modal'.open = modal.open /\ modal'.token = z
        BY <1>1, <2>4 DEF Dialog
      <3> QED BY <1>1, <1>2, <2>1, <2>2, <2>4, <3>1, ModalStep DEF Keeps, Grants
    <2>5. CASE holder' = holder /\ modal' = [modal EXCEPT !.doing = "nothing"]
      <3>1. modal' \in Dialog /\ modal'.open = modal.open /\ modal'.doing = "nothing" /\ modal'.token = modal.token
        BY <1>1, <2>5 DEF Dialog
      <3> QED BY <1>1, <1>2, <2>2, <2>5, <3>1, ModalStep DEF Keeps, Grants
    <2> QED BY <2>3, <2>4, <2>5
  <1> QED BY <1>4, <1>5, <1>6, <1>7


LEMMA ModalEndsStep ==
    ASSUME IInv, ModalReloads \/ CloseModal
    PROVE  IInv'
  <1>1. /\ ServerTypes /\ PageInv /\ shell \in Shell /\ modal \in Dialog /\ issued \in Nat
        /\ modal.token \in Nat /\ modal.token <= issued
        /\ UNCHANGED <<sheet, asks, drafting, abandoned, issued>> /\ UNCHANGED drawerVars
        /\ modal.open \/ modal.doing # "nothing"
    BY DEF ModalReloads, CloseModal, Modal, IInv, PageInv, PageTypes, ServerTypes, Dialog, Given
  <1>2. shell.mutation = "layer" /\ (modal.doing = "reload" => modal.token = 0)
    BY <1>1 DEF PageInv, PageFits
  <1>3. /\ ctl.phase = "closed"
    BY <1>1, <1>2 DEF PageInv, PageFits
  <1>4. ASSUME modal' = NoModal, shell' = End, holder' \in {0, holder}, holder' = 0 \/ holder # modal.token
        PROVE  IInv'
    <2>1. PICK z \in Nat : z = 0
      OBVIOUS
    <2>2. modal' = [open |-> FALSE, doing |-> "nothing", token |-> z, done |-> FALSE]
      BY <1>4, <2>1 DEF NoModal
    <2>3. modal' \in Dialog /\ ~modal'.open /\ modal'.doing = "nothing" /\ modal'.token <= issued
      BY <1>1, <2>1, <2>2 DEF Dialog
    <2>4. Keeps /\ ServerTypes'
      BY <1>1, <1>4 DEF Keeps, ServerTypes
    <2>5. SheetInv' /\ DrawerInv' /\ SessionIsOfThePast' /\ PageInv' /\ SheetPasses /\ DrawerPasses
      BY <1>1, <1>2, <1>3, <1>4, <2>3, <2>4, Ending DEF Kinds
    <2>6. LockIsHeld'
      <3>1. CASE holder' = 0
        BY <3>1 DEF LockIsHeld
      <3>2. CASE holder # modal.token
        BY <1>1, <1>4, <2>5, <3>2, HeldOn DEF Live
      <3> QED BY <1>4, <3>1, <3>2
    <2> QED BY <2>4, <2>5, <2>6 DEF IInv
  <1>5. CASE ModalReloads
    <2>1. modal' = NoModal /\ shell' = End /\ holder' = holder /\ modal.token = 0
      BY <1>2, <1>5 DEF ModalReloads, Modal
    <2> QED BY <1>4, <2>1
  <1>6. CASE CloseModal
    <2>1. \/ holder' = (IF holder = modal.token THEN 0 ELSE holder) /\ modal' = NoModal /\ shell' = End
          \/ UNCHANGED <<holder, shell, modal>>
      BY <1>6 DEF CloseModal, Modal, Free
    <2>2. CASE holder' = (IF holder = modal.token THEN 0 ELSE holder) /\ modal' = NoModal /\ shell' = End
      BY <1>4, <2>2
    <2>3. CASE UNCHANGED <<holder, shell, modal>>
      <3>1. Keeps /\ UNCHANGED server
        BY <1>1, <2>3 DEF Keeps, server
      <3>2. SheetInv'
        BY <1>1, <2>3, <3>1, SheetFrame DEF IInv, SheetInv, SheetFits, Idle
      <3>3. DrawerInv' /\ SessionIsOfThePast' /\ (\A t : DrawerHas(t) => DrawerHas(t)') /\ ctl' = ctl
        BY <1>1, <3>1, DrawerFrame DEF drawerVars
      <3>4. PageFits'
        BY <1>1, <2>3, <3>3 DEF PageInv, PageFits, Idle
      <3>5. SheetPasses /\ DrawerPasses
        BY <1>1, <2>3, <3>3 DEF SheetPasses, SheetHas, DrawerPasses
      <3> QED BY <1>1, <2>3, <3>1, <3>2, <3>3, <3>4, <3>5, PageStep
    <2> QED BY <2>1, <2>2, <2>3
  <1> QED BY <1>5, <1>6

-----------------------------------------------------------------------------
(* The invariant of the page.                                                  *)

LEMMA InitIInv == Init => IInv
  <1> SUFFICES ASSUME Init PROVE IInv
    OBVIOUS
  <1>1. PICK z \in Nat : z = 0
    OBVIOUS
  <1>2. /\ sheet = [on |-> FALSE, gen |-> z, status |-> "acquiring", token |-> z, suspended |-> FALSE,
                    stage |-> "no", beating |-> FALSE, seeking |-> FALSE, work |-> "none"]
        /\ asks = {}
    BY <1>1 DEF Init, S!Init, S!Unmounted
  <1>3. /\ ctl = [phase |-> "closed", gen |-> z, token |-> z, session |-> z, sessionGen |-> z,
                  draft |-> "none", under |-> z, recovery |-> FALSE, beating |-> FALSE]
        /\ calls = {} /\ released = {} /\ parting = {} /\ chain = [gen |-> z, token |-> z]
    BY <1>1 DEF Init, P!Init, P!Closed, P!NoChain
  <1>4. shell = NoPage /\ modal = [open |-> FALSE, doing |-> "nothing", token |-> z, done |-> FALSE]
    BY <1>1 DEF Init, NoModal
  <1>5. ServerTypes /\ holder = 0 /\ issued = z
    BY <1>1 DEF Init, ServerTypes
  <1>6. /\ sheet \in Sheet /\ ~sheet.on /\ sheet.gen = z /\ sheet.token = z /\ sheet.status = "acquiring"
        /\ sheet.stage = "no"
    BY <1>2 DEF Sheet
  <1>7. SheetInv
    BY <1>1, <1>2, <1>5, <1>6 DEF SheetInv, SheetTypes, SheetGiven, Given, AsksFit, SheetFits
  <1>8. /\ ctl \in Controller /\ ctl.phase = "closed" /\ ctl.gen = z /\ ctl.token = z /\ ctl.session = z
        /\ ctl.sessionGen = z /\ ctl.draft = "none" /\ chain \in Session
    BY <1>3 DEF Controller, Session
  <1>9. DrawerInv /\ SessionIsOfThePast
    <2>1. DrawerTypes /\ DrawerGiven /\ SessionIsOfThePast
      BY <1>1, <1>3, <1>5, <1>8 DEF DrawerTypes, DrawerGiven, Given, SessionIsOfThePast
    <2>2. CallsFit /\ ControllerFits /\ SessionFits
      BY <1>1, <1>3, <1>5, <1>8 DEF CallsFit, ControllerFits, SessionFits, Live
    <2> QED BY <2>1, <2>2 DEF DrawerInv
  <1>10. /\ shell \in Shell /\ shell.mutation = "none" /\ ~shell.page /\ ~shell.drawer /\ ~shell.orphan
    BY <1>4 DEF NoPage, Shell, Kinds
  <1>11. modal \in Dialog /\ ~modal.open /\ modal.doing = "nothing" /\ modal.token = z
    BY <1>4 DEF Dialog
  <1>12. PageInv
    BY <1>1, <1>5, <1>6, <1>8, <1>10, <1>11 DEF PageInv, PageTypes, PageFits, Given, Idle
  <1>13. LockIsHeld
    BY <1>5 DEF LockIsHeld
  <1> QED BY <1>5, <1>7, <1>9, <1>12, <1>13 DEF IInv

LEMMA Stuttering == ASSUME IInv, UNCHANGED vars PROVE IInv'
  <1>1. /\ UNCHANGED <<sheet, asks, ctl, calls, released, chain, parting>>
        /\ UNCHANGED <<drafting, holder, issued, abandoned, shell, modal>>
    BY DEF vars
  <1>2. UNCHANGED server /\ UNCHANGED drawerVars /\ Keeps /\ PageInv
    BY <1>1 DEF server, drawerVars, Keeps, IInv
  <1>3. SheetInv'
    BY <1>1, <1>2, SheetFrame DEF IInv, SheetInv, SheetFits, Idle
  <1>4. DrawerInv' /\ SessionIsOfThePast' /\ \A t : DrawerHas(t) => DrawerHas(t)'
    BY <1>2, DrawerFrame
  <1>5. PageFits' /\ shell' \in Shell /\ modal' \in Dialog
    BY <1>1, <1>2 DEF PageInv, PageTypes, PageFits, Idle
  <1>6. SheetPasses /\ DrawerPasses
    BY <1>1, <1>4 DEF SheetPasses, SheetHas, DrawerPasses
  <1> QED BY <1>1, <1>2, <1>3, <1>4, <1>5, <1>6, PageStep

LEMMA StepIInv == ASSUME ~LateAnswers, IInv, [Next]_vars PROVE IInv'
  BY Stuttering, SheetActsStep, DrawerActsStep, OthersStep, OpenPageStep, LeavePageStep,
     BeginMutationStep, HandedOverStep, OrphanedHandoffStep, RecoverEditingStep, RecoveredStep,
     TransitionStep, DrawerClosedStep, RefreshSucceedsStep, ProjectReadStep, ModalRunStep, ModalEndsStep
  DEF Next

(* The invariant holds of every page whose answers about a lock arrive before   *)
(* the next lock is taken.                                                     *)
THEOREM Invariance == ASSUME ~LateAnswers PROVE Spec => []IInv
  <1>1. Init => IInv
    BY InitIInv
  <1>2. IInv /\ [Next]_vars => IInv'
    BY StepIInv
  <1> QED BY <1>1, <1>2, PTL DEF Spec

(* The sheet and the other editors of the page never take the lock at once,     *)
(* and what stands on the form of the profile was read under the lock the      *)
(* drawer holds: useProductEditingCoordinator and ProjectProfileDrawer.        *)
THEOREM EditorsTakeTurns == ASSUME ~LateAnswers PROVE Spec => []OneEditorAtATime
  <1>1. IInv => OneEditorAtATime
    <2> SUFFICES ASSUME IInv PROVE OneEditorAtATime
      OBVIOUS
    <2>1. PageInv /\ SheetInv /\ DrawerInv /\ shell \in Shell /\ ctl \in Controller
      BY DEF IInv, PageInv, PageTypes, DrawerInv, DrawerTypes
    <2>2. ASSUME sheet.status = "held" PROVE ctl.phase = "closed" /\ ~modal.open /\ Idle
      <3>1. Idle
        BY <2>1, <2>2 DEF SheetInv, SheetFits
      <3> QED BY <2>1, <3>1 DEF PageInv, PageFits, Idle
    <2>3. P!DraftBelongsToTheLock
      BY <2>1 DEF P!DraftBelongsToTheLock, DrawerInv, ControllerFits
    <2> QED BY <2>2, <2>3 DEF OneEditorAtATime
  <1> QED BY <1>1, Invariance, PTL

(* A live lock of this tab is in the hands of somebody who will release it, or  *)
(* the user was told of it: the sheet, a request under way, the drawer, a       *)
(* session that waits for its last save, or the layer replacement.             *)
THEOREM LocksAreRemembered == ASSUME ~LateAnswers PROVE Spec => []NoLockIsForgotten
  <1>1. IInv => NoLockIsForgotten
    BY DEF IInv, LockIsHeld, NoLockIsForgotten, SheetHas, DrawerHas, S!InHand, P!InHand, P!Releases
  <1> QED BY <1>1, Invariance, PTL

-----------------------------------------------------------------------------
(* The page of the sheet: the shape of what its effects read, and a jump under *)
(* way aims at a column that the category on display has.                      *)
View == [layer : 1..2, only : BOOLEAN, category : PageColumns \cup {Nowhere}]
ShownFits == shown \in View
PasteFits == paste = [cells |-> paste.cells, valid |-> paste.valid, written |-> paste.written,
                      kept |-> paste.kept, seen |-> paste.seen]
JumpFits == pending # Nowhere => /\ pending[2] \in PageColumns
                                 /\ shown.category \in {Nowhere, pending[2]}
SheetPageInv == ShownFits /\ PasteFits /\ JumpFits

LEMMA InitPage == PageInit => SheetPageInv
  BY DEF PageInit, SheetPageInv, ShownFits, View, PasteFits, NoPaste, JumpFits

LEMMA LayersAreTwo == ASSUME NEW r PROVE LayerOf(r) \in 1..2
  BY DEF LayerOf

(* An effect recovers the layer only, and ends no jump before it is reached.   *)
LEMMA CommitStep == ASSUME SheetPageInv, CommitRendering PROVE SheetPageInv'
  <1>1. shown' = RecoverLayerSelection
    BY DEF CommitRendering
  <1>2. shown' \in View /\ shown'.category = shown.category
    BY <1>1 DEF RecoverLayerSelection, SheetPageInv, ShownFits, View
  <1>3. paste' = paste /\ (pending' = pending \/ pending' = Nowhere)
    BY DEF CommitRendering
  <1> QED BY <1>2, <1>3 DEF SheetPageInv, ShownFits, PasteFits, JumpFits

(* Moving about: a jump that stays, or is made, aims at what is on display.    *)
LEMMA MovesStep == ASSUME SheetPageInv, Moves PROVE SheetPageInv'
  <1>1. paste' = paste
    BY DEF Moves, ChooseCategory, JumpToColumn, ActivateLayer, ChangeCurrentLayerOnly,
           ActivateSheetCoordinate, ActivateHistoryTarget, StayEditing
  <1>2. shown' \in View /\ JumpFits'
    <2>1. ASSUME NEW k \in PageColumns \cup {Nowhere}, ChooseCategory(k)
          PROVE shown' \in View /\ JumpFits'
      BY <2>1 DEF ChooseCategory, SheetPageInv, ShownFits, View, JumpFits
    <2>2. ASSUME NEW c \in PageColumns, JumpToColumn(c) PROVE shown' \in View /\ JumpFits'
      BY <2>2 DEF JumpToColumn, SheetPageInv, ShownFits, View, JumpFits
    <2>3. ASSUME NEW l \in 1..2, ActivateLayer(l) PROVE shown' \in View /\ JumpFits'
      BY <2>3 DEF ActivateLayer, SheetPageInv, ShownFits, View, JumpFits
    <2>4. CASE ChangeCurrentLayerOnly
      BY <2>4 DEF ChangeCurrentLayerOnly, SheetPageInv, ShownFits, View, JumpFits
    <2>5. ASSUME NEW r \in PageConditions, NEW c \in PageColumns, ActivateSheetCoordinate(r, c)
          PROVE shown' \in View /\ JumpFits'
      <3>1. CASE ~MayDiscover
        BY <2>5, <3>1 DEF ActivateSheetCoordinate, SheetPageInv, ShownFits, JumpFits
      <3>2. CASE MayDiscover /\ r \notin listing
        BY <2>5, <3>2 DEF ActivateSheetCoordinate, SheetPageInv, ShownFits, JumpFits
      <3>3. CASE /\ shown' = [shown EXCEPT !.layer = LayerOf(r), !.category = Revealed(c)]
                 /\ pending' = <<r, c>>
        BY <3>3, LayersAreTwo
           DEF Revealed, ColumnsShown, SheetPageInv, ShownFits, View, JumpFits
      <3> QED BY <2>5, <3>1, <3>2, <3>3 DEF ActivateSheetCoordinate
    <2>6. ASSUME NEW r \in PageConditions, NEW c \in PageColumns, ActivateHistoryTarget(r, c)
          PROVE shown' \in View /\ JumpFits'
      BY <2>6 DEF ActivateHistoryTarget, SheetPageInv, ShownFits, View, JumpFits
    <2> QED BY <2>1, <2>2, <2>3, <2>4, <2>5, <2>6 DEF Moves
  <1> QED BY <1>1, <1>2 DEF SheetPageInv, ShownFits, PasteFits

LEMMA EditsStep == ASSUME SheetPageInv, Edits PROVE SheetPageInv'
  <1>1. shown' = shown /\ pending' = pending
    BY DEF Edits, CellEdit, ReadClipboard, PasteArrives, CancelPaste, CommitPaste, ApplyPaste,
           PasteSaved, PasteFails, StayPlace
  <1>2. PasteFits'
    <2>1. CASE PasteArrives
      <3>1. paste' = paste \/ \E cells, valid, seen :
                paste' = [cells |-> cells, valid |-> valid, written |-> {}, kept |-> {},
                          seen |-> seen]
        BY <2>1 DEF PasteArrives
      <3> QED BY <3>1 DEF SheetPageInv, PasteFits
    <2>2. CASE ApplyPaste
      <3>1. paste' = paste \/ \E cells :
                paste' = [paste EXCEPT !.valid = cells, !.written = cells]
        BY <2>2 DEF ApplyPaste
      <3> QED BY <3>1 DEF SheetPageInv, PasteFits
    <2>3. CASE PasteFails
      BY <2>3 DEF PasteFails, SheetPageInv, PasteFits
    <2>4. CASE paste' = paste \/ paste' = NoPaste
      BY <2>4 DEF SheetPageInv, PasteFits, NoPaste
    <2> QED BY <2>1, <2>2, <2>3, <2>4
         DEF Edits, CellEdit, ReadClipboard, CancelPaste, CommitPaste, PasteSaved
  <1> QED BY <1>1, <1>2 DEF SheetPageInv, ShownFits, JumpFits

LEMMA StructureStep == ASSUME SheetPageInv, Structure PROVE SheetPageInv'
  <1>1. paste' = paste /\ pending' = pending
    BY DEF Structure, ConditionActivate, PorChange, ClearActive, HandleAdd, HandleDelete,
           StartStructural, StructuralSucceeds, StructuralFails, RefreshSheet, RefreshFails,
           RetryStructuralRefresh, StayEditing, StayPlace
  <1>2. shown' = shown \/ \E r : shown' = [shown EXCEPT !.layer = LayerOf(r)]
    BY DEF Structure, ConditionActivate, PorChange, ClearActive, HandleAdd, HandleDelete,
           StartStructural, StructuralSucceeds, StructuralFails, RefreshSheet, RefreshFails,
           RetryStructuralRefresh, StayEditing, StayPlace
  <1> QED BY <1>1, <1>2, LayersAreTwo DEF SheetPageInv, ShownFits, View, PasteFits, JumpFits

LEMMA PageStepsFit == ASSUME SheetPageInv, [PageNext]_pageVars PROVE SheetPageInv'
  <1>1. CASE Around
    BY <1>1 DEF Around, LockChanges, OtherChanges, SheetRead, ChoicesChange, StayEditing,
       StayPlace, SheetPageInv, ShownFits, PasteFits, JumpFits
  <1>2. CASE UNCHANGED pageVars
    BY <1>2 DEF pageVars, SheetPageInv, ShownFits, PasteFits, JumpFits
  <1> QED BY <1>1, <1>2, CommitStep, MovesStep, EditsStep, StructureStep DEF PageNext

LEMMA PageInvariance == PageSpec => []SheetPageInv
  <1> QED BY InitPage, PageStepsFit, PTL DEF PageSpec

(* What is written was staged and holds, and a review is alone.                *)
LEMMA WritesHold ==
    ASSUME SheetPageInv, [PageNext]_pageVars, paste'.written # paste.written
    PROVE  \A x \in paste'.written :
              IF paste.kept # {} THEN x \in paste.kept
              ELSE x \in paste.cells /\ x[1] \in committed.listing /\ Valid(x)
  <1>1. CASE ApplyPaste
    <2>1. PICK cells : /\ cells = IF paste.kept # {} THEN paste.kept ELSE RevalidatePasteStaging
                       /\ paste' = paste \/ paste' = [paste EXCEPT !.valid = cells, !.written = cells]
      BY <1>1 DEF ApplyPaste
    <2>2. paste'.written = cells
      BY <2>1 DEF SheetPageInv, PasteFits
    <2> QED BY <2>1, <2>2 DEF RevalidatePasteStaging
  <1>2. CASE paste'.written = {}
    BY <1>2
  <1>3. ASSUME ~ApplyPaste PROVE paste'.written = {}
    <2>1. CASE PasteArrives
      BY <2>1 DEF PasteArrives
    <2>2. CASE PasteFails
      BY <2>2 DEF PasteFails, SheetPageInv, PasteFits
    <2>3. CASE paste' = paste \/ paste' = NoPaste
      BY <2>3 DEF NoPaste
    <2> QED BY <1>3, <2>1, <2>2, <2>3
         DEF PageNext, pageVars, CommitRendering, Moves, ChooseCategory, JumpToColumn,
             ActivateLayer, ChangeCurrentLayerOnly, ActivateSheetCoordinate,
             ActivateHistoryTarget, Edits, CellEdit, ReadClipboard, CancelPaste, CommitPaste,
             PasteSaved, Structure, ConditionActivate, PorChange, ClearActive, HandleAdd,
             HandleDelete, StartStructural, StructuralSucceeds, StructuralFails, RefreshSheet,
             RefreshFails, RetryStructuralRefresh, Around, LockChanges, OtherChanges,
             SheetRead, ChoicesChange, StayEditing
  <1> QED BY <1>1, <1>2, <1>3

LEMMA ReviewIsAlone ==
    ASSUME SheetPageInv, [PageNext]_pageVars, UnderReview, paste' # NoPaste
    PROVE  /\ edited' \subseteq edited
           /\ paste'.cells = paste.cells
           /\ struct.phase = "none" => struct'.phase = "none"
  <1>1. edited' \subseteq edited
    BY DEF PageNext, pageVars, CommitRendering, Moves, ChooseCategory, JumpToColumn,
           ActivateLayer, ChangeCurrentLayerOnly, ActivateSheetCoordinate,
           ActivateHistoryTarget, Edits, CellEdit, ReadClipboard, PasteArrives, CancelPaste,
           CommitPaste, ApplyPaste, PasteSaved, PasteFails, Structure, ConditionActivate,
           PorChange, ClearActive, HandleAdd, HandleDelete, StartStructural,
           StructuralSucceeds, StructuralFails, RefreshSheet, RefreshFails,
           RetryStructuralRefresh, Around, LockChanges, OtherChanges, SheetRead,
           ChoicesChange, StayEditing
  <1>2. paste'.cells = paste.cells
    <2>1. CASE ApplyPaste
      <3>1. paste' = paste \/ \E cells :
                paste' = [paste EXCEPT !.valid = cells, !.written = cells]
        BY <2>1 DEF ApplyPaste
      <3> QED BY <3>1 DEF SheetPageInv, PasteFits
    <2>2. CASE PasteFails
      BY <2>2 DEF PasteFails, SheetPageInv, PasteFits
    <2>3. CASE PasteArrives
      BY <2>3 DEF PasteArrives
    <2>4. ASSUME ~ApplyPaste, ~PasteFails, ~PasteArrives PROVE paste' = paste
      BY <2>4
         DEF PageNext, pageVars, CommitRendering, Moves, ChooseCategory, JumpToColumn,
             ActivateLayer, ChangeCurrentLayerOnly, ActivateSheetCoordinate,
             ActivateHistoryTarget, Edits, CellEdit, ReadClipboard, CancelPaste, CommitPaste,
             PasteSaved, Structure, ConditionActivate, PorChange, ClearActive, HandleAdd,
             HandleDelete, StartStructural, StructuralSucceeds, StructuralFails, RefreshSheet,
             RefreshFails, RetryStructuralRefresh, Around, LockChanges, OtherChanges,
             SheetRead, ChoicesChange, StayEditing
    <2> QED BY <2>1, <2>2, <2>3, <2>4
  <1>3. struct.phase = "none" => struct'.phase = "none"
    <2> SUFFICES ASSUME struct.phase = "none" PROVE struct' = struct \/ struct' = NoStruct
      BY DEF NoStruct
    <2>1. CASE CommitRendering \/ Moves \/ Edits \/ Around \/ UNCHANGED pageVars
      BY <2>1
         DEF pageVars, CommitRendering, Moves, ChooseCategory, JumpToColumn, ActivateLayer,
             ChangeCurrentLayerOnly, ActivateSheetCoordinate, ActivateHistoryTarget, Edits,
             CellEdit, ReadClipboard, PasteArrives, CancelPaste, CommitPaste, ApplyPaste,
             PasteSaved, PasteFails, Around, LockChanges, OtherChanges, SheetRead,
             ChoicesChange, StayEditing
    <2>2. CASE Structure
      <3>1. ~HandleAdd /\ ~HandleDelete /\ \A r : ~PorChange(r)
        BY DEF HandleAdd, HandleDelete, PorChange, MayManage
      <3>2. ~StructuralSucceeds /\ ~StructuralFails /\ ~RefreshSheet /\ ~RefreshFails
        BY DEF StructuralSucceeds, StructuralFails, RefreshSheet, RefreshFails
      <3> QED BY <2>2, <3>1, <3>2
           DEF Structure, ConditionActivate, ClearActive, RetryStructuralRefresh, StayEditing
    <2> QED BY <2>1, <2>2 DEF PageNext
  <1> QED BY <1>1, <1>2, <1>3

LEMMA SettledPage == ASSUME SheetPageInv PROVE PageSettles
  <1> SUFFICES ASSUME ~CommitDue PROVE PageSettles
    BY DEF PageSettles
  <1>1. active \in listing \cup {Nowhere, focus}
    BY DEF CommitDue, PruneActive
  <1>2. listing # {} => \E r \in listing : LayerOf(r) = shown.layer
    <2> SUFFICES ASSUME listing # {}, ~\E r \in listing : LayerOf(r) = shown.layer PROVE FALSE
      OBVIOUS
    <2>1. shown = [shown EXCEPT !.layer = 3 - shown.layer]
      BY DEF CommitDue, RecoverLayerSelection
    <2> QED BY <2>1 DEF SheetPageInv, ShownFits, View
  <1>3. pending = Nowhere
    BY DEF CommitDue, JumpEnds, ColumnsShown, SheetPageInv, JumpFits
  <1> QED BY <1>1, <1>2, <1>3 DEF PageSettles

(* A paste writes only what was under review and holds when its turn comes,    *)
(* and is alone while it is reviewed; the page settles on what exists.         *)
THEOREM PastesWriteWhatHolds == PageSpec => PasteWritesWhatHolds
  <1>1. SheetPageInv /\ [PageNext]_pageVars =>
            [paste'.written # paste.written =>
               \A x \in paste'.written :
                  IF paste.kept # {} THEN x \in paste.kept
                  ELSE x \in paste.cells /\ x[1] \in committed.listing /\ Valid(x)]_pageVars
    BY WritesHold
  <1>2. SheetPageInv /\ [PageNext]_pageVars =>
            [UnderReview /\ paste' # NoPaste =>
               /\ edited' \subseteq edited
               /\ paste'.cells = paste.cells
               /\ struct.phase = "none" => struct'.phase = "none"]_pageVars
    BY ReviewIsAlone
  <1>3. SheetPageInv => PageSettles
    BY SettledPage
  <1> QED BY <1>1, <1>2, <1>3, PageInvariance, PTL
       DEF PageSpec, PasteWritesWhatHolds, WritesWhatHolds, ReviewIsExclusive

-----------------------------------------------------------------------------
(* The page of parameters: the shape of its state, ...                         *)
IsSession(e) == e = [target |-> e.target, hydrated |-> e.hydrated, orig |-> e.orig,
                     form |-> e.form, auth |-> e.auth, complete |-> e.complete, ask |-> e.ask,
                     off |-> e.off, since |-> e.since]
IsDetail(d) == d = [data |-> d.data, req |-> d.req, err |-> d.err, fresh |-> d.fresh]
IsSave(s) == s = [kind |-> s.kind, form |-> s.form, off |-> s.off, phase |-> s.phase]
ParameterShape == /\ parameter = [v |-> parameter.v, on |-> parameter.on, ver |-> parameter.ver]
                  /\ parameter.ver \in Nat
RouteShape == url = [edit |-> url.edit, query |-> url.query, cat |-> url.cat]
SetsShape == sets = [data |-> sets.data, req |-> sets.req, err |-> sets.err]
CsvShape == csv = [open |-> csv.open, text |-> csv.text, preview |-> csv.preview, of |-> csv.of,
                   applied |-> csv.applied]
EditorShapes == /\ IsDetail(detail) /\ SetsShape /\ IsSession(ed)
                /\ save # Missing => IsSave(save)
(* ... the session of the editor is that of the address, and what is read for  *)
(* it is no older than it, ...                                                 *)
EditorFits == /\ url.edit = ed.target /\ ed.since \in 0..parameter.ver
              /\ ed.target = "closed" => ~ed.hydrated
              /\ ed.complete \/ ed.ask => ed.hydrated /\ ~(ed.complete /\ ed.ask)
IsRecent(s, e) == s.ver \in Nat /\ s.ver >= e.since
DetailIsRecent(d, e) == /\ d.req # Missing => IsRecent(d.req, e)
                        /\ SelectFreshParameterForHydration(d) => IsRecent(d.data, e)
(* ... a choice set that counts was taken after the last list without it, ...  *)
AuthFits == ed.target = "new" /\ ed.auth # Missing => ed.auth \notin shownOff
(* ... and a save is of the form, which stands still until it is over.         *)
SaveFits ==
    /\ save # Missing =>
          /\ save.form = ed.form /\ ed.hydrated /\ ~ed.complete
          /\ save.phase \in {"sent", "done", "settling"}
          /\ save.phase = "done" => save.kind = "off" \/ storedForm = ed.form
          /\ save.phase = "settling" => ed.off \/ storedForm = ed.form
    /\ ed.complete => ed.off \/ storedForm = ed.form
EditorInv == /\ ParameterShape /\ RouteShape /\ EditorShapes /\ EditorFits
             /\ DetailIsRecent(detail, ed) /\ EditorStartsFresh
             /\ AuthFits /\ SetIsReconfirmed /\ SaveFits
CsvFits == CsvShape /\ PreviewIsOfTheText
FormInv == EditorInv /\ CsvFits

LEMMA InitForm == FormInit => FormInv
  BY DEF FormInit, FormInv, EditorInv, ParameterShape, RouteShape, EditorShapes, IsDetail,
         SetsShape, Query, IsSession, NoSession, EditorFits, DetailIsRecent, IsRecent,
         SelectFreshParameterForHydration, EditorStartsFresh, AuthFits, SetIsReconfirmed,
         SaveFits, CsvFits, CsvShape, InitialCsv, PreviewIsOfTheText

(* A form is filled once, from an answer that is fresh.                        *)
LEMMA Hydration ==
    ASSUME NEW e, NEW d, IsSession(e), NEW h, h = Hydrated(e, d)
    PROVE  /\ IsSession(h) /\ h.target = e.target /\ h.since = e.since /\ h.auth = e.auth
           /\ h.complete = e.complete /\ h.ask = e.ask /\ h.off = e.off
           /\ \/ h = e
              \/ /\ e.target = "existing" /\ ~e.hydrated /\ h.hydrated
                 /\ SelectFreshParameterForHydration(d) /\ h.orig = d.data
  <1>1. CASE h = e
    BY <1>1
  <1>2. CASE /\ e.target = "existing" /\ ~e.hydrated /\ SelectFreshParameterForHydration(d)
    <2>1. PICK form : h = [e EXCEPT !.hydrated = TRUE, !.orig = d.data, !.form = form]
      BY <1>2 DEF Hydrated
    <2> QED BY <1>2, <2>1 DEF IsSession
  <1> QED BY <1>1, <1>2 DEF Hydrated

(* A list of sets can only take the selection back.                            *)
LEMMA Reconciliation ==
    ASSUME NEW e, NEW s, IsSession(e), NEW h, h = Reconciled(e, s)
    PROVE  /\ IsSession(h) /\ h.target = e.target /\ h.since = e.since /\ h.form = e.form
           /\ h.hydrated = e.hydrated /\ h.orig = e.orig
           /\ h.complete = e.complete /\ h.ask = e.ask /\ h.off = e.off
           /\ h.auth \in {e.auth, Missing}
           /\ e.target = "new" /\ s.data # Missing /\ ~s.err /\ s.req = Missing =>
                 h.auth = Missing \/ h.auth \in s.data
  <1>1. CASE e.target # "new" \/ s.data = Missing \/ s.err \/ s.req # Missing
    BY <1>1 DEF Reconciled
  <1>2. CASE ~(e.target # "new" \/ s.data = Missing \/ s.err \/ s.req # Missing)
    <2>1. PICK a : a = ReconcileAuthorization(e.auth, e.form.set, s)
      OBVIOUS
    <2>2. h = [e EXCEPT !.auth = a]
      BY <1>2, <2>1 DEF Reconciled
    <2>3. a = Missing \/ (a = e.auth /\ a \in s.data)
      BY <2>1 DEF ReconcileAuthorization
    <2> QED BY <2>2, <2>3 DEF IsSession
  <1> QED BY <1>1, <1>2

(* What others do, and what the rest of the page does, leaves the editor as it *)
(* is; the registry only moves on.                                             *)
LEMMA EditorRests ==
    ASSUME EditorInv, UNCHANGED editorVars, url'.edit = url.edit, RouteShape', ParameterShape',
           parameter'.ver >= parameter.ver
    PROVE  EditorInv'
  BY DEF EditorInv, editorVars, ParameterShape, EditorShapes, SetsShape, EditorFits,
         DetailIsRecent, IsRecent, SelectFreshParameterForHydration, EditorStartsFresh, AuthFits,
         SetIsReconfirmed, SaveFits

AwayFromEditor ==
    \/ OthersWrite \/ OthersSwitchSet \/ ListAnswered \/ ListReadFails \/ RetryParameterList
    \/ Typing \/ SearchTimer \/ BackInHistory \/ RepairRoute \/ SetFilter
    \/ OpenCsv \/ EditCsv \/ PreviewCsv \/ ApplyCsv \/ CsvAnswered \/ CsvFails \/ CloseCsv
    \/ ToggleCategory \/ FillCategory \/ SubmitCategory \/ CategoryAnswered

LEMMA AwayStep == ASSUME EditorInv, AwayFromEditor PROVE EditorInv'
  <1>1. UNCHANGED editorVars
    BY DEF AwayFromEditor, OthersWrite, OthersSwitchSet, ListAnswered, ListReadFails,
           RetryParameterList, Typing, SearchTimer, BackInHistory, RepairRoute, SetFilter,
           OpenCsv, EditCsv, PreviewCsv, ApplyCsv, CsvAnswered, CsvFails, CloseCsv,
           ToggleCategory, FillCategory, SubmitCategory, CategoryAnswered
  <1>2. url' = url \/ (\E q : url' = [url EXCEPT !.query = q])
                   \/ (\E c : url' = [url EXCEPT !.cat = c])
    BY DEF AwayFromEditor, OthersWrite, OthersSwitchSet, ListAnswered, ListReadFails,
           RetryParameterList, Typing, SearchTimer, BackInHistory, RepairRoute, SetFilter,
           OpenCsv, EditCsv, PreviewCsv, ApplyCsv, CsvAnswered, CsvFails, CloseCsv,
           ToggleCategory, FillCategory, SubmitCategory, CategoryAnswered, route
  <1>3. url'.edit = url.edit /\ RouteShape'
    BY <1>2 DEF EditorInv, RouteShape
  <1>4. \/ parameter' = parameter
        \/ \E v, on : parameter' = [v |-> v, on |-> on, ver |-> parameter.ver + 1]
        \/ parameter' = [parameter EXCEPT !.ver = @ + 1]
        \/ parameter' = [parameter EXCEPT !.v = 1, !.on = TRUE, !.ver = @ + 1]
    BY DEF AwayFromEditor, OthersWrite, OthersSwitchSet, ListAnswered, ListReadFails,
           RetryParameterList, Typing, SearchTimer, BackInHistory, RepairRoute, SetFilter,
           OpenCsv, EditCsv, PreviewCsv, ApplyCsv, CsvAnswered, CsvFails, CloseCsv,
           ToggleCategory, FillCategory, SubmitCategory, CategoryAnswered, registry
  <1>5. ParameterShape' /\ parameter'.ver >= parameter.ver
    <2>1. ParameterShape /\ parameter.ver \in Nat
      BY DEF EditorInv, ParameterShape
    <2>2. CASE parameter' = parameter
      BY <2>1, <2>2 DEF ParameterShape
    <2>3. ASSUME NEW v, NEW on,
                 parameter' = [v |-> v, on |-> on, ver |-> parameter.ver + 1]
          PROVE  ParameterShape' /\ parameter'.ver >= parameter.ver
      BY <2>1, <2>3 DEF ParameterShape
    <2>4. CASE parameter' = [parameter EXCEPT !.ver = @ + 1]
      <3>1. parameter' = [v |-> parameter.v, on |-> parameter.on, ver |-> parameter.ver + 1]
        BY <2>1, <2>4 DEF ParameterShape
      <3> QED BY <3>1, <2>3
    <2>5. CASE parameter' = [parameter EXCEPT !.v = 1, !.on = TRUE, !.ver = @ + 1]
      <3>1. parameter' = [v |-> 1, on |-> TRUE, ver |-> parameter.ver + 1]
        BY <2>1, <2>5 DEF ParameterShape
      <3> QED BY <3>1, <2>3
    <2> QED BY <1>4, <2>2, <2>3, <2>4, <2>5
  <1> QED BY <1>1, <1>3, <1>5, EditorRests

(* The reads of the parameter.                                                 *)
LEMMA DetailStep ==
    ASSUME EditorInv, DetailAnswered \/ DetailFails \/ RetryParameter PROVE EditorInv'
  <1>1. UNCHANGED <<registry, url, sets, save, storedForm, shownOff>>
    BY DEF DetailAnswered, DetailFails, RetryParameter, route
  <1>2. IsDetail(detail') /\ DetailIsRecent(detail', ed)
    <2>1. CASE DetailAnswered
      BY <2>1 DEF DetailAnswered, EditorInv, DetailIsRecent, IsRecent, IsDetail,
                  SelectFreshParameterForHydration
    <2>2. CASE DetailFails
      <3>1. detail' = [data |-> detail.data, req |-> Missing, err |-> TRUE, fresh |-> TRUE]
        BY <2>2 DEF DetailFails, EditorInv, EditorShapes, IsDetail
      <3> QED BY <3>1 DEF DetailIsRecent, IsRecent, IsDetail, SelectFreshParameterForHydration
    <2>3. CASE RetryParameter
      <3>1. detail' = [data |-> detail.data, req |-> parameter, err |-> detail.err,
                       fresh |-> detail.fresh]
        BY <2>3 DEF RetryParameter, EditorInv, EditorShapes, IsDetail
      <3> QED BY <3>1 DEF DetailIsRecent, IsRecent, IsDetail, SelectFreshParameterForHydration,
                          EditorInv, EditorFits, ParameterShape
    <2> QED BY <2>1, <2>2, <2>3
  <1>3. ed' = ed \/ ed' = Hydrated(ed, detail')
    BY DEF DetailAnswered, DetailFails, RetryParameter
  <1>4. /\ IsSession(ed') /\ ed'.target = ed.target /\ ed'.since = ed.since
        /\ ed'.auth = ed.auth /\ ed'.complete = ed.complete /\ ed'.ask = ed.ask
        /\ ed'.off = ed.off
        /\ \/ ed' = ed
           \/ /\ ed.target = "existing" /\ ~ed.hydrated /\ ed'.hydrated
              /\ SelectFreshParameterForHydration(detail') /\ ed'.orig = detail'.data
    <2>1. IsSession(ed)
      BY DEF EditorInv, EditorShapes
    <2>2. CASE ed' = ed
      BY <2>1, <2>2
    <2>3. CASE ed' = Hydrated(ed, detail')
      <3>1. PICK e, d, h : e = ed /\ d = detail' /\ h = ed'
        OBVIOUS
      <3>2. IsSession(e) /\ h = Hydrated(e, d)
        BY <2>1, <2>3, <3>1
      <3>3. /\ IsSession(h) /\ h.target = e.target /\ h.since = e.since /\ h.auth = e.auth
            /\ h.complete = e.complete /\ h.ask = e.ask /\ h.off = e.off
            /\ \/ h = e
               \/ /\ e.target = "existing" /\ ~e.hydrated /\ h.hydrated
                  /\ SelectFreshParameterForHydration(d) /\ h.orig = d.data
        BY <3>2, Hydration
      <3> QED BY <3>1, <3>3
    <2> QED BY <1>3, <2>2, <2>3
  <1>5. DetailIsRecent(detail', ed') /\ EditorStartsFresh'
    BY <1>2, <1>4 DEF DetailIsRecent, IsRecent, EditorInv, EditorStartsFresh
  <1>6. EditorFits' /\ AuthFits' /\ SetIsReconfirmed' /\ SaveFits'
    BY <1>1, <1>4 DEF registry, EditorInv, EditorFits, AuthFits, SetIsReconfirmed, SaveFits
  <1> QED BY <1>1, <1>2, <1>4, <1>5, <1>6
       DEF registry, EditorInv, ParameterShape, RouteShape, EditorShapes, SetsShape

(* The lists of sets: one that does not show the set takes the selection back. *)
LEMMA SetsStep ==
    ASSUME EditorInv, SetsAnswered \/ SetsFail \/ PreparePicker PROVE EditorInv'
  <1>1. UNCHANGED <<registry, url, detail, save, storedForm>>
    BY DEF SetsAnswered, SetsFail, PreparePicker, route
  <1>2. SetsShape'
    <2>1. CASE SetsAnswered
      BY <2>1 DEF SetsAnswered, Query, SetsShape
    <2>2. CASE SetsFail \/ PreparePicker
      BY <2>2 DEF SetsFail, PreparePicker, EditorInv, EditorShapes, SetsShape
    <2> QED BY <2>1, <2>2
  <1>3. /\ IsSession(ed') /\ ed'.target = ed.target /\ ed'.since = ed.since
        /\ ed'.form = ed.form /\ ed'.hydrated = ed.hydrated /\ ed'.orig = ed.orig
        /\ ed'.complete = ed.complete /\ ed'.ask = ed.ask /\ ed'.off = ed.off
        /\ AuthFits'
    <2>1. CASE SetsAnswered
      <3>1. /\ sets.req # Missing /\ ed' = Reconciled(ed, sets')
            /\ sets'.data = sets.req /\ sets'.req = Missing /\ ~sets'.err
            /\ shownOff' = shownOff \cup (Sets \ sets.req)
        BY <2>1 DEF SetsAnswered, Query
      <3>2. /\ IsSession(ed') /\ ed'.target = ed.target /\ ed'.since = ed.since
            /\ ed'.form = ed.form /\ ed'.hydrated = ed.hydrated /\ ed'.orig = ed.orig
            /\ ed'.complete = ed.complete /\ ed'.ask = ed.ask /\ ed'.off = ed.off
            /\ ed'.auth \in {ed.auth, Missing}
            /\ ed.target = "new" => ed'.auth = Missing \/ ed'.auth \in sets.req
        BY <3>1, Reconciliation DEF EditorInv, EditorShapes
      <3> QED BY <3>1, <3>2 DEF EditorInv, AuthFits
    <2>2. CASE SetsFail \/ PreparePicker
      BY <2>2 DEF SetsFail, PreparePicker, EditorInv, EditorShapes, AuthFits
    <2> QED BY <2>1, <2>2
  <1>4. EditorFits' /\ SetIsReconfirmed' /\ SaveFits'
    BY <1>1, <1>3 DEF registry, EditorInv, EditorFits, SetIsReconfirmed, SaveFits
  <1>5. DetailIsRecent(detail', ed') /\ EditorStartsFresh'
    BY <1>1, <1>3 DEF DetailIsRecent, IsRecent, EditorInv, EditorStartsFresh,
                      SelectFreshParameterForHydration
  <1> QED BY <1>1, <1>2, <1>3, <1>4, <1>5
       DEF registry, EditorInv, ParameterShape, RouteShape, EditorShapes

(* A session opens closed to what was read before it.                          *)
LEMMA OpenStep ==
    ASSUME EditorInv, NEW target \in {"new", "existing"}, OpenParameterEditor(target)
    PROVE  EditorInv'
  <1> DEFINE start == StartParameterEditorSession(target)
  <1>1. ed.target = "closed" /\ ~ed.hydrated /\ save = Missing
    BY DEF OpenParameterEditor, EditorInv, EditorFits, SaveFits
  <1>2. /\ save' = save /\ parameter' = parameter /\ shownOff' = {}
        /\ url' = [edit |-> target, query |-> url.query, cat |-> url.cat]
    BY DEF OpenParameterEditor, registry, EditorInv, RouteShape
  <1>3. /\ IsSession(start) /\ start.target = target /\ start.since = parameter.ver
        /\ start.auth = Missing /\ ~start.complete /\ ~start.ask
        /\ target = "existing" => ~start.hydrated
    <2>1. PICK filled : filled = (target # "existing")
      OBVIOUS
    <2>2. start = [NoSession EXCEPT !.target = target, !.hydrated = filled,
                                    !.since = parameter.ver]
      BY <2>1 DEF StartParameterEditorSession
    <2>3. target = "existing" => ~filled
      BY <2>1
    <2> HIDE DEF start
    <2> QED BY <2>2, <2>3 DEF IsSession, NoSession
  <1>4. /\ IsDetail(detail') /\ ~detail'.fresh
        /\ detail'.req = IF target = "existing" THEN parameter ELSE Missing
    BY DEF OpenParameterEditor, EditorInv, EditorShapes, IsDetail
  <1>5. ed' = start
    BY <1>4 DEF OpenParameterEditor, Hydrated, SelectFreshParameterForHydration
  <1> HIDE DEF start
  <1>6. SetsShape'
    <2>1. sets' = sets \/ sets' = [sets EXCEPT !.req = setsOn]
      BY DEF OpenParameterEditor
    <2> QED BY <2>1 DEF EditorInv, EditorShapes, SetsShape
  <1>7. parameter.ver \in Nat /\ ParameterShape
    BY DEF EditorInv, ParameterShape
  <1>8. EditorFits' /\ AuthFits' /\ SaveFits' /\ SetIsReconfirmed'
    BY <1>1, <1>2, <1>3, <1>5, <1>7 DEF EditorFits, AuthFits, SaveFits, SetIsReconfirmed
  <1>9. DetailIsRecent(detail', ed') /\ EditorStartsFresh'
    BY <1>2, <1>3, <1>4, <1>5, <1>7
       DEF DetailIsRecent, IsRecent, SelectFreshParameterForHydration, EditorStartsFresh
  <1> QED BY <1>1, <1>2, <1>3, <1>4, <1>5, <1>6, <1>7, <1>8, <1>9
       DEF EditorInv, ParameterShape, RouteShape, EditorShapes

(* The session ends once a save is through, or while none is under way.        *)
LEMMA CloseEditorStep == ASSUME EditorInv, save = Missing, Close PROVE EditorInv'
  <1>1. /\ UNCHANGED <<parameter, sets, save, storedForm, shownOff>> /\ ed' = NoSession
        /\ url' = [edit |-> "closed", query |-> url.query, cat |-> url.cat]
        /\ detail' = [data |-> detail.data, req |-> Missing, err |-> detail.err,
                      fresh |-> detail.fresh]
    BY DEF Close, registry, EditorInv, RouteShape, EditorShapes, IsDetail
  <1>2. ParameterShape /\ SetsShape
    BY DEF EditorInv, EditorShapes
  <1>3. EditorFits' /\ AuthFits' /\ SaveFits' /\ SetIsReconfirmed'
    BY <1>1, <1>2 DEF ParameterShape, NoSession, EditorFits, AuthFits, SaveFits, SetIsReconfirmed
  <1>4. EditorStartsFresh'
    BY <1>1 DEF NoSession, EditorStartsFresh
  <1>5. DetailIsRecent(detail', ed')
    BY <1>1 DEF NoSession, DetailIsRecent, IsRecent, SelectFreshParameterForHydration, EditorInv
  <1> QED BY <1>1, <1>2, <1>3, <1>4, <1>5
       DEF EditorInv, ParameterShape, RouteShape, EditorShapes, SetsShape, IsDetail, IsSession,
           NoSession

(* The form changes only while nothing is under way.                           *)
LEMMA FormChangeStep ==
    ASSUME EditorInv, UpdateField \/ SelectChoiceSet \/ AskDeactivation PROVE EditorInv'
  <1>1. UNCHANGED <<registry, url, detail, sets, save, storedForm>> /\ save = Missing
    BY DEF UpdateField, SelectChoiceSet, AskDeactivation, FieldsLocked, route
  <1>2. ~ed.complete /\ ed.hydrated /\ ed.target # "closed" /\ IsSession(ed)
    BY DEF UpdateField, SelectChoiceSet, AskDeactivation, EditorShown, EditorInv, EditorShapes
  <1>3. /\ IsSession(ed') /\ ed'.target = ed.target /\ ed'.since = ed.since
        /\ ed'.hydrated = ed.hydrated /\ ed'.orig = ed.orig
        /\ ed'.complete = ed.complete /\ ed'.off = ed.off /\ AuthFits'
    <2>1. CASE UpdateField
      <3>1. PICK form : ed' = [ed EXCEPT !.form = form] /\ shownOff' = shownOff
        BY <2>1 DEF UpdateField
      <3> QED BY <1>2, <3>1 DEF IsSession, EditorInv, AuthFits
    <2>2. CASE AskDeactivation
      <3>1. PICK ask : ed' = [ed EXCEPT !.ask = ask] /\ shownOff' = shownOff
        BY <2>2 DEF AskDeactivation
      <3> QED BY <1>2, <3>1 DEF IsSession, EditorInv, AuthFits
    <2>3. CASE SelectChoiceSet
      <3>1. PICK c : /\ ed' = Reconciled([ed EXCEPT !.form.set = c, !.auth = c], sets)
                     /\ shownOff' = shownOff \ {c}
        BY <2>3 DEF SelectChoiceSet
      <3>2. PICK e : e = [ed EXCEPT !.form.set = c, !.auth = c]
        OBVIOUS
      <3>3. PICK form : e = [ed EXCEPT !.form = form, !.auth = c]
        BY <3>2
      <3>4. /\ IsSession(e) /\ e.target = ed.target /\ e.since = ed.since /\ e.auth = c
            /\ e.hydrated = ed.hydrated /\ e.orig = ed.orig /\ e.complete = ed.complete
            /\ e.off = ed.off
        BY <1>2, <3>3 DEF IsSession
      <3>5. PICK h, s : h = ed' /\ s = sets
        OBVIOUS
      <3>6. h = Reconciled(e, s)
        BY <3>1, <3>2, <3>5
      <3>7. /\ IsSession(h) /\ h.target = e.target /\ h.since = e.since
            /\ h.hydrated = e.hydrated /\ h.orig = e.orig /\ h.complete = e.complete
            /\ h.off = e.off /\ h.auth \in {e.auth, Missing}
        BY <3>4, <3>6, Reconciliation
      <3> QED BY <3>1, <3>4, <3>5, <3>7 DEF AuthFits
    <2> QED BY <2>1, <2>2, <2>3
  <1>4. EditorFits' /\ SaveFits' /\ SetIsReconfirmed'
    BY <1>1, <1>2, <1>3 DEF registry, EditorInv, EditorFits, SaveFits, SetIsReconfirmed
  <1>5. DetailIsRecent(detail', ed') /\ EditorStartsFresh'
    BY <1>1, <1>3
       DEF DetailIsRecent, IsRecent, EditorInv, EditorStartsFresh,
           SelectFreshParameterForHydration
  <1> QED BY <1>1, <1>3, <1>4, <1>5
       DEF registry, EditorInv, ParameterShape, RouteShape, EditorShapes, SetsShape

(* A request takes the form as it is; a new parameter takes no set that a list *)
(* left out since the user took it.                                            *)
LEMMA SubmitStep == ASSUME EditorInv, Submit \/ Deactivate PROVE EditorInv'
  <1>1. UNCHANGED <<registry, url, detail, sets, ed, storedForm, shownOff>> /\ save = Missing
    BY DEF Submit, Deactivate, route
  <1>2. ed.hydrated /\ ~ed.complete
    BY DEF Submit, Deactivate, EditorShown, EditorInv, EditorFits
  <1>3. \E kind, off : /\ save' = [kind |-> kind, form |-> ed.form, off |-> off, phase |-> "sent"]
                       /\ kind = "new" /\ ed.form.type = "choice" => ~off
    <2>1. CASE Submit
      <3>1. save' = [kind |-> ed.target, form |-> ed.form, off |-> ed.form.set \in shownOff,
                     phase |-> "sent"]
        BY <2>1 DEF Submit, PersistParameter
      <3>2. ed.target = "new" /\ ed.form.type = "choice" => ed.form.set \notin shownOff
        BY <2>1 DEF Submit, FieldErrors, CreateErrors, EditorInv, AuthFits
      <3>3. PICK kind, off : kind = ed.target /\ off = (ed.form.set \in shownOff)
        OBVIOUS
      <3>4. save' = [kind |-> kind, form |-> ed.form, off |-> off, phase |-> "sent"]
        BY <3>1, <3>3
      <3>5. kind = "new" /\ ed.form.type = "choice" => ~off
        BY <3>2, <3>3
      <3> QED BY <3>4, <3>5
    <2>2. CASE Deactivate
      BY <2>2 DEF Deactivate
    <2> QED BY <2>1, <2>2
  <1>4. IsSave(save') /\ SetIsReconfirmed' /\ SaveFits'
    BY <1>1, <1>2, <1>3 DEF IsSave, SetIsReconfirmed, SaveFits, EditorInv
  <1> QED BY <1>1, <1>4
       DEF registry, EditorInv, ParameterShape, RouteShape, EditorShapes, SetsShape, EditorFits,
           DetailIsRecent, IsRecent, SelectFreshParameterForHydration, EditorStartsFresh, AuthFits

(* The service stores the form; the page reads again, and is then complete.    *)
LEMMA HandleSaveStep == ASSUME EditorInv, HandleSave \/ Refuse PROVE EditorInv'
  <1>1. UNCHANGED <<url, detail, sets, ed, shownOff>> /\ save # Missing
    BY DEF HandleSave, Refuse, route
  <1>2. ParameterShape /\ IsSave(save) /\ parameter.ver \in Nat
    BY <1>1 DEF EditorInv, ParameterShape, EditorShapes
  <1>3. ParameterShape' /\ parameter'.ver \in {parameter.ver, parameter.ver + 1}
    <2>1. CASE HandleSave
      <3>1. PICK v, on : parameter' = [v |-> v, on |-> on, ver |-> parameter.ver + 1]
        BY <2>1 DEF HandleSave
      <3> QED BY <1>2, <3>1 DEF ParameterShape
    <2>2. CASE Refuse
      BY <1>2, <2>2 DEF Refuse, registry, ParameterShape
    <2> QED BY <2>1, <2>2
  <1>4. (save' # Missing => IsSave(save')) /\ SetIsReconfirmed' /\ SaveFits'
    <2>1. CASE HandleSave
      <3>1. /\ save' = [kind |-> save.kind, form |-> save.form, off |-> save.off,
                        phase |-> "done"]
            /\ storedForm' = IF save.kind = "off" THEN storedForm ELSE save.form
        BY <1>2, <2>1 DEF HandleSave, IsSave
      <3> QED BY <1>1, <3>1 DEF IsSave, EditorInv, SetIsReconfirmed, SaveFits
    <2>2. CASE Refuse
      BY <1>1, <2>2 DEF Refuse, EditorInv, SetIsReconfirmed, SaveFits
    <2> QED BY <2>1, <2>2
  <1> QED BY <1>1, <1>2, <1>3, <1>4
       DEF EditorInv, RouteShape, EditorShapes, SetsShape, EditorFits, DetailIsRecent,
           IsRecent, SelectFreshParameterForHydration, EditorStartsFresh, AuthFits

LEMMA SavePersistedStep == ASSUME EditorInv, SavePersisted PROVE EditorInv'
  <1>1. UNCHANGED <<parameter, url, storedForm, shownOff>> /\ save # Missing
    BY DEF SavePersisted, route
  <1>2. /\ IsSave(save) /\ IsSession(ed) /\ IsDetail(detail) /\ SetsShape
        /\ ParameterShape /\ parameter.ver \in Nat
    BY <1>1 DEF EditorInv, ParameterShape, EditorShapes
  <1>3. save' = [kind |-> save.kind, form |-> save.form, off |-> save.off, phase |-> "settling"]
    BY <1>2 DEF SavePersisted, IsSave
  <1>4. /\ IsSession(ed') /\ ed'.target = ed.target /\ ed'.since = ed.since
        /\ ed'.form = ed.form /\ ed'.hydrated = ed.hydrated /\ ed'.orig = ed.orig
        /\ ed'.auth = ed.auth /\ ed'.complete = ed.complete /\ ed'.ask = ed.ask
        /\ save.kind = "off" => ed'.off
    <2>1. PICK off : off = (save.kind = "off")
      OBVIOUS
    <2>2. ed' = [ed EXCEPT !.off = off]
      BY <2>1 DEF SavePersisted
    <2>3. save.kind = "off" => off
      BY <2>1
    <2> QED BY <1>2, <2>2, <2>3 DEF IsSession
  <1>5. /\ IsDetail(detail') /\ detail'.data = parameter
        /\ detail'.req # Missing => detail'.req = parameter \/ detail'.req = detail.req
    BY <1>2 DEF SavePersisted, InvalidateParameterAdminQueries, IsDetail
  <1>6. SetsShape'
    BY <1>2 DEF SavePersisted, InvalidateParameterAdminQueries, SetsShape
  <1>7. EditorFits' /\ AuthFits' /\ SetIsReconfirmed'
    BY <1>1, <1>3, <1>4 DEF EditorInv, EditorFits, AuthFits, SetIsReconfirmed
  <1>8. SaveFits'
    BY <1>1, <1>3, <1>4 DEF SavePersisted, EditorInv, SaveFits
  <1>9. DetailIsRecent(detail', ed') /\ EditorStartsFresh'
    <2>1. IsRecent(parameter, ed')
      BY <1>2, <1>4 DEF IsRecent, EditorInv, EditorFits
    <2>2. detail.req # Missing => IsRecent(detail.req, ed')
      BY <1>4 DEF IsRecent, EditorInv, DetailIsRecent
    <2>3. EditorStartsFresh'
      BY <1>4 DEF EditorInv, EditorStartsFresh
    <2> QED BY <1>5, <2>1, <2>2, <2>3 DEF DetailIsRecent
  <1> QED BY <1>1, <1>2, <1>3, <1>4, <1>5, <1>6, <1>7, <1>8, <1>9
       DEF EditorInv, ParameterShape, RouteShape, EditorShapes, IsSave

LEMMA CompleteStep == ASSUME EditorInv, Complete PROVE EditorInv'
  <1>1. /\ UNCHANGED <<registry, url, detail, sets, storedForm, shownOff>>
        /\ save # Missing /\ save.phase = "settling" /\ save' = Missing
    BY DEF Complete, route
  <1>2. /\ IsSession(ed') /\ ed'.target = ed.target /\ ed'.since = ed.since
        /\ ed'.form = ed.form /\ ed'.hydrated = ed.hydrated /\ ed'.orig = ed.orig
        /\ ed'.auth = ed.auth /\ ed'.complete /\ ~ed'.ask /\ ed'.off = ed.off
    BY DEF Complete, EditorInv, EditorShapes, IsSession
  <1>3. EditorFits' /\ AuthFits' /\ SetIsReconfirmed' /\ SaveFits'
    BY <1>1, <1>2 DEF registry, EditorInv, EditorFits, AuthFits, SetIsReconfirmed, SaveFits
  <1>4. DetailIsRecent(detail', ed') /\ EditorStartsFresh'
    BY <1>1, <1>2
       DEF DetailIsRecent, IsRecent, SelectFreshParameterForHydration, EditorInv,
           EditorStartsFresh
  <1> QED BY <1>1, <1>2, <1>3, <1>4
       DEF registry, EditorInv, ParameterShape, RouteShape, EditorShapes, SetsShape

(* The import: an answer counts for the text on the screen only.               *)
LEMMA CsvStep == ASSUME CsvFits, [FormNext]_formVars PROVE CsvFits'
  <1>1. CASE csv' = csv
    BY <1>1 DEF CsvFits, CsvShape, PreviewIsOfTheText
  <1>2. CASE OpenCsv
    BY <1>2 DEF OpenCsv, CsvFits, CsvShape, PreviewIsOfTheText
  <1>3. CASE EditCsv \/ CloseCsv
    <2>1. csv' = InitialCsv \/ \E t : csv' = [InitialCsv EXCEPT !.open = TRUE, !.text = t]
      BY <1>3 DEF EditCsv, CloseCsv
    <2>2. \E open, t : csv' = [open |-> open, text |-> t, preview |-> Missing, of |-> Missing,
                              applied |-> FALSE]
      BY <2>1 DEF InitialCsv
    <2> QED BY <2>2 DEF CsvFits, CsvShape, PreviewIsOfTheText
  <1>4. CASE CsvAnswered
    <2>1. PICK r \in creqs : csv' = PreviewSucceeded(r) \/ csv' = ApplySucceeded(r)
      BY <1>4 DEF CsvAnswered
    <2>2. CASE csv' = PreviewSucceeded(r)
      BY <2>2 DEF PreviewSucceeded, CsvFits, CsvShape, PreviewIsOfTheText
    <2>3. CASE csv' = ApplySucceeded(r)
      BY <2>3 DEF ApplySucceeded, CsvFits, CsvShape, PreviewIsOfTheText
    <2> QED BY <2>1, <2>2, <2>3
  <1>5. ASSUME FormNext, ~OpenCsv, ~EditCsv, ~CloseCsv, ~CsvAnswered PROVE csv' = csv
    BY <1>5
       DEF FormNext, OthersWrite, OthersSwitchSet, DetailAnswered, DetailFails, RetryParameter,
           SetsAnswered, SetsFail, PreparePicker, ListAnswered, ListReadFails,
           RetryParameterList, Typing, SearchTimer, BackInHistory, RepairRoute, SetFilter,
           OpenNew, OpenExisting, OpenParameterEditor, UpdateField, SelectChoiceSet, Submit,
           AskDeactivation, Deactivate, HandleSave, Refuse, SavePersisted, Complete,
           CompletionCloses, Leave, Close, PreviewCsv, ApplyCsv, CsvFails, ToggleCategory,
           FillCategory, SubmitCategory, CategoryAnswered, dialogs
  <1>6. UNCHANGED formVars => csv' = csv
    BY DEF formVars, dialogs
  <1> QED BY <1>1, <1>2, <1>3, <1>4, <1>5, <1>6

LEMMA FormStepsFit == ASSUME FormInv, [FormNext]_formVars PROVE FormInv'
  <1>1. EditorInv
    BY DEF FormInv
  <1>2. EditorInv'
    <2>1. CASE UNCHANGED formVars
      <3>1. UNCHANGED editorVars /\ parameter' = parameter /\ url' = url
        BY <2>1 DEF formVars, registry, route
      <3>2. ParameterShape' /\ RouteShape' /\ parameter'.ver >= parameter.ver
        BY <1>1, <3>1 DEF EditorInv, ParameterShape, RouteShape
      <3> QED BY <1>1, <3>1, <3>2, EditorRests
    <2>2. CASE AwayFromEditor
      BY <1>1, <2>2, AwayStep
    <2>3. CASE OpenNew \/ OpenExisting
      BY <1>1, <2>3, OpenStep DEF OpenNew, OpenExisting
    <2>4. CASE CompletionCloses \/ Leave
      <3>1. save = Missing
        BY <1>1, <2>4 DEF CompletionCloses, Leave, EditorInv, SaveFits
      <3> QED BY <1>1, <2>4, <3>1, CloseEditorStep DEF CompletionCloses, Leave
    <2> QED BY <1>1, <2>1, <2>2, <2>3, <2>4, DetailStep, SetsStep, FormChangeStep, SubmitStep,
            HandleSaveStep, SavePersistedStep, CompleteStep DEF FormNext, AwayFromEditor
  <1> QED BY <1>2, CsvStep DEF FormInv

LEMMA FormInvariance == FormSpec => []FormInv
  <1> QED BY InitForm, FormStepsFit, PTL DEF FormSpec

(* The parameter form starts from the registry as it is, sends a set that the  *)
(* user confirmed, shows the preview of its text, and closes over nothing.     *)
THEOREM ParameterFormsHold == FormSpec => ParameterFormHolds
  <1>1. FormInv => WhatIsShownHolds
    BY DEF FormInv, EditorInv, CsvFits, WhatIsShownHolds
  <1>2. FormInv /\ [FormNext]_formVars =>
            [ed.complete /\ ed'.target = "closed" => ed.off \/ storedForm = ed.form]_formVars
    BY DEF FormInv, EditorInv, SaveFits
  <1> QED BY <1>1, <1>2, FormInvariance, PTL DEF FormSpec, ParameterFormHolds, SavedBeforeClosing
=============================================================================
