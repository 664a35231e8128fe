------------------------------ MODULE Comments ------------------------------
(* Comments on a project and on the cells of its sheet: the service, whose    *)
(* requests take the project row one after the other, and one browser tab     *)
(* that shows both pages, the project with its own comments and the sheet     *)
(* with a panel for the cell selected in the grid.  Lists are read in pages,  *)
(* newest first, each page from before the last comment of the one before.    *)
EXTENDS Naturals, Sequences, FiniteSets

CONSTANTS
  Commented,    \* cells with comments
  Project,      \* the target of the comments of the project itself
  PageSize,
  LeavesCells,  \* whether another cell is selected while a post is in flight
  FirstComments, \* how many comments there are when the tab opens
  MaxComments,  \* bound: comments
  MaxActs,      \* bound: actions of users, and reads that fail
  None

\* What the constants must satisfy.
CommentConstants ==
    /\ PageSize \in Nat \ {0} /\ {FirstComments, MaxComments, MaxActs} \subseteq Nat
    /\ LeavesCells \in BOOLEAN /\ Project \notin Commented /\ None \notin Nat

Targets == Commented \cup {Project}

VARIABLES comments,   \* stored comments, by identity
          events,     \* the audit trail
          requests,   \* writes on their way, with what they loaded
          row,        \* the request that holds the project row, or None
          cache,      \* target |-> the cached list of comments
          fetch,      \* target |-> the read of the list under way
          panel,      \* the selected cell, and the cell its text was typed for
          newComment, \* whether there is text on the page of the project
          acts

served == <<comments, events>>
tab == <<cache, fetch, panel, newComment>>
commentVars == <<served, requests, row, tab, acts>>

Act == acts < MaxActs /\ acts' = acts + 1

NoList == [items |-> {}, pages |-> 0, more |-> FALSE, stale |-> TRUE, err |-> FALSE,
           own |-> {}, early |-> {}]
NoFetch == [wanted |-> 0, items |-> {}, pages |-> 0, next |-> FALSE,
            read |-> FALSE, page |-> {}, more |-> FALSE]
FirstFetch == [NoFetch EXCEPT !.wanted = 1]

NoSuch == [target |-> None, resolved |-> FALSE, deleted |-> FALSE]
New(t) == [NoSuch EXCEPT !.target = t]
Event(id, kind, from, to) == [id |-> id, kind |-> kind, from |-> from, to |-> to]

CommentsInit == /\ \E of \in [1..FirstComments -> Targets] :
                       comments = [i \in 1..FirstComments |-> New(of[i])]
                /\ events = [i \in 1..FirstComments |-> Event(i, "create", FALSE, FALSE)]
                /\ requests = {} /\ row = None /\ acts = 0
                /\ cache = [t \in Targets |-> NoList]
                /\ fetch = [t \in Targets |-> IF t = Project THEN FirstFetch ELSE NoFetch]
                /\ panel = [cell |-> None, text |-> None] /\ newComment = FALSE

-----------------------------------------------------------------------------
(* The service.                                                               *)

Waiting(r) == r.stage = "sent"
Load(r) == IF r.kind = "create" THEN NoSuch ELSE comments[r.id]
RowTaken == TRUE
RowFree == row = None
TakeRow(r) ==
    /\ Waiting(r) /\ RowFree
    /\ row' = r.n
    /\ requests' = (requests \ {r}) \cup {[r EXCEPT !.stage = "locked", !.loaded = Load(r)]}
    /\ UNCHANGED <<served, tab, acts>>

Refused(r) == r.kind # "create" /\ r.loaded.deleted
Repeated(r) == r.kind = "resolve" /\ r.loaded.resolved = r.to
Changes(r) == ~Refused(r) /\ ~Repeated(r)

CreateComment(r) ==
    /\ r.kind = "create"
    /\ comments' = Append(comments, New(r.target))
    /\ events' = Append(events, Event(Len(comments) + 1, "create", FALSE, FALSE))
SetCommentResolved(r) ==
    /\ r.kind = "resolve"
    /\ IF Changes(r) THEN /\ comments' = [comments EXCEPT ![r.id].resolved = r.to]
                          /\ events' = Append(events,
                                              Event(r.id, "resolve", r.loaded.resolved, r.to))
                     ELSE UNCHANGED served
DeleteComment(r) ==
    /\ r.kind = "delete"
    /\ IF Changes(r) THEN /\ comments' = [comments EXCEPT ![r.id].deleted = TRUE]
                          /\ events' = Append(events, Event(r.id, "delete", r.loaded.resolved,
                                                            r.loaded.resolved))
                     ELSE UNCHANGED served
Commit(r) ==
    /\ r.stage = "locked" /\ row' = None
    /\ CreateComment(r) \/ SetCommentResolved(r) \/ DeleteComment(r)
    /\ requests' = (requests \ {r}) \cup
                      IF r.mine THEN {[r EXCEPT !.stage = IF Refused(r) THEN "refused" ELSE "done",
                                               !.id = IF @ = 0 THEN Len(comments) + 1 ELSE @]}
                      ELSE {}
    /\ UNCHANGED <<tab, acts>>

(* A page: the newest comments of the target before the cursor.               *)
Older(t, before) == {i \in DOMAIN comments : comments[i].target = t /\ i < before}
PageOf(t, before) ==
    {i \in Older(t, before) : Cardinality({j \in Older(t, before) : j > i}) < PageSize}
ListComments(t, before) == PageOf(t, before)
MoreOlder(t, before) == Cardinality(Older(t, before)) > PageSize
Shown(i) == [id |-> i, resolved |-> comments[i].resolved, deleted |-> comments[i].deleted]
Oldest(items, otherwise) == IF items = {} THEN otherwise
                            ELSE CHOOSE i \in {x.id : x \in items} : \A x \in items : i <= x.id

-----------------------------------------------------------------------------
(* The lists of the tab.  A list is read again page by page, as many pages as *)
(* it had, each cursor from the page just read, and reading again drops the   *)
(* read under way.  Only the first read of a list is not dropped: there are   *)
(* no pages yet that it would read again.                                     *)

OnDisplay(t) == t = Project \/ t = panel.cell
Busy(t) == fetch[t].wanted > 0
FirstRead(t) == Busy(t) /\ cache[t].pages = 0
Refetched(t) == [NoFetch EXCEPT !.wanted = IF cache[t].pages = 0 THEN 1 ELSE cache[t].pages]
Restarted(t) == IF FirstRead(t) THEN fetch[t] ELSE Refetched(t)

Before(f) == Oldest(f.items, Len(comments) + 1)
WithPage(f, t) == [wanted |-> f.wanted, items |-> f.items, pages |-> f.pages, next |-> f.next,
                   read |-> TRUE, page |-> {Shown(i) : i \in ListComments(t, Before(f))},
                   more |-> MoreOlder(t, Before(f))]
ReadPage(t) ==
    /\ Busy(t) /\ ~fetch[t].read
    /\ fetch' = [fetch EXCEPT ![t] = WithPage(fetch[t], t)]
    /\ UNCHANGED <<served, requests, row, cache, panel, newComment, acts>>

MoreWanted(f) == f.pages + 1 < f.wanted /\ f.more
Longer(f) == [wanted |-> f.wanted, items |-> f.items \cup f.page, pages |-> f.pages + 1,
              next |-> f.next, read |-> FALSE, page |-> {}, more |-> FALSE]
PageTaken(t) ==
    /\ fetch[t].read /\ MoreWanted(fetch[t])
    /\ fetch' = [fetch EXCEPT ![t] = Longer(fetch[t])]
    /\ UNCHANGED <<served, requests, row, cache, panel, newComment, acts>>
ReadList(f, l) == [items |-> f.items \cup f.page, pages |-> f.pages + 1, more |-> f.more,
                   stale |-> FALSE, err |-> FALSE, own |-> l.own, early |-> l.early]
ListTaken(t) ==
    /\ fetch[t].read /\ ~MoreWanted(fetch[t])
    /\ fetch' = [fetch EXCEPT ![t] = NoFetch]
    /\ cache' = [cache EXCEPT ![t] = ReadList(fetch[t], cache[t])]
    /\ UNCHANGED <<served, requests, row, panel, newComment, acts>>
FetchFails(t) == /\ Act /\ Busy(t) /\ fetch' = [fetch EXCEPT ![t] = NoFetch]
                 /\ cache' = [cache EXCEPT ![t].err = TRUE]
                 /\ UNCHANGED <<served, requests, row, panel, newComment>>

(* One page more, read after the pages on display.  It is asked for once at a *)
(* time, and drops a list that is being read again.                           *)
NextFetch(t) == [wanted |-> cache[t].pages + 1, items |-> cache[t].items,
                 pages |-> cache[t].pages, next |-> TRUE,
                 read |-> FALSE, page |-> {}, more |-> FALSE]
MorePages(t) == /\ Act /\ OnDisplay(t) /\ cache[t].more /\ ~fetch[t].next
                /\ fetch' = [fetch EXCEPT ![t] = NextFetch(t)]
                /\ UNCHANGED <<served, requests, row, cache, panel, newComment>>
Retry == /\ Act /\ cache[Project].err /\ ~FirstRead(Project)
         /\ fetch' = [fetch EXCEPT ![Project] = Refetched(Project)]
         /\ UNCHANGED <<served, requests, row, cache, panel, newComment>>

-----------------------------------------------------------------------------
(* Writes.                                                                    *)

Request(kind, id, to, target, mine) ==
    [n |-> acts, kind |-> kind, id |-> id, to |-> to, target |-> target, mine |-> mine,
     stage |-> "sent", loaded |-> NoSuch, at |-> None]
Send(r) == requests' = requests \cup {r}
Pending(kind, ts) == \E r \in requests : r.mine /\ r.kind = kind /\ r.target \in ts
Room == Len(comments) + Cardinality({r \in requests : r.kind = "create"}) < MaxComments

OtherWrites ==
    /\ Act
    /\ \/ Room /\ \E t \in Targets : Send(Request("create", 0, FALSE, t, FALSE))
       \/ \E i \in DOMAIN comments, kind \in {"resolve", "delete"}, to \in BOOLEAN :
             Send(Request(kind, i, to, comments[i].target, FALSE))
    /\ UNCHANGED <<served, row, tab>>

(* The page of the project.                                                   *)
TypeComment == /\ UNCHANGED acts /\ ~newComment /\ newComment' = TRUE
               /\ UNCHANGED <<served, requests, row, cache, fetch, panel>>
SubmitComment == /\ Act /\ newComment /\ ~Pending("create", {Project}) /\ Room
                 /\ Send(Request("create", 0, FALSE, Project, TRUE))
                 /\ UNCHANGED <<served, row, tab>>
ChangeComment ==
    /\ Act
    /\ \E item \in cache[Project].items, kind \in {"resolve", "delete"} :
         /\ ~item.deleted /\ ~Pending(kind, {Project})
         /\ Send(Request(kind, item.id, ~item.resolved, Project, TRUE))
    /\ UNCHANGED <<served, row, tab>>

(* The panel of the selected cell.  It is one panel for every cell: its text  *)
(* stays when another cell is selected.  The list of the cell is read when it *)
(* is stale, also by age.                                                     *)
ShowCell(c) ==
    /\ Act /\ c # panel.cell /\ (LeavesCells \/ ~Pending("create", Commented))
    /\ panel' = [panel EXCEPT !.cell = c]
    /\ \/ /\ ~Busy(c) /\ fetch' = [fetch EXCEPT ![c] = Refetched(c)]
       \/ /\ Busy(c) \/ ~cache[c].stale
          /\ UNCHANGED fetch
    /\ UNCHANGED <<served, requests, row, cache, newComment>>
TypeInPanel == /\ UNCHANGED acts /\ panel.cell \notin {None, panel.text}
               /\ panel' = [panel EXCEPT !.text = panel.cell]
               /\ UNCHANGED <<served, requests, row, cache, fetch, newComment>>
SubmitInPanel ==
    /\ Act /\ panel.cell # None /\ panel.text # None /\ ~Pending("create", Commented) /\ Room
    /\ Send(Request("create", 0, FALSE, panel.cell, TRUE))
    /\ UNCHANGED <<served, row, tab>>

(* What a write of the panel does when it succeeds is what the panel of the   *)
(* latest render would do, until another write of its kind takes its place:   *)
(* then it keeps the cell that was selected at that time.                     *)
InPlace(r, kind) == r.mine /\ r.kind = kind /\ r.target \in Commented /\ r.at = None
Kept(r, kind) == IF InPlace(r, kind) THEN [r EXCEPT !.at = panel.cell] ELSE r
SendInPlace(r) == requests' = {Kept(q, r.kind) : q \in requests} \cup {r}
ChangeInPanel ==
    /\ Act /\ panel.cell # None
    /\ \E item \in cache[panel.cell].items, kind \in {"resolve", "delete"} :
         /\ ~item.deleted
         /\ SendInPlace(Request(kind, item.id, ~item.resolved, panel.cell, TRUE))
    /\ UNCHANGED <<served, row, tab>>

(* The answer to a write: what it invalidates is stale, and is read again if  *)
(* it is on display.  A refusal changes nothing.                              *)
InvalidatedCell(r) == IF r.at = None THEN panel.cell ELSE r.at
Invalidated(r) == IF r.target # Project THEN {InvalidatedCell(r)}
                  ELSE IF r.kind = "delete" THEN Targets ELSE {Project}
Reread(r) ==
    [t \in Targets |-> IF t \in Invalidated(r) /\ OnDisplay(t) THEN Restarted(t) ELSE fetch[t]]
Adds(r, t) == r.kind = "create" /\ r.target = t
Remember(r) ==
    [t \in Targets |->
       [items |-> cache[t].items, pages |-> cache[t].pages, more |-> cache[t].more,
        stale |-> cache[t].stale \/ t \in Invalidated(r), err |-> cache[t].err,
        own |-> IF Adds(r, t) THEN cache[t].own \cup {r.id} ELSE cache[t].own,
        early |-> IF Adds(r, t) /\ FirstRead(t) THEN cache[t].early \cup {r.id}
                  ELSE cache[t].early]]
ClearProjectText(r) == IF Adds(r, Project) THEN FALSE ELSE newComment
ClearPanelText(r) ==
    IF r.kind = "create" /\ r.target # Project THEN [panel EXCEPT !.text = None] ELSE panel
Succeeds(r) ==
    /\ r.mine /\ r.stage = "done" /\ requests' = requests \ {r}
    /\ cache' = Remember(r) /\ fetch' = Reread(r)
    /\ newComment' = ClearProjectText(r) /\ panel' = ClearPanelText(r)
    /\ UNCHANGED <<served, row, acts>>
Fails(r) == /\ r.mine /\ r.stage = "refused" /\ requests' = requests \ {r}
            /\ UNCHANGED <<served, row, tab, acts>>

CommentsNext == \/ \E r \in requests : \/ TakeRow(r) \/ Commit(r)
                                        \/ Succeeds(r) \/ Fails(r)
                \/ \E t \in Targets : \/ ReadPage(t) \/ PageTaken(t) \/ ListTaken(t)
                                        \/ FetchFails(t) \/ MorePages(t)
                \/ \E c \in Commented : ShowCell(c)
                \/ Retry \/ OtherWrites \/ TypeComment \/ SubmitComment \/ ChangeComment
                \/ TypeInPanel \/ SubmitInPanel \/ ChangeInPanel

CommentsSpec == CommentsInit /\ [][CommentsNext]_commentVars

-----------------------------------------------------------------------------
(* The audit trail tells every comment: it was created once, each change      *)
(* starts from what the one before left, nothing follows a deletion, and the  *)
(* last event is what is stored (service.py, set_comment_resolved and         *)
(* delete_comment, under the project row).                                    *)
Of(i) == {n \in DOMAIN events : events[n].id = i}
TrailIsTrue ==
    \A i \in DOMAIN comments :
        \A n \in Of(i) :
            /\ events[n].kind = "create" <=> ~ \E m \in Of(i) : m < n
            /\ \A m \in Of(i) : m < n => events[m].kind # "delete"
            /\ \A m \in Of(i) : m < n /\ ~(\E k \in Of(i) : m < k /\ k < n) =>
                   events[m].to = events[n].from
            /\ (~ \E m \in Of(i) : m > n) =>
                   /\ comments[i].resolved = events[n].to
                   /\ comments[i].deleted <=> events[n].kind = "delete"

(* Between the newest and the oldest comment of a list nothing is missing,    *)
(* though its pages are read at different times, and a list that has no more  *)
(* to load ends with the first comment.                                       *)
NoCommentIsSkipped ==
    \A t \in Targets :
        LET ids == {x.id : x \in cache[t].items}
            mine == {i \in DOMAIN comments : comments[i].target = t}
        IN /\ ids \subseteq mine
           /\ \A i \in mine : (\E j \in ids : i < j) =>
                  i \in ids \/ (cache[t].more /\ \A j \in ids : i < j)

(* A list on display without an error, and not being read, has the comments   *)
(* the user has posted to it, or can load them: they are older than what it   *)
(* shows (ProjectDetailPage.tsx, CellCommentPanel).  Two lists may lack them: *)
(* one that was extended, as a next page drops the reading that would have    *)
(* shown them, and one that was read for the first time when the post was     *)
(* answered, as that reading is not started again.                            *)
Lists(t, i) == \/ i \in {x.id : x \in cache[t].items}
               \/ cache[t].more /\ \A x \in cache[t].items : i < x.id
Settled(t) == OnDisplay(t) /\ ~Busy(t) /\ ~cache[t].err
Promised(t) == cache[t].own \ cache[t].early
OwnCommentsAreListed ==
    \A t \in Targets : Settled(t) /\ cache[t].pages < 2 => \A i \in Promised(t) : Lists(t, i)
OwnCommentsAreAlwaysListed ==
    \A t \in Targets : Settled(t) => \A i \in Promised(t) : Lists(t, i)
EarlyCommentsAreListed ==
    \A t \in Targets : Settled(t) /\ cache[t].pages < 2 => \A i \in cache[t].own : Lists(t, i)

(* What the comments promise: a true trail, lists without gaps, own comments. *)
CommentsAreTold == TrailIsTrue /\ NoCommentIsSkipped /\ OwnCommentsAreListed
=============================================================================
