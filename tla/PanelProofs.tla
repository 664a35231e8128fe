---------------------------- MODULE PanelProofs ----------------------------
(* What the panels of a page promise, for any cells, users, page sizes, layouts *)
(* and bounds.  The audit trail of the comments is true and the lists of a tab  *)
(* have no gaps: what a request loads under the project row is still so at its  *)
(* write.  Details are those asked for last.  Coordinates of the grid keep the  *)
(* meaning they were made with, and input is shown, saved or refused.           *)
EXTENDS Comments, HistoryWorkbench, GridAdapter, FiniteSetTheorems, SequenceTheorems,
        WellFoundedInduction, TLAPS

(* Types.  What the tab shows matters because its writes name comments by it.  *)
Kinds == {"create", "resolve", "delete"}
Stored == [target : Targets \cup {None}, resolved : BOOLEAN, deleted : BOOLEAN]
Change == [id : Nat, kind : Kinds, from : BOOLEAN, to : BOOLEAN]
Write == [n : Nat, kind : Kinds, id : Nat, to : BOOLEAN, target : Targets, mine : BOOLEAN,
          stage : {"sent", "locked", "done", "refused"}, loaded : Stored,
          at : Commented \cup {None}]
Item == [id : Nat, resolved : BOOLEAN, deleted : BOOLEAN]
List == [items : SUBSET Item, pages : Nat, more : BOOLEAN, stale : BOOLEAN, err : BOOLEAN,
         own : SUBSET Nat, early : SUBSET Nat]
Reading == [wanted : Nat, items : SUBSET Item, pages : Nat, next : BOOLEAN,
            read : BOOLEAN, page : SUBSET Item, more : BOOLEAN]
Panel == [cell : Commented \cup {None}, text : Commented \cup {None}]
ServerTypes == /\ comments \in Seq(Stored) /\ events \in Seq(Change)
               /\ \A i \in DOMAIN comments : comments[i].target \in Targets
RequestTypes == requests \in SUBSET Write /\ acts \in Nat
TabTypes == cache \in [Targets -> List] /\ fetch \in [Targets -> Reading] /\ panel \in Panel

(* What is shown, and what is written to, exists.                              *)
Exists(items) == \A x \in items : x.id \in DOMAIN comments
ShownExists == \A t \in Targets : /\ Exists(cache[t].items) /\ Exists(fetch[t].items)
                                   /\ Exists(fetch[t].page)
WrittenExists == \A r \in requests : r.kind # "create" => r.id \in DOMAIN comments

Serial ==
    /\ \A r \in requests : r.n < acts
    /\ \A r, q \in requests : r.n = q.n => r = q
    /\ \A r \in requests : r.stage = "locked" => r.n = row /\ r.loaded = Load(r)

(* Each event is of a comment, and each comment has an event.                  *)
EventsAreOfComments ==
    /\ \A n \in DOMAIN events : events[n].id \in DOMAIN comments
    /\ \A i \in DOMAIN comments : Of(i) # {}

IInv == /\ ServerTypes /\ RequestTypes /\ TabTypes /\ ShownExists /\ WrittenExists
        /\ Serial /\ EventsAreOfComments /\ TrailIsTrue

-----------------------------------------------------------------------------
LEMMA IdleType == NoFetch \in Reading /\ NoFetch.items = {} /\ NoFetch.page = {}
  BY DEF NoFetch, Reading

LEMMA RefetchedType ==
    ASSUME TabTypes, NEW t \in Targets
    PROVE  /\ Refetched(t) \in Reading /\ Refetched(t).items = {} /\ Refetched(t).page = {}
           /\ Restarted(t) \in {fetch[t], Refetched(t)}
  <1>1. cache[t].pages \in Nat
    BY DEF TabTypes, List
  <1> QED BY <1>1 DEF Refetched, Restarted, NoFetch, Reading

(* A new comment.                                                              *)
LEMMA NewType ==
    ASSUME NEW t \in Targets
    PROVE  /\ New(t) \in Stored /\ New(t).target = t
           /\ New(t).resolved = FALSE /\ New(t).deleted = FALSE
  BY DEF New, NoSuch, Stored

(* The initial state.                                                          *)
LEMMA InitIInv == ASSUME CommentConstants, CommentsInit PROVE IInv
  <1>1. NoList \in List /\ NoList.items = {}
    BY DEF NoList, List
  <1>2. FirstFetch \in Reading /\ FirstFetch.items = {} /\ FirstFetch.page = {}
    BY DEF FirstFetch, NoFetch, Reading
  <1>3. TabTypes
    BY <1>1, <1>2, IdleType DEF CommentsInit, TabTypes, Panel
  <1>4. FirstComments \in Nat
    BY DEF CommentConstants
  <1>5. PICK of \in [1..FirstComments -> Targets] :
            comments = [i \in 1..FirstComments |-> New(of[i])]
    BY DEF CommentsInit
  <1>6. \A i \in 1..FirstComments : of[i] \in Targets /\ comments[i] = New(of[i])
    BY <1>5
  <1>7. \A i \in DOMAIN comments : /\ comments[i] \in Stored /\ comments[i].target \in Targets
                                   /\ comments[i].resolved = FALSE /\ comments[i].deleted = FALSE
    BY <1>5, <1>6, NewType
  <1>8. /\ events = [i \in 1..FirstComments |-> Event(i, "create", FALSE, FALSE)]
        /\ \A i \in 1..FirstComments : /\ events[i] \in Change /\ events[i].id = i
                                       /\ events[i].kind = "create" /\ events[i].to = FALSE
    BY <1>4 DEF CommentsInit, Event, Change, Kinds
  <1>9. DOMAIN comments = 1..FirstComments /\ DOMAIN events = 1..FirstComments
    BY <1>5, <1>8
  <1>10. ServerTypes
    <2>1. comments \in [1..FirstComments -> Stored] /\ events \in [1..FirstComments -> Change]
      BY <1>5, <1>7, <1>8, <1>9
    <2>2. \A S : [1..FirstComments -> S] \subseteq Seq(S)
      BY <1>4, SeqDef
    <2> QED BY <1>7, <2>1, <2>2 DEF ServerTypes
  <1>11. RequestTypes /\ ShownExists /\ WrittenExists /\ Serial
    BY <1>1, <1>2, IdleType DEF CommentsInit, RequestTypes, ShownExists, WrittenExists, Exists, Serial
  <1>12. \A i \in DOMAIN comments : Of(i) = {i} /\ i \in Nat
    <2> SUFFICES ASSUME NEW i \in 1..FirstComments PROVE Of(i) = {i} /\ i \in Nat
      BY <1>9
    <2>1. \A n : n \in Of(i) <=> n \in 1..FirstComments /\ events[n].id = i
      BY <1>9 DEF Of
    <2>2. \A n : n \in Of(i) <=> n = i
      BY <1>8, <2>1
    <2> QED BY <1>4, <2>2
  <1>13. EventsAreOfComments
    BY <1>8, <1>9, <1>12 DEF EventsAreOfComments
  <1>14. TrailIsTrue
    <2> SUFFICES ASSUME NEW i \in DOMAIN comments
                 PROVE  /\ events[i].kind = "create" /\ comments[i].resolved = events[i].to
                        /\ ~comments[i].deleted /\ i \in Nat
      BY <1>12 DEF TrailIsTrue
    <2> QED BY <1>7, <1>8, <1>9, <1>12
  <1> QED BY <1>3, <1>10, <1>11, <1>13, <1>14 DEF IInv

(* A step of the tab alone.                                                    *)
LEMMA TabKeeps ==
    ASSUME IInv, UNCHANGED <<served, row>>, requests' \subseteq requests,
           acts' \in {acts, acts + 1}, TabTypes', ShownExists'
    PROVE  IInv'
  <1>1. ServerTypes' /\ RequestTypes' /\ WrittenExists'
    BY DEF IInv, served, ServerTypes, RequestTypes, WrittenExists
  <1>2. Serial'
    BY DEF IInv, served, Serial, RequestTypes, Write, Load
  <1>3. EventsAreOfComments' /\ TrailIsTrue'
    BY DEF IInv, served, EventsAreOfComments, TrailIsTrue, Of
  <1> QED BY <1>1, <1>2, <1>3 DEF IInv

(* A request that is sent has a number of its own.                             *)
(* A request that is sent has a number of its own, and leaves the others what  *)
(* they are for the service.                                                   *)
Same(q, r) == /\ q.n = r.n /\ q.kind = r.kind /\ q.id = r.id /\ q.target = r.target
              /\ q.mine = r.mine /\ q.stage = r.stage /\ q.loaded = r.loaded /\ q \in Write
LEMMA SendKeeps ==
    ASSUME IInv, Act, UNCHANGED <<served, row>>, TabTypes', ShownExists',
           NEW kind \in Kinds, NEW id \in Nat, NEW to \in BOOLEAN, NEW t \in Targets,
           NEW mine \in BOOLEAN, kind # "create" => id \in DOMAIN comments,
           NEW kept, \A q \in requests : Same(kept[q], q),
           requests' = {kept[q] : q \in requests} \cup {Request(kind, id, to, t, mine)}
    PROVE  IInv'
  <1> DEFINE r == Request(kind, id, to, t, mine)
  <1>1. /\ r \in Write /\ r.n = acts /\ r.kind = kind /\ r.id = id /\ r.stage = "sent"
    BY DEF IInv, RequestTypes, Request, Write, NoSuch, Stored
  <1>2. requests' = {kept[q] : q \in requests} \cup {r} /\ acts' = acts + 1 /\ acts \in Nat
    BY DEF Act, IInv, RequestTypes
  <1> HIDE DEF r
  <1>3. \A q \in requests : Same(kept[q], q)
    OBVIOUS
  <1>4. ServerTypes' /\ RequestTypes' /\ WrittenExists'
    <2>1. comments' = comments /\ events' = events
      BY DEF served
    <2>2. \A q \in requests' : q = r \/ \E o \in requests : Same(q, o)
      BY <1>2, <1>3
    <2>3. \A q \in requests' : q \in Write
      BY <1>1, <2>2 DEF Same
    <2>4. \A q \in requests' : q.kind # "create" => q.id \in DOMAIN comments
      BY <1>1, <2>2 DEF IInv, WrittenExists, Same
    <2>5. RequestTypes' /\ WrittenExists'
      BY <1>2, <2>1, <2>3, <2>4 DEF RequestTypes, WrittenExists
    <2> QED BY <2>1, <2>5 DEF IInv, ServerTypes
  <1>5. Serial'
    <2>1. \A q \in requests : q.n < acts /\ q.n \in Nat
      BY DEF IInv, Serial, RequestTypes, Write
    <2>2. \A q \in requests' : q.n < acts'
      BY <1>1, <1>2, <1>3, <2>1 DEF Same
    <2>3. \A q, p \in requests' : q.n = p.n => q = p
      BY <1>1, <1>2, <1>3, <2>1 DEF IInv, Serial, Same
    <2>4. \A q \in requests' : q.stage = "locked" => q.n = row' /\ q.loaded = Load(q)'
      BY <1>1, <1>2, <1>3 DEF IInv, Serial, served, Load, Same
    <2> QED BY <2>2, <2>3, <2>4 DEF Serial
  <1>6. EventsAreOfComments' /\ TrailIsTrue'
    BY DEF IInv, served, EventsAreOfComments, TrailIsTrue, Of
  <1> QED BY <1>4, <1>5, <1>6 DEF IInv

-----------------------------------------------------------------------------
(* The tab                                                                     *)

LEMMA ShownType ==
    ASSUME ServerTypes, NEW i \in DOMAIN comments
    PROVE  Shown(i) \in Item /\ Shown(i).id = i
  <1>1. comments[i] \in Stored /\ i \in Nat
    BY DEF ServerTypes
  <1> QED BY <1>1 DEF Shown, Item, Stored

(* What the reading of a list is after each of its steps.                      *)
LEMMA ReadingTypes ==
    ASSUME ServerTypes, NEW t \in Targets, NEW f \in Reading, NEW l \in List,
           Exists(f.items), Exists(f.page)
    PROVE  /\ WithPage(f, t) \in Reading /\ WithPage(f, t).items = f.items
           /\ Exists(WithPage(f, t).page)
           /\ Longer(f) \in Reading /\ Exists(Longer(f).items) /\ Longer(f).page = {}
           /\ ReadList(f, l) \in List /\ Exists(ReadList(f, l).items)
  <1>1. /\ f.wanted \in Nat /\ f.items \in SUBSET Item /\ f.pages \in Nat /\ f.next \in BOOLEAN
        /\ f.page \in SUBSET Item /\ f.more \in BOOLEAN
    BY DEF Reading
  <1>2. PICK page : page = {Shown(i) : i \in ListComments(t, Before(f))}
    OBVIOUS
  <1>3. ListComments(t, Before(f)) \subseteq DOMAIN comments
    BY DEF ListComments, PageOf, Older
  <1>4. page \in SUBSET Item /\ Exists(page)
    BY <1>2, <1>3, ShownType DEF Exists
  <1>5. MoreOlder(t, Before(f)) \in BOOLEAN
    BY DEF MoreOlder
  <1>6. /\ WithPage(f, t) \in Reading /\ WithPage(f, t).items = f.items
        /\ Exists(WithPage(f, t).page)
    BY <1>1, <1>2, <1>4, <1>5 DEF WithPage, Reading
  <1>7. Longer(f) \in Reading /\ Exists(Longer(f).items) /\ Longer(f).page = {}
    BY <1>1 DEF Longer, Reading, Exists
  <1>8. ReadList(f, l) \in List /\ Exists(ReadList(f, l).items)
    BY <1>1 DEF ReadList, List, Exists
  <1> QED BY <1>6, <1>7, <1>8

LEMMA FetchStep ==
    ASSUME IInv, NEW t \in Targets,
           ReadPage(t) \/ PageTaken(t) \/ ListTaken(t) \/ FetchFails(t) \/ MorePages(t)
    PROVE  IInv'
  <1>0. /\ ServerTypes /\ TabTypes /\ cache[t] \in List /\ fetch[t] \in Reading
        /\ Exists(cache[t].items) /\ Exists(fetch[t].items) /\ Exists(fetch[t].page)
    BY DEF IInv, TabTypes, ShownExists
  <1>1. ASSUME NEW f \in Reading, NEW l \in List,
               UNCHANGED <<served, requests, row, panel>>, acts' \in {acts, acts + 1},
               fetch' = [fetch EXCEPT ![t] = f], cache' = [cache EXCEPT ![t] = l],
               Exists(f.items), Exists(f.page), Exists(l.items)
        PROVE  IInv'
    <2>1. TabTypes' /\ ShownExists'
      BY <1>0, <1>1 DEF IInv, TabTypes, ShownExists, Exists, served
    <2> QED BY <1>1, <2>1, TabKeeps
  <1>2. cache = [cache EXCEPT ![t] = cache[t]]
    BY <1>0 DEF TabTypes
  <1>3. CASE ReadPage(t)
    <2>1. /\ fetch' = [fetch EXCEPT ![t] = WithPage(fetch[t], t)] /\ cache' = cache
          /\ UNCHANGED <<served, requests, row, panel>> /\ acts' = acts
      BY <1>3 DEF ReadPage
    <2>2. WithPage(fetch[t], t) \in Reading /\ Exists(WithPage(fetch[t], t).items)
          /\ Exists(WithPage(fetch[t], t).page)
      BY <1>0, ReadingTypes
    <2> QED BY <1>0, <1>1, <1>2, <2>1, <2>2
  <1>4. CASE PageTaken(t)
    <2>1. /\ fetch' = [fetch EXCEPT ![t] = Longer(fetch[t])] /\ cache' = cache
          /\ UNCHANGED <<served, requests, row, panel>> /\ acts' = acts
      BY <1>4 DEF PageTaken
    <2>2. Longer(fetch[t]) \in Reading /\ Exists(Longer(fetch[t]).items)
          /\ Exists(Longer(fetch[t]).page)
      BY <1>0, ReadingTypes DEF Exists
    <2> QED BY <1>0, <1>1, <1>2, <2>1, <2>2
  <1>5. CASE ListTaken(t)
    <2>1. /\ fetch' = [fetch EXCEPT ![t] = NoFetch]
          /\ cache' = [cache EXCEPT ![t] = ReadList(fetch[t], cache[t])]
          /\ UNCHANGED <<served, requests, row, panel>> /\ acts' = acts
      BY <1>5 DEF ListTaken
    <2>2. ReadList(fetch[t], cache[t]) \in List /\ Exists(ReadList(fetch[t], cache[t]).items)
      BY <1>0, ReadingTypes
    <2> QED BY <1>1, <2>1, <2>2, IdleType DEF Exists
  <1>6. CASE FetchFails(t)
    <2> DEFINE list == [cache[t] EXCEPT !.err = TRUE]
    <2>1. /\ fetch' = [fetch EXCEPT ![t] = NoFetch] /\ cache' = [cache EXCEPT ![t] = list]
          /\ UNCHANGED <<served, requests, row, panel>> /\ acts' = acts + 1
      BY <1>6 DEF FetchFails, Act
    <2>2. list \in List /\ list.items = cache[t].items
      BY <1>0 DEF List
    <2> HIDE DEF list
    <2> QED BY <1>0, <1>1, <2>1, <2>2, IdleType DEF Exists
  <1>7. CASE MorePages(t)
    <2> DEFINE f == NextFetch(t)
    <2>1. /\ fetch' = [fetch EXCEPT ![t] = f] /\ cache' = cache
          /\ UNCHANGED <<served, requests, row, panel>> /\ acts' = acts + 1
      BY <1>7 DEF MorePages, Act
    <2>2. f \in Reading /\ f.items = cache[t].items /\ f.page = {}
      BY <1>0 DEF NextFetch, List, Reading
    <2> HIDE DEF f
    <2> QED BY <1>0, <1>1, <1>2, <2>1, <2>2 DEF Exists
  <1> QED BY <1>3, <1>4, <1>5, <1>6, <1>7

(* What reads a list again empties the read under way.                         *)
LEMMA RefetchKeeps ==
    ASSUME TabTypes, ShownExists, UNCHANGED <<served, cache>>, NEW t \in Targets,
           fetch' = [fetch EXCEPT ![t] = Refetched(t)] \/ fetch' = fetch,
           panel' \in Panel
    PROVE  TabTypes' /\ ShownExists'
  BY RefetchedType DEF TabTypes, ShownExists, Exists, served

LEMMA PanelStep ==
    ASSUME IInv, \/ \E c \in Commented : ShowCell(c)
                 \/ Retry \/ TypeComment \/ TypeInPanel
    PROVE  IInv'
  <1>0. TabTypes /\ ShownExists
    BY DEF IInv
  <1>1. ASSUME NEW c \in Commented, ShowCell(c) PROVE IInv'
    <2>1. /\ UNCHANGED <<served, requests, row, cache>> /\ acts' = acts + 1
          /\ panel' = [panel EXCEPT !.cell = c]
          /\ fetch' = [fetch EXCEPT ![c] = Refetched(c)] \/ fetch' = fetch
      BY <1>1 DEF ShowCell, Act
    <2>2. panel' \in Panel
      BY <1>0, <2>1 DEF TabTypes, Panel
    <2>3. c \in Targets
      BY DEF Targets
    <2> QED BY <1>0, <2>1, <2>2, <2>3, RefetchKeeps, TabKeeps
  <1>2. ASSUME Retry \/ TypeComment PROVE IInv'
    <2>1. /\ UNCHANGED <<served, requests, row, cache, panel>> /\ acts' \in {acts, acts + 1}
          /\ fetch' = [fetch EXCEPT ![Project] = Refetched(Project)] \/ fetch' = fetch
      BY <1>2 DEF Retry, TypeComment, Act
    <2>2. panel' \in Panel
      BY <1>0, <2>1 DEF TabTypes, Panel
    <2>3. Project \in Targets
      BY DEF Targets
    <2> QED BY <1>0, <2>1, <2>2, <2>3, RefetchKeeps, TabKeeps
  <1>3. ASSUME TypeInPanel PROVE IInv'
    <2>1. /\ UNCHANGED <<served, requests, row, cache, fetch, acts>>
          /\ panel' = [panel EXCEPT !.text = panel.cell]
      BY <1>3 DEF TypeInPanel
    <2>2. panel' \in Panel
      BY <1>0, <2>1 DEF TabTypes, Panel
    <2>3. Project \in Targets
      BY DEF Targets
    <2> QED BY <1>0, <2>1, <2>2, <2>3, RefetchKeeps, TabKeeps
  <1> QED BY <1>1, <1>2, <1>3

-----------------------------------------------------------------------------
(* Writes                                                                      *)
(* Writes                                                                      *)

LEMMA SendStep ==
    ASSUME CommentConstants, IInv,
           OtherWrites \/ SubmitComment \/ ChangeComment \/ SubmitInPanel \/ ChangeInPanel
    PROVE  IInv'
  <1>0. /\ TabTypes /\ ShownExists /\ ServerTypes /\ RequestTypes
        /\ Project \in Targets /\ Commented \subseteq Targets /\ panel.cell \in Commented \cup {None}
        /\ DOMAIN comments \subseteq Nat
    BY DEF IInv, TabTypes, Targets, ServerTypes, Panel
  <1>1. /\ Act /\ UNCHANGED <<served, row, tab>>
    BY DEF OtherWrites, SubmitComment, ChangeComment, SubmitInPanel, ChangeInPanel
  <1>2. TabTypes' /\ ShownExists'
    BY <1>0, <1>1 DEF TabTypes, ShownExists, Exists, served, tab
  <1>3. ASSUME NEW r, Send(r)
        PROVE  LET kept == [q \in requests |-> q]
               IN  /\ \A q \in requests : Same(kept[q], q)
                   /\ requests' = {kept[q] : q \in requests} \cup {r}
    BY <1>0, <1>3 DEF Send, Same, RequestTypes
  <1>4. ASSUME NEW r, SendInPlace(r)
        PROVE  LET kept == [q \in requests |-> Kept(q, r.kind)]
               IN  /\ \A q \in requests : Same(kept[q], q)
                   /\ requests' = {kept[q] : q \in requests} \cup {r}
    <2>1. \A q \in requests : Same(Kept(q, r.kind), q)
      BY <1>0 DEF Kept, Same, RequestTypes, Write
    <2> QED BY <1>4, <2>1 DEF SendInPlace
  <1>5. ASSUME NEW kind \in Kinds, NEW id \in Nat, NEW to \in BOOLEAN, NEW t \in Targets,
               NEW mine \in BOOLEAN, kind # "create" => id \in DOMAIN comments,
               Send(Request(kind, id, to, t, mine)) \/ SendInPlace(Request(kind, id, to, t, mine))
        PROVE  IInv'
    <2>1. PICK r : r = Request(kind, id, to, t, mine)
      OBVIOUS
    <2>2. PICK kept : /\ \A q \in requests : Same(kept[q], q)
                      /\ requests' = {kept[q] : q \in requests} \cup {r}
      <3>1. CASE Send(r)
        BY <1>3, <3>1
      <3>2. CASE SendInPlace(r)
        BY <1>4, <3>2
      <3> QED BY <1>5, <2>1, <3>1, <3>2
    <2> QED BY <1>1, <1>2, <1>5, <2>1, <2>2, SendKeeps
  <1>6. IInv'
    <2>1. CASE OtherWrites
      <3>1. CASE \E t \in Targets : Send(Request("create", 0, FALSE, t, FALSE))
        <4> QED BY <1>5, <3>1 DEF Kinds
      <3>2. CASE \E i \in DOMAIN comments, kind \in {"resolve", "delete"}, to \in BOOLEAN :
                    Send(Request(kind, i, to, comments[i].target, FALSE))
        <4>1. PICK i \in DOMAIN comments, kind \in {"resolve", "delete"}, to \in BOOLEAN :
                    Send(Request(kind, i, to, comments[i].target, FALSE))
          BY <3>2
        <4>2. i \in Nat /\ comments[i].target \in Targets /\ kind \in Kinds
          BY <1>0 DEF ServerTypes, Kinds
        <4> QED BY <1>5, <4>1, <4>2
      <3> QED BY <2>1, <3>1, <3>2 DEF OtherWrites
    <2>2. CASE SubmitComment
      <3> QED BY <1>0, <1>5, <2>2 DEF SubmitComment, Kinds
    <2>3. CASE SubmitInPanel
      <3>1. panel.cell \in Targets
        BY <1>0, <2>3 DEF SubmitInPanel
      <3> QED BY <1>5, <2>3, <3>1 DEF SubmitInPanel, Kinds
    <2>4. ASSUME NEW t \in Targets, NEW item \in cache[t].items, NEW kind \in {"resolve", "delete"},
                 \/ Send(Request(kind, item.id, ~item.resolved, t, TRUE))
                 \/ SendInPlace(Request(kind, item.id, ~item.resolved, t, TRUE))
          PROVE  IInv'
      <3>1. cache[t].items \subseteq Item
        BY <1>0 DEF TabTypes, List
      <3>2. /\ kind \in Kinds /\ item.id \in Nat /\ item.id \in DOMAIN comments
            /\ (~item.resolved) \in BOOLEAN
        BY <1>0, <2>4, <3>1 DEF Item, ShownExists, Exists, Kinds
      <3> QED BY <1>5, <2>4, <3>2
    <2>5. CASE ChangeComment
      <3> QED BY <1>0, <2>4, <2>5 DEF ChangeComment
    <2>6. CASE ChangeInPanel
      <3>1. panel.cell \in Targets
        BY <1>0, <2>6 DEF ChangeInPanel
      <3> QED BY <2>4, <2>6, <3>1 DEF ChangeInPanel
    <2> QED BY <2>1, <2>2, <2>3, <2>5, <2>6
  <1> QED BY <1>6

(* What an answer leaves of the lists and of what is being read.               *)
LEMMA AnswerTypes ==
    ASSUME TabTypes, ShownExists, NEW r, r.id \in Nat
    PROVE  /\ Remember(r) \in [Targets -> List] /\ Reread(r) \in [Targets -> Reading]
           /\ \A t \in Targets : /\ Remember(r)[t].items = cache[t].items
                                 /\ Reread(r)[t] \in {fetch[t], Refetched(t)}
  <1>1. ASSUME NEW t \in Targets
        PROVE  Remember(r)[t] \in List /\ Remember(r)[t].items = cache[t].items
    <2>1. cache[t] \in List
      BY DEF TabTypes
    <2>2. PICK stale : stale = (cache[t].stale \/ t \in Invalidated(r))
      OBVIOUS
    <2>3. PICK posts : posts = IF Adds(r, t) THEN cache[t].own \cup {r.id} ELSE cache[t].own
      OBVIOUS
    <2>4. PICK early : early = IF Adds(r, t) /\ FirstRead(t) THEN cache[t].early \cup {r.id}
                               ELSE cache[t].early
      OBVIOUS
    <2>5. /\ posts \in SUBSET Nat /\ early \in SUBSET Nat
          /\ cache[t].items \in SUBSET Item /\ cache[t].pages \in Nat
          /\ cache[t].more \in BOOLEAN /\ cache[t].err \in BOOLEAN
      BY <2>1, <2>3, <2>4 DEF List
    <2>6. stale \in BOOLEAN
      BY <2>2
    <2>7. Remember(r)[t] = [items |-> cache[t].items, pages |-> cache[t].pages,
                            more |-> cache[t].more, stale |-> stale, err |-> cache[t].err,
                            own |-> posts, early |-> early]
      BY <2>2, <2>3, <2>4 DEF Remember
    <2> QED BY <2>5, <2>6, <2>7 DEF List
  <1>2. ASSUME NEW t \in Targets
        PROVE  Reread(r)[t] \in Reading /\ Reread(r)[t] \in {fetch[t], Refetched(t)}
    BY RefetchedType DEF Reread, TabTypes
  <1> QED BY <1>1, <1>2 DEF Remember, Reread

LEMMA AnsweredStep ==
    ASSUME IInv, NEW r \in requests, Succeeds(r) \/ Fails(r)
    PROVE  IInv'
  <1>0. TabTypes /\ ShownExists /\ r.id \in Nat
    BY DEF IInv, RequestTypes, Write
  <1>1. CASE Succeeds(r)
    <2>1. /\ UNCHANGED <<served, row, acts>> /\ requests' = requests \ {r}
          /\ cache' = Remember(r) /\ fetch' = Reread(r) /\ panel' = ClearPanelText(r)
      BY <1>1 DEF Succeeds
    <2>2. panel' \in Panel
      BY <1>0, <2>1 DEF ClearPanelText, TabTypes, Panel
    <2>3. TabTypes'
      BY <1>0, <2>1, <2>2, AnswerTypes DEF TabTypes
    <2>4. \A t \in Targets : Refetched(t).items = {} /\ Refetched(t).page = {}
      BY <1>0, RefetchedType
    <2>5. \A t \in Targets : /\ cache'[t].items = cache[t].items
                             /\ fetch'[t] \in {fetch[t], Refetched(t)}
      BY <1>0, <2>1, AnswerTypes
    <2>6. ShownExists'
      BY <1>0, <2>1, <2>4, <2>5 DEF ShownExists, Exists, served
    <2> QED BY <2>1, <2>3, <2>6, TabKeeps
  <1>2. CASE Fails(r)
    <2>1. UNCHANGED <<served, row, tab, acts>> /\ requests' = requests \ {r}
      BY <1>2 DEF Fails
    <2>2. TabTypes' /\ ShownExists'
      BY <1>0, <2>1 DEF TabTypes, ShownExists, Exists, served, tab
    <2> QED BY <2>1, <2>2, TabKeeps
  <1> QED BY <1>1, <1>2

-----------------------------------------------------------------------------
(* The service                                                                 *)

(* An event that starts from what is stored and tells what is stored after it, *)
(* for a comment that is not deleted, keeps the trail true.                    *)
LEMMA TrailGrows ==
    ASSUME ServerTypes, EventsAreOfComments, TrailIsTrue,
           NEW e \in Change, events' = Append(events, e),
           DOMAIN comments' = DOMAIN comments \cup {e.id},
           \A i \in DOMAIN comments \ {e.id} : comments'[i] = comments[i],
           comments'[e.id].resolved = e.to,
           comments'[e.id].deleted <=> e.kind = "delete",
           e.kind = "create" <=> e.id \notin DOMAIN comments,
           e.id \in DOMAIN comments =>
               e.from = comments[e.id].resolved /\ ~comments[e.id].deleted
    PROVE  EventsAreOfComments' /\ TrailIsTrue'
  <1> DEFINE last == Len(events) + 1
             Earlier(i) == Of(i)
             After(i) == {n \in DOMAIN events' : events'[n].id = i}
  <1>1. /\ last \in Nat /\ DOMAIN events' = DOMAIN events \cup {last} /\ events'[last] = e
        /\ \A n \in DOMAIN events : events'[n] = events[n] /\ n < last /\ n \in Nat
    BY DEF ServerTypes
  <1> HIDE DEF last
  <1>2. \A i : After(i) = IF i = e.id THEN Earlier(i) \cup {last} ELSE Earlier(i)
    BY <1>1 DEF Of
  <1>3. \A i : Earlier(i) \subseteq DOMAIN events
    BY DEF Of
  <1>4. EventsAreOfComments'
    <2>1. \A n \in DOMAIN events' : events'[n].id \in DOMAIN comments'
      BY <1>1 DEF EventsAreOfComments
    <2>2. \A i \in DOMAIN comments' : After(i) # {}
      BY <1>2 DEF EventsAreOfComments
    <2> HIDE DEF After
    <2>3. \A i : After(i) = Of(i)'
      BY DEF After, Of
    <2> QED BY <2>1, <2>2, <2>3 DEF EventsAreOfComments
  <1> DEFINE First(ns, es, n) == es[n].kind = "create" <=> ~ \E m \in ns : m < n
             Undeleted(ns, es, n) == \A m \in ns : m < n => es[m].kind # "delete"
             Linked(ns, es, n) == \A m \in ns : m < n /\ ~(\E k \in ns : m < k /\ k < n) =>
                                      es[m].to = es[n].from
             Told(i, ns, es, cs, n) == (~ \E m \in ns : m > n) =>
                                          /\ cs[i].resolved = es[n].to
                                          /\ cs[i].deleted <=> es[n].kind = "delete"
  <1>5. \A i \in DOMAIN comments : \A n \in Earlier(i) :
            /\ First(Earlier(i), events, n) /\ Undeleted(Earlier(i), events, n)
            /\ Linked(Earlier(i), events, n) /\ Told(i, Earlier(i), events, comments, n)
    BY DEF TrailIsTrue
  <1>6. ASSUME NEW i \in DOMAIN comments', NEW n \in After(i)
        PROVE  /\ First(After(i), events', n) /\ Undeleted(After(i), events', n)
               /\ Linked(After(i), events', n) /\ Told(i, After(i), events', comments', n)
    <2> DEFINE ns == Earlier(i)
    <2>0. \A m \in ns : m \in DOMAIN events /\ events'[m] = events[m] /\ m < last /\ m \in Nat
      BY <1>1, <1>3
    <2>1. ASSUME i \in DOMAIN comments, n \in ns
          PROVE  /\ First(ns, events', n) /\ Undeleted(ns, events', n) /\ Linked(ns, events', n)
      <3>1. First(ns, events, n) /\ Undeleted(ns, events, n) /\ Linked(ns, events, n)
        BY <1>5, <2>1
      <3> HIDE DEF ns
      <3>2. First(ns, events', n)
        BY <2>0, <2>1, <3>1
      <3>3. Undeleted(ns, events', n)
        BY <2>0, <2>1, <3>1
      <3>4. Linked(ns, events', n)
        BY <2>0, <2>1, <3>1
      <3> QED BY <3>2, <3>3, <3>4
    <2>2. CASE i # e.id
      <3>1. i \in DOMAIN comments /\ comments'[i] = comments[i] /\ After(i) = ns /\ n \in ns
        BY <1>2, <2>2
      <3>2. Told(i, ns, events, comments, n)
        BY <1>5, <3>1
      <3> HIDE DEF ns, After
      <3>3. Told(i, ns, events', comments', n)
        BY <2>0, <3>1, <3>2
      <3> HIDE DEF First, Undeleted, Linked, Told
      <3> QED BY <2>1, <3>1, <3>3
    <2>3. CASE i = e.id /\ n # last
      <3>1. n \in ns /\ last \in After(i) /\ n < last /\ After(i) = ns \cup {last} /\ n \in Nat
        BY <1>1, <1>2, <1>3, <2>3
      <3>2. i \in DOMAIN comments
        BY <1>3, <3>1 DEF EventsAreOfComments, Of
      <3>3. First(ns, events', n) /\ Undeleted(ns, events', n) /\ Linked(ns, events', n)
        BY <2>1, <3>1, <3>2
      <3> HIDE DEF ns, After
      <3>4. First(After(i), events', n)
        <4>1. ns \subseteq After(i) /\ \A m \in After(i) : m < n => m \in ns
          BY <1>1, <2>0, <3>1
        <4> QED BY <3>3, <4>1
      <3>5. Undeleted(After(i), events', n)
        BY <1>1, <2>0, <3>1, <3>3
      <3>6. Linked(After(i), events', n)
        BY <1>1, <2>0, <3>1, <3>3
      <3>7. Told(i, After(i), events', comments', n)
        BY <3>1
      <3> QED BY <3>4, <3>5, <3>6, <3>7
    <2>4. CASE i = e.id /\ n = last /\ i \notin DOMAIN comments
      <3>1. ns = {} /\ After(i) = {last}
        BY <1>2, <2>4 DEF EventsAreOfComments, Of
      <3> HIDE DEF ns, After
      <3>2. First(After(i), events', n) /\ Undeleted(After(i), events', n)
        BY <1>1, <2>4, <3>1
      <3>3. Linked(After(i), events', n) /\ Told(i, After(i), events', comments', n)
        BY <1>1, <2>4, <3>1
      <3> QED BY <3>2, <3>3
    <2>5. CASE i = e.id /\ n = last /\ i \in DOMAIN comments
      <3>1. ns # {} /\ After(i) = ns \cup {last}
        BY <1>2, <2>5 DEF EventsAreOfComments
      <3>2. \A m \in ns : Undeleted(ns, events, m) /\ Told(i, ns, events, comments, m)
        BY <1>5, <2>5
      <3> HIDE DEF ns, After
      <3>3. \A m \in ns : events[m].kind # "delete"
        BY <2>0, <2>5, <3>2
      <3>4. \A m \in ns : ~(\E k \in ns : m < k) => comments[i].resolved = events[m].to
        BY <2>0, <3>2
      <3>5. First(After(i), events', n)
        BY <1>1, <2>0, <2>5, <3>1
      <3>6. Undeleted(After(i), events', n)
        BY <1>1, <2>0, <2>5, <3>1, <3>3
      <3>7. Linked(After(i), events', n)
        BY <1>1, <2>0, <2>5, <3>1, <3>4
      <3>8. Told(i, After(i), events', comments', n)
        BY <1>1, <2>5
      <3> QED BY <3>5, <3>6, <3>7, <3>8
    <2> QED BY <2>2, <2>3, <2>4, <2>5
  <1>7. TrailIsTrue'
    <2>1. \A i : After(i) = Of(i)'
      BY DEF Of
    <2> HIDE DEF After
    <2>2. ASSUME NEW i \in DOMAIN comments', NEW n \in Of(i)'
          PROVE  /\ First(Of(i)', events', n) /\ Undeleted(Of(i)', events', n)
                 /\ Linked(Of(i)', events', n) /\ Told(i, Of(i)', events', comments', n)
      <3> HIDE DEF First, Undeleted, Linked, Told
      <3> QED BY <1>6, <2>1
    <2> QED BY <2>2 DEF TrailIsTrue
  <1> QED BY <1>4, <1>7

LEMMA TakeRowStep == ASSUME CommentConstants, IInv, NEW r \in requests, TakeRow(r) PROVE IInv'
  <1> DEFINE q == [r EXCEPT !.stage = "locked", !.loaded = Load(r)]
  <1>1. /\ r \in Write /\ row = None /\ row' = r.n /\ requests' = (requests \ {r}) \cup {q}
        /\ UNCHANGED <<served, tab, acts>>
    BY DEF IInv, RequestTypes, TakeRow, RowFree
  <1>2. Load(r) \in Stored
    <2>1. NoSuch \in Stored
      BY DEF NoSuch, Stored
    <2>2. r.kind # "create" => comments[r.id] \in Stored
      <3>1. r.kind # "create" => r.id \in DOMAIN comments
        BY DEF IInv, WrittenExists
      <3>2. \A i \in DOMAIN comments : comments[i] \in Stored
        BY DEF IInv, ServerTypes
      <3> QED BY <3>1, <3>2
    <2> QED BY <2>1, <2>2 DEF Load
  <1>3. /\ q \in Write /\ q.n = r.n /\ q.kind = r.kind /\ q.id = r.id /\ q.loaded = Load(r)
    BY <1>1, <1>2 DEF Write
  <1>4. \A p \in requests : p.stage # "locked"
    BY <1>1 DEF IInv, RequestTypes, Write, Serial, CommentConstants
  <1> HIDE DEF q
  <1>5. ServerTypes' /\ RequestTypes' /\ TabTypes' /\ ShownExists' /\ WrittenExists'
    BY <1>1, <1>3 DEF IInv, ServerTypes, RequestTypes, TabTypes, ShownExists, WrittenExists, Exists,
                      served, tab
  <1>6. Serial'
    <2>1. (\A p \in requests' : p.n < acts') /\ (\A p, o \in requests' : p.n = o.n => p = o)
      BY <1>1, <1>3 DEF IInv, Serial
    <2>2. \A p \in requests' : p.stage = "locked" => p = q
      BY <1>1, <1>4
    <2>3. ASSUME NEW p \in requests', p.stage = "locked"
          PROVE  p.n = row' /\ p.loaded = Load(p)'
      <3>1. comments' = comments /\ p = q
        BY <1>1, <2>2, <2>3 DEF served
      <3> QED BY <1>1, <1>3, <3>1 DEF Load
    <2> QED BY <2>1, <2>2, <2>3 DEF Serial
  <1>7. EventsAreOfComments' /\ TrailIsTrue'
    BY <1>1 DEF IInv, served, EventsAreOfComments, TrailIsTrue, Of
  <1> QED BY <1>5, <1>6, <1>7 DEF IInv

(* What a request writes is what it loaded, changed once.                      *)
LEMMA CommitStep == ASSUME CommentConstants, IInv, NEW r \in requests, Commit(r) PROVE IInv'
  <1>1. /\ ServerTypes /\ RequestTypes /\ r \in Write /\ r.stage = "locked" /\ r.n = row
        /\ r.loaded = Load(r) /\ (r.kind # "create" => r.id \in DOMAIN comments)
        /\ UNCHANGED <<tab, acts>>
    BY DEF IInv, RequestTypes, Serial, WrittenExists, Commit
  <1>2. r.target \in Targets
    BY <1>1 DEF Write
  <1>3. CreateComment(r) \/ SetCommentResolved(r) \/ DeleteComment(r)
    BY DEF Commit
  <1>4. /\ ServerTypes' /\ DOMAIN comments \subseteq DOMAIN comments'
        /\ EventsAreOfComments' /\ TrailIsTrue'
    <2>0. EventsAreOfComments /\ TrailIsTrue
      BY DEF IInv
    <2>1. CASE CreateComment(r)
      <3> DEFINE c == New(r.target)
                 id == Len(comments) + 1
                 e == Event(id, "create", FALSE, FALSE)
      <3>1. comments' = Append(comments, c) /\ events' = Append(events, e)
        BY <2>1 DEF CreateComment
      <3>2. id \in Nat /\ e \in Change /\ e.id = id /\ e.kind = "create" /\ e.to = FALSE
        BY <1>1 DEF Event, Change, Kinds, ServerTypes
      <3>3. c \in Stored /\ c.target \in Targets /\ c.resolved = FALSE /\ c.deleted = FALSE
        BY <1>2, NewType
      <3> HIDE DEF c, e
      <3>4. /\ comments' \in Seq(Stored) /\ events' \in Seq(Change)
            /\ DOMAIN comments' = DOMAIN comments \cup {id} /\ id \notin DOMAIN comments
            /\ comments'[id] = c /\ \A i \in DOMAIN comments : comments'[i] = comments[i]
        BY <1>1, <3>1, <3>2, <3>3 DEF ServerTypes
      <3> HIDE DEF id
      <3>5. ServerTypes'
        BY <1>1, <3>3, <3>4 DEF ServerTypes
      <3> QED BY <1>1, <2>0, <3>1, <3>2, <3>3, <3>4, <3>5, TrailGrows
    <2>2. ASSUME NEW e \in Change, NEW c \in Stored, r.kind # "create", Changes(r),
                 e.id = r.id, e.kind # "create", e.from = r.loaded.resolved,
                 c.target = comments[r.id].target, c.resolved = e.to,
                 c.deleted <=> e.kind = "delete",
                 comments' = [comments EXCEPT ![r.id] = c], events' = Append(events, e)
          PROVE  <1>4
      <3>1. /\ r.id \in DOMAIN comments /\ r.loaded = comments[r.id] /\ ~comments[r.id].deleted
        BY <1>1, <2>2 DEF Load, Changes, Refused
      <3>2. /\ comments' \in Seq(Stored) /\ events' \in Seq(Change)
            /\ DOMAIN comments' = DOMAIN comments /\ comments'[r.id] = c
            /\ \A i \in DOMAIN comments \ {r.id} : comments'[i] = comments[i]
        BY <1>1, <2>2, <3>1 DEF ServerTypes
      <3>3. ServerTypes'
        BY <1>1, <2>2, <3>1, <3>2 DEF ServerTypes
      <3> QED BY <1>1, <2>0, <2>2, <3>1, <3>2, <3>3, TrailGrows
    <2>3. CASE UNCHANGED served
      BY <1>1, <2>0, <2>3 DEF served, ServerTypes, EventsAreOfComments, TrailIsTrue, Of
    <2>4. ASSUME r.kind # "create", Changes(r)
          PROVE  /\ comments[r.id] \in Stored /\ r.loaded = comments[r.id]
                 /\ ~comments[r.id].deleted /\ r.id \in Nat /\ r.to \in BOOLEAN
                 /\ comments[r.id].resolved \in BOOLEAN
      <3>1. comments[r.id] \in Stored
        BY <1>1, <2>4 DEF ServerTypes
      <3> QED BY <1>1, <2>4, <3>1 DEF Load, Changes, Refused, Write, Stored
    <2>5. CASE SetCommentResolved(r) /\ ~UNCHANGED served
      <3> DEFINE e == Event(r.id, "resolve", r.loaded.resolved, r.to)
                 c == [comments[r.id] EXCEPT !.resolved = r.to]
      <3>1. /\ r.kind = "resolve" /\ Changes(r) /\ events' = Append(events, e)
            /\ comments' = [comments EXCEPT ![r.id] = c]
        BY <2>5 DEF SetCommentResolved
      <3>2. /\ e \in Change /\ e.id = r.id /\ e.kind = "resolve" /\ e.from = r.loaded.resolved
            /\ e.to = r.to
        BY <2>4, <3>1 DEF Event, Change, Kinds
      <3>3. /\ c \in Stored /\ c.target = comments[r.id].target /\ c.resolved = r.to
            /\ c.deleted = FALSE
        BY <2>4, <3>1 DEF Stored
      <3> HIDE DEF e, c
      <3> QED BY <2>2, <3>1, <3>2, <3>3
    <2>6. CASE DeleteComment(r) /\ ~UNCHANGED served
      <3> DEFINE e == Event(r.id, "delete", r.loaded.resolved, r.loaded.resolved)
                 c == [comments[r.id] EXCEPT !.deleted = TRUE]
      <3>1. /\ r.kind = "delete" /\ Changes(r) /\ events' = Append(events, e)
            /\ comments' = [comments EXCEPT ![r.id] = c]
        BY <2>6 DEF DeleteComment
      <3>2. /\ e \in Change /\ e.id = r.id /\ e.kind = "delete" /\ e.from = r.loaded.resolved
            /\ e.to = comments[r.id].resolved
        BY <2>4, <3>1 DEF Event, Change, Kinds
      <3>3. /\ c \in Stored /\ c.target = comments[r.id].target
            /\ c.resolved = comments[r.id].resolved /\ c.deleted = TRUE
        BY <2>4, <3>1 DEF Stored
      <3> HIDE DEF e, c
      <3> QED BY <2>2, <3>1, <3>2, <3>3
    <2> QED BY <1>3, <2>1, <2>3, <2>5, <2>6
  <1>5. PICK q \in Write : /\ q.n = r.n /\ q.kind = r.kind /\ q.stage # "locked"
                          /\ (q.kind # "create" => q.id = r.id)
                          /\ requests' \subseteq (requests \ {r}) \cup {q}
    <2> DEFINE stage == IF Refused(r) THEN "refused" ELSE "done"
               id == IF r.id = 0 THEN Len(comments) + 1 ELSE r.id
               q == [r EXCEPT !.stage = stage, !.id = id]
    <2>1. requests' \subseteq (requests \ {r}) \cup {q}
      BY DEF Commit
    <2>2. stage \in {"done", "refused"} /\ id \in Nat
      BY <1>1 DEF Write, ServerTypes
    <2>3. r.kind # "create" => id = r.id
      BY <1>1 DEF ServerTypes
    <2> HIDE DEF stage, id
    <2>4. q \in Write /\ q.n = r.n /\ q.kind = r.kind /\ q.stage = stage /\ q.id = id
      BY <1>1, <2>2 DEF Write
    <2> HIDE DEF q
    <2> QED BY <2>1, <2>2, <2>3, <2>4
  <1>6. RequestTypes' /\ WrittenExists'
    BY <1>1, <1>4, <1>5 DEF IInv, RequestTypes, WrittenExists
  <1>7. TabTypes' /\ ShownExists'
    BY <1>1, <1>4 DEF IInv, tab, TabTypes, ShownExists, Exists
  <1>8. Serial'
    <2>1. (\A p \in requests' : p.n < acts') /\ (\A p, o \in requests' : p.n = o.n => p = o)
      BY <1>1, <1>5 DEF IInv, Serial
    <2>2. \A p \in requests' : p.stage # "locked"
      BY <1>1, <1>5 DEF IInv, Serial
    <2> QED BY <2>1, <2>2 DEF Serial
  <1> QED BY <1>4, <1>6, <1>7, <1>8 DEF IInv

-----------------------------------------------------------------------------
LEMMA StepIInv == ASSUME CommentConstants, IInv, [CommentsNext]_commentVars PROVE IInv'
  <1>1. CASE CommentsNext
    BY <1>1, TakeRowStep, CommitStep, AnsweredStep, FetchStep, PanelStep, SendStep DEF CommentsNext
  <1>2. CASE UNCHANGED commentVars
    BY <1>2, TabKeeps DEF commentVars, served, tab, IInv, TabTypes, ShownExists, Exists
  <1> QED BY <1>1, <1>2

THEOREM Invariance == ASSUME CommentConstants PROVE CommentsSpec => []IInv
  <1>1. CommentsInit => IInv
    BY InitIInv
  <1>2. IInv /\ [CommentsNext]_commentVars => IInv'
    BY StepIInv
  <1> QED BY <1>1, <1>2, PTL DEF CommentsSpec

(* The trail tells every comment from its creation to what is stored of it,    *)
(* and nothing follows a deletion, whoever resolves and deletes at once.       *)
THEOREM TrailsAreTrue == ASSUME CommentConstants PROVE CommentsSpec => []TrailIsTrue
  <1>1. IInv => TrailIsTrue
    BY DEF IInv
  <1> QED BY <1>1, Invariance, PTL
-----------------------------------------------------------------------------
(* The lists of the tab.  The comments of a list are connected: what is not in *)
(* it is newer than all or older than all of it.  A list that has no more is   *)
(* complete: it lacks newer comments only.                                     *)
Mine(t) == {i \in DOMAIN comments : comments[i].target = t}
Ids(items) == {x.id : x \in items}
Connected(mine, ids) ==
    /\ ids \subseteq mine
    /\ \A i \in mine : (\E j \in ids : i < j) => i \in ids \/ \A j \in ids : i < j
Complete(mine, ids) == \A i \in mine : (\E j \in ids : i < j) => i \in ids

(* What is read of a list, with what it tells about more.                      *)
Hangs(t, items, more) == /\ Connected(Mine(t), Ids(items))
                         /\ more \/ Complete(Mine(t), Ids(items))
CacheHangs(t) == /\ Connected(Mine(t), Ids(cache[t].items)) /\ cache[t].own \subseteq Mine(t)
                 /\ IF cache[t].more THEN cache[t].pages > 0
                                     ELSE Complete(Mine(t), Ids(cache[t].items))
FetchHangs(t) == /\ Connected(Mine(t), Ids(fetch[t].items))
                 /\ fetch[t].pages = 0 => fetch[t].items = {}
                 /\ fetch[t].read => Hangs(t, fetch[t].items \cup fetch[t].page, fetch[t].more)

(* An own comment that a list lacks is being read, or something came between;  *)
(* a first page that is on its way has it, or tells that there is more.        *)
Offers(items, more, i) == \/ i \in Ids(items)
                          \/ /\ more
                             /\ \A j \in Ids(items) : i < j
Pursued(t) == ~LeavesCells => \A i \in Promised(t) :
    /\ Busy(t) \/ Lists(t, i) \/ cache[t].err \/ cache[t].pages > 1
    /\ fetch[t].read /\ fetch[t].pages = 0 => Offers(fetch[t].page, fetch[t].more, i)

(* A post has no comment yet, or the one the service gave it; that of a cell   *)
(* is under way while the panel shows this cell, and no other takes its place. *)
Placed(r) == r.kind = "create" =>
    /\ r.at = None
    /\ r.stage \in {"sent", "locked"} => r.id = 0
    /\ r.mine /\ r.stage = "done" => r.id \in Mine(r.target)
    /\ r.mine /\ r.target \in Commented /\ ~LeavesCells => panel.cell = r.target

ListsHang == \A t \in Targets : CacheHangs(t) /\ FetchHangs(t) /\ Pursued(t)
PostsArePlaced == \A r \in requests : Placed(r)
LInv == ListsHang /\ PostsArePlaced

(* The oldest comment of a list is its least.                                  *)
LEMMA OldestIsLeast ==
    ASSUME NEW items, NEW otherwise, Ids(items) \subseteq Nat, items # {}
    PROVE  /\ Oldest(items, otherwise) \in Ids(items)
           /\ \A i \in Ids(items) : Oldest(items, otherwise) <= i
  <1> DEFINE R == OpToRel(<, Nat)
             ids == Ids(items)
  <1>1. IsWellFoundedOn(R, Nat)
    BY NatLessThanWellFounded
  <1>2. ids # {} /\ ids \subseteq Nat
    BY DEF Ids
  <1> HIDE DEF R
  <1>3. PICK least \in ids : \A j \in ids : <<j, least>> \notin R
    BY <1>1, <1>2, WFMin
  <1>4. \A j \in ids : least <= j
    <2>1. \A j \in ids : ~(j < least)
      BY <1>3 DEF OpToRel, R
    <2> HIDE DEF ids
    <2> QED BY <1>2, <1>3, <2>1
  <1>5. \E i \in {x.id : x \in items} : \A x \in items : i <= x.id
    BY <1>3, <1>4 DEF Ids
  <1>6. /\ Oldest(items, otherwise) \in {x.id : x \in items}
        /\ \A x \in items : Oldest(items, otherwise) <= x.id
    BY <1>5 DEF Oldest
  <1> QED BY <1>6 DEF Ids

(* A page has the newest of the older comments, and tells what it leaves.      *)
LEMMA PageReaches ==
    ASSUME CommentConstants, ServerTypes, NEW t, NEW before \in Nat
    PROVE  /\ PageOf(t, before) \subseteq Older(t, before)
           /\ \A i \in Older(t, before), j \in PageOf(t, before) :
                  j < i => i \in PageOf(t, before)
           /\ \A i \in Older(t, before) \ PageOf(t, before) : MoreOlder(t, before)
  <1> DEFINE older == Older(t, before)
             Newer(i) == {j \in older : j > i}
  <1>1. older \subseteq Nat /\ IsFiniteSet(older)
    <2>1. Len(comments) \in Nat /\ DOMAIN comments = 1..Len(comments)
      BY DEF ServerTypes
    <2>2. IsFiniteSet(1..Len(comments))
      BY <2>1, FS_Interval
    <2>3. older \in SUBSET (1..Len(comments))
      BY <2>1 DEF Older
    <2> QED BY <2>1, <2>2, <2>3, FS_Subset
  <1>2. PageOf(t, before) = {i \in older : Cardinality(Newer(i)) < PageSize}
    BY DEF PageOf
  <1>3. MoreOlder(t, before) <=> Cardinality(older) > PageSize
    BY DEF MoreOlder
  <1> HIDE DEF older
  <1>4. \A i : IsFiniteSet(Newer(i)) /\ Cardinality(Newer(i)) \in Nat
    <2> SUFFICES ASSUME NEW i PROVE IsFiniteSet(Newer(i)) /\ Cardinality(Newer(i)) \in Nat
      OBVIOUS
    <2>1. Newer(i) \in SUBSET older
      OBVIOUS
    <2> HIDE DEF Newer
    <2>2. IsFiniteSet(Newer(i))
      BY <1>1, <2>1, FS_Subset
    <2> QED BY <2>2, FS_CardinalityType
  <1>5. PageSize \in Nat
    BY DEF CommentConstants
  <1>6. ASSUME NEW i \in older, NEW j \in older, j < i
        PROVE  Cardinality(Newer(i)) <= Cardinality(Newer(j))
    <2>1. \A k \in older : k > i => k > j
      BY <1>1, <1>6
    <2>2. Newer(i) \in SUBSET Newer(j)
      BY <2>1
    <2> HIDE DEF Newer
    <2> QED BY <1>4, <2>2, FS_Subset
  <1>7. ASSUME NEW i \in older, Cardinality(Newer(i)) >= PageSize
        PROVE  Cardinality(older) > PageSize
    <2>1. Newer(i) \in SUBSET older /\ i \notin Newer(i)
      BY <1>1
    <2> HIDE DEF Newer
    <2>2. /\ Cardinality(Newer(i)) <= Cardinality(older)
          /\ Cardinality(Newer(i)) # Cardinality(older) /\ Cardinality(older) \in Nat
      BY <1>1, <1>7, <2>1, FS_Subset, FS_CardinalityType
    <2> QED BY <1>4, <1>5, <1>7, <2>2
  <1> HIDE DEF Newer
  <1>8. \A i \in older, j \in PageOf(t, before) : j < i => i \in PageOf(t, before)
    BY <1>2, <1>4, <1>5, <1>6
  <1>9. \A i \in older \ PageOf(t, before) : MoreOlder(t, before)
    BY <1>2, <1>3, <1>4, <1>5, <1>7
  <1> QED BY <1>2, <1>8, <1>9 DEF older

(* A list and the page read behind it are a list again.                        *)
LEMMA PageJoins ==
    ASSUME CommentConstants, ServerTypes, NEW t, NEW items,
           Connected(Mine(t), Ids(items)), NEW before,
           before = Oldest(items, Len(comments) + 1), NEW ids,
           ids = Ids(items) \cup PageOf(t, before)
    PROVE  /\ Connected(Mine(t), ids)
           /\ ~MoreOlder(t, before) => Complete(Mine(t), ids)
           /\ items = {} => \A i \in Mine(t) : \/ i \in ids
                                              \/ /\ MoreOlder(t, before)
                                                 /\ \A j \in ids : i < j
  <1> DEFINE mine == Mine(t)
             old == Ids(items)
             fresh == PageOf(t, before)
             older == Older(t, before)
             more == MoreOlder(t, before)
  <1>1. /\ mine \subseteq Nat /\ Len(comments) + 1 \in Nat /\ \A i \in mine : i < Len(comments) + 1
        /\ old \subseteq mine
        /\ \A i \in mine : (\E j \in old : i < j) => i \in old \/ \A j \in old : i < j
    BY DEF Mine, ServerTypes, Connected
  <1>2. older = {i \in mine : i < before}
    BY DEF Older, Mine
  <1>3. /\ before \in Nat
        /\ items # {} => before \in old /\ \A i \in old : before <= i
        /\ items = {} => old = {} /\ \A i \in mine : i < before
    <2>1. CASE items = {}
      BY <1>1, <2>1 DEF Oldest, Ids
    <2>2. CASE items # {}
      BY <1>1, <2>2, OldestIsLeast
    <2> QED BY <2>1, <2>2
  <1>4. /\ fresh \subseteq older /\ \A i \in older, j \in fresh : j < i => i \in fresh
        /\ \A i \in older \ fresh : more
    BY <1>3, PageReaches
  <1> HIDE DEF mine, old, fresh, older, more
  <1>5. ids = old \cup fresh
    BY DEF old, fresh
  <1>6. \A i \in mine : i < before \/ i \in old \/ \A j \in ids : j < i
    <2> SUFFICES ASSUME NEW i \in mine, ~(i < before), i \notin old, NEW j \in ids PROVE j < i
      OBVIOUS
    <2>1. items # {} /\ before \in old /\ before <= i
      BY <1>1, <1>3
    <2>2. \A k \in old : ~(i < k)
      BY <1>1, <1>3, <2>1
    <2>3. CASE j \in old
      BY <1>1, <2>2, <2>3
    <2>4. CASE j \in fresh
      BY <1>1, <1>2, <1>3, <1>4, <2>1, <2>4
    <2> QED BY <1>5, <2>3, <2>4
  <1>7. ASSUME NEW i \in mine, i < before, i \notin fresh
        PROVE  more /\ \A j \in ids : i < j
    <2>1. i \in older /\ more
      BY <1>2, <1>4, <1>7
    <2>2. \A j \in fresh : i < j
      BY <1>1, <1>2, <1>4, <1>7, <2>1
    <2>3. \A j \in old : i < j
      BY <1>1, <1>3, <1>7
    <2> QED BY <1>5, <2>1, <2>2, <2>3
  <1>8. ids \subseteq mine
    BY <1>1, <1>2, <1>4, <1>5
  <1>9. \A i \in mine : \/ i \in ids \/ (\A j \in ids : j < i)
                        \/ more /\ \A j \in ids : i < j
    BY <1>5, <1>6, <1>7
  <1>10. Connected(mine, ids) /\ (~more => Complete(mine, ids))
    BY <1>1, <1>8, <1>9 DEF Connected, Complete
  <1>11. items = {} => \A i \in mine : i \in ids \/ (more /\ \A j \in ids : i < j)
    BY <1>3, <1>5, <1>7
  <1> QED BY <1>10, <1>11 DEF mine, more

LEMMA EmptyHangs == ASSUME NEW mine PROVE Connected(mine, Ids({})) /\ Complete(mine, Ids({}))
  BY DEF Connected, Complete, Ids

LEMMA RefetchedStarts ==
    ASSUME TabTypes, NEW t \in Targets
    PROVE  /\ Refetched(t).items = {} /\ Refetched(t).wanted > 0 /\ ~Refetched(t).read
           /\ Connected(Mine(t), Ids(Refetched(t).items))
  <1>1. cache[t].pages \in Nat
    BY DEF TabTypes, List
  <1>2. Refetched(t).items = {} /\ Refetched(t).wanted > 0 /\ ~Refetched(t).read
    BY <1>1 DEF Refetched, NoFetch
  <1> QED BY <1>2, EmptyHangs

LEMMA InitLists == ASSUME CommentConstants, CommentsInit PROVE LInv
  <1>1. /\ NoList.items = {} /\ NoList.own = {} /\ NoList.more = FALSE
        /\ FirstFetch.items = {} /\ NoFetch.items = {} /\ ~FirstFetch.read /\ ~NoFetch.read
    BY DEF NoList, FirstFetch, NoFetch
  <1>2. ASSUME NEW t \in Targets PROVE CacheHangs(t) /\ FetchHangs(t) /\ Pursued(t)
    <2>1. cache[t] = NoList /\ fetch[t] \in {FirstFetch, NoFetch}
      BY <1>2 DEF CommentsInit
    <2> QED BY <1>1, <2>1, EmptyHangs DEF CacheHangs, FetchHangs, Pursued, Promised
  <1> QED BY <1>2 DEF CommentsInit, LInv, ListsHang, PostsArePlaced

(* Steps that neither read nor write: a list may be read again.                *)
LEMMA CalmLists ==
    ASSUME IInv, ListsHang, UNCHANGED <<comments, cache>>,
           \A t \in Targets : fetch'[t] \in {fetch[t], Refetched(t)}
    PROVE  ListsHang'
  <1> SUFFICES ASSUME NEW t \in Targets PROVE CacheHangs(t)' /\ FetchHangs(t)' /\ Pursued(t)'
    BY DEF ListsHang
  <1>1. Mine(t)' = Mine(t) /\ Promised(t)' = Promised(t) /\ \A i : Lists(t, i)' <=> Lists(t, i)
    BY DEF Mine, Lists, Promised
  <1>2. CacheHangs(t) /\ FetchHangs(t) /\ Pursued(t)
    BY DEF ListsHang
  <1>3. CacheHangs(t)'
    BY <1>1, <1>2 DEF CacheHangs
  <1>4. /\ Refetched(t).items = {} /\ Refetched(t).wanted > 0 /\ ~Refetched(t).read
        /\ Connected(Mine(t), Ids(Refetched(t).items))
    BY RefetchedStarts DEF IInv
  <1>5. FetchHangs(t)' /\ Pursued(t)'
    <2>1. CASE fetch'[t] = fetch[t]
      BY <1>1, <1>2, <2>1 DEF FetchHangs, Hangs, Pursued, Busy
    <2>2. CASE fetch'[t] = Refetched(t)
      <3>1. FetchHangs(t)'
        BY <1>1, <1>4, <2>2 DEF FetchHangs
      <3>2. Busy(t)'
        BY <1>4, <2>2 DEF Busy
      <3> QED BY <1>4, <2>2, <3>1, <3>2 DEF Pursued
    <2> QED BY <2>1, <2>2
  <1> QED BY <1>3, <1>5

(* Requests that end, and a panel that stays.                                  *)
LEMMA PlacedStays ==
    ASSUME PostsArePlaced, UNCHANGED comments, panel'.cell = panel.cell,
           \A r \in requests' \ requests : Placed(r)'
    PROVE  PostsArePlaced'
  <1> SUFFICES ASSUME NEW r \in requests' PROVE Placed(r)'
    BY DEF PostsArePlaced
  <1>1. CASE r \in requests
    <2>1. Placed(r) /\ Mine(r.target)' = Mine(r.target)
      BY <1>1 DEF PostsArePlaced, Mine
    <2> QED BY <2>1 DEF Placed
  <1> QED BY <1>1

LEMMA PanelLists ==
    ASSUME CommentConstants, IInv, LInv,
           \/ \E c \in Commented : ShowCell(c)
           \/ Retry \/ TypeComment \/ TypeInPanel
    PROVE  LInv'
  <1>1. /\ UNCHANGED <<served, requests, cache>>
        /\ \E t \in Targets : fetch' = [fetch EXCEPT ![t] = Refetched(t)] \/ fetch' = fetch
    <2>1. Project \in Targets /\ Commented \subseteq Targets
      BY DEF Targets
    <2> QED BY <2>1 DEF ShowCell, Retry, TypeComment, TypeInPanel
  <1>2. \A t \in Targets : fetch'[t] \in {fetch[t], Refetched(t)}
    BY <1>1 DEF IInv, TabTypes
  <1>3. ListsHang'
    BY <1>1, <1>2, CalmLists DEF LInv, served
  <1>4. PostsArePlaced'
    <2>1. CASE panel'.cell = panel.cell
      BY <1>1, <2>1, PlacedStays DEF LInv, served
    <2>2. ASSUME NEW c \in Commented, ShowCell(c) PROVE PostsArePlaced'
      <3> SUFFICES ASSUME NEW r \in requests' PROVE Placed(r)'
        BY DEF PostsArePlaced
      <3>1. r \in requests /\ Placed(r) /\ Mine(r.target)' = Mine(r.target)
        BY <1>1 DEF LInv, PostsArePlaced, Mine, served
      <3>2. r.mine /\ r.kind = "create" /\ r.target \in Commented => LeavesCells
        BY <2>2, <3>1 DEF ShowCell, Pending
      <3> QED BY <3>1, <3>2 DEF Placed
    <2>3. TypeInPanel => panel'.cell = panel.cell
      BY DEF TypeInPanel, IInv, TabTypes, Panel
    <2>4. Retry \/ TypeComment => panel' = panel
      BY DEF Retry, TypeComment
    <2> QED BY <2>1, <2>2, <2>3, <2>4
  <1> QED BY <1>3, <1>4 DEF LInv

LEMMA SendLists ==
    ASSUME CommentConstants, IInv, LInv,
           OtherWrites \/ SubmitComment \/ ChangeComment \/ SubmitInPanel \/ ChangeInPanel
    PROVE  LInv'
  <1>1. UNCHANGED <<comments, cache, fetch, panel>>
    BY DEF OtherWrites, SubmitComment, ChangeComment, SubmitInPanel, ChangeInPanel, tab, served
  <1>2. ListsHang'
    BY <1>1, CalmLists DEF LInv
  <1> DEFINE Posts(q) == \/ q.kind # "create"
                         \/ /\ q.stage = "sent" /\ q.id = 0 /\ q.at = None
                            /\ q.mine /\ q.target \in Commented => panel.cell = q.target
  <1>3. ASSUME NEW kind, NEW id, NEW to, NEW t, NEW mine,
               kind # "create" \/ (id = 0 /\ (mine /\ t \in Commented => panel.cell = t))
        PROVE  Posts(Request(kind, id, to, t, mine))
    <2> DEFINE q == Request(kind, id, to, t, mine)
    <2>1. /\ q.kind = kind /\ q.id = id /\ q.target = t /\ q.mine = mine /\ q.stage = "sent"
          /\ q.at = None
      BY DEF Request
    <2> HIDE DEF q
    <2>2. Posts(q)
      BY <1>3, <2>1
    <2> QED BY <2>2 DEF q
  <1>4. Project \notin Commented
    BY DEF CommentConstants
  <1> HIDE DEF Posts
  <1>5. \A r \in requests' \ requests : Posts(r)
    <2>0. ASSUME NEW kind, NEW id, NEW to, NEW t, NEW mine, Send(Request(kind, id, to, t, mine)),
                 kind # "create" \/ (id = 0 /\ (mine /\ t \in Commented => panel.cell = t))
          PROVE  \A r \in requests' \ requests : Posts(r)
      BY <1>3, <2>0 DEF Send
    <2>1. CASE OtherWrites
      BY <2>0, <2>1 DEF OtherWrites
    <2>2. CASE SubmitComment
      BY <1>4, <2>0, <2>2 DEF SubmitComment
    <2>3. CASE ChangeComment
      BY <2>0, <2>3 DEF ChangeComment
    <2>4. CASE SubmitInPanel
      BY <2>0, <2>4 DEF SubmitInPanel
    <2>5. CASE ChangeInPanel
      <3>1. PICK item \in cache[panel.cell].items, kind \in {"resolve", "delete"} :
                SendInPlace(Request(kind, item.id, ~item.resolved, panel.cell, TRUE))
        BY <2>5 DEF ChangeInPanel
      <3>2. PICK r : r = Request(kind, item.id, ~item.resolved, panel.cell, TRUE)
        OBVIOUS
      <3>3. r.kind = kind /\ kind # "create"
        BY <3>2 DEF Request
      <3>4. ASSUME NEW q \in requests, Kept(q, kind) \notin requests PROVE Posts(Kept(q, kind))
        <4>1. q.kind = kind /\ q \in Write /\ Kept(q, kind) = [q EXCEPT !.at = panel.cell]
          BY <3>4 DEF Kept, InPlace, IInv, RequestTypes
        <4>2. Kept(q, kind).kind = kind
          BY <4>1 DEF Write
        <4> QED BY <3>3, <4>2 DEF Posts
      <3>5. requests' = {Kept(q, kind) : q \in requests} \cup {r}
        BY <3>1, <3>2, <3>3 DEF SendInPlace
      <3>6. Posts(r)
        BY <1>3, <3>2, <3>3
      <3> QED BY <3>4, <3>5, <3>6
    <2> QED BY <2>1, <2>2, <2>3, <2>4, <2>5
  <1>6. PostsArePlaced'
    BY <1>1, <1>5, PlacedStays DEF LInv, Placed, Posts
  <1> QED BY <1>2, <1>6 DEF LInv

LEMMA TakeRowLists ==
    ASSUME CommentConstants, IInv, LInv, NEW r \in requests, TakeRow(r)
    PROVE  LInv'
  <1> DEFINE q == [r EXCEPT !.stage = "locked", !.loaded = Load(r)]
  <1>1. /\ r \in Write /\ r.stage = "sent" /\ requests' = (requests \ {r}) \cup {q}
        /\ UNCHANGED <<comments, cache, fetch, panel>>
    BY DEF IInv, RequestTypes, TakeRow, Waiting, served, tab
  <1>2. ListsHang'
    BY <1>1, CalmLists DEF LInv
  <1>3. /\ q.kind = r.kind /\ q.id = r.id /\ q.mine = r.mine /\ q.target = r.target
        /\ q.stage = "locked" /\ q.at = r.at
    BY <1>1 DEF Write
  <1>4. Placed(r)
    BY DEF LInv, PostsArePlaced
  <1> HIDE DEF q
  <1>5. PICK p : p = q
    OBVIOUS
  <1>6. Placed(p)'
    BY <1>1, <1>3, <1>4, <1>5 DEF Placed
  <1>7. PostsArePlaced'
    BY <1>1, <1>5, <1>6, PlacedStays DEF LInv
  <1> QED BY <1>2, <1>7 DEF LInv

(* A comment that is added is newer than all.                                  *)
LEMMA CommentsGrow ==
    ASSUME IInv, NEW r \in requests, Commit(r)
    PROVE  /\ \A t : /\ Mine(t) \subseteq Mine(t)' /\ Mine(t) \subseteq Nat
                     /\ \A i \in Mine(t)' \ Mine(t) : \A j \in Mine(t) : j < i /\ i \in Nat
           /\ r.kind = "create" => Len(comments) + 1 \in Mine(r.target)'
  <1>1. /\ comments \in Seq(Stored) /\ r \in Write
        /\ r.kind # "create" => r.id \in DOMAIN comments
    BY DEF IInv, ServerTypes, RequestTypes, WrittenExists
  <1>2. DOMAIN comments = 1..Len(comments) /\ Len(comments) \in Nat
    BY <1>1
  <1>3. CASE CreateComment(r)
    <2> DEFINE c == New(r.target)
    <2>1. comments' = Append(comments, c) /\ c.target = r.target
      BY <1>1, <1>3, NewType DEF CreateComment, Write
    <2> HIDE DEF c
    <2>2. /\ DOMAIN comments' = 1..(Len(comments) + 1) /\ comments'[Len(comments) + 1] = c
          /\ \A i \in DOMAIN comments : comments'[i] = comments[i]
      BY <1>1, <2>1
    <2> QED BY <1>2, <2>1, <2>2 DEF Mine
  <1>4. CASE SetCommentResolved(r) \/ DeleteComment(r)
    <2>1. /\ DOMAIN comments' = DOMAIN comments /\ r.kind # "create"
          /\ \A i \in DOMAIN comments : comments'[i].target = comments[i].target
      <3>1. CASE UNCHANGED comments
        BY <1>4, <3>1 DEF SetCommentResolved, DeleteComment
      <3>2. ASSUME NEW c, c.target = comments[r.id].target, comments' = [comments EXCEPT ![r.id] = c]
            PROVE  /\ DOMAIN comments' = DOMAIN comments
                   /\ \A i \in DOMAIN comments : comments'[i].target = comments[i].target
        BY <1>1, <3>2
      <3>3. r.kind # "create" => comments[r.id] \in Stored
        BY <1>1
      <3>4. CASE ~UNCHANGED comments /\ SetCommentResolved(r)
        <4> DEFINE c == [comments[r.id] EXCEPT !.resolved = r.to]
        <4>1. comments' = [comments EXCEPT ![r.id] = c] /\ r.kind = "resolve"
          BY <3>4 DEF SetCommentResolved, served
        <4>2. c.target = comments[r.id].target
          BY <3>3, <4>1 DEF Stored
        <4> HIDE DEF c
        <4> QED BY <3>2, <4>1, <4>2
      <3>5. CASE ~UNCHANGED comments /\ DeleteComment(r)
        <4> DEFINE c == [comments[r.id] EXCEPT !.deleted = TRUE]
        <4>1. comments' = [comments EXCEPT ![r.id] = c] /\ r.kind = "delete"
          BY <3>5 DEF DeleteComment, served
        <4>2. c.target = comments[r.id].target
          BY <3>3, <4>1 DEF Stored
        <4> HIDE DEF c
        <4> QED BY <3>2, <4>1, <4>2
      <3> QED BY <1>4, <3>1, <3>4, <3>5
    <2> QED BY <1>2, <2>1 DEF Mine
  <1> QED BY <1>3, <1>4 DEF Commit

LEMMA CommitLists ==
    ASSUME CommentConstants, IInv, LInv, NEW r \in requests, Commit(r)
    PROVE  LInv'
  <1>1. /\ \A t : /\ Mine(t) \subseteq Mine(t)' /\ Mine(t) \subseteq Nat
                  /\ \A i \in Mine(t)' \ Mine(t) : \A j \in Mine(t) : j < i /\ i \in Nat
        /\ r.kind = "create" => Len(comments) + 1 \in Mine(r.target)'
    BY CommentsGrow
  <1>2. UNCHANGED <<cache, fetch, panel>> /\ r \in Write /\ r.stage = "locked"
    BY DEF Commit, tab, IInv, RequestTypes
  <1>3. ListsHang'
    <2> SUFFICES ASSUME NEW t \in Targets PROVE CacheHangs(t)' /\ FetchHangs(t)' /\ Pursued(t)'
      BY DEF ListsHang
    <2>1. CacheHangs(t) /\ FetchHangs(t) /\ Pursued(t)
      BY DEF LInv, ListsHang
    <2>2. ASSUME NEW ids, Connected(Mine(t), ids)
          PROVE  /\ Connected(Mine(t)', ids)
                 /\ Complete(Mine(t), ids) => Complete(Mine(t)', ids)
      <3>1. PICK old, new : old = Mine(t) /\ new = Mine(t)'
        OBVIOUS
      <3>2. /\ old \subseteq new /\ old \subseteq Nat /\ ids \subseteq old
            /\ \A i \in new \ old : \A j \in old : j < i /\ i \in Nat
        BY <1>1, <2>2, <3>1 DEF Connected
      <3>3. \A i \in new : (\E j \in ids : i < j) => i \in old
        BY <3>2
      <3>4. Connected(new, ids) /\ (Complete(old, ids) => Complete(new, ids))
        BY <2>2, <3>1, <3>2, <3>3 DEF Connected, Complete
      <3> QED BY <3>1, <3>4
    <2>3. CacheHangs(t)'
      BY <1>1, <1>2, <2>1, <2>2 DEF CacheHangs
    <2>4. FetchHangs(t)'
      BY <1>2, <2>1, <2>2 DEF FetchHangs, Hangs
    <2>5. Pursued(t)'
      BY <1>2, <2>1 DEF Pursued, Promised, Busy, Lists
    <2> QED BY <2>3, <2>4, <2>5
  <1>4. PostsArePlaced'
    <2> SUFFICES ASSUME NEW p \in requests' PROVE Placed(p)'
      BY DEF PostsArePlaced
    <2>1. ASSUME NEW o \in requests, Placed(o), o = p PROVE Placed(p)'
      BY <1>1, <1>2, <2>1 DEF Placed
    <2>2. CASE p \in requests
      BY <2>1, <2>2 DEF LInv, PostsArePlaced
    <2>3. CASE p \notin requests
      <3> DEFINE stage == IF Refused(r) THEN "refused" ELSE "done"
                 id == IF r.id = 0 THEN Len(comments) + 1 ELSE r.id
                 q == [[r EXCEPT !.stage = stage] EXCEPT !.id = id]
      <3>1. p = q
        BY <2>3 DEF Commit
      <3>2. p.kind = r.kind /\ p.mine = r.mine /\ p.target = r.target /\ p.stage = stage /\ p.id = id
            /\ p.at = r.at
        BY <1>2, <3>1 DEF Write
      <3>3. r.kind = "create" => id = Len(comments) + 1 /\ stage = "done"
        BY <1>2 DEF LInv, PostsArePlaced, Placed, Refused
      <3>4. Placed(r)
        BY DEF LInv, PostsArePlaced
      <3> HIDE DEF q, stage, id
      <3> QED BY <1>1, <1>2, <3>2, <3>3, <3>4 DEF Placed
    <2> QED BY <2>2, <2>3
  <1> QED BY <1>3, <1>4 DEF LInv

(* A read page ends a reading or leads to the next one.                        *)
(* What is read of a list hangs together at each of its steps.                 *)
LEMMA ReadingHangs ==
    ASSUME CommentConstants, IInv, NEW t \in Targets, CacheHangs(t), FetchHangs(t), Pursued(t)
    PROVE  LET f == WithPage(fetch[t], t)
           IN  /\ Hangs(t, f.items \cup f.page, f.more)
               /\ fetch[t].pages = 0 => \A i \in Mine(t) : Offers(f.page, f.more, i)
  <1> DEFINE f == fetch[t]
             b == Before(f)
             page == {Shown(i) : i \in ListComments(t, b)}
             more == MoreOlder(t, b)
             ids == Ids(f.items) \cup PageOf(t, b)
  <1>1. Connected(Mine(t), Ids(f.items)) /\ (f.pages = 0 => f.items = {}) /\ ServerTypes
    BY DEF FetchHangs, IInv
  <1>2. Ids(page) = PageOf(t, b)
    <2>1. \A i : Shown(i).id = i
      BY DEF Shown
    <2> HIDE DEF b, f
    <2> QED BY <2>1 DEF Ids, ListComments
  <1>3. b = Oldest(f.items, Len(comments) + 1)
    BY DEF Before
  <1>4. WithPage(f, t).items = f.items /\ WithPage(f, t).page = page /\ WithPage(f, t).more = more
    BY DEF WithPage
  <1> HIDE DEF f, b, page
  <1>5. Ids(f.items \cup page) = ids
    BY <1>2 DEF Ids
  <1>6. PICK old, all : old = f.items /\ all = ids
    OBVIOUS
  <1>7. /\ Connected(Mine(t), all) /\ (~MoreOlder(t, b) => Complete(Mine(t), all))
        /\ old = {} => \A i \in Mine(t) : \/ i \in all
                                         \/ /\ MoreOlder(t, b)
                                            /\ \A j \in all : i < j
    BY <1>1, <1>3, <1>6, PageJoins
  <1>8. Hangs(t, f.items \cup page, more)
    BY <1>5, <1>6, <1>7 DEF Hangs
  <1>9. f.pages = 0 => \A i \in Mine(t) : Offers(page, more, i)
    <2> SUFFICES ASSUME f.pages = 0, NEW i \in Mine(t) PROVE Offers(page, more, i)
      OBVIOUS
    <2>1. old = {} /\ all = Ids(page)
      BY <1>1, <1>2, <1>6 DEF Ids
    <2> QED BY <1>7, <2>1 DEF Offers
  <1> QED BY <1>4, <1>8, <1>9 DEF f

(* A page is read, or its arrival leads to the next or ends the reading.       *)
LEMMA FetchLists ==
    ASSUME CommentConstants, IInv, LInv, NEW t \in Targets,
           ReadPage(t) \/ PageTaken(t) \/ ListTaken(t) \/ FetchFails(t) \/ MorePages(t)
    PROVE  LInv'
  <1>1. /\ UNCHANGED <<comments, requests, panel>> /\ cache[t] \in List /\ fetch[t] \in Reading
        /\ cache \in [Targets -> List] /\ fetch \in [Targets -> Reading]
    BY DEF ReadPage, PageTaken, ListTaken, FetchFails, MorePages, served, IInv, TabTypes
  <1>2. PostsArePlaced'
    BY <1>1, PlacedStays DEF LInv
  <1>3. CacheHangs(t) /\ FetchHangs(t) /\ Pursued(t)
    BY DEF LInv, ListsHang
  <1>4. ASSUME NEW s \in Targets, s # t PROVE CacheHangs(s)' /\ FetchHangs(s)' /\ Pursued(s)'
    <2>1. CacheHangs(s) /\ FetchHangs(s) /\ Pursued(s) /\ Mine(s)' = Mine(s)
      BY <1>1 DEF LInv, ListsHang, Mine
    <2>2. cache'[s] = cache[s] /\ fetch'[s] = fetch[s]
      BY <1>1, <1>4 DEF ReadPage, PageTaken, ListTaken, FetchFails, MorePages
    <2> QED BY <2>1, <2>2 DEF CacheHangs, FetchHangs, Hangs, Pursued, Promised, Busy, Lists
  <1>5. /\ Mine(t)' = Mine(t) /\ NoFetch.items = {} /\ ~NoFetch.read
        /\ Connected(Mine(t), Ids({}))
    BY <1>1, EmptyHangs DEF Mine, NoFetch
  <1>6. CASE CacheHangs(t)' /\ FetchHangs(t)' /\ Pursued(t)'
    BY <1>2, <1>4, <1>6 DEF LInv, ListsHang
  <1> DEFINE f == fetch[t]
             items == f.items \cup f.page
             n == f.pages + 1
  <1>7. n \in Nat /\ n > 0 /\ (n > 1 \/ (f.items = {} /\ f.pages = 0)) /\ f.more \in BOOLEAN
    BY <1>1, <1>3 DEF FetchHangs, Reading
  <1>8. CASE ReadPage(t)
    <2> DEFINE g == WithPage(f, t)
    <2>1. fetch'[t] = g /\ cache'[t] = cache[t] /\ Busy(t)
      BY <1>1, <1>8 DEF ReadPage
    <2>2. /\ Hangs(t, g.items \cup g.page, g.more)
          /\ f.pages = 0 => \A i \in Mine(t) : Offers(g.page, g.more, i)
      BY <1>3, ReadingHangs
    <2>3. g.items = f.items /\ g.pages = f.pages /\ g.wanted = f.wanted
      BY DEF WithPage
    <2> HIDE DEF g
    <2>4. CacheHangs(t)' /\ FetchHangs(t)'
      BY <1>3, <1>5, <2>1, <2>2, <2>3 DEF CacheHangs, FetchHangs, Hangs
    <2>5. Pursued(t)'
      <3>1. Busy(t)' /\ Promised(t)' = Promised(t) /\ Promised(t) \subseteq Mine(t)
        BY <1>3, <2>1, <2>3 DEF Busy, Promised, CacheHangs
      <3> QED BY <2>1, <2>2, <2>3, <3>1 DEF Pursued, Offers
    <2> QED BY <1>6, <2>4, <2>5
  <1>9. CASE PageTaken(t)
    <2>1. fetch'[t] = Longer(f) /\ cache'[t] = cache[t] /\ f.read /\ MoreWanted(f)
      BY <1>1, <1>9 DEF PageTaken
    <2>2. /\ Longer(f).items = items /\ Longer(f).pages = n /\ ~Longer(f).read
          /\ Longer(f).wanted = f.wanted
      BY DEF Longer
    <2>3. Connected(Mine(t), Ids(items))
      BY <1>3, <2>1 DEF FetchHangs, Hangs
    <2> HIDE DEF n, items
    <2>4. CacheHangs(t)' /\ FetchHangs(t)'
      BY <1>3, <1>5, <1>7, <2>1, <2>2, <2>3 DEF CacheHangs, FetchHangs, Hangs
    <2>5. f.wanted > 0
      BY <1>1, <2>1 DEF MoreWanted, Reading
    <2>6. Pursued(t)'
      BY <2>1, <2>2, <2>5 DEF Pursued, Busy
    <2> QED BY <1>6, <2>4, <2>6
  <1>10. CASE ListTaken(t)
    <2> DEFINE l == ReadList(f, cache[t])
    <2>1. fetch'[t] = NoFetch /\ cache'[t] = l /\ f.read
      BY <1>1, <1>10 DEF ListTaken
    <2>2. /\ l.items = items /\ l.pages = n /\ l.more = f.more /\ l.own = cache[t].own
          /\ l.early = cache[t].early
      BY DEF ReadList
    <2>3. Hangs(t, items, f.more)
      BY <1>3, <2>1 DEF FetchHangs
    <2> HIDE DEF l, n, items
    <2>4. CacheHangs(t)' /\ FetchHangs(t)'
      BY <1>3, <1>5, <1>7, <2>1, <2>2, <2>3 DEF CacheHangs, FetchHangs, Hangs
    <2>5. Pursued(t)'
      <3>1. Promised(t)' = Promised(t)
        BY <2>1, <2>2 DEF Promised
      <3>2. CASE n > 1
        BY <1>5, <2>1, <2>2, <3>2 DEF Pursued
      <3>3. CASE f.items = {} /\ f.pages = 0
        <4>1. items = f.page
          BY <3>3 DEF items
        <4>2. ~LeavesCells => \A i \in Promised(t) : Offers(f.page, f.more, i)
          BY <1>3, <2>1, <3>3 DEF Pursued
        <4>3. \A i : Offers(items, f.more, i) => Lists(t, i)'
          BY <2>1, <2>2 DEF Offers, Lists, Ids
        <4> QED BY <1>5, <2>1, <3>1, <4>1, <4>2, <4>3 DEF Pursued
      <3> QED BY <1>7, <3>2, <3>3
    <2> QED BY <1>6, <2>4, <2>5
  <1>11. CASE FetchFails(t)
    <2> DEFINE list == [cache[t] EXCEPT !.err = TRUE]
    <2>1. fetch'[t] = NoFetch /\ cache'[t] = list
      BY <1>1, <1>11 DEF FetchFails
    <2>2. /\ list.items = cache[t].items /\ list.own = cache[t].own /\ list.more = cache[t].more
          /\ list.pages = cache[t].pages /\ list.err
      BY <1>1 DEF List
    <2> HIDE DEF list
    <2>3. CacheHangs(t)' /\ FetchHangs(t)' /\ Pursued(t)'
      BY <1>3, <1>5, <2>1, <2>2 DEF CacheHangs, FetchHangs, Pursued
    <2> QED BY <1>6, <2>3
  <1>12. CASE MorePages(t)
    <2>1. fetch'[t] = NextFetch(t) /\ cache' = cache /\ cache[t].more
      BY <1>1, <1>12 DEF MorePages
    <2>2. /\ NextFetch(t).items = cache[t].items /\ NextFetch(t).pages = cache[t].pages
          /\ NextFetch(t).wanted = cache[t].pages + 1 /\ ~NextFetch(t).read
      BY DEF NextFetch
    <2>3. cache[t].pages \in Nat /\ cache[t].pages > 0
      BY <1>1, <1>3, <2>1 DEF List, CacheHangs
    <2>4. CacheHangs(t)'
      BY <1>3, <1>5, <2>1 DEF CacheHangs
    <2>5. FetchHangs(t)'
      BY <1>3, <1>5, <2>1, <2>2, <2>3 DEF CacheHangs, FetchHangs
    <2>6. Pursued(t)'
      BY <2>1, <2>2, <2>3 DEF Pursued, Busy
    <2> QED BY <1>6, <2>4, <2>5, <2>6
  <1> QED BY <1>8, <1>9, <1>10, <1>11, <1>12

(* An answer has the list of what was posted read again.                       *)
LEMMA AnsweredLists ==
    ASSUME CommentConstants, IInv, LInv, NEW r \in requests, Succeeds(r) \/ Fails(r)
    PROVE  LInv'
  <1>1. /\ UNCHANGED comments /\ requests' = requests \ {r} /\ r \in Write /\ r.mine
        /\ TabTypes /\ ShownExists
        /\ Project \in Targets /\ Commented \subseteq Targets /\ Project \notin Commented
    BY DEF Succeeds, Fails, served, IInv, RequestTypes, Targets, CommentConstants
  <1>2. Placed(r)
    BY DEF LInv, PostsArePlaced
  <1>3. CASE Fails(r)
    <2>1. UNCHANGED <<cache, fetch, panel>>
      BY <1>3 DEF Fails, tab
    <2>2. ListsHang'
      BY <1>1, <2>1, CalmLists DEF LInv
    <2>3. PostsArePlaced'
      BY <1>1, <2>1, PlacedStays DEF LInv
    <2> QED BY <2>2, <2>3 DEF LInv
  <1>4. CASE Succeeds(r)
    <2>1. cache' = Remember(r) /\ fetch' = Reread(r) /\ panel' = ClearPanelText(r) /\ r.stage = "done"
      BY <1>4 DEF Succeeds
    <2>2. panel'.cell = panel.cell
      BY <1>1, <2>1 DEF ClearPanelText, TabTypes, Panel
    <2>3. PostsArePlaced'
      BY <1>1, <2>2, PlacedStays DEF LInv
    <2>4. ASSUME NEW t \in Targets
          PROVE  /\ cache'[t].items = cache[t].items /\ cache'[t].more = cache[t].more
                 /\ cache'[t].pages = cache[t].pages /\ cache'[t].err = cache[t].err
                 /\ cache'[t].own = IF Adds(r, t) THEN cache[t].own \cup {r.id} ELSE cache[t].own
                 /\ cache'[t].early = IF Adds(r, t) /\ FirstRead(t) THEN cache[t].early \cup {r.id}
                                      ELSE cache[t].early
      BY <2>1 DEF Remember
    <2>5. ASSUME NEW t \in Targets
          PROVE  /\ fetch'[t] \in {fetch[t], Refetched(t)}
                 /\ Adds(r, t) /\ ~LeavesCells => fetch'[t] = Restarted(t)
      <3>1. fetch'[t] = IF t \in Invalidated(r) /\ OnDisplay(t) THEN Restarted(t) ELSE fetch[t]
        BY <2>1 DEF Reread
      <3>2. ASSUME Adds(r, t), ~LeavesCells PROVE t \in Invalidated(r) /\ OnDisplay(t)
        <4>1. CASE t = Project
          BY <3>2, <4>1 DEF Adds, Invalidated, OnDisplay
        <4>2. CASE t # Project
          <5>1. r.target = t /\ r.kind = "create" /\ r.at = None /\ panel.cell = t
            BY <1>1, <1>2, <3>2, <4>2 DEF Adds, Placed, Targets
          <5> QED BY <4>2, <5>1 DEF Invalidated, InvalidatedCell, OnDisplay
        <4> QED BY <4>1, <4>2
      <3> QED BY <3>1, <3>2 DEF Restarted
    <2>6. ListsHang'
      <3> SUFFICES ASSUME NEW t \in Targets PROVE CacheHangs(t)' /\ FetchHangs(t)' /\ Pursued(t)'
        BY DEF ListsHang
      <3>1. Mine(t)' = Mine(t) /\ CacheHangs(t) /\ FetchHangs(t) /\ Pursued(t)
        BY <1>1 DEF Mine, LInv, ListsHang
      <3>2. cache'[t].own \subseteq Mine(t)
        <4>1. Adds(r, t) => r.id \in Mine(t)
          BY <1>1, <1>2, <2>1 DEF Placed, Adds
        <4>2. cache[t].own \subseteq Mine(t)
          BY <3>1 DEF CacheHangs
        <4> QED BY <2>4, <4>1, <4>2
      <3>3. CacheHangs(t)'
        BY <2>4, <3>1, <3>2 DEF CacheHangs
      <3>4. /\ Refetched(t).items = {} /\ Refetched(t).wanted > 0 /\ ~Refetched(t).read
            /\ Connected(Mine(t), Ids(Refetched(t).items))
        BY RefetchedStarts DEF IInv
      <3>5. FetchHangs(t)'
        BY <2>5, <3>1, <3>4 DEF FetchHangs, Hangs
      <3>6. Pursued(t)'
        <4>1. CASE fetch'[t] = Refetched(t)
          BY <3>4, <4>1 DEF Pursued, Busy
        <4>2. CASE fetch'[t] = fetch[t] /\ (LeavesCells \/ ~Adds(r, t) \/ FirstRead(t))
          <5>1. ~LeavesCells => Promised(t)' \subseteq Promised(t)
            BY <2>4, <4>2 DEF Promised
          <5> QED BY <2>4, <3>1, <4>2, <5>1 DEF Pursued, Busy, Lists
        <4> QED BY <2>5, <4>1, <4>2 DEF Restarted
      <3> QED BY <3>3, <3>5, <3>6
    <2> QED BY <2>3, <2>6 DEF LInv
  <1> QED BY <1>3, <1>4

LEMMA StepLists ==
    ASSUME CommentConstants, IInv, LInv, [CommentsNext]_commentVars
    PROVE  LInv'
  <1>1. CASE CommentsNext
    BY <1>1, TakeRowLists, CommitLists, AnsweredLists, FetchLists, PanelLists, SendLists
       DEF CommentsNext
  <1>2. CASE UNCHANGED commentVars
    <2>1. UNCHANGED <<comments, cache, fetch, requests, panel>>
      BY <1>2 DEF commentVars, served, tab
    <2> QED BY <2>1, CalmLists, PlacedStays DEF LInv
  <1> QED BY <1>1, <1>2

THEOREM ListsInvariance == ASSUME CommentConstants PROVE CommentsSpec => [](IInv /\ LInv)
  <1>1. CommentsInit => IInv /\ LInv
    BY InitIInv, InitLists
  <1>2. IInv /\ LInv /\ [CommentsNext]_commentVars => (IInv /\ LInv)'
    BY StepIInv, StepLists
  <1> QED BY <1>1, <1>2, PTL DEF CommentsSpec

(* No comment is missing between those of a list, however many are posted and  *)
(* however its readings are dropped, failed, started again or extended.        *)
THEOREM ListsHaveNoGaps == ASSUME CommentConstants PROVE CommentsSpec => []NoCommentIsSkipped
  <1>1. LInv => NoCommentIsSkipped
    <2> SUFFICES ASSUME LInv, NEW t \in Targets
                 PROVE  /\ Ids(cache[t].items) \subseteq Mine(t)
                        /\ \A i \in Mine(t) : (\E j \in Ids(cache[t].items) : i < j) =>
                               \/ i \in Ids(cache[t].items)
                               \/ /\ cache[t].more
                                  /\ \A j \in Ids(cache[t].items) : i < j
      BY DEF NoCommentIsSkipped, Ids, Mine
    <2>1. CacheHangs(t)
      BY DEF LInv, ListsHang
    <2> QED BY <2>1 DEF CacheHangs, Connected, Complete
  <1> QED BY <1>1, ListsInvariance, PTL

(* What the comments promise, as long as the user does not select another cell *)
(* while a post is on its way: the trail is true, lists have no gaps, and a    *)
(* list that nobody extended shows the comments its user has posted after its  *)
(* first reading.                                                              *)
THEOREM CommentsAreToldWell ==
    ASSUME CommentConstants, ~LeavesCells PROVE CommentsSpec => []CommentsAreTold
  <1>1. IInv /\ LInv => OwnCommentsAreListed
    <2> SUFFICES ASSUME IInv, LInv, NEW t \in Targets, Settled(t), cache[t].pages < 2,
                        NEW i \in Promised(t)
                 PROVE  Lists(t, i)
      BY DEF OwnCommentsAreListed
    <2>1. cache[t].pages \in Nat
      BY DEF IInv, TabTypes, List
    <2> QED BY <2>1 DEF LInv, ListsHang, Pursued, Settled
  <1> QED BY <1>1, TrailsAreTrue, ListsHaveNoGaps, ListsInvariance, PTL DEF CommentsAreTold

-----------------------------------------------------------------------------
(* The history: what the panel shows of it follows the changes of its own tab, *)
(* and what it waits for comes, for any layers, filters, batches and pages.    *)
(* The types of what the details depend on; the lists do not matter to them.   *)
HistoryView == [on : BOOLEAN, mode : {"timeline", "cell"}, layer : Layers \cup {NoLayer},
                filter : Filters, draft : Filters \cup {NoFilter}, form : BOOLEAN,
                cell : {Cell, NoCell}, open : Batches \cup {0},
                details : [Batches -> [n : Nat, at : Nat]]]
DetailPage == [at : Nat, sent : BOOLEAN, read : Nat]
DetailWait == [batch : Batches, page : Pages, status : {"loading", "ready", "error"}] \cup {NoWait}
DetailTypes ==
    /\ log \in Nat /\ own \in Nat /\ told \in Nat
    /\ pages \in [Batches -> [Pages -> DetailPage]] /\ view \in HistoryView /\ wait \in DetailWait

(* The tab is told of what is in the log, and every page that has been read,   *)
(* on its way or in the cache, was read after the latest change it was told of.*)
ToldIsLogged == told <= log /\ own <= log
PagesFollowOwnChanges ==
    \A b \in Batches, i \in Pages :
        /\ pages[b][i].read # 0 => pages[b][i].read >= told
        /\ pages[b][i].at # 0 => pages[b][i].at >= told
HInv == /\ DetailTypes /\ ToldIsLogged /\ PagesFollowOwnChanges
        /\ DetailsFollowOwnChanges /\ LoadingIsPursued

(* What a change of the view leaves of it.                                     *)
SameDetails(v) == v \in HistoryView /\ v.details = view.details
NoneKept(v) == v \in HistoryView /\ v.details = NoDetails

-----------------------------------------------------------------------------
LEMMA EmptyDetails ==
    /\ NoDetails \in [Batches -> [n : Nat, at : Nat]]
    /\ \A b \in Batches : NoDetails[b].n = 0
  BY DEF NoDetails

LEMMA EmptyPages ==
    /\ NoPages \in [Batches -> [Pages -> DetailPage]]
    /\ \A b \in Batches, i \in Pages : NoPages[b][i].at = 0 /\ NoPages[b][i].read = 0
  BY DEF NoPages, NewPage, DetailPage

(* The initial state.                                                          *)
LEMMA InitHInv == ASSUME HistoryConstants, HistoryInit PROVE HInv
  <1>1. Default \in Filters
    BY DEF HistoryConstants, Default
  <1>2. CreateState \in HistoryView
    BY <1>1, EmptyDetails DEF CreateState, HistoryView
  <1>3. DetailTypes
    BY <1>2, EmptyPages DEF HistoryInit, HistoryConstants, DetailTypes, DetailWait
  <1>4. ToldIsLogged /\ PagesFollowOwnChanges
    BY EmptyPages DEF HistoryInit, HistoryConstants, ToldIsLogged, PagesFollowOwnChanges
  <1>5. DetailsFollowOwnChanges
    BY EmptyDetails DEF HistoryInit, CreateState, DetailsFollowOwnChanges
  <1>6. LoadingIsPursued
    BY DEF HistoryInit, NoWait, LoadingIsPursued
  <1> QED BY <1>3, <1>4, <1>5, <1>6 DEF HInv

(* A step of the log or of the lists does not touch the details.               *)
LEMMA ListsKeep ==
    ASSUME HInv, log' \in Nat, own' \in Nat, log' >= log, own' <= log',
           UNCHANGED <<told, pages, view, wait>>
    PROVE  HInv'
  <1>1. DetailTypes' /\ ToldIsLogged'
    BY DEF HInv, DetailTypes, ToldIsLogged
  <1>2. PagesFollowOwnChanges' /\ DetailsFollowOwnChanges'
    BY DEF HInv, PagesFollowOwnChanges, DetailsFollowOwnChanges
  <1>3. LoadingIsPursued'
    BY DEF HInv, LoadingIsPursued, Authority
  <1> QED BY <1>1, <1>2, <1>3 DEF HInv

(* A change of what is shown moves the token on: nobody waits any more, and    *)
(* the details are those of before or none.                                    *)
LEMMA ShowKeeps ==
    ASSUME HInv, UNCHANGED <<log, own, told, pages>>, view' \in HistoryView,
           SameDetails(view') \/ NoneKept(view'),
           wait' \in DetailWait, wait'.status # "loading"
    PROVE  HInv'
  <1>1. DetailTypes' /\ ToldIsLogged'
    BY DEF HInv, DetailTypes, ToldIsLogged
  <1>2. PagesFollowOwnChanges'
    BY DEF HInv, PagesFollowOwnChanges
  <1>3. DetailsFollowOwnChanges'
    BY EmptyDetails DEF HInv, DetailsFollowOwnChanges, SameDetails, NoneKept
  <1>4. LoadingIsPursued'
    BY DEF LoadingIsPursued
  <1> QED BY <1>1, <1>2, <1>3, <1>4 DEF HInv

(* A change of the draft, the form or the remembered cell leaves the details   *)
(* and the wait for them.                                                      *)
LEMMA DraftKeeps ==
    ASSUME HInv, UNCHANGED <<log, own, told, pages, wait>>, SameDetails(view'),
           view'.on = view.on, view'.mode = view.mode, view'.open = view.open
    PROVE  HInv'
  <1>1. DetailTypes' /\ ToldIsLogged'
    BY DEF HInv, DetailTypes, ToldIsLogged, SameDetails
  <1>2. PagesFollowOwnChanges' /\ DetailsFollowOwnChanges'
    BY DEF HInv, PagesFollowOwnChanges, DetailsFollowOwnChanges, SameDetails
  <1>3. LoadingIsPursued'
    BY DEF HInv, LoadingIsPursued, Authority, SameDetails
  <1> QED BY <1>1, <1>2, <1>3 DEF HInv
-----------------------------------------------------------------------------
(* The reducer                                                                 *)

LEMMA Reducer ==
    ASSUME HistoryConstants, NEW v \in HistoryView
    PROVE  /\ \A l \in Layers \cup {NoLayer}, f \in Filters :
                 ReplaceFilters(v, l, f) \in HistoryView /\ ReplaceFilters(v, l, f).details = NoDetails
           /\ \A b \in Batches : ToggleBatch(v, b) \in HistoryView /\ ToggleBatch(v, b).details = v.details
           /\ \A c \in {Cell, NoCell} :
                 RememberCell(v, c) \in HistoryView /\ RememberCell(v, c).details = v.details
           /\ InvalidateDetails(v) \in HistoryView /\ InvalidateDetails(v).details = NoDetails
  <1>1. \A l \in Layers \cup {NoLayer}, f \in Filters :
            ReplaceFilters(v, l, f) \in HistoryView /\ ReplaceFilters(v, l, f).details = NoDetails
    BY EmptyDetails DEF HistoryView, ReplaceFilters
  <1>2. \A b \in Batches : ToggleBatch(v, b) \in HistoryView /\ ToggleBatch(v, b).details = v.details
    BY DEF HistoryView, ToggleBatch
  <1>3. \A c \in {Cell, NoCell} :
            RememberCell(v, c) \in HistoryView /\ RememberCell(v, c).details = v.details
    BY DEF HistoryView, RememberCell
  <1>4. InvalidateDetails(v) \in HistoryView /\ InvalidateDetails(v).details = NoDetails
    BY EmptyDetails DEF HistoryView, InvalidateDetails
  <1> QED BY <1>1, <1>2, <1>3, <1>4

LEMMA NoWaitType == NoWait \in DetailWait /\ NoWait.status # "loading"
  BY DEF DetailWait, NoWait

(* Steps that show something else.                                             *)
LEMMA ShowStep ==
    ASSUME HInv, NEW v, Show(v), SameDetails(v) \/ NoneKept(v)
    PROVE  HInv'
  <1>1. view' = v /\ wait' = NoWait /\ UNCHANGED <<log, own, told, pages>>
    BY DEF Show
  <1>2. view' \in HistoryView
    BY <1>1 DEF SameDetails, NoneKept
  <1> QED BY <1>1, <1>2, NoWaitType, ShowKeeps DEF SameDetails, NoneKept

LEMMA HistoryPanelStep ==
    ASSUME HistoryConstants, HInv,
           \/ \E on \in BOOLEAN : SetOpen(on)
           \/ \E layer \in Layers : SetLayer(layer)
           \/ \E mode \in {"timeline", "cell"} : SetMode(mode)
           \/ \E c \in {Cell, NoCell} : SelectCell(c)
           \/ \E f \in Filters \cup {NoFilter} : EditDraft(f)
           \/ ToggleForm \/ ApplyFilters \/ ResetFilters
    PROVE  HInv'
  <1>0. view \in HistoryView
    BY DEF HInv, DetailTypes
  <1>1. ASSUME NEW on \in BOOLEAN, SetOpen(on) PROVE HInv'
    <2> DEFINE v == IF on THEN [view EXCEPT !.on = TRUE]
                    ELSE [view EXCEPT !.on = FALSE, !.open = 0, !.form = FALSE, !.draft = view.filter]
    <2>1. Show(v)
      BY <1>1 DEF SetOpen
    <2>2. SameDetails(v)
      BY <1>0 DEF HistoryView, SameDetails
    <2> HIDE DEF v
    <2> QED BY <2>1, <2>2, ShowStep
  <1>2. ASSUME NEW layer \in Layers, SetLayer(layer) PROVE HInv'
    <2> DEFINE r == ReplaceFilters(view, layer, view.filter)
    <2>1. r \in HistoryView /\ r.details = NoDetails
      BY <1>0, Reducer DEF HistoryView
    <2>2. NoneKept(ReplaceLayerScope(view, layer))
      <3> HIDE DEF r
      <3>1. ReplaceLayerScope(view, layer) = [r EXCEPT !.mode = "timeline", !.cell = NoCell]
        BY DEF ReplaceLayerScope, r
      <3> QED BY <2>1, <3>1 DEF NoneKept, HistoryView
    <2> QED BY <1>2, <2>2, ShowStep DEF SetLayer
  <1>3. ASSUME NEW mode \in {"timeline", "cell"}, SetMode(mode) PROVE HInv'
    <2> DEFINE v == [view EXCEPT !.mode = mode, !.open = IF mode = "cell" THEN 0 ELSE @]
    <2>1. Show(v)
      BY <1>3 DEF SetMode
    <2>2. SameDetails(v)
      BY <1>0 DEF HistoryView, SameDetails
    <2> HIDE DEF v
    <2> QED BY <2>1, <2>2, ShowStep
  <1>4. ASSUME NEW c \in {Cell, NoCell}, SelectCell(c) PROVE HInv'
    <2> DEFINE v == RememberCell(view, c)
    <2>1. SameDetails(v)
      BY <1>0, Reducer DEF SameDetails
    <2>2. CASE view.mode = "timeline" /\ c # NoCell
      <3>1. v.on = view.on /\ v.mode = view.mode /\ v.open = view.open
        BY <2>2, <1>0 DEF RememberCell, HistoryView
      <3>2. view' = v /\ UNCHANGED <<log, own, told, pages, wait>>
        BY <1>4, <2>2 DEF SelectCell
      <3> QED BY <2>1, <3>1, <3>2, DraftKeeps
    <2>3. CASE ~(view.mode = "timeline" /\ c # NoCell)
      <3>1. Show(v)
        BY <1>4, <2>3 DEF SelectCell
      <3> HIDE DEF v
      <3> QED BY <2>1, <3>1, ShowStep
    <2> QED BY <2>2, <2>3
  <1>5. ASSUME NEW f \in Filters \cup {NoFilter}, EditDraft(f) PROVE HInv'
    <2>1. /\ view' = [view EXCEPT !.draft = f] /\ UNCHANGED <<log, own, told, pages, wait>>
      BY <1>5 DEF EditDraft
    <2>2. SameDetails(view') /\ view'.on = view.on /\ view'.mode = view.mode /\ view'.open = view.open
      BY <1>0, <2>1 DEF HistoryView, SameDetails
    <2> QED BY <2>1, <2>2, DraftKeeps
  <1>6. ASSUME ToggleForm PROVE HInv'
    <2>1. /\ view' = [view EXCEPT !.form = ~@] /\ UNCHANGED <<log, own, told, pages, wait>>
      BY <1>6 DEF ToggleForm
    <2>2. SameDetails(view') /\ view'.on = view.on /\ view'.mode = view.mode /\ view'.open = view.open
      BY <1>0, <2>1 DEF HistoryView, SameDetails
    <2> QED BY <2>1, <2>2, DraftKeeps
  <1>7. ASSUME ApplyFilters PROVE HInv'
    <2>1. view.layer \in Layers \cup {NoLayer} /\ view.draft \in Filters
      BY <1>0, <1>7 DEF ApplyFilters, ValidDraft, HistoryView
    <2> QED BY <1>0, <1>7, <2>1, Reducer, ShowStep DEF ApplyFilters, NoneKept
  <1>8. ASSUME ResetFilters PROVE HInv'
    <2> DEFINE r == ReplaceFilters(view, view.layer, Default)
    <2>1. Default \in Filters
      BY DEF HistoryConstants, Default
    <2>2. r \in HistoryView /\ r.details = NoDetails
      <3>1. view.layer \in Layers \cup {NoLayer}
        BY <1>0 DEF HistoryView
      <3> QED BY <1>0, <2>1, <3>1, Reducer
    <2> HIDE DEF r
    <2>3. NoneKept([r EXCEPT !.draft = Default])
      BY <2>1, <2>2 DEF NoneKept, HistoryView
    <2>4. Show([r EXCEPT !.draft = Default])
      BY <1>8 DEF ResetFilters, r
    <2> QED BY <2>3, <2>4, ShowStep
  <1> QED BY <1>1, <1>2, <1>3, <1>4, <1>5, <1>6, <1>7, <1>8

(* Steps of the lists and of the server.                                       *)
LEMMA ListStep ==
    ASSUME HInv,
           \/ \E k \in Keys : ListRead(k) \/ ListArrives(k) \/ ListFails(k) \/ LoadMore(k) \/ RetryList(k)
           \/ OtherCommits \/ OwnCommits
    PROVE  HInv'
  <1>1. ASSUME NEW k \in Keys,
               ListRead(k) \/ ListArrives(k) \/ ListFails(k) \/ LoadMore(k) \/ RetryList(k)
        PROVE  UNCHANGED <<log, own, told, pages, view, wait>>
    BY <1>1 DEF ListRead, ListArrives, ListFails, LoadMore, RetryList
  <1>2. ASSUME OtherCommits \/ OwnCommits
        PROVE  /\ log' = log + 1 /\ own' \in {own, log'}
               /\ UNCHANGED <<told, pages, view, wait>>
    BY <1>2 DEF OtherCommits, OwnCommits
  <1>3. log \in Nat /\ own \in Nat /\ own <= log
    BY DEF HInv, DetailTypes, ToldIsLogged
  <1> QED BY <1>1, <1>2, <1>3, ListsKeep

-----------------------------------------------------------------------------
(* The details                                                                 *)

(* A request is waited for under its own token, or joins the one under way.    *)
LEMMA RequestStep ==
    ASSUME HInv, NEW v, SameDetails(v), NEW b \in Batches, NEW i \in Pages,
           Authority(v, b), i = v.details[b].n + 1, RequestDetail(v, b, i),
           wait.status = "loading" /\ wait.batch = b => v = view,
           UNCHANGED <<log, own, told>>
    PROVE  HInv'
  <1>1. view' = v /\ view' \in HistoryView /\ view'.details = view.details
    BY DEF RequestDetail, SameDetails
  <1>2. CASE wait.batch = b /\ wait.status = "loading"
    <2>1. UNCHANGED <<view, wait, pages>>
      BY <1>2 DEF RequestDetail
    <2> QED BY <1>1, <2>1, DraftKeeps DEF SameDetails
  <1>3. CASE ~(wait.batch = b /\ wait.status = "loading")
    <2>1. /\ wait' = [batch |-> b, page |-> i, status |-> "loading"]
          /\ pages' = IF pages[b][i].at # 0 \/ pages[b][i].sent THEN pages
                      ELSE [pages EXCEPT ![b][i].sent = TRUE]
      BY <1>3 DEF RequestDetail
    <2>2. pages \in [Batches -> [Pages -> DetailPage]]
      BY DEF HInv, DetailTypes
    <2>3. /\ pages' \in [Batches -> [Pages -> DetailPage]]
          /\ pages'[b][i].at # 0 \/ pages'[b][i].sent
          /\ \A c \in Batches, j \in Pages :
                pages'[c][j].at = pages[c][j].at /\ pages'[c][j].read = pages[c][j].read
      <3>1. CASE pages[b][i].at # 0 \/ pages[b][i].sent
        BY <2>1, <2>2, <3>1 DEF DetailPage
      <3>2. CASE ~(pages[b][i].at # 0 \/ pages[b][i].sent)
        <4>1. pages' = [pages EXCEPT ![b][i].sent = TRUE]
          BY <2>1, <3>2
        <4>2. pages' \in [Batches -> [Pages -> DetailPage]] /\ pages'[b][i].sent
          <5>1. pages[b] \in [Pages -> DetailPage] /\ pages[b][i] \in DetailPage
            BY <2>2
          <5>2. [pages[b][i] EXCEPT !.sent = TRUE] \in DetailPage /\ [pages[b][i] EXCEPT !.sent = TRUE].sent
            BY <5>1 DEF DetailPage
          <5>3. pages' = [pages EXCEPT ![b] = [pages[b] EXCEPT ![i] = [pages[b][i] EXCEPT !.sent = TRUE]]]
            BY <4>1
          <5> QED BY <2>2, <5>1, <5>2, <5>3
        <4>3. \A c \in Batches, j \in Pages :
                pages'[c][j].at = pages[c][j].at /\ pages'[c][j].read = pages[c][j].read
          BY <2>2, <4>1 DEF DetailPage
        <4> QED BY <4>2, <4>3
      <3> QED BY <3>1, <3>2
    <2>4. DetailTypes' /\ ToldIsLogged'
      BY <1>1, <2>1, <2>3 DEF HInv, DetailTypes, ToldIsLogged, DetailWait
    <2>5. PagesFollowOwnChanges'
      BY <2>3 DEF HInv, PagesFollowOwnChanges
    <2>6. DetailsFollowOwnChanges'
      BY <1>1 DEF HInv, DetailsFollowOwnChanges
    <2>7. LoadingIsPursued'
      BY <1>1, <2>1, <2>3 DEF LoadingIsPursued, Authority
    <2> QED BY <2>4, <2>5, <2>6, <2>7 DEF HInv
  <1> QED BY <1>2, <1>3

(* What a page that is read, arrives or fails leaves of the wait.              *)
LEMMA PageStep ==
    ASSUME HInv, NEW b \in Batches, NEW i \in Pages,
           PageRead(b, i) \/ PageArrives(b, i) \/ PageFails(b, i)
    PROVE  HInv'
  <1>0. /\ pages \in [Batches -> [Pages -> DetailPage]] /\ wait \in DetailWait
        /\ log \in Nat /\ told \in Nat /\ told <= log
    BY DEF HInv, DetailTypes, ToldIsLogged
  <1>1. UNCHANGED <<log, own, told, view>>
    BY DEF PageRead, PageArrives, PageFails
  <1>2. DetailsFollowOwnChanges' /\ ToldIsLogged'
    BY <1>1 DEF HInv, DetailsFollowOwnChanges, ToldIsLogged
  <1>3. CASE PageRead(b, i)
    <2>1. pages' = [pages EXCEPT ![b][i].read = log] /\ wait' = wait
      BY <1>3 DEF PageRead
    <2>2. /\ pages' \in [Batches -> [Pages -> DetailPage]]
          /\ pages'[b][i].read = log
          /\ \A c \in Batches, j \in Pages :
                /\ pages'[c][j].at = pages[c][j].at /\ pages'[c][j].sent = pages[c][j].sent
                /\ ~(c = b /\ j = i) => pages'[c][j] = pages[c][j]
      BY <1>0, <2>1 DEF DetailPage
    <2>3. PagesFollowOwnChanges'
      BY <1>0, <1>1, <2>2 DEF HInv, PagesFollowOwnChanges
    <2>4. LoadingIsPursued'
      BY <1>0, <1>1, <2>1, <2>2 DEF HInv, LoadingIsPursued, Authority, DetailWait, NoWait
    <2> QED BY <1>1, <1>2, <2>1, <2>2, <2>3, <2>4 DEF HInv, DetailTypes
  <1>4. CASE PageArrives(b, i)
    <2>1. /\ pages' = [pages EXCEPT ![b][i] = [NewPage EXCEPT !.at = pages[b][i].read]]
          /\ wait' = wait /\ pages[b][i].read # 0
      BY <1>4 DEF PageArrives
    <2>2. /\ pages' \in [Batches -> [Pages -> DetailPage]]
          /\ pages'[b][i].at = pages[b][i].read /\ pages'[b][i].read = 0
          /\ \A c \in Batches, j \in Pages :
                ~(c = b /\ j = i) => pages'[c][j] = pages[c][j]
      BY <1>0, <2>1 DEF DetailPage, NewPage
    <2>3. PagesFollowOwnChanges'
      BY <1>0, <1>1, <2>2 DEF HInv, PagesFollowOwnChanges
    <2>4. LoadingIsPursued'
      BY <1>0, <1>1, <2>1, <2>2 DEF HInv, LoadingIsPursued, Authority, DetailWait, NoWait
    <2> QED BY <1>1, <1>2, <2>1, <2>2, <2>3, <2>4 DEF HInv, DetailTypes
  <1>5. CASE PageFails(b, i)
    <2>1. /\ pages' = [pages EXCEPT ![b][i] = NewPage]
          /\ wait' = IF wait.batch = b /\ wait.page = i /\ wait.status = "loading" /\ Authority(view, b)
                     THEN [wait EXCEPT !.status = "error"] ELSE wait
      BY <1>5 DEF PageFails
    <2>2. /\ pages' \in [Batches -> [Pages -> DetailPage]]
          /\ pages'[b][i].at = 0 /\ pages'[b][i].read = 0
          /\ \A c \in Batches, j \in Pages :
                ~(c = b /\ j = i) => pages'[c][j] = pages[c][j]
      BY <1>0, <2>1 DEF DetailPage, NewPage
    <2>3. PagesFollowOwnChanges'
      BY <1>0, <1>1, <2>2 DEF HInv, PagesFollowOwnChanges
    <2>4. wait' \in DetailWait
      BY <1>0, <2>1 DEF DetailWait, NoWait
    <2>5. LoadingIsPursued'
      <3>1. CASE wait.batch = b /\ wait.page = i /\ wait.status = "loading"
        <4>1. Authority(view, b)
          BY <3>1 DEF HInv, LoadingIsPursued
        <4>2. wait'.status = "error"
          BY <1>0, <2>1, <3>1, <4>1 DEF DetailWait, NoWait
        <4> QED BY <4>2 DEF LoadingIsPursued
      <3>2. CASE ~(wait.batch = b /\ wait.page = i /\ wait.status = "loading")
        <4>1. wait' = wait
          BY <2>1, <3>2
        <4> QED BY <1>0, <1>1, <2>2, <3>2, <4>1 DEF HInv, LoadingIsPursued, Authority, DetailWait, NoWait
      <3> QED BY <3>1, <3>2
    <2> QED BY <1>1, <1>2, <2>2, <2>3, <2>4, <2>5 DEF HInv, DetailTypes
  <1> QED BY <1>3, <1>4, <1>5

(* A page that is published is as old as the oldest page of its batch.         *)
LEMMA PublishStep == ASSUME HistoryConstants, HInv, Publish PROVE HInv'
  <1> DEFINE b == wait.batch
             i == wait.page
             at == pages[b][i].at
             d == view.details[b]
  <1>0. /\ pages \in [Batches -> [Pages -> DetailPage]] /\ view \in HistoryView /\ wait \in DetailWait /\ told \in Nat
        /\ wait.status = "loading" /\ at # 0 /\ UNCHANGED <<log, own, told, pages>>
    BY DEF HInv, DetailTypes, Publish
  <1>1. b \in Batches /\ i \in Pages /\ i \in Nat /\ i # 0 /\ at \in Nat /\ at >= told
    <2>1. b \in Batches /\ i \in Pages
      BY <1>0 DEF DetailWait, NoWait
    <2>2. i \in Nat /\ i # 0
      BY <2>1 DEF HistoryConstants, Pages
    <2> QED BY <1>0, <2>1, <2>2 DEF HInv, PagesFollowOwnChanges, DetailPage
  <1>2. d \in [n : Nat, at : Nat] /\ (d.n # 0 => d.at >= told)
    BY <1>0, <1>1 DEF HistoryView, HInv, DetailsFollowOwnChanges
  <1>3. CASE Authority(view, b) /\ (i > 1 => d.n = i - 1)
    <2> DEFINE since == IF i > 1 /\ d.at < at THEN d.at ELSE at
    <2>1. wait' = [wait EXCEPT !.status = "ready"] /\ view' = StoreDetail(view, b, i, since)
      BY <1>3 DEF Publish
    <2>2. since \in Nat /\ since >= told
      BY <1>0, <1>1, <1>2, <1>3
    <2> HIDE DEF since, b, i, at, d
    <2>3. /\ view' \in HistoryView
          /\ \A c \in Batches : view'.details[c] = IF c = b THEN [n |-> i, at |-> since]
                                                  ELSE view.details[c]
      BY <1>0, <1>1, <2>1, <2>2 DEF StoreDetail, HistoryView
    <2>4. wait' \in DetailWait /\ wait'.status = "ready"
      BY <1>0, <2>1 DEF DetailWait, NoWait
    <2>5. DetailTypes' /\ ToldIsLogged' /\ PagesFollowOwnChanges'
      BY <1>0, <2>3, <2>4 DEF HInv, DetailTypes, ToldIsLogged, PagesFollowOwnChanges
    <2>6. DetailsFollowOwnChanges'
      BY <1>0, <1>1, <2>2, <2>3 DEF HInv, DetailsFollowOwnChanges
    <2>7. LoadingIsPursued'
      BY <2>4 DEF LoadingIsPursued
    <2> QED BY <2>5, <2>6, <2>7 DEF HInv
  <1>4. CASE ~(Authority(view, b) /\ (i > 1 => d.n = i - 1))
    <2>1. UNCHANGED <<view, wait>>
      BY <1>4 DEF Publish
    <2> QED BY <1>0, <2>1, DraftKeeps DEF SameDetails
  <1> QED BY <1>3, <1>4

(* The user opens, closes and reads on in the details of a batch.              *)
LEMMA BatchStep ==
    ASSUME HistoryConstants, HInv, NEW b \in Batches,
           BatchToggle(b) \/ RetryDetail(b) \/ LoadMoreDetail(b)
    PROVE  HInv'
  <1>0. view \in HistoryView /\ wait \in DetailWait /\ 1 \in Pages /\ b # 0
    BY DEF HInv, DetailTypes, HistoryConstants, Pages
  <1>1. UNCHANGED <<log, own, told, lists>>
    BY DEF BatchToggle, RetryDetail, LoadMoreDetail
  <1>2. CASE BatchToggle(b)
    <2> DEFINE v == ToggleBatch(view, b)
    <2>1. SameDetails(v)
      BY <1>0, Reducer DEF SameDetails
    <2>2. CASE view' = v /\ wait' = NoWait /\ UNCHANGED pages
      BY <1>1, <2>1, <2>2, NoWaitType, ShowKeeps DEF SameDetails
    <2>3. CASE view' = v /\ UNCHANGED pages /\ wait' = [batch |-> b, page |-> 1, status |-> "ready"]
      <3>1. wait' \in DetailWait /\ wait'.status # "loading"
        BY <1>0, <2>3 DEF DetailWait
      <3> QED BY <1>1, <2>1, <2>3, <3>1, ShowKeeps DEF SameDetails
    <2>4. CASE v.open = b /\ v.details[b].n = 0 /\ RequestDetail(v, b, 1)
      <3>1. v.on = view.on /\ v.mode = "timeline" /\ view.on /\ view.open # b
        <4>1. view.on
          BY <1>2 DEF BatchToggle, BatchOffered
        <4>2. view.open # b
          BY <1>0, <2>4 DEF ToggleBatch, HistoryView
        <4> QED BY <1>0, <4>1, <4>2 DEF ToggleBatch, HistoryView
      <3>2. ~(wait.status = "loading" /\ wait.batch = b)
        BY <3>1 DEF HInv, LoadingIsPursued, Authority
      <3>3. Authority(v, b) /\ 1 = v.details[b].n + 1
        BY <2>4, <3>1 DEF Authority
      <3> HIDE DEF v
      <3> QED BY <1>0, <1>1, <2>1, <2>4, <3>2, <3>3, RequestStep
    <2> QED BY <1>2, <2>2, <2>3, <2>4 DEF BatchToggle
  <1>3. CASE RetryDetail(b) \/ LoadMoreDetail(b)
    <2>1. SameDetails(view) /\ Authority(view, b)
      BY <1>0, <1>3 DEF SameDetails, RetryDetail, LoadMoreDetail
    <2>2. CASE RetryDetail(b)
      <3>1. view.details[b].n = 0 /\ RequestDetail(view, b, 1)
        BY <2>2 DEF RetryDetail, DetailState
      <3> QED BY <1>0, <1>1, <2>1, <3>1, RequestStep
    <2>3. CASE LoadMoreDetail(b)
      <3> DEFINE i == view.details[b].n + 1
      <3>1. RequestDetail(view, b, i) /\ view.details[b].n < DetailPages
        BY <2>3 DEF LoadMoreDetail, MoreDetailOffered
      <3>2. i \in Pages
        BY <1>0, <3>1 DEF HistoryConstants, HistoryView, Pages
      <3> QED BY <1>1, <2>1, <3>1, <3>2, RequestStep
    <2> QED BY <1>3, <2>2, <2>3
  <1> QED BY <1>2, <1>3

(* The answer of an own change leaves no details and no page.                  *)
LEMMA PersistedStep == ASSUME HistoryConstants, HInv, Persisted PROVE HInv'
  <1>1. /\ told' = own /\ own' = 0 /\ log' = log /\ pages' = NoPages /\ wait' = NoWait
        /\ view' = InvalidateDetails(view) /\ view \in HistoryView
    BY DEF Persisted, HInv, DetailTypes
  <1>2. view' \in HistoryView /\ view'.details = NoDetails
    BY <1>1, Reducer
  <1>3. DetailTypes' /\ ToldIsLogged'
    BY <1>1, <1>2, EmptyPages, NoWaitType DEF HInv, DetailTypes, ToldIsLogged
  <1>4. PagesFollowOwnChanges' /\ DetailsFollowOwnChanges'
    BY <1>1, <1>2, EmptyPages, EmptyDetails DEF PagesFollowOwnChanges, DetailsFollowOwnChanges
  <1>5. LoadingIsPursued'
    BY <1>1, NoWaitType DEF LoadingIsPursued
  <1> QED BY <1>3, <1>4, <1>5 DEF HInv

-----------------------------------------------------------------------------
LEMMA StepHInv == ASSUME HistoryConstants, HInv, [HistoryNext]_historyVars PROVE HInv'
  <1>1. CASE Answers
    BY <1>1, PersistedStep, PublishStep, ListStep, PageStep DEF Answers
  <1>2. CASE User
    <2>1. CASE \E k \in Keys : LoadMore(k) \/ RetryList(k) \/ ListFails(k)
      BY <2>1, ListStep
    <2>2. CASE \E b \in Batches : \/ BatchToggle(b) \/ RetryDetail(b) \/ LoadMoreDetail(b)
                                 \/ \E i \in Pages : PageFails(b, i)
      BY <2>2, BatchStep, PageStep
    <2> QED BY <1>2, <2>1, <2>2, HistoryPanelStep DEF User
  <1>3. CASE OtherCommits \/ OwnCommits
    BY <1>3, ListStep
  <1>4. CASE UNCHANGED historyVars
    BY <1>4, DraftKeeps DEF historyVars, HInv, DetailTypes, SameDetails
  <1> QED BY <1>1, <1>2, <1>3, <1>4 DEF HistoryNext

THEOREM HistoryInvariance == ASSUME HistoryConstants PROVE HistorySpec => []HInv
  <1>1. HistoryInit => HInv
    BY InitHInv
  <1>2. HInv /\ [HistoryNext]_historyVars => HInv'
    BY StepHInv
  <1> QED BY <1>1, <1>2, PTL DEF HistorySpec

(* Details on screen are never older than the latest own change the tab knows  *)
(* of, however the reads, the answers and the clicks interleave, and what is   *)
(* shown as loading is on its way or already there to be published.            *)
THEOREM DetailsAreCurrent == ASSUME HistoryConstants PROVE HistorySpec => []DetailsHold
  <1>1. HInv => DetailsHold
    BY DEF HInv, DetailsHold
  <1> QED BY <1>1, HistoryInvariance, PTL
-----------------------------------------------------------------------------
(* The grid.  What is selected in a layout is what was chosen in it, an editor *)
(* is on the cell that was chosen in the layout it was opened in, and a        *)
(* clipboard of the generation at hand was opened in the layout at hand.       *)
SelectionIsChosen == ResolveCellTarget(selection.layout, selection.at) \in {Nothing, chosen}
ClipIsOfItsGeneration ==
    clip # Nothing => clip.gen \in Nat /\ clip.gen <= gen /\ (clip.gen = gen => clip.layout = Layout)
ReviewIsOfWhatWasShown == pasted # Nothing => pasted.cell = pasted.shown /\ pasted.held
EditorIsOnItsCell == editor # Nothing => ResolveCellTarget(editor.layout, editor.at) = editor.meant
CoordinateInv == /\ gen \in Nat /\ SelectionIsChosen /\ ClipIsOfItsGeneration
                 /\ ReviewIsOfWhatWasShown /\ EditorIsOnItsCell

LEMMA NowhereIsNothing == ASSUME NEW l PROVE ResolveCellTarget(l, Nothing) = Nothing
  BY DEF ResolveCellTarget

(* A step that keeps the generation keeps the layout, and none goes back.      *)
LayoutHasAGeneration ==
    /\ gen' \in Nat /\ gen' >= gen
    /\ gen' = gen => Layout' = Layout
LEMMA StepGeneration == ASSUME gen \in Nat, GridNext PROVE LayoutHasAGeneration
  <1>1. CASE UNCHANGED layoutVars
    BY <1>1 DEF LayoutHasAGeneration, Layout, layoutVars
  <1>2. CASE gen' = gen + 1
    BY <1>2 DEF LayoutHasAGeneration
  <1>3. CASE UNCHANGED <<rows, category, gen>>
    BY <1>3 DEF LayoutHasAGeneration, Layout
  <1>4. CASE FinishEdit
    BY <1>3, <1>2, <1>4 DEF FinishEdit, HandleCellEdited
  <1>5. CASE ActivateWorkbenchCoordinate
    BY <1>1, <1>2, <1>5 DEF ActivateWorkbenchCoordinate, Relayout
  <1>6. CASE RowsArrive \/ RightChanges \/ SelectCategory \/ EndReview \/ ResourceDerived \/ Saved
    BY <1>2, <1>6 DEF RowsArrive, RightChanges, SelectCategory, EndReview, ResourceDerived, Saved,
                      Relayout
  <1>7. CASE HandlePaste
    BY <1>2, <1>3, <1>7 DEF HandlePaste
  <1>8. CASE \/ OpenEditor \/ CancelEdit \/ GridSelectionChange \/ JumpLands \/ PasteStarts
             \/ CellContextMenu \/ CloseMenu \/ SetChanges
    BY <1>1, <1>8 DEF OpenEditor, CancelEdit, GridSelectionChange, JumpLands, PasteStarts,
                      CellContextMenu, CloseMenu, SetChanges
  <1> QED BY <1>4, <1>5, <1>6, <1>7, <1>8 DEF GridNext

LEMMA StepSelection == ASSUME SelectionIsChosen, GridNext PROVE SelectionIsChosen'
  <1>1. CASE UNCHANGED <<selection, chosen>>
    BY <1>1 DEF SelectionIsChosen, ResolveCellTarget
  <1>2. ASSUME NEW r, NEW c, Relayout(r, c), chosen' = chosen PROVE SelectionIsChosen'
    <2>1. selection' = selection \/ selection'.at = Nothing
      BY <1>2 DEF Relayout, AdoptLayout, Adopted
    <2>2. CASE selection' = selection
      BY <1>1, <1>2, <2>2
    <2>3. CASE selection'.at = Nothing
      BY <2>3, NowhereIsNothing DEF SelectionIsChosen, ResolveCellTarget
    <2> QED BY <2>1, <2>2, <2>3
  <1>3. ASSUME NEW at, selection' = [layout |-> Layout, at |-> at],
               chosen' = ResolveCellTarget(Layout, at)
        PROVE  SelectionIsChosen'
    <2>1. selection'.layout = Layout /\ selection'.at = at
      BY <1>3
    <2> QED BY <1>3, <2>1 DEF SelectionIsChosen, ResolveCellTarget
  <1>4. ASSUME NEW cell, ScrollToCell(cell) PROVE SelectionIsChosen'
    <2>1. CASE UNCHANGED <<selection, chosen>>
      BY <1>1, <2>1
    <2>2. ASSUME NEW at \in CellScrollTarget(cell), selection' = [layout |-> Layout, at |-> at],
                 chosen' = cell
          PROVE  SelectionIsChosen'
      BY <1>3, <2>2 DEF CellScrollTarget
    <2> QED BY <1>4, <2>1, <2>2 DEF ScrollToCell
  <1>5. CASE ActivateWorkbenchCoordinate
    <2>1. PICK cell \in Cells :
            \/ UNCHANGED <<selection, chosen>>
            \/ ScrollToCell(cell)
            \/ Relayout(rows, Category[cell[2]]) /\ chosen' = chosen
      BY <1>5 DEF ActivateWorkbenchCoordinate
    <2> QED BY <1>1, <1>2, <1>4, <2>1
  <1>6. CASE JumpLands
    BY <1>1, <1>4, <1>6 DEF JumpLands
  <1>7. CASE GridSelectionChange
    BY <1>3, <1>7 DEF GridSelectionChange
  <1>8. CASE RowsArrive
    BY <1>2, <1>8 DEF RowsArrive
  <1>9. CASE SelectCategory
    BY <1>2, <1>9 DEF SelectCategory
  <1>10. CASE \/ OpenEditor \/ FinishEdit \/ CancelEdit \/ RightChanges \/ PasteStarts \/ HandlePaste
              \/ EndReview \/ CellContextMenu \/ CloseMenu \/ SetChanges
              \/ ResourceDerived \/ Saved
    BY <1>1, <1>10 DEF OpenEditor, FinishEdit, CancelEdit, RightChanges, PasteStarts, HandlePaste,
                       EndReview, CellContextMenu, CloseMenu, SetChanges,
                       ResourceDerived, Saved, pointers
  <1> QED BY <1>5, <1>6, <1>7, <1>8, <1>9, <1>10 DEF GridNext

LEMMA StepClip == ASSUME CoordinateInv, GridNext
                  PROVE  ClipIsOfItsGeneration' /\ ReviewIsOfWhatWasShown'
  <1>1. gen \in Nat /\ LayoutHasAGeneration
    BY StepGeneration DEF CoordinateInv
  <1>2. ASSUME UNCHANGED clip PROVE ClipIsOfItsGeneration'
    BY <1>1, <1>2 DEF CoordinateInv, ClipIsOfItsGeneration, LayoutHasAGeneration
  <1>3. ASSUME UNCHANGED pasted PROVE ReviewIsOfWhatWasShown'
    BY <1>3 DEF CoordinateInv, ReviewIsOfWhatWasShown
  <1>4. CASE PasteStarts
    <2>1. clip'.gen = gen /\ clip'.layout = Layout /\ UNCHANGED <<rows, category, gen, pasted>>
      BY <1>4 DEF PasteStarts, layoutVars
    <2>2. Layout' = Layout
      BY <2>1 DEF Layout
    <2> QED BY <1>1, <1>3, <2>1, <2>2 DEF ClipIsOfItsGeneration
  <1>5. CASE HandlePaste
    <2>1. clip # Nothing /\ clip' = Nothing
      BY <1>5 DEF HandlePaste
    <2>2. CASE IsCurrentPasteCallback
      <3>1. clip.layout = Layout /\ held
        BY <2>1, <2>2 DEF IsCurrentPasteCallback, CanEdit, CoordinateInv, ClipIsOfItsGeneration
      <3>2. CASE UNCHANGED pasted
        BY <1>3, <2>1, <3>2 DEF ClipIsOfItsGeneration
      <3>3. CASE pasted' = [cell |-> ResolveCellTarget(clip.layout, clip.at),
                            shown |-> ResolveCellTarget(Layout, clip.at), held |-> held]
        BY <2>1, <3>1, <3>3 DEF ClipIsOfItsGeneration, ReviewIsOfWhatWasShown
      <3> QED BY <1>5, <3>2, <3>3 DEF HandlePaste
    <2>3. CASE ~IsCurrentPasteCallback
      BY <1>3, <1>5, <2>1, <2>3 DEF HandlePaste, ClipIsOfItsGeneration
    <2> QED BY <2>2, <2>3
  <1>6. CASE EndReview
    BY <1>2, <1>6 DEF EndReview, ReviewIsOfWhatWasShown
  <1>7. CASE \/ OpenEditor \/ FinishEdit \/ CancelEdit \/ GridSelectionChange \/ RowsArrive
             \/ RightChanges \/ SelectCategory \/ ActivateWorkbenchCoordinate \/ JumpLands
             \/ CellContextMenu \/ CloseMenu \/ SetChanges \/ ResourceDerived
             \/ Saved
    BY <1>2, <1>3, <1>7
       DEF OpenEditor, FinishEdit, CancelEdit, GridSelectionChange, RowsArrive, RightChanges,
           SelectCategory, ActivateWorkbenchCoordinate, JumpLands, CellContextMenu, CloseMenu, SetChanges, ResourceDerived, Saved, pointers
  <1> QED BY <1>4, <1>5, <1>6, <1>7 DEF GridNext

(* Whatever the layout becomes, an editor keeps the one it was opened in.      *)
LEMMA StepEditor ==
    ASSUME SelectionIsChosen, EditorIsOnItsCell, GridNext
    PROVE  EditorIsOnItsCell'
  <1>1. ASSUME editor' \in {editor, Nothing} PROVE EditorIsOnItsCell'
    BY <1>1 DEF EditorIsOnItsCell, ResolveCellTarget
  <1>2. CASE OpenEditor
    <2>1. /\ editor'.at = CurrentGridSelection /\ editor'.layout = Layout /\ editor'.meant = chosen
          /\ SelectedCell # Nothing
      BY <1>2 DEF OpenEditor
    <2>2. selection.layout = Layout /\ CurrentGridSelection = selection.at
      BY <2>1, NowhereIsNothing DEF SelectedCell, CurrentGridSelection
    <2>3. ResolveCellTarget(Layout, CurrentGridSelection) = chosen
      BY <2>1, <2>2 DEF SelectedCell, SelectionIsChosen
    <2> HIDE DEF Layout
    <2>4. EditorIsOnItsCell'
            = (editor' # Nothing => ResolveCellTarget(editor'.layout, editor'.at) = editor'.meant)
      BY DEF EditorIsOnItsCell, ResolveCellTarget
    <2> QED BY <2>1, <2>3, <2>4
  <1>3. ASSUME NEW r, NEW c, Relayout(r, c) PROVE editor' \in {editor, Nothing}
    BY <1>3 DEF Relayout
  <1>4. CASE RowsArrive \/ SelectCategory \/ ActivateWorkbenchCoordinate
    <2>1. editor' = editor \/ \E r, c : Relayout(r, c)
      BY <1>4 DEF RowsArrive, SelectCategory, ActivateWorkbenchCoordinate
    <2> QED BY <1>1, <1>3, <2>1
  <1>5. CASE \/ FinishEdit \/ CancelEdit \/ GridSelectionChange \/ RightChanges \/ JumpLands
             \/ PasteStarts \/ HandlePaste \/ EndReview \/ CellContextMenu \/ CloseMenu
             \/ SetChanges \/ ResourceDerived \/ Saved
    <2>1. editor' \in {editor, Nothing}
      BY <1>5 DEF FinishEdit, CancelEdit, GridSelectionChange, RightChanges, JumpLands, PasteStarts,
                  HandlePaste, EndReview, CellContextMenu, CloseMenu, SetChanges, ResourceDerived,
                  Saved, pointers
    <2> QED BY <1>1, <2>1
  <1> QED BY <1>2, <1>4, <1>5 DEF GridNext

LEMMA StepCoordinates == ASSUME CoordinateInv, [GridNext]_gridVars PROVE CoordinateInv'
  <1>1. CASE GridNext
    <2>1. gen' \in Nat
      BY <1>1, StepGeneration DEF CoordinateInv, LayoutHasAGeneration
    <2> QED BY <1>1, <2>1, StepSelection, StepClip, StepEditor DEF CoordinateInv
  <1>2. CASE UNCHANGED gridVars
    BY <1>2 DEF gridVars, layoutVars, pointers, CoordinateInv, SelectionIsChosen,
                ResolveCellTarget, ClipIsOfItsGeneration, Layout, ReviewIsOfWhatWasShown,
                EditorIsOnItsCell
  <1> QED BY <1>1, <1>2

(* A coordinate of the grid never comes to mean another cell, whatever rows    *)
(* arrive, columns are hidden and rights change between a click, an editor, a  *)
(* clipboard and what is made of them; an editor that the library keeps open   *)
(* over another layout is the exception.                                       *)
THEOREM CoordinatesMeanWhatTheyMeant == GridSpec => []CoordinatesKeepTheirMeaning
  <1>1. GridInit => CoordinateInv
    BY NowhereIsNothing
       DEF GridInit, CoordinateInv, SelectionIsChosen, ClipIsOfItsGeneration,
           ReviewIsOfWhatWasShown, EditorIsOnItsCell
  <1>2. CoordinateInv /\ [GridNext]_gridVars => CoordinateInv'
    BY StepCoordinates
  <1>3. CoordinateInv => CoordinatesKeepTheirMeaning
    <2> SUFFICES ASSUME CoordinateInv PROVE CoordinatesKeepTheirMeaning
      OBVIOUS
    <2>1. SelectedCell \in {Nothing, chosen}
      BY NowhereIsNothing DEF SelectedCell, CurrentGridSelection, CoordinateInv, SelectionIsChosen
    <2> QED BY <2>1 DEF CoordinatesKeepTheirMeaning, CoordinateInv, ReviewIsOfWhatWasShown,
                        EditorIsOnItsCell
  <1> QED BY <1>1, <1>2, <1>3, PTL DEF GridSpec
-----------------------------------------------------------------------------
(* What is typed in a cell.                                                    *)
InputTypes == /\ DOMAIN values = Cells /\ DOMAIN drafts = Cells /\ DOMAIN typed = Cells
InputInv == InputTypes /\ TypedIsShown

(* What input is accepted as: the value it stands for, and one that the        *)
(* service would accept, too.                                                  *)
LEMMA AcceptedInput ==
    ASSUME GridConstants, NEW c \in Cells, NEW raw \in Raw, NEW old,
           ValidateCellCandidate(c[2], old, raw).ok
    PROVE  /\ ValidateCellCandidate(c[2], old, raw).value = ValueOf(c, raw)
           /\ ~ValidateCellCandidate(c[2], old, raw).dropped
  <1> DEFINE p == c[2]
             result == ValidateCellCandidate(p, old, raw)
  <1>1. p \in Parameters /\ Kind[p] \in {"text", "number", "choice"}
    BY DEF Cells, GridConstants
  <1>2. /\ ~Failure.ok /\ ~Unavailable.ok
        /\ \A v : Accept(v).value = v /\ Accept(v).ok /\ ~Accept(v).dropped
    BY DEF Failure, Unavailable, Accept
  <1>3. CASE raw = 0
    BY <1>2, <1>3 DEF ValidateCellCandidate, ValueOf
  <1>4. CASE raw # 0 /\ Kind[p] = "text"
    BY <1>2, <1>4 DEF ValidateCellCandidate, ValueOf
  <1>5. CASE raw # 0 /\ Kind[p] = "number"
    BY <1>2, <1>5 DEF ValidateCellCandidate, ValidateNumber, ValueOf
  <1>6. CASE raw # 0 /\ Kind[p] = "choice"
    <2>1. ValueOf(c, raw) = raw
      BY <1>6 DEF ValueOf
    <2>2. CASE raw = old
      <3>1. result = ValidateUnchanged(old)
        BY <1>6, <2>2 DEF ValidateCellCandidate
      <3>2. result = Accept(raw)
        BY <1>2, <2>2, <3>1 DEF ValidateUnchanged
      <3> QED BY <1>2, <2>1, <3>2
    <2>3. CASE raw # old
      <3>1. result = ValidateNewChoice(raw)
        BY <1>6, <2>3 DEF ValidateCellCandidate
      <3>2. result = Accept(raw)
        BY <1>2, <3>1 DEF ValidateNewChoice
      <3> QED BY <1>2, <2>1, <3>2
    <2> QED BY <2>2, <2>3
  <1> QED BY <1>1, <1>3, <1>4, <1>5, <1>6

LEMMA AcceptedIsAccepted ==
    ASSUME GridConstants, NEW c \in Cells, NEW raw \in Raw, NEW old, NEW before,
           ~resource.stale, resource.seen = set,
           ValidateCellCandidate(c[2], old, raw).ok, ValueOf(c, raw) # old
    PROVE  ServerAccepts(c[2], before, ValueOf(c, raw))
  <1> DEFINE p == c[2]
             result == ValidateCellCandidate(p, old, raw)
  <1>1. p \in Parameters /\ Kind[p] \in {"text", "number", "choice"}
    BY DEF Cells, GridConstants
  <1>2. ~Failure.ok /\ ~Unavailable.ok
    BY DEF Failure, Unavailable
  <1>3. CASE raw = 0
    BY <1>3 DEF ServerAccepts, ValueOf
  <1>4. CASE Kind[p] = "text"
    BY <1>4 DEF ServerAccepts
  <1>5. CASE raw # 0 /\ Kind[p] = "number"
    <2>1. raw \notin Malformed
      BY <1>2, <1>5 DEF ValidateCellCandidate, ValidateNumber
    <2>2. Canonical[raw] \notin Malformed
      BY <2>1 DEF GridConstants
    <2> QED BY <1>5, <2>2 DEF ServerAccepts, ValueOf
  <1>6. CASE raw # 0 /\ Kind[p] = "choice"
    <2>1. ValueOf(c, raw) = raw
      BY <1>6 DEF ValueOf
    <2>2. result = ValidateNewChoice(raw)
      BY <1>6, <2>1 DEF ValidateCellCandidate
    <2>3. SelectionReady /\ OptionMayBeChosen(raw)
      BY <1>2, <2>2 DEF ValidateNewChoice
    <2>4. set.active /\ ActiveOption(set, raw) /\ Option(set, raw)
      BY <2>3 DEF SelectionReady, OptionMayBeChosen, ActiveOption
    <2> QED BY <1>6, <2>1, <2>4 DEF ServerAccepts
  <1> QED BY <1>1, <1>3, <1>4, <1>5, <1>6

(* What a finished edit does to the cell that the coordinate of the editor     *)
(* names then, and to no other.                                                *)
Outcome(cell, raw) == ValidateCellCandidate(cell[2], values[cell], raw)
Took(cell, raw) ==
    /\ typed' = IF Outcome(cell, raw).dropped THEN typed ELSE [typed EXCEPT ![cell] = raw]
    /\ \/ /\ Outcome(cell, raw).ok /\ drafts' = [drafts EXCEPT ![cell] = Nothing]
          /\ \/ values' = [values EXCEPT ![cell] = Outcome(cell, raw).value]
             \/ values' = values /\ values[cell] = Outcome(cell, raw).value
       \/ /\ ~Outcome(cell, raw).ok /\ values' = values
          /\ drafts' = IF Outcome(cell, raw).dropped THEN drafts
                       ELSE [drafts EXCEPT ![cell] = raw]
LEMMA FinishedEdit ==
    ASSUME FinishEdit
    PROVE  UNCHANGED <<values, drafts, typed>> \/ \E cell, raw : raw \in Raw /\ Took(cell, raw)
  <1> DEFINE cell == ResolveCellTarget(Layout, editor.at)
  <1>1. PICK raw \in Raw : IF CanEdit THEN HandleCellEdited(editor.at, raw)
                           ELSE UNCHANGED <<values, drafts, typed, gen>>
    BY DEF FinishEdit
  <1>2. CASE ~CanEdit \/ cell = Nothing
    BY <1>1, <1>2 DEF HandleCellEdited
  <1>3. CASE CanEdit /\ cell # Nothing
    <2>1. /\ typed' = IF Outcome(cell, raw).dropped THEN typed ELSE [typed EXCEPT ![cell] = raw]
          /\ IF Outcome(cell, raw).ok
             THEN /\ drafts' = Cleared(cell)
                  /\ IF ShouldPersist(values[cell], Outcome(cell, raw).value)
                     THEN values' = [values EXCEPT ![cell] = Outcome(cell, raw).value]
                     ELSE UNCHANGED values
             ELSE /\ drafts' = IF Outcome(cell, raw).dropped THEN drafts ELSE DraftKept(cell, raw)
                  /\ UNCHANGED values
      BY <1>1, <1>3 DEF HandleCellEdited, Outcome
    <2> HIDE DEF cell
    <2>2. Took(cell, raw)
      BY <2>1 DEF Took, Cleared, DraftKept, ShouldPersist
    <2> QED BY <2>2
  <1> QED BY <1>2, <1>3

LEMMA TookShows ==
    ASSUME GridConstants, InputTypes, TypedIsShown, NEW cell, NEW raw \in Raw, Took(cell, raw)
    PROVE  InputTypes' /\ TypedIsShown'
  <1> DEFINE result == Outcome(cell, raw)
  <1>1. InputTypes'
    BY DEF Took, InputTypes
  <1>2. ASSUME NEW c \in Cells, typed'[c] # Nothing
        PROVE  \/ drafts'[c] = typed'[c]
               \/ drafts'[c] = Nothing /\ values'[c] = ValueOf(c, typed'[c])
    <2>1. CASE c # cell
      <3>1. typed'[c] = typed[c] /\ drafts'[c] = drafts[c] /\ values'[c] = values[c]
        BY <2>1 DEF Took, InputTypes
      <3> QED BY <1>2, <3>1 DEF TypedIsShown
    <2>2. CASE c = cell /\ result.ok
      <3>1. result.value = ValueOf(c, raw) /\ ~result.dropped
        BY <2>2, AcceptedInput DEF Outcome
      <3> QED BY <2>2, <3>1 DEF Took, InputTypes
    <2>3. CASE c = cell /\ ~result.ok
      <3>1. CASE result.dropped
        <4>1. typed'[c] = typed[c] /\ drafts'[c] = drafts[c] /\ values'[c] = values[c]
          BY <2>3, <3>1 DEF Took
        <4> QED BY <1>2, <4>1 DEF TypedIsShown
      <3>2. CASE ~result.dropped
        BY <2>3, <3>2 DEF Took, InputTypes
      <3> QED BY <3>1, <3>2
    <2> QED BY <2>1, <2>2, <2>3
  <1> QED BY <1>1, <1>2 DEF TypedIsShown

LEMMA ArrivalShows ==
    ASSUME InputTypes, TypedIsShown, RowsArrive
    PROVE  InputTypes' /\ TypedIsShown'
  <1>1. PICK r \in Orders :
          /\ drafts' = [c \in Cells |-> IF Orphan(c, r) THEN Nothing ELSE drafts[c]]
          /\ typed' = [c \in Cells |-> IF Orphan(c, r) THEN Nothing ELSE typed[c]]
          /\ values' = values
    BY DEF RowsArrive, Prune
  <1>2. InputTypes'
    BY <1>1 DEF InputTypes
  <1>3. \A c \in Cells : \/ typed'[c] = Nothing
                         \/ typed'[c] = typed[c] /\ drafts'[c] = drafts[c] /\ values'[c] = values[c]
    BY <1>1
  <1>4. ASSUME NEW c \in Cells, typed'[c] # Nothing
        PROVE  \/ drafts'[c] = typed'[c]
               \/ drafts'[c] = Nothing /\ values'[c] = ValueOf(c, typed'[c])
    <2>1. typed'[c] = typed[c] /\ drafts'[c] = drafts[c] /\ values'[c] = values[c]
      BY <1>3, <1>4
    <2> QED BY <1>4, <2>1 DEF TypedIsShown
  <1> QED BY <1>2, <1>4 DEF TypedIsShown

LEMMA InputKeeps == ASSUME InputTypes, TypedIsShown, UNCHANGED <<values, drafts, typed>>
                    PROVE  InputTypes' /\ TypedIsShown'
  BY DEF InputTypes, TypedIsShown

LEMMA StepShows ==
    ASSUME GridConstants, InputInv, GridNext
    PROVE  InputTypes' /\ TypedIsShown'
  <1>1. CASE FinishEdit
    BY <1>1, FinishedEdit, TookShows, InputKeeps DEF InputInv
  <1>2. CASE RowsArrive
    BY <1>2, ArrivalShows DEF InputInv
  <1>3. CASE \/ OpenEditor \/ CancelEdit \/ GridSelectionChange \/ RightChanges \/ SelectCategory
             \/ ActivateWorkbenchCoordinate \/ JumpLands \/ PasteStarts \/ HandlePaste \/ EndReview
             \/ CellContextMenu \/ CloseMenu \/ SetChanges \/ ResourceDerived
             \/ Saved
    <2>1. UNCHANGED <<values, drafts, typed>>
      BY <1>3 DEF OpenEditor, CancelEdit, GridSelectionChange, RightChanges, SelectCategory,
                  ActivateWorkbenchCoordinate, JumpLands, PasteStarts, HandlePaste, EndReview,
                  CellContextMenu, CloseMenu, SetChanges, ResourceDerived,
                  Saved, cellVars
    <2> QED BY <2>1, InputKeeps DEF InputInv
  <1> QED BY <1>1, <1>2, <1>3 DEF GridNext

LEMMA StepInput ==
    ASSUME GridConstants, InputInv, [GridNext]_gridVars
    PROVE  InputInv'
  <1>1. CASE GridNext
    BY <1>1, StepShows DEF InputInv
  <1>2. CASE UNCHANGED gridVars
    BY <1>2, InputKeeps DEF InputInv, gridVars, cellVars
  <1> QED BY <1>1, <1>2

(* What is accepted while the set is known as it is would be saved.            *)
Savable == \A c \in Cells :
             values'[c] # values[c] /\ ~resource.stale /\ resource.seen = set =>
                 ServerAccepts(c[2], stored[c], values'[c])
LEMMA StepSavable ==
    ASSUME GridConstants, InputInv, [GridNext]_gridVars
    PROVE  Savable
  <1>1. CASE UNCHANGED values
    BY <1>1 DEF Savable
  <1>2. ASSUME FinishEdit, NEW c \in Cells,
               values'[c] # values[c], ~resource.stale, resource.seen = set
        PROVE  ServerAccepts(c[2], stored[c], values'[c])
    <2>1. PICK cell, raw : raw \in Raw /\ Took(cell, raw)
      BY <1>2, FinishedEdit
    <2>2. /\ c = cell /\ Outcome(cell, raw).ok
          /\ values'[c] = Outcome(cell, raw).value
      BY <1>2, <2>1 DEF Took, InputInv, InputTypes
    <2>3. Outcome(cell, raw) = ValidateCellCandidate(c[2], values[c], raw)
      BY <2>2 DEF Outcome
    <2>4. values'[c] = ValueOf(c, raw)
      BY <2>1, <2>2, <2>3, AcceptedInput
    <2> QED BY <1>2, <2>1, <2>2, <2>3, <2>4, AcceptedIsAccepted
  <1>3. CASE \/ OpenEditor \/ CancelEdit \/ GridSelectionChange \/ RowsArrive \/ RightChanges
             \/ SelectCategory \/ ActivateWorkbenchCoordinate \/ JumpLands \/ PasteStarts
             \/ HandlePaste \/ EndReview \/ CellContextMenu \/ CloseMenu
             \/ SetChanges \/ ResourceDerived \/ Saved
    BY <1>1, <1>3
       DEF OpenEditor, CancelEdit, GridSelectionChange, RowsArrive, RightChanges, SelectCategory,
           ActivateWorkbenchCoordinate, JumpLands, PasteStarts, HandlePaste, EndReview,
           CellContextMenu, CloseMenu, SetChanges, ResourceDerived, Saved, cellVars
  <1>4. CASE UNCHANGED gridVars
    BY <1>1, <1>4 DEF gridVars, cellVars
  <1>5. CASE FinishEdit
    BY <1>2, <1>5 DEF Savable
  <1> QED BY <1>3, <1>4, <1>5 DEF GridNext

(* Whatever happens, what was typed is on display.                             *)
THEOREM InputInvariance ==
    ASSUME GridConstants
    PROVE  GridSpec => []InputInv
  <1>1. GridInit => InputInv
    BY DEF GridInit, InputInv, InputTypes, TypedIsShown
  <1>2. InputInv /\ [GridNext]_gridVars => InputInv'
    BY StepInput
  <1> QED BY <1>1, <1>2, PTL DEF GridSpec
-----------------------------------------------------------------------------
(* Jumps.  A column on display has a number in the layout.                     *)
LEMMA UpToIsANumber ==
    ASSUME GridConstants, NEW c, NEW i \in Visible(c)
    PROVE  UpTo(c, i) \in 1..Cardinality(Visible(c))
  <1> DEFINE V == Visible(c)
             S == {j \in V : j <= i}
  <1>1. V \subseteq 1..Len(Columns) /\ Len(Columns) \in Nat
    BY DEF GridConstants, Visible
  <1>2. IsFiniteSet(V)
    <2>1. IsFiniteSet(1..Len(Columns))
      BY <1>1, FS_Interval
    <2> QED BY <1>1, <2>1, FS_Subset
  <1>3. i \in S /\ S \subseteq V /\ i \in Nat
    BY <1>1
  <1>4. IsFiniteSet(S) /\ Cardinality(S) <= Cardinality(V)
    BY <1>2, <1>3, FS_Subset
  <1>5. Cardinality(S) \in Nat /\ Cardinality(S) # 0 /\ Cardinality(V) \in Nat
    BY <1>2, <1>3, <1>4, FS_CardinalityType, FS_EmptySet
  <1>6. UpTo(c, i) = Cardinality(S)
    BY DEF UpTo
  <1> QED BY <1>4, <1>5, <1>6

LEMMA UpToGrows ==
    ASSUME GridConstants, NEW c, NEW i \in Visible(c), NEW j \in Visible(c), i < j
    PROVE  UpTo(c, i) # UpTo(c, j)
  <1> DEFINE V == Visible(c)
             S == {k \in V : k <= i}
             T == {k \in V : k <= j}
  <1>1. V \subseteq 1..Len(Columns) /\ Len(Columns) \in Nat
    BY DEF GridConstants, Visible
  <1>2. IsFiniteSet(T)
    <2>1. IsFiniteSet(1..Len(Columns))
      BY <1>1, FS_Interval
    <2>2. T \in SUBSET (1..Len(Columns))
      BY <1>1
    <2> QED BY <2>1, <2>2, FS_Subset
  <1>3. S \subseteq T /\ j \in T /\ j \notin S
    BY <1>1
  <1>4. Cardinality(S) = Cardinality(T) => T = S
    BY <1>2, <1>3, FS_Subset
  <1> QED BY <1>3, <1>4 DEF UpTo

LEMMA VisibleHasANumber ==
    ASSUME GridConstants, NEW c, NEW i \in Visible(c)
    PROVE  \E k \in DOMAIN VisibleColumns(c) : VisibleColumns(c)[k] = Columns[i]
  <1> DEFINE k == UpTo(c, i)
             chooses(n) == CHOOSE j \in Visible(c) : UpTo(c, j) = n
  <1>1. k \in 1..Cardinality(Visible(c))
    BY UpToIsANumber
  <1>2. chooses(k) \in Visible(c) /\ UpTo(c, chooses(k)) = k
    OBVIOUS
  <1>3. chooses(k) \in Nat /\ i \in Nat
    BY <1>2 DEF Visible, GridConstants
  <1>4. chooses(k) = i
    <2>1. CASE chooses(k) < i
      BY <1>2, <2>1, UpToGrows
    <2>2. CASE i < chooses(k)
      BY <1>2, <2>2, UpToGrows
    <2> QED BY <1>3, <2>1, <2>2
  <1> HIDE DEF k
  <1> QED BY <1>1, <1>4 DEF VisibleColumns

(* A cell of the sheet in a column that is shown can be scrolled to, if the    *)
(* column has a category.                                                      *)
LEMMA ShownCanBeReached ==
    ASSUME GridConstants, NEW cell \in Cells, Category[cell[2]] # Nothing,
           rows \in Orders, ~Orphan(cell, rows), ColumnShown(cell[2])
    PROVE  CellScrollTarget(cell) # {}
  <1>1. PICK i \in DOMAIN rows : rows[i] = cell[1]
    BY DEF Orphan
  <1>2. cell[2] \in Parameters /\ cell = <<cell[1], cell[2]>>
    BY DEF Cells
  <1>3. PICK j \in DOMAIN Columns : Columns[j] = cell[2]
    BY <1>2 DEF Parameters
  <1>4. j \in Visible(category)
    BY <1>2, <1>3 DEF ColumnShown, Visible
  <1>5. PICK k \in DOMAIN VisibleColumns(category) : VisibleColumns(category)[k] = cell[2]
    BY <1>3, <1>4, VisibleHasANumber
  <1> DEFINE at == [row |-> i, col |-> k]
  <1>6. Layout.rows = rows /\ Layout.cols = VisibleColumns(category)
    BY DEF Layout, GridLayoutAuthority
  <1>7. at \in Coordinates(Layout) /\ at.row = i /\ at.col = k
    BY <1>1, <1>5, <1>6 DEF Coordinates
  <1>8. ResolveCellTarget(Layout, at) = cell
    <2>1. i \in Nat /\ k \in Nat
      BY <1>1, <1>5 DEF GridConstants, VisibleColumns
    <2>2. at # Nothing
      BY <2>1 DEF GridConstants
    <2> QED BY <1>1, <1>2, <1>5, <1>6, <1>7, <2>2 DEF ResolveCellTarget
  <1> QED BY <1>7, <1>8 DEF CellScrollTarget

(* What was said of the last jump, and of what cell.                           *)
JumpInv == /\ rows \in Orders
           /\ jump # Nothing => jump.cell \in Cells
           /\ JumpTellsTheTruth
LEMMA ScrollTells ==
    ASSUME GridConstants, NEW cell \in Cells,
           rows \in Orders, ~Orphan(cell, rows), ColumnShown(cell[2]), ScrollToCell(cell)
    PROVE  (jump # Nothing => jump.cell \in Cells)' /\ JumpTellsTheTruth'
  <1>1. CASE CellScrollTarget(cell) # {}
    <2>1. jump' = [cell |-> cell, status |-> "arrived", there |-> TRUE]
      BY <1>1 DEF ScrollToCell
    <2> QED BY <2>1 DEF JumpTellsTheTruth
  <1>2. CASE CellScrollTarget(cell) = {}
    <2>1. Category[cell[2]] = Nothing
      BY <1>2, ShownCanBeReached
    <2>2. jump'.cell = cell
      BY <1>2 DEF ScrollToCell
    <2> QED BY <2>1, <2>2 DEF JumpTellsTheTruth
  <1> QED BY <1>1, <1>2

LEMMA StepJump ==
    ASSUME GridConstants, JumpInv, [GridNext]_gridVars
    PROVE  JumpInv'
  <1>1. ASSUME UNCHANGED jump
        PROVE  (jump # Nothing => jump.cell \in Cells)' /\ JumpTellsTheTruth'
    BY <1>1 DEF JumpInv, JumpTellsTheTruth
  <1>2. ASSUME NEW cell \in Cells, NEW status, NEW there \in BOOLEAN,
               jump' = [cell |-> cell, status |-> status, there |-> there],
               status = "missing" => ~there
        PROVE  (jump # Nothing => jump.cell \in Cells)' /\ JumpTellsTheTruth'
    BY <1>2 DEF JumpTellsTheTruth
  <1>3. CASE ActivateWorkbenchCoordinate
    <2>1. PICK cell \in Cells :
            \/ /\ jump' = [cell |-> cell, status |-> "missing", there |-> FALSE]
               /\ rows' = rows
            \/ /\ ~Orphan(cell, rows) /\ ColumnShown(cell[2]) /\ ScrollToCell(cell) /\ rows' = rows
            \/ /\ jump' = [cell |-> cell, status |-> "pending", there |-> TRUE]
               /\ rows' = rows
      BY <1>3 DEF ActivateWorkbenchCoordinate, Relayout, layoutVars
    <2>2. rows' \in Orders
      BY <2>1 DEF JumpInv
    <2>3. (jump # Nothing => jump.cell \in Cells)' /\ JumpTellsTheTruth'
      <3>1. CASE jump' = [cell |-> cell, status |-> "missing", there |-> FALSE]
        BY <1>2, <3>1
      <3>2. CASE ~Orphan(cell, rows) /\ ColumnShown(cell[2]) /\ ScrollToCell(cell)
        BY <3>2, ScrollTells DEF JumpInv
      <3>3. CASE jump' = [cell |-> cell, status |-> "pending", there |-> TRUE]
        BY <3>3 DEF JumpTellsTheTruth
      <3> QED BY <2>1, <3>1, <3>2, <3>3
    <2> QED BY <2>2, <2>3 DEF JumpInv
  <1>4. CASE JumpLands
    <2>1. jump # Nothing /\ jump.cell \in Cells /\ ColumnShown(jump.cell[2]) /\ rows' = rows
      BY <1>4 DEF JumpLands, JumpInv, layoutVars
    <2>2. CASE Orphan(jump.cell, rows)
      <3>1. jump' = [cell |-> jump.cell, status |-> "missing", there |-> FALSE]
        BY <1>4, <2>2 DEF JumpLands
      <3> QED BY <1>2, <2>1, <3>1 DEF JumpInv
    <2>3. CASE ~Orphan(jump.cell, rows)
      <3>1. ScrollToCell(jump.cell)
        BY <1>4, <2>3 DEF JumpLands
      <3> QED BY <2>1, <2>3, <3>1, ScrollTells DEF JumpInv
    <2> QED BY <2>2, <2>3
  <1>5. CASE SelectCategory
    <2>1. rows' = rows /\ (jump' = Nothing \/ jump' = jump)
      BY <1>5 DEF SelectCategory, Relayout
    <2>2. CASE jump' = Nothing
      BY <2>1, <2>2 DEF JumpInv, JumpTellsTheTruth
    <2>3. CASE jump' = jump
      BY <1>1, <2>1, <2>3 DEF JumpInv
    <2> QED BY <2>1, <2>2, <2>3
  <1>6. CASE RowsArrive
    <2>1. rows' \in Orders /\ jump' = jump
      BY <1>6 DEF RowsArrive, Relayout
    <2> QED BY <1>1, <2>1 DEF JumpInv
  <1>7. CASE \/ OpenEditor \/ FinishEdit \/ CancelEdit \/ GridSelectionChange \/ RightChanges
             \/ PasteStarts \/ HandlePaste \/ EndReview \/ CellContextMenu \/ CloseMenu
             \/ SetChanges \/ ResourceDerived \/ Saved
    <2>1. rows' = rows /\ jump' = jump
      BY <1>7 DEF OpenEditor, FinishEdit, CancelEdit, GridSelectionChange, RightChanges, PasteStarts,
                  HandlePaste, EndReview, CellContextMenu, CloseMenu, SetChanges,
                  ResourceDerived, Saved, layoutVars, pointers
    <2> QED BY <1>1, <2>1 DEF JumpInv
  <1>8. CASE UNCHANGED gridVars
    <2>1. rows' = rows /\ jump' = jump
      BY <1>8 DEF gridVars, layoutVars, pointers
    <2> QED BY <1>1, <2>1 DEF JumpInv
  <1> QED BY <1>3, <1>4, <1>5, <1>6, <1>7, <1>8 DEF GridNext

(* Whatever happens, a jump told the truth of its cell.                        *)
THEOREM JumpInvariance ==
    ASSUME GridConstants
    PROVE  GridSpec => []JumpInv
  <1>1. GridInit => JumpInv
    BY DEF GridInit, JumpInv, JumpTellsTheTruth
  <1>2. JumpInv /\ [GridNext]_gridVars => JumpInv'
    BY StepJump
  <1> QED BY <1>1, <1>2, PTL DEF GridSpec

(* What was typed last in a cell is on display, as its value or as a rejected  *)
(* draft, and what is accepted with the set as it is would be saved, for any   *)
(* columns, lists of rows, inputs and bounds, and whether the library keeps an *)
(* open editor over a change of the layout or not.                             *)
THEOREM TypedIsShownAndSavable ==
    ASSUME GridConstants
    PROVE  GridSpec => []TypedIsShown /\ AcceptedIsSavable
  <1>1. InputInv => TypedIsShown
    BY DEF InputInv
  <1>2. InputInv /\ [GridNext]_gridVars => [Savable]_gridVars
    BY StepSavable
  <1>3. GridSpec => []TypedIsShown /\ [][Savable]_gridVars
    BY <1>1, <1>2, InputInvariance, PTL DEF GridSpec
  <1> QED BY <1>3 DEF AcceptedIsSavable, Savable

(* And a jump to a cell of a column with a category says that the cell is      *)
(* missing only if the sheet has no such cell.                                 *)
THEOREM LastInputIsNotLost ==
    ASSUME GridConstants
    PROVE  GridSpec => LastInputIsKept
  <1>1. JumpInv => JumpTellsTheTruth
    BY DEF JumpInv
  <1> QED BY <1>1, JumpInvariance, TypedIsShownAndSavable, PTL DEF LastInputIsKept
=============================================================================
