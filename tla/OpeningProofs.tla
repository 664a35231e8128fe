----------------------------- MODULE OpeningProofs -----------------------------
(* What TLAPS proves of the parts of MCOpening.                                *)
(*                                                                             *)
(* Release, for any files and any number of changes, as long as no change is   *)
(* taken back: a file is sent under the label of what it was built from.       *)
(* Versions only grow then, so what was found equal before the build and after *)
(* it did not change in between.                                               *)
(*                                                                             *)
(* ChoiceClient, for any codes, any changes of the set and any number of       *)
(* openings: an option that is chosen was not withdrawn before the chooser was *)
(* opened.  Until the summary is as new as the opening asked for, the chooser  *)
(* waits for it, or shows an error, or what it has cannot become ready.        *)
(*                                                                             *)
(* DiffWorkbench, for any filters, layers and pages: the pages on screen are   *)
(* of the root on screen, because every change of what is open or of the root  *)
(* clears them; and on the first page no root from before the fence comes      *)
(* back, because the fence raises every known token and drops every request.   *)
(*                                                                             *)
(* CreateWizard, for any processes, backbones and layers: what is sent is what *)
(* was seen, because overrides do not outlive the selection they were made for *)
(* and a submission is offered only for the preview of both.                   *)
EXTENDS Release, ChoiceClient, CreateWizard, DiffWorkbench, TLAPS

Version == 0 .. MaxChanges
Commit == [Part -> Version]
Tool == 0 .. NoTool
Content == [code : Version, lock : Version, tool : Tool]
Label == [commit : Commit, lock : Version, scripts : Version]
Stage == {"idle", "identify", "capture", "install", "remove", "tools", "compile", "check tools",
          "check sources", "snapshot", "write"}

\* What others do only adds to the versions, and a commit is behind the worktree.
Behind(old, new) == \A p \in Part : old[p] <= new[p]
RepositoryInv == /\ head \in Commit /\ tree \in Commit /\ installed \in Tool
                 /\ Behind(head, tree)

\* What a file was made from is between two contents of the repository.
Between(c, low, high) == /\ low["code"] <= c.code /\ c.code <= high["code"]
                         /\ low["lock"] <= c.lock /\ c.lock <= high["lock"]
Is(c, commit, tool) == c.code = commit["code"] /\ c.lock = commit["lock"] /\ c.tool = tool
Built == {f \in File : dist[f] # None}

BuildTypes ==
  /\ build.stage \in Stage /\ build.round \in Nat
  /\ DOMAIN build = {"stage", "round", "commit", "identity", "tool"}
  /\ \A f \in Built : dist[f] \in Content
  /\ DOMAIN dist = File

\* The stages of a round, after the first capture and after the second.
Making == {"install", "remove", "tools", "compile", "check tools", "check sources"}
Reading == {"identify", "capture"}
First == build.stage \in Reading /\ build.round = 1
Second == build.stage \in Making \/ (build.stage \in Reading /\ build.round = 2)
Third == build.stage \in {"snapshot", "write"} \/ (build.stage \in Reading /\ build.round = 3)

RoundInv ==
  /\ build.stage \in Making => build.round = 2
  /\ build.stage \in {"snapshot", "write"} => build.round = 3
  /\ build.stage \in Reading => build.round \in 1 .. 3
CommitInv == build.stage = "capture" => build.commit \in Commit /\ Behind(build.commit, head)
IdentityInv ==
  Second \/ Third => build.identity \in Label /\ Behind(build.identity.commit, head)

\* The tools of the files are those of the label, or the packages were changed.
ToolInv ==
  /\ build.stage = "tools" => Built = {}
  /\ build.stage \in {"compile", "check tools"} =>
       /\ build.tool \in Version /\ installed \in {build.tool, NoTool}
       /\ installed = build.tool => \A f \in Built : dist[f].tool = build.tool
  /\ build.stage = "check sources" \/ (build.stage \in Reading /\ build.round = 2) =>
       \A f \in Built : dist[f].tool = build.tool

\* The sources of the files are those of the label, once the worktree has been
\* found clean and its commit the one the build began with.
SourcesInv ==
  /\ build.stage \in {"compile", "check tools", "check sources"} =>
       \A f \in Built : Between(dist[f], build.identity.commit, tree)
  /\ build.stage \in Reading /\ build.round = 2 =>
       \A f \in Built : Between(dist[f], build.identity.commit, head)
  /\ Third => \A f \in Built : Is(dist[f], build.identity.commit, build.tool)
  /\ build.stage = "write" => Built = File

\* A manifest says of each file what it was made from.
True(m) == m \notin {None, Torn} => \A f \in File : Is(m.dist[f], m.identity.commit, m.tool)
ManifestInv == /\ True(manifest)
               /\ server.stage # "off" => server.manifest \notin {None, Torn} /\ True(server.manifest)

IInv == /\ RepositoryInv /\ BuildTypes /\ RoundInv /\ CommitInv /\ IdentityInv
        /\ ToolInv /\ SourcesInv /\ ManifestInv /\ LabelsAreTrue

\* What the fields of the build become.
Becomes(stage, round, commit, identity, tool) ==
  /\ build'.stage = stage /\ build'.round = round /\ build'.commit = commit
  /\ build'.identity = identity /\ build'.tool = tool
  /\ DOMAIN build' = {"stage", "round", "commit", "identity", "tool"}
Turns(stage) == Becomes(stage, build.round, build.commit, build.identity, build.tool)

-----------------------------------------------------------------------------
LEMMA InitInv == ASSUME ReleaseConstants, ReleaseInit PROVE IInv
<1>1. RepositoryInv
  BY DEF ReleaseInit, ReleaseConstants, RepositoryInv, Commit, Version, Tool, NoTool, Behind
<1>2. Built = {} /\ build.stage = "idle"
  BY DEF ReleaseInit, Built
<1>3. BuildTypes
  BY <1>2 DEF ReleaseInit, BuildTypes, Stage
<1>4. RoundInv /\ CommitInv /\ IdentityInv /\ ToolInv /\ SourcesInv
  BY <1>2 DEF RoundInv, CommitInv, IdentityInv, ToolInv, SourcesInv, Making, Reading, Second, Third
<1>5. ManifestInv /\ LabelsAreTrue
  BY DEF ReleaseInit, ManifestInv, True, LabelsAreTrue
<1> QED
  BY <1>1, <1>3, <1>4, <1>5 DEF IInv

\* A step of others or of the build leaves what was sent as it is.
LEMMA SentStays == ASSUME IInv, UNCHANGED sent PROVE LabelsAreTrue'
  BY DEF IInv, LabelsAreTrue

LEMMA ManifestStays == ASSUME IInv, UNCHANGED <<manifest, server>> PROVE ManifestInv'
  BY DEF IInv, ManifestInv, True

\* Of three numbers in order.
LEMMA Ordered ==
  ASSUME NEW a \in Commit, NEW b \in Commit, NEW c \in Commit, Behind(a, b), Behind(b, c)
  PROVE  Behind(a, c)
  BY DEF Commit, Version, Behind

LEMMA StillBetween ==
  ASSUME ReleaseConstants, NEW a \in Commit, NEW b \in Commit, NEW d \in Commit, NEW c \in Content,
         Between(c, a, b), Behind(b, d)
  PROVE  Between(c, a, d)
  BY DEF ReleaseConstants, Commit, Version, Content, Behind, Between, Part

\* Others only add to what the repository has.
LEMMA OthersKeep ==
  ASSUME ReleaseConstants, IInv, UNCHANGED <<dist, manifest, build, server, sent>>,
         RepositoryInv', Behind(head, head'), Behind(tree, tree'),
         installed' \in {installed, NoTool}
  PROVE  IInv'
<1> Built' = Built
  BY DEF Built
<1>1. BuildTypes' /\ RoundInv'
  BY DEF IInv, BuildTypes, RoundInv
<1>2. CommitInv'
  BY Ordered DEF IInv, RepositoryInv, CommitInv
<1>3. IdentityInv'
  BY Ordered DEF IInv, RepositoryInv, IdentityInv, Second, Third, Label
<1>4. ToolInv'
  BY DEF IInv, ToolInv, ReleaseConstants, Version, NoTool
<1>5. SourcesInv'
  <2>1. ASSUME build.stage \in {"compile", "check tools", "check sources"}, NEW f \in Built
        PROVE  Between(dist[f], build.identity.commit, tree)'
    BY <2>1, StillBetween DEF IInv, SourcesInv, RepositoryInv, BuildTypes, IdentityInv, Second,
                               Making, Label
  <2>2. ASSUME build.stage \in Reading, build.round = 2, NEW f \in Built
        PROVE  Between(dist[f], build.identity.commit, head)'
    BY <2>2, StillBetween DEF IInv, SourcesInv, RepositoryInv, BuildTypes, IdentityInv, Second,
                               Label
  <2>3. (Third => \A f \in Built : Is(dist[f], build.identity.commit, build.tool))'
    BY DEF IInv, SourcesInv, Third, Is
  <2> QED
    BY <2>1, <2>2, <2>3 DEF IInv, SourcesInv
<1>6. ManifestInv' /\ LabelsAreTrue'
  BY SentStays, ManifestStays
<1> QED
  BY <1>1, <1>2, <1>3, <1>4, <1>5, <1>6 DEF IInv

\* Changes of others.
LEMMA OthersStep ==
  ASSUME ReleaseConstants, ~Undo, IInv, Edit \/ Committed \/ Tinker
  PROVE  IInv'
<1>1. CASE Edit
  <2>1. PICK p \in Part, v \in 0 .. MaxChanges : v = tree[p] + 1 /\ tree' = [tree EXCEPT ![p] = v]
    BY <1>1 DEF Edit
  <2>2. UNCHANGED <<head, installed, dist, manifest, build, server, sent>>
    BY <1>1 DEF Edit
  <2>3. tree' \in Commit /\ Behind(tree, tree')
    BY <2>1 DEF IInv, RepositoryInv, Commit, Version, Behind
  <2>4. Behind(head, head)
    BY DEF IInv, RepositoryInv, Commit, Version, Behind
  <2>5. RepositoryInv'
    BY <2>2, <2>3, Ordered DEF IInv, RepositoryInv
  <2> QED
    BY <2>2, <2>3, <2>4, <2>5, OthersKeep
<1>2. CASE Committed
  <2>1. head' = tree /\ UNCHANGED <<tree, installed, dist, manifest, build, server, sent>>
    BY <1>2 DEF Committed
  <2>2. Behind(head, head') /\ Behind(tree, tree') /\ RepositoryInv'
    BY <2>1 DEF IInv, RepositoryInv, Commit, Version, Behind
  <2> QED
    BY <2>1, <2>2, OthersKeep
<1>3. CASE Tinker
  <2>1. installed' = NoTool /\ UNCHANGED <<head, tree, dist, manifest, build, server, sent>>
    BY <1>3 DEF Tinker
  <2>2. Behind(head, head') /\ Behind(tree, tree') /\ RepositoryInv'
    BY <2>1 DEF IInv, RepositoryInv, Commit, Version, Behind, Tool, NoTool, ReleaseConstants
  <2> QED
    BY <2>1, <2>2, OthersKeep
<1> QED
  BY <1>1, <1>2, <1>3

\* A step of the build that leaves the repository, the manifest and what was sent.
LEMMA BuildKeeps ==
  ASSUME IInv, UNCHANGED <<repository, manifest, server, sent>>,
         BuildTypes', RoundInv', CommitInv', IdentityInv', ToolInv', SourcesInv'
  PROVE  IInv'
<1>1. RepositoryInv'
  BY DEF IInv, repository, RepositoryInv
<1> QED
  BY <1>1, SentStays, ManifestStays DEF IInv

\* The build begins, is stopped, or reads the commit.
LEMMA BeginStep ==
  ASSUME ReleaseConstants, IInv, Start \/ ReadHead \/ Fail
  PROVE  IInv'
<1>1. UNCHANGED <<repository, dist, manifest, server, sent>> /\ Built' = Built
  BY DEF Start, ReadHead, Fail, Built
<1>2. CASE Start
  <2>1. Becomes("identify", 1, build.commit, build.identity, build.tool)
    BY <1>2 DEF Start, Becomes, IInv, BuildTypes
  <2>2. build'.round \in Nat
    BY <2>1 DEF Becomes
  <2>3. BuildTypes'
    BY <1>1, <2>1, <2>2 DEF Becomes, IInv, BuildTypes, Stage
  <2>4. RoundInv' /\ CommitInv'
    BY <2>1 DEF Becomes, RoundInv, CommitInv, Making, Reading
  <2>5. ~Second' /\ ~Third'
    BY <2>1 DEF Becomes, Making, Reading, Second, Third
  <2>6. IdentityInv' /\ ToolInv' /\ SourcesInv'
    BY <2>1, <2>5 DEF Becomes, IdentityInv, ToolInv, SourcesInv, Second, Reading
  <2> QED
    BY <1>1, <2>3, <2>4, <2>6, BuildKeeps
<1>3. CASE ReadHead
  <2>1. build.stage = "identify" /\ Becomes("capture", build.round, head, build.identity, build.tool)
    BY <1>3 DEF ReadHead, At, Becomes, IInv, BuildTypes
  <2>2. BuildTypes' /\ RoundInv'
    BY <1>1, <2>1 DEF Becomes, IInv, BuildTypes, RoundInv, Stage, Making, Reading
  <2>3. CommitInv'
    BY <1>1, <2>1 DEF Becomes, IInv, repository, RepositoryInv, CommitInv, Behind, Commit, Version
  <2>4. IdentityInv' /\ ToolInv'
    BY <1>1, <2>1 DEF Becomes, IInv, repository, IdentityInv, ToolInv, Making, Reading, Second, Third
  <2>5. SourcesInv'
    <3>1. Third' => Third
      BY <2>1 DEF Becomes, Third, Reading
    <3> QED
      BY <1>1, <2>1, <3>1 DEF Becomes, IInv, repository, SourcesInv, Between, Is, Reading
  <2> QED
    BY <1>1, <2>2, <2>3, <2>4, <2>5, BuildKeeps
<1>4. CASE Fail
  <2>1. Turns("idle")
    BY <1>4 DEF Fail, Goes, Turns, Becomes, IInv, BuildTypes
  <2> QED
    BY <1>1, <2>1, BuildKeeps DEF Turns, Becomes, IInv, BuildTypes, RoundInv, CommitInv, IdentityInv,
          ToolInv, SourcesInv, Stage, Making, Reading, Second, Third
<1> QED
  BY <1>2, <1>3, <1>4

\* What lies between a commit and itself is the commit.
LEMMA Squeezed ==
  ASSUME NEW a \in Commit, NEW c \in Content, Between(c, a, a)
  PROVE  c.code = a["code"] /\ c.lock = a["lock"]
  BY DEF Commit, Version, Content, Between, Part

\* The second capture finds the commit that the build began with, so the sources of
\* the files, which were no older then and no newer when it was found clean, are it.
LEMMA CaptureStep == ASSUME ReleaseConstants, IInv, Capture PROVE IInv'
<1>1. /\ UNCHANGED <<repository, dist, manifest, server, sent>> /\ Built' = Built
      /\ build.stage = "capture" /\ build.round \in 1 .. 3
  BY DEF Capture, Built, At, IInv, RoundInv, Reading
<1>2. /\ Becomes(IF build.round = 1 THEN "install" ELSE IF build.round = 2 THEN "snapshot" ELSE "idle",
                 build.round + 1, build.commit, Identity, build.tool)
      /\ head = build.commit /\ (build.round > 1 => Identity = build.identity)
  BY DEF Capture, Becomes, IInv, BuildTypes
<1>3. Identity \in Label /\ Identity.commit = head /\ Behind(head, head)
  BY <1>2 DEF Identity, Label, IInv, RepositoryInv, Commit, Version, Behind, Part
<1>4. BuildTypes' /\ RoundInv' /\ CommitInv'
  BY <1>1, <1>2 DEF Becomes, IInv, BuildTypes, RoundInv, CommitInv, Stage, Making, Reading
<1>5. IdentityInv'
  BY <1>1, <1>2, <1>3 DEF Becomes, repository, IdentityInv
<1>6. ToolInv'
  BY <1>1, <1>2 DEF Becomes, ToolInv, Reading
<1>7. SourcesInv'
  <2>1. ASSUME build.round = 2, NEW f \in Built
        PROVE  Is(dist[f], Identity.commit, build.tool)
    <3>1. Identity = build.identity /\ dist[f] \in Content /\ dist[f].tool = build.tool
      BY <1>1, <1>2, <2>1 DEF IInv, BuildTypes, ToolInv, Reading
    <3>2. Between(dist[f], head, head)
      BY <1>1, <1>3, <2>1, <3>1 DEF IInv, SourcesInv, Reading
    <3> QED
      BY <1>3, <3>1, <3>2, Squeezed DEF IInv, RepositoryInv, Is
  <2> QED
    BY <1>1, <1>2, <2>1 DEF Becomes, SourcesInv, Reading, Third, Is
<1> QED
  BY <1>1, <1>4, <1>5, <1>6, <1>7, BuildKeeps

\* Packages are installed, and old files are removed.
LEMMA InstallStep == ASSUME ReleaseConstants, IInv, Install PROVE IInv'
<1>1. /\ build.stage = "install" /\ Turns("remove") /\ installed' = tree["lock"]
      /\ UNCHANGED <<head, tree, dist, manifest, server, sent>> /\ Built' = Built
  BY DEF Install, At, Goes, Turns, Becomes, IInv, BuildTypes, Built
<1>2. RepositoryInv'
  BY <1>1 DEF IInv, RepositoryInv, Commit, Version, Tool, NoTool, Part, ReleaseConstants
<1>3. BuildTypes' /\ RoundInv' /\ CommitInv' /\ ToolInv' /\ SourcesInv'
  BY <1>1 DEF Turns, Becomes, IInv, BuildTypes, RoundInv, CommitInv, ToolInv, SourcesInv, Stage,
              Making, Reading, Third
<1>4. IdentityInv'
  BY <1>1 DEF Turns, Becomes, IInv, IdentityInv, Second, Third, Making, Reading
<1> QED
  BY <1>1, <1>2, <1>3, <1>4, SentStays, ManifestStays DEF IInv

LEMMA RemoveStep == ASSUME ReleaseConstants, IInv, Remove PROVE IInv'
<1>1. /\ build.stage = "remove" /\ Turns("tools") /\ Built' = {} /\ DOMAIN dist' = File
      /\ UNCHANGED <<repository, manifest, server, sent>>
  BY DEF Remove, At, Goes, Turns, Becomes, IInv, BuildTypes, Built
<1>2. BuildTypes' /\ RoundInv' /\ CommitInv' /\ ToolInv' /\ SourcesInv'
  BY <1>1 DEF Turns, Becomes, IInv, BuildTypes, RoundInv, CommitInv, ToolInv, SourcesInv, Stage,
              Making, Reading, Third
<1>3. IdentityInv'
  BY <1>1 DEF Turns, Becomes, IInv, repository, IdentityInv, Second, Third, Making, Reading
<1> QED
  BY <1>1, <1>2, <1>3, BuildKeeps

\* The toolchain is checked before the build, and after it.
LEMMA ToolsStep == ASSUME ReleaseConstants, IInv, CaptureTools \/ CheckTools PROVE IInv'
<1>1. UNCHANGED <<repository, dist, manifest, server, sent>> /\ Built' = Built
  BY DEF CaptureTools, CheckTools, Built
<1>2. CASE CaptureTools
  <2>1. /\ build.stage = "tools" /\ installed = build.identity.lock
        /\ Becomes("compile", build.round, build.commit, build.identity, installed)
    BY <1>2 DEF CaptureTools, At, Becomes, IInv, BuildTypes
  <2>2. Built = {} /\ build.identity \in Label
    BY <2>1 DEF IInv, ToolInv, IdentityInv, Second, Making
  <2>3. BuildTypes' /\ RoundInv' /\ CommitInv' /\ SourcesInv'
    BY <1>1, <2>1, <2>2 DEF Becomes, IInv, BuildTypes, RoundInv, CommitInv, SourcesInv, Stage,
                Making, Reading, Third
  <2>4. ToolInv' /\ IdentityInv'
    BY <1>1, <2>1, <2>2 DEF Becomes, IInv, repository, IdentityInv, ToolInv, Label, Second, Third,
                Making, Reading
  <2> QED
    BY <1>1, <2>3, <2>4, BuildKeeps
<1>3. CASE CheckTools
  <2>1. build.stage = "check tools" /\ installed = build.tool /\ Turns("check sources")
    BY <1>3 DEF CheckTools, At, Goes, Turns, Becomes, IInv, BuildTypes
  <2>2. BuildTypes' /\ RoundInv' /\ CommitInv' /\ SourcesInv'
    BY <1>1, <2>1 DEF Turns, Becomes, IInv, BuildTypes, RoundInv, CommitInv, SourcesInv, Stage,
                repository, Making, Reading, Third, Between
  <2>3. ToolInv' /\ IdentityInv'
    BY <1>1, <2>1 DEF Turns, Becomes, IInv, repository, IdentityInv, ToolInv, Second, Third,
                Making, Reading
  <2> QED
    BY <1>1, <2>2, <2>3, BuildKeeps
<1> QED
  BY <1>2, <1>3

LEMMA MadeNow ==
  ASSUME ReleaseConstants, NEW low \in Commit, NEW now \in Commit, Behind(low, now), NEW tool \in Tool
  PROVE  LET c == [code |-> now["code"], lock |-> now["lock"], tool |-> tool]
         IN  c \in Content /\ Between(c, low, now)
<1>1. \A p \in Part : low[p] \in Version /\ now[p] \in Version /\ low[p] <= now[p]
  BY DEF Commit, Behind
<1>2. "code" \in Part /\ "lock" \in Part
  BY DEF Part
<1>3. \A n \in Version : n <= n
  BY DEF Version, ReleaseConstants
<1> QED
  BY <1>1, <1>2, <1>3 DEF Content, Between

\* A file is made from what the sources and the packages then are.
LEMMA CompileStep == ASSUME ReleaseConstants, IInv, Compile PROVE IInv'
<1> DEFINE new == [code |-> tree["code"], lock |-> tree["lock"], tool |-> installed]
<1>1. PICK f \in File : dist[f] = None /\ dist' = [dist EXCEPT ![f] = new]
  BY DEF Compile
<1>2. PICK s \in {"compile", "check tools"} : Turns(s)
  BY DEF Compile, Goes, Turns, Becomes, IInv, BuildTypes
<1>3. build.stage = "compile" /\ UNCHANGED <<repository, manifest, server, sent>>
  BY DEF Compile, At
<1>4. new \in Content /\ Between(new, build.identity.commit, tree)
  <2>1. head \in Commit /\ tree \in Commit /\ installed \in Tool /\ Behind(head, tree)
    BY DEF IInv, RepositoryInv
  <2>2. build.identity.commit \in Commit /\ Behind(build.identity.commit, tree)
    BY <1>3, <2>1, Ordered DEF IInv, IdentityInv, Second, Making, Label
  <2> QED
    BY <2>1, <2>2, MadeNow
<1>5. new.tool = installed
  OBVIOUS
<1> HIDE DEF new
<1>6. /\ DOMAIN dist' = File /\ Built' \subseteq Built \union {f} /\ dist'[f] = new
      /\ \A g \in Built' : g # f => g \in Built /\ dist'[g] = dist[g]
  BY <1>1 DEF IInv, BuildTypes, Built
<1>7. BuildTypes' /\ RoundInv' /\ CommitInv'
  BY <1>2, <1>3, <1>4, <1>6 DEF Turns, Becomes, IInv, BuildTypes, RoundInv, CommitInv, Stage, Making,
                               Reading
<1>8. IdentityInv'
  BY <1>2, <1>3 DEF Turns, Becomes, IInv, repository, IdentityInv, Second, Third, Making, Reading
<1>9. ToolInv'
  BY <1>2, <1>3, <1>5, <1>6 DEF Turns, Becomes, IInv, repository, ToolInv, Reading
<1>10. SourcesInv'
  <2>1. ASSUME NEW g \in Built' PROVE Between(dist[g], build.identity.commit, tree)'
    BY <1>2, <1>3, <1>4, <1>6, <2>1 DEF Turns, Becomes, IInv, repository, SourcesInv, Between
  <2>2. build'.stage \in {"compile", "check tools"}
    BY <1>2 DEF Turns, Becomes
  <2> QED
    BY <2>1, <2>2 DEF SourcesInv, Reading, Third
<1> QED
  BY <1>3, <1>7, <1>8, <1>9, <1>10, BuildKeeps

\* The worktree is clean: no file is newer than the commit.
LEMMA CheckStep == ASSUME ReleaseConstants, IInv, CheckSources PROVE IInv'
<1>1. /\ UNCHANGED <<repository, dist, manifest, server, sent>> /\ Built' = Built
      /\ build.stage = "check sources" /\ tree = head /\ Turns("identify") /\ build.round = 2
  BY DEF CheckSources, Clean, At, Goes, Turns, Becomes, Built, IInv, BuildTypes, RoundInv, Making
<1>2. build'.stage = "identify" /\ build'.round = 2
  BY <1>1 DEF Turns, Becomes
<1>3. BuildTypes'
  BY <1>1 DEF Turns, Becomes, IInv, BuildTypes, Stage
<1>4. RoundInv' /\ CommitInv'
  BY <1>2 DEF RoundInv, CommitInv, Making, Reading
<1>5. IdentityInv' /\ ToolInv'
  BY <1>1 DEF Turns, Becomes, IInv, repository, IdentityInv, ToolInv, Second, Third, Making, Reading
<1>6. SourcesInv'
  <2>1. ASSUME NEW f \in Built PROVE Between(dist[f], build.identity.commit, head)'
    BY <1>1, <2>1 DEF Turns, Becomes, IInv, repository, SourcesInv, Between
  <2>2. ~Third'
    BY <1>2 DEF Third
  <2> QED
    BY <1>1, <1>2, <2>1, <2>2 DEF SourcesInv
<1> QED
  BY <1>1, <1>3, <1>4, <1>5, <1>6, BuildKeeps

\* The manifest is written.
LEMMA ManifestStep == ASSUME ReleaseConstants, IInv, Snapshot \/ Write PROVE IInv'
<1>1. UNCHANGED <<repository, dist, server, sent>> /\ Built' = Built
  BY DEF Snapshot, Write, Built
<1>2. RepositoryInv' /\ LabelsAreTrue'
  BY <1>1, SentStays DEF IInv, repository, RepositoryInv
<1>3. CASE Snapshot
  <2>1. build.stage = "snapshot" /\ Turns("write") /\ manifest' = Torn /\ Built = File
    BY <1>3 DEF Snapshot, At, Goes, Turns, Becomes, IInv, BuildTypes, Built
  <2>2. BuildTypes' /\ RoundInv' /\ CommitInv' /\ IdentityInv'
    BY <1>1, <2>1 DEF Turns, Becomes, IInv, BuildTypes, RoundInv, CommitInv, IdentityInv, repository,
                      Stage, Making, Reading, Second, Third
  <2>3. ToolInv' /\ SourcesInv'
    BY <1>1, <2>1 DEF Turns, Becomes, IInv, ToolInv, SourcesInv, Reading, Third, Is
  <2>4. ManifestInv'
    BY <1>1, <2>1 DEF IInv, ManifestInv, True
  <2> QED
    BY <1>2, <2>2, <2>3, <2>4 DEF IInv
<1>4. CASE Write
  <2>1. /\ build.stage = "write" /\ Turns("identify") /\ build.round = 3
        /\ manifest' = [identity |-> build.identity, tool |-> build.tool, dist |-> dist]
    BY <1>4 DEF Write, At, Goes, Turns, Becomes, IInv, BuildTypes, RoundInv
  <2>2. BuildTypes' /\ RoundInv' /\ CommitInv' /\ IdentityInv'
    BY <1>1, <2>1 DEF Turns, Becomes, IInv, BuildTypes, RoundInv, CommitInv, IdentityInv, repository,
                      Stage, Making, Reading, Second, Third
  <2>3. ToolInv' /\ SourcesInv'
    BY <1>1, <2>1 DEF Turns, Becomes, IInv, ToolInv, SourcesInv, Reading, Third, Is
  <2>4. \A f \in File : Is(dist[f], build.identity.commit, build.tool)
    BY <2>1 DEF IInv, SourcesInv, Third
  <2>5. True(manifest')
    BY <2>1, <2>4 DEF True, Is
  <2>6. ManifestInv'
    BY <1>1, <2>5 DEF IInv, ManifestInv, True
  <2> QED
    BY <1>2, <2>2, <2>3, <2>6 DEF IInv
<1> QED
  BY <1>3, <1>4

\* The server holds a manifest that was on the disk, and sends what it lists.
LEMMA ServerStep ==
  ASSUME ReleaseConstants, IInv, LoadManifest \/ CheckIdentity \/ CheckFiles \/ Stop \/ Serve
  PROVE  IInv'
<1>1. UNCHANGED <<repository, dist, manifest, build>> /\ Built' = Built
  BY DEF LoadManifest, CheckIdentity, CheckFiles, Stop, Serve, Serving, Built
<1>2. RepositoryInv' /\ BuildTypes' /\ RoundInv' /\ CommitInv' /\ IdentityInv'
  BY <1>1 DEF IInv, repository, RepositoryInv, BuildTypes, RoundInv, CommitInv, IdentityInv, Second,
              Third, Reading, Making
<1>3. ToolInv' /\ SourcesInv'
  BY <1>1 DEF IInv, repository, ToolInv, SourcesInv, Third, Reading, Making, Is, Between
<1>4. CASE LoadManifest \/ CheckIdentity \/ CheckFiles \/ Stop
  <2>1. \/ server' = [stage |-> "off", manifest |-> None]
        \/ \E stage \in {"sources", "files", "on"}, m \in {manifest, server.manifest} :
             /\ server' = [stage |-> stage, manifest |-> m]
             /\ m \notin {None, Torn} /\ True(m)
    <3>1. server.stage # "off" => server.manifest \notin {None, Torn} /\ True(server.manifest)
      BY DEF IInv, ManifestInv
    <3>2. True(manifest)
      BY DEF IInv, ManifestInv
    <3> QED
      BY <1>4, <3>1, <3>2 DEF LoadManifest, CheckIdentity, CheckFiles, Stop, Serving
  <2>2. ManifestInv'
    BY <1>1, <2>1 DEF IInv, ManifestInv, True
  <2>3. UNCHANGED sent
    BY <1>4 DEF LoadManifest, CheckIdentity, CheckFiles, Stop, Serving
  <2>4. LabelsAreTrue'
    BY <2>3, SentStays
  <2> QED
    BY <1>2, <1>3, <2>2, <2>4 DEF IInv
<1>5. CASE Serve
  <2>1. PICK f \in File : Listed(f) /\ sent' = [content |-> dist[f], under |-> server.manifest]
    BY <1>5 DEF Serve
  <2>2. Is(server.manifest.dist[f], server.manifest.identity.commit, server.manifest.tool)
    BY <1>5, <2>1 DEF Serve, IInv, ManifestInv, True
  <2>3. LabelsAreTrue'
    BY <2>1, <2>2 DEF Listed, Is, LabelsAreTrue
  <2>4. ManifestInv'
    BY <1>5, ManifestStays DEF Serve
  <2> QED
    BY <1>2, <1>3, <2>3, <2>4 DEF IInv
<1> QED
  BY <1>4, <1>5

-----------------------------------------------------------------------------
LEMMA StepInv ==
  ASSUME ReleaseConstants, ~Undo, IInv, [ReleaseNext]_releaseVars
  PROVE  IInv'
<1>1. CASE ReleaseNext
  BY <1>1, OthersStep, BeginStep, CaptureStep, InstallStep, RemoveStep, ToolsStep, CompileStep,
     CheckStep, ManifestStep, ServerStep DEF ReleaseNext
<1>2. CASE UNCHANGED releaseVars
  <2>1. Behind(head, head') /\ Behind(tree, tree') /\ RepositoryInv'
    BY <1>2 DEF releaseVars, IInv, RepositoryInv, Commit, Version, Behind
  <2> QED
    BY <1>2, <2>1, OthersKeep DEF releaseVars
<1> QED
  BY <1>1, <1>2

\* A file is sent under the label of the commit and of the tools it was built from,
\* however the repository is edited and builds are stopped or overlap with the server
\* (serve_phase26_dist.mjs, serveStatic; build_phase26_dist.mjs), if no change is taken
\* back between two checks.
THEOREM FilesAreLabelled ==
  ASSUME ReleaseConstants, ~Undo PROVE ReleaseSpec => []LabelsAreTrue
<1>1. ReleaseInit => IInv
  BY InitInv
<1>2. IInv /\ [ReleaseNext]_releaseVars => IInv'
  BY StepInv
<1>3. IInv => LabelsAreTrue
  BY DEF IInv
<1> QED
  BY <1>1, <1>2, <1>3, PTL DEF ReleaseSpec

-----------------------------------------------------------------------------
(* The chooser.  The log only grows, and so do the versions that the cache and *)
(* the columns of the sheet have.                                              *)
Versions == 1 .. Current
ClientTypes ==
  /\ log \in Seq([on : BOOLEAN, act : SUBSET Codes]) /\ Current > 0
  /\ kind \in {"form", "sheet"}
  /\ sum \in Versions \cup {Unknown} /\ sreq \in Versions \cup {Unknown}
  /\ sum # Unknown /\ sreq # Unknown => sum <= sreq
  /\ target \in Versions
  /\ IF sum = Unknown THEN target = 1 ELSE target <= sum
Preparation == [gen : Nat, on : BOOLEAN, err : BOOLEAN]
Chooser == [open : BOOLEAN, gen : Nat, preparing : BOOLEAN, ready : Nat \cup {Unknown},
            err : BOOLEAN, since : Nat \cup {Unknown}, offered : BOOLEAN]
ChooserTypes ==
  /\ prep \in Preparation /\ chooser \in Chooser
  /\ chooser.open => chooser.since \in Versions

\* Confirmations of openings, the latest of them, and those that have a summary.
OfOpening(l) == l.who = "open"
Last(l) == OfOpening(l) /\ l.gen = prep.gen
Informed(l) == l.phase # "summary"
LoadsFit ==
  \A l \in loads :
    /\ l.who \in {"open", "auth"}
    /\ Informed(l) => l.v \in Versions /\ sum # Unknown /\ l.v <= sum
    /\ OfOpening(l) => /\ l.gen \in Nat /\ l.turn \in Nat /\ l.gen <= prep.gen /\ l.turn <= chooser.gen
                       /\ l.gen < prep.gen => l.turn < chooser.gen

\* One request for each version; a request is answered with no older one.
AsksFit ==
  kind = "sheet" => /\ \A r \in areq : r[1] \in Nat \ {0} /\ r[2] \in Nat /\ r[1] <= r[2]
                    /\ \A r, q \in areq : r[1] = q[1] => r = q
                    /\ \A l \in loads : l.phase # "options"

\* A resource on display that is ready is of the versions at hand or earlier.
LiveFits ==
  live.ready => /\ live.t \in Nat /\ live.t <= target
                /\ live.s \in Versions /\ sum # Unknown /\ live.s <= sum

\* The summary is as new as the opening asked for, or will be.
Fresh == sum # Unknown /\ sum >= chooser.since
Confirming ==
  chooser.open =>
    /\ sreq # Unknown => sreq >= chooser.since
    /\ \A l \in loads : Last(l) /\ Informed(l) => l.v >= chooser.since
    /\ kind = "form" /\ ~prep.on /\ ~prep.err => Fresh
    /\ chooser.preparing /\ ~Fresh =>
         \E l \in loads : OfOpening(l) /\ l.turn = chooser.gen /\ ~Informed(l)

\* A sheet may be opened on an older display only if the user is that quick.
Timely == kind = "form" \/ ~LateRenders

\* Until then the options of the sheet stay what they were, or fail for good.
NoOlder == \A r \in areq : target <= r[1]
Steady == NoOlder /\ sum = target /\ target \in aggs /\ ~sumErr /\ log[target].on
Stuck == NoOlder /\ sum = target /\ target \in aggs /\ Failed(target) /\ ~AskedFor(target)
StaleRests ==
  kind = "sheet" /\ ~LateRenders /\ chooser.open /\ ~chooser.err /\ ~Fresh =>
    /\ chooser.preparing \/ (Stuck /\ ~live.ready)
    /\ live.ready => Steady /\ (Failed(target) => Stuck)

\* What is offered and what was chosen is new enough.
OfferFits ==
  chooser.offered => /\ chooser.open /\ live.v \in Versions /\ (Timely => live.v >= chooser.since)
                     /\ live.on => log[live.v].on
ChosenFits == chosen # Unknown => /\ chosen.v \in Versions /\ (Timely => chosen.v >= chosen.since)
                                  /\ log[chosen.v].on /\ chosen.code \in log[chosen.v].act

ClientInv == /\ ClientTypes /\ ChooserTypes /\ LoadsFit /\ AsksFit /\ LiveFits /\ Confirming
             /\ StaleRests /\ OfferFits /\ ChosenFits

LEMMA LatestOf ==
  ASSUME ClientConstants, NEW a \in Nat, NEW b \in Nat
  PROVE  /\ Latest(a, b) \in {a, b} /\ Latest(a, b) >= a /\ Latest(a, b) >= b
BY DEF ClientConstants, Latest

\* A refetch asks for the latest version, or is the very first that is under way.
LEMMA RefetchedFits ==
  ASSUME ClientConstants, ClientTypes
  PROVE  /\ Refetched \in Versions
         /\ sum # Unknown => Refetched >= sum
         /\ Refetched = Current \/ Refetched = sreq
BY DEF ClientConstants, ClientTypes, Refetched, Versions, Current

\* What a failure does to the preparations and to the chooser.
LEMMA PreparationSettles ==
  ASSUME ChooserTypes, NEW ls
  PROVE  /\ SettlePreparation(ls) \in Preparation
         /\ SettlePreparation(ls).gen = prep.gen
         /\ SettlePreparation(ls) = prep \/ SettlePreparation(ls).err
<1>1. CASE \E l \in ls : l.who = "open" /\ l.gen = prep.gen
  BY <1>1 DEF ChooserTypes, SettlePreparation, Preparation
<1>2. CASE ~\E l \in ls : l.who = "open" /\ l.gen = prep.gen
  BY <1>2 DEF ChooserTypes, SettlePreparation, Preparation
<1> QED BY <1>1, <1>2

LEMMA ChooserFails ==
  ASSUME ChooserTypes, NEW ls, NEW c, c = PrepareFailed(ls)
  PROVE  /\ c \in Chooser
         /\ c.open = chooser.open /\ c.gen = chooser.gen
         /\ c.since = chooser.since /\ c.offered = chooser.offered
         /\ c = chooser \/ (c.err /\ ~c.preparing)
         /\ chooser.open /\ (\E l \in ls : OfOpening(l) /\ l.turn = chooser.gen) =>
              c.err /\ ~c.preparing
<1>1. CASE chooser.open /\ \E l \in ls : l.who = "open" /\ l.turn = chooser.gen
  <2>1. c = [open |-> chooser.open, gen |-> chooser.gen, preparing |-> FALSE, ready |-> Unknown,
             err |-> TRUE, since |-> chooser.since, offered |-> chooser.offered]
    BY <1>1 DEF PrepareFailed, Preparing
  <2> QED BY <2>1 DEF ChooserTypes, Chooser
<1>2. CASE ~(chooser.open /\ \E l \in ls : l.who = "open" /\ l.turn = chooser.gen)
  <2>1. c = chooser
    BY <1>2 DEF PrepareFailed
  <2> QED BY <1>2, <2>1 DEF ChooserTypes, OfOpening
<1> QED BY <1>1, <1>2

\* What the chooser does when its options are trusted no more, or again.
LEMMA ChooserNotices ==
  ASSUME ChooserTypes, NEW was, NEW is, NEW c, c = NoticeReadiness(was, is)
  PROVE  /\ c \in Chooser
         /\ c.open = chooser.open /\ c.gen >= chooser.gen
         /\ c.since = chooser.since /\ c.offered = chooser.offered /\ c.err = chooser.err
         /\ c.preparing => c = chooser
         /\ was /\ is => c = chooser
         /\ ~was /\ ~is => c = chooser
         /\ chooser.preparing /\ ~was => c = chooser
<1>1. CASE chooser.open /\ was /\ ~is
  <2>1. c = [open |-> chooser.open, gen |-> chooser.gen + 1, preparing |-> FALSE, ready |-> Unknown,
             err |-> chooser.err, since |-> chooser.since, offered |-> chooser.offered]
    BY <1>1 DEF NoticeReadiness, ReadinessLost, Preparing
  <2>2. c.gen = chooser.gen + 1 /\ ~c.preparing /\ c.open = chooser.open
    BY <2>1
  <2>3. c \in Chooser /\ c.since = chooser.since /\ c.offered = chooser.offered /\ c.err = chooser.err
    BY <2>1 DEF ChooserTypes, Chooser
  <2>4. ~(was /\ is) /\ ~(~was /\ ~is) /\ ~(chooser.preparing /\ ~was)
    BY <1>1
  <2>5. c.gen >= chooser.gen
    BY <2>2 DEF ChooserTypes, Chooser
  <2> QED BY <2>2, <2>3, <2>4, <2>5
<1>2. CASE chooser.open /\ ~was /\ is /\ ~chooser.preparing /\ ~chooser.err
  <2>1. c = [chooser EXCEPT !.ready = chooser.gen]
    BY <1>2 DEF NoticeReadiness, ReadinessRestored
  <2>2. c \in Chooser /\ c.open = chooser.open /\ c.gen = chooser.gen /\ c.preparing = chooser.preparing
    BY <2>1 DEF ChooserTypes, Chooser
  <2>3. c.since = chooser.since /\ c.offered = chooser.offered /\ c.err = chooser.err
    BY <2>1 DEF ChooserTypes, Chooser
  <2>4. ~(was /\ is) /\ ~(~was /\ ~is) /\ ~(chooser.preparing /\ ~was)
    BY <1>2
  <2>5. c.gen >= chooser.gen
    BY <2>2 DEF ChooserTypes, Chooser
  <2>6. ~c.preparing
    BY <1>2, <2>2
  <2> QED BY <2>2, <2>3, <2>4, <2>5, <2>6
<1>3. CASE ~(chooser.open /\ was /\ ~is) /\ ~(chooser.open /\ ~was /\ is /\ ~chooser.preparing /\ ~chooser.err)
  <2>1. c = chooser
    BY <1>3 DEF NoticeReadiness, ReadinessRestored
  <2> QED BY <2>1 DEF ChooserTypes, Chooser
<1> QED BY <1>1, <1>2, <1>3

LEMMA ChooserPrepared ==
  ASSUME NEW b \in Chooser, NEW l, l.turn \in Nat, NEW c, c = PrepareSucceeded(b, l)
  PROVE  /\ c \in Chooser
         /\ c.open = b.open /\ c.gen = b.gen /\ c.since = b.since /\ c.offered = b.offered
         /\ c.preparing => c = b
         /\ l.turn # b.gen => c = b
<1>1. CASE b.open /\ l.turn = b.gen
  <2>1. c = [open |-> b.open, gen |-> b.gen, preparing |-> FALSE, ready |-> l.turn,
             err |-> FALSE, since |-> b.since, offered |-> b.offered]
    BY <1>1 DEF PrepareSucceeded, Preparing
  <2> QED BY <1>1, <2>1 DEF Chooser
<1>2. CASE ~(b.open /\ l.turn = b.gen)
  BY <1>2 DEF PrepareSucceeded
<1> QED BY <1>1, <1>2

\* A request is for a version that no other request is for.
LEMMA FetchingFits ==
  ASSUME ClientTypes, AsksFit, kind = "sheet", NEW v \in Versions, NEW reqs \in SUBSET areq,
         NEW fetched, fetched = Fetching(v, reqs)
  PROVE  /\ \A r \in fetched : r[1] \in Nat \ {0} /\ r[2] \in Nat /\ r[1] <= r[2]
         /\ \A r, q \in fetched : r[1] = q[1] => r = q
BY DEF ClientTypes, AsksFit, Fetching, AskedFor, Versions, Current

LEMMA WritingFits ==
  ASSUME ClientConstants, ClientInv, OtherAdminWrites
  PROVE  ClientInv'
<1> USE DEF ClientInv, OtherAdminWrites, cache, hooks
<1>1. /\ log' \in Seq([on : BOOLEAN, act : SUBSET Codes]) /\ Current' > 0
      /\ Versions \subseteq Versions'
      /\ \A v \in Versions : log'[v] = log[v]
  <2>1. PICK on \in BOOLEAN, act \in SUBSET Codes : log' = Append(log, [on |-> on, act |-> act])
    OBVIOUS
  <2>2. log \in Seq([on : BOOLEAN, act : SUBSET Codes])
    BY DEF ClientTypes
  <2>3. [on |-> on, act |-> act] \in [on : BOOLEAN, act : SUBSET Codes]
    BY <2>1
  <2> QED BY <2>1, <2>2, <2>3 DEF Versions, Current
<1>2. ClientTypes' /\ ChooserTypes' /\ LoadsFit' /\ AsksFit' /\ LiveFits'
  <2>1. ClientTypes'
    BY <1>1 DEF ClientTypes
  <2>2. ChooserTypes' /\ LoadsFit'
    BY <1>1 DEF ChooserTypes, LoadsFit
  <2>3. AsksFit' /\ LiveFits'
    BY <1>1 DEF AsksFit, LiveFits
  <2> QED BY <2>1, <2>2, <2>3
<1>3. Confirming'
  BY DEF Confirming, Fresh, Last
<1>4. StaleRests'
  <2>1. target \in Versions
    BY DEF ClientTypes
  <2>2. (Stuck <=> Stuck') /\ (Fresh <=> Fresh') /\ (Failed(target) <=> Failed(target)')
    BY DEF Stuck, NoOlder, Failed, AskedFor, Fresh
  <2>3. Steady <=> Steady'
    BY <1>1, <2>1 DEF Steady, NoOlder
  <2> QED BY <2>2, <2>3 DEF StaleRests
<1>5. OfferFits' /\ ChosenFits'
  <2>1. OfferFits'
    BY <1>1 DEF OfferFits, Timely
  <2>2. ChosenFits'
    BY <1>1 DEF ChosenFits, Timely
  <2> QED BY <2>1, <2>2
<1> QED BY <1>2, <1>3, <1>4, <1>5

LEMMA ReadingFits ==
  ASSUME ClientConstants, ClientInv, RefetchSummary
  PROVE  ClientInv'
<1> USE DEF ClientInv, RefetchSummary, hooks
<1>1. ClientTypes' /\ ChooserTypes' /\ LoadsFit' /\ AsksFit' /\ LiveFits'
  <2>1. ClientTypes'
    BY DEF ClientTypes, Versions, Current
  <2>2. ChooserTypes' /\ LoadsFit'
    BY DEF ChooserTypes, LoadsFit, Versions, Current
  <2>3. AsksFit' /\ LiveFits'
    BY DEF AsksFit, LiveFits, Versions, Current
  <2> QED BY <2>1, <2>2, <2>3
<1>2. Confirming'
  <2>1. chooser.open => Current >= chooser.since
    BY DEF ChooserTypes, ClientTypes, Versions, Current
  <2> QED BY <2>1 DEF Confirming, Fresh, Last
<1>3. StaleRests'
  BY DEF StaleRests, Stuck, Steady, NoOlder, Failed, AskedFor, Fresh
<1>4. OfferFits' /\ ChosenFits'
  BY DEF OfferFits, ChosenFits, Timely, Versions, Current
<1> QED BY <1>1, <1>2, <1>3, <1>4


LEMMA AggregateAnsweredFits ==
  ASSUME ClientConstants, ClientInv, AggregateAnswered
  PROVE  ClientInv'
<1> USE DEF ClientInv, AggregateAnswered, hooks
<1>1. PICK r \in areq :
         /\ areq' = areq \ {r} /\ aggs' = aggs \cup {r[2]}
         /\ IF r[1] = r[2] THEN /\ aerr' = {e \in aerr : e[1] # r[2]} /\ UNCHANGED sreq
            ELSE /\ aerr' = {e \in aerr : e[1] # r[2]} \cup {<<r[1], "advanced">>} /\ sreq' = Refetched
  OBVIOUS
<1>2. /\ sreq' \in Versions \cup {Unknown}
      /\ sum # Unknown /\ sreq' # Unknown => sum <= sreq'
      /\ sreq' = sreq \/ sreq' = Current
  BY <1>1, RefetchedFits DEF ClientTypes
<1>3. ClientTypes' /\ ChooserTypes' /\ LoadsFit' /\ AsksFit' /\ LiveFits'
  <2>1. ClientTypes'
    BY <1>2 DEF ClientTypes, Versions, Current
  <2>2. ChooserTypes' /\ LoadsFit'
    BY DEF ChooserTypes, LoadsFit, Versions, Current
  <2>3. AsksFit' /\ LiveFits'
    BY <1>1 DEF AsksFit, LiveFits, Versions, Current
  <2> QED BY <2>1, <2>2, <2>3
<1>4. Confirming'
  <2>1. chooser.open => Current >= chooser.since
    BY DEF ChooserTypes, ClientTypes, Versions, Current
  <2> QED BY <1>2, <2>1 DEF Confirming, Fresh, Last
<1>5. StaleRests'
  <2> SUFFICES ASSUME kind = "sheet", ~LateRenders, chooser.open, ~chooser.err, ~Fresh
               PROVE  /\ chooser.preparing \/ (Stuck' /\ ~live.ready)
                      /\ live.ready => Steady' /\ (Failed(target)' => Stuck')
    BY DEF StaleRests, Fresh
  <2>1. NoOlder => NoOlder'
    BY <1>1 DEF NoOlder
  <2>2. target \in aggs => target \in aggs'
    BY <1>1
  <2>3. Stuck => Stuck'
    <3> SUFFICES ASSUME Stuck PROVE Stuck'
      OBVIOUS
    <3>1. r[1] # target /\ target <= r[1] /\ r[1] <= r[2]
      BY <1>1 DEF Stuck, NoOlder, AskedFor, AsksFit
    <3>2. r[2] # target
      BY <1>1, <3>1 DEF AsksFit, ClientTypes, Versions, Current
    <3>3. Failed(target)'
      BY <1>1, <3>2 DEF Stuck, Failed
    <3>4. ~AskedFor(target)'
      BY <1>1 DEF Stuck, AskedFor
    <3> QED BY <2>1, <2>2, <3>3, <3>4 DEF Stuck
  <2>4. Steady => Steady'
    BY <2>1, <2>2 DEF Steady
  <2>5. Failed(target)' => Failed(target) \/ r[1] = target
    BY <1>1 DEF Failed
  <2>6. r[1] = target => ~AskedFor(target)'
    BY <1>1 DEF AskedFor, AsksFit
  <2>7. Steady /\ r[1] = target /\ Failed(target)' => Stuck'
    BY <2>1, <2>2, <2>6 DEF Stuck, Steady
  <2> QED BY <2>3, <2>4, <2>5, <2>7 DEF StaleRests
<1>6. OfferFits' /\ ChosenFits'
  BY DEF OfferFits, ChosenFits, Timely, Versions, Current
<1> QED BY <1>3, <1>4, <1>5, <1>6

LEMMA AggregateFailsFits ==
  ASSUME ClientConstants, ClientInv, AggregateFails
  PROVE  ClientInv'
<1> USE DEF ClientInv, AggregateFails, hooks
<1>1. PICK r \in areq : areq' = areq \ {r} /\ aerr' = aerr \cup {<<r[1], "failed">>}
  OBVIOUS
<1>2. ClientTypes' /\ ChooserTypes' /\ LoadsFit' /\ AsksFit' /\ LiveFits'
  <2>1. ClientTypes'
    BY DEF ClientTypes, Versions, Current
  <2>2. ChooserTypes' /\ LoadsFit'
    BY DEF ChooserTypes, LoadsFit, Versions, Current
  <2>3. AsksFit' /\ LiveFits'
    BY <1>1 DEF AsksFit, LiveFits, Versions, Current
  <2> QED BY <2>1, <2>2, <2>3
<1>3. Confirming'
  BY DEF Confirming, Fresh, Last
<1>4. StaleRests'
  <2> SUFFICES ASSUME kind = "sheet", ~LateRenders, chooser.open, ~chooser.err, ~Fresh
               PROVE  /\ chooser.preparing \/ (Stuck' /\ ~live.ready)
                      /\ live.ready => Steady' /\ (Failed(target)' => Stuck')
    BY DEF StaleRests, Fresh
  <2>1. NoOlder => NoOlder'
    BY <1>1 DEF NoOlder
  <2>2. Stuck => Stuck'
    BY <1>1, <2>1 DEF Stuck, Failed, AskedFor
  <2>3. Steady => Steady'
    BY <2>1 DEF Steady
  <2>4. Failed(target)' => Failed(target) \/ r[1] = target
    BY <1>1 DEF Failed
  <2>5. r[1] = target => ~AskedFor(target)'
    BY <1>1 DEF AskedFor, AsksFit
  <2>6. Steady /\ r[1] = target /\ Failed(target)' => Stuck'
    BY <2>1, <2>5 DEF Stuck, Steady
  <2> QED BY <2>2, <2>3, <2>4, <2>6 DEF StaleRests
<1>5. OfferFits' /\ ChosenFits'
  BY DEF OfferFits, ChosenFits, Timely, Versions, Current
<1> QED BY <1>2, <1>3, <1>4, <1>5

\* Confirmations that are given up leave the chooser with an error, if it waits.
LEMMA GivingUpFits ==
  ASSUME ClientConstants, ClientInv,
         NEW ls \in SUBSET loads, loads' = loads \ ls, LoadsFail(ls),
         sreq' = sreq \/ sreq' = Unknown, sumErr' = sumErr \/ ls = Waiting,
         UNCHANGED <<log, kind, sum, aggs, areq, aerr, target, live, chosen>>
  PROVE  ClientInv'
<1> USE DEF ClientInv, LoadsFail
<1>1. /\ prep' \in Preparation /\ prep'.gen = prep.gen
      /\ prep' = prep \/ prep'.err
  BY PreparationSettles
<1>2. /\ chooser' \in Chooser /\ chooser'.open = chooser.open /\ chooser'.gen = chooser.gen
      /\ chooser'.since = chooser.since /\ chooser'.offered = chooser.offered
      /\ chooser' = chooser \/ (chooser'.err /\ ~chooser'.preparing)
      /\ chooser.open /\ (\E l \in ls : OfOpening(l) /\ l.turn = chooser.gen) =>
           chooser'.err /\ ~chooser'.preparing
  BY ChooserFails
<1>3. ClientTypes' /\ ChooserTypes' /\ LoadsFit' /\ AsksFit' /\ LiveFits'
  <2>1. ClientTypes'
    BY DEF ClientTypes, Versions, Current
  <2>2. ChooserTypes'
    BY <1>1, <1>2 DEF ChooserTypes, Versions, Current
  <2>3. LoadsFit'
    BY <1>1, <1>2 DEF LoadsFit, Versions, Current
  <2>4. AsksFit' /\ LiveFits'
    BY DEF AsksFit, LiveFits, Versions, Current
  <2> QED BY <2>1, <2>2, <2>3, <2>4
<1>4. Confirming'
  <2> SUFFICES ASSUME chooser.open
               PROVE  (/\ sreq # Unknown => sreq >= chooser.since
                       /\ \A l \in loads : Last(l) /\ Informed(l) => l.v >= chooser.since
                       /\ kind = "form" /\ ~prep.on /\ ~prep.err => Fresh
                       /\ chooser.preparing /\ ~Fresh =>
                            \E l \in loads : OfOpening(l) /\ l.turn = chooser.gen /\ ~Informed(l))'
    BY <1>2 DEF Confirming
  <2>1. (Fresh <=> Fresh') /\ \A l : (Last(l) <=> Last(l)')
    BY <1>1, <1>2 DEF Fresh, Last
  <2>2. (sreq # Unknown => sreq >= chooser.since)'
    BY <1>2 DEF Confirming
  <2>3. (\A l \in loads : Last(l) /\ Informed(l) => l.v >= chooser.since)'
    BY <1>2, <2>1 DEF Confirming
  <2>4. (kind = "form" /\ ~prep.on /\ ~prep.err => Fresh)'
    BY <1>1, <2>1 DEF Confirming
  <2>5. (chooser.preparing /\ ~Fresh =>
           \E l \in loads : OfOpening(l) /\ l.turn = chooser.gen /\ ~Informed(l))'
    <3> SUFFICES ASSUME chooser'.preparing, ~Fresh'
                 PROVE  \E l \in loads' : OfOpening(l) /\ l.turn = chooser'.gen /\ ~Informed(l)
      OBVIOUS
    <3>1. chooser' = chooser
      BY <1>2
    <3>2. PICK l \in loads : OfOpening(l) /\ l.turn = chooser.gen /\ ~Informed(l)
      BY <2>1, <3>1 DEF Confirming
    <3>3. l \notin ls
      BY <1>2, <3>2
    <3> QED BY <3>1, <3>2, <3>3
  <2> QED BY <2>2, <2>3, <2>4, <2>5
<1>5. StaleRests'
  <2> SUFFICES ASSUME kind = "sheet", ~LateRenders, chooser.open, ~chooser'.err, ~Fresh
               PROVE  /\ chooser'.preparing \/ (Stuck' /\ ~live.ready)
                      /\ live.ready => Steady' /\ (Failed(target)' => Stuck')
    BY <1>2 DEF StaleRests, Fresh
  <2>1. chooser' = chooser
    BY <1>2
  <2>2. Stuck <=> Stuck'
    BY DEF Stuck, NoOlder, Failed, AskedFor
  <2>3. sumErr' # sumErr => ~chooser.preparing
    <3> SUFFICES ASSUME ls = Waiting, chooser.preparing PROVE FALSE
      OBVIOUS
    <3>1. PICK l \in loads : OfOpening(l) /\ l.turn = chooser.gen /\ ~Informed(l)
      BY DEF Confirming
    <3>2. l \in ls
      BY <3>1 DEF Waiting, Informed
    <3> QED BY <1>2, <2>1, <3>1, <3>2
  <2>4. Steady /\ chooser.preparing => Steady'
    BY <2>3 DEF Steady, NoOlder
  <2> QED BY <2>1, <2>2, <2>4 DEF StaleRests, Failed
<1>6. OfferFits' /\ ChosenFits'
  BY <1>2 DEF OfferFits, ChosenFits, Timely, Versions, Current
<1> QED BY <1>3, <1>4, <1>5, <1>6

LEMMA SummaryFailsFits ==
  ASSUME ClientConstants, ClientInv, SummaryFails
  PROVE  ClientInv'
<1>1. Waiting \in SUBSET loads
  BY DEF Waiting
<1> QED BY <1>1, GivingUpFits DEF SummaryFails

LEMMA LoadFailsFits ==
  ASSUME ClientConstants, ClientInv, LoadFails
  PROVE  ClientInv'
<1>1. PICK l \in loads : loads' = loads \ {l} /\ LoadsFail({l})
  BY DEF LoadFails
<1>2. UNCHANGED <<log, kind, sum, sumErr, sreq, aggs, areq, aerr, target, live, chosen>>
  BY DEF LoadFails, cache
<1> QED BY <1>1, <1>2, GivingUpFits

LEMMA LoadAsksFits ==
  ASSUME ClientConstants, ClientInv, LoadAsks
  PROVE  ClientInv'
<1> USE DEF ClientInv, LoadAsks
<1>1. PICK l \in loads :
         l.phase = "options" /\ loads' = (loads \ {l}) \cup {Going(l, l.v, l.tries, "wait")}
  OBVIOUS
<1>2. kind # "sheet"
  BY <1>1 DEF AsksFit
<1> DEFINE on == Going(l, l.v, l.tries, "wait")
<1>3. /\ on.who = l.who /\ on.gen = l.gen /\ on.turn = l.turn /\ on.v = l.v
      /\ Informed(on) /\ Informed(l)
  BY <1>1 DEF Going, Informed
<1> HIDE DEF on
<1>4. ClientTypes' /\ ChooserTypes' /\ LoadsFit' /\ AsksFit' /\ LiveFits'
  <2>1. ClientTypes' /\ ChooserTypes'
    BY DEF ClientTypes, ChooserTypes, Versions, Current
  <2>2. LoadsFit'
    BY <1>1, <1>3 DEF LoadsFit, OfOpening, Versions, Current, on
  <2>3. AsksFit' /\ LiveFits'
    BY <1>2 DEF AsksFit, LiveFits, Versions, Current
  <2> QED BY <2>1, <2>2, <2>3
<1>5. Confirming'
  <2>1. (chooser.open => \A m \in loads : Last(m) /\ Informed(m) => m.v >= chooser.since)'
    BY <1>1, <1>3 DEF Confirming, Last, OfOpening, on
  <2>2. (chooser.open /\ chooser.preparing /\ ~Fresh =>
           \E m \in loads : OfOpening(m) /\ m.turn = chooser.gen /\ ~Informed(m))'
    BY <1>1, <1>3 DEF Confirming, Fresh
  <2> QED BY <2>1, <2>2 DEF Confirming, Fresh
<1>6. StaleRests' /\ OfferFits' /\ ChosenFits'
  BY <1>2 DEF StaleRests, OfferFits, ChosenFits, Timely, Versions, Current
<1> QED BY <1>4, <1>5, <1>6

LEMMA LoadRestartsFits ==
  ASSUME ClientConstants, ClientInv, LoadRestarts
  PROVE  ClientInv'
<1> USE DEF ClientInv
<1>1. PICK l \in loads :
         /\ l.phase = "wait"
         /\ IF l.tries < Restarts
            THEN /\ loads' = (loads \ {l}) \cup {Going(l, l.v, l.tries + 1, "summary")}
                 /\ sreq' = Refetched /\ UNCHANGED <<prep, chooser, settled>>
            ELSE loads' = loads \ {l} /\ LoadsFail({l}) /\ UNCHANGED sreq
  BY DEF LoadRestarts
<1>2. UNCHANGED <<log, kind, sum, sumErr, aggs, areq, aerr, target, live, chosen>>
  BY DEF LoadRestarts
<1>3. CASE ~(l.tries < Restarts)
  BY <1>1, <1>2, <1>3, GivingUpFits
<1>4. CASE l.tries < Restarts
  <2> USE <1>2
  <2>1. /\ loads' = (loads \ {l}) \cup {Going(l, l.v, l.tries + 1, "summary")}
        /\ sreq' = Refetched /\ UNCHANGED <<prep, chooser, settled>>
    BY <1>1, <1>4
  <2> DEFINE again == Going(l, l.v, l.tries + 1, "summary")
  <2>2. /\ again.who = l.who /\ again.gen = l.gen /\ again.turn = l.turn
        /\ again.phase = "summary" /\ ~Informed(again) /\ Informed(l)
    BY <1>1 DEF Going, Informed
  <2>3. loads' = (loads \ {l}) \cup {again}
    BY <2>1
  <2> HIDE DEF again
  <2>4. /\ sreq' \in Versions \cup {Unknown}
        /\ sum # Unknown /\ sreq' # Unknown => sum <= sreq'
        /\ sreq' = sreq \/ sreq' = Current
    BY <2>1, RefetchedFits DEF ClientTypes
  <2>5. ClientTypes' /\ ChooserTypes' /\ LoadsFit' /\ AsksFit' /\ LiveFits'
    <3>1. ClientTypes' /\ ChooserTypes'
      BY <2>1, <2>4 DEF ClientTypes, ChooserTypes, Versions, Current
    <3>2. LoadsFit'
      BY <2>1, <2>2, <2>3 DEF LoadsFit, OfOpening, Versions, Current
    <3>3. AsksFit' /\ LiveFits'
      BY <2>2, <2>3 DEF AsksFit, LiveFits, Versions, Current
    <3> QED BY <3>1, <3>2, <3>3
  <2>6. Confirming'
    <3>1. chooser.open => Current >= chooser.since
      BY DEF ChooserTypes, ClientTypes, Versions, Current
    <3>2. (chooser.open => \A m \in loads : Last(m) /\ Informed(m) => m.v >= chooser.since)'
      BY <2>1, <2>2, <2>3 DEF Confirming, Last
    <3>3. (chooser.open /\ chooser.preparing /\ ~Fresh =>
             \E m \in loads : OfOpening(m) /\ m.turn = chooser.gen /\ ~Informed(m))'
      BY <2>1, <2>2, <2>3 DEF Confirming, Fresh
    <3> QED BY <2>1, <2>4, <3>1, <3>2, <3>3 DEF Confirming, Fresh
  <2>7. StaleRests'
    BY <2>1 DEF StaleRests, Stuck, Steady, NoOlder, Failed, AskedFor, Fresh
  <2>8. OfferFits' /\ ChosenFits'
    BY <2>1 DEF OfferFits, ChosenFits, Timely, Versions, Current
  <2> QED BY <2>5, <2>6, <2>7, <2>8
<1> QED BY <1>3, <1>4

LEMMA SummaryAnsweredFits ==
  ASSUME ClientConstants, ClientInv, SummaryAnswered
  PROVE  ClientInv'
<1> USE DEF ClientInv
<1>1. /\ sreq # Unknown /\ sum' = sreq /\ sumErr' = FALSE /\ sreq' = Unknown
      /\ loads' = (loads \ Waiting) \cup {Confirmed(l) : l \in Waiting \ Refused}
      /\ areq' = Fetching(sreq, areq) \/ areq' = areq
      /\ UNCHANGED <<log, kind, target, live, chosen>>
  BY DEF SummaryAnswered
<1>2. prep' = SettlePreparation(Refused) /\ chooser' = PrepareFailed(Refused)
  BY DEF SummaryAnswered, LoadsFail
<1>3. /\ prep' \in Preparation /\ prep'.gen = prep.gen
      /\ prep' = prep \/ prep'.err
  BY <1>2, PreparationSettles
<1>4. /\ chooser' \in Chooser /\ chooser'.open = chooser.open /\ chooser'.gen = chooser.gen
      /\ chooser'.since = chooser.since /\ chooser'.offered = chooser.offered
  BY <1>2, ChooserFails
<1>5. sreq \in Versions /\ (sum # Unknown => sum <= sreq)
  BY <1>1 DEF ClientTypes
<1>6. \A l : /\ Confirmed(l).who = l.who /\ Confirmed(l).gen = l.gen /\ Confirmed(l).turn = l.turn
             /\ Confirmed(l).v = sreq /\ Informed(Confirmed(l))
             /\ kind = "sheet" => Confirmed(l).phase # "options"
  BY DEF Confirmed, Going, Informed
<1>7. \A m \in loads' : \/ m \in loads /\ Informed(m)
                        \/ \E l \in loads : m = Confirmed(l)
  BY <1>1 DEF Waiting, Informed
<1>8. ClientTypes' /\ ChooserTypes' /\ LoadsFit' /\ AsksFit' /\ LiveFits'
  <2>1. ClientTypes'
    BY <1>1, <1>5 DEF ClientTypes, Versions, Current, ClientConstants
  <2>2. ChooserTypes'
    BY <1>1, <1>3, <1>4 DEF ChooserTypes, Versions, Current
  <2>3. LoadsFit'
    <3> SUFFICES ASSUME NEW m \in loads'
                 PROVE  /\ m.who \in {"open", "auth"}
                        /\ Informed(m) => m.v \in Versions /\ m.v <= sreq
                        /\ OfOpening(m) => /\ m.gen \in Nat /\ m.turn \in Nat
                                           /\ m.gen <= prep.gen /\ m.turn <= chooser.gen
                                           /\ m.gen < prep.gen => m.turn < chooser.gen
      BY <1>1, <1>3, <1>4, <1>5 DEF LoadsFit, Versions, Current, ClientConstants
    <3>1. CASE m \in loads /\ Informed(m)
      BY <1>5, <3>1 DEF LoadsFit, Versions, ClientTypes, Current
    <3>2. CASE \E l \in loads : m = Confirmed(l)
      BY <1>5, <1>6, <3>2 DEF LoadsFit, OfOpening, Versions, ClientTypes, Current
    <3> QED BY <1>7, <3>1, <3>2
  <2>4. AsksFit'
    <3> SUFFICES ASSUME kind = "sheet"
                 PROVE  (/\ \A r \in areq : r[1] \in Nat \ {0} /\ r[2] \in Nat /\ r[1] <= r[2]
                         /\ \A r, q \in areq : r[1] = q[1] => r = q
                         /\ \A l \in loads : l.phase # "options")'
      BY <1>1 DEF AsksFit
    <3>1. (/\ \A r \in areq : r[1] \in Nat \ {0} /\ r[2] \in Nat /\ r[1] <= r[2]
           /\ \A r, q \in areq : r[1] = q[1] => r = q)'
      <4>1. CASE areq' = areq
        BY <4>1 DEF AsksFit
      <4>2. CASE areq' = Fetching(sreq, areq)
        BY <1>5, <4>2, FetchingFits
      <4> QED BY <1>1, <4>1, <4>2
    <3>2. (\A l \in loads : l.phase # "options")'
      BY <1>6, <1>7 DEF AsksFit
    <3> QED BY <3>1, <3>2
  <2>5. LiveFits'
    BY <1>1, <1>5 DEF LiveFits, Versions, Current, ClientConstants, ClientTypes
  <2> QED BY <2>1, <2>2, <2>3, <2>4, <2>5
<1>9. Confirming' /\ StaleRests'
  <2>1. chooser.open => Fresh'
    BY <1>1, <1>4, <1>5 DEF Confirming, Fresh, ClientConstants, Versions
  <2>2. chooser.open => (\A m \in loads : Last(m) /\ Informed(m) => m.v >= chooser.since)'
    BY <1>1, <1>3, <1>4, <1>6, <1>7 DEF Confirming, Last, OfOpening
  <2>3. Confirming'
    BY <1>1, <1>4, <2>1, <2>2 DEF Confirming
  <2>4. StaleRests'
    BY <1>4, <2>1 DEF StaleRests
  <2> QED BY <2>3, <2>4
<1>10. OfferFits' /\ ChosenFits'
  BY <1>1, <1>4 DEF OfferFits, ChosenFits, Timely, Versions, Current
<1> QED BY <1>8, <1>9, <1>10

LEMMA LoadSucceedsFits ==
  ASSUME ClientConstants, ClientInv, LoadSucceeds
  PROVE  ClientInv'
<1> USE DEF ClientInv
<1>1. PICK l \in loads :
        /\ l.phase = "wait" /\ l.v \in aggs
        /\ IF l.who = "auth" THEN Authorized(l)
           ELSE IF kind = "form"
           THEN LET current == IsCurrentPreparation(l) IN
                /\ epoch' = IF current THEN l.v ELSE epoch
                /\ settled' = IF current THEN [settled EXCEPT !.failed = Unknown] ELSE settled
                /\ loads' = {m \in loads \ {l} : current => m.who # "auth"}
                /\ prep' = IF l.gen = prep.gen THEN [gen |-> prep.gen, on |-> FALSE, err |-> FALSE] ELSE prep
                /\ chooser' = PrepareSucceeded(chooser, l)
                /\ UNCHANGED <<target, live>>
           ELSE /\ loads' = loads \ {l}
                /\ target' = Latest(target, l.v)
                /\ live' = IF l.gen = prep.gen THEN PublishLiveChoiceResource(PreparedResource(l)) ELSE live
                /\ prep' = IF l.gen = prep.gen THEN [prep EXCEPT !.on = FALSE] ELSE prep
                /\ chooser' = PrepareSucceeded(NoticeReadiness(live.ready, live'.ready), l)
                /\ UNCHANGED <<epoch, settled>>
  BY DEF LoadSucceeds
<1>2. UNCHANGED <<log, kind, sum, sumErr, sreq, aggs, areq, aerr, chosen>>
  BY DEF LoadSucceeds, cache
<1>3. /\ Informed(l) /\ l.v \in Versions /\ sum # Unknown /\ l.v <= sum
      /\ l.who \in {"open", "auth"}
      /\ OfOpening(l) => /\ l.gen \in Nat /\ l.turn \in Nat /\ l.gen <= prep.gen /\ l.turn <= chooser.gen
                         /\ l.gen < prep.gen => l.turn < chooser.gen
  BY <1>1 DEF Informed, LoadsFit
<1>4. CASE l.who = "auth"
  <2>1. loads' = loads \ {l} /\ UNCHANGED <<prep, target, live, chooser>> /\ ~OfOpening(l)
    BY <1>1, <1>4 DEF Authorized, OfOpening
  <2>2. ClientTypes' /\ ChooserTypes' /\ LoadsFit' /\ AsksFit' /\ LiveFits'
    <3>1. ClientTypes' /\ ChooserTypes'
      BY <1>2, <2>1 DEF ClientTypes, ChooserTypes, Versions, Current
    <3>2. LoadsFit' /\ AsksFit' /\ LiveFits'
      BY <1>2, <2>1 DEF LoadsFit, AsksFit, LiveFits, Versions, Current
    <3> QED BY <3>1, <3>2
  <2>3. Confirming'
    BY <1>2, <2>1 DEF Confirming, Last, Fresh
  <2>4. StaleRests'
    BY <1>2, <2>1 DEF StaleRests, Stuck, Steady, NoOlder, Failed, AskedFor, Fresh
  <2>5. OfferFits' /\ ChosenFits'
    BY <1>2, <2>1 DEF OfferFits, ChosenFits, Timely, Versions, Current
  <2> QED BY <2>2, <2>3, <2>4, <2>5
<1>5. ASSUME l.who # "auth"
      PROVE  /\ OfOpening(l) /\ l.gen \in Nat /\ l.turn \in Nat
             /\ l.gen = prep.gen /\ chooser.open => Fresh /\ l.v >= chooser.since
  <2>1. OfOpening(l)
    BY <1>3, <1>5 DEF OfOpening
  <2>2. l.gen = prep.gen /\ chooser.open => l.v >= chooser.since
    BY <1>3, <2>1 DEF Confirming, Last
  <2>3. l.gen = prep.gen /\ chooser.open => sum >= chooser.since
    BY <1>3, <2>2 DEF ChooserTypes, ClientTypes, Versions, Current
  <2> QED BY <1>3, <2>1, <2>2, <2>3 DEF Fresh
<1>6. CASE l.who # "auth" /\ kind = "form"
  <2>1. /\ loads' = {m \in loads \ {l} : IsCurrentPreparation(l) => m.who # "auth"}
        /\ prep' = IF l.gen = prep.gen THEN [gen |-> prep.gen, on |-> FALSE, err |-> FALSE] ELSE prep
        /\ chooser' = PrepareSucceeded(chooser, l)
        /\ UNCHANGED <<target, live>>
    BY <1>1, <1>6
  <2>2. prep' \in Preparation /\ prep'.gen = prep.gen /\ (l.gen # prep.gen => prep' = prep)
    BY <2>1 DEF ChooserTypes, Preparation
  <2>3. /\ chooser' \in Chooser /\ chooser'.open = chooser.open /\ chooser'.gen = chooser.gen
        /\ chooser'.since = chooser.since /\ chooser'.offered = chooser.offered
        /\ chooser'.preparing => chooser' = chooser
    <3>1. chooser \in Chooser
      BY DEF ChooserTypes
    <3> QED BY <1>5, <1>6, <2>1, <3>1, ChooserPrepared
  <2>4. ClientTypes' /\ ChooserTypes' /\ LoadsFit' /\ AsksFit' /\ LiveFits'
    <3>1. ClientTypes' /\ ChooserTypes'
      BY <1>2, <2>1, <2>2, <2>3 DEF ClientTypes, ChooserTypes, Versions, Current
    <3>2. LoadsFit' /\ AsksFit' /\ LiveFits'
      BY <1>2, <2>1, <2>2, <2>3 DEF LoadsFit, AsksFit, LiveFits, Versions, Current
    <3> QED BY <3>1, <3>2
  <2>5. Confirming'
    <3>1. (Fresh <=> Fresh') /\ \A m : (Last(m) <=> Last(m)')
      BY <1>2, <2>2, <2>3 DEF Fresh, Last
    <3>2. chooser.open /\ ~prep'.on /\ ~prep'.err => Fresh
      BY <1>5, <1>6, <2>2 DEF Confirming
    <3>3. (chooser.open /\ chooser.preparing /\ ~Fresh =>
             \E m \in loads : OfOpening(m) /\ m.turn = chooser.gen /\ ~Informed(m))'
      BY <1>3, <2>1, <2>3, <3>1 DEF Confirming, OfOpening
    <3>4. (chooser.open => \A m \in loads : Last(m) /\ Informed(m) => m.v >= chooser.since)'
      BY <2>1, <2>3, <3>1 DEF Confirming
    <3> QED BY <1>2, <2>3, <3>1, <3>2, <3>3, <3>4 DEF Confirming
  <2>6. StaleRests'
    BY <1>2, <1>6 DEF StaleRests
  <2>7. OfferFits' /\ ChosenFits'
    BY <1>2, <2>1, <2>3 DEF OfferFits, ChosenFits, Timely, Versions, Current
  <2> QED BY <2>4, <2>5, <2>6, <2>7
<1>7. CASE l.who # "auth" /\ kind = "sheet"
  <2>1. /\ loads' = loads \ {l}
        /\ target' = Latest(target, l.v)
        /\ live' = IF l.gen = prep.gen THEN PublishLiveChoiceResource(PreparedResource(l)) ELSE live
        /\ prep' = IF l.gen = prep.gen THEN [prep EXCEPT !.on = FALSE] ELSE prep
        /\ chooser' = PrepareSucceeded(NoticeReadiness(live.ready, live'.ready), l)
    BY <1>1, <1>7
  <2>2. prep' \in Preparation /\ prep'.gen = prep.gen
    BY <2>1 DEF ChooserTypes, Preparation
  <2> DEFINE noticed == NoticeReadiness(live.ready, live'.ready)
  <2>3. /\ noticed \in Chooser
        /\ noticed.open = chooser.open /\ noticed.gen >= chooser.gen
        /\ noticed.since = chooser.since /\ noticed.offered = chooser.offered
        /\ noticed.preparing => noticed = chooser
        /\ live.ready /\ live'.ready => noticed = chooser
        /\ ~live.ready /\ ~live'.ready => noticed = chooser
    BY ChooserNotices
  <2>4. chooser' = PrepareSucceeded(noticed, l)
    BY <2>1
  <2> HIDE DEF noticed
  <2>5. /\ chooser' \in Chooser /\ chooser'.open = chooser.open /\ chooser'.gen >= chooser.gen
        /\ chooser'.since = chooser.since /\ chooser'.offered = chooser.offered
        /\ chooser'.preparing => chooser' = chooser
    BY <1>5, <1>7, <2>3, <2>4, ChooserPrepared
  <2>6. /\ target \in Versions /\ sum \in Versions /\ target <= sum
        /\ target' \in {target, l.v} /\ target' >= target /\ target' >= l.v
    <3>1. target \in Nat /\ l.v \in Nat
      BY <1>3 DEF ClientTypes, Versions
    <3> QED BY <1>3, <2>1, <3>1, LatestOf DEF ClientTypes
  <2>7. /\ PreparedResource(l).t = Latest(target, l.v) /\ PreparedResource(l).s = l.v
        /\ PreparedResource(l).v = l.v /\ PreparedResource(l).on = log[l.v].on
    BY DEF PreparedResource
  <2>8. live' = live \/ (l.gen = prep.gen /\ live' = PreparedResource(l))
    BY <2>1 DEF PublishLiveChoiceResource
  <2>9. ClientTypes' /\ ChooserTypes' /\ LoadsFit' /\ AsksFit' /\ LiveFits'
    <3>1. ClientTypes'
      BY <1>2, <1>3, <2>6 DEF ClientTypes, Versions, Current
    <3>2. ChooserTypes'
      BY <1>2, <2>2, <2>5 DEF ChooserTypes, Versions, Current
    <3>3. LoadsFit'
      <4>1. chooser.gen \in Nat /\ chooser'.gen \in Nat
        BY <2>5 DEF ChooserTypes, Chooser
      <4> QED BY <1>2, <2>1, <2>2, <2>5, <4>1 DEF LoadsFit, Versions, Current
    <3>4. AsksFit'
      BY <1>2, <2>1 DEF AsksFit
    <3>5. LiveFits'
      <4>1. CASE live' = live
        BY <1>2, <2>6, <4>1 DEF LiveFits, Versions, Current
      <4>2. CASE live' = PreparedResource(l)
        <5>1. live'.t = target' /\ live'.s = l.v
          BY <2>1, <2>7, <4>2
        <5> QED BY <1>2, <1>3, <2>6, <5>1 DEF LiveFits, Versions, Current
      <4> QED BY <2>8, <4>1, <4>2
    <3> QED BY <3>1, <3>2, <3>3, <3>4, <3>5
  <2>10. (Fresh <=> Fresh') /\ \A m : (Last(m) <=> Last(m)')
    BY <1>2, <2>2, <2>5 DEF Fresh, Last
  <2>11. Confirming'
    <3>1. (chooser.open /\ chooser.preparing /\ ~Fresh =>
             \E m \in loads : OfOpening(m) /\ m.turn = chooser.gen /\ ~Informed(m))'
      BY <1>3, <2>1, <2>5, <2>10 DEF Confirming
    <3>2. (chooser.open => \A m \in loads : Last(m) /\ Informed(m) => m.v >= chooser.since)'
      BY <2>1, <2>5, <2>10 DEF Confirming
    <3> QED BY <1>2, <1>7, <2>5, <3>1, <3>2 DEF Confirming
  <2>12. StaleRests'
    <3> SUFFICES ASSUME ~LateRenders, chooser.open, ~chooser'.err, ~Fresh
                 PROVE  /\ chooser'.preparing \/ (Stuck' /\ ~live'.ready)
                        /\ live'.ready => Steady' /\ (Failed(target)' => Stuck')
      BY <2>5, <2>10 DEF StaleRests
    <3>1. l.gen # prep.gen
      BY <1>5, <1>7
    <3>2. live' = live
      BY <2>8, <3>1
    <3>3. noticed = chooser
      BY <2>3, <3>2
    <3>4. l.turn # chooser.gen
      BY <1>3, <1>5, <1>7, <3>1 DEF ChooserTypes, Preparation, Chooser
    <3>5. chooser \in Chooser
      BY DEF ChooserTypes
    <3>6. chooser' = chooser
      BY <1>5, <1>7, <2>4, <3>3, <3>4, <3>5, ChooserPrepared
    <3>7. sum = target => target' = target
      BY <1>3, <2>6 DEF Versions
    <3>8. Stuck => Stuck'
      BY <1>2, <3>7 DEF Stuck, NoOlder, Failed, AskedFor
    <3>9. Steady => Steady' /\ (Failed(target)' => Failed(target))
      BY <1>2, <3>7 DEF Steady, NoOlder, Failed
    <3> QED BY <1>7, <3>2, <3>6, <3>8, <3>9 DEF StaleRests
  <2>13. OfferFits'
    <3> SUFFICES ASSUME chooser'.offered
                 PROVE  /\ chooser.open /\ live'.v \in Versions /\ (Timely => live'.v >= chooser.since)
                        /\ live'.on => log[live'.v].on
      BY <1>2, <2>5 DEF OfferFits, Timely, Versions, Current
    <3>1. chooser.offered /\ chooser.open
      BY <2>5 DEF OfferFits
    <3>2. CASE live' = live
      BY <3>1, <3>2 DEF OfferFits
    <3>3. CASE l.gen = prep.gen /\ live' = PreparedResource(l)
      BY <1>3, <1>5, <1>7, <2>7, <3>1, <3>3
    <3> QED BY <2>8, <3>2, <3>3
  <2>14. ChosenFits'
    BY <1>2 DEF ChosenFits, Timely, Versions, Current
  <2> QED BY <2>9, <2>11, <2>12, <2>13, <2>14
<1>8. kind \in {"form", "sheet"}
  BY DEF ClientTypes
<1> QED BY <1>4, <1>6, <1>7, <1>8

\* What the resource of a sheet says is not kept back by what is on display.
LEMMA DisplayAdvances ==
  ASSUME ClientConstants, ClientInv, kind = "sheet",
         Derived.ready \/ live.ready
  PROVE  Derived = DeriveSheetChoiceResource
<1> USE DEF ClientInv
<1> DEFINE d == DeriveSheetChoiceResource
<1>1. Derived = PublishLiveChoiceResource(d)
  BY DEF Derived
<1>2. d.t = SheetChoiceTargetVersion(target) /\ d.s = (IF sumErr THEN Unknown ELSE sum)
  BY DEF DeriveSheetChoiceResource
<1> HIDE DEF d
<1>3. SUFFICES ASSUME live.ready PROVE Derived = d
  BY <1>1 DEF PublishLiveChoiceResource, d
<1>4. live.t \in Nat /\ live.t <= target /\ live.s \in Nat /\ sum \in Nat /\ live.s <= sum
  BY <1>3 DEF LiveFits, ClientTypes, Versions
<1>5. d.t \in Nat /\ target <= d.t
  BY <1>2, <1>4, LatestOf DEF SheetChoiceTargetVersion, ClientTypes, Versions
<1>6. target \in Nat
  BY DEF ClientTypes, Versions
<1>7. ~(d.t < live.t) /\ ~(d.s # Unknown /\ live.s # Unknown /\ d.s < live.s)
  BY <1>2, <1>4, <1>5, <1>6 DEF ClientConstants
<1> QED BY <1>1, <1>7 DEF PublishLiveChoiceResource

\* A sheet is ready with the options of the summary at hand.
LEMMA SheetIsReady ==
  ASSUME ClientConstants, ClientInv, kind = "sheet", Derived.ready
  PROVE  /\ target \in aggs /\ ~Failed(target) /\ ~sumErr /\ sum = target /\ log[target].on
         /\ SheetChoiceTargetVersion(target) = target
         /\ Derived.t = target /\ Derived.s = sum /\ Derived.v = sum
<1> DEFINE t == SheetChoiceTargetVersion(target)
<1>1. Derived = [t |-> t, s |-> IF sumErr THEN Unknown ELSE sum,
                 v |-> IF target \in aggs THEN target ELSE live.v,
                 on |-> ~sumErr /\ sum # Unknown /\ log[sum].on,
                 ready |-> /\ target = t /\ target \in aggs /\ ~Failed(target)
                           /\ ~sumErr /\ sum = t /\ log[t].on,
                 err |-> sumErr \/ <<target, "failed">> \in aerr,
                 loading |-> (sum = Unknown /\ ~sumErr) \/ ~(target \in aggs \/ Failed(target))]
  BY DisplayAdvances DEF DeriveSheetChoiceResource
<1>2. /\ target = t /\ target \in aggs /\ ~Failed(target)
      /\ ~sumErr /\ sum = t /\ log[t].on
  BY <1>1
<1>3. Derived.t = t /\ Derived.s = sum /\ Derived.v = target
  BY <1>1, <1>2
<1> QED BY <1>2, <1>3

LEMMA SheetStaysReady ==
  ASSUME ClientConstants, ClientInv, kind = "sheet", live.ready, Steady, ~Failed(target)
  PROVE  Derived.ready
<1>1. Derived = DeriveSheetChoiceResource
  BY DisplayAdvances
<1>2. SheetChoiceTargetVersion(target) = target
  BY LatestOf DEF Steady, SheetChoiceTargetVersion, ClientInv, ClientTypes, Versions
<1> QED BY <1>1, <1>2 DEF DeriveSheetChoiceResource, Steady

\* A form is ready with the options of the summary that was confirmed.
LEMMA FormIsReady ==
  ASSUME ClientConstants, ClientInv, kind = "form", Derived.ready
  PROVE  /\ sum # Unknown /\ ~prep.on /\ ~prep.err
         /\ Derived.t = 1 /\ Derived.s = sum /\ Derived.v = sum
         /\ Derived.on => log[sum].on
<1> DEFINE trusted == sum # Unknown /\ ~sumErr /\ ~prep.on /\ ~prep.err
           r == [t |-> 1, s |-> sum, v |-> IF ~sumErr /\ sum \in aggs THEN sum ELSE live.v,
                 on |-> trusted /\ log[sum].on,
                 ready |-> trusted /\ sum \in aggs /\ ~Failed(sum) /\ AuthorizationSettled(sum) /\ log[sum].on,
                 err |-> OptionsError,
                 loading |-> ~sumErr /\ (sum = Unknown \/ ~(sum \in aggs \/ Failed(sum)))]
<1>1. Derived = r
  BY DEF Derived, DeriveChoiceSetOptionsState
<1>2. trusted /\ sum \in aggs
  BY <1>1
<1>3. Derived.on => log[sum].on
  BY <1>1
<1>4. Derived.t = 1 /\ Derived.s = sum /\ Derived.v = sum
  BY <1>1, <1>2
<1> QED BY <1>2, <1>3, <1>4

LEMMA DisplayIsCached ==
  ASSUME ClientConstants, ClientInv, Derived.ready
  PROVE  /\ sum \in Versions /\ Derived.v = sum /\ (Derived.on => log[sum].on)
         /\ Derived.t \in Nat /\ Derived.t <= target /\ Derived.s = sum
<1>1. CASE kind = "form"
  BY <1>1, FormIsReady DEF ClientInv, ClientTypes, Versions, Current
<1>2. CASE kind = "sheet"
  BY <1>2, SheetIsReady DEF ClientInv, ClientTypes, Versions, Current
<1> QED BY <1>1, <1>2 DEF ClientInv, ClientTypes

LEMMA RenderingFits ==
  ASSUME ClientConstants, ClientInv, Render
  PROVE  ClientInv'
<1> USE DEF ClientInv
<1>1. /\ live' = Derived
      /\ loads' = IF ~StartAuthorization THEN loads
                  ELSE {l \in loads : l.who # "auth"} \cup (IF Seen = Unknown THEN {} ELSE {AuthLoad})
      /\ target' = IF kind = "sheet" THEN AdvanceSheetChoiceTarget ELSE target
      /\ aggs' = aggs \ Dropped
      /\ aerr' = {e \in aerr : e[1] \notin Dropped}
      /\ areq' = IF ObservedVersion = Unknown \/ Failed(ObservedVersion) THEN Kept
                 ELSE Fetching(ObservedVersion, Kept)
      /\ UNCHANGED <<log, kind, sum, sumErr, sreq, prep, epoch, chosen>>
  BY DEF Render
<1> DEFINE noticed == NoticeReadiness(live.ready, Derived.ready)
<1>2. /\ noticed \in Chooser
      /\ noticed.open = chooser.open /\ noticed.gen >= chooser.gen
      /\ noticed.since = chooser.since /\ noticed.err = chooser.err
      /\ noticed.preparing => noticed = chooser
      /\ live.ready /\ Derived.ready => noticed = chooser
      /\ ~live.ready /\ ~Derived.ready => noticed = chooser
      /\ chooser.preparing /\ ~live.ready => noticed = chooser
  BY ChooserNotices
<1>3. chooser' = [noticed EXCEPT !.offered = GenerationReady(noticed, Derived)]
  BY DEF Render, Offering
<1> HIDE DEF noticed
<1>4. /\ chooser' \in Chooser /\ chooser'.open = chooser.open /\ chooser'.gen = noticed.gen
      /\ chooser'.since = chooser.since /\ chooser'.err = chooser.err
      /\ chooser'.preparing = noticed.preparing
  <2>1. GenerationReady(noticed, Derived) \in BOOLEAN
    BY DEF GenerationReady
  <2> QED BY <1>2, <1>3, <2>1 DEF Chooser
<1>5. chooser'.offered => noticed.open /\ ~noticed.preparing /\ ~noticed.err /\ Derived.ready
  BY <1>2, <1>3 DEF GenerationReady, Chooser
<1>6. /\ AdvanceSheetChoiceTarget \in Versions /\ target <= AdvanceSheetChoiceTarget
      /\ IF sum = Unknown THEN AdvanceSheetChoiceTarget = 1 ELSE AdvanceSheetChoiceTarget <= sum
      /\ sum = target => AdvanceSheetChoiceTarget = target
  <2>1. target \in Nat
    BY DEF ClientTypes, Versions
  <2>2. CASE sum = Unknown
    BY <2>1, <2>2 DEF AdvanceSheetChoiceTarget, SheetChoiceTargetVersion, Latest, ClientTypes, ClientConstants
  <2>3. CASE sum # Unknown
    <3>1. sum \in Nat /\ sum \in Versions /\ target <= sum
      BY <2>3 DEF ClientTypes, Versions
    <3>2. AdvanceSheetChoiceTarget \in {target, sum}
      BY <2>1, <3>1, LatestOf DEF AdvanceSheetChoiceTarget, SheetChoiceTargetVersion
    <3> QED BY <2>1, <2>3, <3>1, <3>2 DEF ClientTypes
  <2> QED BY <2>2, <2>3
<1>7. \A m : OfOpening(m) => (m \in loads' <=> m \in loads)
  BY <1>1 DEF OfOpening, AuthLoad
<1>8. ClientTypes' /\ ChooserTypes' /\ LoadsFit' /\ AsksFit' /\ LiveFits'
  <2>1. ClientTypes'
    BY <1>1, <1>6 DEF ClientTypes, Versions, Current
  <2>2. ChooserTypes'
    BY <1>1, <1>4 DEF ChooserTypes, Versions, Current
  <2>3. LoadsFit'
    <3> SUFFICES ASSUME NEW m \in loads'
                 PROVE  /\ m.who \in {"open", "auth"}
                        /\ Informed(m) => m.v \in Versions /\ sum # Unknown /\ m.v <= sum
                        /\ OfOpening(m) => /\ m.gen \in Nat /\ m.turn \in Nat
                                           /\ m.gen <= prep.gen /\ m.turn <= chooser'.gen
                                           /\ m.gen < prep.gen => m.turn < chooser'.gen
      BY <1>1 DEF LoadsFit, Versions, Current
    <3>1. CASE m \in loads
      <4>1. chooser.gen \in Nat /\ chooser'.gen \in Nat /\ chooser'.gen >= chooser.gen
        BY <1>2, <1>4 DEF ChooserTypes, Chooser
      <4> QED BY <3>1, <4>1 DEF LoadsFit
    <3>2. CASE m = AuthLoad /\ Seen # Unknown
      BY <3>2 DEF AuthLoad, Seen, OfOpening, Informed, ClientTypes, Versions, Current
    <3> QED BY <1>1, <3>1, <3>2
  <2>4. AsksFit'
    <3> SUFFICES ASSUME kind = "sheet"
                 PROVE  (/\ \A r \in areq : r[1] \in Nat \ {0} /\ r[2] \in Nat /\ r[1] <= r[2]
                         /\ \A r, q \in areq : r[1] = q[1] => r = q
                         /\ \A l \in loads : l.phase # "options")'
      BY <1>1 DEF AsksFit
    <3>1. loads' = loads
      BY <1>1 DEF StartAuthorization
    <3>2. Kept \in SUBSET areq
      BY DEF Kept
    <3>3. ObservedVersion \in Versions
      BY <1>6 DEF ObservedVersion
    <3>4. (/\ \A r \in areq : r[1] \in Nat \ {0} /\ r[2] \in Nat /\ r[1] <= r[2]
           /\ \A r, q \in areq : r[1] = q[1] => r = q)'
      <4>1. CASE areq' = Kept
        BY <3>2, <4>1 DEF AsksFit
      <4>2. CASE areq' = Fetching(ObservedVersion, Kept)
        BY <3>2, <3>3, <4>2, FetchingFits
      <4> QED BY <1>1, <4>1, <4>2
    <3> QED BY <3>1, <3>4 DEF AsksFit
  <2>5. LiveFits'
    <3> SUFFICES ASSUME Derived.ready
                 PROVE  /\ Derived.t \in Nat /\ Derived.t <= target'
                        /\ Derived.s \in Versions /\ sum # Unknown /\ Derived.s <= sum
      BY <1>1 DEF LiveFits, Versions, Current
    <3>1. /\ sum \in Versions /\ Derived.t \in Nat /\ Derived.t <= target /\ Derived.s = sum
      BY DisplayIsCached
    <3>2. target' \in Nat /\ target <= target' /\ target \in Nat
      BY <1>1, <1>6 DEF ClientTypes, Versions
    <3> QED BY <3>1, <3>2 DEF ClientConstants, Versions
  <2> QED BY <2>1, <2>2, <2>3, <2>4, <2>5
<1>9. (Fresh <=> Fresh') /\ \A m : (Last(m) <=> Last(m)')
  BY <1>1, <1>4 DEF Fresh, Last
<1>10. Confirming'
  <2>1. (chooser.open /\ chooser.preparing /\ ~Fresh =>
           \E m \in loads : OfOpening(m) /\ m.turn = chooser.gen /\ ~Informed(m))'
    BY <1>2, <1>4, <1>7, <1>9 DEF Confirming
  <2>2. (chooser.open => \A m \in loads : Last(m) /\ Informed(m) => m.v >= chooser.since)'
    BY <1>4, <1>7, <1>9 DEF Confirming, Last
  <2> QED BY <1>1, <1>4, <1>9, <2>1, <2>2 DEF Confirming
<1>11. ASSUME kind = "sheet", sum = target, NoOlder, target \in aggs
       PROVE  /\ target' = target /\ areq' = areq /\ NoOlder' /\ target \in aggs'
              /\ Failed(target)' <=> Failed(target)
  <2>1. target \in Nat /\ AdvanceSheetChoiceTarget = target
    BY <1>6, <1>11 DEF ClientTypes, Versions
  <2>2. Dropped = 1 .. (target - 1)
    BY <1>11, <2>1 DEF Dropped, Superseded
  <2>3. Kept = areq
    <3>1. \A r \in areq : r[1] \notin Dropped
      BY <1>11, <2>1, <2>2 DEF NoOlder, AsksFit
    <3> QED BY <3>1 DEF Kept
  <2>4. areq' = areq
    BY <1>1, <1>11, <2>1, <2>3 DEF ObservedVersion, Fetching
  <2>5. target \notin Dropped
    BY <2>1, <2>2
  <2>6. Failed(target)' <=> Failed(target)
    <3>1. target' = target
      BY <1>1, <1>11, <2>1
    <3> QED BY <1>1, <2>5, <3>1 DEF Failed
  <2> QED BY <1>1, <1>11, <2>1, <2>4, <2>5, <2>6 DEF NoOlder
<1>12. ASSUME kind = "sheet", ~LateRenders, chooser.open, ~chooser.err, ~Fresh
       PROVE  /\ noticed.preparing \/ (Stuck' /\ ~Derived.ready)
              /\ Derived.ready => Steady' /\ (Failed(target)' => Stuck')
  <2>1. /\ chooser.preparing \/ (Stuck /\ ~live.ready)
        /\ live.ready => Steady /\ (Failed(target) => Stuck)
    BY <1>12 DEF StaleRests
  <2>2. Stuck => Stuck'
    <3> SUFFICES ASSUME Stuck PROVE Stuck'
      OBVIOUS
    <3>1. /\ target' = target /\ areq' = areq /\ NoOlder' /\ target \in aggs'
          /\ Failed(target)' <=> Failed(target)
      BY <1>11, <1>12 DEF Stuck
    <3> QED BY <1>1, <3>1 DEF Stuck, AskedFor
  <2>3. CASE live.ready
    <3>1. Steady'
      BY <1>1, <1>11, <1>12, <2>1, <2>3 DEF Steady
    <3>2. chooser.preparing
      BY <2>1, <2>3
    <3>3. Failed(target)' => Stuck'
      BY <1>11, <1>12, <2>1, <2>2, <2>3 DEF Steady
    <3>4. CASE Failed(target)
      <4>1. ~Derived.ready
        BY <1>12, <3>4, SheetIsReady
      <4> QED BY <2>1, <2>2, <2>3, <3>4, <4>1
    <3>5. CASE ~Failed(target)
      <4>1. Derived.ready
        BY <1>12, <2>1, <2>3, <3>5, SheetStaysReady
      <4>2. noticed = chooser
        BY <1>2, <2>3, <4>1
      <4> QED BY <3>1, <3>2, <3>3, <4>2
    <3> QED BY <3>4, <3>5
  <2>4. CASE ~live.ready /\ Derived.ready
    <3>1. /\ target \in aggs /\ ~Failed(target) /\ ~sumErr /\ sum = target /\ log[target].on
      BY <1>12, <2>4, SheetIsReady
    <3>2. chooser.preparing
      BY <2>1, <3>1 DEF Stuck
    <3>3. noticed = chooser
      BY <1>2, <2>4, <3>2
    <3>4. target \in Nat /\ AdvanceSheetChoiceTarget = target
      BY <1>6, <3>1 DEF ClientTypes, Versions
    <3>5. target' = target /\ Dropped = 1 .. (target - 1)
      BY <1>1, <1>12, <3>4 DEF Dropped, Superseded
    <3>6. \A r \in Kept : target <= r[1]
      BY <1>12, <3>4, <3>5 DEF Kept, AsksFit
    <3>7. areq' = Kept
      BY <1>1, <1>12, <3>1, <3>4 DEF ObservedVersion, Fetching
    <3>8. target \in aggs' /\ ~Failed(target)'
      BY <1>1, <3>1, <3>4, <3>5 DEF Failed
    <3>9. Steady'
      BY <1>1, <3>1, <3>5, <3>6, <3>7, <3>8 DEF Steady, NoOlder
    <3> QED BY <3>2, <3>3, <3>8, <3>9
  <2>5. CASE ~live.ready /\ ~Derived.ready
    <3>1. noticed = chooser
      BY <1>2, <2>5
    <3> QED BY <2>1, <2>2, <2>5, <3>1
  <2> QED BY <2>3, <2>4, <2>5
<1>13. StaleRests'
  BY <1>1, <1>4, <1>9, <1>12 DEF StaleRests
<1>14. OfferFits'
  <2> SUFFICES ASSUME chooser'.offered
               PROVE  /\ chooser.open /\ Derived.v \in Versions /\ (Timely => Derived.v >= chooser.since)
                      /\ Derived.on => log[Derived.v].on
    BY <1>1, <1>4 DEF OfferFits, Timely, Versions, Current
  <2>1. chooser.open /\ ~noticed.preparing /\ ~chooser.err /\ Derived.ready
    BY <1>2, <1>5
  <2>2. sum \in Versions /\ Derived.v = sum /\ (Derived.on => log[sum].on)
    BY <2>1, DisplayIsCached
  <2>3. Timely => Fresh
    <3>1. CASE kind = "sheet" /\ ~LateRenders
      BY <1>12, <2>1, <3>1
    <3>2. CASE kind = "form"
      BY <2>1, <3>2, FormIsReady DEF Confirming
    <3> QED BY <3>1, <3>2 DEF Timely, ClientTypes
  <2> QED BY <2>1, <2>2, <2>3 DEF Fresh
<1>15. ChosenFits'
  BY <1>1 DEF ChosenFits, Timely, Versions, Current
<1> QED BY <1>8, <1>10, <1>13, <1>14, <1>15

LEMMA OpeningFits ==
  ASSUME ClientConstants, ClientInv, NEW force \in BOOLEAN, BeginOpen(force),
         UNCHANGED <<log, kind, chosen>>
  PROVE  ClientInv'
<1> USE DEF ClientInv
<1> DEFINE new == [who |-> "open", gen |-> prep.gen + 1, turn |-> chooser.gen + 1, floor |-> target,
                   v |-> Unknown, tries |-> 0, phase |-> "summary"]
<1>1. /\ chooser' = [open |-> TRUE, gen |-> chooser.gen + 1, preparing |-> TRUE, ready |-> Unknown,
                     err |-> FALSE, since |-> Refetched, offered |-> FALSE]
      /\ prep' = [gen |-> prep.gen + 1, on |-> TRUE, err |-> FALSE]
      /\ loads' = loads \cup {new}
      /\ sreq' = Refetched
      /\ UNCHANGED <<log, kind, sum, sumErr, aggs, areq, aerr, target, live, chosen>>
  BY DEF BeginOpen, PrepareToOpen, BeginPreparation
<1>2. LateRenders \/ Rendered
  BY DEF BeginOpen
<1>3. /\ new.who = "open" /\ OfOpening(new) /\ ~Informed(new) /\ new.phase = "summary"
      /\ new.gen = prep.gen + 1 /\ new.turn = chooser.gen + 1
  BY DEF OfOpening, Informed
<1> HIDE DEF new
<1>4. /\ prep.gen \in Nat /\ prep'.gen = prep.gen + 1 /\ prep'.on /\ prep' \in Preparation
      /\ chooser.gen \in Nat /\ chooser'.gen = chooser.gen + 1
      /\ chooser'.open /\ chooser'.preparing /\ ~chooser'.offered /\ chooser'.since = Refetched
  BY <1>1 DEF ChooserTypes, Preparation, Chooser
<1>5. /\ Refetched \in Versions /\ (sum # Unknown => Refetched >= sum)
  BY RefetchedFits
<1>6. ClientTypes' /\ ChooserTypes' /\ LoadsFit' /\ AsksFit' /\ LiveFits'
  <2>1. ClientTypes'
    BY <1>1, <1>5 DEF ClientTypes, Versions, Current
  <2>2. ChooserTypes'
    <3>1. Refetched \in Nat
      BY <1>5 DEF Versions
    <3>2. chooser' \in Chooser
      BY <1>1, <1>4, <3>1 DEF Chooser
    <3> QED BY <1>1, <1>4, <1>5, <3>2 DEF ChooserTypes, Versions, Current
  <2>3. LoadsFit'
    BY <1>1, <1>3, <1>4 DEF LoadsFit, Versions, Current
  <2>4. AsksFit' /\ LiveFits'
    BY <1>1, <1>3 DEF AsksFit, LiveFits, Versions, Current
  <2> QED BY <2>1, <2>2, <2>3, <2>4
<1>7. Confirming'
  <2>1. \A l \in loads' : Last(l)' /\ Informed(l) => FALSE
    BY <1>1, <1>3, <1>4 DEF Last, LoadsFit
  <2>2. \E l \in loads' : OfOpening(l) /\ l.turn = chooser'.gen /\ ~Informed(l)
    BY <1>1, <1>3, <1>4
  <2>3. sreq' >= chooser'.since
    BY <1>1, <1>4, <1>5 DEF Versions
  <2> QED BY <1>4, <2>1, <2>2, <2>3 DEF Confirming
<1>8. StaleRests'
  <2>1. ASSUME kind = "sheet", ~LateRenders, live.ready PROVE Steady /\ ~Failed(target)
    <3>1. Derived.ready
      BY <1>2, <2>1 DEF Rendered
    <3>2. /\ target \in aggs /\ ~Failed(target) /\ ~sumErr /\ sum = target /\ log[target].on
          /\ SheetChoiceTargetVersion(target) = target
      BY <2>1, <3>1, SheetIsReady
    <3>3. Kept = areq /\ Dropped = 1 .. (target - 1)
      BY <1>2, <2>1, <3>2 DEF Rendered, Dropped, Superseded, AdvanceSheetChoiceTarget
    <3>4. NoOlder
      BY <2>1, <3>3 DEF Kept, NoOlder, AsksFit, ClientTypes, Versions, Current
    <3> QED BY <3>2, <3>4 DEF Steady
  <2>2. (Steady <=> Steady') /\ (Failed(target) <=> Failed(target)')
    BY <1>1 DEF Steady, NoOlder, Failed
  <2> QED BY <1>1, <1>4, <2>1, <2>2 DEF StaleRests
<1>9. OfferFits' /\ ChosenFits'
  BY <1>1, <1>4 DEF OfferFits, ChosenFits, Timely, Versions, Current
<1> QED BY <1>6, <1>7, <1>8, <1>9

\* A chooser that closes leaves the preparations to themselves.
LEMMA ClosingFits ==
  ASSUME ClientConstants, ClientInv, chooser' = CloseState,
         UNCHANGED <<log, kind, cache, hooks>>,
         ChosenFits'
  PROVE  ClientInv'
<1> USE DEF ClientInv, cache, hooks
<1>1. chooser' = [open |-> FALSE, gen |-> chooser.gen + 1, preparing |-> FALSE, ready |-> Unknown,
                  err |-> FALSE, since |-> Unknown, offered |-> FALSE]
  BY DEF CloseState, Closed
<1>2. /\ chooser' \in Chooser /\ ~chooser'.open /\ ~chooser'.offered
      /\ chooser.gen \in Nat /\ chooser'.gen = chooser.gen + 1
  BY <1>1 DEF ChooserTypes, Chooser
<1>3. ClientTypes' /\ ChooserTypes'
  BY <1>2 DEF ClientTypes, ChooserTypes, Versions, Current
<1>4. LoadsFit' /\ AsksFit' /\ LiveFits'
  BY <1>2 DEF LoadsFit, AsksFit, LiveFits, Versions, Current
<1>5. Confirming' /\ StaleRests' /\ OfferFits'
  BY <1>2 DEF Confirming, StaleRests, OfferFits
<1> QED BY <1>3, <1>4, <1>5

LEMMA ChoosingFits ==
  ASSUME ClientConstants, ClientInv, Choose
  PROVE  ClientInv'
<1>1. PICK c \in Codes : CanCommitChoice(c) /\ chosen' = [code |-> c, since |-> chooser.since, v |-> live.v]
  BY DEF Choose
<1>2. /\ live.v \in Versions /\ (Timely => live.v >= chooser.since)
      /\ log[live.v].on /\ c \in log[live.v].act
  BY <1>1 DEF CanCommitChoice, ClientInv, OfferFits
<1>3. ChosenFits'
  BY <1>1, <1>2 DEF ChosenFits, Timely, Versions, Current, Choose
<1> QED BY <1>3, ClosingFits DEF Choose

LEMMA ClientBegins ==
  ASSUME ClientConstants, ClientInit
  PROVE  ClientInv
<1> USE DEF ClientInit, Closed
<1>1. Len(log) = 1 /\ log \in Seq([on : BOOLEAN, act : SUBSET Codes])
  <2>1. PICK act \in SUBSET Codes : log = <<[on |-> TRUE, act |-> act]>>
    OBVIOUS
  <2> QED BY <2>1
<1>2. Current = 1 /\ Versions = {1}
  BY <1>1 DEF Current, Versions
<1>3. ClientTypes
  BY <1>1, <1>2 DEF ClientTypes, ClientConstants
<1>4. ChooserTypes /\ ~chooser.open /\ ~chooser.offered
  BY DEF ChooserTypes, Preparation, Chooser
<1>5. AsksFit
  BY DEF AsksFit
<1>6. LoadsFit /\ LiveFits
  BY DEF LoadsFit, LiveFits, NoView
<1>7. Confirming /\ StaleRests /\ OfferFits
  BY <1>4 DEF Confirming, StaleRests, OfferFits
<1>8. ChosenFits
  BY DEF ChosenFits, Timely
<1> QED BY <1>3, <1>4, <1>5, <1>6, <1>7, <1>8 DEF ClientInv

LEMMA ClientSteps ==
  ASSUME ClientConstants, ClientInv, [ClientNext]_clientVars
  PROVE  ClientInv'
<1>1. CASE OtherAdminWrites BY <1>1, WritingFits
<1>2. CASE WindowFocused \/ PollSummary BY <1>2, ReadingFits DEF WindowFocused, PollSummary
<1>3. CASE SummaryAnswered BY <1>3, SummaryAnsweredFits
<1>4. CASE SummaryFails BY <1>4, SummaryFailsFits
<1>5. CASE AggregateAnswered BY <1>5, AggregateAnsweredFits
<1>6. CASE AggregateFails BY <1>6, AggregateFailsFits
<1>7. CASE LoadAsks BY <1>7, LoadAsksFits
<1>8. CASE LoadRestarts BY <1>8, LoadRestartsFits
<1>9. CASE LoadFails BY <1>9, LoadFailsFits
<1>10. CASE LoadSucceeds BY <1>10, LoadSucceedsFits
<1>11. CASE Render BY <1>11, RenderingFits
<1>12. CASE OpenChooser \/ PrepareAgain BY <1>12, OpeningFits DEF OpenChooser, PrepareAgain
<1>13. CASE CancelChoice
  BY <1>13, ClosingFits DEF CancelChoice, ClientInv, ChosenFits, Timely, Versions, Current
<1>14. CASE Choose BY <1>14, ChoosingFits
<1>15. CASE UNCHANGED clientVars
  <2>1. UNCHANGED <<log, kind, cache, hooks, chooser, chosen>>
    BY <1>15 DEF clientVars
  <2>2. ClientTypes' /\ ChooserTypes' /\ LoadsFit' /\ AsksFit' /\ LiveFits'
    BY <2>1 DEF cache, hooks, ClientInv, ClientTypes, ChooserTypes, LoadsFit, AsksFit, LiveFits, Versions, Current
  <2>3. Confirming' /\ StaleRests'
    BY <2>1 DEF cache, hooks, ClientInv, Confirming, Fresh, Last, StaleRests, Stuck, Steady, NoOlder, Failed, AskedFor
  <2>4. OfferFits' /\ ChosenFits'
    BY <2>1 DEF cache, hooks, ClientInv, OfferFits, ChosenFits, Timely, Versions, Current
  <2> QED BY <2>2, <2>3, <2>4 DEF ClientInv
<1> QED
  BY <1>1, <1>2, <1>3, <1>4, <1>5, <1>6, <1>7, <1>8, <1>9, <1>10, <1>11, <1>12, <1>13, <1>14, <1>15
  DEF ClientNext

LEMMA ClientHolds ==
  ASSUME ClientConstants
  PROVE  ClientSpec => []ClientInv
<1>1. ClientInit => ClientInv
  BY ClientBegins
<1>2. ClientInv /\ [ClientNext]_clientVars => ClientInv'
  BY ClientSteps
<1> QED BY <1>1, <1>2, PTL DEF ClientSpec

(* An option that is chosen was active in the active set at a version that is  *)
(* not older than what the service has for the request that the opening makes: *)
(* for any codes, any changes by others, any number of openings, retries and   *)
(* failures, and answers in any order (ChoiceIsCurrent), as long as the chooser*)
(* is opened on a page that shows what the cache has.                          *)
THEOREM ChosenOptionsAreCurrent ==
  ASSUME ClientConstants, ~LateRenders
  PROVE  ClientSpec => []ChoiceIsCurrent
<1>1. ClientInv => ChoiceIsCurrent
  BY DEF ClientInv, ChosenFits, Timely, ChoiceIsCurrent
<1> QED BY <1>1, ClientHolds, PTL

(* The field of a form needs no such page: it trusts its options only when the *)
(* preparation of its latest opening is over (DeriveChoiceSetOptionsState).    *)
THEOREM ChosenInFormsAreCurrent ==
  ASSUME ClientConstants
  PROVE  ClientSpec => [](kind = "form" => ChoiceIsCurrent)
<1>1. ClientInv => (kind = "form" => ChoiceIsCurrent)
  BY DEF ClientInv, ChosenFits, Timely, ChoiceIsCurrent
<1> QED BY <1>1, ClientHolds, PTL

-----------------------------------------------------------------------------
(* The comparison with the backbone.                                           *)
\* What the panel may show under the root on screen.
Matching(v) == \A l \in Lanes : v.shown[l] # NoPages =>
    /\ v.shown[l].basis = v.basis /\ v.shown[l].layer = v.open.layer
    /\ l = "cell" => v.open.cell
Sound(v) ==
    /\ v \in ViewType /\ Matching(v)
    /\ v.open.mode = "root" => v.open.layer = NoLayer
    /\ v.open.mode # "root" => v.open.layer # NoLayer
    /\ v.open.mode = "cell" => v.open.cell

\* The reducer: each of its steps leaves only pages of what is open.
LEMMA NoPagesType == NoPages \in PageList /\ NothingShown \in [Lanes -> PageList]
  BY DEF NoPages, PageList, NothingShown, LayerOrNone

LEMMA ToRootSound ==
  ASSUME NEW v, v \in ViewType
  PROVE  /\ Sound(ToRoot(v)) /\ ToRoot(v).basis = v.basis /\ ToRoot(v).open = RootOnly
         /\ ToRoot(v).on = v.on /\ ToRoot(v).shown = NothingShown
<1> DEFINE w == ToRoot(v)
<1>1. w \in ViewType /\ w.open = RootOnly /\ w.shown = NothingShown /\ w.basis = v.basis /\ w.on = v.on
  BY NoPagesType DEF ToRoot, RootOnly, ViewType, Modes, LayerOrNone
<1>2. Matching(w)
  BY <1>1 DEF Matching, NothingShown
<1> QED
  BY <1>1, <1>2 DEF Sound, RootOnly

LEMMA CloseCellSound ==
  ASSUME NEW v, Sound(v)
  PROVE  Sound(CloseCell(v)) /\ CloseCell(v).basis = v.basis
<1>1. CASE v.open.mode # "cell"
  BY <1>1 DEF CloseCell
<1>2. CASE v.open.mode = "cell"
  <2> DEFINE o == [mode |-> "branch", layer |-> v.open.layer, cell |-> FALSE]
             s == [v.shown EXCEPT !["cell"] = NoPages]
             w == CloseCell(v)
  <2>1. o \in [mode : Modes, layer : LayerOrNone, cell : BOOLEAN] /\ s \in [Lanes -> PageList]
    BY NoPagesType DEF Sound, ViewType, Modes
  <2>2. w = [[v EXCEPT !.open = o] EXCEPT !.shown = s]
    BY <1>2 DEF CloseCell, Showing, Sound, ViewType
  <2>3. w \in ViewType /\ w.open = o /\ w.shown = s /\ w.basis = v.basis
    BY <2>1, <2>2 DEF Sound, ViewType
  <2>4. Matching(w)
    BY <2>3, <1>2 DEF Matching, Sound, ViewType, Lanes
  <2> QED
    BY <2>3, <2>4, <1>2 DEF Sound
<1> QED
  BY <1>1, <1>2

LEMMA CloseBranchSound ==
  ASSUME NEW v, Sound(v)
  PROVE  Sound(CloseBranch(v)) /\ CloseBranch(v).basis = v.basis
  BY ToRootSound DEF CloseBranch, Sound

LEMMA ModeSound ==
  ASSUME NEW v, Sound(v), NEW m \in {"branch", "cell"}, v.open.layer # NoLayer,
         m = "cell" => v.open.cell
  PROVE  Sound(Mode(v, m)) /\ Mode(v, m).basis = v.basis
<1> DEFINE o == [mode |-> m, layer |-> v.open.layer, cell |-> v.open.cell]
           w == Mode(v, m)
<1>1. o \in [mode : Modes, layer : LayerOrNone, cell : BOOLEAN]
  BY DEF Sound, ViewType, Modes
<1>2. w \in ViewType /\ w.open = o /\ w.shown = v.shown /\ w.basis = v.basis
  BY <1>1 DEF Mode, Sound, ViewType
<1>3. Matching(w)
  BY <1>2 DEF Matching, Sound
<1> QED
  BY <1>2, <1>3 DEF Sound

LEMMA OpenBranchSound ==
  ASSUME WorkbenchConstants, NEW v, Sound(v), NEW layer \in Layers
  PROVE  Sound(OpenBranch(v, layer)) /\ OpenBranch(v, layer).basis = v.basis
<1>1. layer # NoLayer
  BY DEF WorkbenchConstants
<1>2. CASE v.open.layer = layer
  BY <1>1, <1>2, ToRootSound, ModeSound DEF OpenBranch, Sound
<1>3. CASE v.open.layer # layer
  <2> DEFINE o == [mode |-> "branch", layer |-> layer, cell |-> FALSE]
             r == ToRoot(v)
             w == OpenBranch(v, layer)
  <2>1. r \in ViewType /\ r.basis = v.basis /\ r.shown = NothingShown
    BY ToRootSound DEF Sound
  <2>2. o \in [mode : Modes, layer : LayerOrNone, cell : BOOLEAN]
    BY DEF Modes, LayerOrNone
  <2>3. w = [r EXCEPT !.open = o]
    BY <1>3 DEF OpenBranch
  <2>4. w \in ViewType /\ w.open = o /\ w.shown = NothingShown /\ w.basis = v.basis
    BY <2>1, <2>2, <2>3 DEF ViewType
  <2>5. Matching(w)
    BY <2>4 DEF Matching, NothingShown
  <2> QED
    BY <1>1, <2>4, <2>5 DEF Sound
<1> QED
  BY <1>2, <1>3

LEMMA OpenCellSound ==
  ASSUME NEW v, Sound(v), v.open.layer # NoLayer
  PROVE  Sound(OpenCell(v)) /\ OpenCell(v).basis = v.basis
<1>1. CASE v.open.cell
  BY <1>1, ModeSound DEF OpenCell
<1>2. CASE ~v.open.cell
  <2> DEFINE o == [mode |-> "cell", layer |-> v.open.layer, cell |-> TRUE]
             s == [v.shown EXCEPT !["cell"] = NoPages]
             w == OpenCell(v)
  <2>1. o \in [mode : Modes, layer : LayerOrNone, cell : BOOLEAN] /\ s \in [Lanes -> PageList]
    BY NoPagesType DEF Sound, ViewType, Modes
  <2>2. w = [[v EXCEPT !.open = o] EXCEPT !.shown = s]
    BY <1>2 DEF OpenCell, Showing, Sound, ViewType
  <2>3. w \in ViewType /\ w.open = o /\ w.shown = s /\ w.basis = v.basis
    BY <2>1, <2>2 DEF Sound, ViewType
  <2>4. Matching(w)
    BY <2>3 DEF Matching, Sound, ViewType, Lanes
  <2> QED
    BY <2>3, <2>4 DEF Sound
<1> QED
  BY <1>1, <1>2

\* Fields the reducer does not look at when it decides what is shown.
LEMMA FoldSound ==
  ASSUME NEW v, Sound(v)
  PROVE  Sound(Fold(v)) /\ Fold(v).basis = v.basis
<1>1. /\ Fold(v) \in ViewType /\ Fold(v).open = v.open /\ Fold(v).shown = v.shown
      /\ Fold(v).basis = v.basis
  BY DEF Fold, Sound, ViewType, LayerOrNone
<1> QED
  BY <1>1 DEF Sound, Matching

LEMMA ClearOpenScopesSound ==
  ASSUME NEW v, Sound(v)
  PROVE  Sound(ClearOpenScopes(v)) /\ ClearOpenScopes(v).basis = v.basis
<1>1. CASE v.open.layer = NoLayer
  BY <1>1 DEF ClearOpenScopes
<1>2. CASE v.open.layer # NoLayer
  <2> DEFINE r == ToRoot(v)  w == ClearOpenScopes(v)
  <2>1. Sound(r) /\ r.basis = v.basis
    BY ToRootSound DEF Sound
  <2>2. w = [r EXCEPT !.rev = v.rev + 1] /\ v.rev \in Nat
    BY <1>2 DEF ClearOpenScopes, Sound, ViewType
  <2>3. w \in ViewType /\ w.open = r.open /\ w.shown = r.shown /\ w.basis = v.basis
    BY <2>1, <2>2 DEF Sound, ViewType
  <2> QED
    BY <2>1, <2>3 DEF Sound, Matching
<1> QED
  BY <1>1, <1>2

LEMMA QuerySound ==
  ASSUME NEW v, v \in ViewType, NEW f \in Filters, NEW b \in Nat
  PROVE  Sound(Query(ToRoot(v), f, b)) /\ Query(ToRoot(v), f, b).basis = b
<1> DEFINE r == ToRoot(v)  w == Query(r, f, b)
           q == [r EXCEPT !.filter = f]
           s == [q EXCEPT !.rev = r.rev + 1]
<1>1. Sound(r) /\ r.shown = NothingShown
  BY ToRootSound
<1>4. r \in ViewType /\ q \in ViewType /\ q.open = r.open /\ q.shown = r.shown
  BY <1>1 DEF Sound, ViewType
<1>5. r.rev + 1 \in Nat
  BY <1>4 DEF ViewType
<1>6. s \in ViewType /\ s.open = r.open /\ s.shown = r.shown
  BY <1>4, <1>5 DEF ViewType
<1>7. w = [s EXCEPT !.basis = b]
  BY DEF Query
<1>2. w \in ViewType /\ w.open = r.open /\ w.shown = NothingShown /\ w.basis = b
  BY <1>1, <1>6, <1>7 DEF ViewType
<1>3. Matching(w)
  BY <1>2 DEF Matching, NothingShown
<1> QED
  BY <1>1, <1>2, <1>3 DEF Sound

LEMMA SetRootResultSound ==
  ASSUME NEW v, Sound(v), NEW b \in Nat
  PROVE  Sound(SetRootResult(v, b)) /\ SetRootResult(v, b).basis = b
<1>1. v \in ViewType /\ v.filter \in Filters
  BY DEF Sound, ViewType
<1>2. /\ Sound(Query(ToRoot(v), v.filter, b))
      /\ Query(ToRoot(v), v.filter, b).basis = b
  BY <1>1, QuerySound
<1>3. /\ Sound(Fold(Query(ToRoot(v), v.filter, b)))
      /\ Fold(Query(ToRoot(v), v.filter, b)).basis = b
  BY <1>2, FoldSound
<1> QED
  BY <1>3 DEF SetRootResult

LEMMA FoldLayerSound ==
  ASSUME NEW v, Sound(v)
  PROVE  Sound(FoldLayer(v)) /\ FoldLayer(v).basis = v.basis
  BY CloseCellSound, CloseBranchSound, FoldSound DEF FoldLayer

\* What the tokens of the root requests satisfy, and what the fence leaves.
Ledger == [seq : Nat, fence : Nat, issued : [Filters -> Nat], accepted : [Filters -> Nat]]
Tokens(q, led) == \A f \in Filters :
    /\ led.issued[f] <= led.seq /\ led.accepted[f] <= led.issued[f]
    /\ q[f].token <= led.issued[f]
    /\ q[f].sent # 0 => q[f].sent = led.issued[f] /\ q[f].token < q[f].sent
    /\ q[f].read # 0 => q[f].sent # 0
Known(q, c) == \A f \in Filters : q[f].basis <= c /\ q[f].read <= c
SinceFence(q, led, low) == \A f \in Filters :
    /\ q[f].read # 0 => q[f].read >= low
    /\ q[f].token # 0 /\ (q[f].token = led.accepted[f] \/ q[f].token = led.issued[f])
         => q[f].basis >= low
Requests(q, led) == q \in [Filters -> Root] /\ led \in Ledger /\ Tokens(q, led)

\* The ledger of tokens. The highest token is always the last one given out.
LEMMA MaxIs ==
  ASSUME NEW S, S \subseteq Nat, NEW m \in S, \A x \in S : x <= m
  PROVE  Max(S) = m
<1> DEFINE P(x) == x \in S /\ \A y \in S : x >= y
<1>1. P(m)
  OBVIOUS
<1>2. \A x : P(x) => x = m
  OBVIOUS
<1>3. (CHOOSE x \in S : \A y \in S : x >= y) = m
  BY <1>1, <1>2
<1> QED
  BY <1>3 DEF Max

LEMMA NextToken ==
  ASSUME NEW q, NEW led, Requests(q, led), NEW f \in Filters
  PROVE  RootToken(led, q, f) = led.seq + 1 /\ led.seq + 1 \in Nat
<1> DEFINE S == {led.seq, led.issued[f], q[f].token}
<1>1. S \subseteq Nat /\ led.seq \in S /\ \A x \in S : x <= led.seq
  BY DEF Requests, Tokens, Ledger, Root
<1>2. Max(S) = led.seq
  BY <1>1, MaxIs
<1> QED
  BY <1>1, <1>2 DEF RootToken

\* A request takes a token above every other, so the page cached before is no longer issued.
LEMMA FetchKeeps ==
  ASSUME NEW q, NEW led, Requests(q, led), NEW f \in Filters
  PROVE  /\ Requests(Fetch(q, led, f), Issue(q, led, f))
         /\ Issue(q, led, f).fence = led.fence
         /\ \A c \in Nat : Known(q, c) => Known(Fetch(q, led, f), c)
         /\ \A low \in Nat : SinceFence(q, led, low) => SinceFence(Fetch(q, led, f), Issue(q, led, f), low)
<1> DEFINE t == led.seq + 1
           r == Requested(q[f], t)
           q2 == Fetch(q, led, f)
           l2 == Issue(q, led, f)
<1>1. t \in Nat /\ q2 = [q EXCEPT ![f] = r] /\ l2 = Issued(led, f, t)
  BY NextToken DEF Fetch, Issue
<1>2. q[f] \in Root /\ led.issued[f] \in Nat /\ led.accepted[f] \in Nat
  BY DEF Requests, Ledger
<1>3. /\ r \in Root /\ r.token = q[f].token /\ r.basis = q[f].basis /\ r.sent = t /\ r.read = 0
  BY <1>1, <1>2 DEF Requested, Root
<1>4. /\ l2 \in Ledger /\ l2.seq = t /\ l2.fence = led.fence /\ l2.accepted = led.accepted
      /\ l2.issued = [led.issued EXCEPT ![f] = t]
  <2> DEFINE s == [led EXCEPT !.seq = t]  i == [led.issued EXCEPT ![f] = t]
  <2>1. s \in Ledger /\ s.seq = t /\ s.fence = led.fence /\ s.accepted = led.accepted
    BY <1>1 DEF Requests, Ledger
  <2>2. i \in [Filters -> Nat]
    BY <1>1 DEF Requests, Ledger
  <2>3. l2 = [s EXCEPT !.issued = i]
    BY <1>1 DEF Issued
  <2> QED
    BY <2>1, <2>2, <2>3 DEF Ledger
<1>5. q2 \in [Filters -> Root] /\ q2[f] = r /\ \A g \in Filters \ {f} : q2[g] = q[g]
  BY <1>1, <1>3 DEF Requests
<1>6. l2.issued[f] = t /\ \A g \in Filters \ {f} : l2.issued[g] = led.issued[g]
  BY <1>4 DEF Requests, Ledger
<1>7. led.seq < t /\ q[f].token < t /\ led.accepted[f] <= t
  BY <1>2 DEF Requests, Tokens, Ledger, Root
<1>8. Tokens(q2, l2)
  <2> SUFFICES ASSUME NEW g \in Filters
               PROVE  /\ l2.issued[g] <= l2.seq /\ l2.accepted[g] <= l2.issued[g]
                      /\ q2[g].token <= l2.issued[g]
                      /\ q2[g].sent # 0 => q2[g].sent = l2.issued[g] /\ q2[g].token < q2[g].sent
                      /\ q2[g].read # 0 => q2[g].sent # 0
    BY DEF Tokens
  <2>1. CASE g = f
    BY <2>1, <1>1, <1>2, <1>3, <1>4, <1>5, <1>6, <1>7 DEF Root
  <2>2. CASE g # f
    <3>1. q2[g] = q[g] /\ l2.issued[g] = led.issued[g] /\ led.issued[g] \in Nat
      BY <2>2, <1>5, <1>6 DEF Requests, Ledger
    <3> QED
      BY <3>1, <1>4, <1>7 DEF Requests, Tokens, Ledger
  <2> QED
    BY <2>1, <2>2
<1>9. \A c \in Nat : Known(q, c) => Known(q2, c)
  <2> SUFFICES ASSUME NEW c \in Nat, Known(q, c), NEW g \in Filters
               PROVE  q2[g].basis <= c /\ q2[g].read <= c
    BY DEF Known
  <2>1. CASE g = f
    BY <2>1, <1>3, <1>5 DEF Known
  <2>2. CASE g # f
    BY <2>2, <1>5 DEF Known
  <2> QED
    BY <2>1, <2>2
<1>10. \A low \in Nat : SinceFence(q, led, low) => SinceFence(q2, l2, low)
  <2> SUFFICES ASSUME NEW low \in Nat, SinceFence(q, led, low), NEW g \in Filters
               PROVE  /\ q2[g].read # 0 => q2[g].read >= low
                      /\ (/\ q2[g].token # 0
                          /\ (q2[g].token = l2.accepted[g] \/ q2[g].token = l2.issued[g]))
                           => q2[g].basis >= low
    BY DEF SinceFence
  <2>1. CASE g = f
    <3>1. q2[g].token # l2.issued[g]
      BY <2>1, <1>2, <1>3, <1>5, <1>6, <1>7 DEF Root
    <3> QED
      BY <3>1, <2>1, <1>3, <1>4, <1>5 DEF SinceFence
  <2>2. CASE g # f
    BY <2>2, <1>4, <1>5, <1>6 DEF SinceFence
  <2> QED
    BY <2>1, <2>2
<1> QED
  BY <1>4, <1>5, <1>8, <1>9, <1>10 DEF Requests

LEMMA InvalidKeeps ==
  ASSUME NEW q, NEW led, Requests(q, led)
  PROVE  /\ Requests(Invalid(q), led)
         /\ \A f \in Filters : Invalid(q)[f].token = q[f].token /\ Invalid(q)[f].read = 0
         /\ \A c \in Nat : Known(q, c) => Known(Invalid(q), c)
         /\ \A low \in Nat : SinceFence(q, led, low) => SinceFence(Invalid(q), led, low)
<1> DEFINE q2 == Invalid(q)
<1>1. ASSUME NEW f \in Filters
      PROVE  /\ q2[f] \in Root /\ q2[f].token = q[f].token /\ q2[f].basis = q[f].basis
             /\ q2[f].sent = 0 /\ q2[f].read = 0
  <2> DEFINE r == Cancelled(q[f])
  <2>1. q[f] \in Root
    BY DEF Requests
  <2>2. r \in Root /\ r.token = q[f].token /\ r.basis = q[f].basis /\ r.sent = 0 /\ r.read = 0
    BY <2>1 DEF Cancelled, Root
  <2>3. q2[f] = [r EXCEPT !.stale = TRUE]
    BY DEF Invalid
  <2> QED
    BY <2>2, <2>3 DEF Root
<1>2. q2 \in [Filters -> Root]
  BY <1>1 DEF Invalid
<1>3. Tokens(q2, led)
  BY <1>1 DEF Requests, Tokens
<1>4. \A c \in Nat : Known(q, c) => Known(q2, c)
  BY <1>1 DEF Known
<1>5. \A low \in Nat : SinceFence(q, led, low) => SinceFence(q2, led, low)
  BY <1>1 DEF SinceFence
<1> QED
  BY <1>1, <1>2, <1>3, <1>4, <1>5 DEF Requests

\* The fence: no cached root is issued or accepted any more, whatever was known before.
LEMMA FenceLedgerIs ==
  ASSUME Requests(roots, ledger)
  PROVE  /\ FenceLedger \in Ledger /\ FenceLedger.seq = ledger.seq + 1
         /\ FenceLedger.fence = ledger.fence
         /\ \A f \in Filters :
              \/ /\ FenceLedger.issued[f] = ledger.seq + 1
                 /\ FenceLedger.accepted[f] = 0
              \/ /\ FenceLedger.issued[f] = 0 /\ FenceLedger.accepted[f] = 0
                 /\ ledger.issued[f] = 0
<1> DEFINE known == {f \in Filters : ledger.issued[f] > 0 \/ ledger.accepted[f] > 0}
           S == {ledger.seq} \cup {ledger.issued[f] : f \in known}
                             \cup {ledger.accepted[f] : f \in known}
           t == ledger.seq + 1
           i == [f \in Filters |-> IF f \in known THEN t ELSE ledger.issued[f]]
           a == [f \in Filters |-> IF f \in known THEN 0 ELSE ledger.accepted[f]]
<1>1. /\ ledger.seq \in Nat
      /\ \A f \in Filters : /\ ledger.issued[f] \in Nat /\ ledger.accepted[f] \in Nat
                            /\ ledger.issued[f] <= ledger.seq
                            /\ ledger.accepted[f] <= ledger.seq
  BY DEF Requests, Tokens, Ledger
<1>2. S \subseteq Nat /\ ledger.seq \in S /\ \A x \in S : x <= ledger.seq
  BY <1>1
<1>3. Max(S) = ledger.seq
  <2> HIDE DEF S
  <2> QED
    BY <1>2, MaxIs
<1>4. FenceLedger = [seq |-> t, fence |-> ledger.fence, issued |-> i, accepted |-> a]
  BY <1>3 DEF FenceLedger
<1>5. i \in [Filters -> Nat] /\ a \in [Filters -> Nat]
  BY <1>1
<1>6. \A f \in Filters : \/ i[f] = t /\ a[f] = 0
                         \/ i[f] = 0 /\ a[f] = 0 /\ ledger.issued[f] = 0
  BY <1>1
<1>7. t \in Nat /\ ledger.fence \in Nat
  BY <1>1 DEF Requests, Ledger
<1> QED
  <2> HIDE DEF i, a, t
  <2>1. /\ FenceLedger \in Ledger /\ FenceLedger.seq = t /\ FenceLedger.fence = ledger.fence
        /\ FenceLedger.issued = i /\ FenceLedger.accepted = a
    BY <1>4, <1>5, <1>7 DEF Ledger
  <2>2. t = ledger.seq + 1
    BY DEF t
  <2> QED
    BY <2>1, <2>2, <1>6

\* After the fence no cached root is issued or accepted, and none is on its way.
LEMMA FenceWorks ==
  ASSUME Requests(roots, ledger), NEW n \in Nat, NEW led, led = [FenceLedger EXCEPT !.fence = n]
  PROVE  /\ Requests(Invalid(roots), led) /\ led.fence = n
         /\ \A low \in Nat : SinceFence(Invalid(roots), led, low)
<1> DEFINE q == Invalid(roots)
<1>1. /\ led \in Ledger /\ led.fence = n /\ led.seq = ledger.seq + 1
      /\ led.issued = FenceLedger.issued /\ led.accepted = FenceLedger.accepted
  BY FenceLedgerIs DEF Ledger
<1>2. /\ Requests(q, ledger)
      /\ \A f \in Filters : q[f].token = roots[f].token /\ q[f].read = 0
  BY InvalidKeeps
<1>3. ASSUME NEW f \in Filters
      PROVE  /\ led.issued[f] <= led.seq /\ led.accepted[f] <= led.issued[f]
             /\ q[f].token <= led.issued[f] /\ q[f].read = 0 /\ q[f].sent = 0
             /\ q[f].token # 0 => q[f].token # led.accepted[f] /\ q[f].token # led.issued[f]
  <2>1. /\ q[f].token \in Nat /\ q[f].token <= ledger.issued[f]
        /\ ledger.issued[f] \in Nat /\ ledger.seq \in Nat /\ ledger.issued[f] <= ledger.seq
    BY <1>2 DEF Requests, Tokens, Ledger, Root
  <2>2. \/ led.issued[f] = ledger.seq + 1 /\ led.accepted[f] = 0
        \/ led.issued[f] = 0 /\ led.accepted[f] = 0 /\ ledger.issued[f] = 0
    BY <1>1, FenceLedgerIs
  <2>3. q[f].read = 0 /\ q[f].sent = 0
    BY DEF Invalid, Cancelled, Requests, Root
  <2> QED
    BY <1>1, <2>1, <2>2, <2>3
<1>4. Tokens(q, led)
  BY <1>3 DEF Tokens
<1>5. \A low \in Nat : SinceFence(q, led, low)
  BY <1>3 DEF SinceFence
<1> QED
  BY <1>1, <1>2, <1>4, <1>5 DEF Requests

LEMMA FenceLedgerWorks ==
  ASSUME Requests(roots, ledger)
  PROVE  /\ Requests(Invalid(roots), FenceLedger)
         /\ FenceLedger.fence = ledger.fence
         /\ \A low \in Nat : SinceFence(Invalid(roots), FenceLedger, low)
<1>1. FenceLedger \in Ledger /\ ledger.fence \in Nat /\ FenceLedger.fence = ledger.fence
  BY FenceLedgerIs DEF Requests, Ledger
<1>2. FenceLedger = [FenceLedger EXCEPT !.fence = ledger.fence]
  BY <1>1 DEF Ledger
<1> QED
  BY <1>1, <1>2, FenceWorks

\* The ledger is given and the cached roots are invalid, whether or not one is observed.
LEMMA InvalidateRootsKeeps ==
  ASSUME NEW led, Requests(Invalid(roots), led), InvalidateRoots(led), view.filter \in Filters
  PROVE  /\ Requests(roots', ledger') /\ ledger'.fence = led.fence
         /\ \A c \in Nat : Known(Invalid(roots), c) => Known(roots', c)
         /\ \A low \in Nat : SinceFence(Invalid(roots), led, low) => SinceFence(roots', ledger', low)
<1>1. CASE view.on
  BY <1>1, FetchKeeps DEF InvalidateRoots
<1>2. CASE ~view.on
  BY <1>2 DEF InvalidateRoots
<1> QED
  BY <1>1, <1>2

\* Opening the panel or changing its filters asks for a root.
LEMMA ObserveKeeps ==
  ASSUME Requests(roots, ledger), NEW v, v.filter \in Filters, Observe(v)
  PROVE  /\ Requests(roots', ledger') /\ ledger'.fence = ledger.fence
         /\ \A c \in Nat : Known(roots, c) => Known(roots', c)
         /\ \A low \in Nat : SinceFence(roots, ledger, low) => SinceFence(roots', ledger', low)
<1> DEFINE f == v.filter
<1>1. \/ roots' = Fetch(roots, ledger, f) /\ ledger' = Issue(roots, ledger, f)
      \/ roots' = roots /\ ledger' = ledger
  BY DEF Observe
<1> QED
  BY <1>1, FetchKeeps

\* A list is refused only when its basis is not the present one.
RefusedFits(q, basis, c) == \A l \in Lanes, k \in Layers : q[l][k].error = "changed" => basis < c
LanesType == [Lanes -> [Layers -> Lane]]

DiffInv ==
  /\ WorkbenchTypeOK /\ Sound(view)
  /\ Requests(roots, ledger) /\ Known(roots, compared)
  /\ RefusedFits(lanes, view.basis, compared)
  /\ page.mounts = 1 => /\ ledger.fence <= page.seen /\ page.seen <= page.count
                        /\ SinceFence(roots, ledger, floor)

LEMMA NoLanesType == NoLanes \in LanesType /\ \A b, c : RefusedFits(NoLanes, b, c)
  BY DEF NoLanes, NewLane, LanesType, Lane, RefusedFits

\* The lists of branches and cells.
LEMMA SetLaneKeeps ==
  ASSUME NEW l \in Lanes, NEW k \in Layers, NEW e \in Lane, lanes \in LanesType,
         NEW b, NEW c, RefusedFits(lanes, b, c), e.error = "changed" => b < c, SetLane(l, k, e)
  PROVE  lanes' \in LanesType /\ RefusedFits(lanes', b, c)
<1> DEFINE row == [lanes[l] EXCEPT ![k] = e]
<1>1. lanes[l] \in [Layers -> Lane]
  BY DEF LanesType
<1>2. row \in [Layers -> Lane] /\ row[k] = e /\ \A j \in Layers \ {k} : row[j] = lanes[l][j]
  BY <1>1
<1>3. lanes' = [lanes EXCEPT ![l] = row]
  BY DEF SetLane
<1>4. lanes' \in LanesType /\ lanes'[l] = row /\ \A m \in Lanes \ {l} : lanes'[m] = lanes[m]
  BY <1>2, <1>3 DEF LanesType
<1>5. ASSUME NEW m \in Lanes, NEW j \in Layers, lanes'[m][j].error = "changed"
      PROVE  b < c
  <2>1. CASE m = l /\ j = k
    BY <2>1, <1>2, <1>4, <1>5
  <2>2. CASE m # l \/ j # k
    BY <2>2, <1>2, <1>4, <1>5 DEF RefusedFits
  <2> QED
    BY <2>1, <2>2
<1> QED
  BY <1>4, <1>5 DEF RefusedFits

-----------------------------------------------------------------------------
\* The steps, one lemma each.
LEMMA DiffStarts == ASSUME WorkbenchConstants PROVE WorkbenchInit => DiffInv
<1> SUFFICES ASSUME WorkbenchInit PROVE DiffInv
  OBVIOUS
<1>1. NewView \in ViewType /\ NewView.open = RootOnly /\ NewView.shown = NothingShown
      /\ NewView.basis = 0
  BY NoPagesType DEF WorkbenchConstants, NewView, RootOnly, ViewType, Modes, LayerOrNone
<1>2. Sound(view)
  BY <1>1 DEF WorkbenchInit, Sound, Matching, RootOnly, NothingShown
<1>3. roots \in [Filters -> Root] /\ ledger \in Ledger
  BY DEF WorkbenchInit, NewRoot, Root, Ledger
<1>4. Tokens(roots, ledger) /\ Known(roots, compared) /\ SinceFence(roots, ledger, floor)
  BY DEF WorkbenchInit, NewRoot, Tokens, Known, SinceFence
<1>5. lanes \in LanesType /\ RefusedFits(lanes, view.basis, compared)
  BY NoLanesType DEF WorkbenchInit
<1>6. WorkbenchTypeOK
  BY <1>1, <1>3, <1>5 DEF WorkbenchInit, WorkbenchTypeOK, Ledger, LanesType
<1> QED
  BY <1>2, <1>3, <1>4, <1>5, <1>6 DEF DiffInv, Requests, WorkbenchInit

\* Steps that leave all but the roots, all but the lanes, or all but the view alone.
LEMMA RootsMayChange ==
  ASSUME DiffInv, UNCHANGED <<compared, own, page, lanes, view, floor>>, diffSteps' \in Nat,
         Requests(roots', ledger'), Known(roots', compared),
         ledger'.fence <= ledger.fence,
         SinceFence(roots, ledger, floor) => SinceFence(roots', ledger', floor)
  PROVE  DiffInv'
<1>1. WorkbenchTypeOK'
  BY DEF DiffInv, WorkbenchTypeOK, Requests, Ledger
<1>2. page'.mounts = 1 => /\ ledger'.fence <= page'.seen /\ page'.seen <= page'.count
                          /\ SinceFence(roots', ledger', floor')
  BY DEF DiffInv, WorkbenchTypeOK, Requests, Ledger
<1> QED
  BY <1>1, <1>2 DEF DiffInv, Sound, Matching

LEMMA LanesMayChange ==
  ASSUME DiffInv, UNCHANGED <<compared, own, page, ledger, roots, view, floor>>,
         diffSteps' \in Nat, lanes' \in LanesType, RefusedFits(lanes', view.basis, compared)
  PROVE  DiffInv'
<1>1. WorkbenchTypeOK'
  BY DEF DiffInv, WorkbenchTypeOK, LanesType
<1> QED
  BY <1>1 DEF DiffInv

LEMMA ViewMayChange ==
  ASSUME DiffInv, UNCHANGED <<compared, own, page, ledger, roots, floor>>,
         diffSteps' \in Nat, Sound(view'), view'.basis = view.basis,
         lanes' \in LanesType, RefusedFits(lanes', view.basis, compared)
  PROVE  DiffInv'
<1>1. WorkbenchTypeOK'
  BY DEF DiffInv, WorkbenchTypeOK, Sound, LanesType
<1> QED
  BY <1>1 DEF DiffInv

-----------------------------------------------------------------------------
LEMMA DiffParts ==
  ASSUME DiffInv
  PROVE  /\ compared \in Nat \ {0} /\ diffSteps \in Nat
         /\ own \in Nat /\ own <= compared /\ floor \in Nat /\ floor <= compared
         /\ page \in [count : Nat, seen : Nat, told : Nat, mounts : Nat \ {0}]
         /\ page.told <= compared
         /\ view \in ViewType /\ Sound(view) /\ view.filter \in Filters
         /\ view.basis \in Nat /\ view.basis <= compared
         /\ Requests(roots, ledger) /\ Known(roots, compared)
         /\ roots \in [Filters -> Root] /\ ledger \in Ledger /\ ledger.fence \in Nat
         /\ lanes \in LanesType /\ RefusedFits(lanes, view.basis, compared)
         /\ page.mounts = 1 => /\ ledger.fence <= page.seen /\ page.seen <= page.count
                               /\ SinceFence(roots, ledger, floor)
<1>1. view \in ViewType /\ view.filter \in Filters /\ view.basis \in Nat
  BY DEF DiffInv, Sound, ViewType
<1>2. roots \in [Filters -> Root] /\ ledger \in Ledger /\ ledger.fence \in Nat
  BY DEF DiffInv, Requests, Ledger
<1> QED
  BY <1>1, <1>2 DEF DiffInv, WorkbenchTypeOK, LanesType

LEMMA StepCounts ==
  ASSUME diffSteps \in Nat, WorkbenchStep
  PROVE  diffSteps' \in Nat
  BY DEF WorkbenchStep

LEMMA CommitsKeep ==
  ASSUME DiffInv, OtherCommits \/ OwnCommits
  PROVE  DiffInv'
<1>1. /\ compared' = compared + 1 /\ own' \in {own, compared'} /\ diffSteps' \in Nat
      /\ UNCHANGED <<page, ledger, roots, lanes, view, floor>>
  BY DiffParts, StepCounts DEF OtherCommits, OwnCommits
<1>2. WorkbenchTypeOK'
  BY <1>1, DiffParts DEF DiffInv, WorkbenchTypeOK
<1>3. Known(roots', compared')
  BY <1>1, DiffParts DEF Known, Root
<1>4. RefusedFits(lanes', view'.basis, compared')
  BY <1>1, DiffParts DEF RefusedFits
<1> QED
  BY <1>1, <1>2, <1>3, <1>4 DEF DiffInv, Sound, Matching

LEMMA PersistedKeeps ==
  ASSUME DiffInv, Persisted
  PROVE  DiffInv'
<1>1. /\ own' = 0 /\ page' = [[page EXCEPT !.count = page.count + 1] EXCEPT !.told = own]
      /\ InvalidateRoots(ledger) /\ lanes' = NoLanes
      /\ UNCHANGED <<compared, view, floor, diffSteps>>
  BY DEF Persisted
<1>2. /\ page' \in [count : Nat, seen : Nat, told : Nat, mounts : Nat \ {0}]
      /\ page'.told = own /\ page'.count = page.count + 1 /\ page'.seen = page.seen
      /\ page'.mounts = page.mounts
  <2> DEFINE p == [page EXCEPT !.count = page.count + 1]
  <2>1. /\ p \in [count : Nat, seen : Nat, told : Nat, mounts : Nat \ {0}]
        /\ p.count = page.count + 1 /\ p.seen = page.seen /\ p.mounts = page.mounts
    BY DiffParts
  <2>2. page' = [p EXCEPT !.told = own] /\ own \in Nat
    BY <1>1, DiffParts
  <2> QED
    BY <2>1, <2>2
<1>3. /\ Requests(Invalid(roots), ledger) /\ Known(Invalid(roots), compared)
      /\ SinceFence(roots, ledger, floor) => SinceFence(Invalid(roots), ledger, floor)
  BY DiffParts, InvalidKeeps
<1>4. /\ Requests(roots', ledger') /\ ledger'.fence = ledger.fence /\ Known(roots', compared)
      /\ SinceFence(roots, ledger, floor) => SinceFence(roots', ledger', floor)
  BY <1>1, <1>3, DiffParts, InvalidateRootsKeeps
<1>5. lanes' \in LanesType /\ RefusedFits(lanes', view.basis, compared)
  BY <1>1, NoLanesType
<1>6. WorkbenchTypeOK'
  BY <1>1, <1>2, <1>4, <1>5, DiffParts DEF WorkbenchTypeOK, Requests, Ledger, LanesType
<1>7. page'.mounts = 1 => /\ ledger'.fence <= page'.seen /\ page'.seen <= page'.count
                          /\ SinceFence(roots', ledger', floor')
  BY <1>1, <1>2, <1>4, DiffParts
<1> QED
  BY <1>1, <1>4, <1>5, <1>6, <1>7 DEF DiffInv, Sound, Matching

LEMMA RemountKeeps ==
  ASSUME WorkbenchConstants, DiffInv, Remount
  PROVE  DiffInv' /\ view'.basis \in {view.basis, 0}
<1>1. /\ page' = [count |-> 0, seen |-> 0, told |-> 0, mounts |-> page.mounts + 1]
      /\ view' = NewView /\ diffSteps' \in Nat
      /\ UNCHANGED <<compared, own, ledger, roots, lanes, floor>>
  BY DiffParts, StepCounts DEF Remount
<1>2. NewView \in ViewType /\ NewView.open = RootOnly /\ NewView.shown = NothingShown
      /\ NewView.basis = 0
  BY NoPagesType DEF WorkbenchConstants, NewView, RootOnly, ViewType, Modes, LayerOrNone
<1>3. Sound(view')
  BY <1>1, <1>2 DEF Sound, Matching, RootOnly, NothingShown
<1>4. RefusedFits(lanes', view'.basis, compared')
  BY <1>1, <1>2, DiffParts DEF RefusedFits
<1>5. page'.mounts # 1
  BY <1>1, DiffParts
<1>6. WorkbenchTypeOK'
  BY <1>1, <1>2, DiffParts DEF WorkbenchTypeOK, Ledger, LanesType
<1> QED
  BY <1>1, <1>2, <1>3, <1>4, <1>5, <1>6, DiffParts DEF DiffInv

LEMMA CollectRootKeeps ==
  ASSUME DiffInv, NEW f \in Filters, CollectRoot(f)
  PROVE  DiffInv'
<1> DEFINE i == [ledger.issued EXCEPT ![f] = 0]  a == [ledger.accepted EXCEPT ![f] = 0]
<1>1. /\ roots' = [roots EXCEPT ![f] = NewRoot] /\ ledger' = Forgotten(f) /\ diffSteps' \in Nat
      /\ UNCHANGED <<compared, own, page, lanes, view, floor>>
  BY DiffParts, StepCounts DEF CollectRoot
<1>2. /\ ledger' \in Ledger /\ ledger'.seq = ledger.seq /\ ledger'.issued = i
      /\ ledger'.accepted = a /\ ledger'.fence \in {0, ledger.fence}
  BY <1>1, DiffParts DEF Forgotten, Ledger
<1>3. NewRoot \in Root /\ roots' \in [Filters -> Root]
  BY <1>1, DiffParts DEF NewRoot, Root
<1>4. Tokens(roots', ledger')
  BY <1>1, <1>2, DiffParts DEF Tokens, Requests, NewRoot, Ledger
<1>5. Known(roots', compared)
  BY <1>1, DiffParts DEF Known, NewRoot
<1>6. SinceFence(roots, ledger, floor) => SinceFence(roots', ledger', floor)
  BY <1>1, <1>2, DiffParts DEF SinceFence, NewRoot, Ledger
<1> QED
  BY <1>1, <1>2, <1>3, <1>4, <1>5, <1>6, DiffParts, RootsMayChange DEF Requests

\* What a cached root has to satisfy under a filter.
RootFits(r, f) ==
  /\ r \in Root /\ r.token <= ledger.issued[f] /\ r.basis <= compared /\ r.read <= compared
  /\ r.sent # 0 => r.sent = ledger.issued[f] /\ r.token < r.sent
  /\ r.read # 0 => r.sent # 0
  /\ SinceFence(roots, ledger, floor) =>
       /\ r.read # 0 => r.read >= floor
       /\ r.token # 0 /\ (r.token = ledger.accepted[f] \/ r.token = ledger.issued[f])
            => r.basis >= floor

LEMMA RootSetKeeps ==
  ASSUME DiffInv, NEW f \in Filters, NEW r, RootFits(r, f), roots' = [roots EXCEPT ![f] = r],
         UNCHANGED <<compared, own, page, ledger, lanes, view, floor>>, diffSteps' \in Nat
  PROVE  DiffInv'
<1>1. roots' \in [Filters -> Root]
  BY DiffParts DEF RootFits
<1>2. Tokens(roots', ledger')
  BY DiffParts DEF Tokens, Requests, RootFits
<1>3. Known(roots', compared)
  BY DiffParts DEF Known, RootFits
<1>4. SinceFence(roots, ledger, floor) => SinceFence(roots', ledger', floor)
  BY DiffParts DEF SinceFence, RootFits
<1> QED
  BY <1>1, <1>2, <1>3, <1>4, DiffParts, RootsMayChange DEF Requests

LEMMA ReadRootKeeps ==
  ASSUME DiffInv, NEW f \in Filters, ReadRoot(f)
  PROVE  DiffInv'
<1> DEFINE r == [roots[f] EXCEPT !.read = compared]
<1>1. /\ roots' = [roots EXCEPT ![f] = r] /\ roots[f].sent # 0
      /\ UNCHANGED <<compared, own, page, ledger, lanes, view, floor, diffSteps>>
  BY DEF ReadRoot
<1>2. roots[f] \in Root
  BY DiffParts
<1>3. /\ r \in Root /\ r.token = roots[f].token /\ r.basis = roots[f].basis
      /\ r.sent = roots[f].sent /\ r.read = compared
  BY <1>2, DiffParts DEF Root
<1>4. /\ r.token <= ledger.issued[f]
      /\ r.sent # 0 => r.sent = ledger.issued[f] /\ r.token < r.sent
      /\ r.basis <= compared
  BY <1>3, DiffParts DEF Requests, Tokens, Known
<1>5. SinceFence(roots, ledger, floor) =>
        (r.token # 0 /\ (r.token = ledger.accepted[f] \/ r.token = ledger.issued[f])
           => r.basis >= floor)
  BY <1>3 DEF SinceFence
<1>7. RootFits(r, f)
  BY <1>1, <1>3, <1>4, <1>5, DiffParts DEF RootFits
<1> HIDE DEF r
<1> QED
  BY <1>1, <1>7, DiffParts, RootSetKeeps

LEMMA RootArrivesKeeps ==
  ASSUME DiffInv, NEW f \in Filters, RootArrives(f)
  PROVE  DiffInv'
<1> DEFINE r == [[NewRoot EXCEPT !.token = roots[f].sent] EXCEPT !.basis = roots[f].read]
<1>1. /\ roots' = [roots EXCEPT ![f] = r] /\ roots[f].read # 0
      /\ UNCHANGED <<compared, own, page, ledger, lanes, view, floor, diffSteps>>
  BY DEF RootArrives
<1>2. roots[f] \in Root
  BY DiffParts
<1>3. /\ r \in Root /\ r.token = roots[f].sent /\ r.basis = roots[f].read
      /\ r.sent = 0 /\ r.read = 0
  BY <1>2, DiffParts DEF Root, NewRoot
<1>4. r.token <= ledger.issued[f] /\ r.basis <= compared
  BY <1>1, <1>2, <1>3, DiffParts DEF Requests, Tokens, Known, Ledger, Root
<1>5. SinceFence(roots, ledger, floor) => r.basis >= floor
  BY <1>1, <1>3 DEF SinceFence
<1>7. RootFits(r, f)
  BY <1>1, <1>3, <1>4, <1>5, DiffParts DEF RootFits
<1> HIDE DEF r
<1> QED
  BY <1>1, <1>7, DiffParts, RootSetKeeps

LEMMA RootFailsKeeps ==
  ASSUME DiffInv, NEW f \in Filters, RootFails(f)
  PROVE  DiffInv'
<1> DEFINE c == Cancelled(roots[f])  r == [c EXCEPT !.failed = TRUE]
<1>1. /\ roots' = [roots EXCEPT ![f] = r] /\ diffSteps' \in Nat
      /\ UNCHANGED <<compared, own, page, ledger, lanes, view, floor>>
  BY DiffParts, StepCounts DEF RootFails
<1>2. roots[f] \in Root
  BY DiffParts
<1>6. /\ c \in Root /\ c.token = roots[f].token /\ c.basis = roots[f].basis
      /\ c.sent = 0 /\ c.read = 0
  BY <1>2 DEF Root, Cancelled
<1>3. /\ r \in Root /\ r.token = roots[f].token /\ r.basis = roots[f].basis
      /\ r.sent = 0 /\ r.read = 0
  BY <1>6 DEF Root
<1>4. r.token <= ledger.issued[f] /\ r.basis <= compared
  BY <1>3, DiffParts DEF Requests, Tokens, Known
<1>5. SinceFence(roots, ledger, floor) =>
        (r.token # 0 /\ (r.token = ledger.accepted[f] \/ r.token = ledger.issued[f])
           => r.basis >= floor)
  BY <1>3 DEF SinceFence
<1>7. RootFits(r, f)
  BY <1>1, <1>3, <1>4, <1>5, DiffParts DEF RootFits
<1> HIDE DEF r
<1> QED
  BY <1>1, <1>7, DiffParts, RootSetKeeps

LEMMA RetryRootKeeps ==
  ASSUME DiffInv, RetryRoot
  PROVE  DiffInv'
<1>1. /\ roots' = Fetch(roots, ledger, view.filter) /\ ledger' = Issue(roots, ledger, view.filter)
      /\ UNCHANGED <<compared, own, page, lanes, view, floor>> /\ diffSteps' \in Nat
  BY DiffParts, StepCounts DEF RetryRoot
<1>2. /\ Requests(roots', ledger') /\ ledger'.fence = ledger.fence /\ Known(roots', compared)
      /\ SinceFence(roots, ledger, floor) => SinceFence(roots', ledger', floor)
  BY <1>1, DiffParts, FetchKeeps
<1> QED
  BY <1>1, <1>2, DiffParts, RootsMayChange

-----------------------------------------------------------------------------
LEMMA OpenLayer ==
  ASSUME DiffInv, NEW l \in Lanes, LaneOn(view, l)
  PROVE  /\ view.open.layer \in Layers /\ LaneNow(l) \in Lane
         /\ LaneNow(l).error = "changed" => view.basis < compared
<1>1. view.open.mode # "root"
  BY DEF LaneOn
<1>2. view.open.layer \in Layers
  BY <1>1, DiffParts DEF Sound, ViewType, LayerOrNone
<1> QED
  BY <1>2, DiffParts DEF LaneNow, LanesType, RefusedFits

LEMMA MaxOfTwo ==
  ASSUME NEW a \in Nat, NEW b \in Nat
  PROVE  Max({a, b}) \in {a, b} /\ Max({a, b}) \in Nat /\ Max({a, b}) >= a /\ Max({a, b}) >= b
<1>1. CASE a <= b
  <2>1. \A x \in {a, b} : x <= b
    BY <1>1
  <2>2. Max({a, b}) = b
    BY <2>1, MaxIs
  <2> QED
    BY <2>2, <1>1
<1>2. CASE ~(a <= b)
  <2>1. \A x \in {a, b} : x <= a
    BY <1>2
  <2>2. Max({a, b}) = a
    BY <2>1, MaxIs
  <2> QED
    BY <2>2, <1>2
<1> QED
  BY <1>1, <1>2

LEMMA LaneFetchKeeps ==
  ASSUME DiffInv, NEW l \in Lanes, LaneOn(view, l), NEW want \in Nat, LaneFetch(l, want),
         UNCHANGED <<compared, own, page, ledger, roots, view, floor>>, diffSteps' \in Nat
  PROVE  DiffInv'
<1> DEFINE e == LaneNow(l)  k == view.open.layer  r == LaneRequest(e, want, Max({e.issued, e.token}) + 1)
<1>1. e \in Lane /\ k \in Layers
  BY OpenLayer
<1>2. e.issued \in Nat /\ e.token \in Nat
  BY <1>1 DEF Lane
<1>3. Max({e.issued, e.token}) + 1 \in Nat
  BY <1>2, MaxOfTwo
<1>4. r \in Lane /\ r.error = "none"
  BY <1>1, <1>3 DEF LaneRequest, Lane
<1>5. SetLane(l, k, r)
  BY DEF LaneFetch
<1> HIDE DEF r, k
<1>6. lanes' \in LanesType /\ RefusedFits(lanes', view.basis, compared)
  BY <1>1, <1>4, <1>5, DiffParts, SetLaneKeeps
<1> QED
  BY <1>6, LanesMayChange

LEMMA FirstPageKeeps ==
  ASSUME DiffInv, NEW l \in Lanes, FirstPage(l)
  PROVE  DiffInv'
<1>1. /\ LaneOn(view, l) /\ LaneFetch(l, 1)
      /\ UNCHANGED <<compared, own, page, ledger, roots, view, floor, diffSteps>>
  BY DEF FirstPage
<1> QED
  BY <1>1, DiffParts, LaneFetchKeeps

LEMMA LoadMoreKeeps ==
  ASSUME DiffInv, NEW l \in Lanes, LoadMore(l)
  PROVE  DiffInv'
<1>1. /\ LaneOn(view, l) /\ LaneFetch(l, LaneNow(l).n + 1) /\ diffSteps' \in Nat
      /\ UNCHANGED <<compared, own, page, ledger, roots, view, floor>>
  BY DiffParts, StepCounts DEF LoadMore
<1>2. LaneNow(l).n + 1 \in Nat
  BY <1>1, OpenLayer DEF Lane
<1> QED
  BY <1>1, <1>2, LaneFetchKeeps

LEMMA RetryLaneKeeps ==
  ASSUME DiffInv, NEW l \in Lanes, RetryLane(l)
  PROVE  DiffInv'
<1>1. /\ LaneOn(view, l) /\ LaneFetch(l, Max({1, LaneNow(l).n})) /\ diffSteps' \in Nat
      /\ UNCHANGED <<compared, own, page, ledger, roots, view, floor>>
  BY DiffParts, StepCounts DEF RetryLane
<1>2. LaneNow(l).n \in Nat
  BY <1>1, OpenLayer DEF Lane
<1>3. Max({1, LaneNow(l).n}) \in Nat
  BY <1>2, MaxOfTwo
<1> QED
  BY <1>1, <1>3, LaneFetchKeeps

LEMMA LaneArrivesKeeps ==
  ASSUME DiffInv, NEW l \in Lanes, NEW k \in Layers, LaneArrives(l, k)
  PROVE  DiffInv'
<1> DEFINE e == lanes[l][k]
           r == IF view.basis = compared THEN LaneFilled(e) ELSE LaneFailed(e, "changed")
<1>1. SetLane(l, k, r) /\ UNCHANGED <<compared, own, page, ledger, roots, view, floor, diffSteps>>
  BY DEF LaneArrives
<1>2. e \in Lane /\ (e.error = "changed" => view.basis < compared)
  BY DiffParts DEF LanesType, RefusedFits
<1>3. LaneFilled(e) \in Lane /\ LaneFilled(e).error = e.error
  <2> DEFINE a == [e EXCEPT !.sent = 0]  b == [a EXCEPT !.n = e.want]
  <2>1. a \in Lane /\ a.error = e.error /\ e.want \in Nat /\ e.sent \in Nat
    BY <1>2 DEF Lane
  <2>2. b \in Lane /\ b.error = e.error
    BY <2>1 DEF Lane
  <2>3. LaneFilled(e) = [b EXCEPT !.token = e.sent]
    BY DEF LaneFilled
  <2> QED
    BY <2>1, <2>2, <2>3 DEF Lane
<1>4. LaneFailed(e, "changed") \in Lane
  BY <1>2 DEF LaneFailed, Lane
<1>5. r \in Lane /\ (r.error = "changed" => view.basis < compared)
  BY <1>2, <1>3, <1>4, DiffParts
<1> HIDE DEF r
<1>6. lanes' \in LanesType /\ RefusedFits(lanes', view.basis, compared)
  BY <1>1, <1>5, DiffParts, SetLaneKeeps
<1> QED
  BY <1>1, <1>6, DiffParts, LanesMayChange

LEMMA LaneFailsKeeps ==
  ASSUME DiffInv, NEW l \in Lanes, NEW k \in Layers, LaneFails(l, k)
  PROVE  DiffInv'
<1> DEFINE e == lanes[l][k]  r == LaneFailed(e, "network")
<1>1. /\ SetLane(l, k, r) /\ diffSteps' \in Nat
      /\ UNCHANGED <<compared, own, page, ledger, roots, view, floor>>
  BY DiffParts, StepCounts DEF LaneFails
<1>2. e \in Lane
  BY DiffParts DEF LanesType
<1>3. r \in Lane /\ r.error = "network"
  BY <1>2 DEF LaneFailed, Lane
<1> HIDE DEF r
<1>4. lanes' \in LanesType /\ RefusedFits(lanes', view.basis, compared)
  BY <1>1, <1>3, DiffParts, SetLaneKeeps
<1> QED
  BY <1>1, <1>4, LanesMayChange

LEMMA PublishLaneKeeps ==
  ASSUME DiffInv, NEW l \in Lanes, PublishLane(l)
  PROVE  DiffInv' /\ view'.basis \in {view.basis, 0}
<1> DEFINE e == LaneNow(l)  k == view.open.layer  r == [e EXCEPT !.accepted = e.token]
           pages == [basis |-> view.basis, layer |-> view.open.layer, n |-> e.n]
           s == [view.shown EXCEPT ![l] = pages]
<1>1. /\ LaneOn(view, l) /\ SetLane(l, k, r) /\ view' = [view EXCEPT !.shown = s]
      /\ UNCHANGED <<compared, own, page, ledger, roots, floor, diffSteps>>
  BY DEF PublishLane, Showing
<1>2. e \in Lane /\ k \in Layers /\ (e.error = "changed" => view.basis < compared)
  BY <1>1, OpenLayer
<1>3. r \in Lane /\ r.error = e.error
  BY <1>2 DEF Lane
<1>4. pages \in PageList /\ view.shown \in [Lanes -> PageList]
  BY <1>2, DiffParts DEF PageList, Lane, LayerOrNone, ViewType
<1>5. s \in [Lanes -> PageList] /\ s[l] = pages /\ \A m \in Lanes \ {l} : s[m] = view.shown[m]
  BY <1>4
<1>6. /\ view' \in ViewType /\ view'.open = view.open /\ view'.shown = s
      /\ view'.basis = view.basis
  BY <1>1, <1>5, DiffParts DEF ViewType
<1>7. l = "cell" => view.open.cell
  BY <1>1, DiffParts DEF LaneOn, Sound
<1>8. Matching(view')
  <2> SUFFICES ASSUME NEW m \in Lanes, view'.shown[m] # NoPages
               PROVE  /\ view'.shown[m].basis = view'.basis
                      /\ view'.shown[m].layer = view'.open.layer
                      /\ m = "cell" => view'.open.cell
    BY DEF Matching
  <2>1. CASE m = l
    BY <2>1, <1>5, <1>6, <1>7
  <2>2. CASE m # l
    BY <2>2, <1>5, <1>6, DiffParts DEF Sound, Matching
  <2> QED
    BY <2>1, <2>2
<1>9. Sound(view')
  BY <1>6, <1>8, DiffParts DEF Sound
<1> HIDE DEF r, k, s
<1>10. lanes' \in LanesType /\ RefusedFits(lanes', view.basis, compared)
  BY <1>1, <1>2, <1>3, DiffParts, SetLaneKeeps
<1> QED
  BY <1>1, <1>6, <1>9, <1>10, DiffParts, ViewMayChange

-----------------------------------------------------------------------------
LEMMA ExpandSound ==
  ASSUME NEW v, Sound(v), NEW x \in LayerOrNone
  PROVE  Sound([v EXCEPT !.expanded = x]) /\ [v EXCEPT !.expanded = x].basis = v.basis
<1> DEFINE w == [v EXCEPT !.expanded = x]
<1>1. w \in ViewType /\ w.open = v.open /\ w.shown = v.shown /\ w.basis = v.basis
  BY DEF Sound, ViewType
<1> QED
  BY <1>1 DEF Sound, Matching

LEMMA RowSound ==
  ASSUME NEW v, Sound(v), NEW x \in BOOLEAN
  PROVE  Sound([v EXCEPT !.row = x]) /\ [v EXCEPT !.row = x].basis = v.basis
<1> DEFINE w == [v EXCEPT !.row = x]
<1>1. w \in ViewType /\ w.open = v.open /\ w.shown = v.shown /\ w.basis = v.basis
  BY DEF Sound, ViewType
<1> QED
  BY <1>1 DEF Sound, Matching

LEMMA ToggleLayerKeeps ==
  ASSUME WorkbenchConstants, DiffInv, NEW layer \in Layers, ToggleLayer(layer)
  PROVE  DiffInv' /\ view'.basis \in {view.basis, 0}
<1> DEFINE v == IF view.expanded = NoLayer THEN view ELSE FoldLayer(view)
           o == IF HasLayerBranch(view, layer) THEN v ELSE OpenBranch(v, layer)
<1>1. /\ view' = (IF view.expanded = layer THEN v ELSE [o EXCEPT !.expanded = layer])
      /\ diffSteps' \in Nat /\ UNCHANGED <<compared, own, page, ledger, roots, lanes, floor>>
  BY DiffParts, StepCounts DEF ToggleLayer
<1>2. Sound(v) /\ v.basis = view.basis
  BY DiffParts, FoldLayerSound
<1>3. Sound(o) /\ o.basis = view.basis
  BY <1>2, OpenBranchSound
<1>4. Sound([o EXCEPT !.expanded = layer]) /\ [o EXCEPT !.expanded = layer].basis = view.basis
  BY <1>3, ExpandSound DEF LayerOrNone
<1>5. Sound(view') /\ view'.basis = view.basis
  BY <1>1, <1>2, <1>4
<1>6. lanes' \in LanesType /\ RefusedFits(lanes', view.basis, compared)
  BY <1>1, DiffParts
<1> QED
  BY <1>1, <1>5, <1>6, ViewMayChange

LEMMA ToggleRowKeeps ==
  ASSUME DiffInv, ToggleRow
  PROVE  DiffInv' /\ view'.basis \in {view.basis, 0}
<1> DEFINE o == IF HasCellBranch(view) THEN view ELSE OpenCell(view)
<1>1. /\ view' = (IF view.row THEN [CloseCell(view) EXCEPT !.row = FALSE]
                  ELSE [o EXCEPT !.row = TRUE])
      /\ RowListed(view) /\ diffSteps' \in Nat
      /\ UNCHANGED <<compared, own, page, ledger, roots, lanes, floor>>
  BY DiffParts, StepCounts DEF ToggleRow
<1>2. view.open.layer # NoLayer
  BY <1>1 DEF RowListed, HasLayerBranch
<1>3. Sound(CloseCell(view)) /\ CloseCell(view).basis = view.basis
  BY DiffParts, CloseCellSound
<1>4. Sound(o) /\ o.basis = view.basis
  BY <1>2, DiffParts, OpenCellSound
<1>5. Sound(view') /\ view'.basis = view.basis
  BY <1>1, <1>3, <1>4, RowSound
<1>6. lanes' \in LanesType /\ RefusedFits(lanes', view.basis, compared)
  BY <1>1, DiffParts
<1> QED
  BY <1>1, <1>5, <1>6, ViewMayChange

LEMMA SetOpenKeeps ==
  ASSUME DiffInv, NEW on \in BOOLEAN, SetOpen(on)
  PROVE  DiffInv' /\ view'.basis \in {view.basis, 0}
<1>1. /\ view' = [view EXCEPT !.on = on] /\ Observe(view') /\ diffSteps' \in Nat
      /\ UNCHANGED <<compared, own, page, lanes, floor>>
  BY DiffParts, StepCounts DEF SetOpen
<1>2. /\ view' \in ViewType /\ view'.open = view.open /\ view'.shown = view.shown
      /\ view'.basis = view.basis /\ view'.filter \in Filters
  BY <1>1, DiffParts DEF ViewType
<1>3. Sound(view')
  BY <1>2, DiffParts DEF Sound, Matching
<1>4. /\ Requests(roots', ledger') /\ ledger'.fence = ledger.fence /\ Known(roots', compared)
      /\ SinceFence(roots, ledger, floor) => SinceFence(roots', ledger', floor)
  BY <1>1, <1>2, DiffParts, ObserveKeeps
<1>5. WorkbenchTypeOK'
  BY <1>1, <1>2, <1>4, DiffParts DEF WorkbenchTypeOK, Requests, Ledger, LanesType
<1> QED
  BY <1>1, <1>2, <1>3, <1>4, <1>5, DiffParts DEF DiffInv

LEMMA ChangeFiltersKeeps ==
  ASSUME DiffInv, NEW f \in Filters, ChangeFilters(f)
  PROVE  DiffInv' /\ view'.basis \in {view.basis, 0}
<1>1. /\ view' = Fold(ReplaceFilters(view, f)) /\ lanes' = NoLanes /\ Observe(view')
      /\ diffSteps' \in Nat /\ UNCHANGED <<compared, own, page, floor>>
  BY DiffParts, StepCounts DEF ChangeFilters
<1>2. Sound(ReplaceFilters(view, f)) /\ ReplaceFilters(view, f).basis = 0
  BY DiffParts, QuerySound DEF ReplaceFilters
<1>3. Sound(view') /\ view'.basis = 0
  BY <1>1, <1>2, FoldSound
<1>4. view' \in ViewType /\ view'.filter \in Filters
  BY <1>3 DEF Sound, ViewType
<1>5. /\ Requests(roots', ledger') /\ ledger'.fence = ledger.fence /\ Known(roots', compared)
      /\ SinceFence(roots, ledger, floor) => SinceFence(roots', ledger', floor)
  BY <1>1, <1>4, DiffParts, ObserveKeeps
<1>6. lanes' \in LanesType /\ RefusedFits(lanes', view'.basis, compared')
  BY <1>1, NoLanesType
<1>7. WorkbenchTypeOK'
  BY <1>1, <1>3, <1>4, <1>5, <1>6, DiffParts DEF WorkbenchTypeOK, Requests, Ledger, LanesType
<1> QED
  BY <1>1, <1>3, <1>5, <1>6, <1>7, DiffParts DEF DiffInv

-----------------------------------------------------------------------------
(* The effects.  A fence leaves no root to publish; what is published later    *)
(* was read after it.                                                          *)
LEMMA FencedView ==
  ASSUME DiffInv, ApplyProjectFence
  PROVE  /\ Sound(view') /\ view' \in ViewType /\ view'.basis = view.basis
<1> DEFINE c == ClearOpenScopes(view)
<1>1. Sound(c) /\ c \in ViewType /\ c.basis = view.basis
  BY DiffParts, ClearOpenScopesSound DEF Sound
<1>2. view' = [c EXCEPT !.gen = view.gen + 1] /\ view.gen + 1 \in Nat
  BY DiffParts DEF ApplyProjectFence, ViewType
<1> HIDE DEF c
<1>3. view' \in ViewType /\ view'.open = c.open /\ view'.shown = c.shown /\ view'.basis = c.basis
  BY <1>1, <1>2 DEF ViewType
<1> QED
  BY <1>1, <1>3 DEF Sound, Matching

LEMMA FenceOnRevisionKeeps ==
  ASSUME DiffInv, FenceOnRevision
  PROVE  DiffInv' /\ view'.basis \in {view.basis, 0}
<1> DEFINE led == [FenceLedger EXCEPT !.fence = page.count]
<1>1. /\ page.count # page.seen /\ page' = [page EXCEPT !.seen = page.count]
      /\ ApplyProjectFence /\ floor' = page.told
      /\ UNCHANGED <<compared, own, diffSteps>>
      /\ \/ /\ ledger.fence # page.count /\ InvalidateRoots(led) /\ lanes' = NoLanes
         \/ ledger.fence = page.count /\ UNCHANGED <<ledger, roots, lanes>>
  BY DEF FenceOnRevision
<1>2. /\ page' \in [count : Nat, seen : Nat, told : Nat, mounts : Nat \ {0}]
      /\ page'.told = page.told /\ page'.count = page.count /\ page'.seen = page.count
      /\ page'.mounts = page.mounts /\ page.count \in Nat /\ page.seen \in Nat
  BY <1>1, DiffParts
<1>3. Sound(view') /\ view' \in ViewType /\ view'.basis = view.basis
  BY <1>1, FencedView
<1>4. /\ Requests(Invalid(roots), led) /\ led.fence = page.count
      /\ SinceFence(Invalid(roots), led, page.told) /\ Known(Invalid(roots), compared)
  BY <1>2, DiffParts, FenceWorks, InvalidKeeps
<1>5. CASE ledger.fence # page.count
  <2>1. InvalidateRoots(led) /\ lanes' = NoLanes
    BY <1>1, <1>5
  <2>2. /\ Requests(roots', ledger') /\ ledger'.fence = page.count /\ Known(roots', compared)
        /\ SinceFence(roots', ledger', page.told)
    BY <2>1, <1>4, DiffParts, InvalidateRootsKeeps
  <2>3. lanes' \in LanesType /\ RefusedFits(lanes', view'.basis, compared')
    BY <2>1, NoLanesType
  <2>4. WorkbenchTypeOK'
    BY <1>1, <1>2, <1>3, <2>2, <2>3, DiffParts DEF WorkbenchTypeOK, Requests, Ledger, LanesType
  <2>5. page'.mounts = 1 => /\ ledger'.fence <= page'.seen /\ page'.seen <= page'.count
                            /\ SinceFence(roots', ledger', floor')
    BY <1>1, <1>2, <2>2
  <2> QED
    BY <1>1, <1>3, <2>2, <2>3, <2>4, <2>5 DEF DiffInv
<1>6. CASE ledger.fence = page.count
  <2>1. UNCHANGED <<ledger, roots, lanes>>
    BY <1>1, <1>6
  <2>2. page.mounts # 1
    BY <1>1, <1>2, <1>6, DiffParts
  <2>3. RefusedFits(lanes', view'.basis, compared')
    BY <1>1, <1>3, <2>1, DiffParts
  <2>4. WorkbenchTypeOK'
    BY <1>1, <1>2, <1>3, <2>1, DiffParts DEF WorkbenchTypeOK, Ledger, LanesType
  <2> QED
    BY <1>1, <1>2, <1>3, <2>1, <2>2, <2>3, <2>4, DiffParts DEF DiffInv
<1> QED
  BY <1>5, <1>6

LEMMA PublishRootKeeps ==
  ASSUME DiffInv, PublishRoot
  PROVE  /\ DiffInv'
         /\ page.mounts = 1 => view'.basis >= floor
<1> DEFINE f == view.filter  r == roots[f]
           a == [ledger.accepted EXCEPT ![f] = r.token]
<1>1. /\ RootIsReady /\ ledger' = [ledger EXCEPT !.accepted = a]
      /\ view' = SetRootResult(view, r.basis)
      /\ lanes' = (IF view'.basis = view.basis THEN lanes ELSE NoLanes)
      /\ UNCHANGED <<compared, own, page, roots, floor, diffSteps>>
  BY DEF PublishRoot
<1>2. f \in Filters /\ r \in Root /\ r.basis \in Nat /\ r.basis <= compared /\ r.token \in Nat
  BY DiffParts DEF Root, Known
<1>3. Sound(view') /\ view'.basis = r.basis /\ view' \in ViewType
  BY <1>1, <1>2, DiffParts, SetRootResultSound DEF Sound
<1>4. r.token # 0 /\ (r.token = ledger.accepted[f] \/ r.token = ledger.issued[f])
  BY <1>1 DEF RootIsReady
<1>5. a \in [Filters -> Nat] /\ a[f] = r.token /\ \A g \in Filters \ {f} : a[g] = ledger.accepted[g]
  BY <1>2, DiffParts DEF Ledger
<1>6. /\ ledger' \in Ledger /\ ledger'.accepted = a /\ ledger'.issued = ledger.issued
      /\ ledger'.seq = ledger.seq /\ ledger'.fence = ledger.fence
  BY <1>1, <1>5, DiffParts DEF Ledger
<1>7. Tokens(roots', ledger')
  BY <1>1, <1>2, <1>5, <1>6, DiffParts DEF Tokens, Requests
<1>8. page.mounts = 1 => SinceFence(roots, ledger, floor)
  BY DiffParts
<1>9. page.mounts = 1 => r.basis >= floor
  BY <1>2, <1>4, <1>8 DEF SinceFence
<1>10. page.mounts = 1 => SinceFence(roots', ledger', floor')
  <2> SUFFICES ASSUME page.mounts = 1, NEW g \in Filters
               PROVE  /\ roots'[g].read # 0 => roots'[g].read >= floor'
                      /\ (/\ roots'[g].token # 0
                          /\ (roots'[g].token = ledger'.accepted[g]
                                \/ roots'[g].token = ledger'.issued[g]))
                           => roots'[g].basis >= floor'
    BY DEF SinceFence
  <2>1. CASE g = f
    BY <2>1, <1>1, <1>8, <1>9 DEF SinceFence
  <2>2. CASE g # f
    BY <2>2, <1>1, <1>5, <1>6, <1>8 DEF SinceFence
  <2> QED
    BY <2>1, <2>2
<1>11. lanes' \in LanesType /\ RefusedFits(lanes', view'.basis, compared')
  <2>1. CASE view'.basis = view.basis
    BY <2>1, <1>1, DiffParts
  <2>2. CASE view'.basis # view.basis
    BY <2>2, <1>1, NoLanesType
  <2> QED
    BY <2>1, <2>2
<1>12. WorkbenchTypeOK'
  BY <1>1, <1>2, <1>3, <1>6, <1>11, DiffParts DEF WorkbenchTypeOK, Ledger, LanesType
<1>13. Requests(roots', ledger') /\ Known(roots', compared')
  BY <1>1, <1>6, <1>7, DiffParts DEF Requests
<1>14. DiffInv'
  BY <1>1, <1>3, <1>6, <1>10, <1>11, <1>12, <1>13, DiffParts DEF DiffInv
<1> QED
  BY <1>3, <1>9, <1>14

LEMMA FenceOnErrorKeeps ==
  ASSUME DiffInv, NEW l \in Lanes, FenceOnError(l)
  PROVE  DiffInv' /\ view'.basis \in {view.basis, 0}
<1>1. /\ LaneOn(view, l) /\ LaneNow(l).error = "changed" /\ ApplyProjectFence
      /\ floor' = Max({floor, view.basis + 1}) /\ InvalidateRoots(FenceLedger) /\ lanes' = NoLanes
      /\ UNCHANGED <<compared, own, page, diffSteps>>
  BY DEF FenceOnError
<1>2. view.basis < compared
  BY <1>1, OpenLayer
<1>3. floor' \in Nat /\ floor' <= compared
  BY <1>1, <1>2, DiffParts, MaxOfTwo
<1>4. Sound(view') /\ view' \in ViewType /\ view'.basis = view.basis
  BY <1>1, FencedView
<1>5. /\ Requests(Invalid(roots), FenceLedger) /\ FenceLedger.fence = ledger.fence
      /\ SinceFence(Invalid(roots), FenceLedger, floor') /\ Known(Invalid(roots), compared)
  BY <1>3, DiffParts, FenceLedgerWorks, InvalidKeeps
<1>6. /\ Requests(roots', ledger') /\ ledger'.fence = ledger.fence /\ Known(roots', compared)
      /\ SinceFence(roots', ledger', floor')
  BY <1>1, <1>3, <1>5, DiffParts, InvalidateRootsKeeps
<1>7. lanes' \in LanesType /\ RefusedFits(lanes', view'.basis, compared')
  BY <1>1, NoLanesType
<1>8. WorkbenchTypeOK'
  BY <1>1, <1>3, <1>4, <1>6, <1>7, DiffParts DEF WorkbenchTypeOK, Requests, Ledger, LanesType
<1> QED
  BY <1>1, <1>4, <1>6, <1>7, <1>8, DiffParts DEF DiffInv

\* Every step keeps the invariant, and publishes a root only from after the fence.
LEMMA DiffStep ==
  ASSUME WorkbenchConstants, DiffInv, [WorkbenchNext]_diffVars
  PROVE  /\ DiffInv'
         /\ page.mounts = 1 /\ view'.basis \notin {view.basis, 0} => view'.basis >= floor
<1>1. CASE UNCHANGED diffVars
  BY <1>1 DEF diffVars, DiffInv, WorkbenchTypeOK, Sound, Matching
<1>2. CASE PublishRoot
  BY <1>2, PublishRootKeeps
<1>3. CASE FenceOnRevision \/ Remount
  BY <1>3, FenceOnRevisionKeeps, RemountKeeps
<1>4. CASE \E l \in Lanes : FenceOnError(l) \/ PublishLane(l)
  BY <1>4, FenceOnErrorKeeps, PublishLaneKeeps
<1>5. CASE \/ \E on \in BOOLEAN : SetOpen(on)
           \/ \E f \in Filters : ChangeFilters(f)
           \/ \E layer \in Layers : ToggleLayer(layer)
           \/ ToggleRow
  BY <1>5, SetOpenKeeps, ChangeFiltersKeeps, ToggleLayerKeeps, ToggleRowKeeps
<1>6. CASE \E l \in Lanes : \/ FirstPage(l) \/ LoadMore(l) \/ RetryLane(l)
                            \/ \E k \in Layers : LaneArrives(l, k) \/ LaneFails(l, k)
  <2>1. view' = view
    BY <1>6 DEF FirstPage, LoadMore, RetryLane, LaneArrives, LaneFails
  <2>2. DiffInv'
    BY <1>6, FirstPageKeeps, LoadMoreKeeps, RetryLaneKeeps, LaneArrivesKeeps, LaneFailsKeeps
  <2> QED
    BY <2>1, <2>2
<1>7. CASE \/ \E f \in Filters : ReadRoot(f) \/ RootArrives(f) \/ RootFails(f) \/ CollectRoot(f)
           \/ RetryRoot
  <2>1. view' = view
    BY <1>7 DEF ReadRoot, RootArrives, RootFails, CollectRoot, RetryRoot
  <2>2. DiffInv'
    BY <1>7, ReadRootKeeps, RootArrivesKeeps, RootFailsKeeps, CollectRootKeeps, RetryRootKeeps
  <2> QED
    BY <2>1, <2>2
<1>8. CASE Persisted \/ OtherCommits \/ OwnCommits
  <2>1. view' = view
    BY <1>8 DEF Persisted, OtherCommits, OwnCommits
  <2>2. DiffInv'
    BY <1>8, PersistedKeeps, CommitsKeep
  <2> QED
    BY <2>1, <2>2
<1> QED
  BY <1>1, <1>2, <1>3, <1>4, <1>5, <1>6, <1>7, <1>8 DEF WorkbenchNext, Effects, Answers, User

\* What is shown, the tokens and the fence agree, in every order of effects, answers and clicks.
THEOREM DiffInvariance == ASSUME WorkbenchConstants PROVE WorkbenchSpec => []DiffInv
<1>1. WorkbenchInit => DiffInv
  BY DiffStarts
<1>2. DiffInv /\ [WorkbenchNext]_diffVars => DiffInv'
  BY DiffStep
<1> QED
  BY <1>1, <1>2, PTL DEF WorkbenchSpec

\* The pages on screen are those of the open list and of the root on screen, for any
\* filters, layers and pages, and requests answered in any order (PagesMatchTheRoot; the
\* publishing effects of useBackboneDiffWorkbenchController.ts).
THEOREM PagesAreOfTheRoot == ASSUME WorkbenchConstants PROVE WorkbenchSpec => []PagesMatchTheRoot
<1>1. DiffInv => PagesMatchTheRoot
  BY DEF DiffInv, Sound, Matching, PagesMatchTheRoot
<1> QED
  BY <1>1, DiffInvariance, PTL

\* On the page opened first, no root read before a change that the tab has seen is published
\* after it (FirstPageKeepsTheFence; publishRoot and the project fence).
THEOREM FencedRootsStayOut == ASSUME WorkbenchConstants PROVE WorkbenchSpec => FirstPageKeepsTheFence
<1>1. DiffInv /\ [WorkbenchNext]_diffVars
        => [page.mounts = 1 /\ view'.basis \notin {view.basis, 0} => view'.basis >= floor]_diffVars
  BY DiffStep
<1> QED
  BY <1>1, DiffInvariance, PTL DEF WorkbenchSpec, FirstPageKeepsTheFence

\* So the fence holds throughout on a sheet page that is never opened again: what breaks
\* NoRootFromBeforeTheFence is the count of own changes that starts again with a new page.
THEOREM OneMountFences ==
  ASSUME WorkbenchConstants, MaxMounts = 1 PROVE WorkbenchSpec => NoRootFromBeforeTheFence
<1>1. WorkbenchInit => page.mounts = 1
  BY DEF WorkbenchInit
<1>2. DiffInv /\ page.mounts = 1 /\ [WorkbenchNext]_diffVars => (page.mounts = 1)'
  <2> SUFFICES ASSUME DiffInv, page.mounts = 1, [WorkbenchNext]_diffVars
               PROVE  page'.mounts = 1
    OBVIOUS
  <2>1. \/ UNCHANGED page
        \/ page' = [page EXCEPT !.seen = page.count]
        \/ page' = [[page EXCEPT !.count = page.count + 1] EXCEPT !.told = own]
    <3>1. CASE FenceOnRevision \/ Persisted
      BY <3>1 DEF FenceOnRevision, Persisted
    <3>2. ~Remount
      BY DEF Remount
    <3>3. CASE \/ UNCHANGED diffVars \/ PublishRoot \/ OtherCommits \/ OwnCommits
               \/ \E l \in Lanes : FenceOnError(l) \/ PublishLane(l) \/ FirstPage(l)
      BY <3>3 DEF diffVars, PublishRoot, OtherCommits, OwnCommits, FenceOnError, PublishLane,
                  FirstPage
    <3>4. CASE \/ \E f \in Filters : ReadRoot(f) \/ RootArrives(f)
               \/ \E l \in Lanes, k \in Layers : LaneArrives(l, k)
      BY <3>4 DEF ReadRoot, RootArrives, LaneArrives
    <3>5. CASE User
      BY <3>5 DEF User, SetOpen, ChangeFilters, CollectRoot, RootFails, ToggleLayer, ToggleRow,
                  RetryRoot, LoadMore, RetryLane, LaneFails
    <3> QED
      BY <3>1, <3>2, <3>3, <3>4, <3>5 DEF WorkbenchNext, Effects, Answers
  <2> QED
    BY <2>1, DiffParts
<1>3. DiffInv /\ page.mounts = 1 /\ [WorkbenchNext]_diffVars
        => [view'.basis \notin {view.basis, 0} => view'.basis >= floor]_diffVars
  BY DiffStep
<1> QED
  BY <1>1, <1>2, <1>3, DiffInvariance, PTL DEF WorkbenchSpec, NoRootFromBeforeTheFence

-----------------------------------------------------------------------------
(* The start of a project.                                                     *)
\* The overrides are those of the selection; and a submission that is under way was
\* made of both, is still what the page shows, and is the one project of the server.
OverInv == \/ over.by = Selection(routeState)
           \/ over.by = <<Unset, Unset>> /\ over.map = NoOverride.map
ProjectsInv ==
  ~create.lost => projects = IF create.stage = "created" THEN {Key(create.sent)} ELSE {}
CreateInv == /\ create.done => create.stage = "created"
             /\ UnderWay => OverridesAreOfTheSelection /\ ShownAsSent
             /\ ProjectsInv
WizardInv == WizardTypeOK /\ OverInv /\ CreateInv

\* What the routes keep: overrides of another selection are dropped.
LEMMA NoOverrideIs ==
  /\ NoOverride \in Override /\ NoOverride.by = <<Unset, Unset>>
  BY DEF NoOverride, Override

LEMMA RouteEffectKeeps ==
  ASSUME WizardTypeOK, OverInv, NEW r \in Route
  PROVE  LET o == RouteEffect(r, over)
         IN  /\ o \in Override /\ o \in {over, NoOverride}
             /\ \/ o.by = Selection(r)
                \/ o.by = <<Unset, Unset>> /\ o.map = NoOverride.map
  BY NoOverrideIs DEF RouteEffect, OverInv, WizardTypeOK

\* A submission that failed is cleared, and nothing else of it.
LEMMA ResetIs ==
  ASSUME WizardTypeOK
  PROVE  LET c == Reset(create)
         IN  /\ c \in Submission
             /\ c.sent = create.sent /\ c.lost = create.lost /\ c.done = create.done
             /\ \/ c = create
                \/ create.stage = "failed" /\ c.stage = "none"
<1>1. create \in Submission
  BY DEF WizardTypeOK
<1>2. CASE create.stage = "failed"
  <2>1. Reset(create) = [create EXCEPT !.stage = "none"]
    BY <1>2 DEF Reset
  <2> QED
    BY <1>1, <1>2, <2>1 DEF Submission
<1>3. CASE create.stage # "failed"
  BY <1>1, <1>3 DEF Reset
<1> QED
  BY <1>2, <1>3

\* What a step keeps that leaves the submission, or only clears one that failed, when
\* it changes the form and the overrides only while nothing is under way, or drops them.
LEMMA SubmissionKept ==
  ASSUME WizardTypeOK, CreateInv, create' = create \/ create' = Reset(create),
         projects' = projects,
         \/ ~Locked
         \/ form' = form /\ over' \in {over, NoOverride}
  PROVE  create' \in Submission /\ CreateInv'
<1>1. /\ create' \in Submission
      /\ create'.sent = create.sent /\ create'.lost = create.lost /\ create'.done = create.done
      /\ \/ create'.stage = create.stage
         \/ create.stage = "failed" /\ create'.stage = "none"
  BY ResetIs DEF WizardTypeOK
<1>2. (create.done => create.stage = "created")'
  BY <1>1 DEF CreateInv
<1>3. ProjectsInv'
  BY <1>1 DEF CreateInv, ProjectsInv, Key
<1>4. (UnderWay => OverridesAreOfTheSelection /\ ShownAsSent)'
  <2> SUFFICES ASSUME UnderWay' PROVE OverridesAreOfTheSelection' /\ ShownAsSent'
    OBVIOUS
  <2>1. UnderWay /\ Locked
    BY <1>1 DEF UnderWay, Locked
  <2>2. OverridesAreOfTheSelection /\ ShownAsSent
    BY <2>1 DEF CreateInv
  <2>3. form' = form /\ over' \in {over, NoOverride}
    BY <2>1
  <2>4. create'.sent = create.sent
    BY <1>1
  <2>5. OverridesAreOfTheSelection'
    BY <2>2, <2>4 DEF OverridesAreOfTheSelection, NoOverride
  <2>6. ShownAsSent'
    BY <2>2, <2>3, <2>4 DEF ShownAsSent, NoOverride
  <2> QED
    BY <2>5, <2>6
<1> QED
  BY <1>1, <1>2, <1>3, <1>4 DEF CreateInv

\* A step to a route that keeps the overrides of the same selection only.
LEMMA RouteKept ==
  ASSUME WizardTypeOK, OverInv, NEW r \in Route, routeState' = r,
         over' = RouteEffect(r, over) \/ over' = NoOverride
  PROVE  /\ routeState' \in Route /\ over' \in Override /\ OverInv'
         /\ over' \in {over, NoOverride}
  BY RouteEffectKeeps, NoOverrideIs DEF OverInv, NoOverride, Selection

\* The steps.
LEMMA WizardStarts == ASSUME WizardConstants PROVE WizardInit => WizardInv
<1> SUFFICES ASSUME WizardInit PROVE WizardInv
  OBVIOUS
<1>1. NoDraft \in Drafts
  BY NoOverrideIs DEF NoDraft, Drafts
<1>2. /\ NoSubmission \in Submission /\ NoSubmission.stage = "none"
      /\ NoSubmission.done = FALSE
  BY <1>1 DEF NoSubmission, Submission
<1>3. WizardTypeOK
  <2>1. visited \subseteq Route
    BY DEF WizardInit
  <2>2. form \in [part : Parts \cup {Unset}, choice : BOOLEAN]
    BY DEF WizardInit, NoForm
  <2> QED
    BY <1>2, <2>1, <2>2, NoOverrideIs DEF WizardInit, WizardTypeOK
<1>4. OverInv
  BY NoOverrideIs DEF WizardInit, OverInv
<1>5. CreateInv
  BY <1>2 DEF WizardInit, CreateInv, ProjectsInv, UnderWay
<1> QED
  BY <1>3, <1>4, <1>5 DEF WizardInv

\* The steps of the route.
LEMMA RouteSteps ==
  ASSUME WizardInv,
         \/ \E p \in Processes : SelectProcess(p)
         \/ \E b \in Backbones \cup {Unset} : SelectBackbone(b)
         \/ \E s \in 1..3 : GoToStep(s)
         \/ GoBack
         \/ Reconcile
  PROVE  WizardInv'
<1>0. /\ WizardTypeOK /\ OverInv /\ CreateInv /\ routeState \in Route /\ visited \subseteq Route
      /\ form \in [part : Parts \cup {Unset}, choice : BOOLEAN]
  BY DEF WizardInv, WizardTypeOK
<1>1. \E r \in Route : /\ routeState' = r
                       /\ over' = RouteEffect(r, over) \/ over' = NoOverride
                       /\ visited' \subseteq Route
                       /\ create' = create \/ create' = Reset(create)
                       /\ projects' = projects /\ form' = form
  <2>1. CASE \E p \in Processes : SelectProcess(p)
    BY <1>0, <2>1 DEF SelectProcess, SetRouteState, Route
  <2>2. CASE \E b \in Backbones \cup {Unset} : SelectBackbone(b)
    BY <1>0, <2>2 DEF SelectBackbone, SetRouteState, Route
  <2>3. CASE \E s \in 1..3 : GoToStep(s)
    <3> PICK s \in 1..3 : GoToStep(s)
      BY <2>3
    <3> DEFINE r == [routeState EXCEPT !.step = s]
    <3>1. r \in Route /\ Selection(r) = Selection(routeState)
      BY <1>0 DEF Route, Selection
    <3>2. /\ routeState' = r /\ over' = over /\ visited' = visited \cup {r}
          /\ create' = create /\ projects' = projects /\ form' = form
      BY DEF GoToStep, SetRouteState
    <3>3. RouteEffect(r, over) = over
      BY <3>1 DEF RouteEffect
    <3> QED
      BY <1>0, <3>1, <3>2, <3>3
  <2>4. CASE GoBack
    BY <1>0, <2>4 DEF GoBack, SetRouteState
  <2>5. CASE Reconcile
    <3>1. RouteReconciliation(routeState) \in Route
      BY <1>0 DEF RouteReconciliation, StartRoute, Route
    <3> QED
      BY <1>0, <2>5, <3>1 DEF Reconcile
  <2> QED
    BY <2>1, <2>2, <2>3, <2>4, <2>5
<1>2. /\ routeState' \in Route /\ over' \in Override /\ OverInv' /\ visited' \subseteq Route
      /\ over' \in {over, NoOverride}
  BY <1>0, <1>1, RouteKept
<1>3. create' \in Submission /\ CreateInv'
  BY <1>0, <1>1, <1>2, SubmissionKept
<1> QED
  BY <1>0, <1>1, <1>2, <1>3 DEF WizardInv, WizardTypeOK

\* A match is overridden for the selection that the overrides before it were for.
LEMMA OverrideStep ==
  ASSUME WizardConstants, WizardInv, NEW l \in ProcessLayers, NEW s \in Sources \cup {Unset},
         UpdateOverride(l, s)
  PROVE  WizardInv'
<1>0. /\ WizardTypeOK /\ OverInv /\ CreateInv /\ routeState \in Route /\ over \in Override
      /\ form \in [part : Parts \cup {Unset}, choice : BOOLEAN]
  BY DEF WizardInv, WizardTypeOK
<1>1. /\ create' = Reset(create) /\ routeState' = routeState /\ visited' = visited
      /\ form' = form /\ projects' = projects /\ ~Locked
  BY DEF UpdateOverride, MatchesOffered
<1>2. over' = [map |-> [over.map EXCEPT ![l] = s],
               by |-> IF over.by = <<Unset, Unset>> THEN Selection(routeState) ELSE over.by]
  BY DEF UpdateOverride
<1>3. Selection(routeState) \in (Processes \cup {Unset}) \X (Backbones \cup {Unset})
  BY <1>0 DEF Selection, Route
<1>4. over'.by = Selection(routeState)
  <2>1. CASE over.by = <<Unset, Unset>>
    BY <1>2, <2>1
  <2>2. CASE over.by # <<Unset, Unset>>
    BY <1>0, <1>2, <2>2 DEF OverInv
  <2> QED
    BY <2>1, <2>2
<1>5. over' \in Override
  <2>1. over.map \in [ProcessLayers -> Sources \cup {Unset}]
    BY <1>0 DEF Override
  <2>2. [over.map EXCEPT ![l] = s] \in [ProcessLayers -> Sources \cup {Unset}]
    BY <2>1
  <2>3. over' = [map |-> [over.map EXCEPT ![l] = s], by |-> over'.by]
    BY <1>2
  <2> QED
    BY <1>3, <1>4, <2>2, <2>3 DEF Override
<1>6. create' \in Submission /\ CreateInv'
  BY <1>0, <1>1, SubmissionKept
<1> QED
  BY <1>0, <1>1, <1>4, <1>5, <1>6 DEF WizardInv, WizardTypeOK, OverInv, Selection

\* The form changes while nothing is under way.
LEMMA FormStep ==
  ASSUME WizardInv, UpdateForm
  PROVE  WizardInv'
<1>0. WizardTypeOK /\ OverInv /\ CreateInv
  BY DEF WizardInv
<1>1. /\ create' = Reset(create) /\ projects' = projects /\ ~Locked
      /\ UNCHANGED <<routeState, visited, over>>
  BY DEF UpdateForm, FormOffered
<1>2. form' \in [part : Parts \cup {Unset}, choice : BOOLEAN]
  BY DEF UpdateForm
<1>3. create' \in Submission /\ CreateInv'
  BY <1>0, <1>1, SubmissionKept
<1> QED
  BY <1>0, <1>1, <1>2, <1>3 DEF WizardInv, WizardTypeOK, OverInv, Selection

\* What is sent is the selection on display with its overrides, and the form.
LEMMA SubmitStep ==
  ASSUME WizardInv, SubmitProject
  PROVE  WizardInv'
<1>0. /\ WizardTypeOK /\ OverInv /\ CreateInv /\ routeState \in Route /\ over \in Override
      /\ form \in [part : Parts \cup {Unset}, choice : BOOLEAN] /\ create \in Submission
  BY DEF WizardInv, WizardTypeOK
<1>1. ~Locked /\ UNCHANGED <<routeState, visited, over, form, projects>>
  BY DEF SubmitProject, MayCreate
<1>2. create.stage # "created" /\ create.done = FALSE
  BY <1>0, <1>1 DEF CreateInv, Locked, Submission
<1>3. create' = [create EXCEPT !.stage = "sent", !.sent = Draft]
  BY DEF SubmitProject
<1>4. Draft \in Drafts
  BY <1>0 DEF Draft, Drafts, Route
<1>5. /\ create' \in Submission /\ create'.stage = "sent" /\ create'.sent = Draft
      /\ create'.lost = create.lost /\ create'.done = FALSE
  BY <1>0, <1>2, <1>3, <1>4 DEF Submission
<1>6. OverridesAreOfTheSelection' /\ ShownAsSent'
  <2>1. /\ create'.sent.process = routeState.process /\ create'.sent.backbone = routeState.backbone
        /\ create'.sent.over = over /\ create'.sent.part = form.part
    BY <1>5 DEF Draft
  <2>2. over.map = NoOverride.map \/ over.by = <<routeState.process, routeState.backbone>>
    BY <1>0 DEF OverInv, Selection
  <2>3. OverridesAreOfTheSelection'
    BY <2>1, <2>2 DEF OverridesAreOfTheSelection, NoOverride
  <2>4. ShownAsSent'
    BY <1>1, <2>1 DEF ShownAsSent
  <2> QED
    BY <2>3, <2>4
<1>7. ProjectsInv'
  BY <1>0, <1>1, <1>2, <1>5 DEF CreateInv, ProjectsInv
<1>8. CreateInv'
  BY <1>5, <1>6, <1>7 DEF CreateInv
<1> QED
  BY <1>0, <1>1, <1>5, <1>8 DEF WizardInv, WizardTypeOK, OverInv, Selection

\* The answers to the submission: one that arrives tells what the server did.
LEMMA AnswerSteps ==
  ASSUME WizardInv, CreateAnswered \/ CreateLost \/ Created
  PROVE  WizardInv'
<1>0. WizardTypeOK /\ OverInv /\ CreateInv /\ create \in Submission
  BY DEF WizardInv, WizardTypeOK
<1>1. UNCHANGED <<routeState, visited, over, form>>
  BY DEF CreateAnswered, CreateLost, Created
<1>2. /\ create' \in Submission /\ create'.sent = create.sent
      /\ create'.done => create'.stage = "created"
      /\ ProjectsInv'
      /\ UnderWay' => UnderWay
  <2>1. CASE CreateAnswered
    <3>1. /\ create.stage = "sent" /\ ~create.done
          /\ create.lost \/ projects = {}
      BY <1>0, <2>1 DEF CreateAnswered, CreateInv, ProjectsInv
    <3>2. CASE Served /\ create' = [create EXCEPT !.stage = "created"]
      <4>1. /\ create' \in Submission /\ create'.sent = create.sent
            /\ create'.stage = "created" /\ create'.lost = create.lost
        BY <1>0, <3>2 DEF Submission
      <4>2. projects' = projects \cup {Key(create.sent)}
        BY <3>2 DEF Served
      <4>3. Key(create'.sent) = Key(create.sent)
        BY <4>1
      <4>4. ProjectsInv'
        BY <3>1, <4>1, <4>2, <4>3 DEF ProjectsInv, Key
      <4> QED
        BY <3>1, <4>1, <4>4 DEF UnderWay
    <3>3. CASE create' = [create EXCEPT !.stage = "failed"] /\ UNCHANGED projects
      <4>1. /\ create' \in Submission /\ create'.sent = create.sent /\ create'.done = create.done
            /\ create'.stage = "failed" /\ create'.lost = create.lost
        BY <1>0, <3>3 DEF Submission
      <4> QED
        BY <3>1, <3>3, <4>1 DEF UnderWay, ProjectsInv
    <3> QED
      BY <2>1, <3>2, <3>3 DEF CreateAnswered
  <2>2. CASE CreateLost
    <3>1. create.stage = "sent" /\ ~create.done
          /\ create' = [create EXCEPT !.stage = "failed", !.lost = TRUE]
      BY <1>0, <2>2 DEF CreateLost, CreateInv
    <3>2. /\ create' \in Submission /\ create'.sent = create.sent /\ create'.done = create.done
          /\ create'.stage = "failed" /\ create'.lost = TRUE
      BY <1>0, <3>1 DEF Submission
    <3> QED
      BY <3>1, <3>2 DEF UnderWay, ProjectsInv
  <2>3. CASE Created
    <3>1. /\ create' \in Submission /\ create'.sent = create.sent /\ create'.lost = create.lost
          /\ create'.stage = "created" /\ create.stage = "created" /\ projects' = projects
      BY <1>0, <2>3 DEF Created, Submission
    <3>2. ProjectsInv'
      BY <1>0, <3>1 DEF CreateInv, ProjectsInv, Key
    <3> QED
      BY <3>1, <3>2 DEF UnderWay
  <2> QED
    BY <2>1, <2>2, <2>3
<1>3. (UnderWay => OverridesAreOfTheSelection /\ ShownAsSent)'
  <2> SUFFICES ASSUME UnderWay' PROVE OverridesAreOfTheSelection' /\ ShownAsSent'
    OBVIOUS
  <2>1. OverridesAreOfTheSelection /\ ShownAsSent
    BY <1>0, <1>2 DEF CreateInv
  <2>2. OverridesAreOfTheSelection'
    BY <1>2, <2>1 DEF OverridesAreOfTheSelection, NoOverride
  <2>3. ShownAsSent'
    BY <1>1, <1>2, <2>1 DEF ShownAsSent, NoOverride
  <2> QED
    BY <2>2, <2>3
<1>4. CreateInv'
  BY <1>2, <1>3 DEF CreateInv
<1> QED
  BY <1>0, <1>1, <1>2, <1>4 DEF WizardInv, WizardTypeOK, OverInv, Selection

\* The steps that leave the selection, the overrides and the form alone.
LEMMA OtherWizardSteps ==
  ASSUME WizardInv,
         \/ RequiredChoicesChange
         \/ ReadAnswered \/ ReadFails \/ RetryRead \/ Delete
         \/ PreviewAnswered \/ PreviewFails \/ RetryPreview
         \/ UNCHANGED wizardVars
  PROVE  WizardInv'
<1>0. WizardTypeOK /\ OverInv /\ CreateInv
  BY DEF WizardInv
<1>1. UNCHANGED <<routeState, visited, over, form, create, projects>>
  BY DEF RequiredChoicesChange, ReadAnswered, ReadFails, RetryRead, Delete, PreviewAnswered,
         PreviewFails, RetryPreview, wizardVars
<1>2. create' \in Submission /\ CreateInv'
  BY <1>0, <1>1, SubmissionKept
<1> QED
  BY <1>0, <1>1, <1>2 DEF WizardInv, WizardTypeOK, OverInv, Selection

\* The selection, its overrides, the submission and what the server has created agree,
\* whatever the user does and wherever the browser goes.
THEOREM WizardInvariance == ASSUME WizardConstants PROVE WizardSpec => []WizardInv
<1>1. WizardInit => WizardInv
  BY WizardStarts
<1>2. WizardInv /\ [WizardNext]_wizardVars => WizardInv'
  <2> SUFFICES ASSUME WizardInv, [WizardNext]_wizardVars PROVE WizardInv'
    OBVIOUS
  <2> QED
    BY RouteSteps, OverrideStep, FormStep, SubmitStep, AnswerSteps, OtherWizardSteps
    DEF WizardNext
<1> QED
  BY <1>1, <1>2, PTL DEF WizardSpec

\* A submission holds together: the overrides sent were chosen for the selection sent, the
\* page goes on showing what it sent, and unless an answer was lost the server has the one
\* project the wizard reports and no other (SubmissionIsWhatWasSeen).
THEOREM SentIsWhatWasSeen ==
  ASSUME WizardConstants PROVE WizardSpec => []SubmissionIsWhatWasSeen
<1>1. WizardInv => SubmissionIsWhatWasSeen
  BY DEF WizardInv, CreateInv, ProjectsInv, SubmissionIsWhatWasSeen
<1> QED
  BY <1>1, WizardInvariance, PTL
=============================================================================
