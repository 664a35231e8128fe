-------------------------------- MODULE Release --------------------------------
(* The production build and the server of its files: scripts that build from a *)
(* clean commit, write a manifest of what was built and from what, and serve   *)
(* what the manifest lists.  Developers change the repository meanwhile.       *)
(*                                                                             *)
(* A commit is its content.  The commands that are run (npm ci, npm run build) *)
(* are external: the first installs what the lock file says, the second writes *)
(* one file after the other from the sources and tools as they then are.       *)
EXTENDS Naturals

CONSTANTS File,       \* the files of the production build
          Undo,       \* whether changes may be taken back
          None, Torn, \* nothing; a manifest cut off while it was written
          MaxChanges  \* bound: changes of others, and builds

ReleaseConstants == MaxChanges \in Nat /\ Undo \in BOOLEAN

VARIABLES head,      \* the commit that is checked out
          tree,      \* the content of the worktree
          installed, \* the version of the toolchain (Node, TypeScript, Vite)
          dist,      \* what each file of the build was made from
          manifest,  \* the manifest on the disk
          build,     \* the build that runs
          server,    \* the server, and the manifest it has loaded
          sent,      \* the last file that was sent, and the manifest it was sent under
          changes

releaseVars == <<head, tree, installed, dist, manifest, build, server, sent, changes>>
repository == <<head, tree, installed>>

Part == {"code", "lock", "scripts"}
NoTool == MaxChanges + 1  \* a toolchain that no lock file names

ReleaseInit == /\ head = [p \in Part |-> 0] /\ tree = head /\ installed = 0
               /\ dist = [f \in File |-> None] /\ manifest = None
               /\ build = [stage |-> "idle", round |-> 1, commit |-> None, identity |-> None, tool |-> None]
               /\ server = [stage |-> "off", manifest |-> None] /\ sent = None /\ changes = 0

Change == changes < MaxChanges /\ changes' = changes + 1
At(stage) == build.stage = stage
Goes(stage) == build' = [build EXCEPT !.stage = stage]

-----------------------------------------------------------------------------
(* Others.                                                                     *)

Edit == /\ Change
        /\ \E p \in Part, v \in 0 .. MaxChanges :
              /\ v = tree[p] + 1 \/ (Undo /\ v = head[p])
              /\ tree' = [tree EXCEPT ![p] = v]
        /\ UNCHANGED <<head, installed, dist, manifest, build, server, sent>>
Committed == /\ tree # head /\ head' = tree
             /\ UNCHANGED <<tree, installed, dist, manifest, build, server, sent, changes>>
(* Packages are changed by hand; without Undo they get back by npm ci only.    *)
Tinker == /\ Change
          /\ installed' \in {NoTool} \cup (IF Undo THEN {tree["lock"]} ELSE {})
          /\ UNCHANGED <<head, tree, dist, manifest, build, server, sent>>

-----------------------------------------------------------------------------
(* The build.  The identity of the sources is captured three times, each time  *)
(* between two readings of the commit.                                         *)

Clean == tree = head
Identity == [commit |-> build.commit, lock |-> tree["lock"], scripts |-> tree["scripts"]]

Start == /\ At("idle") /\ Clean /\ Change
         /\ build' = [build EXCEPT !.stage = "identify", !.round = 1]
         /\ UNCHANGED <<repository, dist, manifest, server, sent>>

ReadHead == /\ At("identify")
            /\ build' = [build EXCEPT !.stage = "capture", !.commit = head]
            /\ UNCHANGED <<repository, dist, manifest, server, sent, changes>>
(* The scripts are those of the commit, and the commit is still the one that   *)
(* was read.  The first capture is kept, the later ones must equal it.         *)
Capture == /\ At("capture")
           /\ tree["scripts"] = head["scripts"] /\ head = build.commit
           /\ build.round > 1 => Identity = build.identity
           /\ build' = [build EXCEPT !.identity = Identity, !.round = @ + 1,
                  !.stage = IF build.round = 1 THEN "install"
                            ELSE IF build.round = 2 THEN "snapshot" ELSE "idle"]
           /\ UNCHANGED <<repository, dist, manifest, server, sent, changes>>

(* The lock file and the running script are those of the identity.  Then       *)
(* packages are installed, and the old files are removed.                      *)
Install == /\ At("install")
           /\ tree["lock"] = build.identity.lock /\ tree["scripts"] = build.identity.scripts
           /\ installed' = tree["lock"] /\ Goes("remove")
           /\ UNCHANGED <<head, tree, dist, manifest, server, sent, changes>>
Remove == /\ At("remove") /\ dist' = [f \in File |-> None] /\ Goes("tools")
          /\ UNCHANGED <<repository, manifest, server, sent, changes>>
(* The toolchain is the one the lock file names, before the build and after.   *)
CaptureTools == /\ At("tools") /\ installed = build.identity.lock
                /\ build' = [build EXCEPT !.stage = "compile", !.tool = installed]
                /\ UNCHANGED <<repository, dist, manifest, server, sent, changes>>
Compile == /\ At("compile")
           /\ \E f \in File : /\ dist[f] = None
                              /\ dist' = [dist EXCEPT ![f] =
                                     [code |-> tree["code"], lock |-> tree["lock"], tool |-> installed]]
           /\ Goes(IF \E f \in File : dist'[f] = None THEN "compile" ELSE "check tools")
           /\ UNCHANGED <<repository, manifest, server, sent, changes>>
CheckTools == /\ At("check tools") /\ installed = build.tool /\ Goes("check sources")
              /\ UNCHANGED <<repository, dist, manifest, server, sent, changes>>
CheckSourcesNot == /\ At("check sources") /\ Goes("identify")  \* changes CheckSources
                   /\ UNCHANGED <<repository, dist, manifest, server, sent, changes>>
CheckSources == /\ At("check sources") /\ Clean /\ Goes("identify")
                /\ UNCHANGED <<repository, dist, manifest, server, sent, changes>>
(* Nobody else writes files of the build, so what is listed is what was read.  *)
Snapshot == /\ At("snapshot") /\ \A f \in File : dist[f] # None
            /\ manifest' = Torn /\ Goes("write")
            /\ UNCHANGED <<repository, dist, server, sent, changes>>
Write == /\ At("write")
         /\ manifest' = [identity |-> build.identity, tool |-> build.tool, dist |-> dist]
         /\ Goes("identify")
         /\ UNCHANGED <<repository, dist, server, sent, changes>>
(* A check fails, or the build is killed: what is on the disk stays there.     *)
Fail == /\ ~At("idle") /\ Goes("idle")
        /\ UNCHANGED <<repository, dist, manifest, server, sent, changes>>

-----------------------------------------------------------------------------
(* The server.                                                                 *)

Serving(stage, m) == /\ server' = [stage |-> stage, manifest |-> m]
                     /\ UNCHANGED <<repository, dist, manifest, build, sent, changes>>

LoadManifest == /\ server.stage = "off" /\ manifest \notin {None, Torn}
                /\ manifest.identity.commit = head
                /\ Serving("sources", manifest)
CheckIdentity == LET identity == server.manifest.identity IN
                 /\ server.stage = "sources"
                 /\ tree["lock"] = identity.lock /\ installed = server.manifest.tool
                 /\ tree["scripts"] = head["scripts"] /\ tree["scripts"] = identity.scripts
                 /\ Serving("files", server.manifest)
CheckFiles == /\ server.stage = "files" /\ dist = server.manifest.dist
              /\ Serving("on", server.manifest)
Stop == server.stage # "off" /\ Serving("off", None)

(* A file is sent if what was read of it is what the manifest lists.           *)
Listed(f) == dist[f] = server.manifest.dist[f]
Serve == /\ server.stage = "on"
         /\ \E f \in File : /\ Listed(f)
                            /\ sent' = [content |-> dist[f], under |-> server.manifest]
         /\ UNCHANGED <<repository, dist, manifest, build, server, changes>>

ReleaseNext ==
    \/ Edit \/ Committed \/ Tinker
    \/ Start \/ ReadHead \/ Capture \/ Install \/ Remove \/ CaptureTools \/ Compile
    \/ CheckTools \/ CheckSources \/ Snapshot \/ Write \/ Fail
    \/ LoadManifest \/ CheckIdentity \/ CheckFiles \/ Stop \/ Serve
ReleaseSpec == ReleaseInit /\ [][ReleaseNext]_releaseVars

-----------------------------------------------------------------------------
(* A file is sent under the label of the commit and of the tools it was built  *)
(* from (serve_phase26_dist.mjs, serveStatic), unless changes are taken back   *)
(* between two checks: with Undo, TLC refutes it.                              *)
LabelsAreTrue ==
    sent # None =>
        /\ sent.content.code = sent.under.identity.commit["code"]
        /\ sent.content.lock = sent.under.identity.commit["lock"]
        /\ sent.content.tool = sent.under.tool
===============================================================================
