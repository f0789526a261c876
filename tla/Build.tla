--------------------------------- MODULE Build ---------------------------------
(***************************************************************************)
(* The source and build steps of the Docker backend (backend.rs:           *)
(* prepare_source, build, build_from_snapshot; confine.rs, snapshot.rs,    *)
(* buildx_run.rs).                                                         *)
(*                                                                         *)
(* The person may go on editing the project's folder, other users may      *)
(* change images and tags, the process may die, and Buildx, a process of   *)
(* its own, then goes on.  Any removal of a copy or of secrets may fail.   *)
(* The folder holds a Dockerfile and a folder with one file; each may be   *)
(* replaced by a link to something elsewhere.                              *)
(***************************************************************************)
EXTENDS Naturals

CONSTANTS
    MaxRuns,      \* bound: deployments, in the order of their numbers
    Texts,        \* what a Dockerfile may say
    FirstText,    \* what it says at first
    Requires,     \* the base images that each text names
    MaxFolder,    \* bound: changes of the folder
    MaxImages     \* bound: changes that other users of Docker make

ASSUME BuildAssumption ==
    MaxRuns \in Nat /\ FirstText \in Texts /\ MaxFolder \in Nat /\ MaxImages \in Nat

VARIABLES
    folder,    \* the project's folder
    step,      \* where the process is in the two steps
    turn,      \* the deployment it works on, or the last one it worked on
    src,       \* what it remembers of the source
    copies,    \* the private copies, by deployment
    secrets,   \* deployments whose build secrets are on disk
    refused,   \* (history) those whose last removal was tried, and failed
    buildx,    \* the Buildx of each deployment
    made,      \* what the image of each deployment was made of
    images,    \* deployments whose image Docker has
    tags,      \* the image that the tag of each deployment leads to
    bases,     \* the base images that are present
    receipts,  \* the image that the ledger has for each deployment
    release,   \* the image that its containers are created from
    changes    \* how often the folder and the images were changed

onDisk == <<copies, secrets, refused>>
inDocker == <<made, images, tags, bases>>
buildVars == <<folder, step, turn, src, onDisk, buildx, inDocker, receipts, release, changes>>

Runs == 1 .. MaxRuns
NoImage == 0
Outside == 0  \* the file that a link leads to
NoSource == [text |-> FirstText, bases |-> {}, file |-> Outside]
NoCopy == [text |-> FirstText, link |-> FALSE, file |-> "none", checked |-> FirstText, bases |-> {}]

BuildInit ==
    /\ folder = [text |-> FirstText, link |-> FALSE, dir |-> "dir", kind |-> "file", file |-> 1]
    /\ step = "idle" /\ turn = 0 /\ src = NoSource
    /\ copies = [n \in {} |-> NoCopy] /\ secrets = {} /\ refused = {}
    /\ buildx = [n \in Runs |-> "none"] /\ made = [n \in Runs |-> NoCopy]
    /\ images = {} /\ tags = [n \in Runs |-> NoImage] /\ bases = UNION { Requires[t] : t \in Texts }
    /\ receipts = [n \in Runs |-> NoImage] /\ release = [n \in Runs |-> NoImage]
    /\ changes = [folder |-> 0, images |-> 0]

-----------------------------------------------------------------------------
(* Going on, and giving up.                                                *)

Does(here, next) == /\ step = here /\ step' = next
                    /\ UNCHANGED <<folder, turn, inDocker, changes>>

Rests == {"idle", "dead", "opened"}

\* Every read of the folder, of Docker or of a secret may fail, and so does a
\* check that is not met; the copy is removed, unless that fails too (build).
EndBuild ==
    /\ step' = "idle" /\ src' = NoSource
    /\ \E gone \in SUBSET {turn} : copies' = [n \in DOMAIN copies \ gone |-> copies[n]]
    /\ UNCHANGED <<folder, turn, inDocker, changes>>
GiveUp == /\ step \notin Rests \union {"run"} /\ EndBuild
          /\ UNCHANGED <<secrets, refused, buildx, receipts, release>>

\* The process dies; Buildx has its own group and goes on.
BuildCrash == /\ step \notin {"idle", "dead"} /\ step' = "dead" /\ src' = NoSource
              /\ UNCHANGED <<folder, turn, onDisk, buildx, inDocker, receipts, release, changes>>

\* (mutant) the first removal that fails ends the sweep
SweptUpToFailure ==
    \E stay \in SUBSET secrets :
        /\ secrets' = stay
        /\ IF stay = {} THEN refused' = {} ELSE \E n \in stay : refused' = {n}
\* Each of the secrets is removed, or its removal fails and the others' go on (sweep).
Swept == \E stay \in SUBSET secrets : secrets' = stay /\ refused' = stay

\* A command that writes takes the store's lock, which a process that died has
\* let go, and sweeps (open_writer); it may have nothing to deploy.
Opens == /\ step \in {"idle", "dead"} /\ step' = "opened" /\ Swept
         /\ UNCHANGED <<folder, turn, src, copies, buildx, inDocker, receipts, release, changes>>
NothingToDeploy == /\ step = "opened" /\ step' = "idle"
          /\ UNCHANGED <<folder, turn, src, onDisk, buildx, inDocker, receipts, release, changes>>

-----------------------------------------------------------------------------
(* prepare_source *)

\* confine: the Dockerfile must be inside the context, whatever link leads there.
Confined == ~folder.link

PrepareSource ==
    /\ step = "opened" /\ turn < MaxRuns /\ Confined /\ Requires[folder.text] \subseteq bases
    /\ step' = "confine" /\ turn' = turn + 1
    /\ src' = [NoSource EXCEPT !.bases = Requires[folder.text]]
    /\ UNCHANGED <<folder, onDisk, buildx, inDocker, receipts, release, changes>>

\* A rollback builds nothing: the retained image must be there, by its id.
PrepareRollback(m) ==
    /\ step = "opened" /\ turn < MaxRuns /\ step' = "idle"
    /\ release[m] # NoImage /\ release[m] \in images
    /\ turn' = turn + 1
    /\ release' = [release EXCEPT ![turn + 1] = release[m]]
    /\ UNCHANGED <<folder, src, onDisk, buildx, inDocker, receipts, changes>>

-----------------------------------------------------------------------------
(* build: the private copy *)

Confine == /\ Does("confine", "copy") /\ Confined
           /\ src' = [src EXCEPT !.text = folder.text]
           /\ UNCHANGED <<onDisk, buildx, receipts, release>>

CopyIs(c) == /\ copies' = [n \in DOMAIN copies \union {turn} |-> IF n = turn THEN c ELSE copies[n]]
             /\ UNCHANGED <<secrets, refused, buildx, receipts, release>>
FileIs(what) == CopyIs([copies[turn] EXCEPT !.file = what])

\* The copy's folder, and the Dockerfile in it; a link is copied as a link.
CopyDockerfile ==
    /\ Does("copy", "folder") /\ UNCHANGED src
    /\ CopyIs([text |-> folder.text, link |-> folder.link, file |-> "none",
               checked |-> src.text, bases |-> src.bases])

\* The folder in it is looked at, and listed later.
CopyFolder ==
    /\ UNCHANGED src
    /\ \/ folder.dir = "dir" /\ Does("folder", "look") /\ FileIs("none")
       \/ folder.dir = "link" /\ Does("folder", "compare") /\ FileIs("link")

\* What the path of the file leads to: lstat does not follow its last part.
IsLink == folder.dir = "dir" /\ folder.kind = "link"
Seen == IF folder.dir = "link" THEN Outside ELSE folder.file
OpenedFile == IF folder.kind = "link" THEN Outside ELSE Seen

LookAtFile ==
    \/ IsLink /\ Does("look", "compare") /\ FileIs("link") /\ UNCHANGED src
    \/ ~IsLink /\ Does("look", "open") /\ FileIs("none") /\ src' = [src EXCEPT !.file = Seen]

\* (mutant) the open handle is not compared with what was looked at
SameFileUnchecked == TRUE
\* The open handle is the file that was looked at.
SameFile == OpenedFile = src.file

\* Its bytes are the folder's own, or those that the path led to when it was
\* looked at, its folder then being a link, or others that a link leads to since.
OpenFile ==
    /\ Does("open", "compare") /\ SameFile /\ UNCHANGED src
    /\ FileIs(IF OpenedFile # Outside THEN "own"
              ELSE IF src.file = Outside THEN "folder followed" ELSE "link followed")

\* What the Dockerfile of a copy says; through a link, what is there now.
TextOf(n) == IF copies[n].link THEN folder.text ELSE copies[n].text

\* The copied Dockerfile must be the one that was checked.
AsChecked == TextOf(turn) = src.text /\ Requires[TextOf(turn)] = src.bases

Compare == /\ Does("compare", "sweep") /\ AsChecked
           /\ UNCHANGED <<src, onDisk, buildx, receipts, release>>

-----------------------------------------------------------------------------
(* build: the secrets, Buildx and the image *)

\* What is still there is swept once more before new secrets are written.
Sweep == /\ Does("sweep", "secrets") /\ Swept
         /\ UNCHANGED <<src, copies, buildx, receipts, release>>

\* The secrets are written (SecretFiles::create), and Buildx is started with them.
StartBuildx == /\ Does("secrets", "run")
               /\ secrets' = secrets \union {turn}
               /\ buildx' = [buildx EXCEPT ![turn] = "runs"]
               /\ UNCHANGED <<src, copies, refused, receipts, release>>

\* Buildx makes the image with its tag and labels, then writes its id; or fails.
Loads(n) == /\ buildx[n] = "runs" /\ buildx' = [buildx EXCEPT ![n] = "loaded"]
            /\ made' = [made EXCEPT ![n] = [copies[n] EXCEPT !.text = TextOf(n)]]
            /\ images' = images \union {n} /\ tags' = [tags EXCEPT ![n] = n]
            /\ UNCHANGED <<folder, step, turn, src, onDisk, bases, receipts, release, changes>>
WritesId(n) == /\ buildx[n] = "loaded" /\ buildx' = [buildx EXCEPT ![n] = "done"]
               /\ UNCHANGED <<folder, step, turn, src, onDisk, inDocker, receipts, release, changes>>
BuildxFails(n) == /\ buildx[n] \in {"runs", "loaded"} /\ buildx' = [buildx EXCEPT ![n] = "failed"]
                  /\ UNCHANGED <<folder, step, turn, src, onDisk, inDocker, receipts, release, changes>>

\* Buildx ended, was not started, or its time is up and its group is killed: the
\* secrets are removed in any case, and an error of that is ignored (drop).
Cleared == \/ secrets' = secrets \ {turn} /\ UNCHANGED refused
           \/ refused' = refused \union {turn} /\ UNCHANGED secrets
Built == /\ Does("run", "inspect") /\ buildx[turn] = "done" /\ Cleared
         /\ UNCHANGED <<src, copies, buildx, receipts, release>>
NotBuilt == /\ step = "run" /\ EndBuild /\ Cleared
            /\ buildx' = [buildx EXCEPT ![turn] = IF @ = "done" THEN @ ELSE "failed"]
            /\ UNCHANGED <<receipts, release>>

\* Docker must have an image with that id and this deployment's labels.
Inspect == /\ Does("inspect", "receipt") /\ turn \in images
           /\ UNCHANGED <<src, onDisk, buildx, receipts, release>>
ReceiveImage == /\ Does("receipt", "tag")
                /\ receipts' = [receipts EXCEPT ![turn] = turn]
                /\ UNCHANGED <<src, onDisk, buildx, release>>

\* The tag must still lead to that image; containers are made from its id.
Tagged == tags[turn] = receipts[turn] /\ release' = [release EXCEPT ![turn] = receipts[turn]]
CheckTag == /\ step = "tag" /\ Tagged /\ EndBuild
            /\ UNCHANGED <<secrets, refused, buildx, receipts>>

-----------------------------------------------------------------------------
(* The surroundings.                                                       *)

\* The person edits the folder.
Edits == /\ changes.folder < MaxFolder /\ changes' = [changes EXCEPT !.folder = @ + 1]
         /\ \/ \E t \in Texts : folder' = [folder EXCEPT !.text = t]
            \/ folder' = [folder EXCEPT !.link = ~@]
            \/ \E d \in {"dir", "link"} : folder' = [folder EXCEPT !.dir = d]
            \/ \E k \in {"file", "link"} : folder' = [folder EXCEPT !.kind = k, !.file = @ + 1]
         /\ UNCHANGED <<step, turn, src, onDisk, buildx, inDocker, receipts, release>>

\* Other users of Docker move tags, remove images and their bases.
OthersAct == /\ changes.images < MaxImages /\ changes' = [changes EXCEPT !.images = @ + 1]
             /\ \/ \E n \in Runs, i \in images : tags' = [tags EXCEPT ![n] = i]
                                                 /\ UNCHANGED <<images, bases>>
                \/ \E i \in images : images' = images \ {i} /\ UNCHANGED <<tags, bases>>
                \/ \E b \in bases : bases' = bases \ {b} /\ UNCHANGED <<images, tags>>
             /\ UNCHANGED <<folder, step, turn, src, onDisk, buildx, made, receipts, release>>

BuildNext ==
    \/ Opens \/ NothingToDeploy \/ PrepareSource \/ (\E m \in Runs : PrepareRollback(m)) \/ Confine
    \/ CopyDockerfile \/ CopyFolder \/ LookAtFile \/ OpenFile \/ Compare
    \/ Sweep \/ StartBuildx \/ Built \/ NotBuilt \/ Inspect \/ ReceiveImage \/ CheckTag
    \/ GiveUp \/ BuildCrash
    \/ \E n \in Runs : Loads(n) \/ WritesId(n) \/ BuildxFails(n)
    \/ Edits \/ OthersAct

-----------------------------------------------------------------------------
(* Properties.                                                             *)

\* What a deployment runs is the image that its own build, or the build of the
\* release it rolls back to, reported; that was made from a Dockerfile that is
\* the checked one, word for word and with the base images that were found to
\* be present, unless it was replaced by a link in the meantime, and from no
\* file that a link led to other than the one its path led to when it was looked
\* at (confine, copy_tree, build_from_snapshot, prepare_rollback_image).
RunsWhatWasChecked ==
    \A n \in Runs : release[n] # NoImage =>
        LET m == made[release[n]] IN
        /\ release[n] = n \/ \E k \in 1 .. n - 1 : release[n] = release[k]
        /\ receipts[release[n]] = release[n]
        /\ ~m.link => m.text = m.checked /\ Requires[m.checked] = m.bases
        /\ m.file # "link followed"

\* A build's secrets stay on disk for two reasons only: their build's process is
\* in Buildx or died there, and no command that writes has begun since; or the
\* latest removal that was due was tried on them and failed.  An error with one
\* of them keeps no other there, and nobody takes them from a Buildx that the
\* process waits for (SecretFiles: sweep, drop; sweep_secret_residue).
SecretsSwept ==
    /\ \A n \in secrets \ refused : n = turn /\ step \in {"run", "dead"}
    /\ step = "run" => turn \in secrets
=============================================================================
