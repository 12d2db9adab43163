------------------------------ MODULE Geranos ------------------------------
(***************************************************************************)
(* Runs of cmd/geranos against one bucket: WalkImageLayersGCP starts one   *)
(* goroutine per image it lists, in an errgroup whose limit the walker     *)
(* itself counts against, and every goroutine copies its image, layer by   *)
(* layer and then the record (s3Uploader).  Runs may overlap and may be    *)
(* killed between any two calls to the registry or to S3, each of which is *)
(* a step of its own: what a HEAD has seen may be old when its goroutine   *)
(* uploads.                                                                *)
(*                                                                         *)
(* A job is a repository and an image in it; an image may be in several.   *)
(***************************************************************************)
EXTENDS FiniteSets, Naturals, Sequences

CONSTANTS
    Runs,       \* the processes
    DryRuns,    \* the ones without REALLY_UPLOAD
    Limit,      \* g.SetLimit
    Repos,      \* the repositories google.Walk visits
    Images,     \* digests of the manifests that are not an index
    ManifestsOf,    \* ManifestsOf[p]: the images listed in repository p
    LayersOf,   \* LayersOf[i]: the layers and the config of image i, in order
    Unhandled   \* the images of a type walkManifestLayers does not copy

VARIABLES
    walker,     \* where each run's google.Walk is
    left,       \* the repositories it has not listed
    todo,       \* the listed images it has not started a goroutine for
    job,        \* where the goroutine of each image is
    failed,     \* the errgroup holds an error
    result,     \* how the process ended, the last time it did
    stored,     \* the keys of the bucket
    summed,     \* the ones S3 was sent a SHA-256 checksum with
    named       \* the keys each dry run has said it would upload

vars == <<walker, left, todo, job, failed, result, stored, summed, named>>

Bucket == INSTANCE MirrorSpec

Jobs == UNION {{p} \X ManifestsOf[p] : p \in Repos}

\* The keys a job copies, in order: the layers, then the image's record.
KeyCount(image) == Len(LayersOf[image]) + 1
Key(image, n) ==
    IF n = KeyCount(image) THEN Bucket!RecordKey(image)
    ELSE Bucket!LayerKey(LayersOf[image][n])

At(step, n) == [at |-> step, n |-> n]
Waiting == At("waiting", 0)

Steps == {"waiting", "skip?", "get", "manifest", "head", "put", "done", "failed"}
Busy == {"skip?", "get", "manifest", "head", "put"}

ASSUME GeranosAssumption ==
    /\ DryRuns \subseteq Runs
    /\ Unhandled \subseteq Images
    /\ ManifestsOf \in [Repos -> SUBSET Images]
    /\ DOMAIN LayersOf = Images
    /\ \A i \in Images : Len(LayersOf[i]) \in Nat
    /\ Limit \in Nat /\ Limit >= 2    \* 1000; the walker holds a slot

-----------------------------------------------------------------------------
Init ==
    /\ walker = [r \in Runs |-> "off"]
    /\ left = [r \in Runs |-> {}]
    /\ todo = [r \in Runs |-> {}]
    /\ job = [r \in Runs |-> [j \in Jobs |-> Waiting]]
    /\ failed = [r \in Runs |-> FALSE]
    /\ result = [r \in Runs |-> "none"]
    /\ Bucket!Init
    /\ summed = {}
    /\ named = [r \in Runs |-> {}]

\* Mutant: a goroutine that fails keeps its slot.
ActiveLeaky(r) == {j \in Jobs : job[r][j].at \in Busy \cup {"failed"}}

Active(r) == {j \in Jobs : job[r][j].at \in Busy}

\* The slots of the errgroup in use, the walker's among them.
Slots(r) == Cardinality(Active(r)) + IF walker[r] = "walking" THEN 1 ELSE 0

Goto(r, j, step) == job' = [job EXCEPT ![r][j] = step]

-----------------------------------------------------------------------------
(* The walker.                                                             *)

\* WalkImageLayersGCP puts google.Walk in the group.
Start(r) ==
    /\ walker[r] = "off"
    /\ walker' = [walker EXCEPT ![r] = "walking"]
    /\ left' = [left EXCEPT ![r] = Repos]
    /\ failed' = [failed EXCEPT ![r] = FALSE]
    /\ job' = [job EXCEPT ![r] = [j \in Jobs |-> Waiting]]
    /\ todo' = [todo EXCEPT ![r] = {}]
    /\ result' = [result EXCEPT ![r] = "none"]
    /\ named' = [named EXCEPT ![r] = {}]
    /\ UNCHANGED <<stored, summed>>

\* A repository is listed; the callback drops the indexes, which are not in
\* ManifestsOf.
List(r, repo) ==
    /\ walker[r] = "walking"
    /\ todo[r] = {}
    /\ repo \in left[r]
    /\ left' = [left EXCEPT ![r] = @ \ {repo}]
    /\ todo' = [todo EXCEPT ![r] = {repo} \X ManifestsOf[repo]]
    /\ UNCHANGED <<walker, job, failed, result, stored, summed, named>>

\* Listing fails: the callback returns the error and the walk is over.  The
\* goroutines it has started go on: the errgroup has no context to cancel.
ListFails(r) ==
    /\ walker[r] = "walking"
    /\ todo[r] = {}
    /\ left[r] # {}
    /\ walker' = [walker EXCEPT ![r] = "ended"]
    /\ failed' = [failed EXCEPT ![r] = TRUE]
    /\ UNCHANGED <<left, todo, job, result, stored, summed, named>>

\* name.ParseReference refuses what was listed: the callback returns, and
\* the images it had not come to are never started.
RefFails(r) ==
    /\ walker[r] = "walking"
    /\ todo[r] # {}
    /\ walker' = [walker EXCEPT ![r] = "ended"]
    /\ failed' = [failed EXCEPT ![r] = TRUE]
    /\ UNCHANGED <<left, todo, job, result, stored, summed, named>>

\* g.Go, which blocks the walker until there is a slot.
Spawn(r, j) ==
    /\ walker[r] = "walking"
    /\ j \in todo[r]
    /\ Slots(r) < Limit
    /\ todo' = [todo EXCEPT ![r] = @ \ {j}]
    /\ Goto(r, j, At("skip?", 0))
    /\ UNCHANGED <<walker, left, failed, result, stored, summed, named>>

WalkEnds(r) ==
    /\ walker[r] = "walking"
    /\ left[r] = {} /\ todo[r] = {}
    /\ walker' = [walker EXCEPT ![r] = "ended"]
    /\ UNCHANGED <<left, todo, job, failed, result, stored, summed, named>>

\* Mutant: the first error ends the run.
FinishAtFirstError(r) ==
    /\ walker[r] = "ended"
    /\ Active(r) = {} \/ failed[r]
    /\ walker' = [walker EXCEPT ![r] = "off"]
    /\ result' = [result EXCEPT ![r] = IF failed[r] THEN "failed" ELSE "ok"]
    /\ UNCHANGED <<left, todo, job, failed, stored, summed, named>>

\* g.Wait returns, and the process with it.
Finish(r) ==
    /\ walker[r] = "ended"
    /\ Active(r) = {}
    /\ walker' = [walker EXCEPT ![r] = "off"]
    /\ result' = [result EXCEPT ![r] = IF failed[r] THEN "failed" ELSE "ok"]
    /\ UNCHANGED <<left, todo, job, failed, stored, summed, named>>

\* The process is killed.
Crash(r) ==
    /\ walker[r] # "off"
    /\ walker' = [walker EXCEPT ![r] = "off"]
    /\ left' = [left EXCEPT ![r] = {}]
    /\ todo' = [todo EXCEPT ![r] = {}]
    /\ job' = [job EXCEPT ![r] = [j \in Jobs |-> Waiting]]
    /\ failed' = [failed EXCEPT ![r] = FALSE]
    /\ result' = [result EXCEPT ![r] = "none"]
    /\ named' = [named EXCEPT ![r] = {}]
    /\ UNCHANGED <<stored, summed>>

-----------------------------------------------------------------------------
(* A goroutine.  j[2] is its image.                                        *)

\* Mutant: an error of the look-up counts as "there".
SkipImageOnError(r, j) ==
    /\ job[r][j].at = "skip?"
    /\ Goto(r, j, At("done", 0)) \/ Goto(r, j, At("get", 0))
    /\ UNCHANGED <<walker, left, todo, failed, result, stored, summed, named>>

\* skipImage looks for the record; an error counts as "not there".
SkipImage(r, j) ==
    /\ job[r][j].at = "skip?"
    /\ \/ /\ Bucket!RecordKey(j[2]) \in stored
          /\ Goto(r, j, At("done", 0))
       \/ Goto(r, j, At("get", 0))
    /\ UNCHANGED <<walker, left, todo, failed, result, stored, summed, named>>

\* remote.Get and the list of the layers.
GetManifest(r, j) ==
    /\ job[r][j].at = "get"
    /\ Goto(r, j, IF j[2] \in Unhandled THEN At("done", 0)
                  ELSE IF KeyCount(j[2]) = 1 THEN At("manifest", 1)
                  ELSE At("head", 1))
    /\ UNCHANGED <<walker, left, todo, failed, result, stored, summed, named>>

\* manifestBlobFromRef, when the layers are copied.
FetchRecord(r, j) ==
    /\ job[r][j].at = "manifest"
    /\ Goto(r, j, At("head", job[r][j].n))
    /\ UNCHANGED <<walker, left, todo, failed, result, stored, summed, named>>

\* Mutant: one key too many.
CopiedOneMore(image, n) ==
    IF n > KeyCount(image) THEN At("done", 0)
    ELSE IF n + 1 = KeyCount(image) THEN At("manifest", n + 1)
    ELSE At("head", n + 1)

\* The step after key n of the image is in the bucket.
Copied(image, n) ==
    IF n = KeyCount(image) THEN At("done", 0)
    ELSE IF n + 1 = KeyCount(image) THEN At("manifest", n + 1)
    ELSE At("head", n + 1)

\* copyToS3 asks if the object exists; an error is logged and counts as no.
HeadObject(r, j) ==
    /\ job[r][j].at = "head"
    /\ LET n == job[r][j].n IN
        \/ /\ Key(j[2], n) \in stored
           /\ Goto(r, j, Copied(j[2], n))
        \/ Goto(r, j, At("put", n))
    /\ UNCHANGED <<walker, left, todo, failed, result, stored, summed, named>>

\* v1.Hash spells its algorithm in lower case.
Algorithm == "sha256"

Upload(key) ==
    /\ stored' = stored \cup {key}
    /\ summed' = IF Algorithm = "SHA256" THEN summed \cup {key}
                 ELSE summed \ {key}

\* Mutant: a dry run is done with an image at the first upload it leaves out.
PutObjectDryEnds(r, j) ==
    /\ job[r][j].at = "put"
    /\ LET n == job[r][j].n IN
        IF r \in DryRuns
        THEN /\ named' = [named EXCEPT ![r] = @ \cup {Key(j[2], n)}]
             /\ Goto(r, j, At("done", 0))
             /\ UNCHANGED <<stored, summed>>
        ELSE /\ Upload(Key(j[2], n))
             /\ Goto(r, j, Copied(j[2], n))
             /\ UNCHANGED named
    /\ UNCHANGED <<walker, left, todo, failed, result>>

\* The rest of copyToS3: the key is logged and uploaded; a dry run logs it.
PutObject(r, j) ==
    /\ job[r][j].at = "put"
    /\ LET n == job[r][j].n IN
        /\ Goto(r, j, Copied(j[2], n))
        /\ IF r \in DryRuns
           THEN /\ named' = [named EXCEPT ![r] = @ \cup {Key(j[2], n)}]
                /\ UNCHANGED <<stored, summed>>
           ELSE Upload(Key(j[2], n)) /\ UNCHANGED named
    /\ UNCHANGED <<walker, left, todo, failed, result>>

\* Mutant: a failed upload is logged like a failed HEAD.
FailGoesOn(r, j) ==
    /\ job[r][j].at = "put"
    /\ Goto(r, j, Copied(j[2], job[r][j].n))
    /\ UNCHANGED <<walker, left, todo, failed, result, stored, summed, named>>

\* Mutant: what a failed upload may have left is removed.
FailCleansUp(r, j) ==
    /\ job[r][j].at = "put" /\ r \notin DryRuns
    /\ Goto(r, j, At("failed", 0))
    /\ failed' = [failed EXCEPT ![r] = TRUE]
    /\ stored' = stored \ {Key(j[2], job[r][j].n)}
    /\ UNCHANGED <<walker, left, todo, result, summed, named>>

\* Mutant: an image whose copy failed is tried again.
FailRetries(r, j) ==
    /\ job[r][j].at \in {"get", "manifest", "put"}
    /\ Goto(r, j, At("get", 0))
    /\ UNCHANGED <<walker, left, todo, failed, result, stored, summed, named>>

\* A call fails, and the goroutine returns its error.  An upload may have
\* stored the object all the same.
Fail(r, j) ==
    /\ job[r][j].at \in {"get", "manifest", "put"}
    /\ Goto(r, j, At("failed", 0))
    /\ failed' = [failed EXCEPT ![r] = TRUE]
    /\ \/ UNCHANGED <<stored, summed>>
       \/ /\ job[r][j].at = "put"
          /\ r \notin DryRuns
          /\ Upload(Key(j[2], job[r][j].n))
    /\ UNCHANGED <<walker, left, todo, result, named>>

-----------------------------------------------------------------------------
Walk(r) ==
    \/ \E repo \in Repos : List(r, repo)
    \/ ListFails(r)
    \/ \E j \in Jobs : Spawn(r, j)
    \/ WalkEnds(r)
    \/ Finish(r)

Work(r, j) ==
    \/ SkipImage(r, j)
    \/ GetManifest(r, j)
    \/ FetchRecord(r, j)
    \/ HeadObject(r, j)
    \/ PutObject(r, j)
    \/ Fail(r, j)

Next ==
    \E r \in Runs :
        \/ Start(r)
        \/ Walk(r)
        \/ RefFails(r)
        \/ \E j \in Jobs : Work(r, j)
        \/ Crash(r)

Spec == Init /\ [][Next]_vars

\* The process runs, and each call to the registry or S3 returns, with an
\* error if with nothing else: the code sets no timeout and leaves that to
\* the network.  Nothing promises that a call succeeds or a run is started,
\* nor that a reference is refused, which may end a walk but must not be what
\* gets it out of g.Go.
Fairness ==
    \A r \in Runs : WF_vars(Walk(r)) /\ \A j \in Jobs : WF_vars(Work(r, j))

FairSpec == Spec /\ Fairness

-----------------------------------------------------------------------------
(* Properties.                                                             *)

Handled == Images \ Unhandled

\* Every goroutine is at a call copyToS3 or its callers make, with a key of
\* its image, and only a walk in progress or one that has failed has images
\* it has not started.
TypeOK ==
    /\ walker \in [Runs -> {"off", "walking", "ended"}]
    /\ left \in [Runs -> SUBSET Repos]
    /\ todo \in [Runs -> SUBSET Jobs]
    /\ job \in [Runs -> [Jobs -> [at : Steps, n : Nat]]]
    /\ failed \in [Runs -> BOOLEAN]
    /\ result \in [Runs -> {"none", "ok", "failed"}]
    /\ stored \subseteq Bucket!Keys
    /\ summed \subseteq Bucket!Keys
    /\ named \in [Runs -> SUBSET Bucket!Keys]
    /\ \A r \in Runs :
        /\ walker[r] # "walking" /\ todo[r] # {} => failed[r]
        /\ \A j \in Jobs :
            /\ job[r][j].at \in {"head", "put"} =>
                /\ job[r][j].n \in 1..KeyCount(j[2])
                /\ j[2] \in Handled
            /\ job[r][j].at = "manifest" =>
                /\ job[r][j].n = KeyCount(j[2])
                /\ j[2] \in Handled

\* The record that makes later runs skip an image is never in the bucket
\* without the image's layers, wherever a run was killed, whatever failed
\* and whoever else is copying the same image.
RecordComplete == Bucket!Complete(stored)

\* A run that ends with no error has every image it handles in the bucket,
\* layers and record: nothing is skipped on a failed look-up, and no error
\* of a goroutine is lost.
DoneMeansMirrored ==
    \A r \in Runs \ DryRuns : result[r] = "ok" =>
        \A j \in Jobs : j[2] \in Handled =>
            {Key(j[2], n) : n \in 1..KeyCount(j[2])} \subseteq stored

\* The failure of one image stops no other: when a run is over, it is done
\* with every image the walker has come to.
NoneAbandoned ==
    \A r \in Runs : walker[r] = "off" /\ result[r] # "none" =>
        \A j \in Jobs : j[1] \notin left[r] /\ j \notin todo[r] =>
            job[r][j].at \in {"done", "failed"}

\* A dry run that ends with no error has said what a real one would do: of
\* every image it handles, each layer and the record is in the bucket or is
\* named in the log, whoever uploads meanwhile.
DryRunForesees ==
    \A r \in DryRuns : result[r] = "ok" =>
        \A j \in Jobs : j[2] \in Handled =>
            {Key(j[2], n) : n \in 1..KeyCount(j[2])} \subseteq stored \cup named[r]

\* No more than so many calls are left to a goroutine: at most three a key.
CallsLeft(j, step) ==
    LET keys == KeyCount(j[2])
        later == 3 * (keys - step.n)
    IN  CASE step.at = "waiting"  -> 3 * keys + 3
          [] step.at = "skip?"    -> 3 * keys + 2
          [] step.at = "get"      -> 3 * keys + 1
          [] step.at = "manifest" -> later + 3
          [] step.at = "head"     -> later + 2
          [] step.at = "put"      -> later + 1
          [] OTHER                -> 0

\* A run that goes on only goes forward, whatever fails: its goroutines do
\* nothing twice, no repository is listed again and no image started again.
\* With an errgroup that lets its walker through, this brings a run to its end.
GoesForward ==
    [][\A r \in Runs : walker[r] # "off" /\ walker'[r] # "off" =>
        /\ left'[r] \subseteq left[r]
        /\ left'[r] = left[r] => todo'[r] \subseteq todo[r]
        /\ \A j \in Jobs : job'[r][j] # job[r][j] =>
            CallsLeft(j, job'[r][j]) < CallsLeft(j, job[r][j])]_vars

\* A run comes to its end: the walker, blocked in g.Go by its own goroutines
\* with a slot of its own taken, is always let through.
RunEnds == \A r \in Runs : walker[r] # "off" ~> walker[r] = "off"

\* Every run keeps the promise of MirrorSpec.
KeepsPromise == Bucket!Spec

\* What the branch on the digest's algorithm in copyToS3 is there for: what
\* is uploaded was sent with its SHA-256 checksum, every digest being one.
UploadsAreSummed ==
    [][\A key \in stored' \ stored : key \in summed']_vars
=============================================================================
