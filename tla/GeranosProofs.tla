--------------------------- MODULE GeranosProofs ---------------------------
(***************************************************************************)
(* Proofs about Geranos, for any number of runs, any catalogue of images   *)
(* and any limit of the errgroup.                                          *)
(***************************************************************************)
EXTENDS Geranos, Integers, TLAPS

-----------------------------------------------------------------------------
(* Lemmas about keys.                                                      *)

LEMMA JobImage == ASSUME NEW j \in Jobs PROVE j[2] \in Images
  BY GeranosAssumption DEF Jobs

\* The keys of an image are its layers and, last, its record.
LEMMA KeyOfImage ==
  ASSUME NEW i \in Images, NEW n \in 1..KeyCount(i)
  PROVE  /\ Key(i, n) \in Bucket!Keys
         /\ n = KeyCount(i) => Key(i, n) = Bucket!RecordKey(i)
         /\ n # KeyCount(i) => /\ n \in 1..Len(LayersOf[i])
                               /\ Key(i, n) \in Bucket!LayerKeys(i)
<1>1. Len(LayersOf[i]) \in Nat
  BY GeranosAssumption
<1>2. CASE n = KeyCount(i)
  <2>1. Key(i, n) = Bucket!RecordKey(i)
    BY <1>2 DEF Key
  <2>2. Bucket!RecordKey(i) \in {Bucket!RecordKey(k) : k \in Images}
    OBVIOUS
  <2> QED
    BY <1>2, <2>1, <2>2 DEF Bucket!Keys
<1>3. CASE n # KeyCount(i)
  <2>1. n \in 1..Len(LayersOf[i])
    BY <1>1, <1>3 DEF KeyCount
  <2>2. Key(i, n) \in Bucket!LayerKeys(i)
    BY <1>3, <2>1 DEF Key, Bucket!LayerKeys
  <2> QED
    BY <1>3, <2>1, <2>2 DEF Bucket!Keys
<1> QED
  BY <1>2, <1>3

\* With the keys before the last, all layers are there.
LEMMA LayersBeforeRecord ==
  ASSUME NEW i \in Images, NEW S,
         \A m \in 1..KeyCount(i) : m < KeyCount(i) => Key(i, m) \in S
  PROVE  Bucket!LayerKeys(i) \subseteq S
<1>1. Len(LayersOf[i]) \in Nat
  BY GeranosAssumption
<1> SUFFICES ASSUME NEW m \in 1..Len(LayersOf[i])
             PROVE  Bucket!LayerKey(LayersOf[i][m]) \in S
  BY DEF Bucket!LayerKeys
<1>2. m \in 1..KeyCount(i) /\ m < KeyCount(i) /\ m # KeyCount(i)
  BY <1>1 DEF KeyCount
<1> QED
  BY <1>2 DEF Key

\* A record is no layer.
LEMMA RecordIsNoLayer ==
  ASSUME NEW i \in Images, NEW k PROVE Bucket!RecordKey(i) # Bucket!LayerKey(k)
  BY DEF Bucket!RecordKey, Bucket!LayerKey

-----------------------------------------------------------------------------
(* The type invariant.                                                     *)

\* What Goto leaves of TypeOK when it sends a goroutine to a step that is
\* right for its image.
RightStep(j, step) ==
  /\ step \in [at : Steps, n : Nat]
  /\ step.at \in {"head", "put"} =>
       step.n \in 1..KeyCount(j[2]) /\ j[2] \in Handled
  /\ step.at = "manifest" => step.n = KeyCount(j[2]) /\ j[2] \in Handled

LEMMA CopiedIsRight ==
  ASSUME NEW j \in Jobs, j[2] \in Handled, NEW n \in 1..KeyCount(j[2])
  PROVE  RightStep(j, Copied(j[2], n))
<1>1. Len(LayersOf[j[2]]) \in Nat
  BY JobImage, GeranosAssumption
<1> QED
  BY <1>1 DEF RightStep, Copied, At, Steps, KeyCount

LEMMA TypeOKGoto ==
  ASSUME TypeOK, NEW r \in Runs, NEW j \in Jobs, NEW step,
         RightStep(j, step), Goto(r, j, step)
  PROVE  /\ job' \in [Runs -> [Jobs -> [at : Steps, n : Nat]]]
         /\ \A q \in Runs, k \in Jobs :
              /\ job'[q][k].at \in {"head", "put"} =>
                   /\ job'[q][k].n \in 1..KeyCount(k[2])
                   /\ k[2] \in Handled
              /\ job'[q][k].at = "manifest" =>
                   /\ job'[q][k].n = KeyCount(k[2])
                   /\ k[2] \in Handled
  BY DEF TypeOK, Goto, RightStep

LEMMA TypeOKNext == TypeOK /\ [Next]_vars => TypeOK'
<1> SUFFICES ASSUME TypeOK, [Next]_vars PROVE TypeOK'
  OBVIOUS
<1>1. ASSUME NEW r \in Runs, Start(r) PROVE TypeOK'
  BY <1>1 DEF TypeOK, Start, Waiting, At, Steps
<1>2. ASSUME NEW r \in Runs, NEW p \in Repos, List(r, p) PROVE TypeOK'
  <2>1. {p} \X ManifestsOf[p] \subseteq Jobs
    BY DEF Jobs
  <2> QED
    BY <1>2, <2>1 DEF TypeOK, List
<1>3. ASSUME NEW r \in Runs, ListFails(r) PROVE TypeOK'
  BY <1>3 DEF TypeOK, ListFails
<1>10. ASSUME NEW r \in Runs, RefFails(r) PROVE TypeOK'
  BY <1>10 DEF TypeOK, RefFails
<1>4. ASSUME NEW r \in Runs, NEW j \in Jobs, Spawn(r, j) PROVE TypeOK'
  <2>1. RightStep(j, At("skip?", 0))
    BY DEF RightStep, At, Steps
  <2> QED
    BY <1>4, <2>1, TypeOKGoto DEF TypeOK, Spawn
<1>5. ASSUME NEW r \in Runs, WalkEnds(r) PROVE TypeOK'
  BY <1>5 DEF TypeOK, WalkEnds
<1>6. ASSUME NEW r \in Runs, Finish(r) PROVE TypeOK'
  BY <1>6 DEF TypeOK, Finish
<1>7. ASSUME NEW r \in Runs, Crash(r) PROVE TypeOK'
  BY <1>7 DEF TypeOK, Crash, Waiting, At, Steps
<1>8. ASSUME NEW r \in Runs, NEW j \in Jobs, Work(r, j) PROVE TypeOK'
  <2>1. Len(LayersOf[j[2]]) \in Nat /\ j[2] \in Images
    BY JobImage, GeranosAssumption
  <2>2. CASE SkipImage(r, j)
    <3>1. RightStep(j, At("done", 0)) /\ RightStep(j, At("get", 0))
      BY DEF RightStep, At, Steps
    <3> QED
      BY <2>2, <3>1, TypeOKGoto DEF TypeOK, SkipImage
  <2>3. CASE GetManifest(r, j)
    <3>1. \E step : RightStep(j, step) /\ Goto(r, j, step)
      BY <2>1, <2>3 DEF GetManifest, RightStep, At, Steps, KeyCount, Handled
    <3> QED
      BY <2>3, <3>1, TypeOKGoto DEF TypeOK, GetManifest
  <2>4. CASE FetchRecord(r, j)
    <3>1. RightStep(j, At("head", job[r][j].n))
      BY <2>1, <2>4 DEF TypeOK, FetchRecord, RightStep, At, Steps, KeyCount
    <3> QED
      BY <2>4, <3>1, TypeOKGoto DEF TypeOK, FetchRecord
  <2>5. CASE HeadObject(r, j)
    <3>1. job[r][j].n \in 1..KeyCount(j[2]) /\ j[2] \in Handled
      BY <2>5 DEF TypeOK, HeadObject
    <3>2. /\ RightStep(j, Copied(j[2], job[r][j].n))
          /\ RightStep(j, At("put", job[r][j].n))
      BY <2>1, <3>1, CopiedIsRight DEF RightStep, At, Steps, KeyCount
    <3> QED
      BY <2>5, <3>2, TypeOKGoto DEF TypeOK, HeadObject
  <2>6. CASE PutObject(r, j)
    <3>1. job[r][j].n \in 1..KeyCount(j[2]) /\ j[2] \in Handled
      BY <2>6 DEF TypeOK, PutObject
    <3>2. /\ RightStep(j, Copied(j[2], job[r][j].n))
          /\ Key(j[2], job[r][j].n) \in Bucket!Keys
      BY <2>1, <3>1, CopiedIsRight, KeyOfImage
    <3>3. stored' \subseteq Bucket!Keys /\ summed' \subseteq Bucket!Keys
      BY <2>6, <3>2 DEF TypeOK, PutObject, Upload
    <3>4. named' \in [Runs -> SUBSET Bucket!Keys]
      <4>1. \/ UNCHANGED named
            \/ named' = [named EXCEPT ![r] = @ \cup {Key(j[2], job[r][j].n)}]
        BY <2>6 DEF PutObject
      <4> QED
        BY <3>2, <4>1 DEF TypeOK
    <3> QED
      BY <2>6, <3>2, <3>3, <3>4, TypeOKGoto DEF TypeOK, PutObject
  <2>7. CASE Fail(r, j)
    <3>1. RightStep(j, At("failed", 0))
      BY DEF RightStep, At, Steps
    <3>2. stored' \subseteq Bucket!Keys /\ summed' \subseteq Bucket!Keys
      BY <2>1, <2>7, KeyOfImage DEF TypeOK, Fail, Upload
    <3> QED
      BY <2>7, <3>1, <3>2, TypeOKGoto DEF TypeOK, Fail
  <2> QED
    BY <1>8, <2>2, <2>3, <2>4, <2>5, <2>6, <2>7 DEF Work
<1>9. CASE UNCHANGED vars
  BY <1>9 DEF TypeOK, vars
<1> QED
  BY <1>1, <1>2, <1>3, <1>4, <1>5, <1>6, <1>7, <1>8, <1>9, <1>10
  DEF Next, Walk

LEMMA TypeOKInit == Init => TypeOK
  BY DEF Init, TypeOK, Bucket!Init, Waiting, At, Steps

\* Every goroutine is always at a call with a key of its own image.
THEOREM TypeCorrect == Spec => []TypeOK
  BY TypeOKInit, TypeOKNext, PTL DEF Spec

-----------------------------------------------------------------------------
(* Records are complete.                                                   *)

\* RecordComplete is not inductive: what makes it safe to add a record is
\* where its goroutine is.  One that got to key n of its image has seen, or
\* put, all those before it in the bucket, and nothing leaves the bucket.  A
\* dry run's has seen them or named them.
Has(r) == IF r \in DryRuns THEN stored \cup named[r] ELSE stored

Progress ==
  \A r \in Runs, j \in Jobs :
    /\ job[r][j].at \in {"manifest", "head", "put"} =>
         \A m \in 1..KeyCount(j[2]) :
            m < job[r][j].n => Key(j[2], m) \in Has(r)
    /\ job[r][j].at = "done" /\ j[2] \in Handled =>
         \/ Bucket!RecordKey(j[2]) \in stored
         \/ \A m \in 1..KeyCount(j[2]) : Key(j[2], m) \in Has(r)

LEMMA StoredGrows ==
  ASSUME [Next]_vars PROVE stored \subseteq stored'
  BY DEF Next, vars, Start, Walk, List, ListFails, RefFails, Spawn, WalkEnds,
         Finish, Crash, Work, SkipImage, GetManifest, FetchRecord, HeadObject,
         PutObject, Upload, Fail

\* What a run has seen or named stays so while its goroutines work.
LEMMA HasGrows ==
  ASSUME TypeOK, stored \subseteq stored',
         NEW r \in Runs, NEW j \in Jobs, Spawn(r, j) \/ Work(r, j)
  PROVE  \A q \in Runs : Has(q) \subseteq Has(q)'
<1>1. \A q \in Runs : named[q] \subseteq named'[q]
  <2>1. CASE PutObject(r, j)
    <3>1. \/ UNCHANGED named
          \/ \E key : named' = [named EXCEPT ![r] = @ \cup {key}]
      BY <2>1 DEF PutObject
    <3> QED
      BY <3>1 DEF TypeOK
  <2>2. CASE ~PutObject(r, j)
    BY <2>2 DEF Spawn, Work, SkipImage, GetManifest, FetchRecord, HeadObject,
       Fail
  <2> QED
    BY <2>1, <2>2
<1> QED
  BY <1>1 DEF Has

\* Key n copied, the goroutine is where Progress allows.
LEMMA ProgressCopied ==
  ASSUME NEW i \in Handled, NEW n \in 1..KeyCount(i), NEW S,
         \A m \in 1..KeyCount(i) : m < n => Key(i, m) \in S,
         Key(i, n) \in S
  PROVE  LET step == Copied(i, n) IN
         /\ step.at \in {"manifest", "head", "put"} =>
              \A m \in 1..KeyCount(i) : m < step.n => Key(i, m) \in S
         /\ step.at = "done" => \A m \in 1..KeyCount(i) : Key(i, m) \in S
<1>1. Len(LayersOf[i]) \in Nat /\ i \in Images
  BY GeranosAssumption DEF Handled
<1>2. CASE n = KeyCount(i)
  <2>1. Copied(i, n) = At("done", 0)
    BY <1>2 DEF Copied
  <2>2. \A m \in 1..KeyCount(i) : m < n \/ m = n
    BY <1>1, <1>2 DEF KeyCount
  <2> QED
    BY <2>1, <2>2 DEF At
<1>3. CASE n # KeyCount(i)
  <2>1. Copied(i, n).n = n + 1 /\ Copied(i, n).at # "done"
    BY <1>3 DEF Copied, At
  <2>2. \A m \in 1..KeyCount(i) : m < n + 1 => m < n \/ m = n
    BY <1>1 DEF KeyCount
  <2> QED
    BY <2>1, <2>2
<1> QED
  BY <1>2, <1>3

\* A goroutine that moves to a step right for what it has seen disturbs no
\* other's progress.
LEMMA ProgressGoto ==
  ASSUME TypeOK, Progress, stored \subseteq stored',
         \A q \in Runs : Has(q) \subseteq Has(q)',
         NEW r \in Runs, NEW j \in Jobs, NEW step, Goto(r, j, step),
         step.at \in {"manifest", "head", "put"} =>
           \A m \in 1..KeyCount(j[2]) :
              m < step.n => Key(j[2], m) \in Has(r)',
         step.at = "done" /\ j[2] \in Handled =>
           \/ Bucket!RecordKey(j[2]) \in stored'
           \/ \A m \in 1..KeyCount(j[2]) : Key(j[2], m) \in Has(r)'
  PROVE  Progress'
<1> SUFFICES ASSUME NEW q \in Runs, NEW k \in Jobs
             PROVE  /\ job'[q][k].at \in {"manifest", "head", "put"} =>
                         \A m \in 1..KeyCount(k[2]) :
                            m < job'[q][k].n => Key(k[2], m) \in Has(q)'
                    /\ job'[q][k].at = "done" /\ k[2] \in Handled =>
                         \/ Bucket!RecordKey(k[2]) \in stored'
                         \/ \A m \in 1..KeyCount(k[2]) :
                              Key(k[2], m) \in Has(q)'
  BY DEF Progress, KeyCount, Key, Handled
<1>1. CASE q = r /\ k = j
  BY <1>1 DEF TypeOK, Goto
<1>2. CASE ~(q = r /\ k = j)
  <2>1. job'[q][k] = job[q][k]
    BY <1>2 DEF TypeOK, Goto
  <2> QED
    BY <2>1 DEF Progress
<1> QED
  BY <1>1, <1>2

LEMMA ProgressNext == TypeOK /\ Progress /\ [Next]_vars => Progress'
<1> SUFFICES ASSUME TypeOK, Progress, [Next]_vars PROVE Progress'
  OBVIOUS
<1>0. stored \subseteq stored'
  BY StoredGrows
<1>1. ASSUME NEW r \in Runs, Start(r) \/ Crash(r) PROVE Progress'
  <2>1. ASSUME NEW q \in Runs, NEW k \in Jobs
        PROVE  \/ job'[q][k] = job[q][k] /\ named'[q] = named[q]
               \/ job'[q][k] = Waiting
    <3>1. /\ job' = [job EXCEPT ![r] = [i \in Jobs |-> Waiting]]
          /\ named' = [named EXCEPT ![r] = {}]
      BY <1>1 DEF Start, Crash
    <3> QED
      BY <3>1 DEF TypeOK
  <2>2. stored' = stored
    BY <1>1 DEF Start, Crash
  <2>3. Waiting.at \notin {"manifest", "head", "put", "done"}
    BY DEF Waiting, At
  <2>4. \A q \in Runs : named'[q] = named[q] => Has(q)' = Has(q)
    BY <2>2 DEF Has
  <2> QED
    BY <2>1, <2>2, <2>3, <2>4 DEF Progress
<1>2. ASSUME NEW r \in Runs, NEW j \in Jobs, Spawn(r, j) PROVE Progress'
  BY <1>0, <1>2, HasGrows, ProgressGoto DEF Spawn, At
<1>3. CASE UNCHANGED <<job, stored, named>>
  BY <1>3 DEF Progress, Has
<1>4. ASSUME NEW r \in Runs, NEW j \in Jobs, Work(r, j) PROVE Progress'
  <2>1. Len(LayersOf[j[2]]) \in Nat /\ j[2] \in Images
    BY JobImage, GeranosAssumption
  <2>0. \A q \in Runs : Has(q) \subseteq Has(q)'
    BY <1>0, <1>4, HasGrows
  <2>2. CASE SkipImage(r, j)
    BY <1>0, <2>0, <2>2, ProgressGoto DEF SkipImage, At
  <2>3. CASE GetManifest(r, j)
    <3>1. CASE j[2] \in Unhandled
      BY <1>0, <2>0, <2>3, <3>1, ProgressGoto DEF GetManifest, At, Handled
    <3>2. CASE j[2] \notin Unhandled
      <4>1. \A m \in 1..KeyCount(j[2]) : ~(m < 1)
        BY <2>1 DEF KeyCount
      <4> QED
        BY <1>0, <2>0, <2>3, <3>2, <4>1, ProgressGoto DEF GetManifest, At
    <3> QED
      BY <3>1, <3>2
  <2>4. CASE FetchRecord(r, j)
    <3>1. \A m \in 1..KeyCount(j[2]) :
            m < job[r][j].n => Key(j[2], m) \in Has(r)'
      BY <2>0, <2>4 DEF Progress, FetchRecord
    <3> QED
      BY <1>0, <2>0, <2>4, <3>1, ProgressGoto DEF FetchRecord, At
  <2>5. CASE HeadObject(r, j)
    <3>1. job[r][j].n \in 1..KeyCount(j[2]) /\ j[2] \in Handled
      BY <2>5 DEF TypeOK, HeadObject
    <3>2. \A m \in 1..KeyCount(j[2]) :
            m < job[r][j].n => Key(j[2], m) \in Has(r)'
      BY <2>0, <2>5 DEF Progress, HeadObject
    <3>3. CASE /\ Key(j[2], job[r][j].n) \in stored
               /\ Goto(r, j, Copied(j[2], job[r][j].n))
      <4>1. Key(j[2], job[r][j].n) \in Has(r)'
        BY <1>0, <3>3 DEF Has
      <4> QED
        BY <1>0, <2>0, <3>1, <3>2, <3>3, <4>1, ProgressCopied, ProgressGoto
    <3>4. CASE Goto(r, j, At("put", job[r][j].n))
      BY <1>0, <2>0, <3>2, <3>4, ProgressGoto DEF At
    <3> QED
      BY <2>5, <3>3, <3>4 DEF HeadObject
  <2>6. CASE PutObject(r, j)
    <3>1. job[r][j].n \in 1..KeyCount(j[2]) /\ j[2] \in Handled
      BY <2>6 DEF TypeOK, PutObject
    <3>2. \A m \in 1..KeyCount(j[2]) :
            m < job[r][j].n => Key(j[2], m) \in Has(r)'
      BY <2>0, <2>6 DEF Progress, PutObject
    <3>3. Key(j[2], job[r][j].n) \in Has(r)'
      BY <2>6 DEF TypeOK, Has, PutObject, Upload
    <3>4. Goto(r, j, Copied(j[2], job[r][j].n))
      BY <2>6 DEF PutObject
    <3> QED
      BY <1>0, <2>0, <3>1, <3>2, <3>3, <3>4, ProgressCopied, ProgressGoto
  <2>7. CASE Fail(r, j)
    BY <1>0, <2>0, <2>7, ProgressGoto DEF Fail, At
  <2> QED
    BY <1>4, <2>2, <2>3, <2>4, <2>5, <2>6, <2>7 DEF Work
<1> QED
  BY <1>1, <1>2, <1>3, <1>4
  DEF Next, Walk, vars, List, ListFails, RefFails, WalkEnds, Finish

\* What a goroutine uploads is a layer of its image, or its record when all
\* the layers are there: a step of MirrorSpec.
LEMMA UploadIsMirrorStep ==
  ASSUME TypeOK, Progress, NEW r \in Runs \ DryRuns, NEW j \in Jobs,
         job[r][j].at = "put", Upload(Key(j[2], job[r][j].n))
  PROVE  Bucket!Next
<1>1. job[r][j].n \in 1..KeyCount(j[2]) /\ j[2] \in Images
  BY JobImage DEF TypeOK
<1>2. CASE job[r][j].n = KeyCount(j[2])
  <2>1. Bucket!LayerKeys(j[2]) \subseteq stored
    BY <1>1, <1>2, LayersBeforeRecord DEF Progress, Has
  <2> QED
    BY <1>1, <1>2, <2>1, KeyOfImage DEF Upload, Bucket!Next, Bucket!AddRecord
<1>3. CASE job[r][j].n # KeyCount(j[2])
  BY <1>1, <1>3, KeyOfImage DEF Upload, Bucket!Next, Bucket!AddLayer
<1> QED
  BY <1>2, <1>3

LEMMA MirrorStep ==
  TypeOK /\ Progress /\ [Next]_vars => [Bucket!Next]_stored
<1> SUFFICES ASSUME TypeOK, Progress, Next, stored' # stored PROVE Bucket!Next
  BY DEF vars
<1>1. PICK r \in Runs, j \in Jobs : PutObject(r, j) \/ Fail(r, j)
  BY DEF Next, Start, Walk, List, ListFails, RefFails, Spawn, WalkEnds,
         Finish, Crash, Work, SkipImage, GetManifest, FetchRecord, HeadObject
<1>2. /\ r \notin DryRuns /\ job[r][j].at = "put"
      /\ Upload(Key(j[2], job[r][j].n))
  BY <1>1 DEF PutObject, Fail
<1> QED
  BY <1>2, UploadIsMirrorStep

LEMMA ProgressAlways == Spec => []Progress
<1>1. Init => Progress
  BY DEF Init, Progress, Waiting, At
<1> QED
  BY <1>1, ProgressNext, TypeCorrect, PTL DEF Spec

\* Any number of runs, overlapping, failing and killed at any point, do
\* nothing to the bucket but add layers, and records of images whose layers
\* are there.
THEOREM GeranosKeepsPromise == Spec => KeepsPromise
<1>1. Init => Bucket!Init
  BY DEF Init
<1> QED
  BY <1>1, MirrorStep, TypeCorrect, ProgressAlways, PTL
  DEF Spec, KeepsPromise, Bucket!Spec

\* So an image that later runs skip is whole, and a client sent to its
\* layers finds them.
THEOREM RecordsAreComplete == Spec => []RecordComplete
<1>1. Bucket!Init => RecordComplete
  BY DEF Bucket!Init, RecordComplete
<1>2. RecordComplete /\ [Bucket!Next]_stored => RecordComplete'
  <2> SUFFICES ASSUME RecordComplete, [Bucket!Next]_stored,
                      NEW i \in Images, Bucket!RecordKey(i) \in stored'
               PROVE  Bucket!LayerKeys(i) \subseteq stored'
    BY DEF RecordComplete, Bucket!Complete, Bucket!RecordKey,
           Bucket!LayerKeys, Bucket!LayerKey
  <2>1. stored \subseteq stored'
    BY DEF Bucket!Next, Bucket!AddLayer, Bucket!AddRecord
  <2>2. CASE Bucket!RecordKey(i) \in stored
    BY <2>1, <2>2 DEF RecordComplete, Bucket!Complete
  <2>3. ASSUME NEW k \in Images, Bucket!AddLayer(k)
        PROVE  Bucket!RecordKey(i) \in stored
    BY <2>3, RecordIsNoLayer DEF Bucket!AddLayer, Bucket!LayerKeys
  <2>4. ASSUME NEW k \in Images, Bucket!AddRecord(k), k # i
        PROVE  Bucket!RecordKey(i) \in stored
    BY <2>4 DEF Bucket!AddRecord, Bucket!RecordKey
  <2>5. CASE Bucket!AddRecord(i)
    BY <2>1, <2>5 DEF Bucket!AddRecord
  <2> QED
    BY <2>2, <2>3, <2>4, <2>5 DEF Bucket!Next
<1> QED
  BY <1>1, <1>2, GeranosKeepsPromise, PTL DEF KeepsPromise, Bucket!Spec

-----------------------------------------------------------------------------
(* What a run that is over has done.                                       *)

\* NoneAbandoned and DoneMeansMirrored speak of the end of a run; this is
\* what holds on the way there.  A goroutine not started yet is one the
\* walker still has before it, an error is never forgotten, and the walker
\* gives up repositories and images only with an error.
Accounted(r) ==
  /\ result[r] # "none" => walker[r] = "off" /\ Active(r) = {}
  /\ result[r] = "ok" => ~failed[r]
  /\ ~failed[r] => \A j \in Jobs : job[r][j].at # "failed"
  /\ (walker[r] = "ended" \/ result[r] # "none") /\ ~failed[r] =>
       left[r] = {} /\ todo[r] = {}
  /\ walker[r] # "off" \/ result[r] # "none" =>
       \A j \in Jobs :
         job[r][j].at = "waiting" => j[1] \in left[r] \/ j \in todo[r]

Accounts == \A r \in Runs : Accounted(r)

LEMMA AccountsNext == TypeOK /\ Accounts /\ [Next]_vars => Accounts'
<1> SUFFICES ASSUME TypeOK, Accounts, [Next]_vars, NEW q \in Runs
             PROVE  Accounted(q)'
  BY DEF Accounts
<1>0. Accounted(q)
  BY DEF Accounts
<1>1. CASE UNCHANGED <<walker[q], left[q], todo[q], job[q], failed[q], result[q]>>
  BY <1>0, <1>1 DEF Accounted, Active
<1>2. ASSUME NEW r \in Runs, r # q,
             \/ Start(r) \/ Walk(r) \/ RefFails(r) \/ Crash(r)
             \/ \E j \in Jobs : Work(r, j)
      PROVE  Accounted(q)'
  <2>1. UNCHANGED <<walker[q], left[q], todo[q], job[q], failed[q], result[q]>>
    BY <1>2 DEF TypeOK, Start, Walk, List, ListFails, RefFails, Spawn, WalkEnds,
       Finish, Crash, Work, SkipImage, GetManifest, FetchRecord, HeadObject,
       PutObject, Fail, Goto
  <2> QED
    BY <1>1, <2>1
<1>3. CASE Start(q)
  <2>1. \A j \in Jobs : j[1] \in Repos
    BY DEF Jobs
  <2> QED
    BY <1>3, <2>1 DEF TypeOK, Accounted, Start, Waiting, At
<1>4. ASSUME NEW p \in Repos, List(q, p) PROVE Accounted(q)'
  <2>1. \A j \in Jobs : j[1] = p => j \in {p} \X ManifestsOf[p]
    BY DEF Jobs
  <2> QED
    BY <1>0, <1>4, <2>1 DEF TypeOK, Accounted, Active, List
<1>5. CASE ListFails(q)
  BY <1>0, <1>5 DEF TypeOK, Accounted, Active, ListFails
<1>12. CASE RefFails(q)
  BY <1>0, <1>12 DEF TypeOK, Accounted, Active, RefFails
<1>6. ASSUME NEW j \in Jobs, Spawn(q, j) PROVE Accounted(q)'
  <2>1. /\ job'[q][j].at = "skip?"
        /\ \A k \in Jobs : k # j => job'[q][k] = job[q][k]
    BY <1>6 DEF TypeOK, Spawn, Goto, At
  <2> QED
    BY <1>0, <1>6, <2>1 DEF TypeOK, Accounted, Spawn
<1>7. CASE WalkEnds(q)
  BY <1>0, <1>7 DEF TypeOK, Accounted, Active, WalkEnds
<1>8. CASE Finish(q)
  BY <1>0, <1>8 DEF TypeOK, Accounted, Active, Finish
<1>9. CASE Crash(q)
  BY <1>9 DEF TypeOK, Accounted, Crash, Waiting, At
<1>10. ASSUME NEW j \in Jobs, Work(q, j) PROVE Accounted(q)'
  <2>1. /\ UNCHANGED <<walker, left, todo, result>>
        /\ job[q][j].at \in Busy
        /\ \E step : /\ Goto(q, j, step) /\ step.at # "waiting"
                     /\ step.at = "failed" => failed'[q]
    <3>1. CASE SkipImage(q, j)
      BY <3>1 DEF SkipImage, Busy, At
    <3>2. CASE GetManifest(q, j)
      BY <3>2 DEF GetManifest, Busy, At
    <3>3. CASE FetchRecord(q, j)
      BY <3>3 DEF FetchRecord, Busy, At
    <3>4. CASE HeadObject(q, j)
      BY <3>4 DEF HeadObject, Busy, At, Copied
    <3>5. CASE PutObject(q, j)
      BY <3>5 DEF PutObject, Busy, At, Copied
    <3>6. CASE Fail(q, j)
      BY <3>6 DEF TypeOK, Fail, Busy, At
    <3> QED
      BY <1>10, <3>1, <3>2, <3>3, <3>4, <3>5, <3>6 DEF Work
  <2>2. failed[q] => failed'[q]
    BY <1>10 DEF TypeOK, Work, SkipImage, GetManifest, FetchRecord, HeadObject,
       PutObject, Fail
  <2>3. result[q] = "none"
    BY <1>0, <2>1 DEF Accounted, Active
  <2>4. /\ job'[q][j].at # "waiting" /\ (job'[q][j].at = "failed" => failed'[q])
        /\ \A k \in Jobs : k # j => job'[q][k] = job[q][k]
    <3>1. PICK step : /\ Goto(q, j, step) /\ step.at # "waiting"
                      /\ step.at = "failed" => failed'[q]
      BY <2>1
    <3>2. /\ job'[q][j] = step
          /\ \A k \in Jobs : k # j => job'[q][k] = job[q][k]
      BY <3>1 DEF TypeOK, Goto
    <3> QED
      BY <3>1, <3>2
  <2> QED
    BY <1>0, <2>1, <2>2, <2>3, <2>4 DEF Accounted
<1>11. CASE UNCHANGED vars
  BY <1>1, <1>11 DEF vars
<1> QED
  BY <1>2, <1>3, <1>4, <1>5, <1>6, <1>7, <1>8, <1>9, <1>10, <1>11,
     <1>12
  DEF Next, Walk

LEMMA AccountsAlways == Spec => []Accounts
<1>1. Init => Accounts
  BY DEF Init, Accounts, Accounted, Waiting, At
<1> QED
  BY <1>1, AccountsNext, TypeCorrect, PTL DEF Spec

\* When a run is over it is done, for better or worse, with every image the
\* walker has come to.
THEOREM NoneIsAbandoned == Spec => []NoneAbandoned
<1>1. TypeOK /\ Accounts => NoneAbandoned
  <2> SUFFICES ASSUME TypeOK, NEW r \in Runs, Accounted(r), walker[r] = "off",
                      result[r] # "none", NEW j \in Jobs, j[1] \notin left[r],
                      j \notin todo[r]
               PROVE  job[r][j].at \in {"done", "failed"}
    BY DEF Accounts, NoneAbandoned
  <2>1. job[r][j].at \in Steps
    BY DEF TypeOK
  <2> QED
    BY <2>1 DEF Accounted, Active, Steps, Busy
<1> QED
  BY <1>1, TypeCorrect, AccountsAlways, PTL

\* A run that ends with no error is done with every image, so it has each of
\* its keys: with the record in the bucket, all are there.
LEMMA EndedHasAll ==
  ASSUME TypeOK, Accounts, NoneAbandoned, Progress, RecordComplete,
         NEW r \in Runs, result[r] = "ok", NEW j \in Jobs, j[2] \in Handled,
         NEW n \in 1..KeyCount(j[2])
  PROVE  Key(j[2], n) \in Has(r)
<1>1. /\ walker[r] = "off" /\ left[r] = {} /\ todo[r] = {}
      /\ job[r][j].at # "failed"
  BY DEF Accounts, Accounted
<1>2. job[r][j].at = "done"
  <2>1. j[1] \notin left[r] /\ j \notin todo[r] /\ result[r] # "none"
    BY <1>1
  <2> QED
    BY <1>1, <2>1 DEF NoneAbandoned
<1>3. CASE Bucket!RecordKey(j[2]) \in stored
  <2>1. Bucket!LayerKeys(j[2]) \subseteq stored
    BY <1>3, JobImage DEF RecordComplete, Bucket!Complete
  <2>2. Key(j[2], n) \in stored
    BY <1>3, <2>1, JobImage, KeyOfImage
  <2> QED
    BY <2>2 DEF Has
<1> QED
  BY <1>2, <1>3 DEF Progress

\* "Done!" is true: all layers and the record of every image are in the
\* bucket.
THEOREM DoneIsMirrored == Spec => []DoneMeansMirrored
<1>1. TypeOK /\ Accounts /\ NoneAbandoned /\ Progress /\ RecordComplete
        => DoneMeansMirrored
  BY EndedHasAll DEF DoneMeansMirrored, Has
<1> QED
  BY <1>1, TypeCorrect, AccountsAlways, NoneIsAbandoned, ProgressAlways,
     RecordsAreComplete, PTL

\* What a dry run has not named, when it ends with no error, is there.
THEOREM DryRunsForesee == Spec => []DryRunForesees
<1>1. TypeOK /\ Accounts /\ NoneAbandoned /\ Progress /\ RecordComplete
        => DryRunForesees
  <2> SUFFICES ASSUME TypeOK, Accounts, NoneAbandoned, Progress,
                      RecordComplete, NEW r \in DryRuns, result[r] = "ok",
                      NEW j \in Jobs, j[2] \in Handled,
                      NEW n \in 1..KeyCount(j[2])
               PROVE  Key(j[2], n) \in stored \cup named[r]
    BY DEF DryRunForesees
  <2>1. r \in Runs
    BY GeranosAssumption
  <2>2. Key(j[2], n) \in Has(r)
    BY <2>1, EndedHasAll
  <2> QED
    BY <2>2 DEF Has
<1> QED
  BY <1>1, TypeCorrect, AccountsAlways, NoneIsAbandoned, ProgressAlways,
     RecordsAreComplete, PTL

-----------------------------------------------------------------------------
(* Why a run comes to its end.                                             *)

\* A goroutine's next step, wherever it is, leaves it fewer calls to make.
LEMMA CopiedForward ==
  ASSUME NEW j \in Jobs, NEW n \in 1..KeyCount(j[2])
  PROVE  CallsLeft(j, Copied(j[2], n)) < 3 * (KeyCount(j[2]) - n) + 1
<1>1. KeyCount(j[2]) \in Nat
  BY JobImage, GeranosAssumption DEF KeyCount
<1>2. CASE n = KeyCount(j[2])
  BY <1>1, <1>2 DEF Copied, CallsLeft, At
<1>3. CASE n # KeyCount(j[2]) /\ n + 1 = KeyCount(j[2])
  BY <1>1, <1>3 DEF Copied, CallsLeft, At
<1>4. CASE n # KeyCount(j[2]) /\ n + 1 # KeyCount(j[2])
  BY <1>1, <1>4 DEF Copied, CallsLeft, At
<1> QED
  BY <1>2, <1>3, <1>4

LEMMA WorkForward ==
  ASSUME TypeOK, NEW r \in Runs, NEW j \in Jobs, Work(r, j)
  PROVE  /\ job[r][j].at \in Busy
         /\ UNCHANGED <<walker, left, todo>>
         /\ \E step : /\ Goto(r, j, step)
                      /\ CallsLeft(j, step) < CallsLeft(j, job[r][j])
<1>1. KeyCount(j[2]) \in Nat /\ KeyCount(j[2]) >= 1
  BY JobImage, GeranosAssumption DEF KeyCount
<1>2. CASE SkipImage(r, j)
  BY <1>1, <1>2 DEF SkipImage, Busy, At, CallsLeft
<1>3. CASE GetManifest(r, j)
  BY <1>1, <1>3 DEF GetManifest, Busy, At, CallsLeft
<1>4. CASE FetchRecord(r, j)
  BY <1>1, <1>4 DEF TypeOK, FetchRecord, Busy, At, CallsLeft
<1>5. CASE HeadObject(r, j)
  <2>1. /\ job[r][j].at = "head" /\ job[r][j].n \in 1..KeyCount(j[2])
        /\ UNCHANGED <<walker, left, todo>>
    BY <1>5 DEF TypeOK, HeadObject
  <2>2. CallsLeft(j, job[r][j]) = 3 * (KeyCount(j[2]) - job[r][j].n) + 2
    BY <2>1 DEF CallsLeft
  <2>3. CASE Goto(r, j, Copied(j[2], job[r][j].n))
    <3>1. CallsLeft(j, Copied(j[2], job[r][j].n))
            < 3 * (KeyCount(j[2]) - job[r][j].n) + 1
      BY <2>1, CopiedForward
    <3>2. CallsLeft(j, Copied(j[2], job[r][j].n)) \in Int
      BY <1>1, <2>1 DEF CallsLeft, Copied, At
    <3> QED
      BY <1>1, <2>1, <2>2, <2>3, <3>1, <3>2 DEF Busy
  <2>4. CASE Goto(r, j, At("put", job[r][j].n))
    BY <1>1, <2>1, <2>2, <2>4 DEF Busy, CallsLeft, At
  <2> QED
    BY <1>5, <2>3, <2>4 DEF HeadObject
<1>6. CASE PutObject(r, j)
  <2>1. /\ job[r][j].at = "put" /\ job[r][j].n \in 1..KeyCount(j[2])
        /\ UNCHANGED <<walker, left, todo>>
        /\ Goto(r, j, Copied(j[2], job[r][j].n))
    BY <1>6 DEF TypeOK, PutObject
  <2>2. CallsLeft(j, job[r][j]) = 3 * (KeyCount(j[2]) - job[r][j].n) + 1
    BY <2>1 DEF CallsLeft
  <2> QED
    BY <2>1, <2>2, CopiedForward DEF Busy
<1>7. CASE Fail(r, j)
  <2>1. /\ job[r][j].at \in {"get", "manifest", "put"}
        /\ job[r][j].at \in {"manifest", "put"} =>
             job[r][j].n \in 1..KeyCount(j[2])
        /\ UNCHANGED <<walker, left, todo>> /\ Goto(r, j, At("failed", 0))
    BY <1>1, <1>7 DEF TypeOK, Fail
  <2>2. CallsLeft(j, At("failed", 0)) = 0
    BY DEF CallsLeft, At
  <2>3. CallsLeft(j, job[r][j]) > 0
    BY <1>1, <2>1 DEF CallsLeft
  <2> QED
    BY <2>1, <2>2, <2>3 DEF Busy
<1> QED
  BY <1>2, <1>3, <1>4, <1>5, <1>6, <1>7 DEF Work

\* The images the walker has before it have not been started, nor are those
\* it is at to be listed again.
Ahead(r) ==
  \A j \in Jobs :
    /\ j[1] \in left[r] \/ j \in todo[r] => job[r][j].at = "waiting"
    /\ j \in todo[r] => j[1] \notin left[r]

AllAhead == \A r \in Runs : Ahead(r)

LEMMA AheadNext == TypeOK /\ AllAhead /\ [Next]_vars => AllAhead'
<1> SUFFICES ASSUME TypeOK, AllAhead, [Next]_vars, NEW q \in Runs PROVE Ahead(q)'
  BY DEF AllAhead
<1>0. Ahead(q)
  BY DEF AllAhead
<1>1. CASE UNCHANGED <<left[q], todo[q], job[q]>>
  BY <1>0, <1>1 DEF Ahead
<1>2. ASSUME NEW r \in Runs, Start(r) \/ Crash(r) PROVE Ahead(q)'
  <2>1. CASE r = q
    BY <1>2, <2>1 DEF TypeOK, Start, Crash, Ahead, Waiting, At
  <2>2. CASE r # q
    BY <1>1, <1>2, <2>2 DEF TypeOK, Start, Crash
  <2> QED
    BY <2>1, <2>2
<1>3. ASSUME NEW r \in Runs, NEW p \in Repos, List(r, p) PROVE Ahead(q)'
  <2>1. CASE r = q
    <3>1. \A j \in {p} \X ManifestsOf[p] : j[1] = p
      OBVIOUS
    <3>2. /\ left'[q] = left[q] \ {p} /\ todo'[q] = {p} \X ManifestsOf[p]
          /\ p \in left[q] /\ job' = job
      BY <1>3, <2>1 DEF TypeOK, List
    <3> QED
      BY <1>0, <3>1, <3>2 DEF Ahead
  <2>2. CASE r # q
    BY <1>1, <1>3, <2>2 DEF TypeOK, List
  <2> QED
    BY <2>1, <2>2
<1>4. ASSUME NEW r \in Runs, NEW j \in Jobs, Spawn(r, j) PROVE Ahead(q)'
  <2>1. CASE r = q
    <3>1. /\ left'[q] = left[q] /\ todo'[q] = todo[q] \ {j} /\ j \in todo[q]
          /\ \A k \in Jobs : k # j => job'[q][k] = job[q][k]
      BY <1>4, <2>1 DEF TypeOK, Spawn, Goto
    <3> QED
      BY <1>0, <3>1 DEF Ahead
  <2>2. CASE r # q
    BY <1>1, <1>4, <2>2 DEF TypeOK, Spawn, Goto
  <2> QED
    BY <2>1, <2>2
<1>5. ASSUME NEW r \in Runs, NEW j \in Jobs, Work(r, j) PROVE Ahead(q)'
  <2>1. job[r][j].at \in Busy /\ UNCHANGED <<left, todo>>
        /\ \E step : Goto(r, j, step)
    BY <1>5, WorkForward
  <2>2. \A k \in Jobs : ~(r = q /\ k = j) => job'[q][k] = job[q][k]
    BY <2>1 DEF TypeOK, Goto
  <2>3. r = q => job[q][j].at # "waiting"
    BY <2>1 DEF Busy
  <2> QED
    BY <1>0, <2>1, <2>2, <2>3 DEF Ahead
<1> QED
  BY <1>1, <1>2, <1>3, <1>4, <1>5
  DEF Next, Walk, vars, ListFails, RefFails, WalkEnds, Finish

LEMMA AheadAlways == Spec => []AllAhead
<1>1. Init => AllAhead
  BY DEF Init, AllAhead, Ahead, Waiting, At
<1> QED
  BY <1>1, AheadNext, TypeCorrect, PTL DEF Spec

\* As long as a run is not over or killed, each of its steps takes a
\* repository or an image from those the walker has before it, or a call
\* from those a goroutine has left.
THEOREM RunsGoForward == Spec => GoesForward
<1> DEFINE Forward(r) ==
             /\ left'[r] \subseteq left[r]
             /\ left'[r] = left[r] => todo'[r] \subseteq todo[r]
             /\ \A j \in Jobs : job'[r][j] # job[r][j] =>
                  CallsLeft(j, job'[r][j]) < CallsLeft(j, job[r][j])
           On(r) == walker[r] # "off" /\ walker'[r] # "off"
<1>1. TypeOK /\ AllAhead /\ Next => \A r \in Runs : On(r) => Forward(r)
  <2> SUFFICES ASSUME TypeOK, AllAhead, Next, NEW q \in Runs, On(q)
               PROVE  Forward(q)
    OBVIOUS
  <2>1. CASE UNCHANGED <<left[q], todo[q], job[q]>>
    BY <2>1
  <2>2. ASSUME NEW r \in Runs, Start(r) \/ Crash(r) PROVE Forward(q)
    <3>1. r # q
      BY <2>2 DEF TypeOK, Start, Crash
    <3> QED
      BY <2>1, <2>2, <3>1 DEF TypeOK, Start, Crash
  <2>3. ASSUME NEW r \in Runs, NEW p \in Repos, List(r, p) PROVE Forward(q)
    BY <2>3 DEF TypeOK, List
  <2>4. ASSUME NEW r \in Runs, NEW j \in Jobs, Spawn(r, j) PROVE Forward(q)
    <3>1. CASE r # q
      BY <2>1, <2>4, <3>1 DEF TypeOK, Spawn, Goto
    <3>2. CASE r = q
      <4>1. /\ left' = left /\ todo'[q] \subseteq todo[q]
            /\ job'[q][j] = At("skip?", 0)
            /\ \A k \in Jobs : k # j => job'[q][k] = job[q][k]
        BY <2>4, <3>2 DEF TypeOK, Spawn, Goto
      <4>2. job[q][j].at = "waiting"
        BY <2>4, <3>2 DEF AllAhead, Ahead, Spawn
      <4>3. KeyCount(j[2]) \in Nat
        BY JobImage, GeranosAssumption DEF KeyCount
      <4>4. CallsLeft(j, At("skip?", 0)) < CallsLeft(j, job[q][j])
        BY <4>2, <4>3 DEF CallsLeft, At
      <4> QED
        BY <4>1, <4>4
    <3> QED
      BY <3>1, <3>2
  <2>5. ASSUME NEW r \in Runs, NEW j \in Jobs, Work(r, j) PROVE Forward(q)
    <3>1. PICK step : /\ Goto(r, j, step)
                      /\ CallsLeft(j, step) < CallsLeft(j, job[r][j])
      BY <2>5, WorkForward
    <3>2. UNCHANGED <<left, todo>>
      BY <2>5, WorkForward
    <3>3. /\ job'[r][j] = step
          /\ \A k \in Jobs : ~(r = q /\ k = j) => job'[q][k] = job[q][k]
      BY <3>1 DEF TypeOK, Goto
    <3> QED
      BY <3>1, <3>2, <3>3
  <2> QED
    BY <2>1, <2>2, <2>3, <2>4, <2>5
    DEF Next, Walk, ListFails, RefFails, WalkEnds, Finish
<1>2. TypeOK /\ AllAhead /\ [Next]_vars =>
        [\A r \in Runs : On(r) => Forward(r)]_vars
  BY <1>1
<1> QED
  BY <1>2, TypeCorrect, AheadAlways, PTL DEF Spec, GoesForward
=============================================================================
