--------------------------- MODULE ArcheioProofs ---------------------------
(***************************************************************************)
(* Proofs about Archeio and ArcheioHistory, for every set of handlers and  *)
(* requests, every configuration and every content of the buckets, and     *)
(* about Pull: that archeio with its buckets filled by geranos and by      *)
(* replication is Archeio, and what clients have of it.                    *)
(***************************************************************************)
EXTENDS ArcheioHistory, Pull, TLAPS

-----------------------------------------------------------------------------
(* Lemmas about the routing.                                               *)

\* The handlers never send a client to a bucket on their own account: every
\* redirect to S3 comes from BlobExists.
LEMMA RoutedElsewhere == ASSUME NEW q PROVE Reply(RC, q).site # "s3"
  BY DEF Reply, V2Reply, Plain, Redirect, Upstream, Signature

LEMMA S3Site == ASSUME NEW o PROVE S3Redirect(o).site = "s3"
  BY DEF S3Redirect, Redirect

\* A redirect names one object.
LEMMA S3RedirectInjective ==
  ASSUME NEW o, NEW p, S3Redirect(o) = S3Redirect(p) PROVE o = p
  BY DEF S3Redirect, Redirect

LEMMA BlobURLIsObject ==
  ASSUME NEW q \in BlobRequests PROVE BlobURL(RC, q) \in Objects
  BY DEF Objects

LEMMA BlobRequestIsRequest == BlobRequests \subseteq Requests
  BY DEF BlobRequests

-----------------------------------------------------------------------------
(* The type invariant.                                                     *)

LEMMA TypeOKInit == Init => TypeOK
  BY ArcheioAssumption DEF Init, TypeOK

\* A step of Send leaves a state of the right type when the reply is one of
\* the two a handler may give.
LEMMA TypeOKSend ==
  ASSUME TypeOK, NEW h \in Handlers, NEW response,
         pc[h] \in {"lookup", "asking"},
         Send(h, response), request' = request,
         cache' \subseteq Objects,
         \/ response = Reply(RC, request[h])
         \/ response = S3Redirect(URL(h))
  PROVE  TypeOK'
<1>1. /\ pc' \in [Handlers -> {"idle", "lookup", "asking", "replied"}]
      /\ head' \in [Handlers -> Statuses \cup {NoRequest}]
      /\ DOMAIN reply' = Handlers
      /\ objects' \subseteq Objects
      /\ request' \in [Handlers -> Requests \cup {NoRequest}]
  BY DEF TypeOK, Send
<1>2. ASSUME NEW i \in Handlers, i # h
      PROVE  /\ pc'[i] = pc[i] /\ request'[i] = request[i]
             /\ head'[i] = head[i] /\ reply'[i] = reply[i] /\ URL(i)' = URL(i)
  BY <1>2 DEF TypeOK, Send, URL
<1>3. /\ pc'[h] = "replied" /\ request'[h] = request[h] /\ URL(h)' = URL(h)
      /\ head'[h] = NoRequest /\ reply'[h] = response
      /\ request[h] \in BlobRequests /\ request[h] # NoRequest
  BY ArcheioAssumption, BlobRequestIsRequest DEF TypeOK, Send, URL
<1> QED
  BY <1>1, <1>2, <1>3 DEF TypeOK

LEMMA TypeOKNext == TypeOK /\ [Next]_vars => TypeOK'
<1> SUFFICES ASSUME TypeOK, [Next]_vars PROVE TypeOK'
  OBVIOUS
<1>1. ASSUME NEW h \in Handlers, NEW q \in Requests, Receive(h, q)
      PROVE  TypeOK'
  <2>1. q # NoRequest
    BY ArcheioAssumption
  <2>2. CASE NeedsBlobCheck(q)
    <3>1. q \in BlobRequests
      BY <2>2 DEF BlobRequests
    <3> QED
      BY <1>1, <2>1, <2>2, <3>1 DEF TypeOK, Receive, URL
  <2>3. CASE ~NeedsBlobCheck(q)
    BY <1>1, <2>1, <2>3 DEF TypeOK, Receive, Send, URL
  <2> QED
    BY <2>2, <2>3
<1>2. ASSUME NEW h \in Handlers, CacheHit(h) PROVE TypeOK'
  BY <1>2, TypeOKSend DEF CacheHit, TypeOK
<1>3. ASSUME NEW h \in Handlers, CacheMiss(h) PROVE TypeOK'
  BY <1>3 DEF TypeOK, CacheMiss, URL
<1>4. ASSUME NEW h \in Handlers, HeadReturns(h) PROVE TypeOK'
  <2>1. URL(h) \in Objects
    BY <1>4, BlobURLIsObject DEF HeadReturns, TypeOK, URL
  <2>2. cache' \subseteq Objects
    BY <1>4, <2>1 DEF HeadReturns, TypeOK
  <2> QED
    BY <1>4, <2>2, TypeOKSend DEF HeadReturns
<1>5. ASSUME NEW h \in Handlers, HeadFails(h) PROVE TypeOK'
  BY <1>5, TypeOKSend DEF HeadFails, TypeOK
<1>6. ASSUME NEW h \in Handlers, End(h) PROVE TypeOK'
  BY <1>6 DEF TypeOK, End, URL
<1>7. ASSUME NEW h \in Handlers, NEW status \in Statuses,
             BucketAnswers(h, status)
      PROVE  TypeOK'
  BY <1>7 DEF TypeOK, BucketAnswers, URL
<1>8. ASSUME NEW o \in Objects, Upload(o) PROVE TypeOK'
  BY <1>8 DEF TypeOK, Upload, URL
<1>9. ASSUME NEW o \in Deletable, Delete(o) PROVE TypeOK'
  BY <1>9 DEF TypeOK, Delete, URL
<1>10. CASE Restart
  BY <1>10 DEF TypeOK, Restart
<1>11. CASE UNCHANGED vars
  BY <1>11 DEF TypeOK, vars, URL
<1> QED
  BY <1>1, <1>2, <1>3, <1>4, <1>5, <1>6, <1>7, <1>8, <1>9, <1>10, <1>11
  DEF Next, Run, Handle

\* Every handler is always in a state its function can be in, with a request
\* where it needs one and with no other reply than the two it may give.
THEOREM TypeCorrect == Spec => []TypeOK
  BY TypeOKInit, TypeOKNext, PTL DEF Spec

-----------------------------------------------------------------------------
(* Every redirect to a bucket is cached.                                   *)

\* Inductive with TypeOK alone: a handler sends a client to a bucket only
\* with the URL in the cache, and only Restart takes anything out of it,
\* every reply along with it.
LEMMA RedirectCachedNext ==
  TypeOK /\ TypeOK' /\ RedirectCached /\ [Next]_vars => RedirectCached'
<1> SUFFICES ASSUME TypeOK, TypeOK', RedirectCached, [Next]_vars,
                    NEW h \in Handlers, SentToBucket(h)'
             PROVE  (URL(h) \in cache)'
  BY DEF RedirectCached
<1> USE DEF SentToBucket
<1>1. CASE pc[h] = "replied" /\ pc'[h] = "replied" /\ UNCHANGED <<request[h], reply[h]>>
           /\ cache \subseteq cache'
  BY <1>1 DEF RedirectCached, URL
<1>2. ASSUME NEW i \in Handlers, NEW q \in Requests, Receive(i, q)
      PROVE  (URL(h) \in cache)'
  <2>1. CASE i = h
    BY <1>2, <2>1, RoutedElsewhere DEF Receive, Send, TypeOK
  <2>2. CASE i # h
    BY <1>1, <1>2, <2>2 DEF Receive, Send, TypeOK
  <2> QED
    BY <2>1, <2>2
<1>3. ASSUME NEW i \in Handlers, CacheHit(i) PROVE (URL(h) \in cache)'
  <2>1. CASE i = h
    BY <1>3, <2>1 DEF CacheHit, Send, TypeOK, URL
  <2>2. CASE i # h
    BY <1>1, <1>3, <2>2 DEF CacheHit, Send, TypeOK
  <2> QED
    BY <2>1, <2>2
<1>4. ASSUME NEW i \in Handlers, HeadReturns(i) PROVE (URL(h) \in cache)'
  <2>1. CASE i = h /\ head[i] = 200
    BY <1>4, <2>1 DEF HeadReturns, Send, TypeOK, URL
  <2>2. CASE i = h /\ head[i] # 200
    BY <1>4, <2>2, RoutedElsewhere DEF HeadReturns, Send, TypeOK
  <2>3. CASE i # h
    BY <1>1, <1>4, <2>3 DEF HeadReturns, Send, TypeOK
  <2> QED
    BY <2>1, <2>2, <2>3
<1>5. ASSUME NEW i \in Handlers, HeadFails(i) PROVE (URL(h) \in cache)'
  <2>1. CASE i = h
    BY <1>5, <2>1, RoutedElsewhere DEF HeadFails, Send, TypeOK
  <2>2. CASE i # h
    BY <1>1, <1>5, <2>2 DEF HeadFails, Send, TypeOK
  <2> QED
    BY <2>1, <2>2
<1>6. ASSUME NEW i \in Handlers, CacheMiss(i) \/ End(i)
      PROVE  (URL(h) \in cache)'
  BY <1>1, <1>6 DEF CacheMiss, End, TypeOK
<1>7. ASSUME NEW i \in Handlers, NEW status \in Statuses,
             BucketAnswers(i, status)
      PROVE  (URL(h) \in cache)'
  BY <1>1, <1>7 DEF BucketAnswers
<1>8. ASSUME NEW o, Upload(o) \/ Delete(o) PROVE (URL(h) \in cache)'
  BY <1>1, <1>8 DEF Upload, Delete
<1>9. CASE Restart
  BY <1>9 DEF Restart
<1>10. CASE UNCHANGED vars
  BY <1>1, <1>10 DEF vars
<1> QED
  BY <1>2, <1>3, <1>4, <1>5, <1>6, <1>7, <1>8, <1>9, <1>10
  DEF Next, Run, Handle

\* What a client was sent to is what the next request will find.
THEOREM RedirectsAreCached == Spec => []RedirectCached
<1>1. Init => RedirectCached
  BY DEF Init, RedirectCached, SentToBucket
<1> QED
  BY <1>1, RedirectCachedNext, TypeCorrect, PTL DEF Spec

-----------------------------------------------------------------------------
(* Redirects are backed by objects, but for those that may be removed.     *)

\* RedirectBacked says nothing of the answer of a bucket on its way to a
\* handler nor of a cache entry nobody has used yet, and the next redirect
\* comes from one of the two: both are needed to make it inductive.
AnswersTrue ==
  \A h \in Handlers : head[h] = 200 => URL(h) \in objects \cup Deletable

Evidence == cache \subseteq objects \cup Deletable /\ AnswersTrue

LEMMA EvidenceNext == TypeOK /\ Evidence /\ [Next]_vars => Evidence'
<1> SUFFICES ASSUME TypeOK, Evidence, [Next]_vars PROVE Evidence'
  OBVIOUS
<1> USE DEF Evidence, AnswersTrue
<1>1. ASSUME NEW h \in Handlers, NEW q \in Requests, Receive(h, q)
      PROVE  Evidence'
  <2>1. NoRequest # 200 /\ head[h] = NoRequest
    BY <1>1, ArcheioAssumption DEF Statuses, TypeOK, Receive
  <2> QED
    BY <1>1, <2>1 DEF TypeOK, Receive, Send, URL
<1>2. ASSUME NEW h \in Handlers, CacheHit(h) PROVE Evidence'
  BY <1>2, ArcheioAssumption DEF TypeOK, Statuses, CacheHit, Send, URL
<1>3. ASSUME NEW h \in Handlers, CacheMiss(h) PROVE Evidence'
  BY <1>3 DEF TypeOK, CacheMiss, URL
<1>4. ASSUME NEW h \in Handlers, HeadReturns(h) PROVE Evidence'
  BY <1>4, ArcheioAssumption DEF TypeOK, Statuses, HeadReturns, Send, URL
<1>5. ASSUME NEW h \in Handlers, HeadFails(h) PROVE Evidence'
  BY <1>5, ArcheioAssumption DEF TypeOK, Statuses, HeadFails, Send, URL
<1>6. ASSUME NEW h \in Handlers, End(h) PROVE Evidence'
  <2>1. NoRequest # 200 /\ head[h] = NoRequest
    BY <1>6, ArcheioAssumption DEF Statuses, TypeOK, End
  <2> QED
    BY <1>6, <2>1 DEF TypeOK, End, URL
<1>7. ASSUME NEW h \in Handlers, NEW status \in Statuses,
             BucketAnswers(h, status)
      PROVE  Evidence'
  BY <1>7 DEF TypeOK, BucketAnswers, URL
<1>8. ASSUME NEW o \in Objects, Upload(o) PROVE Evidence'
  BY <1>8 DEF Upload, URL
<1>9. ASSUME NEW o \in Deletable, Delete(o) PROVE Evidence'
  BY <1>9 DEF Delete, URL
<1>10. CASE Restart
  BY <1>10, ArcheioAssumption DEF TypeOK, Statuses, Restart
<1>11. CASE UNCHANGED vars
  BY <1>11 DEF vars, URL
<1> QED
  BY <1>1, <1>2, <1>3, <1>4, <1>5, <1>6, <1>7, <1>8, <1>9, <1>10, <1>11
  DEF Next, Run, Handle

\* However many handlers race on the cache, and however old its entries are,
\* a client is only sent to a bucket that has the object, unless it is one
\* that may be removed.
THEOREM RedirectsAreBacked == Spec => []RedirectBacked
<1>1. Init => Evidence
  BY ArcheioAssumption DEF Init, Evidence, AnswersTrue, Statuses
<1>2. TypeOK /\ Evidence /\ [Next]_vars => Evidence'
  BY EvidenceNext
<1>3. Evidence /\ RedirectCached => RedirectBacked
  BY DEF Evidence, RedirectCached, RedirectBacked
<1> QED
  BY <1>1, <1>2, <1>3, TypeCorrect, RedirectsAreCached, PTL DEF Spec

-----------------------------------------------------------------------------
(* Archeio implements RedirectSpec.                                        *)

\* What a pending request of RedirectSpec is here.
LEMMA PendingMeans ==
  ASSUME TypeOK, NEW h \in Handlers
  PROVE  /\ Service!Pending(h) <=> pc[h] \in {"lookup", "asking"}
         /\ pc[h] = "replied" <=> reply[h] # NoRequest
<1>1. pc[h] = "replied" => reply[h] # NoRequest
  <2>1. ASSUME pc[h] = "replied" PROVE request[h] \in Requests
    BY <2>1 DEF TypeOK
  <2>2. ASSUME request[h] \in BlobRequests PROVE URL(h) \in Objects
    BY <2>2, BlobURLIsObject DEF URL
  <2> QED
    BY <2>1, <2>2, ArcheioAssumption DEF TypeOK
<1> QED
  BY <1>1 DEF TypeOK, Service!Pending

LEMMA RefinementStep ==
  TypeOK /\ TypeOK' /\ [Next]_vars => [Service!Next]_Service!vars
<1> SUFFICES ASSUME TypeOK, TypeOK', Next
             PROVE  Service!Next \/ UNCHANGED Service!vars
  BY DEF vars, Service!vars, Vouched, URL
<1>0. NoRequest # 200
  BY ArcheioAssumption DEF Statuses
<1>1. ASSUME NEW h \in Handlers, NEW q \in Requests, Receive(h, q)
      PROVE  Service!Receive(h, q)
  <2>1. request[h] = NoRequest /\ head[h] = NoRequest
    BY <1>1 DEF TypeOK, Receive
  <2>2. Vouched' = Vouched
    BY <1>0, <1>1, <2>1 DEF Vouched, TypeOK, Receive, Send, URL
  <2>3. q \in BlobRequests <=> NeedsBlobCheck(q)
    BY DEF BlobRequests
  <2> QED
    BY <1>1, <2>1, <2>2, <2>3 DEF Receive, Send, Service!Receive
<1>2. ASSUME NEW h \in Handlers, CacheHit(h) PROVE Service!SendToBucket(h)
  <2>1. request[h] \in BlobRequests /\ URL(h) \in Objects /\ head[h] = NoRequest
    BY <1>2, BlobURLIsObject DEF CacheHit, TypeOK, URL
  <2>2. Vouched' = Vouched
    BY <1>0, <1>2, <2>1 DEF Vouched, TypeOK, CacheHit, Send, URL
  <2> QED
    BY <1>2, <2>1, <2>2, PendingMeans
    DEF CacheHit, Send, Service!SendToBucket, Vouched, URL
<1>3. ASSUME NEW h \in Handlers, CacheMiss(h) PROVE UNCHANGED Service!vars
  BY <1>3 DEF CacheMiss, Service!vars, Vouched, URL
<1>4. ASSUME NEW h \in Handlers, HeadReturns(h), head[h] = 200
      PROVE  Service!SendToBucket(h)
  <2>1. request[h] \in BlobRequests /\ URL(h) \in Objects
    BY <1>4, BlobURLIsObject DEF HeadReturns, TypeOK, URL
  <2>2. Vouched' = Vouched
    BY <1>0, <1>4 DEF Vouched, TypeOK, HeadReturns, Send, URL
  <2> QED
    BY <1>4, <2>1, <2>2, PendingMeans
    DEF HeadReturns, Send, Service!SendToBucket, Vouched, URL
<1>5. ASSUME NEW h \in Handlers,
             \/ HeadFails(h)
             \/ HeadReturns(h) /\ head[h] # 200
      PROVE  Service!SendUpstream(h)
  <2>1. /\ request[h] \in BlobRequests /\ pc[h] = "asking"
        /\ Send(h, Reply(RC, request[h]))
        /\ UNCHANGED <<request, cache>>
    BY <1>5 DEF HeadFails, HeadReturns, TypeOK
  <2>2. Vouched' = cache \cup {URL(i) : i \in {j \in Handlers : j # h /\ head[j] = 200}}
    BY <1>0, <2>1 DEF Vouched, TypeOK, Send, URL
  <2>3. Vouched' \in {Vouched, Vouched \ {URL(h)}}
    BY <2>2 DEF Vouched
  <2> QED
    BY <2>1, <2>3, PendingMeans, BlobRequestIsRequest
    DEF Send, Service!SendUpstream, URL
<1>6. ASSUME NEW h \in Handlers, End(h) PROVE Service!End(h)
  <2>1. reply[h] # NoRequest /\ head[h] = NoRequest
    BY <1>6, PendingMeans DEF End, TypeOK
  <2>2. Vouched' = Vouched
    BY <1>0, <1>6, <2>1 DEF Vouched, TypeOK, End, URL
  <2> QED
    BY <1>6, <2>1, <2>2 DEF End, Service!End
<1>7. ASSUME NEW h \in Handlers, NEW status \in Statuses,
             BucketAnswers(h, status)
      PROVE  Service!Learn(h) \/ UNCHANGED Service!vars
  <2>1. request[h] \in BlobRequests
    BY <1>7 DEF BucketAnswers, TypeOK
  <2>2. CASE status = 200
    <3>1. Vouched' = Vouched \cup {URL(h)}
      BY <1>7, <2>2 DEF Vouched, TypeOK, BucketAnswers, URL
    <3> QED
      BY <1>7, <2>1, <2>2, <3>1, PendingMeans
      DEF BucketAnswers, Service!Learn, URL
  <2>3. CASE status # 200
    <3>1. Vouched' = Vouched
      BY <1>0, <1>7, <2>3 DEF Vouched, TypeOK, BucketAnswers, URL
    <3> QED
      BY <1>7, <3>1 DEF BucketAnswers, Service!vars
  <2> QED
    BY <2>2, <2>3
<1>8. ASSUME NEW o \in Objects, Upload(o) PROVE Service!Change
  BY <1>8 DEF Upload, Service!Change, Vouched, URL
<1>9. ASSUME NEW o \in Deletable, Delete(o) PROVE Service!Change
  BY <1>9 DEF Delete, Service!Change, Vouched, URL
<1>10. ASSUME Restart PROVE Service!Restart
  BY <1>0, <1>10 DEF Restart, Service!Restart, Vouched, TypeOK
<1> QED
  BY <1>1, <1>2, <1>3, <1>4, <1>5, <1>6, <1>7, <1>8, <1>9, <1>10
  DEF Next, Run, Handle, Service!Next, Service!Answer

\* Cache, HEAD requests, timeouts and races together do no more than the
\* stateless promise allows: every step of archeio is a step of
\* RedirectSpec, with what is vouched for read off the cache and the answers
\* in flight, or leaves it unchanged.
THEOREM ArcheioKeepsPromise == Spec => KeepsPromise
<1>1. Init => Service!Init
  BY ArcheioAssumption DEF Init, Service!Init, Vouched, Statuses
<1> QED
  BY <1>1, RefinementStep, TypeCorrect, PTL DEF Spec, KeepsPromise, Service!Safe

-----------------------------------------------------------------------------
(* From one request to the next.                                           *)

\* The history variables only watch.
LEMMA HistoryIsArcheio == HistorySpec => Spec
<1>1. HistoryInit => Init
  BY DEF HistoryInit
<1>2. [HistoryRun \/ HistoryRestart]_historyVars => [Next]_vars
  BY DEF HistoryRun, HistoryRestart, historyVars, Next
<1> QED
  BY <1>1, <1>2, PTL DEF HistorySpec, Spec

\* NeverGoesBack rests on the cache: what is settled is in it, and so is
\* what a late handler is about to look up.
LateFindsIt ==
  /\ settled \subseteq cache
  /\ late \subseteq Handlers
  /\ \A h \in late : \/ pc[h] = "lookup" /\ URL(h) \in cache
                     \/ SentToBucket(h)

\* What a step of the process does to a handler that has a request.
LEMMA RunKeepsSight ==
  ASSUME TypeOK, Run, NEW h \in Handlers,
         \/ pc[h] = "lookup" /\ URL(h) \in cache
         \/ SentToBucket(h)
  PROVE  \/ pc'[h] = "lookup" /\ URL(h)' \in cache'
         \/ SentToBucket(h)'
         \/ pc'[h] = "idle"
<1>1. cache \subseteq cache'
  BY DEF Run, Receive, Handle, CacheHit, CacheMiss, HeadReturns, HeadFails,
         End, BucketAnswers, Upload, Delete
<1>2. CASE UNCHANGED <<pc[h], request[h], reply[h]>>
  BY <1>1, <1>2 DEF URL, SentToBucket
<1>3. ASSUME NEW i \in Handlers, i # h,
             \/ \E q \in Requests : Receive(i, q)
             \/ Handle(i)
      PROVE  UNCHANGED <<pc[h], request[h], reply[h]>>
  BY <1>3 DEF TypeOK, Receive, Handle, CacheHit, CacheMiss, HeadReturns,
              HeadFails, End, Send
<1>4. CASE CacheHit(h)
  BY <1>4, S3Site DEF TypeOK, CacheHit, Send, SentToBucket
<1>5. CASE End(h)
  BY <1>5 DEF TypeOK, End
<1>6. ~(\E q \in Requests : Receive(h, q)) /\ ~CacheMiss(h)
      /\ ~HeadReturns(h) /\ ~HeadFails(h)
  BY DEF Receive, CacheMiss, HeadReturns, HeadFails, SentToBucket
<1>7. ASSUME NEW i \in Handlers, NEW status \in Statuses, BucketAnswers(i, status)
      PROVE  UNCHANGED <<pc[h], request[h], reply[h]>>
  BY <1>7 DEF BucketAnswers
<1>8. ASSUME NEW o, Upload(o) \/ Delete(o)
      PROVE  UNCHANGED <<pc[h], request[h], reply[h]>>
  BY <1>8 DEF Upload, Delete
<1> QED
  BY <1>2, <1>3, <1>4, <1>5, <1>6, <1>7, <1>8 DEF Run, Handle

LEMMA LateFindsItNext ==
  TypeOK /\ TypeOK' /\ RedirectCached' /\ LateFindsIt
    /\ [HistoryRun \/ HistoryRestart]_historyVars => LateFindsIt'
<1> SUFFICES ASSUME TypeOK, TypeOK', RedirectCached', LateFindsIt,
                    [HistoryRun \/ HistoryRestart]_historyVars
             PROVE  LateFindsIt'
  OBVIOUS
<1>1. CASE HistoryRun
  <2>1. Run
    BY <1>1 DEF HistoryRun
  <2>2. cache \subseteq cache'
    BY <2>1 DEF Run, Receive, Handle, CacheHit, CacheMiss, HeadReturns,
       HeadFails, End, BucketAnswers, Upload, Delete
  <2>3. settled' \subseteq cache'
    BY <1>1, <2>2 DEF HistoryRun, LateFindsIt, RedirectCached
  <2>4. late' \subseteq Handlers
    BY <1>1 DEF HistoryRun
  <2>5. ASSUME NEW h \in late'
        PROVE  \/ pc'[h] = "lookup" /\ URL(h)' \in cache'
               \/ SentToBucket(h)'
    <3>1. h \in Handlers /\ pc'[h] # "idle" /\ (h \in late \/ ComesLate(h))
      BY <1>1, <2>5 DEF HistoryRun
    <3>2. CASE h \in late
      BY <2>1, <3>1, <3>2, RunKeepsSight DEF LateFindsIt
    <3>3. CASE ComesLate(h)
      <4>1. pc[h] = "idle" /\ request'[h] \in BlobRequests /\ URL(h)' \in settled
        BY <3>3 DEF ComesLate, URL
      <4>2. PICK q \in Requests : Receive(h, q)
        BY <2>1, <3>1, <4>1 DEF TypeOK, Run, Receive, Handle, CacheHit,
           CacheMiss, HeadReturns, HeadFails, End, BucketAnswers, Upload,
           Delete, Send
      <4>3. q = request'[h]
        BY <3>1, <4>2 DEF TypeOK, Receive
      <4>4. pc'[h] = "lookup"
        BY <3>1, <4>1, <4>2, <4>3 DEF TypeOK, Receive, BlobRequests
      <4> QED
        BY <2>2, <4>1, <4>4 DEF LateFindsIt
    <3> QED
      BY <3>1, <3>2, <3>3
  <2> QED
    BY <2>3, <2>4, <2>5 DEF LateFindsIt
<1>2. CASE HistoryRestart
  BY <1>2 DEF HistoryRestart, LateFindsIt
<1>3. CASE UNCHANGED historyVars
  BY <1>3 DEF historyVars, vars, LateFindsIt, SentToBucket, URL
<1> QED
  BY <1>1, <1>2, <1>3

\* Between two restarts no client is sent to the upstream registry for an
\* object a client before it was sent to a bucket for.
THEOREM ClientsNeverGoBack == HistorySpec => []NeverGoesBack
<1>1. HistoryInit => LateFindsIt
  BY DEF HistoryInit, LateFindsIt
<1>2. LateFindsIt => NeverGoesBack
  BY DEF LateFindsIt, NeverGoesBack
<1> QED
  BY <1>1, <1>2, LateFindsItNext, HistoryIsArcheio, TypeCorrect,
     RedirectsAreCached, PTL DEF HistorySpec

-----------------------------------------------------------------------------
(* Pull.                                                                   *)

\* The buckets hold what is mirrored, and geranos's own holds all of it.
Grown ==
  /\ objects \subseteq Objects
  /\ \A o \in objects : Mirrored(o)
  /\ \A o \in HomeObjects : Mirrored(o) => o \in objects

\* Where a reply may send a client.
Places == {"", "info", "privacy", "upstream", "signature", "s3"}

\* A client that has not followed its redirect to a bucket yet will find the
\* object, though the cache that vouched for it may be gone.
SentRight ==
  /\ DOMAIN sent = Handlers
  /\ \A h \in Handlers : sent[h] # NoRequest =>
       /\ sent[h].site \in Places
       /\ sent[h].site = "s3" => sent[h].path \in objects

Inv ==
  /\ TypeOK /\ RedirectCached /\ Evidence
  /\ Grown
  /\ got \in [Handlers -> Seq(Places)]
  /\ SentRight

LEMMA RoutedToAPlace == ASSUME NEW q PROVE Reply(RC, q).site \in Places
  BY DEF Reply, V2Reply, Plain, Redirect, Upstream, Signature, Places

LEMMA WantedIsRequest ==
  ASSUME NEW h \in Handlers, got \in [Handlers -> Seq(Places)], Left(h)
  PROVE  Wanted(h, Len(got[h])) \in Requests
<1>1. Len(got[h]) \in 0..Len(LayersOf[Image[h]])
  BY PullAssumption DEF Left
<1> QED
  BY <1>1, PullAssumption DEF PullRequests

-----------------------------------------------------------------------------
(* A step of geranos.                                                      *)

\* Objects of one bucket differ in the key geranos copies them to.
LEMMA KeyOfObject ==
  ASSUME NEW o \in HomeObjects, NEW p \in HomeObjects,
         Mirror!LayerKey(o[2]) = Mirror!LayerKey(p[2])
  PROVE  o = p
<1>1. o[2] = p[2] /\ o[1] = p[1]
  BY DEF Mirror!LayerKey, HomeObjects
<1>2. \E a, b : o = <<a, b>>
  BY DEF HomeObjects, Objects, BlobURL
<1>3. \E a, b : p = <<a, b>>
  BY DEF HomeObjects, Objects, BlobURL
<1> QED
  BY <1>1, <1>2, <1>3

\* What a step of geranos adds is one key.
LEMMA OneKey ==
  ASSUME Mirror!Next
  PROVE  \E key : stored' = stored \cup {key}
  BY DEF Mirror!Next, Mirror!AddLayer, Mirror!AddRecord

LEMMA CopyIsUpload ==
  ASSUME Grown, Copy
  PROVE  /\ (\E o \in Objects : Upload(o)) \/ UNCHANGED vars
         /\ Grown'
<1>1. PICK key : stored' = stored \cup {key}
  BY OneKey DEF Copy
<1>2. /\ objects' = (objects \ HomeObjects)
                      \cup {o \in HomeObjects : Mirrored(o)'}
      /\ UNCHANGED <<pc, request, head, reply, cache>>
  BY DEF Copy
<1>3. \A o : Mirrored(o) => Mirrored(o)'
  BY <1>1 DEF Mirrored
<1>4. objects \subseteq objects'
  BY <1>2, <1>3 DEF Grown
<1>5. ASSUME NEW o \in objects' \ objects
      PROVE  o \in HomeObjects /\ Mirror!LayerKey(o[2]) = key
  <2>1. o \in HomeObjects /\ Mirrored(o)' /\ ~Mirrored(o)
    BY <1>2, <1>5 DEF Grown
  <2> QED
    BY <1>1, <2>1 DEF Mirrored
<1>6. Grown'
  <2>1. HomeObjects \subseteq Objects
    BY DEF HomeObjects
  <2> QED
    BY <1>2, <1>3, <2>1 DEF Grown
<1>7. CASE objects' = objects
  BY <1>2, <1>6, <1>7 DEF vars
<1>8. CASE objects' # objects
  <2>1. PICK o \in objects' : o \notin objects
    BY <1>4, <1>8
  <2>2. objects' = objects \cup {o}
    BY <1>4, <1>5, <2>1, KeyOfObject
  <2>3. o \in Objects
    BY <1>5, <2>1 DEF HomeObjects
  <2> QED
    BY <1>2, <1>6, <2>1, <2>2, <2>3 DEF Upload
<1> QED
  BY <1>7, <1>8

-----------------------------------------------------------------------------
(* Any step.                                                               *)

LEMMA StepIsArcheio == Inv /\ [PullNext]_pullVars => [Next]_vars
<1> SUFFICES ASSUME Inv, PullNext PROVE [Next]_vars
  BY DEF pullVars
<1>1. ASSUME NEW h \in Handlers, Ask(h) PROVE Next
  BY <1>1, WantedIsRequest DEF Ask, Inv, Next, Run
<1>2. ASSUME NEW h \in Handlers, Serve(h) \/ Answer(h) \/ Deliver(h) PROVE Next
  BY <1>2 DEF Serve, Answer, Deliver, Next, Run, Handle
<1>6. ASSUME NEW h \in Handlers, Follow(h) PROVE UNCHANGED vars
  BY <1>6 DEF Follow
<1>3. CASE Copy
  BY <1>3, CopyIsUpload DEF Inv, Next, Run
<1>4. ASSUME NEW o \in Objects, Replicate(o) PROVE Next
  BY <1>4 DEF Replicate, Next, Run
<1>5. CASE Replace
  BY <1>5 DEF Replace, Next
<1> QED
  BY <1>1, <1>2, <1>3, <1>4, <1>5, <1>6 DEF PullNext

LEMMA GrownNext == Grown /\ [PullNext]_pullVars => Grown'
<1> SUFFICES ASSUME Grown, [PullNext]_pullVars PROVE Grown'
  OBVIOUS
<1>1. CASE UNCHANGED <<stored, objects>>
  BY <1>1 DEF Grown, Mirrored
<1>2. ASSUME NEW h \in Handlers,
             Ask(h) \/ Serve(h) \/ Answer(h) \/ Deliver(h) \/ Follow(h)
      PROVE  UNCHANGED <<stored, objects>>
  BY <1>2 DEF Ask, Serve, Answer, Deliver, Follow, vars, Receive, CacheHit, CacheMiss,
     HeadReturns, HeadFails, BucketAnswers, End, Send
<1>3. CASE Copy
  BY <1>3, CopyIsUpload
<1>4. ASSUME NEW o \in Objects, Replicate(o) PROVE Grown'
  BY <1>4 DEF Replicate, Upload, Grown, Mirrored
<1>5. CASE Replace
  BY <1>1, <1>5 DEF Replace, Restart
<1> QED
  BY <1>1, <1>2, <1>3, <1>4, <1>5 DEF PullNext, pullVars, vars

\* The buckets only grow.
LEMMA ObjectsGrow ==
  ASSUME Inv, [PullNext]_pullVars PROVE objects \subseteq objects'
<1>1. CASE Copy
  <2>1. (\E o \in Objects : Upload(o)) \/ UNCHANGED vars
    BY <1>1, CopyIsUpload DEF Inv
  <2> QED
    BY <2>1 DEF Upload, vars
<1>2. ASSUME NEW h \in Handlers,
             Ask(h) \/ Serve(h) \/ Answer(h) \/ Deliver(h) \/ Follow(h)
      PROVE  UNCHANGED objects
  BY <1>2 DEF Ask, Serve, Answer, Deliver, Follow, vars, Receive, CacheHit,
     CacheMiss, HeadReturns, HeadFails, BucketAnswers, End, Send
<1> QED
  BY <1>1, <1>2 DEF PullNext, pullVars, vars, Replicate, Upload, Replace, Restart

\* What is delivered is a reply of the handler's, and if it is a redirect to
\* a bucket, to an object that is in the cache and so in the bucket.
LEMMA SentNext == Inv /\ [PullNext]_pullVars => SentRight'
<1> SUFFICES ASSUME Inv, [PullNext]_pullVars PROVE SentRight'
  OBVIOUS
<1>0. objects \subseteq objects' /\ SentRight
  BY ObjectsGrow DEF Inv
<1>1. CASE UNCHANGED sent
  BY <1>0, <1>1 DEF SentRight
<1>2. ASSUME NEW h \in Handlers, Deliver(h) PROVE SentRight'
  <2>1. /\ pc[h] = "replied"
        /\ sent' = [sent EXCEPT ![h] = reply[h]]
    BY <1>2 DEF Deliver, End
  <2>2. reply[h].site \in Places
    BY <2>1, RoutedToAPlace, S3Site DEF Inv, TypeOK, Places
  <2>3. reply[h].site = "s3" => URL(h) \in objects
    BY <2>1, PullAssumption DEF Inv, Evidence, RedirectCached, SentToBucket
  <2>4. reply[h].site = "s3" => reply[h].path = URL(h)
    BY <2>1, RoutedElsewhere DEF Inv, TypeOK, S3Redirect, Redirect
  <2> QED
    BY <1>0, <2>1, <2>2, <2>3, <2>4 DEF SentRight
<1>3. ASSUME NEW h \in Handlers, Follow(h) PROVE SentRight'
  BY <1>0, <1>3 DEF Follow, SentRight
<1>4. ASSUME NEW h \in Handlers, Ask(h) \/ Serve(h) \/ Answer(h)
      PROVE  UNCHANGED sent
  BY <1>4 DEF Ask, Serve, Answer
<1> QED
  BY <1>1, <1>2, <1>3, <1>4 DEF PullNext, pullVars, Copy, Replicate, Replace

\* A client that follows a redirect to a bucket finds the object.
LEMMA GotNext ==
  Inv /\ [PullNext]_pullVars => got' \in [Handlers -> Seq(Places)]
<1> SUFFICES ASSUME Inv, PullNext, got' # got
             PROVE  got' \in [Handlers -> Seq(Places)]
  BY DEF Inv, pullVars
<1>1. PICK h \in Handlers : Follow(h)
  BY DEF PullNext, Ask, Serve, Answer, Deliver, Copy, Replicate, Replace
<1>2. /\ sent[h].site \in Places
      /\ sent[h].site = "s3" => sent[h].path \in objects
  BY <1>1 DEF Inv, SentRight, Follow
<1>3. got' = [got EXCEPT ![h] = Append(@, sent[h].site)]
  BY <1>1, <1>2 DEF Follow
<1>4. Append(got[h], sent[h].site) \in Seq(Places)
  BY <1>2 DEF Inv
<1> QED
  BY <1>3, <1>4 DEF Inv

LEMMA InvAlways == PullSpec => []Inv
<1>1. PullInit => Inv
  <2> SUFFICES ASSUME PullInit PROVE Inv
    OBVIOUS
  <2>1. Grown
    BY DEF PullInit, Init, Grown
  <2>2. TypeOK /\ RedirectCached
    BY TypeOKInit DEF PullInit, Init, RedirectCached, SentToBucket
  <2>3. Evidence
    BY ArcheioAssumption DEF PullInit, Init, Evidence, AnswersTrue, Statuses
  <2>4. SentRight
    BY DEF PullInit, SentRight
  <2> QED
    BY <2>1, <2>2, <2>3, <2>4 DEF PullInit, Inv
<1>2. Inv /\ [PullNext]_pullVars => Inv'
  <2> SUFFICES ASSUME Inv, [PullNext]_pullVars PROVE Inv'
    OBVIOUS
  <2>1. [Next]_vars
    BY StepIsArcheio
  <2>2. TypeOK'
    BY <2>1, TypeOKNext DEF Inv
  <2>3. RedirectCached' /\ Evidence'
    BY <2>1, <2>2, RedirectCachedNext, EvidenceNext DEF Inv
  <2> QED
    BY <2>2, <2>3, GrownNext, GotNext, SentNext DEF Inv
<1> QED
  BY <1>1, <1>2, PTL DEF PullSpec

\* Mirroring, replication, restarts and clients together are an environment
\* Archeio allows: every theorem about Archeio holds of the whole.
THEOREM PullIsArcheio == PullSpec => Spec
<1>1. PullInit => Init
  BY DEF PullInit
<1> QED
  BY <1>1, InvAlways, StepIsArcheio, PTL DEF PullSpec, Spec

\* No client follows a redirect in vain, whatever images share, however many
\* clients pull, and however slowly they, geranos and replication are.
THEOREM NothingIsMissing == PullSpec => []NothingMissing
<1>1. Inv => NothingMissing
  <2> SUFFICES ASSUME Inv, NEW h \in Handlers, NEW n \in DOMAIN got[h]
               PROVE  got[h][n] # "missing"
    BY DEF NothingMissing
  <2>1. got[h] \in Seq(Places)
    BY DEF Inv
  <2>2. got[h][n] \in Places
    BY <2>1
  <2> QED
    BY <2>2 DEF Places
<1> QED
  BY <1>1, InvAlways, PTL
=============================================================================
