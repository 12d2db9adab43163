# A verification of registry.k8s.io

TLA+ models of the programs behind `registry.k8s.io`, TLC configurations that
check them on small instances, and theorems about them that TLAPS checks for
every instance. The models are written from the Go source; paths below are
relative to the repository.

## The system

`registry.k8s.io` serves no image itself. **archeio** (`cmd/archeio`) answers
every request with a redirect or an error. It sends most of them to an upstream
registry, and a request for a layer ("blob") to a bucket near the client if the
bucket has the layer. **geranos** (`cmd/geranos`) fills one of those buckets
from the upstream registry; `hack/tools/sync-to-s3.sh` copies between buckets.

```
 client --- X-Forwarded-For ---> clientip --> IPMapper (two tries)
   |                                             | cloud, region
   +--> archeio handlers --> BlobExists: cache --+--> HEAD --> buckets <-- sync
            |                   (sync.Map)                         ^
            +--> 307 to upstream, signatures, bucket, info         |
                                                                geranos
 upstream registry <---- list, get (rate limited) ----------------+
```

The parts, and what makes each correct:

| part | state | operations | hard behaviour | correct when |
|---|---|---|---|---|
| request routing, `cmd/archeio/internal/app/handlers.go`, `buckets.go:27-142` | none | one reply per request | two prefix tests, two exact paths, two regular expressions whose order decides; `path.Join`; a table that must follow generated data | the name asked for survives, the documented flow is followed, a region's clients get its bucket |
| blob look-up, `buckets.go:144-203` | `blobCache`, a `sync.Map` | `BlobExists` | goroutines that read the cache, ask for up to 5 s and write it with nothing held; buckets that answer late, wrongly or never; stale entries; replaced instances | a redirect goes only to an object that was seen; it is not taken back; every request is answered |
| client address, `pkg/net/clientip` | none | `Get` | the last but one field of a header, whose supplied part may hold anything | the load balancer's own entry is used, whatever comes before it |
| address to region, `pkg/net/cidrs`, `pkg/net/cloudcidrs` | two tries, a map of keys and its inverse | `Insert`, `GetIP` | Go's map order; nested and whole-family ranges; keys numbered by a map's length | it finds what brute force finds, in every process the same |
| range data and its generator, `cloudcidrs/internal/ranges2go` | generated Go maps; the old file | parse, sort, dedupe, print | deduplication in place; Go's map order; unusable entries and failing writes | no duplicate, none lost; output a function of the input; bad data leaves the old file |
| archeio process, `cmd/archeio/main.go` | connections, the signal | serve, shut down | 5 s of shutdown against 5 s of HEAD; `ListenAndServe` returns first | requests in hand are answered, and it stops |
| geranos, `cmd/geranos` | the bucket; an errgroup; a goroutine per image | walk, look for a record, get, copy layers, copy record | an errgroup that its own walker counts against; failed or killed runs; runs that overlap; dry runs | a record is never there without its layers; "Done!" is true; a run ends |
| rate limiter, `ratelimitroundtrip.go` | a token bucket of one | `RoundTrip` | a slot is given before its request is sent, which may be late | below 5000 requests in any minute |
| sync scripts, integration helpers, deployment | | | | tooling, not modelled |

## The modules

| module | of | what it is |
|---|---|---|
| `Routing` | routing | the handlers and the bucket table as operators on a request |
| `Serving` | routing | one request and its reply, under a configuration: EXTENDS `Routing` |
| `RedirectSpec` | archeio | what archeio promises about buckets, with no cache and no HEAD |
| `Archeio` | blob look-up | one process: goroutines, cache, HEADs, buckets, restart; EXTENDS `Routing` |
| `ArcheioHistory` | blob look-up | `Archeio` and two history variables, for what holds from one request to the next |
| `MirrorSpec` | geranos | what geranos promises about the bucket |
| `Geranos` | geranos | runs: the walk, the errgroup, a goroutine per image, `copyToS3` call by call |
| `IPMapper` | address to region | the build and the look-up of the tries |
| `Ranges2Go` | the generator | main: three parsers, sort and deduplication in place, the file line by line |
| `ClientIP` | client address | a request on its way to the server, and `clientip.Get` |
| `Locate` | a request through archeio | the mapper is built, then a request goes from header to reply: EXTENDS `Routing` and `ClientIP`, instance of `IPMapper` |
| `Lifecycle` | archeio process | connections, their handlers and the shutdown, in seconds |
| `RateLimit` | rate limiter | slots and sends, in slots' units of time |
| `Pull` | clients, archeio, buckets and geranos together | EXTENDS `Archeio`, instance of `MirrorSpec` |
| `ArcheioProofs`, `GeranosProofs`, `IPMapperProofs`, `Ranges2GoProofs`, `LocateProofs`, `LifecycleProofs`, `RateLimitProofs` | | theorems; `Pull`'s are in `ArcheioProofs`, `Serving`'s and `ClientIP`'s in `LocateProofs` |
| `Induction` | | induction over numbers and recursive functions, in a form the provers can use |
| `MC...` | | the instances TLC checks |

How they are composed:

```
 ClientIP --+                    RedirectSpec <-- refines -- Archeio --> ArcheioHistory
            +--> Locate            Routing --> Archeio --> Pull <-- MirrorSpec
 IPMapper --+      ^                 |                                  ^
 Routing ----------+                 +--> Serving          Geranos -- refines
```

### Routing

A path is the sequence of its segments, so the code's string tests become tests
of the first and the last ones: `/v2x` and `/privacyx` stand for everything
that passes `strings.HasPrefix` without being meant. `Digests` and `SigTags`
are what the two regular expressions accept as a last segment. `path.Join` is a
recursion over the segments that drops empty ones and `.` and lets `..` take
one back. `NeedsBlobCheck` is the conjunction of the early returns before
`BlobExists`; `Reply` is the rest, and also the fallback when the blob is not
there. `Serving` makes a system of it: a configuration and a request are
picked, and `Answer` is the handlers' reply or, where `NeedsBlobCheck` leaves
it open, the bucket's.

### Archeio

| in the model | in the code |
|---|---|
| `Receive` | `ServeHTTP` up to `BlobExists` or to the reply |
| `CacheHit`, `CacheMiss` | `blobCache.Get`, and the start of `client.Head` |
| `BucketAnswers` | the bucket: the moment its answer is true, before it arrives |
| `HeadReturns`, `HeadFails` | the two ways out of `client.Head`, `blobCache.Put`, and the redirect |
| `End` | the handler returns |
| `Upload`, `Delete`, `Restart` | geranos and syncs, syncs and people, a replaced instance |

`cache` is the domain of the `sync.Map`; its values are always the same.
A status is 200, 404 or 503: `BlobExists` only compares with 200. Storing the
entry and replying are one step, since nothing another goroutine does can come
between them and matter to either: `Put` comes first, and the reply does not
read the map. An answer to a HEAD may be overtaken by the timeout, by an upload
or by a deletion.

`Vouched`, the refinement mapping to `RedirectSpec`, is the cache and the
objects whose 200 is still on its way. It is what lets a deletion come between
a bucket's answer and its use: the promise is "seen since the process started",
not "there now".

### Geranos

Every call to the registry or to S3 is a step: `SkipImage` (the look-up of the
record, whose error `main.go:75` drops), `GetManifest`, `HeadObject` and
`PutObject` for each layer, `FetchRecord`, then both again for the record.
`Fail` is an error of a call that is not forgiven; a failed upload may have
stored the object. `Slots` counts the walker's own goroutine, as the errgroup
does. `List` is one call of the walk's callback; a listing error (`ListFails`)
or a reference that does not parse (`RefFails`) ends the walk and nothing else.
`Crash` may come between any two steps and a run may `Start` again; runs
overlap. A dry run does all a real one does up to the log line "Uploading" of
`copyToS3`; `named` is what it has logged so. An S3 upload is atomic: an object is there whole or not at all.
Schema 1 manifests are images like others, and an image of a type the code
warns about is in `Unhandled`. `reuploadLayers` is never set by the program and
left out. The rate limiter only delays calls; it is a module of its own.

### IPMapper

A node of a trie is the sequence of bits that leads to it, so the model has a
set of nodes closed towards the roots where the code has pointers. Regions come
in any order, the ranges of a region one after the other, also in any order,
which is more than the code does. `GetIP` is the first value on the way down
whose prefix contains the address, unless the walk ends before. An address with
a zone is in no prefix (`netip.Prefix.Contains`) though the walk passes its
values. The widths 32 and 128 are cut to 3 and 1 where TLC checks them; the
proofs have no width.

### Ranges2Go

`at` is where `main` is; every file, entry, region, round of the loop of
`dedupeSortedPrefixes` and line of output is a step, and each step whose call
can fail may end in `panic`. Text is sorted by its rank, so a prefix is a
number; `Bad` is one `netip.ParsePrefix` refuses. The order in which each
parser tests, parses and skips is kept: AWS parses before it looks at
`EXCLUDED_AWS_REGIONS`, Azure skips first, GCP has its prefix in one of two
fields. `SortSlice` allows any result `sort.Slice` may give. `i` and `j` of the
deduplication count from 1. A line of the file is a tuple; a write that fails
may leave `Torn`. `order` is that of clouds and regions in the file: the maps
give them in any (`InAnyOrder`), and `SortStrings` is what stands between. The JSON decoder and the download are outside.

### ClientIP

A header is a sequence of pieces: separators (`comma` and `space`, as
`strings.FieldsFunc` splits), addresses, and `Text` that is none. Two pieces
with nothing between them are one field, which `netip.ParseAddr` refuses.
`Supply` is the client, or a proxy, writing a header piece by piece; `Forward`
is the load balancer, which adds the address it saw and its own as
`clientip.go:42-52` describes; `Connect` is local testing without one; `Serve`
calls `Get`.

### Locate

`makeV2Handler` builds the mapper (`Load`) before the handler exists
(`Loaded`); then a request travels (`Travel`) and is served (`Handle`). All
handlers share the mapper with no lock, which is safe as nothing is inserted
after `Loaded`; this is the order of `Travel`'s guard. `Handle` is one step,
since between the address and the reply nothing shared changes but the blob's
presence, left open here and treated in `Archeio`.

### Lifecycle

| in the model | in the code |
|---|---|
| `Accept`, `TakeRequest`, `Reply`, `Close` | `http.Server`'s connection: `StateNew`, `StateActive`, `StateIdle`, closed by the client or by `ReadHeaderTimeout`, `ReadTimeout` |
| "held" | `StateActive` with a client that holds back the body: the server waits for it before it replies, up to `ReadTimeout` |
| `Signal`, `ReceiveSignal` | the signal in the channel; `<-done` in `main`, and the call of `server.Shutdown` |
| `ListenAndServeReturns` | the goroutine of `main.go:65-70`; an error other than `ErrServerClosed` ends the process |
| `CloseIdle`, `ShutdownReturns`, `ShutdownFails` | the polling of `Shutdown`, its two ways out |
| `Tick` | a second |

The four deadlines are the code's own: 2 s to read a header, 10 s for a whole
request, 5 s for a HEAD, 5 s to shut down. A handler does nothing that takes
time but its one HEAD, and no handler reads a body: `net/http` reads what is
left of it before it replies, which is the "held" state. `Tick` waits for what is
overdue, so a deadline is kept to the second; what is due in the same second
comes in any order, and this is where the two deadlines of 5 s meet:
`OnlyLateRequestsCut` says that of the requests sent whole only one taken in the
second the signal was received in, or later, can lose. It says nothing of one
whose body is held back, which may wait longer than the shutdown does. The 10 s
count from the header here, up to 2 s later than they do in `net/http`. How it
works inside is otherwise as its documentation has it.

### RateLimit

`Wait` is the limiter giving a goroutine its slot; `RoundTrip` is the goroutine
awake and sending. The unit of time is whatever divides the slots' `Interval`:
in production an 80th of a second, `Window` 4800, `Quota` 5000. `Slack` is how
late a goroutine may get to run after its slot. It is an assumption about the
scheduler, not something the code ensures, and it is the only thing between
4800 and 5000: `Window - 1 + Slack < Quota * Interval` says that the room in
the quota is for that, some 2.5 s. `MaxTime` and `MaxRequests` bound the model.

### Pull

Clients ask for the manifest and then each layer. A reply that is delivered is
the client's (`sent`); it follows it when it likes, with the instance that gave
it still there or not. `Copy` is any step of `MirrorSpec`, hence of any number of geranos
runs (`GeranosKeepsPromise`); what it adds is at once an object of the home
region's bucket as archeio addresses it. An object is named by its bucket and
digest on both sides (`Mirrored`). That the two spellings of its path are the
same, `/containers/images/` at `handlers.go:161` and `containers/images/` at
`s3uploader.go:43`, is something the model presupposes, read in the code and not
checked. `Replicate` takes an object to other regions at any later time.
`Replace` is a restart of archeio, after which clients that wait for a reply ask
again. Nothing is deleted here. The assumption on `Requests` says that clients ask for what
`Image` holds and nothing else.

## What the runs check

| run | bounds | properties |
|---|---|---|
| `routing` | every path of up to 4 segments over 6 first and 9 later ones, 3 methods, 2 configurations; every AWS region in the data | `NameSurvives`, `FollowsFlow`, `RegionsMatchBuckets` |
| `routing_doc` | paths of 2 segments | `DocumentedNotFound`, violated |
| `archeio` | 3 goroutines, 6 kinds of request, 3 objects, one that may be removed; restarts at will | `TypeOK`, `RedirectBacked`, `RedirectCached`, `NeverGoesBack`, `KeepsPromise` |
| `pull` | 2 clients in 2 regions, 2 images that share a layer, up to 2 restarts, fairness | `NothingMissing`, `PullEnds`, `RequestAnswered`, `KeepsItsWord`, `BucketsOnlyGrow` |
| `locate` | every header of up to 4 pieces before the balancer's, 3 addresses of 2 bits, every table of an AWS and a GCP region with none or one of 5 ranges each | `BalancedClientFound`, `NothingMadeUp`, `ServedWhereItIs` |
| `lifecycle` | 3 connections, the code's deadlines in seconds, fairness | `TypeOK`, `GracefulLosesNothing`, `OnlyLateRequestsCut`, `StopsWhenTold` |
| `geranos_one` | one run, started again at will, 2 repositories that share an image, 3 images to handle, room for the walker and 2 goroutines | `TypeOK`, `DoneMeansMirrored`, `NoneAbandoned`, `RunEnds`, `GoesForward` |
| `geranos_two` | two runs and a dry run of the same image, all overlapping | `RecordComplete`, `DryRunForesees`, `KeepsPromise` |
| `geranos_sum` | one run | `UploadsAreSummed`, violated |
| `ratelimit` | a slot every 3 units, windows of 9, a quota of 4, up to 3 units late, 6 requests in 13 units, fairness | `BelowQuota`, `SlotsApart`, `EverySent` |
| `ipmapper` | every table of 2 regions with up to 2 of the 18 prefixes of 3 bits (one family) and 1 bit (the other) each, in every order; every address of those | `TypeOK`, `AgreesWithBruteForce`, `OrderDoesNotMatter` |
| `ranges2go` | 3 regions; up to 3 entries of AWS, 2 of GCP with one of AWS, or 2 tags of Azure; repeated, unordered and unusable prefixes; clouds and regions in every order; every call may fail | `TypeOK`, `TablesRight`, `Reproducible`, `BadDataKeepsFile` |

Why the bounds are enough to say something:

* *routing*: no test in the code looks at more than the first and the last two
  segments or at the number of segments beyond 4, and `path.Join` treats a
  segment by the one before it. The proofs have no bound on a path, and any
  configuration and digests.
* *archeio*: a bad interleaving needs one handler that reads or answers late
  and others that change the cache meanwhile; three handlers give two of them.
  Requests differ in bucket or digest or share both from different regions,
  which is every way two can meet in the cache.
* *pull*: the shared layer is looked for in two buckets, one of which lags
  behind; the second image has a layer more, so its record comes later than
  another pull of the same layer.
* *locate*: a field is decided by its neighbours, and `Get` counts from the
  end, so that what could shift it is in the last pieces; four allow an empty
  field, a lone separator, text stuck to an address, and a forged pair. Ranges
  of two bits are apart, nested, equal and of the whole family.
* *lifecycle*: three connections are as many as can be of different kinds when
  the signal comes: not yet at a request, at work on one, idle; each of those at
  work may be held up by its client as well.
* *ratelimit*: the window holds three slots and the quota four requests, so
  one late request more than allowed would be seen; six requests go beyond one
  window.
* *geranos*: two runs suffice for one to be between a HEAD and a PUT while
  another moves; one image with two keys before its record suffices for a
  record to come too early. The errgroup's limit of 1000 is 3 there, so that
  the walker does block, which in production needs a thousand goroutines.
* *ipmapper*: nested, equal, disjoint and whole-family ranges all occur among
  two and two prefixes of three bits.
* *ranges2go*: three entries of a region are the least in which the slice is
  written where it is still to be read (two equal, then a third).

Runs in which behaviours end (a request is answered once, a build comes to its
end) turn the deadlock check off; all others keep it on.

### Fairness

* archeio in `pull`: a goroutine that can run does, and `client.Head` returns
  within its `Timeout` of 5 s, with an error if with nothing else
  (`buckets.go:184-187`). Clients ask and follow. No fairness is assumed of
  buckets, of geranos or of anything else that changes the buckets. That this
  gives `Archeio` the fairness it states itself is part of `BucketsOnlyGrow`.
* geranos (`Walk`, `Work`): the process runs and calls return. The code sets no
  timeout on registry or S3 calls and leaves this to the network: a call that
  hung for good would hang its run. Nothing says a call succeeds.
  `RefFails` is not fair, or it would be a way out of a blocked `g.Go`.
* lifecycle: time passes, `main` receives the signal that is in its channel,
  timeouts fire, a handler whose HEAD is over returns, `Shutdown` polls. No
  client need do anything, and no signal need come.
* ratelimit: time passes up to the bound, and a goroutine that is awake runs.

### What two runs show of the program

* `routing_doc`: `docs/request-handling.md:7` answers 404 to what does not
  start with `/v2/`; the code tests `HasPrefix(path, "/v2")` and
  `HasPrefix(path, "/privacy")`, so `/v2x` is redirected upstream as `/v2/x`
  and `/privacyx` to the privacy policy.
* `geranos_sum`: `s3uploader.go:176` compares the algorithm with `"SHA256"`,
  and `v1.Hash` spells it `sha256`; no upload carries the checksum that the
  next lines compute. Under the comment `TODO: what if it isn't sha256?` the
  branch is meant to be the usual one.

Smaller things seen on the way: the comment at `clientip.go:68` wants "the
contents between the second to last comma and the last comma", and `FieldsFunc`
splits at spaces too, so a header with two fields and a space but no comma
between them is read as well; headers the balancer wrote are not concerned
(`BalancedClientFound`). `request-handling.md` speaks of a client of "a
known AWS IP", but every client that is not in GCP is sent to a bucket if the
default one has the blob. An errgroup limit of 1 would leave a walker waiting
for the slot it holds itself, which is why `Limit >= 2` is an assumption. An
IPv4-mapped IPv6 address is looked up in the IPv6 trie, where no range of an
IPv4 client is.

### The generated data

Not checked by TLC, counted from `zz_generated_range_data.go`: 165 regions,
26685 prefixes, no prefix listed for two regions (the hypothesis `Disjoint` of
`OrderDoesNotMatter`; the theorem `DataDecides` is about data with it), and 247 prefixes nested in a prefix of another region,
every time an AWS region in AWS `GLOBAL`. So brute force and the trie may differ on
those, and the trie's answer, the wider one, is `GLOBAL`; hence the form of
`AgreesWithBruteForce`. No region of GCP or Azure has the name of an AWS
region, so the bucket table, which looks at the region alone, mistakes none.

## What is proved

For every value of the constants under the named assumptions of the modules.

**archeio** (`ArcheioProofs`): `TypeOK` is inductive (`TypeCorrect`).
`RedirectCached` is inductive given it (`RedirectsAreCached`): a hit has the
entry, a 200 puts it, nothing but a restart removes any. `RedirectBacked` is
not inductive: it says nothing of the 200 on its way to a handler, nor of a
cache entry nobody uses yet, and the next redirect comes from one of the two.
`Evidence`, the cache is within the objects and every 200 under way is true, but
for objects that may be removed, is inductive, and `RedirectsAreBacked` follows. `ArcheioKeepsPromise` is the refinement of
`RedirectSpec`'s safety part, deletions or not: `CacheMiss` and a stray answer
stutter, a 200 is `Learn`, a timeout with a 200 on its way is a `SendUpstream`
that forgets.

**archeio, from request to request** (`ArcheioProofs`): `NeverGoesBack`
needs that a request that came late *finds* its object in the cache as long as
it has not looked (`LateFindsIt`); `RunKeepsSight` shows each step keeps that.
The history variables are only written (`HistoryIsArcheio`).

**geranos** (`GeranosProofs`): `TypeOK` is inductive. `Progress` is the
strengthening for the bucket: a goroutine at key `n` has keys `1..n-1` of its
image in the bucket or, if it is a dry run's, in the bucket or named (`Has`),
and one that is done has all of them or has seen the record.
It survives other runs because nothing removes a key. With it each step is one
of `MirrorSpec` or a stutter (`GeranosKeepsPromise`), from which
`RecordsAreComplete` follows. `Accounts` says where every image of a run is:
not reached, started, or given up with an error. It gives `NoneIsAbandoned`,
and with `Progress` and `RecordComplete` what a run that ended well has of every
image (`EndedHasAll`): `DoneIsMirrored` for a real run, `DryRunsForesee` for a
dry one.

That a run ends (`RunEnds`) is liveness and stays with TLC; the half of it that
is safety is proved. `RunsGoForward`: each step of a run in progress takes a
repository or an image from those ahead of the walker, or a call from the
goroutine's `CallsLeft`; for this no image ahead of the walker may have been
started yet (`Ahead`). That the walker is never left waiting in `g.Go` is in
`RunEnds` alone.

**address to region** (`IPMapperProofs`): `TypeCorrect` rests on four parts,
that the keys are the numbers below the size of the map and the maps inverse
(`KeysRight`), the nodes closed towards the roots (`NodesRight`), the values on
them and each the key of a region that was inserted there (`ValuesRight`), and
what was inserted at its node (`DoneRight`). Every node on the way to a value exists,
so the walk reaches all there is around an address (the lemmas on `Path`):
`WalkIsRight` is agreement with brute force at each point of the build, for
addresses of any length, `DataDecides` the independence of map order.

**the generator** (`Ranges2GoProofs`): `TypeCorrect` is where the in-place
loop stays inside its slice. `ParsersAreRight` rests on the loop's invariant (`Deduping`):
the entries up to `j` are strictly ascending, those from `i` are still sorted,
the two together are the elements there were, and `s[i-1]`, which may have been
written over, is equal to `s[j]`, the last one kept, so the comparison means
what it should. An ascending sequence is determined by its elements
(`AscendingIsUnique`, by the first place where two would differ), so
`DataDecidesTables`: the tables are a function of the data. The file follows
from them line by line: while `main` writes, what is written is the first lines
of what the tables call for, in sorted order (`Writing`), so that a file that is complete is
`GoLines` of the data's own tables (`TablesAreReference`), the same in every
run (`RunsAgree`). `BadDataIsHarmless`: what
is read so far was usable (`Checked`), and the file is not created before all
entries of all clouds are read.

**routing** (`LocateProofs`): about any request, path and configuration. After
`n` segments, `Join` has kept as many as were not empty, and each of those is at
its place (`JoinLists`, by induction over `n`), if there is no `.` or `..`; so
what is sent to a backend lists what was asked for (`NameAlwaysSurvives`), and two
requests for different names never meet at one path (`OneNamePerPath`). Of any
path at all, `JoinIsClean`: nothing empty and no dots are left, so a backend
reads it as it was meant. `FlowIsFollowed` goes
through the lines of the documented flow; it needs `SegmentsAssumption`, that a
digest is no tag. `RegionsAlwaysMatch` evaluates the bucket table against the
regions of the data: who has a bucket in its own region is sent to that one. It
needs that no other cloud uses a name of AWS's. Which neighbour serves a region
without a bucket is a choice the code makes and no property looks at.

**client address** (`LocateProofs`): `ClientIsFound`, for headers of any
length. Whatever precedes, the last field is the balancer's own address and the
one before it the client's. `NothingIsMadeUp` is about every header, the
balancer's or not: the field that is read stands alone and another follows it.

**from header to reply** (`LocateProofs`): `ServedRight`. The steps of `Locate`
are steps of `ClientIP` and of `IPMapper`, so `ClientIsFound` and `WalkIsRight`
hold in it; the mapper the proof speaks of is an instance of `IPMapperProofs`.
Nothing is inserted after `Loaded` (`LocateInv`), so what was found around the
client stays around it, and a path that is a blob's leaves no reply but the
upstream's and the bucket's (`ReplyIsRight`).

**the pull** (`ArcheioProofs`): `Grown`, the buckets hold nothing but what is
mirrored and the home bucket holds all of it, makes each step of geranos at most
one upload of an object archeio may ask for (`CopyIsUpload`). Hence
`PullIsArcheio`: the composition is `Archeio`, and every theorem about it is one
about the composition. `NothingIsMissing` then says that a layer a client was
sent to is there when it follows: the entry that vouched for it was true, and
what geranos and replication fill only grows. As a client may follow long after
the reply, and after the instance is gone, the invariant is about replies on
their way (`SentRight`), for which no cache entry need be left.

**the process** (`LifecycleProofs`): the invariant adds to `TypeOK` that a
process that timed out did so at the deadline. With `HeadTimeout <=
ShutdownTimeout` (5 and 5, an assumption) `EarlyRequestsFinish`, about requests
sent whole; a process that
is done gracefully has lost nothing (`GracefulIsSafe`).

**the rate** (`RateLimitProofs`): `SlotsApart` is inductive with the fact that
what is not sent yet can still be in time (`Inv`). For `QuotaIsKept` take the
first and the last request of a window: their sends are at most `Window - 1`
apart, hence their slots at most `Window - 1 + Slack`, hence there are at most
`Quota` from the one to the other, by the assumption.

**Induction** (`Induction`): the library's theorems on induction take the
predicate as a parameter, which the provers here cannot fill in. `Least`,
`InductionTo` and `RecursionTo` say the same of sets of numbers: a set with 0
and with each number's successor up to `n` has all of them, and the recursive
functions with given steps (`Runs`, a set) exist. The proofs about `Join`, the
flattened lines, windows of requests and ascending sequences rest on these.

Only model-checked, since each needs `ENABLED` or fairness: `RequestAnswered`,
`KeepsItsWord`, `PullEnds`, `RunEnds`, `StopsWhenTold`, `EverySent`, and
`BucketsOnlyGrow`, whose safety part is `PullIsArcheio`. Every invariant
of a passing run and every other action property has its theorem.

## What is not modelled

* Most lines of the repository are `zz_generated_range_data.go`, a table of
  27051 lines. It is data and has no behaviour: what the models need of it is
  counted above, and its generator is modelled.
* Bytes: bodies, checksums of content, HTTP and S3 as protocols, JSON. A HEAD's
  redirects are followed inside one step.
* Removal of layers: no program here removes a layer geranos needs, and
  `MirrorSpec` says geranos does not. `sync-to-s3.sh`, run by hand, makes the
  bucket equal to another and does remove; archeio's buckets may lose objects.
* `require-coverage`, scripts, integration test helpers, deployment: tooling,
  with no behaviour of the service.
* Configuration from the environment: read once, no state; two configurations
  are in `routing`.

## What is done, and what is left

The modules were written in the order of what depends on what: `Routing`,
`Archeio` with `RedirectSpec` and `ArcheioHistory`, `Geranos` with `MirrorSpec`,
`IPMapper`; then the parts around them, `Ranges2Go`, `ClientIP`, `Lifecycle`,
`RateLimit`; then the compositions `Locate` and `Pull`; the proofs after each, those of the
recursive definitions (`Join`, the generated file) last.

Left: `Lifecycle` composed with `Archeio`'s handlers instead of their one
deadline; `RateLimit` within `Geranos`.
