# A TLA+ model of tsjwt

tsjwt turns a tailnet identity into a short-lived ES256 token: a signer at the edge
establishes who the caller is, mints a token scoped to one audience and tenant, and a
reverse proxy forwards the request with it; backends verify the token against the
signer's published keys. This directory holds TLA+ models of the parts of that system
whose correctness depends on the order of events, the runs that check them with TLC and
the proofs that TLAPS checks.

    tlc -config WaitGate.cfg MCWaitGate      # every cfg names its MC module below
    tlapm WaitGateProofs.tla    # and every other *Proofs.tla, and LeastNumber.tla

## Inventory

| Part | State | Operations | What is hard | What makes it correct |
|---|---|---|---|---|
| `proxy/wait.go` WaitGate | per backend: `pending`, `active`, `checking`, `changed`, `cancel` | `Acquire`, release, `check` | two critical sections per call around a `select`; goroutines of an old batch finish during the next | gauges exact, no stranded waiter, no probe without demand, limits |
| `keys/keys.go` Set | current key, retired keys with their windows | `Rotate`, `Current`, `JWKS`, `PublicKey` | rotation during a mint; lazy pruning | a key outlives its tokens and does not come back |
| `signer` | none | `Mint` | stamps before it signs | `exp` fits the key's window; the tenant is one the caller holds |
| `verifier` | replay guard's ids | `Verify`, `Seen` | concurrent presentations, leeway against pruning | each token once, no refusal without cause |
| `verifier/remote.go` | cached set, `fetchedAt`, `lastTry` | `Key`, `refresh` | lock released around HTTP; answers overtake each other | trust in a withdrawn key ends, a published key is found |
| `keys/shared.go`, `k8sstore` | ConfigMap of entries; per replica the last union | `Publish`, `JWKS`, `Run` | optimistic concurrency, lost answers, crashes, leases | no needed key is lost |
| `routetable`, `proxy/dynamic.go` | mounted file, table held, cache file, table served | `LoadCache`, `Refresh`, `Set` | crash between steps, unreadable mount | routes are kept, restored, brought up to date |
| `proxy/proxy.go`, `router.go` | one table per proxy | `ServeHTTP`, `Match` | groups and table change during a wait | one table per request, tenant kept, no header of the caller's that a route fills |
| `identity.go`, `tenant.go`, `policy.go`, `claims.go` | none | resolvers, validation | precedence rules | never a tenant the caller does not hold |
| `gateway/routes.go` | none | `Translate` and its helpers | listeners, wildcards, many refusals | nothing borrowed, no rule lost in silence |
| `gateway/reconcile.go`, `provision.go` | Kubernetes objects, the work queue | watches, reconcile, render, apply, status | stale reads, partial writes, events made by its own writes | table and status come to agree with the objects, then it rests |
| `tsnetid` | auth key expiry | WhoIs, key minting, `Expiry` | clocks, external services | health turns bad in time |
| daemons | flags | start, `rotateLoop` | order of the start | configuration rules hold |

Interaction: the proxy calls `Mint`, then the gate, then `Mint` again, and forwards. The
signer reads keys from the local Set or from Published, which wraps it. `rotateLoop`
rotates the Set and nothing else. Backends read the JWKS endpoint through RemoteKeys. The
controller writes a route table into a ConfigMap, the kubelet mounts it, FileSource polls
it and hands changes to Dynamic, which swaps a pointer.

`PROJECT.json` lists all components, also those not modelled, and every hazard with its
line and the properties that cover it.

## Modules

Every module keeps the code's names for its state. An action is one stretch of code that
no other actor can interrupt (a critical section, or a call outside it), so an operation
that releases a lock is several actions.

**WaitGate** (`proxy/wait.go`). A member of `Request` is a call of `Acquire`. A call that
finds no check running makes a channel, a context and a goroutine together, so all three
are named by that call: `changed[b] = r` is the channel, `closed` and `cancelled` are sets
of them, `prober[r]` is the goroutine's program counter. `Register` is the first critical
section, `Select` the select, `Leave` the second critical section, `Release` the release
function; `ProbeSucceeds`, `ProbeFails`, `Signal`, `ProbeAgain` and `StopProbing` are
`check`. Contexts end and backends come and go at any time. `lastActivity` and the metrics
text are left out.

**KeyRotation** (`keys.Set`, `Mint`, `Verify` with LocalKeys, `MemoryReplayGuard`). `Stamp`
and `Sign` are the two halves of `Mint`; `LookUpKey`, `CheckClaims` and `Seen` the three
of `Verify`; clock and rotation step in between. Time is in seconds, the resolution of the
claims. A key is the number of the rotation that made it.

**PublishedKeys** (`keys/shared.go`, `k8sstore`). A process is one run of a daemon; `NameOf`
gives its POD_NAME. `Load` reads the store and builds `next`; `SaveApplied`,
`SaveUnanswered`, `SaveFails` and `SaveConflicts` are what can become of the write. The
resource version is modelled by its effect: a write outdates every version loaded before.
A process that has stopped may still have a write on its way.

**RemoteKeys** (`verifier/remote.go`). `Start` and `ReadClock` are the readings of the
clock with which `Key` and `refresh` begin, before their locks; `Read` is the first critical
section of `Key`, `Ask` that of `refresh` with the request, `Answer` the moment the signer
writes its response, `Install` the end of `refresh`, `ReadAgain` the last look; `FetchFails`
is every error of `refresh` with the ceiling test that follows it. `at` is the local `now`
of a call until it has the lock, and after that, for the properties, when it sent its
request or decided. `joined`, `left`, `renewed` and `missAt` are history too: when the
signer published and withdrew a kid, whose set was renewed meanwhile, and when the last
request for an unknown kid was sent.

**RouteTable** (`routetable`, `proxy/dynamic.go`, the start of `tsjwt-dataplane`). `Read`,
`Commit`, `WriteCache` and `Apply` are the steps of `Refresh`; `LoadCache`, or
`LoadCacheFails` when the cache is there and cannot be read, and `ServeCached` the start. A
crash may fall between any two. A table is the fields `sameRoutes` compares and the
ClaimHeaders, which it does not. `emptied` and `cacheFailed` are history for the properties.

**Router** (`proxy/router.go`). `Valid`, `matches` and `Match` as operators. A host is the
sequence of its labels and a path that of its segments, which is what the code's prefix and
suffix tests on whole labels and segments tell apart; of two prefixes of one path the
longer text is the one with more segments. Names of a route are a set: `matches` takes the
best of them in any order.

**Grants** (`tsnetid.Source`, `policy.go`, `tenant.go`, the decision of `Signer.Mint`).
`Identify`, `Resolve`, `GrantValid` and `Mint` are pure: what varies is the peer, which is
what WhoIs answers. A mint's result is the claims or the status `refuse` makes of the error.

**Forwarding** is the contract of the gateway: a request binds to the table served when it
arrives and is then refused, or sent once, as a most specific route of that table says, for
a tenant and roles the caller holds at that moment. It knows nothing of mints, gates, waits
or headers, and says who may act in a tenant in its own words; which routes are most
specific is its parameter `Preferred`, a definition of Router beside `Match`.

**RequestProxy** (`proxy.go` behind `dynamic.go`) EXTENDS Router and Grants and implements
Forwarding (`Refines`). `Arrive` is the load, the strip and the match; `Authorize` the
first Mint with the test of the gate; `GateAdmits` and `GateRefuses` the end of Acquire;
`Abandon` and `Reauthorize` what follows. Between them tables are offered to `Set`, valid
or not, and `PeerChanges` lets the control plane change its mind. A header is the
proxy's, with the claims in it, or the caller's.

**Translate** (`gateway/routes.go`). `Translate` from attachment over host names and
refusals to the sorted table, as operators; `Refusal` keeps the code's order because the
first reason is the one reported. EXTENDS Router for the meaning of a wildcard.

**Controller** (`gateway/reconcile.go`, `provision.go`) EXTENDS Translate. One Gateway, its
class, routes and Services are edited at any time; an edit is its arrival in the watch
cache with the event the registered watches make of it. `Begin`, `ListRoutes`, `Render`,
`TellRoute` (one per route), `Apply` (one per object) and `Report` are one reconcile; each
reads what is there at its moment and may fail. Writes that change something are events,
as `Owns` and the HTTPRoute watch make them. An object that is not the ConfigMap or the
StatefulSet is only there or not there. `unseen` and `lost` are history: a change no watch
reports that no reconcile has read since, and routes whose status write failed.

Each `MC` module adds symmetry sets, name assignments and the tables, peers, policies and
objects of its instance, nothing else. Operators whose
comment begins with "Mutation" are faulty variants of the definition below them; no
specification uses them. They show that each property can fail.

## Runs

| Run | cfg / module | Shows |
|---|---|---|
| wait_gate | WaitGate.cfg, MCWaitGate | four calls, two backends: CountsMatchDemand, NoStrandedWaiter, ProbeOnlyOnDemand, AdmittedOnlyAfterProbe, LimitsHold |
| wait_gate_live | WaitGateLive.cfg, MCWaitGate | WaitersServed and ProbersStop under fairness |
| key_rotation | KeyRotation.cfg, MCKeyRotation | UnexpiredVerifies, OnceBeforeExpiry, RefusedOnlyWithCause, NeverReadmitted |
| replay_single_use | ReplaySingleUse.cfg, MCKeyRotation | **violated**: SingleUse |
| published_keys | PublishedKeys.cfg, MCPublishedKeys | StoredUntilExpiry, ServedUntilExpiry, OwnTokensVerify, LivePeersKept |
| pod_restart | PodRestart.cfg, MCPublishedKeys | **violated**: StoredUntilExpiry, when a restart keeps its name |
| remote_keys | RemoteKeys.cfg, MCRemoteKeys | CacheIsRecent, TrustEnds, AbsentOnlyIfNew, RefetchesSpaced |
| stale_ceiling | StaleCeiling.cfg, MCRemoteKeys | **violated**: CeilingHolds |
| route_table | RouteTable.cfg, MCRouteTable | ServesWhatItHolds, CacheCoversRestart, OutageKeepsRoutes, Converges |
| claim_headers | ClaimHeaders.cfg, MCRouteTable | **violated**: ConvergesFully |
| request | RequestProxy.cfg, MCRequestProxy | TenantStays, HeadersVouched, Refines (the refinement of Forwarding) |
| controller | Controller.cfg, MCController | NothingBorrowed, AcceptedMeansServed; RoutesArrive, StatusFollows and Settles under fairness |

What the violated ones show:

* **SingleUse.** The guard forgets an id once `now` is after `exp`; `Verify` accepts until
  `exp` plus the leeway. In that leeway a token is accepted any number of times. Inside
  its lifetime it is accepted once (OnceBeforeExpiry, proved).
* **StoredUntilExpiry after a restart in place.** `publishOnce` replaces all entries under
  its own name. A container restarted in its pod has a new key and the old name, so its
  first publish removes keys whose tokens have not expired. With a name per process the
  property holds.
* **CeilingHolds.** `Key` reads the key, releases the lock, fails to refetch, and judges the
  key by `fetchedAt` read again. If another call refetched in between, `fetchedAt` is new
  while the key came from the old set, and a key withdrawn longer ago than MaxStale is
  returned. TrustEnds holds for all other calls.
* **ConvergesFully.** `sameRoutes` ignores ClaimHeaders; a table that changes only there is
  never served nor cached. Converges holds for what is compared.

Disagreements between code and comments that reading it for the model turned up, without a
run of their own (`findings` with an empty run): a new key signs before any peer's union
holds it, against "a token minted by any replica verifies at any backend"; a match that is
exact, or conditions on anything but the path, is dropped or widened as long as another
match of the rule can be used; `refresh` dates an attempt by a clock it read before the lock,
so that unknown kids can be refetched closer together than MinRefetch, by that delay and no
more (RefetchesSpaced); the Gateway's address and the node's name differ when no
listener names one; the revision does not change with the routes.

### Bounds

* WaitGate: with four calls a batch can be signalled, not have left, and a new batch can
  form and be joined. Pending limit 3 and one backend slot for two backends: both limits
  are met. The liveness run has three calls, no symmetry.
* KeyRotation: overlap one more than the lifetime, the least the daemons accept; three
  keys, so that a retired key is pruned by a later rotation; the clock passes the end of a
  window and of a leeway. Two tokens and two presentations meet in every order.
* PublishedKeys: two processes, two keys each of which one live process at a time has made
  its second (`MaxRotated`: no step relates the rotations of two processes), one unexpired
  token at a time (nothing reads the tokens but the properties); time for lease and grace to pass; two attempts instead
  of five, enough for a conflict that is retried and one that gives up. `MaxGap` is the
  deployment's promise that a live replica publishes once per lease; without it a healthy
  replica's entries lapse, as the code intends.
* RemoteKeys: three calls (one fills the cache, two overtake each other), two kids, and a
  clock that passes each bound by a second. `MaxChanges` 2: one kid joins and leaves, or two
  kids change once; each property is about one kid. `FetchTime` is the client's timeout,
  with the time it takes to use the answer, and `Delay` the longest from a reading of the
  clock to the lock. Both are parameters of the bounds proved, not assumptions: whatever
  they are in a deployment, the bounds hold with them. That lastTry goes back takes three
  calls, and a fourth to profit from it: that one is left to the proof. The finding of
  stale_ceiling needs no delay.
* RequestProxy: one request. Requests share the table and the policy and write neither, so
  two of them are two independent copies. The four tables hold a wildcard with a long path
  against an exact name, a pinned tenant, a header only the other route fills, a table that
  does not validate and an empty one; the seven peers every refusal of Identify and every
  set of groups the policies tell apart; the five policies a default tenant, a default
  role, tagged nodes, a repeated id with an empty role, and no tenant at all, which is
  refused at the start. Table and peer change any number of times.
* Controller: two routes of two namespaces, one with nine rules that cover the refusals,
  the other in versions refused for host, audience or claim headers; a strict, an open and
  an invalid version of the Gateway. `MaxEdits` 2 and `MaxFaults` 1: an edit during a
  reconcile and another during the next, with a failed write between. Numbers in route
  names are below ten, so that they sort as text does. A deleted Gateway does not return.
* RouteTable: two values of what is compared, two of ClaimHeaders, two crashes, so that a
  cache that could not be read is met again, and two outages.

Bounds in guards: `MaxTime`, `MaxChanges`, `MaxKeys`, `MaxRotated`, `MaxTokens`, `MaxCrashes`, `MaxOutages`, `MaxEdits`, `MaxFaults`. Runs with
a clock that stops set `CHECK_DEADLOCK FALSE`, and so does the controller's, which rests
when nobody changes anything; WaitGate, RouteTable and RequestProxy check deadlock.

### Fairness

* WaitGate: weak fairness of every step of a call that waits or leaves and of every step of
  a goroutine: Go runs what can run, and timers fire. `StopProbing` is strongly fair: when
  the timer and the cancellation are both ready, `select` chooses at random, so it does
  not choose the timer for ever. Nothing is assumed of arrivals, contexts or backends.
* RouteTable: weak fairness of the process's own steps (it is restarted, its ticker fires,
  Refresh ends). Nothing is assumed of controller, mount or disk.
* Controller: weak fairness of the worker's steps: the manager takes a key that is in its
  queue and a reconcile that has begun goes on. Render's is stated over `pc` alone: it is
  the only step from "render" to "tell" and always possible there, and so TLC need not
  translate to decide whether it is enabled. Edits and faults are bounded and not fair.

## Proofs

`WaitGateProofs`, `KeyRotationProofs`, `RequestProxyProofs`, `RouteTableProofs`,
`RemoteKeysProofs`, `PublishedKeysProofs` and `ControllerProofs` prove every safety property
of their modules' passing runs, action properties included, for all values of the constants
that satisfy the module's assumption: positive limits, finite sets of calls and backends;
overlap above lifetime, positive leeways, a maximal lifetime not below the lifetime; route
tables and paths that are sequences; a table that is not the mark for "no file"; of the
replicas, a grace above the token lifetime and a publish at least once per lease; and of the
controller, HTTPRoutes with lists of rules and of matches, and versions of one Gateway that
keep its name.

The inductive invariants are the operators `IInv` of the modules.

* WaitGate: NoStrandedWaiter is not inductive. It needs that a check marked as running has
  a live goroutine that is the one `changed` names (CheckRuns), that a waiting call waits
  on a closed channel or on the current one (WaitsOnBatch), that a channel is closed only
  as its goroutine returns (ClosedAtExit), that calls which have not registered own nothing
  (FreshCall, HasRecord), and that the counters equal the sets they count
  (CountsMatchDemand): only then does `pending = 1` in Leave mean that nobody else waits.
* KeyRotation: UnexpiredVerifies needs WindowOutlastsToken: the key of an unexpired token is
  current or its window ends after the token's expiry. At `Rotate` it follows from
  StampedInPast (no token expires later than now + TTL) and Overlap > TTL.
  OnceBeforeExpiry needs GuardRemembers: what was accepted in its lifetime is remembered
  until it expires.
* RequestProxy: TenantStays needs Progress: who waits holds claims with a tenant, and the
  second Mint, asked for that tenant by name, can only answer with it (MintEstablishes).
  Progress also keeps what the refinement needs: nothing is sent before the end, and the
  route is the one Match gives for the table and query of the request.

`Implements` proves that RequestProxy refines Forwarding. Arrive is Bind, an answer without
a forward is Refuse, Forward is Send, a replaced table is Swap, a changed peer Learn, and
the steps into and out of the wait are not seen. Send rests on two facts about operators,
each for every input: Match returns a route that is Preferred (MatchIsPreferred; the best
of three orders exists by the least-number principle, `LeastNumber`), and a Mint that
succeeds names a tenant of the policy with roles the caller has there (MintEstablishes).

NeverReadmitted is an action property and follows from the order of the ring's keys.

* RouteTable: ServesWhatItHolds and CacheCoversRestart speak of "idle" only. Handover says
  at each step of a start and of a read which of `held`, `got`, `cache` and `served` agree,
  Cached how far the cache is behind, and EmptyWasMounted that a table without routes comes
  from nowhere but the mounted file. Cached ends when a read or a write of the cache fails
  and holds again after the next that succeeds. OutageKeepsRoutes follows from Handover and
  EmptyWasMounted; it does not say that a crash keeps the routes, which are then gone until
  the next start has read the cache, and longer if it cannot.
* RemoteKeys: answers may be installed in any order, so nothing can be said of the order of
  sets. AnswersHonest says instead what an answer knows about each kid at the time its
  request was sent, CallsTimed that this was at most FetchTime ago. CacheIsRecent and
  CacheIsComplete carry both to the cached set and `fetchedAt`; FoundStale carries the first
  to a call that goes on with what it read before its fetch. RefetchesSpaced, an
  action property, needs that `lastTry` is not older than the last request for an unknown
  kid by more than Delay, though it can go back (TriesNoted).
* PublishedKeys, any names: OwnTokensVerify needs Tokens (the window of a retired key
  outlasts its tokens, at Rotate because Overlap > TTL). LivePeersKept needs Drafts (a Save
  on the store's own version has every peer's entry that has not lapsed) and Published (the
  lease of the last publish is in the store; a Save sent by a dead process of the same name
  is outdated by then). The lease has not ended because a publish is never more than MaxGap
  ago, and MaxGap <= Lease.
* PublishedKeys, names that differ: StoredUntilExpiry and ServedUntilExpiry are proved from
  `IInvNamed` under NamesDiffer. Without it StoredUntilExpiry is false, as pod_restart
  shows: a restart under the same name replaces the entries of the process before it.
  Leased says that leases plus grace outlast the tokens of the key, OwnKept that a draft has
  every key of its owner that is stored and wanted, Made that no entry is for a key of the
  future, and Serving that what a process serves from its last publish lapses neither before
  the token expires nor, while the owner may sign more, before the next publish.
  A key is wanted when a token of it is unexpired or it is current: the second part makes
  the invariant inductive, since a key may be used first after it was published.

* Controller: AcceptedMeansServed and NothingBorrowed speak of what Render has just made.
  Planned keeps, as long as Reconcile tells the routes, that the plan is Translate of the
  Gateway and the list it read, and of the Services unless they have changed since; Listed,
  that the list has no route twice, in whatever order; Progress, that the loops over routes
  and objects are where pc says. The rest is about operators: what the table holds is the
  union over the routes of what each one gives (Translated), a route in it comes from a rule
  that was not refused (RouteOwes) under names both sides have (HostnamesWithin), and no
  error is for a route that is told it is accepted (AcceptedHasNoErr).
  Translated needs that flattening and sorting neither lose nor invent an element. An
  induction over the length is not to be had, so FlattenMembers and SortMembers take the
  least length at which it fails (`LeastNumber`) and refute it. For the same reason
  `SortedByName` is written as an insertion sort with a recursive function; it gives what
  sort.SliceStable gives.

Only model-checked: liveness (WaitersServed, ProbersStop, Converges, RoutesArrive,
StatusFollows, Settles), which is outside the prover's reach; and that `SortedByName` puts
the table in order, which RoutesArrive depends on and no safety property does.

## Not modelled

* Byte-level JOSE and JWK encoding, HTTP and Kubernetes transport, logging, metrics text.
* Flags, servers and shutdown of the daemons: a sequence without another actor. The order of
  the data plane's start, which matters, is in RouteTable and PublishedKeys.
* `tsnetid/authkey.go`: two OAuth calls, and a comparison of the clock with a value fixed at
  the start.
* The text of the objects in `provision.go` beyond names, issuer and wait; its Config.
* `GatewayClassReconciler`: it writes one condition that nothing in the repository reads.
* `Published.Refresh`, `gateway.Watcher`, `GroupTenantResolver`, `StaticGrant`: no program
  of the repository calls them.
* The verifier's issuer, audience and subject tests, each one comparison with a constant,
  and claims the signer would not make.
* Demo and load-test programs.

## Plan

1. **Done**: WaitGate, KeyRotation, RequestProxy with Router, Grants and Forwarding,
   RouteTable, RemoteKeys, PublishedKeys, and Controller with Translate: modelled, checked,
   and their safety properties proved.
2. Left: that `SortedByName` sorts and is stable, so that a table does not depend on the
   order of a list; action properties of Controller, such as what a condition that has been
   written may say of a route.
