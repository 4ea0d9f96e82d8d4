------------------------------ MODULE WaitGate ------------------------------
(***************************************************************************)
(* proxy/wait.go: the bounded gate that holds an authorized request until  *)
(* a probe has found its backend ready.                                    *)
(*                                                                         *)
(* A member of Request is one call of Acquire.  Every call that finds no   *)
(* check running makes one channel, one cancellable context and one        *)
(* goroutine, always together, so the three are named by the request that  *)
(* made them: d.changed = r, close(r), cancel(r), and prober[r] is the     *)
(* program counter of `go g.check(..., d.changed)`.                        *)
(***************************************************************************)
EXTENDS Integers, FiniteSets

CONSTANTS
    Request,        \* calls of Acquire
    Backend,        \* the values of r.Upstream.String()
    MaxPending,     \* WaitConfig.MaxPending
    MaxBackends,    \* WaitConfig.MaxBackends
    None            \* nil

\* NewWaitGate refuses limits that are not positive.
ASSUME LimitsPositive ==
    /\ MaxPending \in Nat \ {0}
    /\ MaxBackends \in Nat \ {0}

ASSUME FiniteInstance ==
    /\ IsFiniteSet(Request)
    /\ IsFiniteSet(Backend)
    /\ None \notin Request
    /\ None \notin Backend

VARIABLES
    pc,         \* where each call of Acquire is
    on,         \* the backend whose demand record d the call works on
    ready,      \* the call's local `ready := d.changed`
    ended,      \* calls whose context is done (timeout, or the client left)
    known,      \* the keys of g.backends
    pending,    \* d.pending
    active,     \* d.active
    checking,   \* the backends for which d.checking holds
    changed,    \* d.changed, which also names d.cancel
    closed,     \* channels that were closed
    cancelled,  \* probe contexts that were cancelled
    prober,     \* where each goroutine running check is
    up          \* the backends a probe of which would succeed now

vars == <<pc, on, ready, ended, known, pending, active, checking, changed,
          closed, cancelled, prober, up>>

\* "wait": blocked in the select.  "admitted" / "failed": out of the select
\* with err = nil / err # nil, before taking the lock again.  "active": holds a
\* release function.  "over": released, or Acquire returned an error.
CallState == {"new", "wait", "admitted", "failed", "active", "over"}

\* "probe": inside cfg.Ready.  "found": Ready returned nil, the lock is not
\* taken yet.  "sleep": in the select between two probes.
ProberState == {"none", "probe", "found", "sleep", "exit"}

TypeOK ==
    /\ pc \in [Request -> CallState]
    /\ on \in [Request -> Backend \cup {None}]
    /\ ready \in [Request -> Request \cup {None}]
    /\ ended \subseteq Request
    /\ known \subseteq Backend
    /\ pending \in [Backend -> Nat]
    /\ active \in [Backend -> Nat]
    /\ checking \subseteq Backend
    /\ changed \in [Backend -> Request \cup {None}]
    /\ closed \subseteq Request
    /\ cancelled \subseteq Request
    /\ prober \in [Request -> ProberState]
    /\ up \subseteq Backend

Init ==
    /\ pc = [r \in Request |-> "new"]
    /\ on = [r \in Request |-> None]
    /\ ready = [r \in Request |-> None]
    /\ ended = {}
    /\ known = {}
    /\ pending = [b \in Backend |-> 0]
    /\ active = [b \in Backend |-> 0]
    /\ checking = {}
    /\ changed = [b \in Backend |-> None]
    /\ closed = {}
    /\ cancelled = {}
    /\ prober = [r \in Request |-> "none"]
    /\ up \in SUBSET Backend

------------------------------------------------------------------------------
(* The environment. *)

\* The call's context ends: cfg.Timeout passed, or the client went away.
ContextEnds(r) ==
    /\ pc[r] \in {"new", "wait"}
    /\ r \notin ended
    /\ ended' = ended \cup {r}
    /\ UNCHANGED <<pc, on, ready, known, pending, active, checking, changed,
                   closed, cancelled, prober, up>>

\* A backend starts or stops answering probes.
BackendFlips(b) ==
    /\ up' = IF b \in up THEN up \ {b} ELSE up \cup {b}
    /\ UNCHANGED <<pc, on, ready, ended, known, pending, active, checking,
                   changed, closed, cancelled, prober>>

------------------------------------------------------------------------------
(* Acquire up to the select. *)

NoRoomForBackend(b) == b \notin known /\ Cardinality(known) >= MaxBackends

\* Mutation: the pending limit is off by one.
NoRoomToWaitOffByOne(b) == pending[b] > MaxPending

NoRoomToWait(b) == pending[b] >= MaxPending

\* Acquire returns before it takes the lock: the context was already done.
RefuseEnded(r) ==
    /\ pc[r] = "new"
    /\ r \in ended
    /\ pc' = [pc EXCEPT ![r] = "over"]
    /\ UNCHANGED <<on, ready, ended, known, pending, active, checking, changed,
                   closed, cancelled, prober, up>>

\* "wait gate: backend limit": nothing is recorded.
RefuseBackend(r, b) ==
    /\ pc[r] = "new"
    /\ NoRoomForBackend(b)
    /\ pc' = [pc EXCEPT ![r] = "over"]
    /\ UNCHANGED <<on, ready, ended, known, pending, active, checking, changed,
                   closed, cancelled, prober, up>>

\* "wait gate: pending limit": the backend's record was looked up (or made).
RefusePending(r, b) ==
    /\ pc[r] = "new"
    /\ ~NoRoomForBackend(b)
    /\ NoRoomToWait(b)
    /\ pc' = [pc EXCEPT ![r] = "over"]
    /\ known' = known \cup {b}
    /\ UNCHANGED <<on, ready, ended, pending, active, checking, changed,
                   closed, cancelled, prober, up>>

\* The call registers its demand and, if no check is running, makes a channel
\* and a context and starts a goroutine; otherwise it joins the running batch.
Register(r, b) ==
    /\ pc[r] = "new"
    /\ ~NoRoomForBackend(b)
    /\ ~NoRoomToWait(b)
    /\ pc' = [pc EXCEPT ![r] = "wait"]
    /\ on' = [on EXCEPT ![r] = b]
    /\ known' = known \cup {b}
    /\ pending' = [pending EXCEPT ![b] = @ + 1]
    /\ IF b \in checking
       THEN /\ ready' = [ready EXCEPT ![r] = changed[b]]
            /\ UNCHANGED <<checking, changed, prober>>
       ELSE /\ ready' = [ready EXCEPT ![r] = r]
            /\ checking' = checking \cup {b}
            /\ changed' = [changed EXCEPT ![b] = r]
            /\ prober' = [prober EXCEPT ![r] = "probe"]
    /\ UNCHANGED <<ended, active, closed, cancelled, up>>

------------------------------------------------------------------------------
(* The select and the rest of Acquire. *)

\* Mutation: the ctx.Done branch forgets to set err.
SelectIgnoresContext(r) ==
    /\ pc[r] = "wait"
    /\ r \in ended \/ ready[r] \in closed
    /\ pc' = [pc EXCEPT ![r] = "admitted"]
    /\ UNCHANGED <<on, ready, ended, known, pending, active, checking, changed,
                   closed, cancelled, prober, up>>

\* Both branches of the select evaluate ctx.Err(), so a call whose context is
\* done fails even when its channel was closed and the ready branch was taken.
Select(r) ==
    /\ pc[r] = "wait"
    /\ r \in ended \/ ready[r] \in closed
    /\ pc' = [pc EXCEPT ![r] = IF r \in ended THEN "failed" ELSE "admitted"]
    /\ UNCHANGED <<on, ready, ended, known, pending, active, checking, changed,
                   closed, cancelled, prober, up>>

\* Mutation: nobody stops the check.
NobodyStops(b) == FALSE

\* Mutation: every leaving call stops the check.
AnyoneStops(b) == b \in checking

\* The last pending call of a backend stops the check it leaves behind.
LastToLeave(b) == pending[b] = 1 /\ b \in checking

\* Mutation: a failed call returns without taking its demand back.
LeaveKeepsFailedDemand(r) ==
    LET b == on[r] IN
    /\ pc[r] \in {"admitted", "failed"}
    /\ IF pc[r] = "admitted"
       THEN /\ pending' = [pending EXCEPT ![b] = @ - 1]
            /\ active' = [active EXCEPT ![b] = @ + 1]
            /\ pc' = [pc EXCEPT ![r] = "active"]
       ELSE /\ pc' = [pc EXCEPT ![r] = "over"]
            /\ UNCHANGED <<pending, active>>
    /\ UNCHANGED <<on, ready, ended, known, checking, changed, closed,
                   cancelled, prober, up>>

\* The second critical section.
Leave(r) ==
    LET b == on[r] IN
    /\ pc[r] \in {"admitted", "failed"}
    /\ pending' = [pending EXCEPT ![b] = @ - 1]
    /\ IF LastToLeave(b)
       THEN /\ cancelled' = cancelled \cup {changed[b]}
            /\ checking' = checking \ {b}
       ELSE UNCHANGED <<cancelled, checking>>
    /\ IF pc[r] = "admitted"
       THEN /\ active' = [active EXCEPT ![b] = @ + 1]
            /\ pc' = [pc EXCEPT ![r] = "active"]
       ELSE /\ pc' = [pc EXCEPT ![r] = "over"]
            /\ UNCHANGED active
    /\ UNCHANGED <<on, ready, ended, known, changed, closed, prober, up>>

\* Mutation: without sync.Once a second call of release counts down again.
ReleaseNotOnce(r) ==
    /\ pc[r] = "active"
    /\ active' = [active EXCEPT ![on[r]] = @ - 1]
    /\ UNCHANGED <<pc, on, ready, ended, known, pending, checking, changed,
                   closed, cancelled, prober, up>>

\* The release function; sync.Once makes every later call of it a no-op.
Release(r) ==
    /\ pc[r] = "active"
    /\ active' = [active EXCEPT ![on[r]] = @ - 1]
    /\ pc' = [pc EXCEPT ![r] = "over"]
    /\ UNCHANGED <<on, ready, ended, known, pending, checking, changed, closed,
                   cancelled, prober, up>>

------------------------------------------------------------------------------
(* check, the goroutine made by call g.  Its demand record is on[g]'s. *)

\* cfg.Ready returns nil.  It may do so even when g was cancelled meanwhile.
ProbeSucceeds(g) ==
    /\ prober[g] = "probe"
    /\ on[g] \in up
    /\ prober' = [prober EXCEPT ![g] = "found"]
    /\ UNCHANGED <<pc, on, ready, ended, known, pending, active, checking,
                   changed, closed, cancelled, up>>

\* cfg.Ready returns an error: the backend is not ready, or g was cancelled.
ProbeFails(g) ==
    /\ prober[g] = "probe"
    /\ on[g] \notin up \/ g \in cancelled
    /\ prober' = [prober EXCEPT ![g] = "sleep"]
    /\ UNCHANGED <<pc, on, ready, ended, known, pending, active, checking,
                   changed, closed, cancelled, up>>

\* Mutation: the generation test is dropped.
AnyCheckRunning(g, b) == b \in checking

\* `if d.checking && d.changed == ready`: is g still the backend's check?
IsCurrent(g, b) == b \in checking /\ changed[b] = g

\* The goroutine takes the lock, signals its batch if it is still the current
\* one, and returns.  d.cancel is the function stored last, changed[b]'s.
Signal(g) ==
    LET b == on[g] IN
    /\ prober[g] = "found"
    /\ prober' = [prober EXCEPT ![g] = "exit"]
    /\ IF IsCurrent(g, b)
       THEN /\ closed' = closed \cup {g}
            /\ checking' = checking \ {b}
            /\ cancelled' = cancelled \cup {changed[b]}
       ELSE UNCHANGED <<closed, checking, cancelled>>
    /\ UNCHANGED <<pc, on, ready, ended, known, pending, active, changed, up>>

\* The timer fires and the goroutine probes again.
ProbeAgain(g) ==
    /\ prober[g] = "sleep"
    /\ prober' = [prober EXCEPT ![g] = "probe"]
    /\ UNCHANGED <<pc, on, ready, ended, known, pending, active, checking,
                   changed, closed, cancelled, up>>

\* The goroutine sees its context done and returns.
StopProbing(g) ==
    /\ prober[g] = "sleep"
    /\ g \in cancelled
    /\ prober' = [prober EXCEPT ![g] = "exit"]
    /\ UNCHANGED <<pc, on, ready, ended, known, pending, active, checking,
                   changed, closed, cancelled, up>>

------------------------------------------------------------------------------
CallStep(r) ==
    \/ RefuseEnded(r)
    \/ \E b \in Backend : RefuseBackend(r, b) \/ RefusePending(r, b) \/ Register(r, b)
    \/ Select(r)
    \/ Leave(r)
    \/ Release(r)

ProberStep(g) ==
    \/ ProbeSucceeds(g)
    \/ ProbeFails(g)
    \/ Signal(g)
    \/ ProbeAgain(g)
    \/ StopProbing(g)

Environment ==
    \/ \E r \in Request : ContextEnds(r)
    \/ \E b \in Backend : BackendFlips(b)

Next ==
    \/ \E r \in Request : CallStep(r) \/ ProberStep(r)
    \/ Environment

Spec == Init /\ [][Next]_vars

\* What the Go scheduler and the timers give: a goroutine that can run runs.
\* Nothing is assumed of arrivals, of contexts or of backends.  A cancelled
\* goroutine whose timer also fired picks a branch of its select at random,
\* so it does not ignore its cancellation for ever: StopProbing is strong.
Fairness ==
    \A r \in Request :
        /\ WF_vars(Select(r))
        /\ WF_vars(Leave(r))
        /\ WF_vars(ProbeSucceeds(r))
        /\ WF_vars(ProbeFails(r))
        /\ WF_vars(Signal(r))
        /\ WF_vars(ProbeAgain(r))
        /\ SF_vars(StopProbing(r))

FairSpec == Spec /\ Fairness

------------------------------------------------------------------------------
(* Properties. *)

Pending == {"wait", "admitted", "failed"}

Live == {"probe", "found", "sleep"}

PendingOn(b) == {r \in Request : on[r] = b /\ pc[r] \in Pending}

ActiveOn(b) == {r \in Request : on[r] = b /\ pc[r] = "active"}

\* The exported gauges tell the autoscaler the truth: however calls time out,
\* are admitted, leave and release in between, d.pending is the number of calls
\* between their two critical sections and d.active the number of unreleased
\* ones.  A drifting gauge would keep a backend scaled up, or suspend it under
\* a live connection.
CountsMatchDemand ==
    \A b \in Backend :
        /\ pending[b] = Cardinality(PendingOn(b))
        /\ active[b] = Cardinality(ActiveOn(b))

\* No call waits on a channel nobody will close: it was closed already, or the
\* goroutine that closes it is running, uncancelled, and will still find itself
\* current.  ("A cancelled generation must never signal a newer batch", and a
\* leaving call must never stop the check another call still waits for.)
NoStrandedWaiter ==
    \A r \in Request : pc[r] = "wait" =>
        \/ ready[r] \in closed
        \/ /\ IsCurrent(ready[r], on[r])
           /\ prober[ready[r]] \in Live
           /\ ready[r] \notin cancelled

\* A goroutine that still probes uncancelled is its backend's one current check,
\* and some call pends there: probes are shared, and none outlives its demand.
ProbeOnlyOnDemand ==
    \A g \in Request : prober[g] \in Live /\ g \notin cancelled =>
        /\ IsCurrent(g, on[g])
        /\ pending[on[g]] > 0

\* A call gets through only on a channel that was closed, and a channel is
\* closed only by its own goroutine returning from a successful probe, never
\* because the call's own time ran out.
AdmittedOnlyAfterProbe ==
    \A r \in Request : pc[r] \in {"admitted", "active"} =>
        /\ ready[r] \in closed
        /\ prober[ready[r]] = "exit"
        /\ on[ready[r]] = on[r]

\* The configured bounds hold in every interleaving, also while calls that were
\* signalled have not left yet and a new batch is already forming.
LimitsHold ==
    /\ \A b \in Backend : pending[b] <= MaxPending
    /\ Cardinality(known) <= MaxBackends
    /\ \A r \in Request : pc[r] \in Pending \cup {"active"} => on[r] \in known

\* A call whose backend stays ready is not left waiting, even if its context
\* never ends.
WaitersServed ==
    \A r \in Request : \A b \in Backend :
        (pc[r] = "wait" /\ on[r] = b /\ [](b \in up)) ~> pc[r] # "wait"

\* A probing goroutine whose backend has no pending call left ends, or a new
\* call arrives: no goroutine leaks.
ProbersStop ==
    \A g \in Request : \A b \in Backend :
        (prober[g] \in Live /\ on[g] = b /\ pending[b] = 0)
            ~> (prober[g] = "exit" \/ pending[b] > 0)

------------------------------------------------------------------------------
(* The inductive invariant: what the properties above rest on. *)

\* A call that has not registered has made no channel, context or goroutine.
FreshCall ==
    \A r \in Request : pc[r] = "new" =>
        prober[r] = "none" /\ r \notin closed /\ r \notin cancelled

\* A registered call and a running goroutine have a demand record.
HasRecord ==
    \A r \in Request :
        pc[r] \in Pending \cup {"active"} \/ prober[r] # "none" => on[r] \in Backend

\* While d.checking holds, d.changed is an open channel whose goroutine works
\* for this backend, and some call pends.
CheckRuns ==
    \A b \in checking :
        /\ changed[b] \in Request
        /\ on[changed[b]] = b
        /\ changed[b] \notin closed
        /\ changed[b] \notin cancelled
        /\ prober[changed[b]] \in Live
        /\ pending[b] > 0

\* The channel a call holds belongs to its backend, and while the call waits it
\* is closed or current.
WaitsOnBatch ==
    \A r \in Request : pc[r] \in Pending \cup {"active"} =>
        /\ ready[r] \in Request
        /\ on[ready[r]] = on[r]
        /\ prober[ready[r]] # "none"
        /\ pc[r] = "wait" => ready[r] \in closed \/ IsCurrent(ready[r], on[r])
        /\ pc[r] \in {"admitted", "active"} => ready[r] \in closed

\* A channel is closed as its goroutine returns.
ClosedAtExit == \A g \in closed : prober[g] = "exit"

Structure ==
    FreshCall /\ HasRecord /\ CheckRuns /\ WaitsOnBatch /\ ClosedAtExit

IInv == TypeOK /\ Structure /\ ProbeOnlyOnDemand /\ CountsMatchDemand /\ LimitsHold

=============================================================================
