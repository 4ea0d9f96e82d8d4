--------------------------- MODULE PublishedKeys ---------------------------
(***************************************************************************)
(* keys/shared.go and k8sstore: replicas that sign with keys of their own  *)
(* and publish the public halves in one ConfigMap under optimistic         *)
(* concurrency, so that each can serve the union.                          *)
(*                                                                         *)
(* A member of Process is one run of a daemon: it starts once and stops    *)
(* once.  NameOf gives the replica name it publishes under (POD_NAME), so  *)
(* a restart is a second process, with the same name or another.           *)
(***************************************************************************)
EXTENDS Integers, FiniteSets

CONSTANTS
    Process,
    NameOf,     \* the replica name of each process
    TTL,        \* token lifetime
    Overlap,    \* keys.Set.overlap
    Lease,      \* Published.lease
    Grace,      \* Published.grace
    Attempts,   \* publishOnce calls in one Publish; 5 in the code
    MaxGap,     \* environment: the longest a live process goes unpublished
    MaxTime,    \* bound: the clock stops here
    MaxKeys,    \* bound: keys a process makes
    MaxRotated, \* bound: live processes that have rotated
    MaxTokens   \* bound: unexpired tokens at a time; no step depends on them

\* What the daemons check or default, and one promise of the deployment: Run
\* publishes every Lease / 3, "so two refreshes can fail", hence a live replica
\* publishes at least once per Lease.
ASSUME Configuration ==
    /\ TTL \in Nat \ {0}
    /\ Overlap \in Nat /\ Overlap > TTL
    /\ Lease \in Nat \ {0}
    /\ Grace \in Nat /\ Grace > TTL
    /\ Attempts \in Nat \ {0}
    /\ MaxGap \in Nat \ {0} /\ MaxGap <= Lease /\ MaxGap <= Grace
    /\ MaxTime \in Nat
    /\ MaxKeys \in Nat \ {0}
    /\ MaxRotated \in Nat
    /\ MaxTokens \in Nat \ {0}

VARIABLES
    now,
    state,      \* "off", "up" or "gone"
    current,    \* local Set.current: how many keys the process has made
    retires,    \* when each retired key's window closes (0: not retired, or closed)
    tokens,     \* unexpired tokens: the key that signed, and exp
    store,      \* the entries in the ConfigMap
    outdated,   \* processes about to save on a version the store has left
    phase,      \* where Publish is: "idle", "save" or "backoff"
    next,       \* publishOnce's `next`
    builtAt,    \* publishOnce's `now`
    tries,      \* calls of publishOnce in this Publish
    merged,     \* Published.merged
    lastPub     \* when the last successful publish (or the start) was

localVars == <<state, current, retires, tokens>>
pubVars == <<phase, next, builtAt, tries, merged, lastPub>>
storeVars == <<store, outdated>>
vars == <<now, state, current, retires, tokens, store, outdated, phase, next,
          builtAt, tries, merged, lastPub>>

Key == Process \X (1..MaxKeys)

Owner(k) == k[1]

Entry == [key : Key, replica : {NameOf[p] : p \in Process}, lease : Nat]

TypeOK ==
    /\ now \in Nat
    /\ state \in [Process -> {"off", "up", "gone"}]
    /\ current \in [Process -> 0..MaxKeys]
    /\ retires \in [Key -> Nat]
    /\ tokens \subseteq [key : Key, exp : Nat]
    /\ store \subseteq Entry
    /\ outdated \subseteq Process
    /\ phase \in [Process -> {"idle", "save", "backoff"}]
    /\ next \in [Process -> SUBSET Entry]
    /\ builtAt \in [Process -> Nat]
    /\ tries \in [Process -> 0..Attempts]
    /\ merged \in [Process -> SUBSET Entry]
    /\ lastPub \in [Process -> Nat]

Init ==
    /\ now = 0
    /\ state = [p \in Process |-> "off"]
    /\ current = [p \in Process |-> 0]
    /\ retires = [k \in Key |-> 0]
    /\ tokens = {}
    /\ store = {}
    /\ outdated = {}
    /\ phase = [p \in Process |-> "idle"]
    /\ next = [p \in Process |-> {}]
    /\ builtAt = [p \in Process |-> 0]
    /\ tries = [p \in Process |-> 0]
    /\ merged = [p \in Process |-> {}]
    /\ lastPub = [p \in Process |-> 0]

------------------------------------------------------------------------------
(* The environment: time, starts and stops. *)

\* Time passes, but not so long that a live process overruns MaxGap.  Expired
\* tokens and closed windows are forgotten: nothing asks for them again.
Tick ==
    /\ now < MaxTime
    /\ \A p \in Process : state[p] = "up" => now < lastPub[p] + MaxGap
    /\ now' = now + 1
    /\ tokens' = {t \in tokens : t.exp >= now'}
    /\ retires' = [k \in Key |-> IF retires[k] <= now' THEN 0 ELSE retires[k]]
    /\ UNCHANGED <<state, current, storeVars, pubVars>>

\* A process starts: NewSet makes its first key.  Two processes never run under
\* one name at once: a pod is replaced, not duplicated.
Start(p) ==
    /\ state[p] = "off"
    /\ \A q \in Process : NameOf[q] = NameOf[p] => state[q] # "up"
    /\ state' = [state EXCEPT ![p] = "up"]
    /\ current' = [current EXCEPT ![p] = 1]
    /\ lastPub' = [lastPub EXCEPT ![p] = now]
    /\ UNCHANGED <<now, retires, tokens, storeVars, phase, next, builtAt, tries, merged>>

\* A process crashes or is stopped, wherever its Publish is, and its memory is
\* gone.  A Save it has sent may still arrive: see SaveUnanswered.
Stop(p) ==
    /\ state[p] = "up"
    /\ state' = [state EXCEPT ![p] = "gone"]
    /\ current' = [current EXCEPT ![p] = 0]
    /\ retires' = [k \in Key |-> IF Owner(k) = p THEN 0 ELSE retires[k]]
    /\ merged' = [merged EXCEPT ![p] = {}]
    /\ lastPub' = [lastPub EXCEPT ![p] = 0]
    /\ phase' = [phase EXCEPT ![p] = IF @ = "save" THEN @ ELSE "idle"]
    /\ builtAt' = [builtAt EXCEPT ![p] = 0]
    /\ tries' = [tries EXCEPT ![p] = 0]
    /\ UNCHANGED <<now, tokens, storeVars, next>>

------------------------------------------------------------------------------
(* The local key set and the signer. *)

\* rotateLoop: Set.Rotate.  Nothing is published by it.
Rotate(p) ==
    /\ state[p] = "up"
    /\ current[p] < MaxKeys
    /\ Cardinality({q \in Process : current[q] > 1} \cup {p}) <= MaxRotated
    /\ retires' = [retires EXCEPT ![<<p, current[p]>>] = now + Overlap]
    /\ current' = [current EXCEPT ![p] = @ + 1]
    /\ UNCHANGED <<now, state, tokens, storeVars, pubVars>>

\* Signer.Mint with the local current key.
Mint(p) ==
    /\ state[p] = "up"
    /\ Cardinality(tokens) < MaxTokens
    /\ tokens' = tokens \cup {[key |-> <<p, current[p]>>, exp |-> now + TTL]}
    /\ UNCHANGED <<now, state, current, retires, storeVars, pubVars>>

\* Set.JWKS: the current key and the retired ones whose window is open.
LocalKeys(p) ==
    {k \in Key : /\ Owner(k) = p
                 /\ \/ k[2] = current[p]
                    \/ k[2] < current[p] /\ retires[k] > now}

------------------------------------------------------------------------------
(* Published *)

\* Mutation: an entry is dropped when its lease ends, without the grace.
LapsedAtLease(e) == e.lease < now

\* Lease.Add(grace).Before(now)
Lapsed(e) == e.lease + Grace < now

\* Mutation: the union alone, so a key is served only once it is published.
JWKSWithoutLocal(p) == {e.key : e \in {f \in merged[p] : ~Lapsed(f)}}

\* Published.JWKS: local keys first, then what the last publish read.
JWKS(p) == LocalKeys(p) \cup {e.key : e \in {f \in merged[p] : ~Lapsed(f)}}

\* Mutation: a replica that publishes cleans up everybody's superseded keys: it
\* keeps one entry per peer.
BuildNextNewestOnly(p, stored) ==
    {e \in stored : /\ e.replica # NameOf[p] /\ ~Lapsed(e)
                    /\ \A f \in stored : f.replica = e.replica => f.key[2] <= e.key[2]}
    \cup {[key |-> k, replica |-> NameOf[p], lease |-> now + Lease] : k \in LocalKeys(p)}

\* publishOnce up to the Save: peers' entries that have not lapsed, and this
\* process's local keys (mineNow) in place of every entry under its name.
BuildNext(p, stored) ==
    {e \in stored : e.replica # NameOf[p] /\ ~Lapsed(e)}
    \cup {[key |-> k, replica |-> NameOf[p], lease |-> now + Lease] : k \in LocalKeys(p)}

\* publishOnce loads and builds.  The Save succeeds only on the version loaded
\* here, so reading the clock and the local keys in the same step is no loss.
\* The first Load of a Publish that fails changes nothing: see LoadFails.
Load(p) ==
    /\ state[p] = "up"
    /\ phase[p] \in {"idle", "backoff"}
    /\ phase' = [phase EXCEPT ![p] = "save"]
    /\ next' = [next EXCEPT ![p] = BuildNext(p, store)]
    /\ builtAt' = [builtAt EXCEPT ![p] = now]
    /\ tries' = [tries EXCEPT ![p] = @ + 1]
    /\ UNCHANGED <<now, localVars, storeVars, merged, lastPub>>

\* Mutation: Save does not send the version, so the store takes any write.
AcceptsAnyWrite(p) == phase[p] = "save"

\* Save sends the version that was loaded, or creates where there was none, and
\* the API server (external) applies it only on the version it holds.
AcceptsWrite(p) == phase[p] = "save" /\ p \notin outdated

\* Applying p's write outdates every other version that was loaded.
ApplyWrite(p) ==
    /\ store' = next[p]
    /\ outdated' = {q \in Process : phase[q] = "save"} \ {p}

\* Publish returns; publishOnce's local variables are gone.
Return(p) ==
    /\ phase' = [phase EXCEPT ![p] = "idle"]
    /\ next' = [next EXCEPT ![p] = {}]
    /\ builtAt' = [builtAt EXCEPT ![p] = 0]
    /\ tries' = [tries EXCEPT ![p] = 0]

\* A reload after a conflict fails, or the context ends in the backoff: Publish
\* gives up.
LoadFails(p) ==
    /\ state[p] = "up"
    /\ phase[p] = "backoff"
    /\ Return(p)
    /\ UNCHANGED <<now, localVars, storeVars, merged, lastPub>>

\* Save returns nil: `next` becomes the set this process serves.
SaveApplied(p) ==
    /\ state[p] = "up"
    /\ AcceptsWrite(p)
    /\ ApplyWrite(p)
    /\ merged' = [merged EXCEPT ![p] = next[p]]
    /\ lastPub' = [lastPub EXCEPT ![p] = builtAt[p]]
    /\ Return(p)
    /\ UNCHANGED <<now, localVars>>

\* The write is applied but no answer arrives: Save returns an error that is not
\* ErrConflict and Publish gives up, or the process is gone.
SaveUnanswered(p) ==
    /\ AcceptsWrite(p)
    /\ ApplyWrite(p)
    /\ Return(p)
    /\ UNCHANGED <<now, localVars, merged, lastPub>>

\* The write is not applied and Save returns another error: Publish gives up.
SaveFails(p) ==
    /\ phase[p] = "save"
    /\ outdated' = outdated \ {p}
    /\ Return(p)
    /\ UNCHANGED <<now, localVars, store, merged, lastPub>>

\* Mutation: the retry loop has no limit.
SaveConflictsForever(p) ==
    /\ state[p] = "up"
    /\ phase[p] = "save"
    /\ p \in outdated
    /\ phase' = [phase EXCEPT ![p] = "backoff"]
    /\ next' = [next EXCEPT ![p] = {}]
    /\ builtAt' = [builtAt EXCEPT ![p] = 0]
    /\ outdated' = outdated \ {p}
    /\ UNCHANGED <<now, localVars, store, tries, merged, lastPub>>

\* 409: Publish backs off and tries again, or gives up after Attempts.
SaveConflicts(p) ==
    /\ state[p] = "up"
    /\ phase[p] = "save"
    /\ p \in outdated
    /\ IF tries[p] < Attempts
       THEN /\ phase' = [phase EXCEPT ![p] = "backoff"]
            /\ next' = [next EXCEPT ![p] = {}]
            /\ builtAt' = [builtAt EXCEPT ![p] = 0]
            /\ UNCHANGED tries
       ELSE Return(p)
    /\ outdated' = outdated \ {p}
    /\ UNCHANGED <<now, localVars, store, merged, lastPub>>

------------------------------------------------------------------------------
Next ==
    \/ Tick
    \/ \E p \in Process :
          \/ Start(p) \/ Stop(p) \/ Rotate(p) \/ Mint(p)
          \/ Load(p) \/ LoadFails(p)
          \/ SaveApplied(p) \/ SaveUnanswered(p) \/ SaveFails(p) \/ SaveConflicts(p)

Spec == Init /\ [][Next]_vars

------------------------------------------------------------------------------
(* Properties. *)

Stored == {e.key : e \in store}

\* The keys that signed a token which is still unexpired.
InUse == {t.key : t \in tokens}

\* A key in the store stays there while a token it signed is unexpired: concurrent
\* publishes do not lose it, its owner's crash, restart or rotation does not remove
\* it, and no peer ages it out early.
StoredUntilExpiry ==
    [][\A k \in InUse \cap InUse' : k \in Stored => k \in Stored']_vars

\* A live process that serves a key goes on serving it while a token the key
\* signed is unexpired, through its own failed publishes and its peers' deaths.
ServedUntilExpiry ==
    [][\A p \in Process : \A k \in InUse \cap InUse' :
          state[p] = "up" /\ state'[p] = "up" /\ k \in JWKS(p) => k \in JWKS(p)']_vars

\* "A freshly started replica never mints tokens that its own published set
\* cannot verify", whether or not a publish has landed.
OwnTokensVerify ==
    \A k \in InUse : state[Owner(k)] = "up" => k \in JWKS(Owner(k))

\* No entry of a live peer is lost to a write: every process that published
\* successfully still has its current entry's lease in the store, so a healthy
\* replica never looks dead.
LivePeersKept ==
    \A p \in Process :
        state[p] = "up" /\ merged[p] # {}
            => \E e \in store : Owner(e.key) = p /\ e.lease >= now

------------------------------------------------------------------------------
(* The inductive invariant of the proofs, whatever the names. *)

\* A process has keys while it is up, one process is up under a name, none goes
\* longer than MaxGap without a publish, and only a Save has a draft or is outdated.
Processes ==
    /\ outdated \subseteq {p \in Process : phase[p] = "save"}
    /\ \A p \in Process :
          /\ IF state[p] = "up" THEN current[p] >= 1 ELSE current[p] = 0 /\ merged[p] = {}
          /\ state[p] = "off" => phase[p] = "idle"
          /\ state[p] = "up" => lastPub[p] <= now /\ now <= lastPub[p] + MaxGap
          /\ phase[p] # "save" => next[p] = {}
          /\ phase[p] = "idle" => tries[p] = 0
          /\ phase[p] = "backoff" => tries[p] < Attempts
    /\ \A p, q \in Process :
          NameOf[p] = NameOf[q] /\ state[p] = "up" /\ state[q] = "up" => p = q

\* A token was signed by a key whose window outlasts it, while its signer is up.
Tokens ==
    \A t \in tokens :
        /\ now <= t.exp /\ t.exp <= now + TTL
        /\ state[Owner(t.key)] # "off"
        /\ state[Owner(t.key)] = "up" =>
              \/ t.key[2] = current[Owner(t.key)]
              \/ t.key[2] < current[Owner(t.key)] /\ t.exp < retires[t.key]

\* Every entry is under its owner's name.
Named ==
    /\ \A e \in store : e.replica = NameOf[Owner(e.key)]
    /\ \A p \in Process : \A e \in next[p] : e.replica = NameOf[Owner(e.key)]

\* What p is about to save under its own name is its own and has a new lease, and on
\* the store's own version it has every peer's entry that has not lapsed, and no other.
Draft(p) ==
    /\ \A e \in next[p] : e.replica = NameOf[p] => Owner(e.key) = p
    /\ state[p] = "up" =>
          /\ lastPub[p] <= builtAt[p] /\ builtAt[p] <= now
          /\ \E e \in next[p] : Owner(e.key) = p
          /\ \A e \in next[p] : Owner(e.key) = p => e.lease = builtAt[p] + Lease
    /\ p \notin outdated =>
          /\ \A e \in store : e.replica # NameOf[p] /\ ~Lapsed(e) => e \in next[p]
          /\ \A e \in next[p] : e.replica # NameOf[p] => e \in store

Drafts == \A p \in Process : phase[p] = "save" => Draft(p)

\* A process that has published has an entry with the lease of its last publish, and
\* a Save that was sent by an earlier process of its name is outdated.
Published ==
    \A p \in Process :
        state[p] = "up" /\ merged[p] # {} =>
            /\ \E e \in store : Owner(e.key) = p /\ e.lease >= lastPub[p] + Lease
            /\ \A q \in Process :
                  q # p /\ NameOf[q] = NameOf[p] /\ phase[q] = "save" => q \in outdated

IInv == TypeOK /\ Processes /\ Tokens /\ Named /\ Drafts /\ Published

------------------------------------------------------------------------------
(* What it takes besides, when every process has a name of its own. *)

NamesDiffer == \A p, q \in Process : NameOf[p] = NameOf[q] => p = q

\* k signed an unexpired token, or may sign the next one.
Wanted(k) == k \in InUse \/ k[2] = current[Owner(k)]

\* Nobody has an entry for a key that was not made yet.
WasMade(k) ==
    /\ state[Owner(k)] # "off"
    /\ state[Owner(k)] = "up" => k[2] <= current[Owner(k)]

Made ==
    /\ \A e \in store : WasMade(e.key)
    /\ \A p \in Process : \A e \in next[p] \cup merged[p] : WasMade(e.key)

\* Leases in the store, and in a process's own draft, outlast tokens and publishes.
Leased ==
    /\ \A e \in store : state[Owner(e.key)] = "up" => e.lease >= lastPub[Owner(e.key)] + Lease
    /\ \A t \in tokens : \A e \in store : e.key = t.key => e.lease + Grace >= t.exp
    /\ \A t \in tokens : \A e \in next[Owner(t.key)] : e.key = t.key => e.lease + Grace >= t.exp

\* A process that saves does not drop a key of its own that is wanted.
OwnKept ==
    \A p \in Process : phase[p] = "save" =>
        \A k \in Stored : Owner(k) = p /\ Wanted(k) => \E e \in next[p] : e.key = k

\* What a process serves from its last publish is in the store while it is wanted, and
\* does not lapse before its token does or the process has published again.
Serving ==
    \A p \in Process : state[p] = "up" =>
        \A e \in merged[p] :
            /\ Wanted(e.key) => e.key \in Stored
            /\ state[Owner(e.key)] = "up" => e.lease + Grace >= lastPub[p] + MaxGap
            /\ \A t \in tokens : t.key = e.key =>
                  e.lease + Grace >= t.exp \/ e.lease + Grace >= lastPub[p] + MaxGap

IInvNamed == IInv /\ Made /\ Leased /\ OwnKept /\ Serving
=============================================================================
