----------------------------- MODULE RemoteKeys -----------------------------
(***************************************************************************)
(* verifier/remote.go: a backend's cache of the signer's key set, read and *)
(* refetched by concurrent calls of Key.                                   *)
(*                                                                         *)
(* A member of Call is one call of RemoteKeys.Key.  The lock is released   *)
(* around the HTTP exchange, so a call reads the cache, asks, is answered, *)
(* installs the answer and reads again, with other calls in between.  Key  *)
(* and refresh each read the clock before they take the lock, and use the  *)
(* reading after: until then time passes and other calls go first.         *)
(***************************************************************************)
EXTENDS Integers, FiniteSets

CONSTANTS
    Call,
    Kid,
    TTL,            \* RemoteKeys.TTL
    MinRefetch,     \* RemoteKeys.MinRefetch
    MaxStale,       \* RemoteKeys.MaxStale
    FetchTime,      \* the client's timeout, with the time it takes to use the answer
    Delay,          \* the longest a call takes from a reading of the clock to the lock
    MaxTime,        \* bound: the clock stops here
    MaxChanges,     \* bound: kids that join after the start, and kids that leave
    None

\* Key and refresh replace the three settings when they are not positive.
ASSUME Configuration ==
    /\ TTL \in Nat \ {0}
    /\ MinRefetch \in Nat \ {0}
    /\ MaxStale \in Nat \ {0}
    /\ FetchTime \in Nat
    /\ Delay \in Nat
    /\ MaxTime \in Nat
    /\ MaxChanges \in Nat
    /\ None \notin Nat

VARIABLES
    now,
    joined,     \* when the signer began to publish each kid, or None
    left,       \* when the signer stopped publishing it, or None
    byKid,      \* the cached kids
    fetchedAt,
    lastTry,
    pc,         \* where each call of Key is
    kid,        \* its argument
    at,         \* when it read the clock before a lock, sent its request, or decided on
                \* the set it read last, whichever it did last; 0 in between
    readAt,     \* fetchedAt when the call found its kid in a stale set
    answer,     \* the kids in the response
    renewed,    \* calls that found fetchedAt renewed by another call
    missAt      \* when the last request for an unknown kid was sent, or None

signerVars == <<joined, left>>
cacheVars == <<byKid, fetchedAt, lastTry>>
callVars == <<pc, kid, at, readAt, answer, renewed, missAt>>
vars == <<now, joined, left, byKid, fetchedAt, lastTry, pc, kid, at, readAt, answer,
          renewed, missAt>>

\* "reads": Key has read the clock.  "stale" / "miss": the first look at the cache
\* found the kid in a set past its TTL / did not find it.  "wants...": refresh has
\* read the clock, "asks..." / "gets...": the request was sent / the response was
\* read, for either reason.
Stamped == {"reads", "wantsStale", "wantsMiss"}
Fetching == {"asksStale", "asksMiss", "getsStale", "getsMiss", "installed"}

\* The key was returned: from a fresh set, after a refetch, or from a stale set
\* because the refetch failed.
Trusted == {"cached", "refetched", "ceiling"}

\* Key returned an error: rate limited, not fetched, a set past MaxStale, or a
\* set without the kid.
Refused == {"limited", "failed", "tooStale", "absent"}

CallState == {"new", "stale", "miss"} \cup Stamped \cup Fetching \cup Trusted \cup Refused

TypeOK ==
    /\ now \in Nat
    /\ joined \in [Kid -> Nat \cup {None}]
    /\ left \in [Kid -> Nat \cup {None}]
    /\ byKid \subseteq Kid
    /\ fetchedAt \in Nat
    /\ lastTry \in Nat \cup {None}
    /\ pc \in [Call -> CallState]
    /\ kid \in [Call -> Kid \cup {None}]
    /\ at \in [Call -> Nat]
    /\ readAt \in [Call -> Nat]
    /\ answer \in [Call -> SUBSET Kid]
    /\ renewed \subseteq Call
    /\ missAt \in Nat \cup {None}

\* An empty cache.  fetchedAt is the zero time, which no step reads before the
\* first fetch has replaced it.
Init ==
    /\ now = 0
    /\ joined \in [Kid -> {0, None}]
    /\ left = [k \in Kid |-> None]
    /\ byKid = {}
    /\ fetchedAt = 0
    /\ lastTry = None
    /\ pc = [c \in Call |-> "new"]
    /\ kid = [c \in Call |-> None]
    /\ at = [c \in Call |-> 0]
    /\ readAt = [c \in Call |-> 0]
    /\ answer = [c \in Call |-> {}]
    /\ renewed = {}
    /\ missAt = None

------------------------------------------------------------------------------
(* The environment: time and the signer.  External: the signer's endpoint. *)

Published == {k \in Kid : joined[k] # None /\ left[k] = None}

\* Time passes, but the client's timeout ends a fetch, and a call gets the lock.
Tick ==
    /\ now < MaxTime
    /\ \A c \in Call : /\ pc[c] \in Fetching => now < at[c] + FetchTime
                       /\ pc[c] \in Stamped => now < at[c] + Delay
    /\ now' = now + 1
    /\ UNCHANGED <<signerVars, cacheVars, callVars>>

Changes == Cardinality({k \in Kid : joined[k] \notin {0, None}})
               + Cardinality({k \in Kid : left[k] # None})

\* A rotation at the signer: a new kid appears.
Publish(k) ==
    /\ joined[k] = None
    /\ Changes < MaxChanges
    /\ joined' = [joined EXCEPT ![k] = now]
    /\ UNCHANGED <<now, left, cacheVars, callVars>>

\* A key's overlap window closes, or the signer is replaced: a kid disappears.
Withdraw(k) ==
    /\ k \in Published
    /\ Changes < MaxChanges
    /\ left' = [left EXCEPT ![k] = now]
    /\ UNCHANGED <<now, joined, cacheVars, callVars>>

------------------------------------------------------------------------------
(* Key and refresh. *)

\* Key is called and reads the clock.
Start(c, k) ==
    /\ pc[c] = "new"
    /\ kid' = [kid EXCEPT ![c] = k]
    /\ at' = [at EXCEPT ![c] = now]
    /\ pc' = [pc EXCEPT ![c] = "reads"]
    /\ UNCHANGED <<now, signerVars, cacheVars, readAt, answer, renewed, missAt>>

\* The cached set is younger than its TTL, by the clock as the call read it.
Fresh(c) == at[c] - fetchedAt < TTL

\* The first critical section of Key.
Read(c) ==
    /\ pc[c] = "reads"
    /\ \/ /\ kid[c] \in byKid /\ Fresh(c)
          /\ pc' = [pc EXCEPT ![c] = "cached"]
          /\ at' = [at EXCEPT ![c] = now]
          /\ UNCHANGED readAt
       \/ /\ kid[c] \in byKid /\ ~Fresh(c)
          /\ pc' = [pc EXCEPT ![c] = "stale"]
          /\ readAt' = [readAt EXCEPT ![c] = fetchedAt]
          /\ at' = [at EXCEPT ![c] = 0]
       \/ /\ kid[c] \notin byKid
          /\ pc' = [pc EXCEPT ![c] = "miss"]
          /\ at' = [at EXCEPT ![c] = 0]
          /\ UNCHANGED readAt
    /\ UNCHANGED <<now, signerVars, cacheVars, kid, answer, renewed, missAt>>

\* refresh reads the clock.
ReadClock(c) ==
    /\ pc[c] \in {"stale", "miss"}
    /\ at' = [at EXCEPT ![c] = now]
    /\ pc' = [pc EXCEPT ![c] = IF @ = "stale" THEN "wantsStale" ELSE "wantsMiss"]
    /\ UNCHANGED <<now, signerVars, cacheVars, kid, readAt, answer, renewed, missAt>>

RateLimited(c) == lastTry # None /\ at[c] - lastTry < MinRefetch

\* The request is sent.
Send(c) ==
    /\ pc' = [pc EXCEPT ![c] = IF @ = "wantsStale" THEN "asksStale" ELSE "asksMiss"]
    /\ at' = [at EXCEPT ![c] = now]
    /\ missAt' = IF pc[c] = "wantsMiss" THEN now ELSE missAt

\* Mutation: the attempt is noted only when its answer is installed.
AskUnrecorded(c) ==
    /\ pc[c] \in {"wantsStale", "wantsMiss"}
    /\ IF pc[c] = "wantsMiss" /\ RateLimited(c)
       THEN pc' = [pc EXCEPT ![c] = "limited"] /\ UNCHANGED <<at, missAt>>
       ELSE Send(c)
    /\ UNCHANGED <<now, signerVars, cacheVars, kid, readAt, answer, renewed>>

\* Mutation: a call that finds another fetch in flight neither asks nor waits.
AskJoins(c) ==
    /\ pc[c] \in {"wantsStale", "wantsMiss"}
    /\ lastTry' = at[c]
    /\ IF \E d \in Call : pc[d] \in Fetching
       THEN /\ pc' = [pc EXCEPT ![c] = "installed"]
            /\ at' = [at EXCEPT ![c] = now]
            /\ UNCHANGED missAt
       ELSE Send(c)
    /\ UNCHANGED <<now, signerVars, byKid, fetchedAt, kid, readAt, answer, renewed>>

\* refresh from the lock to the request.  Only an unknown kid is rate limited, but
\* every attempt counts against the limit, a failing one too.  lastTry becomes the
\* reading, and so goes back when another call has read later and locked first.
Ask(c) ==
    /\ pc[c] \in {"wantsStale", "wantsMiss"}
    /\ IF pc[c] = "wantsMiss" /\ RateLimited(c)
       THEN /\ pc' = [pc EXCEPT ![c] = "limited"]
            /\ at' = [at EXCEPT ![c] = 0]
            /\ UNCHANGED <<lastTry, missAt>>
       ELSE lastTry' = at[c] /\ Send(c)
    /\ UNCHANGED <<now, signerVars, byKid, fetchedAt, kid, readAt, answer, renewed>>

\* The signer answers with what it publishes at that moment.  A set without a
\* usable key is an error: see FetchFails.
Answer(c) ==
    /\ pc[c] \in {"asksStale", "asksMiss"}
    /\ Published # {}
    /\ answer' = [answer EXCEPT ![c] = Published]
    /\ pc' = [pc EXCEPT ![c] = IF @ = "asksStale" THEN "getsStale" ELSE "getsMiss"]
    /\ UNCHANGED <<now, signerVars, cacheVars, kid, at, readAt, renewed, missAt>>

\* Mutation: an answer is added to the cached set instead of replacing it.
InstallMerges(c) ==
    /\ pc[c] \in {"getsStale", "getsMiss"}
    /\ byKid' = byKid \cup answer[c]
    /\ fetchedAt' = now
    /\ answer' = [answer EXCEPT ![c] = {}]
    /\ pc' = [pc EXCEPT ![c] = "installed"]
    /\ UNCHANGED <<now, signerVars, lastTry, kid, at, readAt, renewed, missAt>>

\* Mutation: the set is dated by the earliest moment it can have been sent.
InstallBackdated(c) ==
    /\ pc[c] \in {"getsStale", "getsMiss"}
    /\ byKid' = answer[c]
    /\ fetchedAt' = now - FetchTime
    /\ answer' = [answer EXCEPT ![c] = {}]
    /\ pc' = [pc EXCEPT ![c] = "installed"]
    /\ UNCHANGED <<now, signerVars, lastTry, kid, at, readAt, renewed, missAt>>

\* The last critical section of refresh: answers are installed in the order in
\* which they are read, not in the order in which they were given.
Install(c) ==
    /\ pc[c] \in {"getsStale", "getsMiss"}
    /\ byKid' = answer[c]
    /\ fetchedAt' = now
    /\ answer' = [answer EXCEPT ![c] = {}]
    /\ pc' = [pc EXCEPT ![c] = "installed"]
    /\ UNCHANGED <<now, signerVars, lastTry, kid, at, readAt, renewed, missAt>>

\* Key reads the cache again: the kid is there, or it is "withdrawn" / "not in the
\* published set".
ReadAgain(c) ==
    /\ pc[c] = "installed"
    /\ pc' = [pc EXCEPT ![c] = IF kid[c] \in byKid THEN "refetched" ELSE "absent"]
    /\ at' = [at EXCEPT ![c] = now]
    /\ UNCHANGED <<now, signerVars, cacheVars, kid, readAt, answer, renewed, missAt>>

\* Mutation: the ceiling is not applied.
AnyAge == TRUE

WithinCeiling == now - fetchedAt <= MaxStale

\* refresh fails: no answer, a bad one, or the time is up.  A kid that was found
\* in the stale set is still returned, if fetchedAt, read again, allows it.
FetchFails(c) ==
    /\ pc[c] \in {"asksStale", "asksMiss", "getsStale", "getsMiss"}
    /\ answer' = [answer EXCEPT ![c] = {}]
    /\ at' = [at EXCEPT ![c] = now]
    /\ IF pc[c] \in {"asksStale", "getsStale"}
       THEN /\ pc' = [pc EXCEPT ![c] = IF WithinCeiling THEN "ceiling" ELSE "tooStale"]
            /\ renewed' = IF fetchedAt = readAt[c] THEN renewed ELSE renewed \cup {c}
       ELSE pc' = [pc EXCEPT ![c] = "failed"] /\ UNCHANGED renewed
    /\ UNCHANGED <<now, signerVars, cacheVars, kid, readAt, missAt>>

------------------------------------------------------------------------------
Next ==
    \/ Tick
    \/ \E k \in Kid : Publish(k) \/ Withdraw(k)
    \/ \E c \in Call :
          \/ \E k \in Kid : Start(c, k)
          \/ Read(c) \/ ReadClock(c) \/ Ask(c) \/ Answer(c) \/ Install(c) \/ ReadAgain(c) \/ FetchFails(c)

Spec == Init /\ [][Next]_vars

------------------------------------------------------------------------------
(* Properties. *)

\* The signer published k at some moment of the last `age` seconds before t.
PublishedWithin(k, t, age) == joined[k] # None /\ (left[k] = None \/ t - left[k] <= age)

\* Whatever the order in which answers are installed, the cache holds only keys
\* the signer published less than a fetch's length before fetchedAt: an answer
\* that was overtaken does not make the cached set older than fetchedAt says.
CacheIsRecent == \A k \in byKid : PublishedWithin(k, fetchedAt, FetchTime)

\* A withdrawn key stops being trusted: from a fresh set within the TTL and the delay
\* of its test, after a refetch at once, and while the signer is unreachable at the
\* ceiling, each plus the length of a fetch.  The last bound is for calls whose set was not renewed
\* by another call meanwhile: see CeilingHolds.
TrustEnds ==
    \A c \in Call :
        /\ pc[c] = "cached" => PublishedWithin(kid[c], at[c], TTL - 1 + Delay + FetchTime)
        /\ pc[c] = "refetched" => PublishedWithin(kid[c], at[c], 2 * FetchTime)
        /\ pc[c] = "ceiling" /\ c \notin renewed
              => PublishedWithin(kid[c], at[c], MaxStale + FetchTime)

\* A key is not refused as absent because of a slow answer to some other call,
\* once the signer has published it for the length of two fetches and still does.
AbsentOnlyIfNew ==
    \A c \in Call : pc[c] = "absent" /\ joined[kid[c]] # None =>
        \/ left[kid[c]] # None
        \/ at[c] - joined[kid[c]] <= 2 * FetchTime

\* Unknown kids, however many calls present them at once, make at most one request to
\* the signer per MinRefetch, less the delay from clock to lock: a refetch of a stale
\* set that read the clock, was overtaken by a request for an unknown kid and then got
\* the lock has set lastTry back by up to that delay.
RefetchesSpaced ==
    [][\A c \in Call :
          pc[c] # "asksMiss" /\ pc'[c] = "asksMiss" /\ missAt # None
              => now - missAt >= MinRefetch - Delay]_vars

\* "past TTL it is served only until it reaches MaxStale, then refused - so a
\* rotated or revoked key stops being trusted" (verifier/remote.go:38-43), of every
\* key returned after a failed refetch.
CeilingHolds ==
    \A c \in Call :
        pc[c] = "ceiling" => PublishedWithin(kid[c], at[c], MaxStale + FetchTime)

------------------------------------------------------------------------------
(* The inductive invariant of the proofs. *)

\* Nothing is dated in the future, and a kid that left had joined.
Dated ==
    /\ fetchedAt <= now
    /\ lastTry # None => lastTry <= now
    /\ \A k \in Kid : /\ joined[k] # None => joined[k] <= now
                      /\ left[k] # None => joined[k] # None /\ left[k] <= now
    /\ missAt # None => missAt <= now
    /\ \A c \in Call : at[c] <= now /\ readAt[c] <= now

\* A call has its argument, a fetch is not older than the client's timeout, and a
\* reading of the clock not older than Delay.
CallsTimed ==
    \A c \in Call :
        /\ pc[c] # "new" => kid[c] \in Kid
        /\ pc[c] \in Fetching => now <= at[c] + FetchTime
        /\ pc[c] \in Stamped => now <= at[c] + Delay
        /\ pc[c] = "installed" => at[c] <= fetchedAt

\* A response says what was published at some moment since its request was sent.
AnswersHonest ==
    \A c \in Call : pc[c] \in {"getsStale", "getsMiss"} =>
        \A k \in Kid :
            /\ k \in answer[c] => joined[k] # None /\ (left[k] = None \/ at[c] <= left[k])
            /\ k \notin answer[c] /\ joined[k] # None /\ left[k] = None => at[c] <= joined[k]

\* What the cached set lacks was not published a fetch's length before fetchedAt.
CacheIsComplete ==
    \A k \in Kid \ byKid :
        joined[k] # None /\ left[k] = None => fetchedAt - joined[k] <= FetchTime

\* A call that found its kid in a stale set found it in a set dated readAt.
FoundStale ==
    \A c \in Call :
        pc[c] \in {"stale", "wantsStale", "asksStale", "getsStale"}
            => PublishedWithin(kid[c], readAt[c], FetchTime)

\* lastTry is not older than the last request for an unknown kid by more than Delay.
TriesNoted == missAt # None => lastTry # None /\ missAt <= lastTry + Delay

IInv ==
    /\ TypeOK /\ Dated /\ CallsTimed /\ AnswersHonest
    /\ CacheIsComplete /\ CacheIsRecent /\ FoundStale /\ TriesNoted
    /\ TrustEnds /\ AbsentOnlyIfNew
=============================================================================
