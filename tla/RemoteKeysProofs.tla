-------------------------- MODULE RemoteKeysProofs --------------------------
(* Machine-checked proofs about RemoteKeys, for any number of concurrent calls *)
(* of Key and any keys, times and order of answers.                            *)
EXTENDS RemoteKeys, TLAPS

\* The cache is empty and no call has begun.
LEMMA InitIInv == Init => IInv
<1> SUFFICES ASSUME Init PROVE IInv
  OBVIOUS
<1>1. TypeOK
  BY DEF Init, TypeOK, CallState
<1>2. Dated /\ CallsTimed /\ AnswersHonest
  BY DEF Init, Dated, CallsTimed, AnswersHonest, Fetching, Stamped
<1>3. CacheIsComplete
  BY Configuration DEF Init, CacheIsComplete
<1>4. CacheIsRecent /\ FoundStale /\ TriesNoted /\ TrustEnds /\ AbsentOnlyIfNew
  BY DEF Init, CacheIsRecent, FoundStale, TriesNoted, TrustEnds, AbsentOnlyIfNew
<1> QED  BY <1>1, <1>2, <1>3, <1>4 DEF IInv

------------------------------------------------------------------------------
(* Time and the signer. *)

\* Time does not pass a fetch's timeout, nor the delay of a call that waits for the lock.
LEMMA TickIInv == ASSUME IInv, Tick PROVE IInv'
<1>1. now' = now + 1 /\ UNCHANGED <<signerVars, cacheVars, callVars>>
  BY DEF Tick
<1>2. TypeOK' /\ Dated'
  BY <1>1 DEF IInv, TypeOK, Dated, signerVars, cacheVars, callVars
<1>3. CallsTimed'
  BY <1>1, Configuration DEF Tick, IInv, TypeOK, CallsTimed, cacheVars, callVars
<1>4. AnswersHonest' /\ CacheIsComplete' /\ CacheIsRecent' /\ FoundStale' /\ TriesNoted'
  BY <1>1 DEF IInv, AnswersHonest, CacheIsComplete, CacheIsRecent, FoundStale, TriesNoted,
              PublishedWithin, signerVars, cacheVars, callVars
<1>5. TrustEnds' /\ AbsentOnlyIfNew'
  BY <1>1 DEF IInv, TrustEnds, AbsentOnlyIfNew, PublishedWithin, signerVars, cacheVars, callVars
<1> QED  BY <1>2, <1>3, <1>4, <1>5 DEF IInv

\* A kid that joins now is as new as anything that lacks it.
LEMMA PublishIInv == ASSUME IInv, NEW k \in Kid, Publish(k) PROVE IInv'
<1>1. /\ joined[k] = None /\ joined' = [joined EXCEPT ![k] = now]
      /\ UNCHANGED <<now, left, cacheVars, callVars>>
  BY DEF Publish
<1> USE Configuration DEF cacheVars, callVars
<1>2. TypeOK' /\ Dated'
  BY <1>1 DEF IInv, TypeOK, Dated
<1>3. CallsTimed' /\ TriesNoted'
  BY <1>1 DEF IInv, CallsTimed, TriesNoted
<1>4. AnswersHonest'
  BY <1>1 DEF IInv, TypeOK, Dated, AnswersHonest
<1>5. CacheIsComplete'
  BY <1>1 DEF IInv, TypeOK, Dated, CacheIsComplete
<1>6. CacheIsRecent' /\ FoundStale' /\ TrustEnds'
  BY <1>1 DEF IInv, TypeOK, Dated, CallsTimed, CacheIsRecent, FoundStale, TrustEnds,
              PublishedWithin
<1>7. AbsentOnlyIfNew'
  BY <1>1 DEF IInv, TypeOK, Dated, CallsTimed, AbsentOnlyIfNew
<1> QED  BY <1>2, <1>3, <1>4, <1>5, <1>6, <1>7 DEF IInv

\* A kid that leaves now left after everything that has been decided about it.
LEMMA WithdrawIInv == ASSUME IInv, NEW k \in Kid, Withdraw(k) PROVE IInv'
<1>1. /\ joined[k] # None /\ left[k] = None /\ left' = [left EXCEPT ![k] = now]
      /\ UNCHANGED <<now, joined, cacheVars, callVars>>
  BY DEF Withdraw, Published
<1> USE Configuration DEF cacheVars, callVars
<1>2. TypeOK' /\ Dated'
  BY <1>1 DEF IInv, TypeOK, Dated
<1>3. CallsTimed' /\ TriesNoted'
  BY <1>1 DEF IInv, CallsTimed, TriesNoted
<1>4. AnswersHonest'
  BY <1>1 DEF IInv, TypeOK, Dated, AnswersHonest
<1>5. CacheIsComplete'
  BY <1>1 DEF IInv, TypeOK, Dated, CacheIsComplete
<1>6. CacheIsRecent' /\ FoundStale'
  BY <1>1 DEF IInv, TypeOK, Dated, CallsTimed, CacheIsRecent, FoundStale, PublishedWithin
<1>7. TrustEnds'
  BY <1>1 DEF IInv, TypeOK, Dated, CallsTimed, TrustEnds, PublishedWithin
<1>8. AbsentOnlyIfNew'
  BY <1>1 DEF IInv, TypeOK, Dated, CallsTimed, AbsentOnlyIfNew
<1> QED  BY <1>2, <1>3, <1>4, <1>5, <1>6, <1>7, <1>8 DEF IInv

------------------------------------------------------------------------------
(* Key and refresh. *)

\* What a key found in the cache is worth: it was published a fetch's length and
\* the age of the set ago.
LEMMA CachedKeyAge ==
    ASSUME IInv, NEW k \in byKid, NEW t \in Nat, NEW age \in Int, t - fetchedAt <= age
    PROVE  PublishedWithin(k, t, age + FetchTime)
<1>1. /\ k \in Kid /\ joined[k] # None /\ left[k] \in Nat \cup {None}
      /\ left[k] = None \/ fetchedAt - left[k] <= FetchTime
  BY DEF IInv, TypeOK, CacheIsRecent, PublishedWithin
<1>2. fetchedAt \in Nat
  BY DEF IInv, TypeOK
<1> QED  BY <1>1, <1>2, Configuration DEF PublishedWithin

\* Key is called and reads the clock.
LEMMA StartIInv ==
    ASSUME IInv, NEW c \in Call, NEW k \in Kid, Start(c, k)
    PROVE  IInv'
<1> USE DEF signerVars, cacheVars
<1>1. TypeOK' /\ Dated'
  BY DEF Start, IInv, TypeOK, Dated, CallState, Stamped
<1>2. CallsTimed'
  BY Configuration DEF Start, IInv, TypeOK, CallsTimed, Fetching, Stamped
<1>3. AnswersHonest' /\ CacheIsComplete' /\ CacheIsRecent' /\ FoundStale' /\ TriesNoted'
  BY DEF Start, IInv, TypeOK, AnswersHonest, CacheIsComplete, CacheIsRecent, FoundStale,
         TriesNoted, PublishedWithin
<1>4. TrustEnds' /\ AbsentOnlyIfNew'
  BY DEF Start, IInv, TypeOK, TrustEnds, AbsentOnlyIfNew, PublishedWithin
<1> QED  BY <1>1, <1>2, <1>3, <1>4 DEF IInv

\* The first look at the cache: a key of a fresh set is returned, one of a stale set
\* is remembered with the date of that set.
LEMMA ReadIInv ==
    ASSUME IInv, NEW c \in Call, Read(c)
    PROVE  IInv'
<1>1. /\ pc[c] = "reads" /\ kid[c] \in Kid /\ at[c] \in Nat /\ now <= at[c] + Delay
      /\ UNCHANGED <<now, joined, left, byKid, fetchedAt, lastTry, kid, answer, renewed, missAt>>
  BY DEF Read, IInv, TypeOK, CallsTimed, Stamped, signerVars, cacheVars
<1>2. \/ /\ kid[c] \in byKid /\ at[c] - fetchedAt < TTL
         /\ pc' = [pc EXCEPT ![c] = "cached"] /\ at' = [at EXCEPT ![c] = now]
         /\ UNCHANGED readAt
      \/ /\ kid[c] \in byKid /\ pc' = [pc EXCEPT ![c] = "stale"]
         /\ readAt' = [readAt EXCEPT ![c] = fetchedAt] /\ at' = [at EXCEPT ![c] = 0]
      \/ /\ pc' = [pc EXCEPT ![c] = "miss"] /\ at' = [at EXCEPT ![c] = 0]
         /\ UNCHANGED readAt
  BY DEF Read, Fresh
<1>3. TypeOK' /\ Dated'
  BY <1>1, <1>2 DEF IInv, TypeOK, Dated, CallState, Trusted
<1>4. CallsTimed'
  BY <1>1, <1>2 DEF IInv, TypeOK, CallsTimed, Fetching, Stamped
<1>5. AnswersHonest' /\ CacheIsComplete' /\ CacheIsRecent' /\ TriesNoted'
  BY <1>1, <1>2 DEF IInv, TypeOK, AnswersHonest, CacheIsComplete, CacheIsRecent,
                    TriesNoted, PublishedWithin
<1>6. FoundStale'
  <2>1. kid[c] \in byKid => PublishedWithin(kid[c], fetchedAt, FetchTime)
    BY DEF IInv, CacheIsRecent
  <2> QED  BY <1>1, <1>2, <2>1 DEF IInv, TypeOK, FoundStale, PublishedWithin
<1>7. TrustEnds'
  <2>1. ASSUME kid[c] \in byKid, at[c] - fetchedAt < TTL
        PROVE  PublishedWithin(kid[c], now, TTL - 1 + Delay + FetchTime)
    <3>1. /\ now \in Nat /\ TTL - 1 + Delay \in Int
          /\ now - fetchedAt <= TTL - 1 + Delay
      BY <1>1, <2>1, Configuration DEF IInv, TypeOK
    <3> QED  BY <2>1, <3>1, CachedKeyAge
  <2> QED  BY <1>1, <1>2, <2>1 DEF IInv, TypeOK, TrustEnds, PublishedWithin
<1>8. AbsentOnlyIfNew'
  BY <1>1, <1>2 DEF IInv, TypeOK, AbsentOnlyIfNew
<1> QED  BY <1>3, <1>4, <1>5, <1>6, <1>7, <1>8 DEF IInv

\* refresh reads the clock.
LEMMA ReadClockIInv ==
    ASSUME IInv, NEW c \in Call, ReadClock(c)
    PROVE  IInv'
<1> USE DEF signerVars, cacheVars
<1>1. TypeOK' /\ Dated'
  BY DEF ReadClock, IInv, TypeOK, Dated, CallState, Stamped
<1>2. CallsTimed'
  BY Configuration DEF ReadClock, IInv, TypeOK, CallsTimed, Fetching, Stamped
<1>3. AnswersHonest' /\ CacheIsComplete' /\ CacheIsRecent' /\ FoundStale' /\ TriesNoted'
  BY DEF ReadClock, IInv, TypeOK, AnswersHonest, CacheIsComplete, CacheIsRecent, FoundStale,
         TriesNoted, PublishedWithin
<1>4. TrustEnds' /\ AbsentOnlyIfNew'
  BY DEF ReadClock, IInv, TypeOK, TrustEnds, AbsentOnlyIfNew, PublishedWithin
<1> QED  BY <1>1, <1>2, <1>3, <1>4 DEF IInv

\* A request is sent, and lastTry becomes the call's reading of the clock: that may set
\* it back, but not by more than Delay behind any request sent so far.
LEMMA AskIInv ==
    ASSUME IInv, NEW c \in Call, Ask(c)
    PROVE  IInv'
<1> USE Configuration DEF signerVars, cacheVars
<1>0. /\ pc[c] \in {"wantsStale", "wantsMiss"} /\ at[c] \in Nat
      /\ at[c] <= now /\ now <= at[c] + Delay
  BY DEF Ask, IInv, TypeOK, Dated, CallsTimed, Stamped
<1>1. TypeOK' /\ Dated'
  BY <1>0 DEF Ask, Send, IInv, TypeOK, Dated, CallState, Fetching, Refused
<1>2. CallsTimed'
  BY DEF Ask, Send, IInv, TypeOK, CallsTimed, Fetching, Stamped
<1>3. AnswersHonest'
  BY DEF Ask, Send, IInv, TypeOK, AnswersHonest
<1>4. CacheIsComplete' /\ CacheIsRecent'
  BY DEF Ask, IInv, CacheIsComplete, CacheIsRecent, PublishedWithin
<1>5. FoundStale'
  BY DEF Ask, Send, IInv, TypeOK, FoundStale, PublishedWithin
<1>6. TriesNoted'
  BY <1>0 DEF Ask, Send, IInv, TypeOK, Dated, TriesNoted
<1>7. TrustEnds' /\ AbsentOnlyIfNew'
  BY DEF Ask, Send, IInv, TypeOK, TrustEnds, AbsentOnlyIfNew, PublishedWithin
<1> QED  BY <1>1, <1>2, <1>3, <1>4, <1>5, <1>6, <1>7 DEF IInv

\* The signer answers with what it publishes now, which is after the request.
LEMMA AnswerIInv ==
    ASSUME IInv, NEW c \in Call, Answer(c)
    PROVE  IInv'
<1> USE DEF signerVars, cacheVars
<1>1. TypeOK' /\ Dated'
  BY DEF Answer, Published, IInv, TypeOK, Dated, CallState, Fetching
<1>2. CallsTimed'
  BY DEF Answer, IInv, TypeOK, CallsTimed, Fetching, Stamped
<1>3. AnswersHonest'
  BY Configuration DEF Answer, Published, IInv, TypeOK, Dated, AnswersHonest
<1>4. CacheIsComplete' /\ CacheIsRecent'
  BY DEF Answer, IInv, CacheIsComplete, CacheIsRecent, PublishedWithin
<1>5. FoundStale' /\ TrustEnds' /\ AbsentOnlyIfNew'
  BY DEF Answer, IInv, TypeOK, FoundStale, TrustEnds, AbsentOnlyIfNew, PublishedWithin
<1>6. TriesNoted'
  BY DEF Answer, IInv, TypeOK, TriesNoted
<1> QED  BY <1>1, <1>2, <1>3, <1>4, <1>5, <1>6 DEF IInv

\* An answer is installed, perhaps one that was overtaken: it is no older than the
\* fetch that brings it.
LEMMA InstallIInv ==
    ASSUME IInv, NEW c \in Call, Install(c)
    PROVE  IInv'
<1> USE DEF signerVars
<1>1. TypeOK' /\ Dated'
  BY DEF Install, IInv, TypeOK, Dated, CallState, Fetching
<1>2. CallsTimed'
  BY DEF Install, IInv, TypeOK, Dated, CallsTimed, Fetching, Stamped
<1>3. AnswersHonest'
  BY DEF Install, IInv, TypeOK, AnswersHonest
<1>4. now - at[c] <= FetchTime /\ now \in Nat /\ at[c] \in Nat
  BY Configuration DEF Install, IInv, TypeOK, CallsTimed, Fetching, Stamped
<1>5. CacheIsComplete'
  BY <1>4, Configuration DEF Install, IInv, TypeOK, AnswersHonest, CacheIsComplete
<1>6. CacheIsRecent'
  BY <1>4, Configuration
  DEF Install, IInv, TypeOK, AnswersHonest, CacheIsRecent, PublishedWithin
<1>7. FoundStale' /\ TrustEnds' /\ AbsentOnlyIfNew'
  BY DEF Install, IInv, TypeOK, FoundStale, TrustEnds, AbsentOnlyIfNew, PublishedWithin
<1>8. TriesNoted'
  BY DEF Install, IInv, TypeOK, TriesNoted
<1> QED  BY <1>1, <1>2, <1>3, <1>5, <1>6, <1>7, <1>8 DEF IInv

\* The second look at the cache: the set is at most a fetch old, whichever call
\* installed it.
LEMMA ReadAgainIInv ==
    ASSUME IInv, NEW c \in Call, ReadAgain(c)
    PROVE  IInv'
<1> USE DEF signerVars, cacheVars
<1>1. TypeOK' /\ Dated'
  BY DEF ReadAgain, IInv, TypeOK, Dated, CallState, Trusted, Refused
<1>2. CallsTimed'
  BY DEF ReadAgain, IInv, TypeOK, CallsTimed, Fetching, Stamped
<1>3. AnswersHonest' /\ CacheIsComplete' /\ CacheIsRecent' /\ FoundStale'
  BY DEF ReadAgain, IInv, TypeOK, AnswersHonest, CacheIsComplete, CacheIsRecent, FoundStale,
         PublishedWithin
<1>4. TriesNoted'
  BY DEF ReadAgain, IInv, TypeOK, TriesNoted
<1>5. now - fetchedAt <= FetchTime /\ kid[c] \in Kid
  BY Configuration DEF ReadAgain, IInv, TypeOK, CallsTimed, Fetching, Stamped
<1>6. TrustEnds'
  <2>1. kid[c] \in byKid => PublishedWithin(kid[c], now, 2 * FetchTime)
    <3>1. now \in Nat /\ FetchTime \in Int
      BY Configuration DEF IInv, TypeOK
    <3>2. kid[c] \in byKid => PublishedWithin(kid[c], now, FetchTime + FetchTime)
      BY <1>5, <3>1, CachedKeyAge
    <3> QED  BY <3>1, <3>2 DEF PublishedWithin
  <2> QED  BY <2>1 DEF ReadAgain, IInv, TypeOK, TrustEnds, PublishedWithin
<1>7. AbsentOnlyIfNew'
  <2>1. kid[c] \notin byKid /\ joined[kid[c]] # None /\ left[kid[c]] = None
           => now - joined[kid[c]] <= 2 * FetchTime
    BY <1>5, Configuration DEF IInv, TypeOK, CacheIsComplete
  <2> QED  BY <2>1 DEF ReadAgain, IInv, TypeOK, AbsentOnlyIfNew
<1> QED  BY <1>1, <1>2, <1>3, <1>4, <1>6, <1>7 DEF IInv

\* A refetch fails: a key of the stale set is returned below the ceiling.
LEMMA FetchFailsIInv ==
    ASSUME IInv, NEW c \in Call, FetchFails(c)
    PROVE  IInv'
<1> USE DEF signerVars, cacheVars
<1>1. TypeOK' /\ Dated'
  BY DEF FetchFails, IInv, TypeOK, Dated, CallState, Trusted, Refused
<1>2. CallsTimed'
  BY DEF FetchFails, IInv, TypeOK, CallsTimed, Fetching, Stamped
<1>3. AnswersHonest' /\ CacheIsComplete' /\ CacheIsRecent' /\ FoundStale'
  BY DEF FetchFails, IInv, TypeOK, AnswersHonest, CacheIsComplete, CacheIsRecent,
         FoundStale, PublishedWithin
<1>4. TriesNoted'
  BY DEF FetchFails, IInv, TypeOK, TriesNoted
<1>5. TrustEnds'
  <2>1. ASSUME pc[c] \in {"asksStale", "getsStale"}, now - fetchedAt <= MaxStale,
               fetchedAt = readAt[c]
        PROVE  PublishedWithin(kid[c], now, MaxStale + FetchTime)
    BY <2>1, Configuration DEF IInv, TypeOK, CallsTimed, FoundStale, PublishedWithin
  <2> QED
    BY <2>1 DEF FetchFails, WithinCeiling, IInv, TypeOK, TrustEnds, PublishedWithin
<1>6. AbsentOnlyIfNew'
  BY DEF FetchFails, IInv, TypeOK, AbsentOnlyIfNew
<1> QED  BY <1>1, <1>2, <1>3, <1>4, <1>5, <1>6 DEF IInv

------------------------------------------------------------------------------
(* The theorems. *)

\* Every step keeps the invariant.
LEMMA StepIInv == IInv /\ [Next]_vars => IInv'
<1> SUFFICES ASSUME IInv, [Next]_vars PROVE IInv'
  OBVIOUS
<1>1. CASE UNCHANGED vars
  BY <1>1 DEF vars, IInv, TypeOK, Dated, CallsTimed, AnswersHonest, CacheIsComplete,
              CacheIsRecent, FoundStale, TriesNoted, TrustEnds, AbsentOnlyIfNew,
              PublishedWithin
<1> QED
  BY <1>1, TickIInv, PublishIInv, WithdrawIInv, StartIInv, ReadIInv, ReadClockIInv, AskIInv, AnswerIInv, InstallIInv,
     ReadAgainIInv, FetchFailsIInv DEF Next

\* The inductive invariant holds.
THEOREM Invariance == Spec => []IInv
<1> QED  BY InitIInv, StepIInv, PTL DEF Spec

\* The types hold.
THEOREM TypeCorrect == Spec => []TypeOK
<1>1. IInv => TypeOK
  BY DEF IInv
<1> QED  BY <1>1, Invariance, PTL

\* Answers may be installed in any order: the cached set is never older than a fetch's
\* length before fetchedAt.
THEOREM CacheRecent == Spec => []CacheIsRecent
<1>1. IInv => CacheIsRecent
  BY DEF IInv
<1> QED  BY <1>1, Invariance, PTL

\* A withdrawn key stops being trusted within the bounds of Key's three ways to return.
THEOREM TrustIsBounded == Spec => []TrustEnds
<1>1. IInv => TrustEnds
  BY DEF IInv
<1> QED  BY <1>1, Invariance, PTL

\* No key the signer has published for the length of two fetches is refused as absent.
THEOREM AbsenceIsHonest == Spec => []AbsentOnlyIfNew
<1>1. IInv => AbsentOnlyIfNew
  BY DEF IInv
<1> QED  BY <1>1, Invariance, PTL

\* Unknown kids make at most one request per MinRefetch, less the time a call takes from
\* the clock to the lock, however many calls there are and whatever lastTry went back to.
THEOREM RefetchesLimited == Spec => RefetchesSpaced
<1> DEFINE Spaced == \A c \in Call :
             pc[c] # "asksMiss" /\ pc'[c] = "asksMiss" /\ missAt # None
                 => now - missAt >= MinRefetch - Delay
<1>1. IInv /\ [Next]_vars => [Spaced]_vars
  <2> SUFFICES ASSUME IInv, Next, NEW c \in Call, pc[c] # "asksMiss", pc'[c] = "asksMiss",
                      missAt # None
               PROVE  now - missAt >= MinRefetch - Delay
    OBVIOUS
  <2>1. Ask(c)
    <3>1. ASSUME NEW d \in Call, NEW k \in Kid, Start(d, k) PROVE FALSE
      BY <3>1 DEF Start, IInv, TypeOK
    <3>2. ASSUME NEW d \in Call, Read(d) \/ ReadClock(d) PROVE FALSE
      BY <3>2 DEF Read, ReadClock, IInv, TypeOK
    <3>3. ASSUME NEW d \in Call, Answer(d) \/ Install(d) \/ ReadAgain(d) PROVE FALSE
      BY <3>3 DEF Answer, Install, ReadAgain, IInv, TypeOK
    <3>4. ASSUME NEW d \in Call, FetchFails(d) PROVE FALSE
      BY <3>4 DEF FetchFails, IInv, TypeOK
    <3>5. ASSUME NEW d \in Call, Ask(d) PROVE d = c
      BY <3>5 DEF Ask, Send, IInv, TypeOK
    <3>6. ASSUME Tick \/ \E k \in Kid : Publish(k) \/ Withdraw(k) PROVE FALSE
      BY <3>6 DEF Tick, Publish, Withdraw, callVars
    <3> QED  BY <3>1, <3>2, <3>3, <3>4, <3>5, <3>6 DEF Next
  <2>2. pc[c] = "wantsMiss" /\ ~RateLimited(c)
    BY <2>1 DEF Ask, Send, IInv, TypeOK
  <2>3. lastTry \in Nat /\ missAt \in Nat /\ missAt <= lastTry + Delay /\ at[c] <= now
    BY Configuration DEF IInv, TypeOK, Dated, TriesNoted
  <2>4. at[c] - lastTry >= MinRefetch
    BY <2>2, <2>3, Configuration DEF RateLimited, IInv, TypeOK
  <2> QED  BY <2>3, <2>4, Configuration DEF IInv, TypeOK
<1> QED  BY <1>1, Invariance, PTL DEF Spec, RefetchesSpaced
=============================================================================
