-------------------------- MODULE RouteTableProofs --------------------------
(* Machine-checked proofs about RouteTable, for any tables and any number of *)
(* crashes and outages.                                                      *)
EXTENDS RouteTable, TLAPS

\* A first start: nothing is cached, mounted or served.
LEMMA InitIInv == Init => IInv
<1> SUFFICES ASSUME Init PROVE IInv
  OBVIOUS
<1>1. None # Empty /\ Empty \in Table
  BY Configuration DEF Table
<1>2. TypeOK
  <2>1. outages \in 0..MaxOutages /\ crashes \in 0..MaxCrashes
    BY Configuration DEF Init
  <2>2. emptied \in BOOLEAN /\ loaded \in BOOLEAN /\ fromCache \in BOOLEAN
        /\ lastErr \in BOOLEAN /\ cacheFailed \in BOOLEAN
    BY DEF Init
  <2> QED  BY <1>1, <2>1, <2>2 DEF Init, TypeOK, Running
<1>3. Handover /\ Cached /\ EmptyWasMounted
  BY <1>1 DEF Init, Handover, Cached, EmptyWasMounted
<1> QED  BY <1>2, <1>3 DEF IInv

\* Nothing the controller, the kubelet or a crash does breaks the invariant.
LEMMA EnvironmentIInv ==
    ASSUME IInv, Environment
    PROVE  IInv'
<1>0. None # Empty /\ Empty \in Table
  BY Configuration DEF Table
<1>1. ASSUME NEW t \in Table, Render(t) PROVE IInv'
  BY <1>1 DEF IInv, TypeOK, Handover, Cached, EmptyWasMounted, Render
<1>2. CASE Sync
  BY <1>2 DEF IInv, TypeOK, Handover, Cached, EmptyWasMounted, Sync
<1>3. CASE Outage
  BY <1>0, <1>3, Configuration DEF IInv, TypeOK, Handover, Cached, EmptyWasMounted, Outage
<1>4. CASE Crash
  <2>1. TypeOK'
    <3>1. crashes' \in 0..MaxCrashes
      BY <1>4, Configuration DEF IInv, TypeOK, Crash
    <3>2. loaded' \in BOOLEAN /\ fromCache' \in BOOLEAN /\ lastErr' \in BOOLEAN
      BY <1>4 DEF Crash
    <3> QED  BY <1>0, <1>4, <3>1, <3>2 DEF IInv, TypeOK, Crash, envVars
  <2>2. Handover' /\ Cached' /\ EmptyWasMounted'
    BY <1>4 DEF IInv, Handover, Cached, EmptyWasMounted, Crash, envVars
  <2> QED  BY <2>1, <2>2 DEF IInv
<1> QED  BY <1>1, <1>2, <1>3, <1>4 DEF Environment

\* Nor does a step of the data plane.
LEMMA StepIInv ==
    ASSUME IInv, Step
    PROVE  IInv'
<1> USE DEF IInv, TypeOK, Handover, Cached, EmptyWasMounted, Running, envVars
<1>1. CASE LoadCache
  BY <1>1 DEF LoadCache
<1>2. CASE LoadCacheFails
  BY <1>2 DEF LoadCacheFails
<1>3. CASE ServeCached
  BY <1>3 DEF ServeCached
<1>4. CASE Read
  BY <1>4 DEF Read
<1>5. CASE ReadFails
  BY <1>5 DEF ReadFails
<1>6. CASE Commit
  BY <1>6 DEF Commit
<1>7. CASE WriteCache
  BY <1>7 DEF WriteCache
<1>8. CASE WriteCacheFails
  BY <1>8 DEF WriteCacheFails
<1>9. CASE Apply
  BY <1>9 DEF Apply
<1> QED  BY <1>1, <1>2, <1>3, <1>4, <1>5, <1>6, <1>7, <1>8, <1>9 DEF Step

\* The inductive invariant holds.
THEOREM Invariance == Spec => []IInv
<1>1. IInv /\ [Next]_vars => IInv'
  <2> SUFFICES ASSUME IInv, [Next]_vars PROVE IInv'
    OBVIOUS
  <2>1. CASE UNCHANGED vars
    BY <2>1 DEF IInv, TypeOK, Handover, Cached, EmptyWasMounted, vars
  <2> QED  BY <2>1, EnvironmentIInv, StepIInv DEF Next
<1> QED  BY <1>1, InitIInv, PTL DEF Spec

\* The types hold, whatever was cached, mounted or crashed.
THEOREM TypeCorrect == Spec => []TypeOK
<1>1. IInv => TypeOK
  BY DEF IInv
<1> QED  BY <1>1, Invariance, PTL

\* Between two reads the proxy serves what FileSource holds, also after a start from
\* the cache that the first Refresh merely confirms.
THEOREM ServingFollows == Spec => []ServesWhatItHolds
<1>1. IInv => ServesWhatItHolds
  BY DEF IInv, Handover, ServesWhatItHolds
<1> QED  BY <1>1, Invariance, PTL

\* Between two reads the cache holds the table in use, unless LoadCache could not read it
\* or WriteRouteFile not write it and nothing has mended that since.
THEOREM RestartCovered == Spec => []CacheCoversRestart
<1>1. IInv => CacheCoversRestart
  BY DEF IInv, Handover, Cached, CacheCoversRestart
<1> QED  BY <1>1, Invariance, PTL

\* No failed read takes the routes from a running proxy, no step takes those in the
\* cache, and a start that can read the cache ends with routes.
THEOREM RoutesSurvive == Spec => OutageKeepsRoutes
<1> DEFINE Keeps ==
             ~emptied =>
               /\ served # Empty /\ pc' # "off" => served' # Empty
               /\ cache' # Empty /\ (cache # None => cache' # None)
               /\ pc = "boot" /\ pc' = "idle" /\ cache # None /\ ~cacheFailed
                     => served' # Empty
<1>1. IInv /\ [Next]_vars => [Keeps]_vars
  <2> SUFFICES ASSUME IInv, Next, ~emptied
               PROVE  /\ served # Empty /\ pc' # "off" => served' # Empty
                      /\ cache' # Empty /\ (cache # None => cache' # None)
                      /\ pc = "boot" /\ pc' = "idle" /\ cache # None /\ ~cacheFailed
                            => served' # Empty
    OBVIOUS
  <2>0. None \notin Table
    BY Configuration
  <2> USE DEF IInv, Handover, EmptyWasMounted, envVars
  <2>1. CASE Environment
    BY <2>1 DEF Environment, Render, Sync, Outage, Crash
  <2>2. CASE LoadCache \/ LoadCacheFails \/ ServeCached
    BY <2>2 DEF LoadCache, LoadCacheFails, ServeCached
  <2>3. CASE Read \/ ReadFails \/ Commit
    BY <2>3 DEF Read, ReadFails, Commit
  <2>4. CASE WriteCache \/ WriteCacheFails \/ Apply
    BY <2>0, <2>4 DEF WriteCache, WriteCacheFails, Apply, TypeOK
  <2> QED  BY <2>1, <2>2, <2>3, <2>4 DEF Next, Step
<1> QED  BY <1>1, Invariance, PTL DEF Spec, OutageKeepsRoutes
=============================================================================
