----------------------------- MODULE RouteTable -----------------------------
(***************************************************************************)
(* The way of a route table into the data plane: the rendered file in the  *)
(* mounted ConfigMap, routetable.FileSource that polls it and keeps a      *)
(* cache across restarts, and proxy.Dynamic that serves it.                *)
(*                                                                         *)
(* A table is told apart by the fields sameRoutes compares (`routes`) and  *)
(* by the one it does not (`headers`, the routes' ClaimHeaders).  The      *)
(* revision is only logged and reported, and is left out.                  *)
(***************************************************************************)
EXTENDS Integers

CONSTANTS
    Routes,     \* what sameRoutes compares: names, prefixes, upstreams, ...
    Headers,    \* ClaimHeaders
    MaxCrashes, \* bound: restarts
    MaxOutages, \* bound: times the mount becomes unreadable
    None

\* No routes: a nil FileSource.current, and Dynamic.current = nil, which
\* answers every request with 503.
Empty == [routes |-> None, headers |-> None]

Table == [routes : Routes, headers : Headers] \cup {Empty}

ASSUME Configuration ==
    /\ MaxCrashes \in Nat
    /\ MaxOutages \in Nat
    /\ None \notin Routes
    /\ None \notin Table

VARIABLES
    rendered,   \* the table in the controller's ConfigMap
    mount,      \* the table in the mounted file, or None: unreadable or invalid
    emptied,    \* an empty table has been in the mounted file
    outages,
    crashes,
    pc,         \* where the data plane is
    held,       \* FileSource.current
    loaded,
    fromCache,
    lastErr,    \* the last read failed
    got,        \* Refresh's `routes`
    cache,      \* the table last written to CachePath, or None: not written yet
    cacheFailed,\* the last read or write of the cache failed
    served      \* Dynamic.current

envVars == <<rendered, mount, emptied, outages>>
vars == <<rendered, mount, emptied, outages, crashes, pc, held, loaded, fromCache,
          lastErr, got, cache, cacheFailed, served>>

\* "off": not running.  "boot": LoadCache is done.  "idle": between two reads.
\* "got", "cache", "apply": inside Refresh.
Running == {"boot", "idle", "got", "cache", "apply"}

TypeOK ==
    /\ rendered \in Table
    /\ mount \in Table \cup {None}
    /\ emptied \in BOOLEAN
    /\ outages \in 0..MaxOutages
    /\ crashes \in 0..MaxCrashes
    /\ pc \in Running \cup {"off"}
    /\ held \in Table
    /\ loaded \in BOOLEAN
    /\ fromCache \in BOOLEAN
    /\ lastErr \in BOOLEAN
    /\ got \in Table
    /\ cache \in Table \cup {None}
    /\ cacheFailed \in BOOLEAN
    /\ served \in Table

\* A first start: nothing cached, nothing rendered and nothing mounted yet.
Init ==
    /\ rendered = Empty
    /\ mount = None
    /\ emptied = FALSE
    /\ outages = 0
    /\ crashes = 0
    /\ pc = "off"
    /\ held = Empty
    /\ loaded = FALSE
    /\ fromCache = FALSE
    /\ lastErr = FALSE
    /\ got = Empty
    /\ cache = None
    /\ cacheFailed = FALSE
    /\ served = Empty

------------------------------------------------------------------------------
(* The environment. *)

\* The controller writes a table.  Its computation is not part of this module.
Render(t) ==
    /\ rendered' = t
    /\ UNCHANGED <<mount, emptied, outages, crashes, pc, held, loaded, fromCache,
                   lastErr, got, cache, cacheFailed, served>>

\* The kubelet brings the mounted file up to date.  External.
Sync ==
    /\ mount # rendered
    /\ mount' = rendered
    /\ emptied' = (emptied \/ rendered = Empty)
    /\ UNCHANGED <<rendered, outages, crashes, pc, held, loaded, fromCache, lastErr, got,
                   cache, cacheFailed, served>>

\* The mounted file becomes unreadable, or is not a table.  External.
Outage ==
    /\ mount # None
    /\ outages < MaxOutages
    /\ mount' = None
    /\ outages' = outages + 1
    /\ UNCHANGED <<rendered, emptied, crashes, pc, held, loaded, fromCache, lastErr,
                   got, cache, cacheFailed, served>>

\* The process dies, wherever it is; only the cache survives.
Crash ==
    /\ pc \in Running
    /\ crashes < MaxCrashes
    /\ crashes' = crashes + 1
    /\ pc' = "off"
    /\ held' = Empty
    /\ loaded' = FALSE
    /\ fromCache' = FALSE
    /\ lastErr' = FALSE
    /\ got' = Empty
    /\ served' = Empty
    /\ UNCHANGED <<envVars, cache, cacheFailed>>

------------------------------------------------------------------------------
(* The start of tsjwt-dataplane. *)

\* Mutation: a cache that does not exist is not told from one that does.
LoadCacheUnchecked ==
    /\ pc = "off"
    /\ pc' = "boot"
    /\ cacheFailed' = FALSE
    /\ held' = cache
    /\ loaded' = TRUE
    /\ fromCache' = TRUE
    /\ UNCHANGED <<envVars, crashes, lastErr, got, cache, served>>

\* LoadCache; without a cache there is nothing to restore.
LoadCache ==
    /\ pc = "off"
    /\ pc' = "boot"
    /\ cacheFailed' = FALSE
    /\ IF cache = None
       THEN UNCHANGED <<held, loaded, fromCache>>
       ELSE /\ held' = cache
            /\ loaded' = TRUE
            /\ fromCache' = TRUE
    /\ UNCHANGED <<envVars, crashes, lastErr, got, cache, served>>

\* LoadCache returns an error: the file is there and cannot be read or parsed, at this
\* start or at every one (nothing syncs it to the disk, and an older version may have
\* written it).  main logs it and goes on with no table.
LoadCacheFails ==
    /\ pc = "off"
    /\ cache # None
    /\ pc' = "boot"
    /\ cacheFailed' = TRUE
    /\ UNCHANGED <<envVars, crashes, held, loaded, fromCache, lastErr, got, cache, served>>

\* Mutation: the proxy is not given the restored table: the first read that
\* succeeds is expected to do it.
ServeCachedLater ==
    /\ pc = "boot"
    /\ pc' = "idle"
    /\ UNCHANGED <<envVars, crashes, held, loaded, fromCache, lastErr, got, cache,
                   cacheFailed, served>>

\* main gives the proxy a restored table before it starts the polling: the first
\* Refresh will not, if the file still says the same.
ServeCached ==
    /\ pc = "boot"
    /\ pc' = "idle"
    /\ served' = held
    /\ UNCHANGED <<envVars, crashes, held, loaded, fromCache, lastErr, got, cache,
                   cacheFailed>>

------------------------------------------------------------------------------
(* Run and Refresh. *)

\* ReadRouteFile succeeds: the whole file parsed.
Read ==
    /\ pc = "idle"
    /\ mount # None
    /\ got' = mount
    /\ pc' = "got"
    /\ UNCHANGED <<envVars, crashes, held, loaded, fromCache, lastErr, cache, cacheFailed,
                   served>>

\* Mutation: a file that cannot be read is an empty table.
ReadFailsEmpty ==
    /\ pc = "idle"
    /\ mount = None
    /\ got' = Empty
    /\ pc' = "got"
    /\ UNCHANGED <<envVars, crashes, held, loaded, fromCache, lastErr, cache, cacheFailed,
                   served>>

\* ReadRouteFile fails: the error is kept for LastError, and nothing else
\* changes.
ReadFails ==
    /\ pc = "idle"
    /\ mount = None
    /\ lastErr' = TRUE
    /\ UNCHANGED <<envVars, crashes, pc, held, loaded, fromCache, got, cache, cacheFailed,
                   served>>

SameRoutes(a, b) == a.routes = b.routes

\* Mutation: the first read after a start from the cache always counts as no
\* change, because a table is already in place.
CommitTrustsCache ==
    LET changed == ~SameRoutes(held, got) /\ ~fromCache IN
    /\ pc = "got"
    /\ held' = IF changed THEN got ELSE held
    /\ loaded' = TRUE
    /\ fromCache' = fromCache
    /\ pc' = IF changed THEN "cache" ELSE "idle"
    /\ lastErr' = (changed /\ lastErr)
    /\ UNCHANGED <<envVars, crashes, got, cache, cacheFailed, served>>

\* The table is compared and taken over; a table that compares equal is dropped
\* and Refresh returns.  The source counts as loaded from here on.
Commit ==
    LET changed == ~SameRoutes(held, got) IN
    /\ pc = "got"
    /\ held' = IF changed THEN got ELSE held
    /\ loaded' = TRUE
    /\ fromCache' = FALSE
    /\ pc' = IF changed THEN "cache" ELSE "idle"
    /\ lastErr' = (changed /\ lastErr)
    /\ UNCHANGED <<envVars, crashes, got, cache, cacheFailed, served>>

\* Mutation: the cache is written only when there is none.
WriteCacheOnce ==
    /\ pc = "cache"
    /\ pc' = "apply"
    /\ cache' = IF cache = None THEN got ELSE cache
    /\ cacheFailed' = FALSE
    /\ UNCHANGED <<envVars, crashes, held, loaded, fromCache, lastErr, got, served>>

\* WriteRouteFile: a temporary file and a rename, so all or nothing.
WriteCache ==
    /\ pc = "cache"
    /\ pc' = "apply"
    /\ cache' = got
    /\ cacheFailed' = FALSE
    /\ UNCHANGED <<envVars, crashes, held, loaded, fromCache, lastErr, got, served>>

\* WriteRouteFile fails: logged, and not tried again before the next change.
WriteCacheFails ==
    /\ pc = "cache"
    /\ pc' = "apply"
    /\ cacheFailed' = TRUE
    /\ UNCHANGED <<envVars, crashes, held, loaded, fromCache, lastErr, got, cache,
                   served>>

\* OnChange: Dynamic.Set.  A table that parsed is not refused (NewRouter repeats
\* the checks of Parse), and an empty one clears the proxy.
Apply ==
    /\ pc = "apply"
    /\ pc' = "idle"
    /\ served' = got
    /\ lastErr' = FALSE
    /\ UNCHANGED <<envVars, crashes, held, loaded, fromCache, got, cache, cacheFailed>>

------------------------------------------------------------------------------
Step ==
    \/ LoadCache \/ LoadCacheFails \/ ServeCached
    \/ Read \/ ReadFails \/ Commit \/ WriteCache \/ WriteCacheFails \/ Apply

Environment ==
    \/ \E t \in Table : Render(t)
    \/ Sync \/ Outage \/ Crash

Next == Step \/ Environment

Spec == Init /\ [][Next]_vars

\* The kubelet restarts the process, the ticker fires, and Refresh runs to its
\* end.  Nothing is assumed of the controller, the mount or the disk.
FairSpec == Spec /\ WF_vars(Step)

------------------------------------------------------------------------------
(* Properties. *)

\* Between two reads the proxy serves what the source holds, also after a start
\* from the cache that the first read merely confirms.
ServesWhatItHolds == pc = "idle" => served = held

\* "While running, an unreadable or invalid file leaves the table already in use
\* untouched", and does not poison the cache: a running proxy with routes loses them,
\* and so does the cache, only to a table without routes that was really mounted.  A
\* crash takes them; the start after it brings routes back if there is a cache and
\* LoadCache can read it.
OutageKeepsRoutes ==
    [][~emptied =>
         /\ served # Empty /\ pc' # "off" => served' # Empty
         /\ cache' # Empty /\ (cache # None => cache' # None)
         /\ pc = "boot" /\ pc' = "idle" /\ cache # None /\ ~cacheFailed
               => served' # Empty]_vars

\* "Across a restart, the last table that parsed is reloaded": between two reads
\* the cache holds the table in use, or there never was a table with routes; unless
\* LoadCache could not read it or WriteRouteFile not write it, and no later read or
\* write of it succeeded.
CacheCoversRestart ==
    pc = "idle" /\ ~cacheFailed => \/ cache = served
                                   \/ cache = None /\ served = Empty

\* A table that stays in the mounted file is the table served in the end, as far
\* as sameRoutes can tell, whatever was cached, crashed or unreadable before.
Converges ==
    \A t \in Table : <>[](mount = t) => <>[](SameRoutes(served, t))

\* sameRoutes "compares tables by the fields that affect behaviour"
\* (routetable/filesource.go:184), so a table that stays in the mounted file is
\* served in the end with everything that affects behaviour, ClaimHeaders too.
ConvergesFully ==
    \A t \in Table : <>[](mount = t) => <>[](served = t)

------------------------------------------------------------------------------
(* The inductive invariant of the proofs. *)

\* Where Refresh is says how the two copies of the table and the one it has read
\* are related: the proxy is behind the source only inside Refresh and at the start.
Handover ==
    /\ pc = "off" => held = Empty /\ served = Empty
    /\ pc = "boot" => /\ served = Empty
                      /\ \/ held = cache
                         \/ held = Empty /\ (cache = None \/ cacheFailed)
    /\ pc \in {"idle", "got"} => served = held
    /\ pc \in {"cache", "apply"} => held = got

\* The cache is behind only until WriteCache, or because it could not be read or written.
Cached ==
    /\ pc \in {"idle", "got"} /\ ~cacheFailed => cache = held \/ (cache = None /\ held = Empty)
    /\ pc = "apply" /\ ~cacheFailed => cache = got

\* An empty table comes from nowhere but the mounted file.
EmptyWasMounted ==
    ~emptied => /\ mount # Empty
                /\ cache # Empty
                /\ pc \in {"got", "cache", "apply"} => got # Empty

IInv == TypeOK /\ Handover /\ Cached /\ EmptyWasMounted
=============================================================================
