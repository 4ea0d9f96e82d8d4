----------------------------- MODULE Controller -----------------------------
(***************************************************************************)
(* gateway/reconcile.go and provision.go: the controller that renders one  *)
(* Gateway's routes into a ConfigMap, provisions its data plane and        *)
(* reports on both, against people who edit what it reads.                 *)
(*                                                                         *)
(* Reads go to the watch cache.  A change in the model is its arrival in   *)
(* that cache, together with the event the watches make of it, if any.     *)
(* One worker serves the queue, which holds a key at most once; a key that *)
(* is added during its reconcile is served again.                          *)
(***************************************************************************)
EXTENDS Translate, FiniteSets

CONSTANTS
    Gateway,    \* what the Gateway's spec and annotations can be
    RouteSpec,  \* what an HTTPRoute can be, by its rank
    Services,   \* the sets of Services there can be
    World,      \* the states of the API the controller may start in
    MaxEdits,   \* bound: changes by others
    MaxFaults   \* bound: writes the API server fails

\* No such object.
None == [absent |-> TRUE]

Rank == DOMAIN RouteSpec

IsSeq(s) == Len(s) \in Nat /\ DOMAIN s = 1..Len(s)
WellFormed(r) == IsSeq(r.rules) /\ \A ri \in DOMAIN r.rules : IsSeq(r.rules[ri].matches)

ASSUME Configuration ==
    /\ IsSeq(RouteSpec) /\ Rank # {}
    /\ \A n \in Rank : \A r \in RouteSpec[n] : r.rank = n /\ WellFormed(r)
    /\ \A g, h \in Gateway \ {None} : g.ns = h.ns /\ g.name = h.name
    /\ \A w \in World : /\ w.gateway \in Gateway /\ w.services \in Services
                        /\ w.routes = [n \in Rank |-> w.routes[n]]
                        /\ \A n \in Rank : w.routes[n] \in RouteSpec[n]
    /\ MaxEdits \in Nat
    /\ MaxFaults \in Nat

VARIABLES
    gateway,    \* the Gateway, or None
    gwGen,      \* its generation
    class,      \* the GatewayClass it names: "absent", "foreign" or "ours"
    routes,     \* the HTTPRoutes; one that names no parent may as well not exist
    gen,        \* their generations, which here count every edit
    services,   \* the Services
    edits, faults,
    queued,     \* the Gateway's key is in the queue
    pc,         \* where Reconcile is
    gw, at,     \* Reconcile's Gateway and its generation
    list,       \* render's routes, with their generations
    plan,       \* what Translate returned
    telling,    \* where applyRouteStatus is in the list
    next,       \* the next of Objects to apply
    sts,        \* ReadyReplicas > 0 in the StatefulSet Reconcile has applied
    configMap,  \* routes.json, or None
    made,       \* the other objects that exist
    pod,        \* the pod template
    ready,      \* a replica is ready
    told,       \* the Accepted condition on each route, or None
    status,     \* the Gateway's status, or None
    unseen,     \* a Service or the class changed, and no reconcile has read it
    lost        \* routes whose status write failed

api    == <<gateway, gwGen, class, routes, gen, services>>
inside == <<gw, at, list, plan, telling, next, sts>>
owned  == <<configMap, made, pod>>
vars   == <<api, edits, faults, queued, pc, inside, owned, ready, told, status,
            unseen, lost>>

------------------------------------------------------------------------------
(* provision.go *)

\* The order in which Reconcile applies what the Gateway owns.
Objects == <<"routes", "account", "role", "binding", "service", "statefulset">>

\* names.declaredHostname: the first label of the first listener name that is no
\* wildcard; "" is none.
DeclaredHostname(g) ==
    LET named == SelectSeq(g.listeners,
                           LAMBDA l : l.hostname # <<>> /\ ~IsWildcard(l.hostname))
    IN  IF named = <<>> THEN "" ELSE named[1].hostname[1]

\* names.hostname, for the Gateway's address and the issuer.
Hostname(g) == IF DeclaredHostname(g) # "" THEN DeclaredHostname(g) ELSE g.name

\* StatefulSet: it refuses a wait that is no duration of up to two minutes, and its
\* pod takes the declared name, or its own (hostnameArg).
WaitRefused(g) == g.wait = "bad"
PodOf(g) ==
    [hostname |-> IF DeclaredHostname(g) # "" THEN DeclaredHostname(g) ELSE "pod",
     issuer   |-> Hostname(g),
     wait     |-> g.wait]

------------------------------------------------------------------------------
(* Other people's changes. *)

\* Reconcile is over, and with it its variables.
Return ==
    /\ pc' = "idle"
    /\ gw' = None /\ at' = 0 /\ list' = <<>> /\ plan' = None
    /\ telling' = 1 /\ next' = 1 /\ sts' = FALSE

Edit == edits < MaxEdits /\ edits' = edits + 1

Init ==
    /\ \E w \in World : gateway = w.gateway /\ routes = w.routes /\ services = w.services
    /\ class \in {"absent", "ours"}
    /\ gwGen = 0
    /\ gen = [n \in Rank |-> 0]
    /\ edits = 0 /\ faults = 0
    /\ queued = TRUE
    /\ pc = "idle"
    /\ gw = None /\ at = 0 /\ list = <<>> /\ plan = None /\ telling = 1 /\ next = 1 /\ sts = FALSE
    /\ configMap = None /\ made = {} /\ pod = None
    /\ ready = FALSE
    /\ told = [n \in Rank |-> None]
    /\ status = None
    /\ unseen = FALSE
    /\ lost = {}

\* For(Gateway): its changes are events.  What it owns is collected with it.  One that
\* is deleted does not come back.
EditGateway(g) ==
    /\ Edit
    /\ g # gateway
    /\ gateway = None => gwGen = 0
    /\ gateway' = g
    /\ gwGen' = gwGen + 1
    /\ queued' = TRUE
    /\ IF g = None
       THEN configMap' = None /\ made' = {} /\ pod' = None /\ ready' = FALSE /\ status' = None
       ELSE UNCHANGED <<owned, ready, status>>
    /\ UNCHANGED <<class, routes, gen, services, faults, pc, inside, told, unseen, lost>>

\* Does the watch's map function find this Gateway among the parents?
Names(r) == \E g \in Gateway \ {None} : <<g.ns, g.name>> \in r.parents

\* Mutation: only the new state of a route is mapped to its Gateways.
RouteEventNew(old, new) == Names(new)

\* Watches(HTTPRoute): an update is mapped through the old and the new object.
RouteEvent(old, new) == Names(old) \/ Names(new)

EditRoute(n, r) ==
    /\ Edit
    /\ r # routes[n]
    /\ routes' = [routes EXCEPT ![n] = r]
    /\ gen' = [gen EXCEPT ![n] = @ + 1]
    /\ queued' = (queued \/ RouteEvent(routes[n], r))
    /\ UNCHANGED <<gateway, gwGen, class, services, faults, pc, inside, owned, ready,
                   told, status, unseen, lost>>

\* Only Services the Gateway owns are watched: no event.
EditServices(s) ==
    /\ Edit
    /\ s # services
    /\ services' = s
    /\ unseen' = TRUE
    /\ UNCHANGED <<gateway, gwGen, class, routes, gen, faults, queued, pc, inside,
                   owned, ready, told, status, lost>>

\* The class is created, or replaced: no event for the Gateways that name it.
EditClass(c) ==
    /\ Edit
    /\ c # class
    /\ class' = c
    /\ unseen' = TRUE
    /\ UNCHANGED <<gateway, gwGen, routes, gen, services, faults, queued, pc, inside, owned,
                   ready, told, status, lost>>

\* Owns: the StatefulSet's status changes.
ReadyChanges ==
    /\ Edit
    /\ "statefulset" \in made
    /\ ready' = ~ready
    /\ queued' = TRUE
    /\ UNCHANGED <<api, faults, pc, inside, owned, told, status, unseen, lost>>

\* Owns: somebody deletes the rendered table.
TableDeleted ==
    /\ Edit
    /\ configMap # None
    /\ configMap' = None
    /\ queued' = TRUE
    /\ UNCHANGED <<api, faults, pc, inside, made, pod, ready, told, status, unseen, lost>>

\* The controller starts again: the first list of every watch is an event.
Restart ==
    /\ Edit
    /\ Return
    /\ queued' = TRUE
    /\ UNCHANGED <<api, faults, owned, ready, told, status, unseen, lost>>

------------------------------------------------------------------------------
(* Reconcile. *)

\* Return an error: the key is queued again.
Fail == Return /\ queued' = TRUE

\* Get the Gateway and its class; return if either is missing or not ours.
Begin ==
    /\ pc = "idle"
    /\ queued
    /\ queued' = FALSE
    /\ unseen' = FALSE
    /\ IF gateway = None \/ class # "ours"
       THEN Return
       ELSE /\ gw' = gateway
            /\ at' = gwGen
            /\ pc' = "list"
            /\ UNCHANGED <<list, plan, telling, next, sts>>
    /\ UNCHANGED <<api, edits, faults, owned, ready, told, status, lost>>

\* List the routes, in whatever order.
ListRoutes ==
    /\ pc = "list"
    /\ \E order \in SetToSeqs(Rank) :
          list' = [i \in DOMAIN order |-> [route |-> routes[order[i]], gen |-> gen[order[i]]]]
    /\ pc' = "render"
    /\ UNCHANGED <<api, edits, faults, queued, gw, at, plan, telling, next, sts, owned,
                   ready, told, status, unseen, lost>>

\* List the Services, and translate.
Render ==
    /\ pc = "render"
    /\ plan' = Translate(gw, [i \in DOMAIN list |-> list[i].route], services)
    /\ unseen' = FALSE
    /\ pc' = "tell"
    /\ UNCHANGED <<api, edits, faults, queued, gw, at, list, telling, next, sts, owned,
                   ready, told, status, lost>>

\* Mutation: a condition is written even if it is there already.
ConditionChangesAlways(n, cond) == TRUE

\* upsertRouteParentCondition, parentRefEqual
ConditionChanges(n, cond) == told[n] # cond

\* applyRouteStatus for the next route.  A write is refused when the route has changed
\* since it was listed, or fails; both are only logged.  A write is an event.
TellRoute ==
    LET r     == list[telling].route
        n     == r.rank
        cond  == RouteAcceptedCondition(r, list[telling].gen, plan.errs)
        write == AttachedTo(gw, r) /\ ConditionChanges(n, cond) /\ gen[n] = cond.gen
    IN  /\ pc = "tell"
        /\ telling' = telling + 1
        /\ pc' = IF telling = Len(list) THEN "apply" ELSE "tell"
        /\ \/ /\ write
              /\ told' = [told EXCEPT ![n] = cond]
              /\ lost' = lost \ {n}
              /\ queued' = TRUE
              /\ UNCHANGED faults
           \/ /\ write
              /\ faults < MaxFaults
              /\ faults' = faults + 1
              /\ lost' = lost \cup {n}
              /\ UNCHANGED <<told, queued>>
           \/ /\ ~write
              /\ UNCHANGED <<told, lost, queued, faults>>
        /\ UNCHANGED <<api, edits, gw, at, list, plan, next, sts, owned, ready, status, unseen>>

\* CreateOrUpdate of one object, which writes, and makes an event of it, only if there
\* is a difference.  A Gateway that is gone since owns nothing: its objects go with it.
Put(o) ==
    /\ configMap' = IF o = "routes" /\ gateway # None THEN [table |-> plan.table] ELSE configMap
    /\ made' = IF o # "routes" /\ gateway # None THEN made \cup {o} ELSE made
    /\ pod' = IF o = "statefulset" /\ gateway # None THEN PodOf(gw) ELSE pod
    /\ queued' = (queued \/ owned' # owned)

\* Mutation: one object too many.
LastObjectLate(k) == k > Len(Objects)

LastObject(k) == k = Len(Objects)

\* StatefulSet returns an error, before anything is written or reported.
Refused(o) == o = "statefulset" /\ WaitRefused(gw)

Apply ==
    /\ pc = "apply"
    /\ LET o == Objects[next] IN
       IF Refused(o)
       THEN Fail /\ UNCHANGED owned
       ELSE /\ Put(o)
            /\ next' = next + 1
            /\ sts' = (ready /\ o = "statefulset")
            /\ pc' = IF LastObject(next) THEN "report" ELSE "apply"
            /\ UNCHANGED <<gw, at, list, plan, telling>>
    /\ UNCHANGED <<api, edits, faults, ready, told, status, unseen, lost>>

\* The API server fails a list or a write: Reconcile returns the error.
Fault ==
    /\ pc \in {"list", "render", "apply", "report"}
    /\ faults < MaxFaults
    /\ faults' = faults + 1
    /\ Fail
    /\ UNCHANGED <<api, edits, owned, ready, told, status, unseen, lost>>

\* status: Programmed and the address follow the StatefulSet.  Only the message of a
\* Gateway that is Programmed has the number of its routes.  The address stays.
\* The update is refused when the Gateway has changed since it was read.
Report ==
    /\ pc = "report"
    /\ LET new == [gen        |-> at,
                   programmed |-> sts,
                   routes     |-> IF sts THEN <<Len(plan.table)>> ELSE <<>>,
                   address    |-> IF sts THEN Hostname(gw)
                                  ELSE IF status = None THEN "" ELSE status.address]
       IN  IF gwGen # at
           THEN Fail /\ UNCHANGED status
           ELSE /\ status' = new
                /\ queued' = (queued \/ status # new)
                /\ Return
    /\ UNCHANGED <<api, edits, faults, owned, ready, told, unseen, lost>>

------------------------------------------------------------------------------
Others ==
    \/ \E g \in Gateway : EditGateway(g)
    \/ \E n \in Rank : \E r \in RouteSpec[n] : EditRoute(n, r)
    \/ \E s \in Services : EditServices(s)
    \/ \E c \in {"foreign", "ours"} : EditClass(c)
    \/ ReadyChanges \/ TableDeleted \/ Restart

Work == Begin \/ ListRoutes \/ TellRoute \/ Apply \/ Report

Next == Others \/ Work \/ Render \/ Fault

\* The manager's worker takes keys from its queue and finishes what it takes.  Render
\* is the only step from "render" to "tell", and always possible there.
Fairness == WF_vars(Work) /\ WF_pc(pc = "render" /\ pc' = "tell")

Spec == Init /\ [][Next]_vars /\ Fairness

------------------------------------------------------------------------------
(* Properties. *)

Flags == queued \in BOOLEAN /\ ready \in BOOLEAN /\ unseen \in BOOLEAN

\* Types.
TypeOK ==
    /\ gateway \in Gateway
    /\ class \in {"absent", "foreign", "ours"}
    /\ \A n \in Rank : routes[n] \in RouteSpec[n]
    /\ services \in Services
    /\ edits \in 0..MaxEdits /\ faults \in 0..MaxFaults
    /\ Flags
    /\ pc \in {"idle", "list", "render", "tell", "apply", "report"}
    /\ pc = "apply" => next \in DOMAIN Objects
    /\ made \subseteq ToSet(Objects) \ {"routes"}
    /\ lost \subseteq Rank

\* Every route that is rendered answers only for names that a listener which admits
\* its HTTPRoute serves and that the HTTPRoute asks for, goes to a Service of its own
\* namespace that exists, and carries that Service's audience or one the Gateway allows
\* (routes.go: admittingListeners, the cross-namespace and audience refusals).
NothingBorrowed ==
    pc = "tell" /\ ~unseen =>
      \A rt \in ToSet(plan.table) :
        LET r == (CHOOSE l \in ToSet(list) : l.route.rank = rt.name[1]).route
            admitting == {l \in ToSet(gw.listeners) : l.from = "All" \/ (l.from = "Same" /\ r.ns = gw.ns)}
            named == {l.hostname : l \in admitting} \ {<<>>}
            within(h, names) == \E m \in names : h = m \/ WildcardCovers(m, h)
        IN  /\ admitting # {}
            /\ rt.hostnames = {} => r.hostnames = {} /\ named = {}
            /\ \A h \in rt.hostnames :
                  /\ r.hostnames # {} => within(h, r.hostnames)
                  /\ named # {} => within(h, named)
            /\ \E s \in services :
                  /\ s.ns = r.ns
                  /\ \E port \in s.ports : rt.upstream = <<s.name, s.ns, port>>
                  /\ rt.audience \in {<<s.name, s.ns>>} \cup gw.audiences

\* A route is to be told that it is accepted only if each of its rules is in the table
\* (routes.go: "True when every rule translated").
AcceptedMeansServed ==
    pc = "tell" =>
      \A r \in {l.route : l \in ToSet(list)} :
        AttachedTo(gw, r) /\ RouteAcceptedCondition(r, 0, plan.errs).reason = "none" =>
           \A ri \in DOMAIN r.rules :
              \E rt \in ToSet(plan.table) : rt.name[1] = r.rank /\ rt.name[2] = ri

\* What the world asks for at this moment.
Now == Translate(gateway, routes, services)

\* The Gateway is one that this controller is to serve.
Ours == gateway # None /\ class = "ours"

\* Between two reconciles, the last of which has read what no watch reports.
Idle == pc = "idle" /\ Ours /\ ~unseen

\* When others stop changing things, the ConfigMap comes to hold the translation of
\* what there is, whatever order the lists come in, whatever failed on the way and
\* whoever deleted it: except after a change that no watch reports (reconcile.go).
RoutesArrive == <>[](Idle => configMap = [table |-> Now.table])

\* Then also each attached route says why it is rejected or that it is not, unless the
\* write of it failed; and the Gateway is Programmed exactly if a replica is ready, and
\* then counts the routes in the table, unless its wait annotation is refused.
StatusFollows ==
    <>[](Idle =>
           LET now == Now IN
           /\ \A n \in Rank \ lost :
                 AttachedTo(gateway, routes[n]) =>
                    told[n] = RouteAcceptedCondition(routes[n], gen[n], now.errs)
           /\ ~WaitRefused(gateway) =>
                 /\ status # None
                 /\ status.programmed = ready
                 /\ ready => status.routes = <<Len(now.table)>>
                 /\ pod = PodOf(gateway))

\* The controller's own writes do not keep it busy: it comes to rest, unless a wait
\* annotation is refused, which it retries for ever.
Settles == <>[]((pc = "idle" /\ ~queued) \/ (Ours /\ WaitRefused(gateway)))

------------------------------------------------------------------------------
(* The inductive invariant of the safety proofs. *)

\* Reconcile has a Gateway, and its loops are where its pc says.
Progress ==
    /\ pc # "idle" => gw \in Gateway \ {None}
    /\ pc \in {"idle", "list", "render"} => telling = 1
    /\ pc = "tell" => telling \in DOMAIN list
    /\ pc \in {"idle", "list", "render", "tell"} => next = 1

\* The list has each rank once, with some state of the route of that rank.
Listed ==
    /\ routes = [n \in Rank |-> routes[n]]
    /\ pc \in {"render", "tell"} =>
          /\ IsSeq(list) /\ list # <<>>
          /\ \A i \in DOMAIN list :
                list[i].route.rank \in Rank /\ list[i].route \in RouteSpec[list[i].route.rank]
          /\ \A i, j \in DOMAIN list : list[i].route.rank = list[j].route.rank => i = j

\* The plan is the translation of the list, for the Services of some moment: the
\* present one, unless they changed since.
Planned ==
    pc = "tell" =>
      \E s \in Services :
        /\ plan = Translate(gw, [i \in DOMAIN list |-> list[i].route], s)
        /\ ~unseen => s = services

IInv == TypeOK /\ Progress /\ Listed /\ Planned
=============================================================================
