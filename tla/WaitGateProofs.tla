--------------------------- MODULE WaitGateProofs ---------------------------
(* Machine-checked proofs about WaitGate, for any number of calls and backends *)
(* and any positive limits.                                                   *)
EXTENDS WaitGate, FiniteSetTheorems, TLAPS

\* The sets behind the two gauges are finite, so their cardinalities are numbers.
LEMMA GaugesFinite ==
    ASSUME NEW b
    PROVE  /\ IsFiniteSet(PendingOn(b)) /\ Cardinality(PendingOn(b)) \in Nat
           /\ IsFiniteSet(ActiveOn(b)) /\ Cardinality(ActiveOn(b)) \in Nat
BY FiniteInstance, FS_Subset, FS_CardinalityType DEF PendingOn, ActiveOn

\* If d.pending is 1, the one pending call has no company.
LEMMA OnlyPending ==
    ASSUME IInv, NEW b \in Backend, pending[b] = 1,
           NEW r \in PendingOn(b), NEW s \in PendingOn(b)
    PROVE  r = s
<1>1. Cardinality(PendingOn(b)) = 1
  BY DEF IInv, CountsMatchDemand
<1>2. PICK x : PendingOn(b) = {x}
  BY <1>1, GaugesFinite, FS_Singleton
<1> QED
  BY <1>2

\* A backend with a pending call has a positive d.pending.
LEMMA PendingPositive ==
    ASSUME IInv, NEW b \in Backend, NEW r \in PendingOn(b)
    PROVE  pending[b] \in Nat \ {0}
<1>1. PendingOn(b) # {}
  OBVIOUS
<1> QED
  BY <1>1, GaugesFinite, FS_EmptySet DEF IInv, CountsMatchDemand

\* The invariant holds of the gate NewWaitGate returns.
LEMMA InitIInv == Init => IInv
<1> SUFFICES ASSUME Init PROVE IInv
  OBVIOUS
<1>1. TypeOK
  BY DEF Init, TypeOK, CallState, ProberState
<1>2. Structure
  BY DEF Init, Structure, FreshCall, HasRecord, CheckRuns, WaitsOnBatch,
         ClosedAtExit, Pending
<1>3. ProbeOnlyOnDemand
  BY DEF Init, ProbeOnlyOnDemand, Live
<1>4. CountsMatchDemand
  <2> SUFFICES ASSUME NEW b \in Backend
               PROVE  PendingOn(b) = {} /\ ActiveOn(b) = {}
    BY FS_EmptySet DEF Init, CountsMatchDemand
  <2> QED
    BY DEF Init, PendingOn, ActiveOn, Pending
<1>5. LimitsHold
  BY FS_EmptySet, LimitsPositive DEF Init, LimitsHold, Pending
<1> QED
  BY <1>1, <1>2, <1>3, <1>4, <1>5 DEF IInv

\* A step that leaves on and pc alone leaves the sets behind the gauges alone.
LEMMA SameGauges ==
    ASSUME UNCHANGED <<pc, on>>
    PROVE  \A b : PendingOn(b)' = PendingOn(b) /\ ActiveOn(b)' = ActiveOn(b)
BY DEF PendingOn, ActiveOn

------------------------------------------------------------------------------
(* The steps of a probing goroutine. *)

\* A probe returning, the timer firing and the goroutine stopping change only
\* where the goroutine is, and only a cancelled one stops.
LEMMA ProbeIInv ==
    ASSUME IInv, NEW g \in Request,
           ProbeSucceeds(g) \/ ProbeFails(g) \/ ProbeAgain(g) \/ StopProbing(g)
    PROVE  IInv'
<1>1. /\ UNCHANGED <<pc, on, ready, ended, known, pending, active, checking,
                     changed, closed, cancelled, up>>
      /\ prober[g] \in {"probe", "sleep"}
      /\ \E v \in {"probe", "found", "sleep", "exit"} :
            /\ prober' = [prober EXCEPT ![g] = v]
            /\ v = "exit" => g \in cancelled
  BY DEF ProbeSucceeds, ProbeFails, ProbeAgain, StopProbing
<1>2. PICK v \in {"probe", "found", "sleep", "exit"} :
            prober' = [prober EXCEPT ![g] = v] /\ (v = "exit" => g \in cancelled)
  BY <1>1
<1>3. TypeOK'
  BY <1>1, <1>2 DEF IInv, TypeOK, ProberState
<1>4. \A h \in Request : prober'[h] = IF h = g THEN v ELSE prober[h]
  BY <1>2 DEF IInv, TypeOK
<1>5. Structure'
  BY <1>1, <1>2, <1>4 DEF IInv, TypeOK, Structure, FreshCall, HasRecord, CheckRuns,
         WaitsOnBatch, ClosedAtExit, IsCurrent, Live
<1>6. ProbeOnlyOnDemand'
  BY <1>1, <1>2, <1>4 DEF IInv, ProbeOnlyOnDemand, IsCurrent, Live
<1>7. CountsMatchDemand'
  BY <1>1, SameGauges DEF IInv, CountsMatchDemand
<1>8. LimitsHold'
  BY <1>1 DEF IInv, LimitsHold
<1> QED
  BY <1>3, <1>5, <1>6, <1>7, <1>8 DEF IInv

\* The goroutine that found its backend ready signals its own batch or nobody.
LEMMA SignalIInv ==
    ASSUME IInv, NEW g \in Request, Signal(g)
    PROVE  IInv'
<1> DEFINE b == on[g]
<1>1. /\ prober[g] = "found"
      /\ b \in Backend
  BY DEF Signal, IInv, Structure, HasRecord
<1>2. \A h \in Request : prober'[h] = IF h = g THEN "exit" ELSE prober[h]
  BY DEF IInv, TypeOK, Signal
<1>3. TypeOK'
  BY <1>1 DEF IInv, TypeOK, Signal, ProberState, IsCurrent
<1>4. CASE IsCurrent(g, b)
  <2>1. /\ closed' = closed \cup {g}
        /\ cancelled' = cancelled \cup {g}
        /\ checking' = checking \ {b}
        /\ UNCHANGED <<pc, on, ready, ended, known, pending, active, changed, up>>
    BY <1>1, <1>4 DEF Signal, IsCurrent, IInv, TypeOK
  <2>2. pc[g] # "new"
    BY <1>1 DEF IInv, Structure, FreshCall
  <2>3. FreshCall' /\ HasRecord' /\ ClosedAtExit'
    BY <1>1, <1>2, <2>1, <2>2 DEF IInv, TypeOK, Structure, FreshCall, HasRecord, ClosedAtExit
  <2>4. CheckRuns'
    BY <1>1, <1>2, <2>1 DEF IInv, TypeOK, Structure, CheckRuns
  <2>5. WaitsOnBatch'
    BY <1>1, <1>2, <1>4, <2>1 DEF IInv, TypeOK, Structure, WaitsOnBatch, IsCurrent, Pending
  <2>6. ProbeOnlyOnDemand'
    BY <1>1, <1>2, <1>4, <2>1 DEF IInv, TypeOK, ProbeOnlyOnDemand, IsCurrent, Live
  <2> QED
    BY <2>3, <2>4, <2>5, <2>6 , <1>3, <2>1, SameGauges
    DEF IInv, Structure, CountsMatchDemand, LimitsHold
<1>5. CASE ~IsCurrent(g, b)
  <2>1. UNCHANGED <<pc, on, ready, ended, known, pending, active, checking,
                    changed, closed, cancelled, up>>
    BY <1>5 DEF Signal
  <2>2. g \in cancelled
    BY <1>1, <1>5 DEF IInv, ProbeOnlyOnDemand, Live
  <2>3. Structure'
    BY <1>1, <1>2, <2>1, <2>2 DEF IInv, TypeOK, Structure, FreshCall, HasRecord,
         CheckRuns, WaitsOnBatch, ClosedAtExit, IsCurrent, Live
  <2>4. ProbeOnlyOnDemand'
    BY <1>2, <2>1, <2>2 DEF IInv, ProbeOnlyOnDemand, IsCurrent, Live
  <2> QED
    BY <2>3, <2>4, <1>3, <2>1, SameGauges DEF IInv, CountsMatchDemand, LimitsHold
<1> QED
  BY <1>4, <1>5

------------------------------------------------------------------------------
(* The steps of a call of Acquire. *)

\* A refusal changes nothing but where the call is; a context that ends and a
\* backend that comes or goes change nothing the invariant looks at.
LEMMA QuietIInv ==
    ASSUME IInv,
           \/ \E r \in Request : ContextEnds(r)
           \/ \E b \in Backend : BackendFlips(b)
           \/ UNCHANGED vars
    PROVE  IInv'
<1>1. /\ UNCHANGED <<pc, on, ready, known, pending, active, checking, changed,
                     closed, cancelled, prober>>
      /\ ended' \subseteq Request
      /\ up' \subseteq Backend
  BY DEF IInv, TypeOK, ContextEnds, BackendFlips, vars
<1>2. TypeOK'
  BY <1>1 DEF IInv, TypeOK
<1>3. Structure'
  BY <1>1 DEF IInv, Structure, FreshCall, HasRecord, CheckRuns, WaitsOnBatch,
         ClosedAtExit, IsCurrent
<1>4. ProbeOnlyOnDemand' /\ LimitsHold'
  BY <1>1 DEF IInv, ProbeOnlyOnDemand, LimitsHold, IsCurrent
<1>5. CountsMatchDemand'
  BY <1>1, SameGauges DEF IInv, CountsMatchDemand
<1> QED
  BY <1>2, <1>3, <1>4, <1>5 DEF IInv

\* A refused call registers no demand.
LEMMA RefuseIInv ==
    ASSUME IInv, NEW r \in Request,
           \/ RefuseEnded(r)
           \/ \E b \in Backend : RefuseBackend(r, b) \/ RefusePending(r, b)
    PROVE  IInv'
<1>1. \A b \in Backend : ~NoRoomForBackend(b) /\ NoRoomToWait(b) => b \in known
  <2> SUFFICES ASSUME NEW b \in Backend, NoRoomToWait(b)
               PROVE  b \in known
    OBVIOUS
  <2>1. pending[b] # 0 /\ pending[b] = Cardinality(PendingOn(b))
    BY LimitsPositive DEF NoRoomToWait, IInv, CountsMatchDemand, TypeOK
  <2>2. PICK s : s \in PendingOn(b)
    BY <2>1, GaugesFinite, FS_EmptySet
  <2> QED
    BY <2>2 DEF PendingOn, IInv, LimitsHold, Pending
<1>2. /\ UNCHANGED <<on, ready, ended, known, pending, active, checking, changed,
                     closed, cancelled, prober, up>>
      /\ pc[r] = "new"
      /\ pc' = [pc EXCEPT ![r] = "over"]
  BY <1>1 DEF RefuseEnded, RefuseBackend, RefusePending, IInv, TypeOK
<1>3. TypeOK'
  BY <1>2 DEF IInv, TypeOK, CallState
<1>4. \A s \in Request : pc'[s] = IF s = r THEN "over" ELSE pc[s]
  BY <1>2 DEF IInv, TypeOK
<1>5. Structure'
  BY <1>2, <1>4 DEF IInv, TypeOK, Structure, FreshCall, HasRecord, CheckRuns,
         WaitsOnBatch, ClosedAtExit, IsCurrent, Pending
<1>6. ProbeOnlyOnDemand' /\ LimitsHold'
  BY <1>2, <1>4 DEF IInv, ProbeOnlyOnDemand, LimitsHold, IsCurrent, Pending
<1>7. \A b : PendingOn(b)' = PendingOn(b) /\ ActiveOn(b)' = ActiveOn(b)
  BY <1>2, <1>4 DEF PendingOn, ActiveOn, Pending
<1>8. CountsMatchDemand'
  BY <1>2, <1>7 DEF IInv, CountsMatchDemand
<1> QED
  BY <1>3, <1>5, <1>6, <1>8 DEF IInv

\* Leaving the select changes only where the call is, and it is admitted only
\* on a closed channel.
LEMMA SelectIInv ==
    ASSUME IInv, NEW r \in Request, Select(r)
    PROVE  IInv'
<1>1. PICK v \in {"admitted", "failed"} :
        /\ pc' = [pc EXCEPT ![r] = v]
        /\ v = "admitted" => ready[r] \in closed
  BY DEF Select
<1>2. /\ pc[r] = "wait"
      /\ UNCHANGED <<on, ready, ended, known, pending, active, checking, changed,
                     closed, cancelled, prober, up>>
  BY DEF Select
<1>3. \A s \in Request : pc'[s] = IF s = r THEN v ELSE pc[s]
  BY <1>1 DEF IInv, TypeOK
<1>4. TypeOK'
  BY <1>1, <1>2 DEF IInv, TypeOK, CallState
<1>5. Structure'
  BY <1>1, <1>2, <1>3 DEF IInv, TypeOK, Structure, FreshCall, HasRecord, CheckRuns,
         WaitsOnBatch, ClosedAtExit, IsCurrent, Pending
<1>6. ProbeOnlyOnDemand' /\ LimitsHold'
  BY <1>2, <1>3 DEF IInv, ProbeOnlyOnDemand, LimitsHold, IsCurrent, Pending
<1>7. \A b : PendingOn(b)' = PendingOn(b) /\ ActiveOn(b)' = ActiveOn(b)
  BY <1>2, <1>3 DEF PendingOn, ActiveOn, Pending
<1>8. CountsMatchDemand'
  BY <1>2, <1>7 DEF IInv, CountsMatchDemand
<1> QED
  BY <1>4, <1>5, <1>6, <1>8 DEF IInv

\* Releasing takes exactly the call's own unit off d.active.
LEMMA ReleaseIInv ==
    ASSUME IInv, NEW r \in Request, Release(r)
    PROVE  IInv'
<1> DEFINE b == on[r]
<1>1. /\ pc[r] = "active"
      /\ b \in Backend
      /\ r \in ActiveOn(b)
      /\ UNCHANGED <<on, ready, ended, known, pending, checking, changed, closed,
                     cancelled, prober, up>>
  BY DEF Release, IInv, Structure, HasRecord, ActiveOn
<1>2. active[b] \in Nat \ {0} /\ active[b] = Cardinality(ActiveOn(b))
  <2>1. ActiveOn(b) # {}
    BY <1>1
  <2> QED
    BY <1>1, <2>1, GaugesFinite, FS_EmptySet DEF IInv, CountsMatchDemand
<1>3. \A s \in Request : pc'[s] = IF s = r THEN "over" ELSE pc[s]
  BY DEF Release, IInv, TypeOK
<1>4. TypeOK'
  BY <1>1, <1>2 DEF Release, IInv, TypeOK, CallState
<1>5. Structure'
  BY <1>1, <1>3 DEF IInv, TypeOK, Structure, FreshCall, HasRecord, CheckRuns,
         WaitsOnBatch, ClosedAtExit, IsCurrent, Pending
<1>6. ProbeOnlyOnDemand' /\ LimitsHold'
  BY <1>1, <1>3 DEF IInv, ProbeOnlyOnDemand, LimitsHold, IsCurrent, Pending
<1>7. CountsMatchDemand'
  <2> SUFFICES ASSUME NEW c \in Backend
               PROVE  /\ pending'[c] = Cardinality(PendingOn(c)')
                      /\ active'[c] = Cardinality(ActiveOn(c)')
    BY DEF CountsMatchDemand
  <2>1. PendingOn(c)' = PendingOn(c)
    BY <1>1, <1>3 DEF PendingOn, Pending
  <2>2. ActiveOn(c)' = IF c = b THEN ActiveOn(c) \ {r} ELSE ActiveOn(c)
    BY <1>1, <1>3 DEF ActiveOn
  <2>3. active'[c] = IF c = b THEN active[c] - 1 ELSE active[c]
    BY DEF Release, IInv, TypeOK
  <2>4. Cardinality(ActiveOn(b) \ {r}) = Cardinality(ActiveOn(b)) - 1
    BY <1>1, GaugesFinite, FS_RemoveElement
  <2> QED
    BY <1>1, <2>1, <2>2, <2>3, <2>4 DEF IInv, CountsMatchDemand
<1> QED
  BY <1>4, <1>5, <1>6, <1>7 DEF IInv

\* A call that registers joins a batch that is still to be signalled, or starts
\* one of its own.
LEMMA RegisterIInv ==
    ASSUME IInv, NEW r \in Request, NEW b \in Backend, Register(r, b)
    PROVE  IInv'
<1>1. /\ pc[r] = "new" /\ prober[r] = "none" /\ r \notin closed /\ r \notin cancelled
      /\ pending[b] < MaxPending
      /\ known' = known \cup {b}
      /\ UNCHANGED <<ended, active, closed, cancelled, up>>
  BY LimitsPositive DEF Register, NoRoomToWait, IInv, TypeOK, Structure, FreshCall
<1>2. /\ \A s \in Request : pc'[s] = IF s = r THEN "wait" ELSE pc[s]
      /\ \A s \in Request : on'[s] = IF s = r THEN b ELSE on[s]
      /\ \A c \in Backend : pending'[c] = IF c = b THEN pending[c] + 1 ELSE pending[c]
  BY DEF Register, IInv, TypeOK
<1>3. TypeOK'
  <2>1. CASE b \in checking
    BY <1>1, <2>1 DEF Register, IInv, TypeOK, CallState
  <2>2. CASE b \notin checking
    BY <1>1, <2>2 DEF Register, IInv, TypeOK, CallState, ProberState
  <2> QED
    BY <2>1, <2>2
<1>4. LimitsHold'
  <2>1. Cardinality(known') <= MaxBackends
    <3>1. IsFiniteSet(known) /\ Cardinality(known) \in Nat
      BY FiniteInstance, FS_Subset, FS_CardinalityType DEF IInv, TypeOK
    <3>2. b \in known \/ Cardinality(known) < MaxBackends
      BY <3>1, LimitsPositive DEF Register, NoRoomForBackend
    <3>3. Cardinality(known \cup {b})
            = IF b \in known THEN Cardinality(known) ELSE Cardinality(known) + 1
      BY <3>1, FS_AddElement
    <3>4. CASE b \in known
      BY <1>1, <3>3, <3>4 DEF IInv, LimitsHold
    <3>5. CASE b \notin known
      BY <1>1, <3>1, <3>2, <3>3, <3>5, LimitsPositive
    <3> QED
      BY <3>4, <3>5
  <2>2. \A c \in Backend : pending'[c] <= MaxPending
    BY <1>1, <1>2, LimitsPositive DEF IInv, LimitsHold, TypeOK
  <2>3. \A s \in Request : pc'[s] \in Pending \cup {"active"} => on'[s] \in known'
    BY <1>1, <1>2 DEF IInv, LimitsHold, Pending
  <2> QED
    BY <2>1, <2>2, <2>3 DEF LimitsHold
<1>5. CountsMatchDemand'
  <2> SUFFICES ASSUME NEW c \in Backend
               PROVE  /\ pending'[c] = Cardinality(PendingOn(c)')
                      /\ active'[c] = Cardinality(ActiveOn(c)')
    BY DEF CountsMatchDemand
  <2>1. ActiveOn(c)' = ActiveOn(c)
    BY <1>1, <1>2 DEF ActiveOn
  <2>2. PendingOn(c)' = IF c = b THEN PendingOn(c) \cup {r} ELSE PendingOn(c)
    BY <1>1, <1>2 DEF PendingOn, Pending
  <2>3. r \notin PendingOn(b)
    BY <1>1 DEF PendingOn, Pending
  <2>4. Cardinality(PendingOn(b) \cup {r}) = Cardinality(PendingOn(b)) + 1
    BY <2>3, GaugesFinite, FS_AddElement
  <2> QED
    BY <1>1, <1>2, <2>1, <2>2, <2>4 DEF IInv, CountsMatchDemand
<1>6. CASE b \in checking
  <2>1. /\ \A s \in Request : ready'[s] = IF s = r THEN changed[b] ELSE ready[s]
        /\ UNCHANGED <<checking, changed, prober>>
    BY <1>6 DEF Register, IInv, TypeOK
  <2>2. FreshCall' /\ HasRecord' /\ ClosedAtExit'
    BY <1>1, <1>2, <2>1 DEF IInv, Structure, FreshCall, HasRecord, ClosedAtExit, Pending
  <2>3. CheckRuns'
    BY <1>1, <1>2, <2>1 DEF IInv, TypeOK, Structure, CheckRuns, Live
  <2>4. WaitsOnBatch'
    BY <1>1, <1>2, <1>6, <2>1 DEF IInv, TypeOK, Structure, WaitsOnBatch, CheckRuns,
           IsCurrent, Pending, Live
  <2>5. ProbeOnlyOnDemand'
    BY <1>1, <1>2, <2>1 DEF IInv, TypeOK, Structure, HasRecord, ProbeOnlyOnDemand,
           IsCurrent, Live
  <2> QED
    BY <1>3, <1>4, <1>5, <2>2, <2>3, <2>4, <2>5 DEF IInv, Structure
<1>7. CASE b \notin checking
  <2>1. /\ \A s \in Request : ready'[s] = IF s = r THEN r ELSE ready[s]
        /\ checking' = checking \cup {b}
        /\ \A c \in Backend : changed'[c] = IF c = b THEN r ELSE changed[c]
        /\ \A s \in Request : prober'[s] = IF s = r THEN "probe" ELSE prober[s]
    BY <1>7 DEF Register, IInv, TypeOK
  <2>2. FreshCall' /\ HasRecord' /\ ClosedAtExit'
    BY <1>1, <1>2, <2>1 DEF IInv, TypeOK, Structure, FreshCall, HasRecord, ClosedAtExit, Pending
  <2>3. CheckRuns'
    BY <1>1, <1>2, <1>7, <2>1 DEF IInv, TypeOK, Structure, CheckRuns, Live
  <2>4. WaitsOnBatch'
    BY <1>1, <1>2, <1>7, <2>1 DEF IInv, TypeOK, Structure, WaitsOnBatch, CheckRuns,
           IsCurrent, Pending, Live
  <2>5. ProbeOnlyOnDemand'
    BY <1>1, <1>2, <1>7, <2>1 DEF IInv, TypeOK, Structure, HasRecord, ProbeOnlyOnDemand,
           IsCurrent, Live
  <2> QED
    BY <1>3, <1>4, <1>5, <2>2, <2>3, <2>4, <2>5 DEF IInv, Structure
<1> QED
  BY <1>6, <1>7

\* A leaving call takes its own unit off d.pending, and stops the check only if
\* nobody else pends.
LEMMA LeaveIInv ==
    ASSUME IInv, NEW r \in Request, Leave(r)
    PROVE  IInv'
<1> DEFINE b == on[r]
<1>1. /\ pc[r] \in {"admitted", "failed"}
      /\ b \in Backend
      /\ r \in PendingOn(b)
      /\ r \notin ActiveOn(b)
      /\ UNCHANGED <<on, ready, ended, known, changed, closed, prober, up>>
  BY DEF Leave, IInv, Structure, HasRecord, PendingOn, ActiveOn, Pending
<1>2. pending[b] \in Nat \ {0}
  BY <1>1, PendingPositive
<1>3. PICK v \in {"active", "over"} :
        /\ pc' = [pc EXCEPT ![r] = v]
        /\ v = "active" => pc[r] = "admitted"
        /\ active' = IF v = "active" THEN [active EXCEPT ![b] = @ + 1] ELSE active
  BY DEF Leave
<1>4. /\ \A s \in Request : pc'[s] = IF s = r THEN v ELSE pc[s]
      /\ \A c \in Backend : pending'[c] = IF c = b THEN pending[c] - 1 ELSE pending[c]
  BY <1>3 DEF Leave, IInv, TypeOK
<1>5. TypeOK'
  <2>1. /\ pc' \in [Request -> CallState]
        /\ pending' \in [Backend -> Nat]
        /\ active' \in [Backend -> Nat]
    BY <1>1, <1>2, <1>3 DEF Leave, IInv, TypeOK, CallState
  <2>2. checking' \subseteq Backend /\ cancelled' \subseteq Request
    BY <1>1 DEF Leave, IInv, TypeOK, Structure, CheckRuns, LastToLeave
  <2> QED
    BY <1>1, <2>1, <2>2 DEF IInv, TypeOK
<1>6. LimitsHold'
  BY <1>1, <1>2, <1>4, LimitsPositive DEF IInv, LimitsHold, TypeOK, Pending
<1>7. CountsMatchDemand'
  <2> SUFFICES ASSUME NEW c \in Backend
               PROVE  /\ pending'[c] = Cardinality(PendingOn(c)')
                      /\ active'[c] = Cardinality(ActiveOn(c)')
    BY DEF CountsMatchDemand
  <2>1. PendingOn(c)' = IF c = b THEN PendingOn(c) \ {r} ELSE PendingOn(c)
    BY <1>1, <1>4 DEF PendingOn, Pending
  <2>2. ActiveOn(c)' = IF c = b /\ v = "active" THEN ActiveOn(c) \cup {r} ELSE ActiveOn(c)
    BY <1>1, <1>4 DEF ActiveOn
  <2>3. Cardinality(PendingOn(b) \ {r}) = Cardinality(PendingOn(b)) - 1
    BY <1>1, GaugesFinite, FS_RemoveElement
  <2>4. Cardinality(ActiveOn(b) \cup {r}) = Cardinality(ActiveOn(b)) + 1
    BY <1>1, GaugesFinite, FS_AddElement
  <2>5. active'[c] = IF c = b /\ v = "active" THEN active[c] + 1 ELSE active[c]
    BY <1>3 DEF IInv, TypeOK
  <2> QED
    BY <1>1, <1>4, <2>1, <2>2, <2>3, <2>4, <2>5 DEF IInv, CountsMatchDemand
<1>8. CASE LastToLeave(b)
  <2>1. /\ cancelled' = cancelled \cup {changed[b]}
        /\ checking' = checking \ {b}
    BY <1>8 DEF Leave
  <2>2. /\ changed[b] \in Request
        /\ on[changed[b]] = b
        /\ pc[changed[b]] # "new"
    BY <1>1, <1>8 DEF LastToLeave, IInv, Structure, CheckRuns, FreshCall, Live
  <2>3. \A s \in Request : pc[s] = "wait" => on[s] # b
    BY <1>1, <1>8, OnlyPending DEF LastToLeave, PendingOn, Pending
  <2>4. FreshCall' /\ HasRecord' /\ ClosedAtExit'
    BY <1>1, <1>4, <2>1, <2>2 DEF IInv, Structure, FreshCall, HasRecord, ClosedAtExit, Pending
  <2>5. CheckRuns'
    BY <1>1, <1>4, <2>1, <2>2 DEF IInv, TypeOK, Structure, CheckRuns
  <2>6. WaitsOnBatch'
    BY <1>1, <1>3, <1>4, <2>1, <2>3 DEF IInv, Structure, WaitsOnBatch, IsCurrent, Pending
  <2>7. ProbeOnlyOnDemand'
    BY <1>1, <1>4, <2>1, <2>2 DEF IInv, TypeOK, Structure, HasRecord, ProbeOnlyOnDemand,
           IsCurrent, Live
  <2> QED
    BY <1>5, <1>6, <1>7, <2>4, <2>5, <2>6, <2>7 DEF IInv, Structure
<1>9. CASE ~LastToLeave(b)
  <2>1. UNCHANGED <<cancelled, checking>>
    BY <1>9 DEF Leave
  <2>2. b \in checking => pending[b] > 1
    BY <1>2, <1>9 DEF LastToLeave
  <2>3. FreshCall' /\ HasRecord' /\ ClosedAtExit'
    BY <1>1, <1>4, <2>1 DEF IInv, Structure, FreshCall, HasRecord, ClosedAtExit, Pending
  <2>4. CheckRuns'
    BY <1>1, <1>2, <1>4, <2>1, <2>2 DEF IInv, TypeOK, Structure, CheckRuns
  <2>5. WaitsOnBatch'
    BY <1>1, <1>3, <1>4, <2>1 DEF IInv, Structure, WaitsOnBatch, IsCurrent, Pending
  <2>6. ProbeOnlyOnDemand'
    BY <1>1, <1>2, <1>4, <2>1, <2>2 DEF IInv, TypeOK, Structure, HasRecord,
           ProbeOnlyOnDemand, IsCurrent, Live
  <2> QED
    BY <1>5, <1>6, <1>7, <2>3, <2>4, <2>5, <2>6 DEF IInv, Structure
<1> QED
  BY <1>8, <1>9

------------------------------------------------------------------------------
(* The theorems. *)

\* Every step of the gate keeps the invariant.
LEMMA StepIInv == IInv /\ [Next]_vars => IInv'
<1> SUFFICES ASSUME IInv, [Next]_vars PROVE IInv'
  OBVIOUS
<1>1. CASE Environment \/ UNCHANGED vars
  BY <1>1, QuietIInv DEF Environment
<1>2. ASSUME NEW r \in Request, CallStep(r) PROVE IInv'
  BY <1>2, RefuseIInv, RegisterIInv, SelectIInv, LeaveIInv, ReleaseIInv DEF CallStep
<1>3. ASSUME NEW g \in Request, ProberStep(g) PROVE IInv'
  BY <1>3, ProbeIInv, SignalIInv DEF ProberStep
<1> QED
  BY <1>1, <1>2, <1>3 DEF Next

\* IInv is an invariant of the gate.
THEOREM Invariance == Spec => []IInv
BY InitIInv, StepIInv, PTL DEF Spec

\* The gate's variables keep their types; in particular no gauge goes negative.
THEOREM TypeCorrect == Spec => []TypeOK
<1>1. IInv => TypeOK
  BY DEF IInv
<1> QED
  BY <1>1, Invariance, PTL

\* d.pending and d.active, the two gauges ServeHTTP exports, count exactly the
\* calls between their critical sections and the unreleased ones.
THEOREM GaugesExact == Spec => []CountsMatchDemand
<1>1. IInv => CountsMatchDemand
  BY DEF IInv
<1> QED
  BY <1>1, Invariance, PTL

\* No call of Acquire waits on a channel that nobody is going to close.
THEOREM NobodyStranded == Spec => []NoStrandedWaiter
<1>1. IInv => NoStrandedWaiter
  <2> SUFFICES ASSUME IInv, NEW r \in Request, pc[r] = "wait",
                      ready[r] \notin closed
               PROVE  /\ IsCurrent(ready[r], on[r])
                      /\ prober[ready[r]] \in Live
                      /\ ready[r] \notin cancelled
    BY DEF NoStrandedWaiter
  <2>1. IsCurrent(ready[r], on[r])
    BY DEF IInv, Structure, WaitsOnBatch, Pending
  <2> QED
    BY <2>1 DEF IInv, Structure, CheckRuns, IsCurrent
<1> QED
  BY <1>1, Invariance, PTL

\* A goroutine that still probes is its backend's one current check, and some
\* call pends on that backend.
THEOREM ProbesAreDemanded == Spec => []ProbeOnlyOnDemand
<1>1. IInv => ProbeOnlyOnDemand
  BY DEF IInv
<1> QED
  BY <1>1, Invariance, PTL

\* A call is admitted only after a probe of its own backend succeeded.
THEOREM AdmissionIsEarned == Spec => []AdmittedOnlyAfterProbe
<1>1. IInv => AdmittedOnlyAfterProbe
  BY DEF IInv, Structure, WaitsOnBatch, ClosedAtExit, AdmittedOnlyAfterProbe, Pending
<1> QED
  BY <1>1, Invariance, PTL

\* MaxPending and MaxBackends are never exceeded.
THEOREM BoundsKept == Spec => []LimitsHold
<1>1. IInv => LimitsHold
  BY DEF IInv
<1> QED
  BY <1>1, Invariance, PTL

=============================================================================
