------------------------- MODULE PublishedKeysProofs -------------------------
(* Machine-checked proofs about PublishedKeys, for any number of processes, keys  *)
(* and tokens, any order of publishes, conflicts, lost answers, crashes and       *)
(* restarts.  The first part takes any names; the second part, what peers may     *)
(* rely on, takes names that differ.                                              *)
EXTENDS PublishedKeys, TLAPS

\* A key is its owner and its number.
LEMMA KeyPair ==
    ASSUME NEW k \in Key
    PROVE  Owner(k) \in Process /\ k[2] \in 1..MaxKeys /\ k = <<Owner(k), k[2]>>
BY DEF Key, Owner

\* An owner and a number make a key.
LEMMA PairKey ==
    ASSUME NEW p \in Process, NEW n \in 1..MaxKeys
    PROVE  <<p, n>> \in Key /\ Owner(<<p, n>>) = p /\ <<p, n>>[2] = n
BY DEF Key, Owner

\* A live process signs with a key of its own.
LEMMA CurrentKey ==
    ASSUME IInv, NEW p \in Process, state[p] = "up"
    PROVE  /\ current[p] \in 1..MaxKeys
           /\ <<p, current[p]>> \in LocalKeys(p)
           /\ LocalKeys(p) \subseteq {k \in Key : Owner(k) = p}
<1>1. current[p] \in 1..MaxKeys
  BY Configuration DEF IInv, TypeOK, Processes
<1>2. <<p, current[p]>> \in Key /\ Owner(<<p, current[p]>>) = p /\ <<p, current[p]>>[2] = current[p]
  BY <1>1, PairKey
<1> QED  BY <1>1, <1>2 DEF LocalKeys

\* What publishOnce builds: the peers' entries that have not lapsed, and the
\* process's own keys with a new lease.
LEMMA BuildNextEntries ==
    ASSUME IInv, NEW p \in Process, state[p] = "up"
    PROVE  /\ BuildNext(p, store) \subseteq Entry
           /\ \A e \in BuildNext(p, store) :
                 \/ e \in store /\ e.replica # NameOf[p] /\ ~Lapsed(e)
                 \/ /\ e.key \in LocalKeys(p) /\ Owner(e.key) = p
                    /\ e.replica = NameOf[p] /\ e.lease = now + Lease
           /\ \A e \in store : e.replica # NameOf[p] /\ ~Lapsed(e) => e \in BuildNext(p, store)
           /\ \A k \in LocalKeys(p) : \E e \in BuildNext(p, store) : e.key = k
<1> DEFINE Mine(k) == [key |-> k, replica |-> NameOf[p], lease |-> now + Lease]
           Kept == {e \in store : e.replica # NameOf[p] /\ ~Lapsed(e)}
<1>1. BuildNext(p, store) = Kept \cup {Mine(k) : k \in LocalKeys(p)}
  BY DEF BuildNext
<1>2. LocalKeys(p) \subseteq {k \in Key : Owner(k) = p}
  BY CurrentKey
<1>3. now + Lease \in Nat
  BY Configuration DEF IInv, TypeOK
<1>4. ASSUME NEW k \in LocalKeys(p)
      PROVE  /\ Mine(k) \in Entry /\ Mine(k).key = k /\ Owner(Mine(k).key) = p
             /\ Mine(k).replica = NameOf[p] /\ Mine(k).lease = now + Lease
  BY <1>2, <1>3 DEF Entry
<1>5. store \subseteq Entry
  BY DEF IInv, TypeOK
<1> HIDE DEF Mine
<1> QED  BY <1>1, <1>4, <1>5

------------------------------------------------------------------------------
(* The invariant that needs no assumption on the names. *)

\* Nobody runs and nothing is stored.
LEMMA InitIInv == Init => IInv
<1> SUFFICES ASSUME Init PROVE IInv
  OBVIOUS
<1>1. TypeOK
  BY Configuration DEF Init, TypeOK
<1>2. Processes /\ Tokens /\ Named /\ Drafts /\ Published
  BY DEF Init, Processes, Tokens, Named, Drafts, Published
<1> QED  BY <1>1, <1>2 DEF IInv

\* No window that an unexpired token needs closes, and an entry that has lapsed
\* stays lapsed.
LEMMA TickIInv == ASSUME IInv, Tick PROVE IInv'
<1> USE Configuration DEF pubVars, storeVars
<1>1. TypeOK'
  BY DEF IInv, TypeOK, Tick
<1>2. Processes'
  BY DEF IInv, TypeOK, Processes, Tick
<1>3. Tokens'
  BY KeyPair DEF IInv, TypeOK, Tokens, Tick
<1>4. Named'
  BY DEF IInv, Named, Tick
<1>5. Drafts'
  BY DEF IInv, TypeOK, Drafts, Draft, Entry, Lapsed, Tick
<1>6. Published'
  BY DEF IInv, Published, Tick
<1> QED  BY <1>1, <1>2, <1>3, <1>4, <1>5, <1>6 DEF IInv

\* A process starts with a key nobody has seen.
LEMMA StartIInv == ASSUME IInv, NEW p \in Process, Start(p) PROVE IInv'
<1> USE Configuration DEF storeVars
<1>1. TypeOK'
  BY DEF IInv, TypeOK, Start
<1>2. Processes'
  BY DEF IInv, TypeOK, Processes, Start
<1>3. Tokens'
  BY KeyPair DEF IInv, TypeOK, Tokens, Start
<1>4. Named'
  BY DEF IInv, Named, Start
<1>5. Drafts'
  BY DEF IInv, TypeOK, Processes, Drafts, Draft, Lapsed, Start
<1>6. Published'
  BY DEF IInv, TypeOK, Processes, Published, Start
<1> QED  BY <1>1, <1>2, <1>3, <1>4, <1>5, <1>6 DEF IInv

\* A process that stops leaves its entries and, it may be, a Save on its way.
LEMMA StopIInv == ASSUME IInv, NEW p \in Process, Stop(p) PROVE IInv'
<1> USE Configuration DEF storeVars
<1>1. TypeOK'
  BY DEF IInv, TypeOK, Stop
<1>2. Processes'
  BY DEF IInv, TypeOK, Processes, Stop
<1>3. Tokens'
  BY KeyPair DEF IInv, TypeOK, Tokens, Stop
<1>4. Named'
  BY DEF IInv, Named, Stop
<1>5. Drafts'
  BY DEF IInv, TypeOK, Drafts, Draft, Lapsed, Stop
<1>6. Published'
  BY DEF IInv, TypeOK, Published, Stop
<1> QED  BY <1>1, <1>2, <1>3, <1>4, <1>5, <1>6 DEF IInv

\* The key that rotates out is kept for Overlap, longer than any token it signed.
LEMMA RotateIInv == ASSUME IInv, NEW p \in Process, Rotate(p) PROVE IInv'
<1>1. current[p] \in 1..MaxKeys
  BY CurrentKey DEF Rotate
<1>2. <<p, current[p]>> \in Key /\ Owner(<<p, current[p]>>) = p
  BY <1>1, PairKey
<1> USE Configuration DEF storeVars, pubVars
<1>3. TypeOK'
  BY <1>2 DEF IInv, TypeOK, Rotate
<1>4. Processes'
  BY DEF IInv, TypeOK, Processes, Rotate
<1>5. Tokens'
  <2>1. /\ state' = state /\ tokens' = tokens /\ now' = now
        /\ retires' = [retires EXCEPT ![<<p, current[p]>>] = now + Overlap]
        /\ current' = [current EXCEPT ![p] = @ + 1]
    BY DEF Rotate
  <2> QED  BY <1>2, <2>1, KeyPair DEF IInv, TypeOK, Tokens
<1>6. Named'
  BY DEF IInv, Named, Rotate
<1>7. Drafts'
  BY DEF IInv, Drafts, Draft, Lapsed, Rotate
<1>8. Published'
  BY DEF IInv, Published, Rotate
<1> QED  BY <1>3, <1>4, <1>5, <1>6, <1>7, <1>8 DEF IInv

\* A token is signed with the current key.
LEMMA MintIInv == ASSUME IInv, NEW p \in Process, Mint(p) PROVE IInv'
<1>1. current[p] \in 1..MaxKeys
  BY CurrentKey DEF Mint
<1>2. /\ <<p, current[p]>> \in Key /\ Owner(<<p, current[p]>>) = p
      /\ <<p, current[p]>>[2] = current[p]
  BY <1>1, PairKey
<1> DEFINE new == [key |-> <<p, current[p]>>, exp |-> now + TTL]
<1>3. new.key = <<p, current[p]>> /\ new.exp = now + TTL /\ new \in [key : Key, exp : Nat]
  BY <1>2, Configuration DEF IInv, TypeOK
<1>4. /\ tokens' = tokens \cup {new} /\ state[p] = "up"
      /\ UNCHANGED <<now, state, current, retires, storeVars, pubVars>>
  BY DEF Mint
<1> HIDE DEF new
<1> USE DEF storeVars, pubVars
<1>5. TypeOK'
  BY <1>3, <1>4 DEF IInv, TypeOK
<1>6. Processes'
  BY <1>4 DEF IInv, Processes
<1>7. Tokens'
  BY <1>2, <1>3, <1>4, Configuration DEF IInv, TypeOK, Tokens
<1>8. Named' /\ Drafts' /\ Published'
  BY <1>4 DEF IInv, Named, Drafts, Draft, Lapsed, Published
<1> QED  BY <1>5, <1>6, <1>7, <1>8 DEF IInv

\* publishOnce builds from the store's own version.
LEMMA LoadIInv == ASSUME IInv, NEW p \in Process, Load(p) PROVE IInv'
<1> DEFINE new == BuildNext(p, store)
<1>1. /\ state[p] = "up" /\ phase[p] \in {"idle", "backoff"}
      /\ phase' = [phase EXCEPT ![p] = "save"] /\ next' = [next EXCEPT ![p] = new]
      /\ builtAt' = [builtAt EXCEPT ![p] = now] /\ tries' = [tries EXCEPT ![p] = @ + 1]
      /\ UNCHANGED <<now, localVars, storeVars, merged, lastPub>>
  BY DEF Load
<1>2. /\ new \subseteq Entry
      /\ \A e \in new : \/ e \in store /\ e.replica # NameOf[p] /\ ~Lapsed(e)
                        \/ /\ e.key \in LocalKeys(p) /\ Owner(e.key) = p
                           /\ e.replica = NameOf[p] /\ e.lease = now + Lease
      /\ \A e \in store : e.replica # NameOf[p] /\ ~Lapsed(e) => e \in new
      /\ \E e \in new : e.key = <<p, current[p]>>
  BY <1>1, BuildNextEntries, CurrentKey
<1>3. Owner(<<p, current[p]>>) = p
  BY DEF Owner
<1> HIDE DEF new
<1> USE DEF localVars, storeVars
<1>4. TypeOK'
  BY <1>1, <1>2, Configuration DEF IInv, TypeOK, Processes
<1>5. Processes'
  BY <1>1 DEF IInv, TypeOK, Processes
<1>6. Tokens'
  BY <1>1 DEF IInv, Tokens
<1>7. Named'
  BY <1>1, <1>2 DEF IInv, TypeOK, Named
<1>8. Drafts'
  <2> SUFFICES ASSUME NEW q \in Process, phase'[q] = "save" PROVE Draft(q)'
    BY DEF Drafts
  <2>1. CASE q = p
    <3>1. next'[p] = new /\ builtAt'[p] = now /\ p \notin outdated'
      BY <1>1 DEF IInv, TypeOK, Processes
    <3>2. \A e \in new : e.replica # NameOf[p] => e \in store
      BY <1>2
    <3>3. \A e \in new : Owner(e.key) = p => e.lease = now + Lease
      BY <1>2 DEF IInv, Named
    <3>4. lastPub'[p] <= now /\ now <= now
      BY <1>1 DEF IInv, TypeOK, Processes
    <3>5. \A e \in new : e.replica = NameOf[p] => Owner(e.key) = p
      BY <1>2
    <3>6. \A e : Lapsed(e)' = Lapsed(e)
      BY <1>1 DEF Lapsed
    <3>7. \E e \in new : Owner(e.key) = p
      BY <1>2, <1>3
    <3> QED  BY <1>1, <1>2, <2>1, <3>1, <3>2, <3>3, <3>4, <3>5, <3>6, <3>7 DEF Draft
  <2>2. CASE q # p
    <3>1. phase[q] = "save" /\ next'[q] = next[q] /\ builtAt'[q] = builtAt[q] /\ Draft(q)
      BY <1>1, <2>2 DEF IInv, TypeOK, Drafts
    <3> QED  BY <1>1, <3>1 DEF Draft, Lapsed
  <2> QED  BY <2>1, <2>2
<1>9. Published'
  BY <1>1 DEF IInv, TypeOK, Processes, Published
<1> QED  BY <1>4, <1>5, <1>6, <1>7, <1>8, <1>9 DEF IInv

\* Publish gives up, or backs off: the draft is dropped and the store is not touched.
LEMMA DropIInv ==
    ASSUME IInv, NEW p \in Process, NEW ph \in {"idle", "backoff"}, NEW n \in 0..Attempts,
           phase[p] # "idle", ph = "idle" => n = 0, ph = "backoff" => n < Attempts,
           state[p] # "up" => ph = "idle",
           phase' = [phase EXCEPT ![p] = ph], next' = [next EXCEPT ![p] = {}],
           builtAt' = [builtAt EXCEPT ![p] = 0], tries' = [tries EXCEPT ![p] = n],
           outdated' = outdated \ {p},
           UNCHANGED <<now, localVars, store, merged, lastPub>>
    PROVE  IInv'
<1> USE DEF localVars
<1>1. TypeOK'
  BY DEF IInv, TypeOK
<1>2. Processes'
  BY DEF IInv, TypeOK, Processes
<1>3. Tokens'
  BY DEF IInv, Tokens
<1>4. Named'
  BY DEF IInv, TypeOK, Named
<1>5. Drafts'
  BY DEF IInv, TypeOK, Drafts, Draft, Lapsed
<1>6. Published'
  <2> SUFFICES ASSUME NEW r \in Process, state[r] = "up", merged[r] # {},
                      NEW q \in Process, q # r, NameOf[q] = NameOf[r], phase'[q] = "save"
               PROVE  q \in outdated'
    BY DEF IInv, Published
  <2>1. q # p /\ phase[q] = "save"
    BY DEF IInv, TypeOK
  <2> QED  BY <2>1 DEF IInv, Published
<1> QED  BY <1>1, <1>2, <1>3, <1>4, <1>5, <1>6 DEF IInv

\* A reload that fails.
LEMMA LoadFailsIInv == ASSUME IInv, NEW p \in Process, LoadFails(p) PROVE IInv'
<1>1. /\ state[p] = "up" /\ phase[p] # "idle"
      /\ phase' = [phase EXCEPT ![p] = "idle"] /\ next' = [next EXCEPT ![p] = {}]
      /\ builtAt' = [builtAt EXCEPT ![p] = 0] /\ tries' = [tries EXCEPT ![p] = 0]
      /\ UNCHANGED <<now, localVars, store, merged, lastPub>>
  BY DEF LoadFails, Return, storeVars
<1>2. outdated' = outdated \ {p}
  BY DEF IInv, TypeOK, Processes, LoadFails, storeVars
<1>3. 0 \in 0..Attempts
  BY Configuration
<1> QED  BY <1>1, <1>2, <1>3, DropIInv

\* A Save that is not applied and not a conflict.
LEMMA SaveFailsIInv == ASSUME IInv, NEW p \in Process, SaveFails(p) PROVE IInv'
<1>1. /\ phase[p] # "idle" /\ outdated' = outdated \ {p}
      /\ phase' = [phase EXCEPT ![p] = "idle"] /\ next' = [next EXCEPT ![p] = {}]
      /\ builtAt' = [builtAt EXCEPT ![p] = 0] /\ tries' = [tries EXCEPT ![p] = 0]
      /\ UNCHANGED <<now, localVars, store, merged, lastPub>>
  BY DEF SaveFails, Return
<1>2. 0 \in 0..Attempts
  BY Configuration
<1> QED  BY <1>1, <1>2, DropIInv

\* A conflict: another try, unless this was the last of the Attempts.
LEMMA SaveConflictsIInv == ASSUME IInv, NEW p \in Process, SaveConflicts(p) PROVE IInv'
<1>1. /\ state[p] = "up" /\ phase[p] # "idle" /\ outdated' = outdated \ {p}
      /\ next' = [next EXCEPT ![p] = {}] /\ builtAt' = [builtAt EXCEPT ![p] = 0]
      /\ UNCHANGED <<now, localVars, store, merged, lastPub>>
  BY DEF SaveConflicts, Return
<1>2. CASE tries[p] < Attempts
  <2>1. phase' = [phase EXCEPT ![p] = "backoff"] /\ tries' = tries
    BY <1>2 DEF SaveConflicts
  <2>2. tries' = [tries EXCEPT ![p] = tries[p]] /\ tries[p] \in 0..Attempts
    BY <2>1 DEF IInv, TypeOK
  <2> QED  BY <1>1, <1>2, <2>1, <2>2, DropIInv
<1>3. CASE ~(tries[p] < Attempts)
  <2>1. phase' = [phase EXCEPT ![p] = "idle"] /\ tries' = [tries EXCEPT ![p] = 0]
    BY <1>3 DEF SaveConflicts, Return
  <2>2. 0 \in 0..Attempts
    BY Configuration
  <2> QED  BY <1>1, <2>1, <2>2, DropIInv
<1> QED  BY <1>2, <1>3

\* A write on the store's own version keeps the entry of every live peer that has
\* published: its name is another's, and it has not lapsed.
LEMMA WriteKeepsPeers ==
    ASSUME IInv, NEW p \in Process, phase[p] = "save", p \notin outdated,
           NEW r \in Process, r # p, state[r] = "up", merged[r] # {}
    PROVE  \E e \in next[p] : Owner(e.key) = r /\ e.lease >= lastPub[r] + Lease
<1>1. PICK e \in store : Owner(e.key) = r /\ e.lease >= lastPub[r] + Lease
  BY DEF IInv, Published
<1>2. NameOf[r] # NameOf[p]
  BY DEF IInv, Published
<1>3. e.replica # NameOf[p]
  BY <1>1, <1>2 DEF IInv, Named
<1>4. ~Lapsed(e)
  <2>1. e.lease \in Nat /\ lastPub[r] \in Nat /\ now \in Nat /\ now <= lastPub[r] + MaxGap
    BY DEF IInv, TypeOK, Entry, Processes
  <2> QED  BY <1>1, <2>1, Configuration DEF Lapsed
<1>5. e \in next[p]
  BY <1>3, <1>4 DEF IInv, Drafts, Draft
<1> QED  BY <1>1, <1>5

\* After a write every other Save is outdated; who wrote has no draft.
LEMMA WriteDrafts ==
    ASSUME IInv, NEW p \in Process, ApplyWrite(p), Return(p),
           UNCHANGED <<now, localVars>>,
           UNCHANGED lastPub \/ lastPub' = [lastPub EXCEPT ![p] = builtAt[p]]
    PROVE  Named' /\ Drafts'
<1> USE DEF localVars
<1>1. /\ store' = next[p] /\ outdated' = {q \in Process : phase[q] = "save"} \ {p}
      /\ phase' = [phase EXCEPT ![p] = "idle"] /\ next' = [next EXCEPT ![p] = {}]
      /\ builtAt' = [builtAt EXCEPT ![p] = 0]
  BY DEF ApplyWrite, Return
<1>2. Named'
  BY <1>1 DEF IInv, TypeOK, Named
<1>3. ASSUME NEW q \in Process, phase'[q] = "save" PROVE Draft(q)'
  <2>1. /\ q # p /\ phase[q] = "save" /\ next'[q] = next[q] /\ builtAt'[q] = builtAt[q]
        /\ lastPub'[q] = lastPub[q] /\ q \in outdated'
    BY <1>1, <1>3 DEF IInv, TypeOK
  <2>2. Draft(q)
    BY <2>1 DEF IInv, Drafts
  <2> QED  BY <2>1, <2>2 DEF Draft
<1> QED  BY <1>2, <1>3 DEF Drafts

\* A publish that succeeds dates from its Load, and everybody's entry survives it.
LEMMA SaveAppliedIInv == ASSUME IInv, NEW p \in Process, SaveApplied(p) PROVE IInv'
<1>1. /\ state[p] = "up" /\ phase[p] = "save" /\ p \notin outdated
      /\ store' = next[p] /\ outdated' = {q \in Process : phase[q] = "save"} \ {p}
      /\ merged' = [merged EXCEPT ![p] = next[p]]
      /\ lastPub' = [lastPub EXCEPT ![p] = builtAt[p]]
      /\ phase' = [phase EXCEPT ![p] = "idle"] /\ next' = [next EXCEPT ![p] = {}]
      /\ builtAt' = [builtAt EXCEPT ![p] = 0] /\ tries' = [tries EXCEPT ![p] = 0]
      /\ UNCHANGED <<now, localVars>>
  BY DEF SaveApplied, AcceptsWrite, ApplyWrite, Return
<1>2. Draft(p)
  BY <1>1 DEF IInv, Drafts
<1>3. Named' /\ Drafts'
  BY WriteDrafts DEF SaveApplied
<1> USE DEF localVars
<1>4. TypeOK'
  BY <1>1, Configuration DEF IInv, TypeOK
<1>5. Processes'
  BY <1>1, <1>2, Configuration DEF IInv, TypeOK, Processes, Draft
<1>6. Tokens'
  BY <1>1 DEF IInv, Tokens
<1>7. Published'
  <2> SUFFICES ASSUME NEW r \in Process, state[r] = "up", merged'[r] # {}
               PROVE  /\ \E e \in next[p] : Owner(e.key) = r /\ e.lease >= lastPub'[r] + Lease
                      /\ \A q \in Process : q # r /\ NameOf[q] = NameOf[r] /\ phase'[q] = "save"
                                               => q \in outdated'
    BY <1>1 DEF Published
  <2>1. \A q \in Process : phase'[q] = "save" => q \in outdated'
    BY <1>1 DEF IInv, TypeOK
  <2>2. CASE r = p
    <3>1. lastPub'[p] = builtAt[p]
      BY <1>1 DEF IInv, TypeOK
    <3>2. PICK e \in next[p] : Owner(e.key) = p /\ e.lease = builtAt[p] + Lease
      BY <1>1, <1>2 DEF Draft
    <3>3. builtAt[p] \in Nat
      BY DEF IInv, TypeOK
    <3> QED  BY <2>1, <2>2, <3>1, <3>2, <3>3, Configuration
  <2>3. CASE r # p
    <3>1. merged[r] # {} /\ lastPub'[r] = lastPub[r]
      BY <1>1, <2>3 DEF IInv, TypeOK
    <3> QED  BY <1>1, <2>1, <2>3, <3>1, WriteKeepsPeers
  <2> QED  BY <2>2, <2>3
<1> QED  BY <1>3, <1>4, <1>5, <1>6, <1>7 DEF IInv

\* A write without an answer, of a live process or of one that is gone, is a write
\* like any other to the peers.
LEMMA SaveUnansweredIInv == ASSUME IInv, NEW p \in Process, SaveUnanswered(p) PROVE IInv'
<1>1. /\ phase[p] = "save" /\ p \notin outdated
      /\ store' = next[p] /\ outdated' = {q \in Process : phase[q] = "save"} \ {p}
      /\ phase' = [phase EXCEPT ![p] = "idle"] /\ next' = [next EXCEPT ![p] = {}]
      /\ builtAt' = [builtAt EXCEPT ![p] = 0] /\ tries' = [tries EXCEPT ![p] = 0]
      /\ UNCHANGED <<now, localVars, merged, lastPub>>
  BY DEF SaveUnanswered, AcceptsWrite, ApplyWrite, Return
<1>2. Draft(p)
  BY <1>1 DEF IInv, Drafts
<1>3. Named' /\ Drafts'
  BY WriteDrafts DEF SaveUnanswered
<1> USE DEF localVars
<1>4. TypeOK'
  BY <1>1, Configuration DEF IInv, TypeOK
<1>5. Processes'
  BY <1>1 DEF IInv, TypeOK, Processes
<1>6. Tokens'
  BY <1>1 DEF IInv, Tokens
<1>7. Published'
  <2> SUFFICES ASSUME NEW r \in Process, state[r] = "up", merged[r] # {}
               PROVE  /\ \E e \in next[p] : Owner(e.key) = r /\ e.lease >= lastPub[r] + Lease
                      /\ \A q \in Process : phase'[q] = "save" => q \in outdated'
    BY <1>1 DEF Published
  <2>1. \A q \in Process : phase'[q] = "save" => q \in outdated'
    BY <1>1 DEF IInv, TypeOK
  <2>2. CASE r = p
    <3>1. PICK e \in next[p] : Owner(e.key) = p /\ e.lease = builtAt[p] + Lease
      BY <1>2, <2>2 DEF Draft
    <3>2. builtAt[p] \in Nat /\ lastPub[p] \in Nat /\ lastPub[p] <= builtAt[p]
      BY <1>2, <2>2 DEF IInv, TypeOK, Draft
    <3> QED  BY <2>1, <2>2, <3>1, <3>2, Configuration
  <2>3. CASE r # p
    BY <1>1, <2>1, <2>3, WriteKeepsPeers
  <2> QED  BY <2>2, <2>3
<1> QED  BY <1>3, <1>4, <1>5, <1>6, <1>7 DEF IInv

\* Every step preserves the invariant.
LEMMA StepIInv == ASSUME IInv, [Next]_vars PROVE IInv'
<1>1. CASE UNCHANGED vars
  BY <1>1 DEF IInv, TypeOK, Processes, Tokens, Named, Drafts, Draft, Lapsed, Published, vars
<1>2. CASE Tick
  BY <1>2, TickIInv
<1>3. ASSUME NEW p \in Process,
             \/ Start(p) \/ Stop(p) \/ Rotate(p) \/ Mint(p)
             \/ Load(p) \/ LoadFails(p)
             \/ SaveApplied(p) \/ SaveUnanswered(p) \/ SaveFails(p) \/ SaveConflicts(p)
      PROVE  IInv'
  BY <1>3, StartIInv, StopIInv, RotateIInv, MintIInv, LoadIInv, LoadFailsIInv,
     SaveAppliedIInv, SaveUnansweredIInv, SaveFailsIInv, SaveConflictsIInv
<1> QED  BY <1>1, <1>2, <1>3 DEF Next

\* The invariant holds in every behaviour, whatever the names.
THEOREM Invariance == Spec => []IInv
<1> QED  BY InitIInv, StepIInv, PTL DEF Spec

\* Every variable keeps its type; in particular no Publish tries more than Attempts
\* times.
THEOREM TypeCorrect == Spec => []TypeOK
<1>1. IInv => TypeOK
  BY DEF IInv
<1> QED  BY <1>1, Invariance, PTL

\* A live process serves every key that signed a token of its own which is still
\* unexpired, whether or not any publish of it has landed.
LEMMA OwnKeysServed == ASSUME IInv PROVE OwnTokensVerify
<1> SUFFICES ASSUME NEW t \in tokens, state[Owner(t.key)] = "up"
             PROVE  t.key \in LocalKeys(Owner(t.key))
  BY DEF OwnTokensVerify, InUse, JWKS
<1>1. /\ t.key \in Key /\ t.exp \in Nat /\ now \in Nat /\ retires[t.key] \in Nat
      /\ now <= t.exp
      /\ \/ t.key[2] = current[Owner(t.key)]
         \/ t.key[2] < current[Owner(t.key)] /\ t.exp < retires[t.key]
  BY DEF IInv, TypeOK, Tokens
<1> QED  BY <1>1 DEF LocalKeys

\* "A freshly started replica never mints tokens that its own published set cannot
\* verify."
THEOREM OwnTokensAlwaysVerify == Spec => []OwnTokensVerify
BY Invariance, OwnKeysServed, PTL

\* No write loses the entry of a live process that has published, so that it never
\* looks dead to its peers.
THEOREM LivePeersStayListed == Spec => []LivePeersKept
<1>1. ASSUME IInv PROVE LivePeersKept
  <2> SUFFICES ASSUME NEW p \in Process, state[p] = "up", merged[p] # {}
               PROVE  \E e \in store : Owner(e.key) = p /\ e.lease >= now
    BY DEF LivePeersKept
  <2>1. PICK e \in store : Owner(e.key) = p /\ e.lease >= lastPub[p] + Lease
    BY <1>1 DEF IInv, Published
  <2>2. /\ e.lease \in Nat /\ lastPub[p] \in Nat /\ now \in Nat /\ now <= lastPub[p] + MaxGap
    BY <1>1 DEF IInv, TypeOK, Entry, Processes
  <2> QED  BY <2>1, <2>2, Configuration
<1> QED  BY <1>1, Invariance, PTL

------------------------------------------------------------------------------
(* Names that differ: every process that runs publishes under a name of its own. *)

\* An entry of a draft that is not the process's own comes from the store.
LEMMA PeersEntriesStored ==
    ASSUME NamesDiffer, IInv, NEW p \in Process, phase[p] = "save", p \notin outdated,
           NEW e \in next[p], Owner(e.key) # p
    PROVE  e \in store
<1>1. e.key \in Key /\ Owner(e.key) \in Process /\ e.replica = NameOf[Owner(e.key)]
  BY KeyPair DEF IInv, TypeOK, Entry, Named
<1> QED  BY <1>1 DEF NamesDiffer, IInv, Drafts, Draft

\* A write on the store's own version keeps every key that is wanted: the writer
\* lists its own, and a peer's has not lapsed.
LEMMA WriteKeepsWanted ==
    ASSUME NamesDiffer, IInvNamed, NEW p \in Process, phase[p] = "save", p \notin outdated,
           NEW k \in Stored, Wanted(k)
    PROVE  \E e \in next[p] : e.key = k
<1>1. PICK e \in store : e.key = k
  BY DEF Stored
<1>2. /\ e.key \in Key /\ e.lease \in Nat /\ Owner(k) \in Process /\ k[2] \in 1..MaxKeys
      /\ e.replica = NameOf[Owner(k)] /\ now \in Nat
  BY <1>1, KeyPair DEF IInvNamed, IInv, TypeOK, Entry, Named
<1>3. CASE Owner(k) = p
  BY <1>3 DEF IInvNamed, OwnKept
<1>4. CASE Owner(k) # p
  <2>1. ASSUME k \in InUse PROVE ~Lapsed(e)
    <3>1. PICK t \in tokens : t.key = k
      BY <2>1 DEF InUse
    <3>2. t.exp \in Nat /\ now <= t.exp /\ e.lease + Grace >= t.exp
      BY <1>1, <3>1 DEF IInvNamed, IInv, TypeOK, Tokens, Leased
    <3> QED  BY <1>2, <3>2, Configuration DEF Lapsed
  <2>2. ASSUME k[2] = current[Owner(k)] PROVE ~Lapsed(e)
    <3>1. state[Owner(k)] = "up"
      BY <1>2, <2>2 DEF IInvNamed, IInv, TypeOK, Processes
    <3>2. /\ lastPub[Owner(k)] \in Nat /\ now <= lastPub[Owner(k)] + MaxGap
          /\ e.lease >= lastPub[Owner(k)] + Lease
      BY <1>1, <1>2, <3>1 DEF IInvNamed, IInv, TypeOK, Processes, Leased
    <3> QED  BY <1>2, <3>2, Configuration DEF Lapsed
  <2>3. ~Lapsed(e)
    BY <2>1, <2>2 DEF Wanted
  <2>4. e.replica # NameOf[p]
    BY <1>2, <1>4 DEF NamesDiffer
  <2> QED  BY <1>1, <2>3, <2>4 DEF IInvNamed, IInv, Drafts, Draft
<1> QED  BY <1>3, <1>4

\* Nothing is stored, served or signed.
LEMMA InitNamed == Init => IInvNamed
<1> SUFFICES ASSUME Init PROVE IInvNamed
  OBVIOUS
<1>1. Made /\ Leased /\ OwnKept /\ Serving
  BY DEF Init, Made, Leased, OwnKept, Serving, Stored
<1> QED  BY <1>1, InitIInv DEF IInvNamed

\* Time changes no lease.
LEMMA TickNamed == ASSUME IInvNamed, Tick PROVE IInvNamed'
<1>1. /\ tokens' \subseteq tokens
      /\ UNCHANGED <<state, current, store, phase, next, merged, lastPub>>
  BY DEF Tick, storeVars, pubVars
<1>2. Made' /\ Leased'
  BY <1>1 DEF IInvNamed, Made, WasMade, Leased
<1>3. OwnKept' /\ Serving'
  BY <1>1 DEF IInvNamed, OwnKept, Serving, Stored, Wanted, InUse
<1> QED  BY <1>2, <1>3, TickIInv DEF IInvNamed

\* No entry has a key of a process that has not started.
LEMMA StartNamed == ASSUME IInvNamed, NEW p \in Process, Start(p) PROVE IInvNamed'
<1>1. /\ state[p] = "off" /\ merged[p] = {} /\ phase[p] = "idle"
      /\ state' = [state EXCEPT ![p] = "up"] /\ current' = [current EXCEPT ![p] = 1]
      /\ lastPub' = [lastPub EXCEPT ![p] = now]
      /\ UNCHANGED <<tokens, store, phase, next, merged>>
  BY DEF Start, storeVars, IInvNamed, IInv, Processes
<1>2. /\ state \in [Process -> {"off", "up", "gone"}] /\ current \in [Process -> 0..MaxKeys]
      /\ lastPub \in [Process -> Nat] /\ phase \in [Process -> {"idle", "save", "backoff"}]
  BY DEF IInvNamed, IInv, TypeOK
<1>3. /\ \A e \in store : Owner(e.key) \in Process /\ Owner(e.key) # p
      /\ \A q \in Process : \A e \in next[q] \cup merged[q] :
            Owner(e.key) \in Process /\ Owner(e.key) # p
  BY <1>1, KeyPair DEF IInvNamed, IInv, TypeOK, Entry, Made, WasMade
<1>4. Made'
  BY <1>1, <1>2, <1>3 DEF IInvNamed, Made, WasMade
<1>5. Leased'
  BY <1>1, <1>2, <1>3 DEF IInvNamed, Leased
<1>6. OwnKept'
  BY <1>1, <1>2, <1>3 DEF IInvNamed, OwnKept, Stored, Wanted, InUse
<1>7. Serving'
  <2> SUFFICES ASSUME NEW q \in Process, state'[q] = "up", NEW e \in merged[q]
               PROVE  /\ Wanted(e.key)' => e.key \in Stored
                      /\ state'[Owner(e.key)] = "up" => e.lease + Grace >= lastPub'[q] + MaxGap
                      /\ \A t \in tokens : t.key = e.key =>
                            e.lease + Grace >= t.exp \/ e.lease + Grace >= lastPub'[q] + MaxGap
    BY <1>1 DEF Serving, Stored
  <2>1. q # p /\ state[q] = "up" /\ lastPub'[q] = lastPub[q]
    BY <1>1, <1>2
  <2>2. Owner(e.key) \in Process /\ Owner(e.key) # p
    BY <1>3
  <2>3. Wanted(e.key)' => Wanted(e.key)
    BY <1>1, <1>2, <2>2 DEF Wanted, InUse
  <2>4. state'[Owner(e.key)] = state[Owner(e.key)]
    BY <1>1, <1>2, <2>2
  <2> QED  BY <2>1, <2>3, <2>4 DEF IInvNamed, Serving
<1> QED  BY <1>4, <1>5, <1>6, <1>7, StartIInv DEF IInvNamed

\* The keys of a process that stops are wanted only for the tokens it has signed.
LEMMA StopNamed == ASSUME IInvNamed, NEW p \in Process, Stop(p) PROVE IInvNamed'
<1>1. /\ state' = [state EXCEPT ![p] = "gone"] /\ current' = [current EXCEPT ![p] = 0]
      /\ merged' = [merged EXCEPT ![p] = {}] /\ lastPub' = [lastPub EXCEPT ![p] = 0]
      /\ phase' = [phase EXCEPT ![p] = IF @ = "save" THEN @ ELSE "idle"]
      /\ UNCHANGED <<tokens, store, next>>
  BY DEF Stop, storeVars
<1> USE <1>1, KeyPair DEF IInvNamed, IInv, TypeOK, Entry
<1>2. Made'
  BY DEF Made, WasMade
<1>3. Leased'
  BY DEF Leased
<1>4. OwnKept'
  BY DEF OwnKept, Stored, Wanted, InUse
<1>5. Serving'
  BY DEF Serving, Stored, Wanted, InUse
<1>6. IInv'
  BY StopIInv
<1> QED  BY <1>2, <1>3, <1>4, <1>5, <1>6

\* The new key has no entry yet, and the old one is wanted for its tokens only.
LEMMA RotateNamed == ASSUME IInvNamed, NEW p \in Process, Rotate(p) PROVE IInvNamed'
<1>1. /\ state[p] = "up" /\ current' = [current EXCEPT ![p] = @ + 1]
      /\ UNCHANGED <<state, tokens, store, phase, next, merged, lastPub>>
  BY DEF Rotate, storeVars, pubVars
<1>2. current \in [Process -> 0..MaxKeys]
  BY DEF IInvNamed, IInv, TypeOK
<1>3. ASSUME NEW k \in Key, WasMade(k)
      PROVE  WasMade(k)' /\ (Wanted(k)' => Wanted(k))
  BY <1>1, <1>2, <1>3, KeyPair DEF WasMade, Wanted, InUse
<1>4. /\ \A e \in store : e.key \in Key /\ WasMade(e.key)
      /\ \A q \in Process : \A e \in next[q] \cup merged[q] : e.key \in Key /\ WasMade(e.key)
  BY DEF IInvNamed, IInv, TypeOK, Entry, Made
<1>5. Made'
  BY <1>1, <1>3, <1>4 DEF Made
<1>6. Leased'
  BY <1>1 DEF IInvNamed, Leased
<1>7. OwnKept'
  BY <1>1, <1>3, <1>4 DEF IInvNamed, OwnKept, Stored
<1>8. Serving'
  BY <1>1, <1>3, <1>4 DEF IInvNamed, Serving, Stored
<1> QED  BY <1>5, <1>6, <1>7, <1>8, RotateIInv DEF IInvNamed

\* A live process's leases outlast every token it can sign now.
LEMMA MintNamed == ASSUME IInvNamed, NEW p \in Process, Mint(p) PROVE IInvNamed'
<1> DEFINE new == [key |-> <<p, current[p]>>, exp |-> now + TTL]
<1>1. /\ tokens' = tokens \cup {new} /\ state[p] = "up"
      /\ UNCHANGED <<now, state, current, store, outdated, phase, next, builtAt, merged, lastPub>>
  BY DEF Mint, storeVars, pubVars
<1>2. new.key = <<p, current[p]>> /\ new.exp = now + TTL
  OBVIOUS
<1>3. Owner(new.key) = p /\ new.key[2] = current[p]
  BY <1>2 DEF Owner
<1> HIDE DEF new
<1>4. now \in Nat /\ lastPub[p] \in Nat /\ lastPub[p] <= now /\ now <= lastPub[p] + MaxGap
  BY <1>1 DEF IInvNamed, IInv, TypeOK, Processes
<1>5. ASSUME NEW e \in Entry, e.lease >= lastPub[p] + Lease
      PROVE  e.lease + Grace >= new.exp
  BY <1>2, <1>4, <1>5, Configuration DEF Entry
<1>6. \A e \in store : e.key = new.key => e.lease + Grace >= new.exp
  BY <1>1, <1>3, <1>5 DEF IInvNamed, IInv, TypeOK, Leased
<1>7. ASSUME NEW e \in next[p], e.key = new.key PROVE e.lease + Grace >= new.exp
  <2>1. phase[p] = "save" => e.lease = builtAt[p] + Lease /\ lastPub[p] <= builtAt[p]
    BY <1>1, <1>3, <1>7 DEF IInvNamed, IInv, Drafts, Draft
  <2>2. phase[p] = "save"
    BY DEF IInvNamed, IInv, Processes
  <2> QED  BY <1>5, <1>4, <2>1, <2>2, Configuration DEF IInvNamed, IInv, TypeOK
<1>8. Leased'
  BY <1>1, <1>3, <1>6, <1>7 DEF IInvNamed, Leased
<1>9. \A k : Wanted(k)' => Wanted(k)
  BY <1>1, <1>3 DEF Wanted, InUse
<1>10. Made' /\ OwnKept'
  BY <1>1, <1>9 DEF IInvNamed, Made, WasMade, OwnKept, Stored
<1>11. Serving'
  BY <1>1, <1>3, <1>9 DEF IInvNamed, Serving, Stored
<1> QED  BY <1>8, <1>10, <1>11, MintIInv DEF IInvNamed

\* publishOnce lists every key of its own that is wanted, with a lease that outlasts
\* the tokens it signed.
LEMMA LoadNamed == ASSUME IInvNamed, NEW p \in Process, Load(p) PROVE IInvNamed'
<1> DEFINE new == BuildNext(p, store)
<1>0. IInv
  BY DEF IInvNamed
<1>1. /\ state[p] = "up" /\ phase' = [phase EXCEPT ![p] = "save"]
      /\ next' = [next EXCEPT ![p] = new]
      /\ UNCHANGED <<now, state, current, retires, tokens, store, merged, lastPub>>
  BY DEF Load, localVars, storeVars
<1>2. /\ new \subseteq Entry
      /\ \A e \in new : e \in store \/ (e.key \in LocalKeys(p) /\ e.lease = now + Lease)
      /\ \A k \in LocalKeys(p) : \E e \in new : e.key = k
  BY <1>0, <1>1, BuildNextEntries
<1> HIDE DEF new
<1>3. next'[p] = new /\ \A q \in Process \ {p} : next'[q] = next[q] /\ phase'[q] = phase[q]
  BY <1>0, <1>1 DEF IInv, TypeOK
<1>4. Made'
  <2>1. ASSUME NEW k \in LocalKeys(p) PROVE WasMade(k)
    BY <1>0, <1>1, KeyPair DEF IInv, TypeOK, LocalKeys, WasMade
  <2>2. \A e \in new : WasMade(e.key)
    BY <1>2, <2>1 DEF IInvNamed, Made
  <2> QED  BY <1>1, <1>3, <2>2 DEF IInvNamed, Made, WasMade
<1>5. Leased'
  <2>1. ASSUME NEW t \in tokens, NEW e \in new, e.key = t.key
        PROVE  e.lease + Grace >= t.exp
    <3>1. CASE e \in store
      BY <2>1, <3>1 DEF IInvNamed, Leased
    <3>2. CASE e.lease = now + Lease
      BY <3>2, <1>0, Configuration DEF IInv, TypeOK, Tokens
    <3> QED  BY <1>2, <3>1, <3>2
  <2>2. \A t \in tokens : Owner(t.key) \in Process
    BY <1>0, KeyPair DEF IInv, TypeOK
  <2> QED  BY <1>1, <1>3, <2>1, <2>2 DEF IInvNamed, Leased
<1>6. OwnKept'
  <2>1. ASSUME NEW k \in Stored, Owner(k) = p, Wanted(k) PROVE k \in LocalKeys(p)
    <3>1. CASE k \in InUse
      <4>1. PICK t \in tokens : t.key = k
        BY <3>1 DEF InUse
      <4>2. /\ t.key \in Key /\ t.exp \in Nat /\ now \in Nat /\ retires[t.key] \in Nat
            /\ now <= t.exp
            /\ \/ t.key[2] = current[p]
               \/ t.key[2] < current[p] /\ t.exp < retires[t.key]
        BY <1>0, <1>1, <2>1, <4>1 DEF IInv, TypeOK, Tokens
      <4> QED  BY <2>1, <4>1, <4>2 DEF LocalKeys
    <3>2. CASE k[2] = current[p]
      BY <1>0, <2>1, <3>2 DEF LocalKeys, Stored, IInv, TypeOK, Entry
    <3> QED  BY <2>1, <3>1, <3>2 DEF Wanted
  <2> QED  BY <1>1, <1>2, <1>3, <2>1 DEF IInvNamed, OwnKept, Stored, Wanted, InUse
<1>7. Serving'
  BY <1>1 DEF IInvNamed, Serving, Stored, Wanted, InUse
<1> QED  BY <1>0, <1>4, <1>5, <1>6, <1>7, LoadIInv DEF IInvNamed

\* A draft that is dropped is nobody's loss.
LEMMA DropNamed ==
    ASSUME IInvNamed, NEW p \in Process,
           next' = [next EXCEPT ![p] = {}],
           \A q \in Process : phase'[q] = "save" => q # p /\ phase[q] = "save",
           UNCHANGED <<localVars, store, merged, lastPub>>
    PROVE  Made' /\ Leased' /\ OwnKept' /\ Serving'
<1> USE DEF localVars
<1>1. \A q \in Process : next'[q] \subseteq next[q] /\ (q # p => next'[q] = next[q])
  BY DEF IInvNamed, IInv, TypeOK
<1>2. Made'
  BY <1>1 DEF IInvNamed, Made, WasMade
<1>3. Leased'
  <2>1. \A t \in tokens : Owner(t.key) \in Process
    BY KeyPair DEF IInvNamed, IInv, TypeOK
  <2> QED  BY <1>1, <2>1 DEF IInvNamed, Leased
<1>4. OwnKept'
  BY <1>1 DEF IInvNamed, OwnKept, Stored, Wanted, InUse
<1>5. Serving'
  BY DEF IInvNamed, Serving, Stored, Wanted, InUse
<1> QED  BY <1>2, <1>3, <1>4, <1>5

\* A write keeps every wanted key in the store, whoever it belongs to.
LEMMA WriteNamed ==
    ASSUME NamesDiffer, IInvNamed, NEW p \in Process, AcceptsWrite(p), ApplyWrite(p), Return(p),
           UNCHANGED <<now, localVars>>,
           \/ UNCHANGED lastPub
           \/ state[p] = "up" /\ lastPub' = [lastPub EXCEPT ![p] = builtAt[p]],
           \A q \in Process : merged'[q] = merged[q] \/ (q = p /\ merged'[q] = next[p])
    PROVE  /\ Made' /\ Leased' /\ OwnKept'
           /\ \A k \in Stored : Wanted(k) => k \in Stored'
<1>0. IInv
  BY DEF IInvNamed
<1>1. /\ phase[p] = "save" /\ p \notin outdated /\ store' = next[p]
      /\ phase' = [phase EXCEPT ![p] = "idle"] /\ next' = [next EXCEPT ![p] = {}]
      /\ UNCHANGED <<now, state, current, tokens>>
  BY DEF AcceptsWrite, ApplyWrite, Return, localVars
<1>2. \A q \in Process : /\ next'[q] \subseteq next[q] /\ (q # p => next'[q] = next[q])
                         /\ phase'[q] = "save" => q # p /\ phase[q] = "save"
  BY <1>0, <1>1 DEF IInv, TypeOK
<1>3. Draft(p)
  BY <1>0, <1>1 DEF IInv, Drafts
<1>4. \A e \in next[p] : e \in store \/ Owner(e.key) = p
  BY <1>0, <1>1, PeersEntriesStored
<1>5. Made'
  BY <1>1, <1>2 DEF IInvNamed, Made, WasMade
<1>6. Leased'
  <2>1. ASSUME NEW e \in next[p], state[Owner(e.key)] = "up"
        PROVE  e.lease >= lastPub'[Owner(e.key)] + Lease
    <3>1. CASE Owner(e.key) = p
      <4>1. e.lease = builtAt[p] + Lease /\ lastPub[p] <= builtAt[p]
        BY <1>3, <2>1, <3>1 DEF Draft
      <4>2. builtAt[p] \in Nat /\ lastPub[p] \in Nat
        BY <1>0 DEF IInv, TypeOK
      <4>3. lastPub'[p] = lastPub[p] \/ lastPub'[p] = builtAt[p]
        BY <1>0 DEF IInv, TypeOK
      <4> QED  BY <3>1, <4>1, <4>2, <4>3, Configuration
    <3>2. CASE Owner(e.key) # p
      <4>1. e.lease >= lastPub[Owner(e.key)] + Lease
        BY <1>4, <2>1, <3>2 DEF IInvNamed, Leased
      <4>2. Owner(e.key) \in Process
        BY <1>0, KeyPair DEF IInv, TypeOK, Entry
      <4>3. lastPub'[Owner(e.key)] = lastPub[Owner(e.key)]
        BY <1>0, <3>2, <4>2 DEF IInv, TypeOK
      <4> QED  BY <4>1, <4>3
    <3> QED  BY <3>1, <3>2
  <2>2. ASSUME NEW t \in tokens, NEW e \in next[p], e.key = t.key
        PROVE  e.lease + Grace >= t.exp
    BY <1>4, <2>2 DEF IInvNamed, Leased
  <2>3. \A t \in tokens : Owner(t.key) \in Process
    BY <1>0, KeyPair DEF IInv, TypeOK
  <2>4. \A t \in tokens : \A e \in next'[Owner(t.key)] : e.key = t.key => e.lease + Grace >= t.exp
    BY <1>2, <2>3 DEF IInvNamed, Leased
  <2> QED  BY <1>1, <2>1, <2>2, <2>4 DEF Leased
<1>7. OwnKept'
  <2> SUFFICES ASSUME NEW q \in Process, q # p, phase[q] = "save",
                      NEW e \in next[p], Owner(e.key) = q, Wanted(e.key)
               PROVE  \E f \in next[q] : f.key = e.key
    BY <1>1, <1>2 DEF OwnKept, Stored, Wanted, InUse
  <2>1. e.key \in Stored
    BY <1>4 DEF Stored
  <2> QED  BY <2>1 DEF IInvNamed, OwnKept
<1>8. ASSUME NEW k \in Stored, Wanted(k) PROVE k \in Stored'
  <2>1. \E e \in next[p] : e.key = k
    BY <1>1, <1>8, WriteKeepsWanted
  <2> QED  BY <1>1, <2>1 DEF Stored
<1> QED  BY <1>5, <1>6, <1>7, <1>8

\* What a publish read is served until the next one, and outlasts it.
LEMMA SaveAppliedNamed ==
    ASSUME NamesDiffer, IInvNamed, NEW p \in Process, SaveApplied(p) PROVE IInvNamed'
<1>0. IInv
  BY DEF IInvNamed
<1>1. /\ state[p] = "up" /\ phase[p] = "save" /\ p \notin outdated /\ store' = next[p]
      /\ merged' = [merged EXCEPT ![p] = next[p]]
      /\ lastPub' = [lastPub EXCEPT ![p] = builtAt[p]]
      /\ UNCHANGED <<now, state, current, tokens>>
  BY DEF SaveApplied, AcceptsWrite, ApplyWrite, localVars
<1>2. \A q \in Process : merged'[q] = merged[q] \/ (q = p /\ merged'[q] = next[p])
  <2>1. merged \in [Process -> SUBSET Entry]
    BY <1>0 DEF IInv, TypeOK
  <2> QED  BY <1>1, <2>1
<1>3. Made' /\ Leased' /\ OwnKept' /\ \A k \in Stored : Wanted(k) => k \in Stored'
  BY <1>1, <1>2, WriteNamed DEF SaveApplied
<1>4. Draft(p)
  BY <1>0, <1>1 DEF IInv, Drafts
<1>5. Serving'
  <2> SUFFICES ASSUME NEW q \in Process, state[q] = "up", NEW e \in merged'[q]
               PROVE  /\ Wanted(e.key) => e.key \in Stored'
                      /\ state[Owner(e.key)] = "up" => e.lease + Grace >= lastPub'[q] + MaxGap
                      /\ \A t \in tokens : t.key = e.key =>
                            e.lease + Grace >= t.exp \/ e.lease + Grace >= lastPub'[q] + MaxGap
    BY <1>1 DEF Serving, Wanted, InUse
  <2>1. CASE q # p
    <3>1. merged'[q] = merged[q] /\ lastPub'[q] = lastPub[q]
      BY <1>0, <1>1, <2>1 DEF IInv, TypeOK
    <3> QED  BY <1>3, <3>1 DEF IInvNamed, Serving
  <2>2. CASE q = p
    <3>1. e \in next[p] /\ lastPub'[p] = builtAt[p]
      BY <1>0, <1>1, <2>2 DEF IInv, TypeOK
    <3>2. e.key \in Stored'
      BY <1>1, <3>1 DEF Stored
    <3>3. /\ e.lease \in Nat /\ Owner(e.key) \in Process /\ builtAt[p] \in Nat /\ now \in Nat
          /\ builtAt[p] <= now
      BY <1>0, <1>1, <1>4, <3>1, KeyPair DEF IInv, TypeOK, Entry, Draft
    <3>4. ASSUME state[Owner(e.key)] = "up" PROVE e.lease + Grace >= builtAt[p] + MaxGap
      <4>1. CASE Owner(e.key) = p
        <5>1. e.lease = builtAt[p] + Lease
          BY <1>1, <1>4, <3>1, <4>1 DEF Draft
        <5> QED  BY <3>3, <5>1, Configuration
      <4>2. CASE Owner(e.key) # p
        <5>1. e \in store
          BY <1>0, <1>1, <3>1, <4>2, PeersEntriesStored
        <5>2. /\ e.lease >= lastPub[Owner(e.key)] + Lease /\ lastPub[Owner(e.key)] \in Nat
              /\ now <= lastPub[Owner(e.key)] + MaxGap
          BY <1>0, <3>3, <3>4, <5>1 DEF IInvNamed, IInv, TypeOK, Processes, Leased
        <5> QED  BY <3>3, <5>2, Configuration
      <4> QED  BY <4>1, <4>2
    <3>5. \A t \in tokens : t.key = e.key => e.lease + Grace >= t.exp
      BY <1>1, <1>3, <3>1 DEF Leased
    <3> QED  BY <2>2, <3>1, <3>2, <3>4, <3>5
  <2> QED  BY <2>1, <2>2
<1> QED  BY <1>0, <1>3, <1>5, SaveAppliedIInv DEF IInvNamed

\* A write without an answer leaves the writer serving what it served.
LEMMA SaveUnansweredNamed ==
    ASSUME NamesDiffer, IInvNamed, NEW p \in Process, SaveUnanswered(p) PROVE IInvNamed'
<1>0. IInv
  BY DEF IInvNamed
<1>1. UNCHANGED <<state, current, tokens, merged, lastPub>>
  BY DEF SaveUnanswered, localVars
<1>2. Made' /\ Leased' /\ OwnKept' /\ \A k \in Stored : Wanted(k) => k \in Stored'
  <2>1. AcceptsWrite(p) /\ ApplyWrite(p) /\ Return(p) /\ UNCHANGED <<now, localVars>>
    BY DEF SaveUnanswered
  <2> QED  BY <1>1, <2>1, WriteNamed
<1>3. Serving'
  BY <1>1, <1>2 DEF IInvNamed, Serving, Wanted, InUse
<1> QED  BY <1>0, <1>2, <1>3, SaveUnansweredIInv DEF IInvNamed

\* Publish gives up, or backs off.
LEMMA GiveUpNamed ==
    ASSUME IInvNamed, NEW p \in Process, LoadFails(p) \/ SaveFails(p) \/ SaveConflicts(p)
    PROVE  IInvNamed'
<1>0. IInv
  BY DEF IInvNamed
<1>1. /\ next' = [next EXCEPT ![p] = {}]
      /\ \/ phase' = [phase EXCEPT ![p] = "idle"]
         \/ phase' = [phase EXCEPT ![p] = "backoff"]
      /\ UNCHANGED <<localVars, store, merged, lastPub>>
  BY DEF LoadFails, SaveFails, SaveConflicts, Return, storeVars
<1>2. \A q \in Process : phase'[q] = "save" => q # p /\ phase[q] = "save"
  BY <1>0, <1>1 DEF IInv, TypeOK
<1>3. Made' /\ Leased' /\ OwnKept' /\ Serving'
  BY <1>1, <1>2, DropNamed
<1>4. IInv'
  BY <1>0, LoadFailsIInv, SaveFailsIInv, SaveConflictsIInv
<1> QED  BY <1>3, <1>4 DEF IInvNamed

\* Every step preserves the invariant for names that differ.
LEMMA StepNamed == ASSUME NamesDiffer, IInvNamed, [Next]_vars PROVE IInvNamed'
<1>1. CASE UNCHANGED vars
  <2>1. IInv'
    BY <1>1, StepIInv DEF IInvNamed
  <2>2. Made' /\ Leased' /\ OwnKept' /\ Serving'
    BY <1>1 DEF IInvNamed, Made, WasMade, Leased, OwnKept, Serving, Stored, Wanted, InUse, vars
  <2> QED  BY <2>1, <2>2 DEF IInvNamed
<1>2. CASE Tick
  BY <1>2, TickNamed
<1>3. ASSUME NEW p \in Process,
             \/ Start(p) \/ Stop(p) \/ Rotate(p) \/ Mint(p)
             \/ Load(p) \/ LoadFails(p)
             \/ SaveApplied(p) \/ SaveUnanswered(p) \/ SaveFails(p) \/ SaveConflicts(p)
      PROVE  IInvNamed'
  BY <1>3, StartNamed, StopNamed, RotateNamed, MintNamed, LoadNamed, SaveAppliedNamed,
     SaveUnansweredNamed, GiveUpNamed
<1> QED  BY <1>1, <1>2, <1>3 DEF Next

\* Only an accepted write changes the store.
LEMMA OnlyWritesStore ==
    ASSUME [Next]_vars
    PROVE  store' = store \/ \E p \in Process : AcceptsWrite(p) /\ store' = next[p]
BY DEF Next, vars, Tick, Start, Stop, Rotate, Mint, Load, LoadFails, SaveApplied,
       SaveUnanswered, SaveFails, SaveConflicts, ApplyWrite, storeVars

\* What a process serves from its peers changes when time passes, when it publishes
\* and when it stops.
LEMMA OnlyPublishServes ==
    ASSUME IInv, [Next]_vars, NEW p \in Process, state'[p] = "up", state[p] = "up"
    PROVE  \/ merged'[p] = merged[p] /\ now' = now
           \/ Tick
           \/ SaveApplied(p)
<1>1. merged \in [Process -> SUBSET Entry] /\ state \in [Process -> {"off", "up", "gone"}]
  BY DEF IInv, TypeOK
<1>2. CASE UNCHANGED vars
  BY <1>2 DEF vars
<1>3. ASSUME NEW q \in Process,
             \/ Start(q) \/ Rotate(q) \/ Mint(q) \/ Load(q) \/ LoadFails(q)
             \/ SaveUnanswered(q) \/ SaveFails(q) \/ SaveConflicts(q)
      PROVE  merged' = merged /\ now' = now
  BY <1>3 DEF Start, Rotate, Mint, Load, LoadFails, SaveUnanswered, SaveFails, SaveConflicts,
              pubVars
<1>4. ASSUME NEW q \in Process, Stop(q) PROVE merged'[p] = merged[p] /\ now' = now
  BY <1>1, <1>4 DEF Stop
<1>5. ASSUME NEW q \in Process, q # p, SaveApplied(q)
      PROVE  merged'[p] = merged[p] /\ now' = now
  BY <1>1, <1>5 DEF SaveApplied
<1> QED  BY <1>2, <1>3, <1>4, <1>5 DEF Next

\* A step keeps every stored key that signed an unexpired token.
LEMMA StoredStep ==
    ASSUME NamesDiffer, IInvNamed, [Next]_vars, NEW k \in InUse, k \in Stored
    PROVE  k \in Stored'
<1>1. CASE store' = store
  BY <1>1 DEF Stored
<1>2. ASSUME NEW p \in Process, AcceptsWrite(p), store' = next[p] PROVE k \in Stored'
  <2>1. phase[p] = "save" /\ p \notin outdated /\ Wanted(k)
    BY <1>2 DEF AcceptsWrite, Wanted
  <2>2. \E e \in next[p] : e.key = k
    BY <2>1, WriteKeepsWanted
  <2> QED  BY <1>2, <2>2 DEF Stored
<1> QED  BY <1>1, <1>2, OnlyWritesStore

\* A step keeps every key served by a process that goes on, if it signed a token
\* that is still unexpired.
LEMMA ServedStep ==
    ASSUME NamesDiffer, IInvNamed, [Next]_vars, NEW p \in Process,
           state[p] = "up", state'[p] = "up", NEW k \in InUse, k \in InUse', k \in JWKS(p)
    PROVE  k \in JWKS(p)'
<1>0. IInv /\ IInv'
  BY StepIInv DEF IInvNamed
<1>1. CASE Owner(k) = p
  <2>1. OwnTokensVerify'
    BY <1>0, OwnKeysServed, PTL
  <2> QED  BY <1>1, <2>1 DEF OwnTokensVerify
<1>2. CASE Owner(k) # p
  <2>1. PICK e \in merged[p] : e.key = k /\ ~Lapsed(e)
    BY <1>2 DEF JWKS, LocalKeys
  <2>2. PICK t \in tokens' : t.key = k
    BY DEF InUse
  <2> SUFFICES \E f \in merged'[p] : f.key = k /\ ~Lapsed(f)'
    BY DEF JWKS
  <2>3. CASE merged'[p] = merged[p] /\ now' = now
    BY <2>1, <2>3 DEF Lapsed
  <2>4. CASE Tick
    <3>1. t \in tokens /\ t.exp >= now' /\ merged' = merged /\ now' = now + 1
          /\ now < lastPub[p] + MaxGap
      BY <2>2, <2>4 DEF Tick, pubVars
    <3>2. e.lease \in Nat /\ now \in Nat /\ t.exp \in Nat /\ lastPub[p] \in Nat
      BY <1>0, <2>1, <3>1 DEF IInv, TypeOK, Entry
    <3>3. e.lease + Grace >= t.exp \/ e.lease + Grace >= lastPub[p] + MaxGap
      BY <2>1, <2>2, <3>1 DEF IInvNamed, Serving
    <3>4. ~Lapsed(e)'
      BY <3>1, <3>2, <3>3, Configuration DEF Lapsed
    <3> QED  BY <2>1, <3>1, <3>4
  <2>5. CASE SaveApplied(p)
    <3>1. /\ phase[p] = "save" /\ p \notin outdated /\ now' = now /\ tokens' = tokens
          /\ merged' = [merged EXCEPT ![p] = next[p]]
      BY <2>5 DEF SaveApplied, AcceptsWrite, localVars
    <3>2. merged'[p] = next[p]
      BY <1>0, <3>1 DEF IInv, TypeOK
    <3>3. Wanted(k) /\ k \in Stored
      BY <2>1 DEF Wanted, IInvNamed, Serving
    <3>4. PICK f \in next[p] : f.key = k
      BY <3>1, <3>3, WriteKeepsWanted
    <3>5. f \in store
      BY <1>0, <1>2, <3>1, <3>4, PeersEntriesStored
    <3>6. f.lease \in Nat /\ t.exp \in Nat /\ now \in Nat /\ now <= t.exp
      BY <1>0, <2>2, <3>1, <3>5 DEF IInv, TypeOK, Entry, Tokens
    <3>7. f.lease + Grace >= t.exp
      BY <2>2, <3>1, <3>4, <3>5 DEF IInvNamed, Leased
    <3>8. ~Lapsed(f)'
      BY <3>1, <3>6, <3>7, Configuration DEF Lapsed
    <3> QED  BY <3>2, <3>4, <3>8
  <2> QED  BY <1>0, <2>3, <2>4, <2>5, OnlyPublishServes
<1> QED  BY <1>1, <1>2

\* The invariant holds in every behaviour when names differ.
THEOREM NamedInvariance == ASSUME NamesDiffer PROVE Spec => []IInvNamed
<1>1. Init => IInvNamed
  BY InitNamed
<1>2. IInvNamed /\ [Next]_vars => IInvNamed'
  BY StepNamed
<1> QED  BY <1>1, <1>2, PTL DEF Spec

\* When names differ, a stored key stays in the store while a token it signed is
\* unexpired, through conflicting publishes, lost answers, crashes and rotations.
THEOREM StoredKeysStay == ASSUME NamesDiffer PROVE Spec => StoredUntilExpiry
<1>1. IInvNamed /\ [Next]_vars =>
         [\A k \in InUse \cap InUse' : k \in Stored => k \in Stored']_vars
  BY StoredStep
<1> QED  BY <1>1, NamedInvariance, PTL DEF Spec, StoredUntilExpiry

\* When names differ, a live process that serves a key goes on serving it while a
\* token the key signed is unexpired.
THEOREM ServedKeysStay == ASSUME NamesDiffer PROVE Spec => ServedUntilExpiry
<1>1. IInvNamed /\ [Next]_vars =>
         [\A p \in Process : \A k \in InUse \cap InUse' :
             state[p] = "up" /\ state'[p] = "up" /\ k \in JWKS(p) => k \in JWKS(p)']_vars
  BY ServedStep
<1> QED  BY <1>1, NamedInvariance, PTL DEF Spec, ServedUntilExpiry
=============================================================================
