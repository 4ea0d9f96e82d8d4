------------------------- MODULE KeyRotationProofs -------------------------
(* Machine-checked proofs about KeyRotation, for every overlap that exceeds the *)
(* token lifetime and any number of tokens and verifications.                  *)
EXTENDS KeyRotation, TLAPS

\* The invariant holds when NewSet has made the first key.
LEMMA InitIInv == Init => IInv
<1> SUFFICES ASSUME Init PROVE IInv
  OBVIOUS
<1>1. TypeOK
  BY DEF Init, TypeOK, MintState, VerifyState
<1>2. /\ RingOrder /\ StampedInPast /\ WindowOutlastsToken /\ GenuineToken
      /\ GuardRemembers /\ OnceBeforeExpiry /\ RefusedOnlyWithCause
  BY DEF Init, RingOrder, StampedInPast, WindowOutlastsToken, GenuineToken,
         GuardRemembers, OnceBeforeExpiry, RefusedOnlyWithCause
<1> QED
  BY <1>1, <1>2 DEF IInv

\* The key of an unexpired token is served: its window outlasts the token, so it
\* is still open.
LEMMA ServedInLife ==
    ASSUME IInv, NEW t \in Token, mint[t] = "signed", now <= exp[t]
    PROVE  kid[t] \in Served
<1>1. CASE kid[t] = current
  BY <1>1 DEF Served
<1>2. CASE \E r \in retired : r.key = kid[t] /\ r.retires > exp[t]
  <2>1. PICK r \in retired : r.key = kid[t] /\ r.retires > exp[t]
    BY <1>2
  <2>2. r.retires > now
    BY <2>1 DEF IInv, TypeOK, Retired
  <2> QED
    BY <2>1, <2>2 DEF Served
<1> QED
  BY <1>1, <1>2 DEF IInv, WindowOutlastsToken

\* Time passing keeps the invariant: tokens only expire.
LEMMA TickIInv == ASSUME IInv, Tick PROVE IInv'
<1>1. now' = now + 1 /\ UNCHANGED <<current, retired, mint, iat, exp, kid,
                                    verify, token, at, seen>>
  BY DEF Tick, ringVars, mintVars, verifyVars
<1>2. TypeOK' /\ RingOrder'
  BY <1>1 DEF IInv, TypeOK, RingOrder
<1>3. StampedInPast' /\ WindowOutlastsToken'
  BY <1>1 DEF IInv, TypeOK, StampedInPast, WindowOutlastsToken
<1>4. GenuineToken'
  BY <1>1 DEF IInv, TypeOK, GenuineToken
<1>5. GuardRemembers'
  <2>1. \A v \in Attempt : verify[v] = "accepted" => exp[token[v]] \in Nat
    BY DEF IInv, TypeOK, GenuineToken
  <2> QED
    BY <1>1, <2>1 DEF IInv, TypeOK, GuardRemembers
<1>6. OnceBeforeExpiry'
  BY <1>1 DEF IInv, OnceBeforeExpiry
<1>7. RefusedOnlyWithCause'
  <2>1. \A v \in Attempt : verify[v] = "refused" => exp[token[v]] \in Nat
    BY DEF IInv, TypeOK, GenuineToken
  <2> QED
    BY <1>1, <2>1 DEF IInv, TypeOK, RefusedOnlyWithCause
<1> QED
  BY <1>2, <1>3, <1>4, <1>5, <1>6, <1>7 DEF IInv

\* A rotation keeps every key whose window outlasts an unexpired token, and gives
\* the old key a window that outlasts every token it has signed.
LEMMA RotateIInv == ASSUME IInv, Rotate PROVE IInv'
<1> DEFINE old == [key |-> current, retires |-> now + Overlap]
<1>1. /\ current' = current + 1
      /\ retired' = {k \in retired \cup {old} : k.retires > now}
      /\ UNCHANGED <<now, mint, iat, exp, kid, verify, token, at, seen>>
  BY DEF Rotate, Prune, mintVars, verifyVars
<1>2. old \in Retired
  BY Configuration DEF IInv, TypeOK, Retired
<1>3. TypeOK' /\ RingOrder'
  BY <1>1, <1>2 DEF IInv, TypeOK, RingOrder, Retired
<1>4. WindowOutlastsToken'
  <2> SUFFICES ASSUME NEW t \in Token, mint[t] = "signed", now <= exp[t]
               PROVE  \E r \in retired' : r.key = kid[t] /\ r.retires > exp[t]
    BY <1>1 DEF WindowOutlastsToken
  <2>1. /\ exp[t] \in Nat /\ iat[t] \in Nat /\ iat[t] <= now
        /\ exp[t] = iat[t] + TTL /\ now \in Nat
    BY DEF IInv, TypeOK, StampedInPast
  <2>2. CASE kid[t] = current
    <3>1. old.retires > exp[t] /\ old.retires > now
      BY <2>1, Configuration
    <3> QED
      BY <1>1, <2>2, <3>1
  <2>3. CASE \E r \in retired : r.key = kid[t] /\ r.retires > exp[t]
    <3>1. PICK r \in retired : r.key = kid[t] /\ r.retires > exp[t]
      BY <2>3
    <3>2. r.retires > now
      BY <2>1, <3>1 DEF IInv, TypeOK, Retired
    <3> QED
      BY <1>1, <3>1, <3>2
  <2> QED
    BY <2>2, <2>3 DEF IInv, WindowOutlastsToken
<1>5. /\ StampedInPast' /\ GenuineToken' /\ GuardRemembers'
      /\ OnceBeforeExpiry' /\ RefusedOnlyWithCause'
  BY <1>1 DEF IInv, StampedInPast, GenuineToken, GuardRemembers, OnceBeforeExpiry,
         RefusedOnlyWithCause
<1> QED
  BY <1>3, <1>4, <1>5 DEF IInv

\* Stamping touches a token nobody holds yet.
LEMMA StampIInv == ASSUME IInv, NEW t \in Token, Stamp(t) PROVE IInv'
<1>1. /\ mint[t] = "new"
      /\ UNCHANGED <<now, current, retired, kid, verify, token, at, seen>>
      /\ \A u \in Token : mint'[u] = IF u = t THEN "claims" ELSE mint[u]
      /\ \A u \in Token : iat'[u] = IF u = t THEN now ELSE iat[u]
      /\ \A u \in Token : exp'[u] = IF u = t THEN now + TTL ELSE exp[u]
  BY DEF Stamp, IInv, TypeOK, ringVars, verifyVars
<1>2. TypeOK'
  BY <1>1, Configuration DEF Stamp, IInv, TypeOK, MintState
<1>3. RingOrder' /\ StampedInPast' /\ WindowOutlastsToken'
  BY <1>1 DEF IInv, TypeOK, RingOrder, StampedInPast, WindowOutlastsToken
<1>4. \A v \in Attempt : verify[v] # "new" => token[v] \in Token /\ token[v] # t
  BY <1>1 DEF IInv, GenuineToken
<1>5. GenuineToken'
  BY <1>1, <1>4 DEF IInv, GenuineToken
<1>6. GuardRemembers' /\ OnceBeforeExpiry' /\ RefusedOnlyWithCause'
  BY <1>1, <1>4 DEF IInv, GuardRemembers, OnceBeforeExpiry, RefusedOnlyWithCause
<1> QED
  BY <1>2, <1>3, <1>5, <1>6 DEF IInv

\* Signing uses the current key.
LEMMA SignIInv == ASSUME IInv, NEW t \in Token, Sign(t) PROVE IInv'
<1>1. /\ mint[t] = "claims"
      /\ UNCHANGED <<now, current, retired, iat, exp, verify, token, at, seen>>
      /\ \A u \in Token : mint'[u] = IF u = t THEN "signed" ELSE mint[u]
      /\ \A u \in Token : kid'[u] = IF u = t THEN current ELSE kid[u]
  BY DEF Sign, IInv, TypeOK, ringVars, verifyVars
<1>2. TypeOK'
  BY <1>1 DEF Sign, IInv, TypeOK, MintState
<1>3. RingOrder' /\ StampedInPast' /\ WindowOutlastsToken'
  BY <1>1 DEF IInv, RingOrder, StampedInPast, WindowOutlastsToken
<1>4. GenuineToken' /\ GuardRemembers' /\ OnceBeforeExpiry' /\ RefusedOnlyWithCause'
  BY <1>1 DEF IInv, GenuineToken, GuardRemembers, OnceBeforeExpiry, RefusedOnlyWithCause
<1> QED
  BY <1>2, <1>3, <1>4 DEF IInv

\* A look-up refuses only a token that has expired.
LEMMA LookUpKeyIInv ==
    ASSUME IInv, NEW v \in Attempt, NEW t \in Token, LookUpKey(v, t)
    PROVE  IInv'
<1>1. PICK s \in {"key", "refused"} :
        /\ \A w \in Attempt : verify'[w] = IF w = v THEN s ELSE verify[w]
        /\ verify' \in [Attempt -> VerifyState]
        /\ s = "refused" => kid[t] \notin Served
  BY DEF LookUpKey, IInv, TypeOK, VerifyState
<1>2. /\ verify[v] = "new" /\ mint[t] = "signed"
      /\ UNCHANGED <<now, current, retired, mint, iat, exp, kid, at, seen>>
      /\ \A w \in Attempt : token'[w] = IF w = v THEN t ELSE token[w]
  BY DEF LookUpKey, IInv, TypeOK, ringVars, mintVars
<1>3. TypeOK'
  BY <1>1, <1>2 DEF LookUpKey, IInv, TypeOK
<1>4. RingOrder' /\ StampedInPast' /\ WindowOutlastsToken'
  BY <1>2 DEF IInv, RingOrder, StampedInPast, WindowOutlastsToken
<1>5. at[v] <= now
  BY <1>2 DEF IInv, GenuineToken
<1>6. GenuineToken'
  BY <1>1, <1>2, <1>5 DEF IInv, GenuineToken
<1>7. GuardRemembers' /\ OnceBeforeExpiry'
  BY <1>1, <1>2 DEF IInv, GuardRemembers, OnceBeforeExpiry
<1>8. RefusedOnlyWithCause'
  <2>1. s = "refused" => now > exp[t]
    BY <1>1, <1>2, ServedInLife DEF IInv, TypeOK
  <2> QED
    BY <1>1, <1>2, <2>1 DEF IInv, RefusedOnlyWithCause
<1> QED
  BY <1>3, <1>4, <1>6, <1>7, <1>8 DEF IInv

\* The claim checks refuse only a token that has expired: its lifetime is TTL,
\* which MaxLifetime admits, and it was stamped in the past.
LEMMA CheckClaimsIInv == ASSUME IInv, NEW v \in Attempt, CheckClaims(v) PROVE IInv'
<1> DEFINE t == token[v]
<1>1. PICK s \in {"claims", "refused"} :
        /\ \A w \in Attempt : verify'[w] = IF w = v THEN s ELSE verify[w]
        /\ verify' \in [Attempt -> VerifyState]
        /\ s = "refused" => ~TimeClaimsHold(t)
  BY DEF CheckClaims, IInv, TypeOK, VerifyState
<1>2. /\ verify[v] = "key"
      /\ UNCHANGED <<now, current, retired, mint, iat, exp, kid, token, at, seen>>
  BY DEF CheckClaims, ringVars, mintVars
<1>3. t \in Token /\ mint[t] = "signed"
  BY <1>2 DEF IInv, GenuineToken
<1>4. s = "refused" => now > exp[t]
  <2>1. /\ iat[t] \in Nat /\ exp[t] \in Nat /\ now \in Nat
        /\ iat[t] <= now /\ exp[t] = iat[t] + TTL
    BY <1>3 DEF IInv, TypeOK, StampedInPast
  <2>2. ASSUME now <= exp[t] PROVE TimeClaimsHold(t)
    BY <2>1, <2>2, Configuration DEF TimeClaimsHold
  <2> QED
    BY <1>1, <2>1, <2>2
<1>5. TypeOK'
  BY <1>1, <1>2 DEF IInv, TypeOK
<1>6. /\ RingOrder' /\ StampedInPast' /\ WindowOutlastsToken'
      /\ GuardRemembers' /\ OnceBeforeExpiry'
  BY <1>1, <1>2 DEF IInv, RingOrder, StampedInPast, WindowOutlastsToken, GuardRemembers,
         OnceBeforeExpiry
<1>7. GenuineToken'
  BY <1>1, <1>2 DEF IInv, GenuineToken
<1>8. RefusedOnlyWithCause'
  BY <1>1, <1>2, <1>4 DEF IInv, RefusedOnlyWithCause
<1> QED
  BY <1>5, <1>6, <1>7, <1>8 DEF IInv

\* The replay guard refuses a token it remembers, and it remembers one that was
\* accepted in its lifetime for as long as that lifetime lasts.
LEMMA SeenIInv == ASSUME IInv, NEW v \in Attempt, Seen(v) PROVE IInv'
<1> DEFINE t == token[v]
<1>1. /\ verify[v] = "claims"
      /\ UNCHANGED <<now, current, retired, mint, iat, exp, kid, token>>
      /\ \A w \in Attempt : at'[w] = IF w = v THEN now ELSE at[w]
  BY DEF Seen, IInv, TypeOK, ringVars, mintVars
<1>2. /\ t \in Token /\ mint[t] = "signed" /\ exp[t] \in Nat /\ now \in Nat
      /\ \A w \in Attempt : verify[w] = "accepted" => exp[token[w]] \in Nat
  BY <1>1 DEF IInv, TypeOK, GenuineToken
<1>3. at' \in [Attempt -> Nat]
  BY <1>2 DEF Seen, IInv, TypeOK
<1>4. RingOrder' /\ StampedInPast' /\ WindowOutlastsToken'
  BY <1>1 DEF IInv, RingOrder, StampedInPast, WindowOutlastsToken
<1>5. CASE t \in Remembered
  <2>1. /\ \A w \in Attempt : verify'[w] = IF w = v THEN "refused" ELSE verify[w]
        /\ verify' \in [Attempt -> VerifyState]
        /\ seen' = Remembered
    BY <1>5 DEF Seen, IInv, TypeOK, VerifyState
  <2>2. TypeOK'
    BY <1>1, <1>3, <2>1 DEF IInv, TypeOK, Remembered
  <2>3. GenuineToken' /\ OnceBeforeExpiry'
    BY <1>1, <1>2, <2>1 DEF IInv, TypeOK, GenuineToken, OnceBeforeExpiry
  <2>4. GuardRemembers'
    BY <1>1, <1>2, <2>1 DEF IInv, GuardRemembers, Remembered
  <2>5. RefusedOnlyWithCause'
    <3>1. PICK w \in Attempt : verify[w] = "accepted" /\ token[w] = t
      BY <1>5 DEF IInv, GuardRemembers, Remembered
    <3> QED
      BY <1>1, <2>1, <3>1 DEF IInv, RefusedOnlyWithCause
  <2> QED
    BY <1>4, <2>2, <2>3, <2>4, <2>5 DEF IInv
<1>6. CASE t \notin Remembered
  <2>1. /\ \A w \in Attempt : verify'[w] = IF w = v THEN "accepted" ELSE verify[w]
        /\ verify' \in [Attempt -> VerifyState]
        /\ seen' = Remembered \cup {t}
    BY <1>6 DEF Seen, IInv, TypeOK, VerifyState
  <2>2. TypeOK'
    BY <1>1, <1>2, <1>3, <2>1 DEF IInv, TypeOK, Remembered
  <2>3. GenuineToken' /\ RefusedOnlyWithCause'
    BY <1>1, <1>2, <2>1 DEF IInv, TypeOK, GenuineToken, RefusedOnlyWithCause
  <2>4. GuardRemembers'
    BY <1>1, <1>2, <2>1 DEF IInv, GuardRemembers, Remembered
  <2>5. ASSUME NEW w \in Attempt, w # v, verify[w] = "accepted", token[w] = t,
               at[w] <= exp[t], now <= exp[t]
        PROVE  FALSE
    BY <1>2, <1>6, <2>5 DEF IInv, GuardRemembers, Remembered
  <2>6. OnceBeforeExpiry'
    BY <1>1, <2>1, <2>5 DEF IInv, OnceBeforeExpiry
  <2> QED
    BY <1>4, <2>2, <2>3, <2>4, <2>6 DEF IInv
<1> QED
  BY <1>5, <1>6

\* Every step keeps the invariant.
LEMMA StepIInv == IInv /\ [Next]_vars => IInv'
<1> SUFFICES ASSUME IInv, [Next]_vars PROVE IInv'
  OBVIOUS
<1>1. CASE UNCHANGED vars
  BY <1>1 DEF vars, IInv, TypeOK, RingOrder, StampedInPast, WindowOutlastsToken,
         GenuineToken, GuardRemembers, OnceBeforeExpiry, RefusedOnlyWithCause
<1> QED
  BY <1>1, TickIInv, RotateIInv, StampIInv, SignIInv, LookUpKeyIInv, CheckClaimsIInv,
     SeenIInv DEF Next

\* IInv is an invariant of the process.
THEOREM Invariance == Spec => []IInv
BY InitIInv, StepIInv, PTL DEF Spec

\* The variables keep their types.
THEOREM TypeCorrect == Spec => []TypeOK
<1>1. IInv => TypeOK
  BY DEF IInv
<1> QED
  BY <1>1, Invariance, PTL

\* Whenever keys rotate, the key of every unexpired token is still served.
THEOREM RotationIsSafe == Spec => []UnexpiredVerifies
<1>1. IInv => UnexpiredVerifies
  BY ServedInLife DEF UnexpiredVerifies
<1> QED
  BY <1>1, Invariance, PTL

\* The replay guard admits a token at most once before it expires.
THEOREM ReplayRefused == Spec => []OnceBeforeExpiry
<1>1. IInv => OnceBeforeExpiry
  BY DEF IInv
<1> QED
  BY <1>1, Invariance, PTL

\* Verify refuses a genuine token only when it has expired or was used.
THEOREM NoSpuriousRefusal == Spec => []RefusedOnlyWithCause
<1>1. IInv => RefusedOnlyWithCause
  BY DEF IInv
<1> QED
  BY <1>1, Invariance, PTL

\* A key that has left the served set is never served again.
THEOREM WithdrawnForGood == Spec => NeverReadmitted
<1>1. ASSUME IInv, [Next]_vars, NEW k \in 1..current, k \notin Served
      PROVE  k \notin Served'
  <2>1. /\ k \in Int /\ k < current
        /\ now \in Nat /\ current \in Nat
        /\ \A r \in retired : r.key = k => ~(r.retires > now)
    BY <1>1 DEF IInv, TypeOK, Served
  <2>2. CASE Rotate
    <3>1. /\ current' = current + 1
          /\ now' = now
          /\ \A r \in retired' : r \in retired \/ r.key = current
      BY <2>2 DEF Rotate, Prune
    <3> QED
      BY <2>1, <3>1 DEF Served
  <2>3. CASE Tick
    <3>1. now' = now + 1 /\ current' = current /\ retired' = retired
      BY <2>3 DEF Tick, ringVars
    <3>2. \A r \in retired : r.key = k => ~(r.retires > now + 1)
      BY <1>1, <2>1 DEF IInv, TypeOK, Retired
    <3> QED
      BY <2>1, <3>1, <3>2 DEF Served
  <2>4. CASE UNCHANGED <<now, current, retired>>
    BY <2>1, <2>4 DEF Served
  <2> QED
    BY <1>1, <2>2, <2>3, <2>4
    DEF Next, Stamp, Sign, LookUpKey, CheckClaims, Seen, ringVars, vars
<1>2. IInv /\ [Next]_vars
        => [\A k \in 1..current : k \notin Served => k \notin Served']_vars
  BY <1>1
<1> QED
  BY <1>2, Invariance, PTL DEF Spec, NeverReadmitted

=============================================================================
