---------------------------- MODULE KeyRotation ----------------------------
(***************************************************************************)
(* The life of a token in one process: keys.Set rotates the signing key,   *)
(* signer.Mint stamps and signs, verifier.Verify (with LocalKeys) checks,  *)
(* and verifier.MemoryReplayGuard remembers what was presented.            *)
(*                                                                         *)
(* Time is counted in whole seconds, the resolution of iat, nbf and exp.   *)
(* Keys are numbered in the order Rotate makes them; the kid is the key's  *)
(* thumbprint, so the number stands for both.  The signature is external:  *)
(* jwt.Verify succeeds exactly with the key that signed.                   *)
(***************************************************************************)
EXTENDS Integers

CONSTANTS
    Token,          \* calls of Mint, and the jti each one draws
    Attempt,        \* calls of Verify
    TTL,            \* signer.Config.TTL, after clamping
    Overlap,        \* keys.Set.overlap
    SignerLeeway,   \* signer.Config.Leeway
    Leeway,         \* verifier.Config.Leeway
    MaxLifetime,    \* verifier.Config.MaxLifetime
    MaxTime,        \* bound: the clock stops here
    MaxKeys,        \* bound: Rotate is called at most this often
    None

\* tsjwtd and tsjwt-dataplane do not start unless the overlap exceeds the token
\* lifetime; signer.New and verifier.New replace leeways that are not positive.
ASSUME Configuration ==
    /\ TTL \in Nat \ {0}
    /\ Overlap \in Nat /\ Overlap > TTL
    /\ SignerLeeway \in Nat \ {0}
    /\ Leeway \in Nat \ {0}
    /\ MaxLifetime \in Nat /\ MaxLifetime >= TTL
    /\ MaxTime \in Nat
    /\ MaxKeys \in Nat
    /\ None \notin Token

VARIABLES
    now,        \* the process's clock
    current,    \* Set.current: the number of the signing key
    retired,    \* Set.retired: a set of [key, retires]
    mint,       \* where each call of Mint is
    iat,        \* its claims' iat
    exp,        \* its claims' exp
    kid,        \* the key that signed it
    verify,     \* where each call of Verify is
    token,      \* the token it was given
    at,         \* when it reached the replay guard
    seen        \* MemoryReplayGuard.seen: the recorded jtis

ringVars == <<current, retired>>
mintVars == <<mint, iat, exp, kid>>
verifyVars == <<verify, token, at, seen>>
vars == <<now, current, retired, mint, iat, exp, kid, verify, token, at, seen>>

MintState == {"new", "claims", "signed"}

\* "key": the key was found and the signature verified.  "claims": the claim
\* checks passed.
VerifyState == {"new", "key", "claims", "accepted", "refused"}

Retired == [key : Nat, retires : Nat]

TypeOK ==
    /\ now \in Nat
    /\ current \in Nat
    /\ retired \subseteq Retired
    /\ mint \in [Token -> MintState]
    /\ iat \in [Token -> Nat]
    /\ exp \in [Token -> Nat]
    /\ kid \in [Token -> Nat]
    /\ verify \in [Attempt -> VerifyState]
    /\ token \in [Attempt -> Token \cup {None}]
    /\ at \in [Attempt -> Nat]
    /\ seen \subseteq Token

\* NewSet has made key 1.
Init ==
    /\ now = 0
    /\ current = 1
    /\ retired = {}
    /\ mint = [t \in Token |-> "new"]
    /\ iat = [t \in Token |-> 0]
    /\ exp = [t \in Token |-> 0]
    /\ kid = [t \in Token |-> 0]
    /\ verify = [v \in Attempt |-> "new"]
    /\ token = [v \in Attempt |-> None]
    /\ at = [v \in Attempt |-> 0]
    /\ seen = {}

Tick ==
    /\ now < MaxTime
    /\ now' = now + 1
    /\ UNCHANGED <<ringVars, mintVars, verifyVars>>

------------------------------------------------------------------------------
(* keys.Set *)

\* Mutation: pruning drops a key a second before its window closes.
PruneEarly(ks) == {k \in ks : k.retires > now + 1}

\* pruneLocked: retires.After(now).
Prune(ks) == {k \in ks : k.retires > now}

\* Mutation: every retired key gets a new window.
RotateReprieves ==
    /\ current < MaxKeys
    /\ current' = current + 1
    /\ retired' = Prune({[k EXCEPT !.retires = now + Overlap] :
                           k \in retired \cup {[key |-> current, retires |-> 0]}})
    /\ UNCHANGED <<now, mintVars, verifyVars>>

\* The previous current key enters its overlap window.  A failure to generate a
\* key returns before the lock is taken and changes nothing.
Rotate ==
    /\ current < MaxKeys
    /\ current' = current + 1
    /\ retired' = Prune(retired \cup {[key |-> current, retires |-> now + Overlap]})
    /\ UNCHANGED <<now, mintVars, verifyVars>>

\* JWKS, and PublicKey key by key: retired keys are held until the next Rotate
\* prunes them, but only served while their window is open.
Served == {current} \cup {k.key : k \in {r \in retired : r.retires > now}}

------------------------------------------------------------------------------
(* signer.Mint.  Who may act for which tenant is the subject of another      *)
(* module; here a call stamps the claims and then asks for the current key.  *)

\* Mutation: iat is backdated by the leeway, like nbf.
StampBackdated(t) ==
    /\ mint[t] = "new"
    /\ mint' = [mint EXCEPT ![t] = "claims"]
    /\ iat' = [iat EXCEPT ![t] = now - SignerLeeway]
    /\ exp' = [exp EXCEPT ![t] = now + TTL]
    /\ UNCHANGED <<now, ringVars, kid, verifyVars>>

\* The claims are stamped: iat = now, nbf = now - SignerLeeway, exp = now + TTL.
Stamp(t) ==
    /\ mint[t] = "new"
    /\ mint' = [mint EXCEPT ![t] = "claims"]
    /\ iat' = [iat EXCEPT ![t] = now]
    /\ exp' = [exp EXCEPT ![t] = now + TTL]
    /\ UNCHANGED <<now, ringVars, kid, verifyVars>>

\* signClaims: Set.Current, possibly after a rotation that Stamp did not see.
Sign(t) ==
    /\ mint[t] = "claims"
    /\ mint' = [mint EXCEPT ![t] = "signed"]
    /\ kid' = [kid EXCEPT ![t] = current]
    /\ UNCHANGED <<now, ringVars, iat, exp, verifyVars>>

------------------------------------------------------------------------------
(* verifier.Verify *)

\* LocalKeys.Key, then jwt.Verify with the key it returned.
LookUpKey(v, t) ==
    /\ verify[v] = "new"
    /\ mint[t] = "signed"
    /\ token' = [token EXCEPT ![v] = t]
    /\ verify' = [verify EXCEPT ![v] = IF kid[t] \in Served THEN "key" ELSE "refused"]
    /\ UNCHANGED <<now, ringVars, mintVars, at, seen>>

\* Mutation: a token of exactly the maximal lifetime is refused.
TimeClaimsHoldStrictly(t) ==
    /\ now <= exp[t] + Leeway
    /\ now + Leeway >= iat[t] - SignerLeeway
    /\ 0 < exp[t] - iat[t] /\ exp[t] - iat[t] < MaxLifetime
    /\ exp[t] <= now + MaxLifetime + Leeway

\* The exp, nbf and lifetime checks, for a token of this signer.
TimeClaimsHold(t) ==
    /\ now <= exp[t] + Leeway
    /\ now + Leeway >= iat[t] - SignerLeeway
    /\ 0 < exp[t] - iat[t] /\ exp[t] - iat[t] <= MaxLifetime
    /\ exp[t] <= now + MaxLifetime + Leeway

CheckClaims(v) ==
    /\ verify[v] = "key"
    /\ verify' = [verify EXCEPT ![v] =
                    IF TimeClaimsHold(token[v]) THEN "claims" ELSE "refused"]
    /\ UNCHANGED <<now, ringVars, mintVars, token, at, seen>>

\* Mutation: an entry is forgotten at its expiry instead of after it.
RememberedTooShort == {t \in seen : exp[t] > now}

\* Entries the guard has not forgotten: now.After(exp) deletes.
Remembered == {t \in seen : exp[t] >= now}

\* MemoryReplayGuard.Seen, under its own lock and with its own reading of the
\* clock: forget, then test, then record.
Seen(v) ==
    LET t == token[v] IN
    /\ verify[v] = "claims"
    /\ at' = [at EXCEPT ![v] = now]
    /\ IF t \in Remembered
       THEN /\ verify' = [verify EXCEPT ![v] = "refused"]
            /\ seen' = Remembered
       ELSE /\ verify' = [verify EXCEPT ![v] = "accepted"]
            /\ seen' = Remembered \cup {t}
    /\ UNCHANGED <<now, ringVars, mintVars, token>>

------------------------------------------------------------------------------
Next ==
    \/ Tick
    \/ Rotate
    \/ \E t \in Token : Stamp(t) \/ Sign(t)
    \/ \E v \in Attempt :
          \/ \E t \in Token : LookUpKey(v, t)
          \/ CheckClaims(v)
          \/ Seen(v)

Spec == Init /\ [][Next]_vars

------------------------------------------------------------------------------
(* Properties. *)

\* "A token minted just before a rotation" does not "fail before it expires":
\* however rotations, ticks and a slow Mint interleave, the key that signed an
\* unexpired token is in the served set.
UnexpiredVerifies ==
    \A t \in Token : mint[t] = "signed" /\ now <= exp[t] => kid[t] \in Served

\* A key that has left the served set never comes back: not by a later rotation,
\* and not by the pruning that follows the window's end only lazily.
NeverReadmitted ==
    [][\A k \in 1..current : k \notin Served => k \notin Served']_vars

\* Two presentations of one token inside its lifetime are never both accepted,
\* whatever the interleaving of concurrent Verify calls and the guard's pruning.
OnceBeforeExpiry ==
    \A v, w \in Attempt :
        /\ v # w
        /\ verify[v] = "accepted" /\ verify[w] = "accepted"
        /\ token[v] = token[w]
        => ~(at[v] <= exp[token[v]] /\ at[w] <= exp[token[w]])

\* A genuine token is refused only once it has expired, or because the same
\* token was accepted in another call: neither a rotation between the look-ups,
\* nor a lifetime of exactly MaxLifetime, nor the guard's bookkeeping costs a
\* caller a valid token.
RefusedOnlyWithCause ==
    \A v \in Attempt : verify[v] = "refused" =>
        \/ now > exp[token[v]]
        \/ \E w \in Attempt : verify[w] = "accepted" /\ token[w] = token[v]

\* "makes each token single-use" (SECURITY.md:54-55); "so that a captured token
\* cannot be used twice" (verifier.go:59-60).
SingleUse ==
    \A v, w \in Attempt :
        v # w /\ verify[v] = "accepted" /\ verify[w] = "accepted" => token[v] # token[w]

------------------------------------------------------------------------------
(* The inductive invariant. *)

\* Retired keys are older than the current one.
RingOrder == current >= 1 /\ \A r \in retired : r.key < current

\* Claims are never stamped in the future, and live exactly TTL.
StampedInPast ==
    \A t \in Token : mint[t] # "new" => iat[t] <= now /\ exp[t] = iat[t] + TTL

\* The key of an unexpired token is current, or its window outlasts the token.
WindowOutlastsToken ==
    \A t \in Token : mint[t] = "signed" /\ now <= exp[t] =>
        \/ kid[t] = current
        \/ \E r \in retired : r.key = kid[t] /\ r.retires > exp[t]

\* A call of Verify that has begun was given a token that had been signed; no
\* call reached the guard in the future.
GenuineToken ==
    \A v \in Attempt :
        /\ at[v] <= now
        /\ verify[v] # "new" => token[v] \in Token /\ mint[token[v]] = "signed"

\* The guard remembers every token accepted in its lifetime until it expires,
\* and remembers nothing else.
GuardRemembers ==
    /\ \A v \in Attempt :
          verify[v] = "accepted" /\ at[v] <= exp[token[v]] /\ now <= exp[token[v]]
              => token[v] \in seen
    /\ \A t \in seen : \E w \in Attempt : verify[w] = "accepted" /\ token[w] = t

IInv ==
    /\ TypeOK
    /\ RingOrder
    /\ StampedInPast
    /\ WindowOutlastsToken
    /\ GenuineToken
    /\ GuardRemembers
    /\ OnceBeforeExpiry
    /\ RefusedOnlyWithCause

=============================================================================
