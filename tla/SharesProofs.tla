----------------------------- MODULE SharesProofs -----------------------------
(***************************************************************************)
(* Shares is correct for any finite number of accesses at once, any view   *)
(* limits and any clock.                                                   *)
(*                                                                         *)
(* Argument: the accesses under way are counted by the step they have      *)
(* reached.  A view is counted in the same statement that moves its access *)
(* from the readers to the writers of a share, so the views counted and    *)
(* the accesses that have read the share only rise together when a new     *)
(* access is let in, which the limit forbids once it is reached.           *)
(***************************************************************************)
EXTENDS Shares, TableLemmas, FiniteSetTheorems

AccessState ==
  {Idle} \cup
    [step : {"read", "loaded", "counted"}, share : DOMAIN shares, kind : Kind, cert : CertId]

CreationState == {Idle} \cup [step : {"resolved"}, kind : Kind, cert : CertId]

Typed ==
  /\ DOMAIN shares \subseteq ShareId
  /\ shares \in [DOMAIN shares -> Share]
  /\ access \in [Client -> AccessState]
  /\ creation \in [Creator -> CreationState]
  /\ answered \in [DOMAIN shares -> Nat]
  /\ now \in Nat

CertsGood ==
  /\ DOMAIN certs = Kind
  /\ \A kind \in Kind : GoodLeaves(certs[kind], CertId, {}, CommonName)

IInv == Typed /\ CertsGood /\ SharedCertStored /\ EveryAnswerCounted /\ OvershootBounded

\* No certificate is ever deleted.
CertsKept == \A kind \in Kind : DOMAIN certs[kind] \subseteq DOMAIN certs'[kind]

\* A share keeps its target, its limit and its end; it is never unrevoked and its
\* count never falls.
ShareKept(a, b) ==
  /\ b.cert_kind = a.cert_kind
  /\ b.cert_id = a.cert_id
  /\ b.max_views = a.max_views
  /\ b.expires_at = a.expires_at
  /\ b.view_count >= a.view_count
  /\ a.revoked => b.revoked

SharesKept ==
  /\ \A sh \in DOMAIN shares : sh \in DOMAIN shares' /\ ShareKept(shares[sh], shares'[sh])
  /\ now' >= now

\* A closed share lets nobody in.
CommittedKept ==
  \A sh \in DOMAIN shares : IsClosed(shares[sh]) => Committed(sh)' <= Committed(sh)

-----------------------------------------------------------------------------
(***************************************************************************)
(* Counting accesses                                                       *)
(***************************************************************************)

\* One element joins a finite set, leaves it, or neither.
LEMMA OneMember ==
  ASSUME NEW S, NEW T, NEW c, IsFiniteSet(S), S \ {c} = T \ {c}
  PROVE  /\ IsFiniteSet(T)
         /\ Cardinality(S) \in Nat
         /\ Cardinality(T) = Cardinality(S)
              + (IF c \in T THEN 1 ELSE 0) - (IF c \in S THEN 1 ELSE 0)
<1> DEFINE R == S \ {c}
<1>1. /\ IsFiniteSet(R)
      /\ Cardinality(R) = IF c \in S THEN Cardinality(S) - 1 ELSE Cardinality(S)
  BY FS_RemoveElement, Zenon
<1>2. c \notin R /\ T = IF c \in T THEN R \cup {c} ELSE R
  OBVIOUS
<1> HIDE DEF R
<1>3. IsFiniteSet(R \cup {c}) /\ Cardinality(R \cup {c}) = Cardinality(R) + 1
  BY <1>1, <1>2, FS_AddElement, Zenon
<1>4. Cardinality(S) \in Nat /\ Cardinality(R) \in Nat
  BY <1>1, FS_CardinalityType
<1>5. IsFiniteSet(T) /\ Cardinality(T) = IF c \in T THEN Cardinality(R) + 1 ELSE Cardinality(R)
  BY <1>1, <1>2, <1>3, Zenon
<1>6. QED
  BY <1>1, <1>4, <1>5

\* Whether an access in state x is one of those counted.
Counts(x, sh, steps) == x.step \in steps /\ x.share = sh

LEMMA HoldingBound ==
  ASSUME NEW sh, NEW steps
  PROVE  /\ Holding(sh, steps) \in Nat
         /\ Holding(sh, steps) <= Cardinality(Client)
         /\ Cardinality(Client) \in Nat
<1>1. {c \in Client : access[c].step \in steps /\ access[c].share = sh} \in SUBSET Client
  OBVIOUS
<1>2. QED
  BY <1>1, FS_Subset, FS_CardinalityType, SharesAssumption DEF Holding

LEMMA HoldingBoundNext ==
  ASSUME NEW sh, NEW steps
  PROVE  Holding(sh, steps)' \in Nat /\ Holding(sh, steps)' <= Cardinality(Client)
<1>1. {c \in Client : access'[c].step \in steps /\ access'[c].share = sh} \in SUBSET Client
  OBVIOUS
<1>2. QED
  BY <1>1, FS_Subset, FS_CardinalityType, SharesAssumption DEF Holding

\* What the counts do when access c takes the state x.
AccessMoves(c, x) ==
  \A sh, steps :
    /\ Holding(sh, steps) \in Nat
    /\ Holding(sh, steps)' = Holding(sh, steps)
         + (IF Counts(x, sh, steps) THEN 1 ELSE 0)
         - (IF Counts(access[c], sh, steps) THEN 1 ELSE 0)

LEMMA AccessMove ==
  ASSUME Typed, NEW c \in Client, NEW x, access' = [access EXCEPT ![c] = x]
  PROVE  AccessMoves(c, x)
<1> SUFFICES ASSUME NEW sh, NEW steps
             PROVE  /\ Holding(sh, steps) \in Nat
                    /\ Holding(sh, steps)' = Holding(sh, steps)
                         + (IF Counts(x, sh, steps) THEN 1 ELSE 0)
                         - (IF Counts(access[c], sh, steps) THEN 1 ELSE 0)
  BY DEF AccessMoves
<1> DEFINE S == {d \in Client : access[d].step \in steps /\ access[d].share = sh}
           T == {d \in Client : access'[d].step \in steps /\ access'[d].share = sh}
<1>1. \A d \in Client : access'[d] = IF d = c THEN x ELSE access[d]
  BY DEF Typed
<1>2. S \ {c} = T \ {c}
  BY <1>1
<1>3. (c \in S <=> Counts(access[c], sh, steps)) /\ (c \in T <=> Counts(x, sh, steps))
  BY <1>1 DEF Counts
<1>4. IsFiniteSet(S)
  <2>1. S \in SUBSET Client
    OBVIOUS
  <2>2. QED
    BY <2>1, FS_Subset, SharesAssumption
<1>5. Holding(sh, steps) = Cardinality(S) /\ Holding(sh, steps)' = Cardinality(T)
  BY DEF Holding
<1> HIDE DEF S, T
<1>6. QED
  BY <1>2, <1>3, <1>4, <1>5, OneMember

\* Nobody holds a share that does not exist.
LEMMA NewShareUnheld ==
  ASSUME Typed, NEW sh, sh \notin DOMAIN shares, NEW steps, "idle" \notin steps
  PROVE  Holding(sh, steps) = 0
<1>1. \A c \in Client : ~(access[c].step \in steps /\ access[c].share = sh)
  BY DEF Typed, AccessState, Idle
<1>2. {c \in Client : access[c].step \in steps /\ access[c].share = sh} = {}
  BY <1>1
<1>3. QED
  BY <1>2, FS_EmptySet DEF Holding

-----------------------------------------------------------------------------
(***************************************************************************)
(* The certificates                                                        *)
(***************************************************************************)

LEMMA IssueCerts ==
  ASSUME CertsGood, NEW kind \in Kind, NEW id \in CertId, NEW cn \in CommonName,
         IssueCertificate(kind, id, cn)
  PROVE  CertsGood' /\ CertsKept
<1> DEFINE t == certs[kind]
<1> PICK rec : rec = [common_name |-> cn, issuer_id |-> NoId, not_after |-> MaxTime]
  OBVIOUS
<1> DEFINE u == UpsertLeaf(t, id, rec)
<1>1. rec.common_name \in CommonName /\ rec.issuer_id = NoId /\ rec.not_after \in Nat
  BY SharesAssumption
<1>2. GoodLeaves(t, CertId, {}, CommonName) /\ id \notin DOMAIN t
  BY DEF CertsGood, IssueCertificate, Kind
<1>3. certs' = [certs EXCEPT ![kind] = u]
  BY DEF IssueCertificate
<1> HIDE DEF t
<1>4. GoodLeafInsert(t, u, id, rec, CertId, {}, CommonName)
  BY <1>1, <1>2, UpsertLeafGood, SharesAssumption
<1> HIDE DEF u
<1>5. GoodLeaves(u, CertId, {}, CommonName) /\ DOMAIN t \subseteq DOMAIN u
  BY <1>4 DEF GoodLeafInsert
<1>6. \A k \in Kind : certs'[k] = IF k = kind THEN u ELSE certs[k]
  BY <1>3 DEF CertsGood
<1>7. DOMAIN certs' = Kind
  BY <1>3 DEF CertsGood
<1>8. QED
  BY <1>5, <1>6, <1>7 DEF CertsGood, CertsKept, t

LEMMA RevokeCerts ==
  ASSUME CertsGood, NEW kind \in Kind, NEW id \in DOMAIN certs[kind],
         RevokeCertificate(kind, id)
  PROVE  CertsGood' /\ CertsKept
<1> DEFINE u == RevokeLeaf(certs[kind], id)
<1>1. certs' = [certs EXCEPT ![kind] = u]
  BY DEF RevokeCertificate
<1>2. GoodLeafUpdate(certs[kind], u, CertId, {}, CommonName)
  BY RevokeGood DEF CertsGood
<1> HIDE DEF u
<1>3. GoodLeaves(u, CertId, {}, CommonName) /\ DOMAIN u = DOMAIN certs[kind]
  BY <1>2 DEF GoodLeafUpdate, Demotes
<1>4. DOMAIN certs' = Kind /\ \A k \in Kind : certs'[k] = IF k = kind THEN u ELSE certs[k]
  BY <1>1 DEF CertsGood
<1>5. QED
  BY <1>3, <1>4 DEF CertsGood, CertsKept

\* A step of the certificates touches nothing that is counted.
LEMMA CertsStep ==
  ASSUME IInv, CertsGood', CertsKept, UNCHANGED <<shares, access, creation, answered>>,
         now' \in Nat, now' >= now
  PROVE  IInv' /\ SharesKept
<1>1. Typed'
  BY DEF IInv, Typed, AccessState
<1>2. SharedCertStored'
  <2>1. \A sh \in DOMAIN shares : shares[sh].cert_kind \in Kind
    BY DEF IInv, Typed, Share
  <2>2. QED
    BY <2>1 DEF IInv, SharedCertStored, CertsKept
<1>3. EveryAnswerCounted' /\ OvershootBounded'
  BY DEF IInv, EveryAnswerCounted, OvershootBounded, Holding
<1>4. SharesKept
  <2>1. \A sh \in DOMAIN shares : shares[sh].view_count \in Nat
    BY DEF IInv, Typed, Share
  <2>2. QED
    BY <2>1 DEF SharesKept, ShareKept
<1>5. QED
  BY <1>1, <1>2, <1>3, <1>4 DEF IInv

-----------------------------------------------------------------------------
(***************************************************************************)
(* Creating and revoking shares                                            *)
(***************************************************************************)

LEMMA NatSum == \A a, b \in Nat : a + b \in Nat
OBVIOUS

LEMMA CreateStep ==
  ASSUME IInv, NEW c \in Creator, NEW sh \in ShareId, NEW m \in MaxViews, NEW e \in ExpiresIn,
         CreateShare(c, sh, m, e)
  PROVE  IInv' /\ SharesKept
<1> DEFINE new == [ cert_kind |-> creation[c].kind, cert_id |-> creation[c].cert,
                    max_views |-> m, view_count |-> 0,
                    expires_at |-> now + e, revoked |-> FALSE ]
<1>1. /\ shares' = [s \in DOMAIN shares \cup {sh} |-> IF s = sh THEN new ELSE shares[s]]
      /\ answered' = [s \in DOMAIN answered \cup {sh} |-> IF s = sh THEN 0 ELSE answered[s]]
      /\ creation' = [creation EXCEPT ![c] = Idle]
      /\ sh \notin DOMAIN shares
      /\ creation[c].cert \in DOMAIN certs[creation[c].kind]
      /\ UNCHANGED <<certs, access, now>>
  BY DEF CreateShare
<1>2. creation[c].kind \in Kind /\ creation[c].cert \in CertId
  BY DEF CreateShare, IInv, Typed, CreationState, Idle
<1>3. now + e \in Nat /\ m \in Nat
  BY NatSum, SharesAssumption DEF IInv, Typed
<1>4. /\ new \in Share /\ new.view_count = 0 /\ new.max_views = m
      /\ new.cert_id \in DOMAIN certs[new.cert_kind]
  BY <1>1, <1>2, <1>3 DEF Share
<1> HIDE DEF new
<1>5. /\ DOMAIN shares' = DOMAIN shares \cup {sh}
      /\ shares'[sh] = new
      /\ \A s \in DOMAIN shares : shares'[s] = shares[s]
      /\ answered'[sh] = 0
      /\ \A s \in DOMAIN shares : answered'[s] = answered[s]
  BY <1>1 DEF IInv, Typed
<1>6. Typed'
  <2>1. shares' \in [DOMAIN shares' -> Share] /\ answered' \in [DOMAIN shares' -> Nat]
    BY <1>1, <1>4 DEF IInv, Typed
  <2>2. access' \in [Client -> AccessState']
    BY <1>1, <1>5 DEF IInv, Typed, AccessState
  <2>3. creation' \in [Creator -> CreationState]
    BY <1>1 DEF IInv, Typed, CreationState
  <2>4. QED
    BY <1>1, <1>5, <2>1, <2>2, <2>3 DEF IInv, Typed, CreationState
<1>7. SharedCertStored'
  BY <1>1, <1>4, <1>5 DEF IInv, SharedCertStored
<1>8. \A s, steps : Holding(s, steps)' = Holding(s, steps)
  BY <1>1 DEF Holding
<1>9. EveryAnswerCounted'
  <2>1. Holding(sh, {"counted"}) = 0
    BY <1>1, NewShareUnheld DEF IInv
  <2>2. QED
    BY <1>4, <1>5, <1>8, <2>1 DEF IInv, EveryAnswerCounted
<1>10. OvershootBounded'
  <2>1. Holding(sh, {"read", "loaded"}) = 0
    BY <1>1, NewShareUnheld DEF IInv
  <2>2. Cardinality(Client) \in Nat
    BY HoldingBound
  <2>3. QED
    BY <1>3, <1>4, <1>5, <1>8, <2>1, <2>2 DEF IInv, OvershootBounded
<1>11. SharesKept
  <2>1. \A s \in DOMAIN shares : shares[s].view_count \in Nat
    BY DEF IInv, Typed, Share
  <2>2. QED
    BY <1>1, <1>5, <2>1 DEF SharesKept, ShareKept, IInv, Typed
<1>12. QED
  BY <1>1, <1>6, <1>7, <1>9, <1>10, <1>11 DEF IInv, CertsGood

\* The other steps of share-cert.
LEMMA CreationStep ==
  ASSUME IInv, NEW c \in Creator,
         \/ \E kind \in Kind : \E id \in DOMAIN certs[kind] : ResolveShareTarget(c, kind, id)
         \/ AbortCreation(c)
  PROVE  IInv' /\ SharesKept
<1>1. UNCHANGED <<shares, certs, access, answered, now>>
  BY DEF ResolveShareTarget, AbortCreation
<1>2. creation' \in [Creator -> CreationState]
  <2>1. CASE AbortCreation(c)
    BY <2>1 DEF AbortCreation, IInv, Typed, CreationState
  <2>2. ASSUME NEW kind \in Kind, NEW id \in DOMAIN certs[kind], ResolveShareTarget(c, kind, id)
        PROVE  creation' \in [Creator -> CreationState]
    <3>1. id \in CertId
      BY DEF IInv, CertsGood, GoodLeaves, IsLeafTable
    <3>2. [step |-> "resolved", kind |-> kind, cert |-> id] \in CreationState
      BY <3>1 DEF CreationState
    <3>3. QED
      BY <2>2, <3>2 DEF ResolveShareTarget, IInv, Typed
  <2>3. QED
    BY <2>1, <2>2
<1>3. Typed'
  BY <1>1, <1>2 DEF IInv, Typed, AccessState, CreationState
<1>4. EveryAnswerCounted' /\ OvershootBounded' /\ SharedCertStored' /\ CertsGood'
  BY <1>1 DEF IInv, EveryAnswerCounted, OvershootBounded, Holding, SharedCertStored, CertsGood
<1>5. SharesKept
  <2>1. now \in Nat /\ \A sh \in DOMAIN shares : shares[sh].view_count \in Nat
    BY DEF IInv, Typed, Share
  <2>2. QED
    BY <1>1, <2>1 DEF SharesKept, ShareKept
<1>6. QED
  BY <1>3, <1>4, <1>5 DEF IInv

LEMMA RevokeShareStep ==
  ASSUME IInv, NEW r \in DOMAIN shares, RevokeShare(r)
  PROVE  IInv' /\ SharesKept
<1>1. shares' = [shares EXCEPT ![r].revoked = TRUE] /\ UNCHANGED <<certs, access, creation, answered, now>>
  BY DEF RevokeShare
<1>2. \A sh \in DOMAIN shares : shares[sh] \in Share
  BY DEF IInv, Typed
<1>3. /\ DOMAIN shares' = DOMAIN shares
      /\ \A sh \in DOMAIN shares :
           /\ shares'[sh] \in Share
           /\ ShareKept(shares[sh], shares'[sh])
           /\ shares'[sh].view_count = shares[sh].view_count
           /\ shares'[sh].max_views = shares[sh].max_views
           /\ shares'[sh].cert_kind = shares[sh].cert_kind
           /\ shares'[sh].cert_id = shares[sh].cert_id
  <2> DEFINE new == [shares[r] EXCEPT !.revoked = TRUE]
  <2>1. /\ DOMAIN shares' = DOMAIN shares
        /\ \A sh \in DOMAIN shares : shares'[sh] = IF sh = r THEN new ELSE shares[sh]
    BY <1>1
  <2>2. /\ new \in Share
        /\ new.view_count = shares[r].view_count
        /\ new.max_views = shares[r].max_views
        /\ new.cert_kind = shares[r].cert_kind
        /\ new.cert_id = shares[r].cert_id
        /\ new.expires_at = shares[r].expires_at
    BY <1>2 DEF Share
  <2>3. new.revoked
    BY <1>2 DEF Share
  <2> HIDE DEF new
  <2>4. \A sh \in DOMAIN shares : shares[sh].view_count >= shares[sh].view_count
    BY <1>2 DEF Share
  <2>5. \A sh \in DOMAIN shares : ShareKept(shares[sh], shares'[sh])
    BY <2>1, <2>2, <2>3, <2>4 DEF ShareKept
  <2>6. QED
    BY <1>2, <2>1, <2>2, <2>5
<1>4. Typed'
  <2>1. shares' = [sh \in DOMAIN shares |-> shares'[sh]]
    BY <1>1
  <2>2. shares' \in [DOMAIN shares' -> Share]
    BY <1>3, <2>1
  <2>3. QED
    BY <1>1, <1>3, <2>2 DEF IInv, Typed, AccessState, CreationState
<1>5. EveryAnswerCounted' /\ OvershootBounded' /\ SharedCertStored' /\ CertsGood'
  <2>1. \A sh, steps : Holding(sh, steps)' = Holding(sh, steps)
    BY <1>1 DEF Holding
  <2>2. EveryAnswerCounted'
    BY <1>1, <1>3, <2>1 DEF IInv, EveryAnswerCounted
  <2>3. OvershootBounded'
    BY <1>1, <1>3, <2>1 DEF IInv, OvershootBounded
  <2>4. SharedCertStored' /\ CertsGood'
    BY <1>1, <1>3 DEF IInv, SharedCertStored, CertsGood
  <2>5. QED
    BY <2>2, <2>3, <2>4
<1>6. SharesKept
  <2>1. now' >= now
    BY <1>1 DEF IInv, Typed
  <2>2. QED
    BY <1>3, <2>1 DEF SharesKept
<1>7. QED
  BY <1>4, <1>5, <1>6 DEF IInv

-----------------------------------------------------------------------------
(***************************************************************************)
(* Opening a share                                                         *)
(***************************************************************************)

LEMMA AccessFields ==
  ASSUME NEW x \in AccessState
  PROVE  \/ x = Idle /\ x.step = "idle"
         \/ /\ x \in [step : {"read", "loaded", "counted"}, share : DOMAIN shares,
                      kind : Kind, cert : CertId]
            /\ x.step \in {"read", "loaded", "counted"}
            /\ x.share \in DOMAIN shares
BY DEF AccessState, Idle

\* What is left to show when one access moves and no share is added.
LEMMA AccessStep ==
  ASSUME IInv, NEW c \in Client, NEW x \in AccessState, access' = [access EXCEPT ![c] = x],
         shares' \in [DOMAIN shares -> Share],
         answered' \in [DOMAIN shares -> Nat],
         \A sh \in DOMAIN shares : ShareKept(shares[sh], shares'[sh]),
         UNCHANGED <<certs, creation, now>>,
         EveryAnswerCounted', OvershootBounded'
  PROVE  IInv' /\ SharesKept
<1>1. DOMAIN shares' = DOMAIN shares
  OBVIOUS
<1>2. Typed'
  BY <1>1 DEF IInv, Typed, AccessState, CreationState
<1>3. SharedCertStored' /\ CertsGood'
  BY <1>1 DEF IInv, SharedCertStored, CertsGood, ShareKept
<1>4. SharesKept
  <2>1. now' >= now
    BY DEF IInv, Typed
  <2>2. QED
    BY <1>1, <2>1 DEF SharesKept
<1>5. QED
  BY <1>2, <1>3, <1>4 DEF IInv

LEMMA SameShares ==
  ASSUME IInv, shares' = shares
  PROVE  /\ shares' \in [DOMAIN shares -> Share]
         /\ \A sh \in DOMAIN shares : ShareKept(shares[sh], shares'[sh])
<1>1. \A sh \in DOMAIN shares : shares[sh].view_count \in Nat
  BY DEF IInv, Typed, Share
<1>2. QED
  BY <1>1 DEF IInv, Typed, ShareKept

\* A client is let in only before the limit is reached.
LEMMA GetShareStep ==
  ASSUME IInv, NEW c \in Client, NEW s \in DOMAIN shares, GetShareByToken(c, s)
  PROVE  IInv' /\ SharesKept /\ CommittedKept
<1> DEFINE x == [step |-> "read", share |-> s, kind |-> shares[s].cert_kind,
                 cert |-> shares[s].cert_id]
<1>1. /\ access[c] = Idle
      /\ ~IsClosed(shares[s])
      /\ access' = [access EXCEPT ![c] = x]
      /\ UNCHANGED <<shares, certs, creation, answered, now>>
  BY DEF GetShareByToken
<1>2. x \in AccessState /\ x.step = "read" /\ x.share = s
  BY DEF AccessState, IInv, Typed, Share
<1> HIDE DEF x
<1>3. access[c].step = "idle"
  BY <1>1 DEF Idle
<1>4. AccessMoves(c, x)
  BY <1>1, AccessMove DEF IInv
<1>5. \A sh : Holding(sh, {"counted"})' = Holding(sh, {"counted"})
  BY <1>2, <1>3, <1>4 DEF AccessMoves, Counts
<1>6. \A sh : sh # s => Holding(sh, {"read", "loaded"})' = Holding(sh, {"read", "loaded"})
  BY <1>2, <1>3, <1>4 DEF AccessMoves, Counts
<1>7. EveryAnswerCounted'
  BY <1>1, <1>5 DEF IInv, EveryAnswerCounted
<1>8. OvershootBounded'
  <2>1. \A sh \in DOMAIN shares : shares[sh].view_count \in Nat /\ shares[sh].max_views \in Nat
    BY DEF IInv, Typed, Share
  <2>2. shares[s].max_views # 0 => shares[s].view_count < shares[s].max_views
    BY <1>1, <2>1 DEF IsClosed, MaxViewsReached
  <2>3. /\ Holding(s, {"read", "loaded"})' <= Cardinality(Client)
        /\ Holding(s, {"read", "loaded"})' \in Nat
        /\ Cardinality(Client) \in Nat
    BY HoldingBound, HoldingBoundNext
  <2>4. shares[s].max_views # 0 =>
          shares[s].view_count + Holding(s, {"read", "loaded"})'
            < shares[s].max_views + Cardinality(Client)
    BY <2>1, <2>2, <2>3
  <2>5. QED
    BY <1>1, <1>6, <2>4 DEF IInv, OvershootBounded
<1>9. CommittedKept
  <2>1. \A sh \in DOMAIN shares : shares[sh].view_count \in Nat
    BY DEF IInv, Typed, Share
  <2>2. ASSUME NEW sh \in DOMAIN shares, IsClosed(shares[sh])
        PROVE  Committed(sh)' <= Committed(sh)
    <3>1. sh # s
      BY <1>1, <2>2
    <3>2. Holding(sh, {"read", "loaded"}) \in Nat
      BY HoldingBound
    <3>3. QED
      BY <1>1, <1>6, <2>1, <3>1, <3>2 DEF Committed
  <2>3. QED
    BY <2>2 DEF CommittedKept
<1>10. QED
  BY <1>1, <1>2, <1>7, <1>8, <1>9, AccessStep, SameShares DEF IInv, Typed

LEMMA LoadStep ==
  ASSUME IInv, NEW c \in Client, LoadCertificate(c)
  PROVE  IInv' /\ SharesKept /\ CommittedKept
<1> DEFINE x == [access[c] EXCEPT !.step = "loaded"]
<1>1. /\ access[c].step = "read"
      /\ access' = [access EXCEPT ![c] = x]
      /\ UNCHANGED <<shares, certs, creation, answered, now>>
  BY DEF LoadCertificate
<1>2. access[c] \in [step : {"read", "loaded", "counted"}, share : DOMAIN shares,
                     kind : Kind, cert : CertId]
  BY <1>1, AccessFields DEF IInv, Typed
<1>3. x \in AccessState /\ x.step = "loaded" /\ x.share = access[c].share
  BY <1>2 DEF AccessState
<1> HIDE DEF x
<1>4. AccessMoves(c, x)
  BY <1>1, AccessMove DEF IInv
<1>5. \A sh : /\ Holding(sh, {"counted"})' = Holding(sh, {"counted"})
              /\ Holding(sh, {"read", "loaded"})' = Holding(sh, {"read", "loaded"})
  BY <1>1, <1>3, <1>4 DEF AccessMoves, Counts
<1>6. EveryAnswerCounted' /\ OvershootBounded'
  BY <1>1, <1>5 DEF IInv, EveryAnswerCounted, OvershootBounded
<1>7. CommittedKept
  <2>1. \A sh \in DOMAIN shares : /\ shares[sh].view_count \in Nat
                                /\ Holding(sh, {"read", "loaded"}) \in Nat
    BY HoldingBound DEF IInv, Typed, Share
  <2>2. QED
    BY <1>1, <1>5, <2>1 DEF CommittedKept, Committed
<1>8. QED
  BY <1>1, <1>3, <1>6, <1>7, AccessStep, SameShares DEF IInv, Typed

\* The view is counted as its access passes from the readers to the writers.
LEMMA IncrementStep ==
  ASSUME IInv, NEW c \in Client, IncrementShareView(c)
  PROVE  IInv' /\ SharesKept /\ CommittedKept
<1> PICK s : s = access[c].share
  OBVIOUS
<1> DEFINE x == [access[c] EXCEPT !.step = "counted"]
<1>1. /\ access[c].step = "loaded"
      /\ access' = [access EXCEPT ![c] = x]
      /\ shares' = [shares EXCEPT ![s].view_count = @ + 1]
      /\ UNCHANGED <<certs, creation, answered, now>>
  BY DEF IncrementShareView
<1>2. access[c] \in [step : {"read", "loaded", "counted"}, share : DOMAIN shares,
                     kind : Kind, cert : CertId]
  BY <1>1, AccessFields DEF IInv, Typed
<1>3. x \in AccessState /\ x.step = "counted" /\ x.share = s
  BY <1>2 DEF AccessState
<1> HIDE DEF x
<1>4. AccessMoves(c, x)
  BY <1>1, AccessMove DEF IInv
<1>5. \A sh : sh # s => /\ Holding(sh, {"counted"})' = Holding(sh, {"counted"})
                        /\ Holding(sh, {"read", "loaded"})' = Holding(sh, {"read", "loaded"})
  BY <1>1, <1>3, <1>4 DEF AccessMoves, Counts
<1>6. /\ Holding(s, {"counted"})' = Holding(s, {"counted"}) + 1
      /\ Holding(s, {"read", "loaded"})' = Holding(s, {"read", "loaded"}) - 1
  BY <1>1, <1>3, <1>4 DEF AccessMoves, Counts
<1>7. s \in DOMAIN shares /\ \A sh \in DOMAIN shares : shares[sh] \in Share
  BY <1>2 DEF IInv, Typed
<1> DEFINE new == [shares[s] EXCEPT !.view_count = shares[s].view_count + 1]
<1>8. /\ DOMAIN shares' = DOMAIN shares
      /\ \A sh \in DOMAIN shares : shares'[sh] = IF sh = s THEN new ELSE shares[sh]
      /\ shares' = [sh \in DOMAIN shares |-> shares'[sh]]
  BY <1>1
<1>9. shares[s].view_count + 1 \in Nat /\ shares[s].view_count \in Nat /\ shares[s].max_views \in Nat
  BY <1>7 DEF Share
<1>10. /\ new \in Share
       /\ new.view_count = shares[s].view_count + 1
       /\ new.max_views = shares[s].max_views
       /\ new.cert_kind = shares[s].cert_kind
       /\ new.cert_id = shares[s].cert_id
       /\ new.expires_at = shares[s].expires_at
       /\ new.revoked = shares[s].revoked
  BY <1>7, <1>9 DEF Share
<1> HIDE DEF new
<1>11. shares' \in [DOMAIN shares -> Share]
  BY <1>7, <1>8, <1>10
<1>12. \A sh \in DOMAIN shares : ShareKept(shares[sh], shares'[sh])
  <2>1. ShareKept(shares[s], new)
    BY <1>9, <1>10 DEF ShareKept
  <2>2. \A sh \in DOMAIN shares : ShareKept(shares[sh], shares[sh])
    BY <1>7 DEF ShareKept, Share
  <2>3. QED
    BY <1>8, <2>1, <2>2
<1>13. EveryAnswerCounted'
  <2>1. answered[s] + Holding(s, {"counted"}) <= shares[s].view_count
    BY <1>7 DEF IInv, EveryAnswerCounted
  <2>2. answered[s] \in Nat
    BY <1>7 DEF IInv, Typed
  <2>3. answered[s] + Holding(s, {"counted"})' <= shares'[s].view_count
    BY <1>4, <1>6, <1>7, <1>8, <1>9, <1>10, <2>1, <2>2 DEF AccessMoves
  <2>4. QED
    BY <1>1, <1>5, <1>8, <2>3 DEF IInv, EveryAnswerCounted
<1>14. OvershootBounded'
  <2>1. shares[s].max_views # 0 =>
          shares[s].view_count + Holding(s, {"read", "loaded"})
            < shares[s].max_views + Cardinality(Client)
    BY <1>7 DEF IInv, OvershootBounded
  <2>2. shares'[s].max_views # 0 =>
          shares'[s].view_count + Holding(s, {"read", "loaded"})'
            < shares'[s].max_views + Cardinality(Client)
    BY <1>4, <1>6, <1>7, <1>8, <1>9, <1>10, <2>1 DEF AccessMoves
  <2>3. QED
    BY <1>5, <1>8, <2>2 DEF IInv, OvershootBounded
<1>15. CommittedKept
  <2>1. \A sh \in DOMAIN shares : /\ shares[sh].view_count \in Nat
                                /\ Holding(sh, {"read", "loaded"}) \in Nat
    BY <1>7, HoldingBound DEF Share
  <2>2. Committed(s)' <= Committed(s)
    BY <1>6, <1>7, <1>8, <1>10, <2>1 DEF Committed
  <2>3. \A sh \in DOMAIN shares : sh # s => Committed(sh)' <= Committed(sh)
    BY <1>5, <1>8, <2>1 DEF Committed
  <2>4. QED
    BY <2>2, <2>3 DEF CommittedKept
<1>16. QED
  BY <1>1, <1>3, <1>11, <1>12, <1>13, <1>14, <1>15, AccessStep DEF IInv, Typed

\* An access ends, with an answer or without.
LEMMA EndStep ==
  ASSUME IInv, NEW c \in Client, WriteAnswer(c) \/ AbortAccess(c)
  PROVE  IInv' /\ SharesKept /\ CommittedKept
<1>1. /\ access' = [access EXCEPT ![c] = Idle]
      /\ UNCHANGED <<shares, certs, creation, now>>
  BY DEF WriteAnswer, AbortAccess
<1>2. Idle \in AccessState /\ Idle.step = "idle"
  BY DEF AccessState, Idle
<1>3. AccessMoves(c, Idle)
  BY <1>1, AccessMove DEF IInv
<1>4. \A sh : Holding(sh, {"read", "loaded"})' <= Holding(sh, {"read", "loaded"})
  BY <1>2, <1>3 DEF AccessMoves, Counts
<1>5. \A sh : /\ Holding(sh, {"read", "loaded"})' \in Nat
              /\ Holding(sh, {"counted"})' \in Nat
              /\ Cardinality(Client) \in Nat
  BY HoldingBound, HoldingBoundNext
<1>6. \A sh \in DOMAIN shares :
        /\ shares[sh].view_count \in Nat
        /\ shares[sh].max_views \in Nat
        /\ answered[sh] \in Nat
  BY DEF IInv, Typed, Share
<1>7. OvershootBounded'
  <2> SUFFICES ASSUME NEW sh \in DOMAIN shares, shares[sh].max_views # 0
               PROVE  shares[sh].view_count + Holding(sh, {"read", "loaded"})'
                        < shares[sh].max_views + Cardinality(Client)
    BY <1>1 DEF OvershootBounded
  <2>1. shares[sh].view_count + Holding(sh, {"read", "loaded"})
          < shares[sh].max_views + Cardinality(Client)
    BY DEF IInv, OvershootBounded
  <2>2. QED
    BY <1>3, <1>4, <1>5, <1>6, <2>1 DEF AccessMoves
<1>8. EveryAnswerCounted' /\ answered' \in [DOMAIN shares -> Nat]
  <2>1. CASE AbortAccess(c)
    <3>1. \A sh : Holding(sh, {"counted"})' <= Holding(sh, {"counted"})
      BY <1>2, <1>3 DEF AccessMoves, Counts
    <3>2. answered' = answered
      BY <2>1 DEF AbortAccess
    <3>3. ASSUME NEW sh \in DOMAIN shares
          PROVE  answered[sh] + Holding(sh, {"counted"})' <= shares[sh].view_count
      <4>1. answered[sh] + Holding(sh, {"counted"}) <= shares[sh].view_count
        BY DEF IInv, EveryAnswerCounted
      <4>2. QED
        BY <1>3, <1>5, <1>6, <3>1, <4>1 DEF AccessMoves
    <3>4. QED
      BY <1>1, <3>2, <3>3 DEF EveryAnswerCounted, IInv, Typed
  <2>2. CASE WriteAnswer(c)
    <3> PICK s : s = access[c].share
      OBVIOUS
    <3>1. /\ access[c].step = "counted"
          /\ answered' = [answered EXCEPT ![s] = @ + 1]
      BY <2>2 DEF WriteAnswer
    <3>2. s \in DOMAIN shares
      BY <3>1, AccessFields DEF IInv, Typed
    <3>3. /\ Holding(s, {"counted"})' = Holding(s, {"counted"}) - 1
          /\ \A sh : sh # s => Holding(sh, {"counted"})' = Holding(sh, {"counted"})
      BY <1>2, <1>3, <3>1 DEF AccessMoves, Counts
    <3>4. /\ answered'[s] = answered[s] + 1
          /\ \A sh \in DOMAIN shares : sh # s => answered'[sh] = answered[sh]
          /\ answered' \in [DOMAIN shares -> Nat]
      BY <3>1, <3>2 DEF IInv, Typed
    <3>5. answered'[s] + Holding(s, {"counted"})' <= shares[s].view_count
      <4>1. answered[s] + Holding(s, {"counted"}) <= shares[s].view_count
        BY <3>2 DEF IInv, EveryAnswerCounted
      <4>2. QED
        BY <1>3, <1>6, <3>2, <3>3, <3>4, <4>1 DEF AccessMoves
    <3>6. QED
      BY <1>1, <3>3, <3>4, <3>5 DEF EveryAnswerCounted, IInv
  <2>3. QED
    BY <2>1, <2>2
<1>9. CommittedKept
  <2>1. \A sh \in DOMAIN shares :
          shares[sh].view_count + Holding(sh, {"read", "loaded"})'
            <= shares[sh].view_count + Holding(sh, {"read", "loaded"})
    <3>1. \A sh : Holding(sh, {"read", "loaded"}) \in Nat
      BY HoldingBound
    <3>2. QED
      BY <1>4, <1>5, <1>6, <3>1
  <2>2. QED
    BY <1>1, <2>1 DEF CommittedKept, Committed
<1>10. QED
  BY <1>1, <1>2, <1>7, <1>8, <1>9, AccessStep, SameShares

-----------------------------------------------------------------------------

LEMMA InitIInv == Init => IInv
<1> SUFFICES ASSUME Init PROVE IInv
  OBVIOUS
<1>1. Typed
  BY DEF Init, Typed, AccessState, CreationState, EmptyTable
<1>2. CertsGood
  BY EmptyLeavesGood DEF Init, CertsGood
<1>3. SharedCertStored /\ EveryAnswerCounted /\ OvershootBounded
  BY DEF Init, EmptyTable, SharedCertStored, EveryAnswerCounted, OvershootBounded
<1>4. QED
  BY <1>1, <1>2, <1>3 DEF IInv

LEMMA NextIInv == IInv /\ [Next]_vars => IInv' /\ SharesKept
<1> SUFFICES ASSUME IInv, [Next]_vars PROVE IInv' /\ SharesKept
  OBVIOUS
<1>1. now \in Nat /\ now + 1 \in Nat /\ now >= now /\ now + 1 >= now
  BY DEF IInv, Typed
<1>2. CASE Tick \/ UNCHANGED vars
  <2>1. CertsGood' /\ CertsKept
    BY <1>2 DEF Tick, vars, IInv, CertsGood, CertsKept
  <2>2. QED
    BY <1>1, <1>2, <2>1, CertsStep DEF Tick, vars
<1>3. ASSUME NEW kind \in Kind, NEW id \in CertId, NEW cn \in CommonName,
             IssueCertificate(kind, id, cn)
      PROVE  IInv' /\ SharesKept
  <2>1. CertsGood' /\ CertsKept
    BY <1>3, IssueCerts DEF IInv
  <2>2. QED
    BY <1>1, <1>3, <2>1, CertsStep DEF IssueCertificate
<1>4. ASSUME NEW kind \in Kind, NEW id \in DOMAIN certs[kind], RevokeCertificate(kind, id)
      PROVE  IInv' /\ SharesKept
  <2>1. CertsGood' /\ CertsKept
    BY <1>4, RevokeCerts DEF IInv
  <2>2. QED
    BY <1>1, <1>4, <2>1, CertsStep DEF RevokeCertificate
<1>5. ASSUME NEW c \in Creator, NEW sh \in ShareId, NEW m \in MaxViews, NEW e \in ExpiresIn,
             CreateShare(c, sh, m, e)
      PROVE  IInv' /\ SharesKept
  BY <1>5, CreateStep
<1>6. QED
  BY <1>2, <1>3, <1>4, <1>5, CreationStep, RevokeShareStep, GetShareStep, LoadStep, IncrementStep,
     EndStep DEF Next

\* The steps that open no share leave what is committed alone.
LEMMA NextCommitted == IInv /\ [Next]_vars => CommittedKept
<1> SUFFICES ASSUME IInv, [Next]_vars PROVE CommittedKept
  OBVIOUS
<1>1. CASE /\ access' = access
           /\ \A sh \in DOMAIN shares : shares'[sh].view_count = shares[sh].view_count
  <2>1. \A sh \in DOMAIN shares : /\ shares[sh].view_count \in Nat
                                /\ Holding(sh, {"read", "loaded"}) \in Nat
    BY HoldingBound DEF IInv, Typed, Share
  <2>2. \A sh : Holding(sh, {"read", "loaded"})' = Holding(sh, {"read", "loaded"})
    BY <1>1 DEF Holding
  <2>3. QED
    BY <1>1, <2>1, <2>2 DEF CommittedKept, Committed
<1>2. ASSUME NEW c \in Creator, NEW sh \in ShareId, NEW m, NEW e, CreateShare(c, sh, m, e)
      PROVE  /\ access' = access
             /\ \A s \in DOMAIN shares : shares'[s].view_count = shares[s].view_count
  BY <1>2 DEF CreateShare
<1>3. ASSUME NEW r \in DOMAIN shares, RevokeShare(r)
      PROVE  /\ access' = access
             /\ \A s \in DOMAIN shares : shares'[s].view_count = shares[s].view_count
  <2>1. shares[r] \in Share
    BY DEF IInv, Typed
  <2>2. QED
    BY <1>3, <2>1 DEF RevokeShare, Share
<1>4. \/ UNCHANGED <<shares, access>>
      \/ \E c \in Creator : \E sh \in ShareId, m \in MaxViews, e \in ExpiresIn :
           CreateShare(c, sh, m, e)
      \/ \E sh \in DOMAIN shares : RevokeShare(sh)
      \/ \E c \in Client :
           \/ \E sh \in DOMAIN shares : GetShareByToken(c, sh)
           \/ LoadCertificate(c)
           \/ IncrementShareView(c)
           \/ WriteAnswer(c)
           \/ AbortAccess(c)
  BY DEF Next, vars, Tick, IssueCertificate, RevokeCertificate, ResolveShareTarget, AbortCreation
<1>5. QED
  BY <1>1, <1>2, <1>3, <1>4, GetShareStep, LoadStep, IncrementStep, EndStep

-----------------------------------------------------------------------------
(***************************************************************************)
(* What a share link promises                                              *)
(***************************************************************************)

Inside == {"read", "loaded"}

StateOf(share) == IF IsRevoked(share) \/ IsExpired(share) THEN "closed" ELSE "open"

LinkTable == [sh \in DOMAIN shares |-> LinkOf(sh)]

LEMMA LinkFields ==
  ASSUME NEW sh
  PROVE  /\ LinkOf(sh).limit = shares[sh].max_views
         /\ LinkOf(sh).state = StateOf(shares[sh])
         /\ LinkOf(sh).inside = Holding(sh, Inside)
         /\ LinkOf(sh).views = shares[sh].view_count
         /\ LinkOf(sh).served = answered[sh]
BY DEF LinkOf, StateOf, Inside

\* A share that a step leaves alone is a link that it leaves alone.
LEMMA LinkKept ==
  ASSUME NEW sh, shares'[sh] = shares[sh], answered'[sh] = answered[sh], now' = now,
         Holding(sh, Inside)' = Holding(sh, Inside)
  PROVE  LinkOf(sh)' = LinkOf(sh)
BY DEF LinkOf, IsRevoked, IsExpired, Inside

\* One link changes.
LEMMA OneLink ==
  ASSUME NEW s \in DOMAIN shares, DOMAIN shares' = DOMAIN shares,
         \A sh \in DOMAIN shares \ {s} : LinkOf(sh)' = LinkOf(sh)
  PROVE  LinkTable' = [LinkTable EXCEPT ![s] = LinkOf(s)']
BY DEF LinkTable

\* The record of a link, from the record of its share.
LEMMA LinkIs ==
  ASSUME NEW sh
  PROVE  LinkOf(sh) = [ limit |-> shares[sh].max_views, state |-> StateOf(shares[sh]),
                        inside |-> Holding(sh, Inside), views |-> shares[sh].view_count,
                        served |-> answered[sh] ]
BY DEF LinkOf, StateOf, Inside

LEMMA LinkIsNext ==
  ASSUME NEW sh
  PROVE  LinkOf(sh)' = [ limit |-> shares'[sh].max_views, state |-> StateOf(shares[sh])',
                         inside |-> Holding(sh, Inside)', views |-> shares'[sh].view_count,
                         served |-> answered'[sh] ]
BY DEF LinkOf, StateOf, Inside

\* A step that opens nothing and lets nobody in or out closes some links: those
\* that are closed after it.
LEMMA LinksClose ==
  ASSUME IInv, IInv', SharesKept, DOMAIN shares' = DOMAIN shares, UNCHANGED <<access, answered>>,
         \A sh \in DOMAIN shares : shares'[sh].view_count = shares[sh].view_count
  PROVE  \E S \in SUBSET DOMAIN shares : Link!Close(S)
<1> DEFINE S == {sh \in DOMAIN shares : StateOf(shares[sh])' = "closed"}
<1>1. ASSUME NEW sh \in DOMAIN shares
      PROVE  LinkOf(sh)' = IF sh \in S THEN Link!Closed(LinkOf(sh)) ELSE LinkOf(sh)
  <2>1. /\ shares'[sh].max_views = shares[sh].max_views
        /\ shares'[sh].expires_at = shares[sh].expires_at
        /\ shares[sh].revoked => shares'[sh].revoked
        /\ shares[sh].expires_at \in Nat /\ now \in Nat /\ now' \in Nat /\ now' >= now
    BY DEF SharesKept, ShareKept, IInv, Typed, Share
  <2>2. StateOf(shares[sh]) = "closed" => StateOf(shares[sh])' = "closed"
    BY <2>1 DEF StateOf, IsRevoked, IsExpired
  <2>3. Holding(sh, Inside)' = Holding(sh, Inside)
    BY DEF Holding
  <2>4. CASE sh \in S
    <3> PICK a, o, i, v, d :
          /\ a = shares[sh].max_views /\ o = StateOf(shares[sh]) /\ i = Holding(sh, Inside)
          /\ v = shares[sh].view_count /\ d = answered[sh]
      OBVIOUS
    <3> PICK l : l = [limit |-> a, state |-> o, inside |-> i, views |-> v, served |-> d]
      OBVIOUS
    <3>1. LinkOf(sh) = l
      BY LinkIs
    <3>2. LinkOf(sh)' = [limit |-> a, state |-> "closed", inside |-> i, views |-> v, served |-> d]
      BY <2>1, <2>3, <2>4, LinkIsNext
    <3>3. Link!Closed(l)
            = [limit |-> a, state |-> "closed", inside |-> i, views |-> v, served |-> d]
      BY DEF Link!Closed
    <3>4. QED
      BY <2>4, <3>1, <3>2, <3>3
  <2>5. CASE sh \notin S
    <3>1. StateOf(shares[sh])' = StateOf(shares[sh])
      BY <2>2, <2>5 DEF StateOf
    <3>2. QED
      BY <2>1, <2>3, <2>5, <3>1, LinkIs, LinkIsNext
  <2>6. QED
    BY <2>4, <2>5
<1>2. S \in SUBSET DOMAIN shares
  OBVIOUS
<1> HIDE DEF S
<1>3. Link!Close(S)
  BY <1>1 DEF Link!Close
<1>4. QED
  BY <1>2, <1>3

\* One access moves, and with it one link.
LEMMA OneLinkMoves ==
  ASSUME IInv, NEW s \in DOMAIN shares, DOMAIN shares' = DOMAIN shares, now' = now,
         \A sh \in DOMAIN shares \ {s} :
           /\ shares'[sh] = shares[sh]
           /\ answered'[sh] = answered[sh]
           /\ Holding(sh, Inside)' = Holding(sh, Inside),
         NEW l, LinkOf(s)' = l
  PROVE  LinkTable' = [LinkTable EXCEPT ![s] = l]
BY LinkKept, OneLink

LEMMA CreateCreates ==
  ASSUME IInv, NEW c \in Creator, NEW sh \in ShareId, NEW m \in MaxViews, NEW e \in ExpiresIn,
         CreateShare(c, sh, m, e)
  PROVE  Link!Create(sh, m)
<1> DEFINE new == [limit |-> m, state |-> "open", inside |-> 0, views |-> 0, served |-> 0]
<1>1. /\ sh \notin DOMAIN shares
      /\ DOMAIN shares' = DOMAIN shares \cup {sh}
      /\ \A s \in DOMAIN shares : shares'[s] = shares[s] /\ answered'[s] = answered[s]
      /\ shares'[sh].max_views = m
      /\ shares'[sh].view_count = 0
      /\ shares'[sh].expires_at = now + e
      /\ shares'[sh].revoked = FALSE
      /\ answered'[sh] = 0
      /\ UNCHANGED <<access, now>>
  BY DEF CreateShare, IInv, Typed
<1>2. \A s : Holding(s, Inside)' = Holding(s, Inside)
  BY <1>1 DEF Holding
<1>3. Holding(sh, Inside)' = 0
  BY <1>1, <1>2, NewShareUnheld DEF IInv, Inside
<1>4. StateOf(shares[sh])' = "open"
  <2>1. now \in Nat /\ e \in Nat
    BY SharesAssumption DEF IInv, Typed
  <2>2. QED
    BY <1>1, <2>1 DEF StateOf, IsRevoked, IsExpired
<1>5. LinkOf(sh)' = new
  BY <1>1, <1>3, <1>4, LinkIsNext
<1>6. \A s \in DOMAIN shares : LinkOf(s)' = LinkOf(s)
  BY <1>1, <1>2, LinkKept
<1> HIDE DEF new
<1>7. LinkTable' = [s \in DOMAIN LinkTable \cup {sh} |->
                      IF s = sh THEN new ELSE LinkTable[s]]
  BY <1>1, <1>5, <1>6 DEF LinkTable
<1>8. QED
  BY <1>1, <1>7 DEF Link!Create, LinkTable, new

\* Reading the share is entering.
LEMMA GetEnters ==
  ASSUME IInv, NEW c \in Client, NEW s \in DOMAIN shares, GetShareByToken(c, s)
  PROVE  Link!Enter(s)
<1> DEFINE x == [step |-> "read", share |-> s, kind |-> shares[s].cert_kind,
                 cert |-> shares[s].cert_id]
<1>1. /\ access[c] = Idle
      /\ ~IsClosed(shares[s])
      /\ access' = [access EXCEPT ![c] = x]
      /\ UNCHANGED <<shares, certs, creation, answered, now>>
  BY DEF GetShareByToken
<1>2. x.step = "read" /\ x.share = s
  OBVIOUS
<1> HIDE DEF x
<1>3. access[c].step = "idle"
  BY <1>1 DEF Idle
<1>4. AccessMoves(c, x)
  BY <1>1, AccessMove DEF IInv
<1>5. /\ \A sh : sh # s => Holding(sh, Inside)' = Holding(sh, Inside)
      /\ Holding(s, Inside)' = Holding(s, Inside) + 1
  BY <1>2, <1>3, <1>4 DEF AccessMoves, Counts, Inside
<1>6. StateOf(shares[s]) = "open" /\ StateOf(shares[s])' = "open"
  BY <1>1 DEF StateOf, IsClosed, IsRevoked, IsExpired
<1>7. LinkOf(s)' = Link!Entered(LinkOf(s))
  <2> PICK a, i, v, d :
        /\ a = shares[s].max_views /\ i = Holding(s, Inside)
        /\ v = shares[s].view_count /\ d = answered[s]
    OBVIOUS
  <2> PICK l : l = [limit |-> a, state |-> "open", inside |-> i, views |-> v, served |-> d]
    OBVIOUS
  <2>1. LinkOf(s) = l
    BY <1>6, LinkIs
  <2>2. LinkOf(s)' = [limit |-> a, state |-> "open", inside |-> i + 1, views |-> v, served |-> d]
    BY <1>1, <1>5, <1>6, LinkIsNext
  <2>3. Link!Entered(l)
          = [limit |-> a, state |-> "open", inside |-> i + 1, views |-> v, served |-> d]
    BY DEF Link!Entered
  <2>4. QED
    BY <2>1, <2>2, <2>3
<1>8. LinkTable' = [LinkTable EXCEPT ![s] = Link!Entered(LinkOf(s))]
  BY <1>1, <1>5, <1>7, OneLinkMoves
<1>9. LinkOf(s).inside < Cardinality(Client)
  <2>1. /\ Holding(s, Inside)' \in Nat /\ Holding(s, Inside)' <= Cardinality(Client)
        /\ Holding(s, Inside) \in Nat /\ Cardinality(Client) \in Nat
    BY HoldingBound, HoldingBoundNext
  <2>2. QED
    BY <1>5, <2>1, LinkFields
<1>10. LinkOf(s).state = "open" /\ ~Link!UsedUp(LinkOf(s))
  BY <1>1, <1>6, LinkFields DEF Link!UsedUp, IsClosed, MaxViewsReached
<1>11. QED
  BY <1>8, <1>9, <1>10 DEF Link!Enter, LinkTable

\* Loading the certificate is nothing that shows.
LEMMA LoadShowsNothing ==
  ASSUME IInv, NEW c \in Client, LoadCertificate(c)
  PROVE  UNCHANGED LinkTable
<1> DEFINE x == [access[c] EXCEPT !.step = "loaded"]
<1>1. /\ access[c].step = "read"
      /\ access' = [access EXCEPT ![c] = x]
      /\ UNCHANGED <<shares, certs, creation, answered, now>>
  BY DEF LoadCertificate
<1>2. access[c] \in [step : {"read", "loaded", "counted"}, share : DOMAIN shares,
                     kind : Kind, cert : CertId]
  BY <1>1, AccessFields DEF IInv, Typed
<1>3. x.step = "loaded" /\ x.share = access[c].share
  BY <1>2
<1> HIDE DEF x
<1>4. AccessMoves(c, x)
  BY <1>1, AccessMove DEF IInv
<1>5. \A sh : Holding(sh, Inside)' = Holding(sh, Inside)
  BY <1>1, <1>3, <1>4 DEF AccessMoves, Counts, Inside
<1>6. \A sh \in DOMAIN shares : LinkOf(sh)' = LinkOf(sh)
  BY <1>1, <1>5, LinkKept
<1>7. QED
  BY <1>1, <1>6 DEF LinkTable

\* Counting the view is what lets a visitor out.
LEMMA IncrementViews ==
  ASSUME IInv, NEW c \in Client, IncrementShareView(c)
  PROVE  \E s \in DOMAIN shares : Link!View(s)
<1> PICK s : s = access[c].share
  OBVIOUS
<1> DEFINE x == [access[c] EXCEPT !.step = "counted"]
<1>1. /\ access[c].step = "loaded"
      /\ access' = [access EXCEPT ![c] = x]
      /\ shares' = [shares EXCEPT ![s].view_count = @ + 1]
      /\ UNCHANGED <<certs, creation, answered, now>>
  BY DEF IncrementShareView
<1>2. access[c] \in [step : {"read", "loaded", "counted"}, share : DOMAIN shares,
                     kind : Kind, cert : CertId]
  BY <1>1, AccessFields DEF IInv, Typed
<1>3. x.step = "counted" /\ x.share = s
  BY <1>2
<1> HIDE DEF x
<1>4. AccessMoves(c, x)
  BY <1>1, AccessMove DEF IInv
<1>5. /\ \A sh : sh # s => Holding(sh, Inside)' = Holding(sh, Inside)
      /\ Holding(s, Inside)' = Holding(s, Inside) - 1
      /\ Holding(s, Inside) \in Nat /\ Holding(s, Inside)' \in Nat
  <2>1. Holding(s, Inside) \in Nat /\ Holding(s, Inside)' \in Nat
    BY HoldingBound, HoldingBoundNext
  <2>2. QED
    BY <1>1, <1>3, <1>4, <2>1 DEF AccessMoves, Counts, Inside
<1>6. s \in DOMAIN shares /\ shares[s] \in Share
  BY <1>2 DEF IInv, Typed
<1> DEFINE new == [shares[s] EXCEPT !.view_count = shares[s].view_count + 1]
<1>7. /\ DOMAIN shares' = DOMAIN shares
      /\ \A sh \in DOMAIN shares : shares'[sh] = IF sh = s THEN new ELSE shares[sh]
  BY <1>1
<1>8. /\ new.view_count = shares[s].view_count + 1
      /\ new.max_views = shares[s].max_views
      /\ new.expires_at = shares[s].expires_at
      /\ new.revoked = shares[s].revoked
  BY <1>6 DEF Share
<1> HIDE DEF new
<1>9. StateOf(shares[s])' = StateOf(shares[s])
  BY <1>1, <1>6, <1>7, <1>8 DEF StateOf, IsRevoked, IsExpired
<1>10. LinkOf(s)' = Link!Viewed(LinkOf(s))
  <2> PICK a, o, i, v, d :
        /\ a = shares[s].max_views /\ o = StateOf(shares[s]) /\ i = Holding(s, Inside)
        /\ v = shares[s].view_count /\ d = answered[s]
    OBVIOUS
  <2> PICK l : l = [limit |-> a, state |-> o, inside |-> i, views |-> v, served |-> d]
    OBVIOUS
  <2>1. LinkOf(s) = l
    BY LinkIs
  <2>2. LinkOf(s)'
          = [limit |-> a, state |-> o, inside |-> i - 1, views |-> v + 1, served |-> d]
    BY <1>1, <1>5, <1>6, <1>7, <1>8, <1>9, LinkIsNext
  <2>3. Link!Left(l) = [limit |-> a, state |-> o, inside |-> i - 1, views |-> v, served |-> d]
    BY DEF Link!Left
  <2>4. Link!Viewed(l)
          = [limit |-> a, state |-> o, inside |-> i - 1, views |-> v + 1, served |-> d]
    BY <2>3 DEF Link!Viewed
  <2>5. QED
    BY <2>1, <2>2, <2>4
<1>11. LinkTable' = [LinkTable EXCEPT ![s] = Link!Viewed(LinkOf(s))]
  BY <1>1, <1>5, <1>6, <1>7, <1>10, OneLinkMoves
<1>12. LinkOf(s).inside > 0
  BY <1>5, LinkFields
<1>13. Link!View(s)
  BY <1>6, <1>11, <1>12 DEF Link!View, LinkTable
<1>14. QED
  BY <1>6, <1>13

\* The answer is written for a view that is counted and not yet answered.
LEMMA WriteServes ==
  ASSUME IInv, NEW c \in Client, WriteAnswer(c)
  PROVE  \E s \in DOMAIN shares : Link!Serve(s)
<1> PICK s : s = access[c].share
  OBVIOUS
<1>1. /\ access[c].step = "counted"
      /\ access' = [access EXCEPT ![c] = Idle]
      /\ answered' = [answered EXCEPT ![s] = @ + 1]
      /\ UNCHANGED <<shares, certs, creation, now>>
  BY DEF WriteAnswer
<1>2. s \in DOMAIN shares
  BY <1>1, AccessFields DEF IInv, Typed
<1>3. AccessMoves(c, Idle) /\ Idle.step = "idle"
  BY <1>1, AccessMove DEF IInv, Idle
<1>4. /\ \A sh : Holding(sh, Inside)' = Holding(sh, Inside)
      /\ Holding(s, {"counted"})' = Holding(s, {"counted"}) - 1
  BY <1>1, <1>3 DEF AccessMoves, Counts, Inside
<1>5. /\ answered[s] \in Nat
      /\ answered'[s] = answered[s] + 1
      /\ \A sh \in DOMAIN shares : sh # s => answered'[sh] = answered[sh]
  BY <1>1, <1>2 DEF IInv, Typed
<1>6. StateOf(shares[s])' = StateOf(shares[s])
  BY <1>1 DEF StateOf, IsRevoked, IsExpired
<1>7. LinkOf(s)' = Link!Served(LinkOf(s))
  <2> PICK a, o, i, v, d :
        /\ a = shares[s].max_views /\ o = StateOf(shares[s]) /\ i = Holding(s, Inside)
        /\ v = shares[s].view_count /\ d = answered[s]
    OBVIOUS
  <2> PICK l : l = [limit |-> a, state |-> o, inside |-> i, views |-> v, served |-> d]
    OBVIOUS
  <2>1. LinkOf(s) = l
    BY LinkIs
  <2>2. LinkOf(s)' = [limit |-> a, state |-> o, inside |-> i, views |-> v, served |-> d + 1]
    BY <1>1, <1>4, <1>5, <1>6, LinkIsNext
  <2>3. Link!Served(l) = [limit |-> a, state |-> o, inside |-> i, views |-> v, served |-> d + 1]
    BY DEF Link!Served
  <2>4. QED
    BY <2>1, <2>2, <2>3
<1>8. LinkTable' = [LinkTable EXCEPT ![s] = Link!Served(LinkOf(s))]
  BY <1>1, <1>2, <1>4, <1>5, <1>7, OneLinkMoves
<1>9. LinkOf(s).served < LinkOf(s).views
  <2>1. answered[s] + Holding(s, {"counted"}) <= shares[s].view_count
    BY <1>2 DEF IInv, EveryAnswerCounted
  <2>2. Holding(s, {"counted"})' \in Nat /\ Holding(s, {"counted"}) \in Nat
    BY HoldingBound, HoldingBoundNext
  <2>3. shares[s].view_count \in Nat
    BY <1>2 DEF IInv, Typed, Share
  <2>4. answered[s] < shares[s].view_count
    BY <1>4, <1>5, <2>1, <2>2, <2>3
  <2>5. QED
    BY <2>4, LinkFields
<1>10. Link!Serve(s)
  BY <1>2, <1>8, <1>9 DEF Link!Serve, LinkTable
<1>11. QED
  BY <1>2, <1>10

\* A visitor that gives up leaves, unless it was counted before.
LEMMA AbortLeaves ==
  ASSUME IInv, NEW c \in Client, AbortAccess(c)
  PROVE  (\E s \in DOMAIN shares : Link!Leave(s)) \/ UNCHANGED LinkTable
<1> PICK s : s = access[c].share
  OBVIOUS
<1>1. /\ access[c] # Idle
      /\ access' = [access EXCEPT ![c] = Idle]
      /\ UNCHANGED <<shares, certs, creation, answered, now>>
  BY DEF AbortAccess
<1>2. s \in DOMAIN shares /\ access[c].step \in {"read", "loaded", "counted"}
  BY <1>1, AccessFields DEF IInv, Typed
<1>3. AccessMoves(c, Idle) /\ Idle.step = "idle"
  BY <1>1, AccessMove DEF IInv, Idle
<1>4. StateOf(shares[s])' = StateOf(shares[s])
  BY <1>1 DEF StateOf, IsRevoked, IsExpired
<1>5. CASE access[c].step = "counted"
  <2>1. \A sh : Holding(sh, Inside)' = Holding(sh, Inside)
    BY <1>3, <1>5 DEF AccessMoves, Counts, Inside
  <2>2. \A sh \in DOMAIN shares : LinkOf(sh)' = LinkOf(sh)
    BY <1>1, <2>1, LinkKept
  <2>3. QED
    BY <1>1, <2>2 DEF LinkTable
<1>6. CASE access[c].step \in {"read", "loaded"}
  <2>1. /\ \A sh : sh # s => Holding(sh, Inside)' = Holding(sh, Inside)
        /\ Holding(s, Inside)' = Holding(s, Inside) - 1
    BY <1>3, <1>6 DEF AccessMoves, Counts, Inside
  <2>2. Holding(s, Inside) \in Nat /\ Holding(s, Inside)' \in Nat
    BY HoldingBound, HoldingBoundNext
  <2>3. LinkOf(s)' = Link!Left(LinkOf(s))
    <3> PICK a, o, i, v, d :
          /\ a = shares[s].max_views /\ o = StateOf(shares[s]) /\ i = Holding(s, Inside)
          /\ v = shares[s].view_count /\ d = answered[s]
      OBVIOUS
    <3> PICK l : l = [limit |-> a, state |-> o, inside |-> i, views |-> v, served |-> d]
      OBVIOUS
    <3>1. LinkOf(s) = l
      BY LinkIs
    <3>2. LinkOf(s)' = [limit |-> a, state |-> o, inside |-> i - 1, views |-> v, served |-> d]
      BY <1>1, <1>4, <2>1, LinkIsNext
    <3>3. Link!Left(l) = [limit |-> a, state |-> o, inside |-> i - 1, views |-> v, served |-> d]
      BY DEF Link!Left
    <3>4. QED
      BY <3>1, <3>2, <3>3
  <2>4. LinkTable' = [LinkTable EXCEPT ![s] = Link!Left(LinkOf(s))]
    BY <1>1, <1>2, <2>1, <2>3, OneLinkMoves
  <2>5. LinkOf(s).inside > 0
    BY <2>1, <2>2, LinkFields
  <2>6. Link!Leave(s)
    BY <1>2, <2>4, <2>5 DEF Link!Leave, LinkTable
  <2>7. QED
    BY <1>2, <2>6
<1>7. QED
  BY <1>2, <1>5, <1>6

LEMMA NextShareLink ==
  ASSUME IInv, IInv', SharesKept, [Next]_vars
  PROVE  [Link!Next]_LinkTable
<1> USE DEF LinkTable
<1>1. CASE /\ DOMAIN shares' = DOMAIN shares
           /\ UNCHANGED <<access, answered>>
           /\ \A sh \in DOMAIN shares : shares'[sh].view_count = shares[sh].view_count
  BY <1>1, LinksClose DEF Link!Next
<1>2. ASSUME NEW c \in Creator, NEW sh \in ShareId, NEW m \in MaxViews, NEW e \in ExpiresIn,
             CreateShare(c, sh, m, e)
      PROVE  Link!Next
  BY <1>2, CreateCreates DEF Link!Next
<1>3. ASSUME NEW c \in Client, NEW s \in DOMAIN shares, GetShareByToken(c, s)
      PROVE  Link!Next
  BY <1>3, GetEnters DEF Link!Next
<1>4. ASSUME NEW c \in Client, IncrementShareView(c) \/ WriteAnswer(c)
      PROVE  Link!Next
  BY <1>4, IncrementViews, WriteServes DEF Link!Next
<1>5. ASSUME NEW c \in Client, LoadCertificate(c) \/ AbortAccess(c)
      PROVE  Link!Next \/ UNCHANGED LinkTable
  BY <1>5, LoadShowsNothing, AbortLeaves DEF Link!Next
<1>6. ASSUME NEW r \in DOMAIN shares, RevokeShare(r)
      PROVE  /\ DOMAIN shares' = DOMAIN shares
             /\ UNCHANGED <<access, answered>>
             /\ \A s \in DOMAIN shares : shares'[s].view_count = shares[s].view_count
  <2>1. shares[r] \in Share
    BY DEF IInv, Typed
  <2>2. QED
    BY <1>6, <2>1 DEF RevokeShare, Share
<1>7. \/ UNCHANGED <<shares, access, answered>>
      \/ \E c \in Creator : \E sh \in ShareId, m \in MaxViews, e \in ExpiresIn :
           CreateShare(c, sh, m, e)
      \/ \E sh \in DOMAIN shares : RevokeShare(sh)
      \/ \E c \in Client :
           \/ \E sh \in DOMAIN shares : GetShareByToken(c, sh)
           \/ LoadCertificate(c)
           \/ IncrementShareView(c)
           \/ WriteAnswer(c)
           \/ AbortAccess(c)
  BY DEF Next, vars, Tick, IssueCertificate, RevokeCertificate, ResolveShareTarget, AbortCreation
<1>8. QED
  BY <1>1, <1>2, <1>3, <1>4, <1>5, <1>6, <1>7

-----------------------------------------------------------------------------
(***************************************************************************)
(* The theorems                                                            *)
(***************************************************************************)

\* The inductive invariant holds in every reachable state.
THEOREM SpecIInv == Spec => []IInv
BY InitIInv, NextIInv, PTL DEF Spec

\* The shares, the accesses and the share-cert commands keep their types, and an
\* access or a command refers only to what exists.
THEOREM SpecTypeOK == Spec => []TypeOK
<1>1. IInv => TypeOK
  BY DEF IInv, Typed, AccessState, CreationState, CertsGood, GoodLeaves, TypeOK
<1>2. QED
  BY <1>1, SpecIInv, PTL

\* Whatever becomes of a certificate between the two calls of share-cert or after
\* them, the one a share names stays stored.
THEOREM SpecSharedCertStored == Spec => []SharedCertStored
<1>1. IInv => SharedCertStored
  BY DEF IInv
<1>2. QED
  BY <1>1, SpecIInv, PTL

\* No answer with a certificate is given that view_count does not count, whatever
\* number of accesses to the share run at once (IncrementShareView).
THEOREM SpecEveryAnswerCounted == Spec => []EveryAnswerCounted
<1>1. IInv => EveryAnswerCounted
  BY DEF IInv
<1>2. QED
  BY <1>1, SpecIInv, PTL

\* For every limit and every number of clients, a share is opened past its limit
\* less often than there are clients.
THEOREM SpecOvershootBounded == Spec => []OvershootBounded
<1>1. IInv => OvershootBounded
  BY DEF IInv
<1>2. QED
  BY <1>1, SpecIInv, PTL

\* The three codes that decide whether a share is open contradict each other only
\* in the moment it expires, for every --warn-days.
THEOREM SpecReportsMatchAccess == Spec => []ReportsMatchAccess
<1>1. IInv => ReportsMatchAccess
  <2> SUFFICES ASSUME IInv, NEW sh \in DOMAIN shares, NEW share, share = shares[sh]
               PROVE  /\ shareState(share) = "expired" <=> "share_expired" \in checkShares(share)
                      /\ shareState(share) = "active" /\ IsClosed(share) => MaxViewsReached(share)
                      /\ shareState(share) # "active" /\ ~IsClosed(share)
                           => share.expires_at = now
    BY DEF ReportsMatchAccess
  <2>1. share.expires_at \in Nat /\ now \in Nat /\ WarnDays \in Nat
    BY SharesAssumption DEF IInv, Typed, Share
  <2>2. CASE share.revoked
    BY <2>2 DEF shareState, checkShares, IsClosed, IsRevoked
  <2>3. CASE ~share.revoked
    BY <2>1, <2>3 DEF shareState, checkShares, IsClosed, IsRevoked, IsExpired
  <2>4. QED
    BY <2>2, <2>3
<1>2. QED
  BY <1>1, SpecIInv, PTL

\* A share that is revoked, expired or used up stays so, and no access begins that
\* could still be answered, whatever accesses were under way.
THEOREM SpecClosedAdmitsNoMore == Spec => ClosedAdmitsNoMore
<1> DEFINE AdmitsNoMore ==
      \A sh \in DOMAIN shares :
        IsClosed(shares[sh]) =>
          /\ IsClosed(shares[sh])'
          /\ Committed(sh)' <= Committed(sh)
<1>1. IInv /\ IInv' /\ SharesKept /\ CommittedKept => AdmitsNoMore
  <2> SUFFICES ASSUME IInv, IInv', SharesKept, CommittedKept, NEW sh \in DOMAIN shares,
                      IsClosed(shares[sh])
               PROVE  IsClosed(shares[sh])' /\ Committed(sh)' <= Committed(sh)
    OBVIOUS
  <2>1. Committed(sh)' <= Committed(sh)
    BY DEF CommittedKept
  <2> PICK a, b : a = shares[sh] /\ b = shares'[sh]
    OBVIOUS
  <2>2. /\ a \in Share /\ b \in Share /\ ShareKept(a, b)
        /\ now \in Nat /\ now' \in Nat /\ now' >= now
    BY DEF IInv, Typed, SharesKept
  <2>3. \/ b.revoked
        \/ now' > b.expires_at
        \/ b.max_views # 0 /\ b.view_count >= b.max_views
    <3>1. CASE a.revoked
      BY <2>2, <3>1 DEF ShareKept
    <3>2. CASE now > a.expires_at
      BY <2>2, <3>2 DEF ShareKept, Share
    <3>3. CASE a.max_views # 0 /\ a.view_count >= a.max_views
      BY <2>2, <3>3 DEF ShareKept, Share
    <3>4. QED
      BY <3>1, <3>2, <3>3 DEF IsClosed, IsRevoked, IsExpired, MaxViewsReached
  <2>4. IsClosed(shares[sh])'
    BY <2>3 DEF IsClosed, IsRevoked, IsExpired, MaxViewsReached
  <2>5. QED
    BY <2>1, <2>4
<1> HIDE DEF AdmitsNoMore
<1>2. IInv /\ [Next]_vars => [AdmitsNoMore]_vars
  BY <1>1, NextIInv, NextCommitted
<1>3. QED
  BY <1>2, SpecIInv, PTL DEF Spec, ClosedAdmitsNoMore, AdmitsNoMore

\* The accesses, each of several calls, keep the promise of a share link for any
\* number of clients: reading the share is entering, counting the view is being
\* seen, writing the answer is being served, and the clock and revoke-share close.
THEOREM SpecKeepsShareLink == Spec => KeepsShareLink
<1>1. Init => Link!Init
  BY DEF Init, EmptyTable, Link!Init
<1>2. IInv /\ IInv' /\ [Next]_vars => [Link!Next]_([sh \in DOMAIN shares |-> LinkOf(sh)])
  BY NextIInv, NextShareLink DEF LinkTable
<1>3. QED
  BY <1>1, <1>2, SpecIInv, PTL DEF Spec, KeepsShareLink, Link!Spec

=============================================================================
