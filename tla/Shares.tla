------------------------------- MODULE Shares --------------------------------
(***************************************************************************)
(* Share links to certificates (cert_shares): created by share-cert,       *)
(* revoked by revoke-share, and opened over HTTP by anyone who has the     *)
(* link and its password, up to a number of views and until a time.        *)
(*                                                                         *)
(* An access is three separate calls (server.go, handleShare): read the    *)
(* share and check that it is open, load the certificate and check the     *)
(* passwords against what was read, count the view.  Only then is the      *)
(* answer written.  Other accesses, revocation, the clock and the rotation *)
(* of the shared certificate may come in between.  Creating a share is two *)
(* calls: find the certificate by name, insert the share of its id.        *)
(*                                                                         *)
(* Passwords and the key of a cert_key share are left out: a wrong one     *)
(* ends the access like any other failure.  The ..._mutant operators are   *)
(* wrong versions that nothing uses.                                       *)
(***************************************************************************)
EXTENDS LeafTable

CONSTANTS
  ShareId, CertId,    \* ids the tables may use (uuid.NewString)
  CommonName,
  Client,             \* HTTP accesses that may run at once: finitely many
  Creator,            \* share-cert commands that may run at once
  MaxViews,           \* the values of --max-views; 0 stores NULL, no limit
  ExpiresIn,          \* the values of --expires-in, in ticks of the clock
  WarnDays,           \* doctor --warn-days, in ticks
  MaxTime,            \* bound on the clock
  MaxAnswers          \* bound on the views of one share, to end the run

ASSUME SharesAssumption ==
  /\ NoId \notin CertId
  /\ IsFiniteSet(Client)
  /\ MaxViews \subseteq Nat
  /\ ExpiresIn \subseteq Nat
  /\ WarnDays \in Nat
  /\ MaxTime \in Nat
  /\ MaxAnswers \in Nat

VARIABLES
  shares,     \* cert_shares
  certs,      \* public_certs and private_certs
  access,     \* where each HTTP access is
  creation,   \* where each share-cert command is
  answered,   \* how many answers with the certificate each share has given
  now

vars == <<shares, certs, access, creation, answered, now>>

Kind == {"public", "private"}

Share ==
  [ cert_kind : Kind, cert_id : CertId, max_views : Nat, view_count : Nat,
    expires_at : Nat, revoked : BOOLEAN ]

Idle == [step |-> "idle"]

Init ==
  /\ shares = EmptyTable
  /\ certs = [kind \in Kind |-> EmptyTable]
  /\ access = [c \in Client |-> Idle]
  /\ creation = [c \in Creator |-> Idle]
  /\ answered = EmptyTable
  /\ now = 0

Tick ==
  /\ now < MaxTime
  /\ now' = now + 1
  /\ UNCHANGED <<shares, certs, access, creation, answered>>

-----------------------------------------------------------------------------
(***************************************************************************)
(* The shared certificates come and go.                                    *)
(***************************************************************************)

IssueCertificate(kind, id, cn) ==
  /\ id \notin DOMAIN certs["public"] \cup DOMAIN certs["private"]
  /\ certs' = [certs EXCEPT ![kind] =
                 UpsertLeaf(@, id, [common_name |-> cn, issuer_id |-> NoId, not_after |-> MaxTime])]
  /\ UNCHANGED <<shares, access, creation, answered, now>>

RevokeCertificate(kind, id) ==
  /\ certs' = [certs EXCEPT ![kind] = RevokeLeaf(@, id)]
  /\ UNCHANGED <<shares, access, creation, answered, now>>

-----------------------------------------------------------------------------
(***************************************************************************)
(* share-cert and revoke-share                                             *)
(***************************************************************************)

\* ResolveShareTarget: an active certificate that has the name or a SAN.
ResolveShareTarget(c, kind, id) ==
  /\ creation[c] = Idle
  /\ certs[kind][id].status = "active"
  /\ creation' = [creation EXCEPT ![c] = [step |-> "resolved", kind |-> kind, cert |-> id]]
  /\ UNCHANGED <<shares, certs, access, answered, now>>

CreateShare(c, sh, maxViews, expiresIn) ==
  /\ creation[c].step = "resolved"
  /\ sh \notin DOMAIN shares
  /\ creation[c].cert \in DOMAIN certs[creation[c].kind]
  /\ shares' = [s \in DOMAIN shares \cup {sh} |->
                  IF s = sh
                  THEN [ cert_kind |-> creation[c].kind, cert_id |-> creation[c].cert,
                         max_views |-> maxViews, view_count |-> 0,
                         expires_at |-> now + expiresIn, revoked |-> FALSE ]
                  ELSE shares[s]]
  /\ answered' = [s \in DOMAIN answered \cup {sh} |-> IF s = sh THEN 0 ELSE answered[s]]
  /\ creation' = [creation EXCEPT ![c] = Idle]
  /\ UNCHANGED <<certs, access, now>>

AbortCreation(c) ==
  /\ creation[c] # Idle
  /\ creation' = [creation EXCEPT ![c] = Idle]
  /\ UNCHANGED <<shares, certs, access, answered, now>>

RevokeShare(sh) ==
  /\ shares' = [shares EXCEPT ![sh].revoked = TRUE]
  /\ UNCHANGED <<certs, access, creation, answered, now>>

-----------------------------------------------------------------------------
(***************************************************************************)
(* POST /share/{token}/access                                              *)
(***************************************************************************)

IsRevoked(share) == share.revoked

IsExpired(share) == now > share.expires_at

MaxViewsReached_mutant(share) ==   \* > for >=
  share.max_views # 0 /\ share.view_count > share.max_views

MaxViewsReached(share) == share.max_views # 0 /\ share.view_count >= share.max_views

IsClosed(share) == IsRevoked(share) \/ IsExpired(share) \/ MaxViewsReached(share)

GetShareByToken_mutant(c, sh) ==   \* does not look at revoked_at
  /\ access[c] = Idle
  /\ shares[sh].view_count < MaxAnswers
  /\ ~IsExpired(shares[sh])
  /\ ~MaxViewsReached(shares[sh])
  /\ access' = [access EXCEPT ![c] =
                  [step |-> "read", share |-> sh,
                   kind |-> shares[sh].cert_kind, cert |-> shares[sh].cert_id]]
  /\ UNCHANGED <<shares, certs, creation, answered, now>>

\* handleShare: a closed share answers 403, which is no step.
GetShareByToken(c, sh) ==
  /\ access[c] = Idle
  /\ shares[sh].view_count < MaxAnswers
  /\ ~IsClosed(shares[sh])
  /\ access' = [access EXCEPT ![c] =
                  [step |-> "read", share |-> sh,
                   kind |-> shares[sh].cert_kind, cert |-> shares[sh].cert_id]]
  /\ UNCHANGED <<shares, certs, creation, answered, now>>

\* The passwords are right and the certificate is found.
LoadCertificate(c) ==
  /\ access[c].step = "read"
  /\ access[c].cert \in DOMAIN certs[access[c].kind]
  /\ access' = [access EXCEPT ![c].step = "loaded"]
  /\ UNCHANGED <<shares, certs, creation, answered, now>>

IncrementShareView_mutant(c) ==   \* ignores the error of a failed UPDATE
  /\ access[c].step = "loaded"
  /\ \E n \in {0, 1} :
       shares' = [shares EXCEPT ![access[c].share].view_count = @ + n]
  /\ access' = [access EXCEPT ![c].step = "counted"]
  /\ UNCHANGED <<certs, creation, answered, now>>

IncrementShareView(c) ==
  /\ access[c].step = "loaded"
  /\ shares' = [shares EXCEPT ![access[c].share].view_count = @ + 1]
  /\ access' = [access EXCEPT ![c].step = "counted"]
  /\ UNCHANGED <<certs, creation, answered, now>>

WriteAnswer(c) ==
  /\ access[c].step = "counted"
  /\ answered' = [answered EXCEPT ![access[c].share] = @ + 1]
  /\ access' = [access EXCEPT ![c] = Idle]
  /\ UNCHANGED <<shares, certs, creation, now>>

\* A bad body, a wrong password, a database error, a client that went away.
AbortAccess(c) ==
  /\ access[c] # Idle
  /\ access' = [access EXCEPT ![c] = Idle]
  /\ UNCHANGED <<shares, certs, creation, answered, now>>

-----------------------------------------------------------------------------
(***************************************************************************)
(* What doctor and /metrics say of a share, with code of their own.        *)
(***************************************************************************)

checkShares(share) ==
  IF share.revoked THEN {}
  ELSE IF share.expires_at - now <= 0 THEN {"share_expired"}
  ELSE IF share.expires_at - now <= WarnDays THEN {"share_expiring"}
  ELSE {}

shareState_mutant(share) ==   \* looks at the expiry first
  IF share.expires_at <= now THEN "expired" ELSE IF share.revoked THEN "revoked" ELSE "active"

shareState(share) ==
  IF share.revoked THEN "revoked" ELSE IF share.expires_at <= now THEN "expired" ELSE "active"

-----------------------------------------------------------------------------

Next ==
  \/ Tick
  \/ \E kind \in Kind :
       \/ \E id \in CertId, cn \in CommonName : IssueCertificate(kind, id, cn)
       \/ \E id \in DOMAIN certs[kind] : RevokeCertificate(kind, id)
  \/ \E c \in Creator :
       \/ \E kind \in Kind : \E id \in DOMAIN certs[kind] : ResolveShareTarget(c, kind, id)
       \/ \E sh \in ShareId, m \in MaxViews, e \in ExpiresIn : CreateShare(c, sh, m, e)
       \/ AbortCreation(c)
  \/ \E sh \in DOMAIN shares : RevokeShare(sh)
  \/ \E c \in Client :
       \/ \E sh \in DOMAIN shares : GetShareByToken(c, sh)
       \/ LoadCertificate(c)
       \/ IncrementShareView(c)
       \/ WriteAnswer(c)
       \/ AbortAccess(c)

Spec == Init /\ [][Next]_vars

-----------------------------------------------------------------------------
(***************************************************************************)
(* Properties                                                              *)
(***************************************************************************)

TypeOK ==
  /\ DOMAIN shares \subseteq ShareId
  /\ shares \in [DOMAIN shares -> Share]
  /\ DOMAIN certs = Kind
  /\ \A kind \in Kind : IsLeafTable(certs[kind], CertId, {}, CommonName)
  /\ \A c \in Client :
       access[c] = Idle \/ access[c] \in
         [step : {"read", "loaded", "counted"}, share : DOMAIN shares, kind : Kind, cert : CertId]
  /\ \A c \in Creator :
       creation[c] = Idle \/ creation[c] \in [step : {"resolved"}, kind : Kind, cert : CertId]
  /\ answered \in [DOMAIN shares -> Nat]
  /\ now \in Nat

\* A share can always be served: its certificate stays stored through
\* rotation, revocation and races with share-cert.
SharedCertStored ==
  \A sh \in DOMAIN shares : shares[sh].cert_id \in DOMAIN certs[shares[sh].cert_kind]

Holding(sh, steps) ==
  Cardinality({c \in Client : access[c].step \in steps /\ access[c].share = sh})

\* Every answer is counted before it is written, and concurrent accesses lose
\* no count: view_count is never behind the answers given and on their way.
EveryAnswerCounted ==
  \A sh \in DOMAIN shares : answered[sh] + Holding(sh, {"counted"}) <= shares[sh].view_count

\* The view limit is read long before the view is counted, so it is no hard
\* bound; but each access past it was already under way when the limit was
\* reached, so it is passed by less than the number of concurrent accesses.
OvershootBounded ==
  \A sh \in DOMAIN shares :
    shares[sh].max_views # 0 =>
      shares[sh].view_count + Holding(sh, {"read", "loaded"})
        < shares[sh].max_views + Cardinality(Client)

\* Access, doctor and /metrics each decide with code of their own whether a share
\* is open, and what they say fits together: the two reports agree on what has
\* expired, a share they count as active is refused only for its views, and one
\* they count as closed is served at most in the very moment it expires.
\* (doctor looks at shares only when it is given a positive number of days to warn.)
ReportsMatchAccess ==
  \A sh \in DOMAIN shares :
    LET share == shares[sh]
        state == shareState(share)
    IN  /\ state = "expired" <=> "share_expired" \in checkShares(share)
        /\ state = "active" /\ IsClosed(share) => MaxViewsReached(share)
        /\ state # "active" /\ ~IsClosed(share) => share.expires_at = now

\* The views a share has given or may still give to accesses under way.
Committed(sh) == shares[sh].view_count + Holding(sh, {"read", "loaded"})

\* Closing a share works: from the moment it is revoked, expired or used up it
\* stays closed and no access begins that could still be answered.
ClosedAdmitsNoMore ==
  [][ \A sh \in DOMAIN shares :
        IsClosed(shares[sh]) =>
          /\ IsClosed(shares[sh])'
          /\ Committed(sh)' <= Committed(sh)
    ]_vars

-----------------------------------------------------------------------------
(***************************************************************************)
(* What a share link promises                                              *)
(***************************************************************************)

\* A share as its owner sees it: the accesses that read it and are not counted
\* yet are the visitors inside.
LinkOf(sh) ==
  [ limit  |-> shares[sh].max_views,
    state  |-> IF IsRevoked(shares[sh]) \/ IsExpired(shares[sh]) THEN "closed" ELSE "open",
    inside |-> Holding(sh, {"read", "loaded"}),
    views  |-> shares[sh].view_count,
    served |-> answered[sh] ]

Link == INSTANCE ShareLink
  WITH link <- [sh \in DOMAIN shares |-> LinkOf(sh)], Limit <- MaxViews,
       Room <- Cardinality(Client)

\* The accesses, with their separate reads and writes, keep the promise of
\* ShareLink: closing is final, the limit is looked at on the way in, and no
\* certificate is given away that was not counted before.
KeepsShareLink == Link!Spec

=============================================================================
