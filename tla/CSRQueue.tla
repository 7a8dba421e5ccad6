------------------------------ MODULE CSRQueue -------------------------------
(***************************************************************************)
(* The queue of certificate signing requests (csr_requests) and the two    *)
(* tables of leaf certificates its approvals write to.                     *)
(*                                                                         *)
(* Approving is a chain of separate store calls made by a CLI command or   *)
(* an admin HTTP request: load the request and see that it is pending,     *)
(* have the certificate issued and stored, read it back, mark the request  *)
(* issued.  Between any two of them another approval, a rejection, another *)
(* issuance for the same name, a revocation or expiry may come, and the    *)
(* process may fail or be killed, leaving what it has stored so far.       *)
(*                                                                         *)
(* Which CA signs, and whether it may, is PrivatePKI's subject: here an    *)
(* issuer is any of IssuerId.  The ..._mutant operators are wrong versions *)
(* that nothing uses.                                                      *)
(***************************************************************************)
EXTENDS LeafTable

CONSTANTS
  RequestId, CertId,   \* ids the tables may use (uuid.NewString)
  IssuerId,            \* intermediates that may sign private requests
  CommonName,
  Approver,            \* commands and HTTP requests that may approve at once
  Lifetime,            \* how long a certificate lasts, in ticks of the clock
  MaxTime              \* bound on the clock

ASSUME CSRQueueAssumption ==
  /\ NoId \notin RequestId \cup CertId
  /\ Lifetime \subseteq Nat
  /\ MaxTime \in Nat

VARIABLES
  requests,     \* csr_requests
  certs,        \* public_certs and private_certs
  certifiedKey, \* the CSR whose public key a certificate holds, NoId if none
  approver,     \* where each approval is
  now

vars == <<requests, certs, certifiedKey, approver, now>>

Kind == {"public", "private"}

Issuers(kind) == IF kind = "public" THEN {NoId} ELSE IssuerId

CSRRequest ==
  [ kind : Kind, common_name : CommonName,
    status : {"pending", "issued", "rejected"},
    issued_cert_id : CertId \cup {NoId} ]

Idle == [step |-> "idle"]

At(step, r, id) == [step |-> step, request |-> r, cert |-> id]

ApproverState ==
  {Idle}
    \cup [step : {"loaded"}, request : RequestId, cert : {NoId}]
    \cup [step : {"stored", "read back"}, request : RequestId, cert : CertId]

Init ==
  /\ requests = EmptyTable
  /\ certs = [kind \in Kind |-> EmptyTable]
  /\ certifiedKey = EmptyTable
  /\ approver = [a \in Approver |-> Idle]
  /\ now = 0

-----------------------------------------------------------------------------

Tick ==
  /\ now < MaxTime
  /\ now' = now + 1
  /\ UNCHANGED <<requests, certs, certifiedKey, approver>>

Synced == [kind \in Kind |-> SyncLeaves(certs[kind], now)]

\* Every command and request begins by opening the database.
Open ==
  /\ certs' = Synced
  /\ UNCHANGED <<requests, certifiedKey, approver, now>>

\* POST /csr-requests, POST /admin/v1/csr-requests, submit-csr.
CreateCSRRequest(r, kind, cn) ==
  /\ r \notin DOMAIN requests
  /\ requests' = [q \in DOMAIN requests \cup {r} |->
                    IF q = r
                    THEN [kind |-> kind, common_name |-> cn,
                          status |-> "pending", issued_cert_id |-> NoId]
                    ELSE requests[q]]
  /\ UNCHANGED <<certs, certifiedKey, approver, now>>

RejectCSRRequest(r) ==
  /\ requests[r].status = "pending"
  /\ requests' = [requests EXCEPT ![r].status = "rejected"]
  /\ UNCHANGED <<certs, certifiedKey, approver, now>>

\* A new certificate id for cn, signed over the key of request r, becomes the
\* active one of its table (Upsert, UpsertPrivateCert).
StoreCertificate(kind, id, cn, r, issuer, days) ==
  /\ id \notin DOMAIN certifiedKey
  /\ certs' = [Synced EXCEPT ![kind] =
                 UpsertLeaf(@, id, [common_name |-> cn, issuer_id |-> issuer,
                                    not_after |-> now + days])]
  /\ certifiedKey' = [i \in DOMAIN certifiedKey \cup {id} |->
                        IF i = id THEN r ELSE certifiedKey[i]]

-----------------------------------------------------------------------------
(***************************************************************************)
(* Approval, call by call.                                                 *)
(***************************************************************************)

LoadPendingRequest(a, r) ==
  /\ approver[a] = Idle
  /\ requests[r].status = "pending"
  /\ approver' = [approver EXCEPT ![a] = At("loaded", r, NoId)]
  /\ UNCHANGED <<requests, certs, certifiedKey, now>>

IssueForRequest(a, id, issuer, days) ==
  /\ approver[a].step = "loaded"
  /\ LET r   == approver[a].request
         req == requests[r]
     IN  /\ issuer \in Issuers(req.kind)
         /\ StoreCertificate(req.kind, id, req.common_name, r, issuer, days)
         /\ approver' = [approver EXCEPT ![a] = At("stored", r, id)]
  /\ UNCHANGED <<requests, now>>

\* Takes whichever certificate of the name is active, in both tables.
ReadBack_mutant(a) ==
  /\ approver[a].step = "stored"
  /\ LET r    == approver[a].request
         read == ActiveLeaf(certs[requests[r].kind], requests[r].common_name)
     IN  /\ read # NoId
         /\ approver' = [approver EXCEPT ![a] = At("read back", r, read)]
  /\ UNCHANGED <<requests, certs, certifiedKey, now>>

\* GetPrivateCertByID of the id just stored, but for a public request
\* GetByCommonName: whichever certificate of the name is active by now.
ReadBack(a) ==
  /\ approver[a].step = "stored"
  /\ LET r    == approver[a].request
         req  == requests[r]
         read == IF req.kind = "private"
                 THEN approver[a].cert
                 ELSE ActiveLeaf(certs["public"], req.common_name)
     IN  /\ read # NoId
         /\ approver' = [approver EXCEPT ![a] = At("read back", r, read)]
  /\ UNCHANGED <<requests, certs, certifiedKey, now>>

MarkCSRRequestIssued_mutant(a) ==   \* no AND status = 'pending'
  /\ approver[a].step = "read back"
  /\ requests' = [requests EXCEPT ![approver[a].request].status = "issued",
                                  ![approver[a].request].issued_cert_id = approver[a].cert]
  /\ approver' = [approver EXCEPT ![a] = Idle]
  /\ UNCHANGED <<certs, certifiedKey, now>>

MarkCSRRequestIssued(a) ==
  /\ approver[a].step = "read back"
  /\ requests[approver[a].request].status = "pending"
  /\ requests' = [requests EXCEPT ![approver[a].request].status = "issued",
                                  ![approver[a].request].issued_cert_id = approver[a].cert]
  /\ approver' = [approver EXCEPT ![a] = Idle]
  /\ UNCHANGED <<certs, certifiedKey, now>>

\* A bad CSR, no usable issuer, an ACME, DNS or SQL error, nothing read back,
\* a request that is no longer pending, a timeout, a killed process: what has
\* been stored stays.
Fail(a) ==
  /\ approver[a] # Idle
  /\ approver' = [approver EXCEPT ![a] = Idle]
  /\ UNCHANGED <<requests, certs, certifiedKey, now>>

-----------------------------------------------------------------------------
(***************************************************************************)
(* The other commands that write to the two tables.                        *)
(***************************************************************************)

\* get and issue-private-cert: a certificate over a key of its own.
IssueDirectly(kind, id, cn, issuer, days) ==
  /\ issuer \in Issuers(kind)
  /\ StoreCertificate(kind, id, cn, NoId, issuer, days)
  /\ UNCHANGED <<requests, approver, now>>

Revoke(kind, id) ==
  /\ certs' = [certs EXCEPT ![kind] = RevokeLeaf(@, id)]
  /\ UNCHANGED <<requests, certifiedKey, approver, now>>

ApprovalStep(a) ==
  \/ \E r \in DOMAIN requests : LoadPendingRequest(a, r)
  \/ \E id \in CertId, issuer \in IssuerId \cup {NoId}, days \in Lifetime :
       IssueForRequest(a, id, issuer, days)
  \/ ReadBack(a)
  \/ MarkCSRRequestIssued(a)
  \/ Fail(a)

Next ==
  \/ Tick
  \/ Open
  \/ \E r \in RequestId, kind \in Kind, cn \in CommonName : CreateCSRRequest(r, kind, cn)
  \/ \E r \in DOMAIN requests : RejectCSRRequest(r)
  \/ \E a \in Approver : ApprovalStep(a)
  \/ \E kind \in Kind :
       \/ \E id \in CertId, cn \in CommonName, issuer \in IssuerId \cup {NoId},
             days \in Lifetime : IssueDirectly(kind, id, cn, issuer, days)
       \/ \E id \in DOMAIN certs[kind] : Revoke(kind, id)

Spec == Init /\ [][Next]_vars

-----------------------------------------------------------------------------
(***************************************************************************)
(* Properties                                                              *)
(***************************************************************************)

TypeOK ==
  /\ DOMAIN requests \subseteq RequestId
  /\ requests \in [DOMAIN requests -> CSRRequest]
  /\ DOMAIN certs = Kind
  /\ \A kind \in Kind : IsLeafTable(certs[kind], CertId, Issuers(kind), CommonName)
  /\ DOMAIN certifiedKey = DOMAIN certs["public"] \cup DOMAIN certs["private"]
  /\ certifiedKey \in [DOMAIN certifiedKey -> RequestId \cup {NoId}]
  /\ approver \in [Approver -> ApproverState]
  /\ now \in Nat

\* However approvals, direct issuances, revocations and expiries interleave, a
\* name keeps at most one active certificate in each table and an unbroken
\* chain of them.
TablesSound ==
  \A kind \in Kind : AtMostOneActiveLeaf(certs[kind]) /\ LeafChain(certs[kind])

IssuedCert(r) == certs[requests[r].kind][requests[r].issued_cert_id]

\* An issued request is linked to a stored certificate of its kind and name,
\* although the link is written by a later call than the certificate.  It is the
\* one over the key of the request, or else, for a public request, the one over
\* its key is stored and was taken out of use before it could be read back.  No
\* other request has a link.
IssuedLinksHold ==
  \A r \in DOMAIN requests :
    IF requests[r].status = "issued"
    THEN /\ requests[r].issued_cert_id \in DOMAIN certs[requests[r].kind]
         /\ IssuedCert(r).common_name = requests[r].common_name
         /\ \E i \in DOMAIN certs[requests[r].kind] :
              /\ certifiedKey[i] = r
              /\ \/ i = requests[r].issued_cert_id
                 \/ requests[r].kind = "public" /\ certs["public"][i].status # "active"
    ELSE requests[r].issued_cert_id = NoId

\* The answer of GET /csr-requests/{id} to a poll.
Answer(r) ==
  [ kind        |-> requests[r].kind,
    common_name |-> requests[r].common_name,
    status      |-> requests[r].status,
    certificate |->
      IF /\ requests[r].status = "issued"
         /\ requests[r].issued_cert_id \in DOMAIN certs[requests[r].kind]
      THEN [ id          |-> requests[r].issued_cert_id,
             kind        |-> requests[r].kind,
             common_name |-> IssuedCert(r).common_name ]
      ELSE NoId ]

Lifecycle == INSTANCE CSRLifecycle
  WITH answer <- [r \in DOMAIN requests |-> Answer(r)], NoCert <- NoId

\* The queue keeps the promise of CSRLifecycle: each request is decided at most
\* once, and the certificate a poll returns has the name asked for and never
\* changes or disappears, whatever happens to the tables afterwards.
KeepsLifecycle == Lifecycle!Spec

=============================================================================
