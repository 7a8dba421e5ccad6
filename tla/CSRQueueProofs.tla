---------------------------- MODULE CSRQueueProofs ----------------------------
(***************************************************************************)
(* CSRQueue is correct for every set of ids, names, issuers and approvers  *)
(* and every clock, and it implements CSRLifecycle.                        *)
(*                                                                         *)
(* Argument: no step removes a stored certificate, renames it or brings it *)
(* back into use, and no step changes the kind or the name of a request.   *)
(* So what ties a certificate to a request, once it is true, stays true:   *)
(* it is enough that each approval carries it along from the call that     *)
(* stores the certificate, over the one that reads one back, to the one    *)
(* that writes the link.  That is what the inductive invariant adds to the *)
(* checked invariants.                                                     *)
(***************************************************************************)
EXTENDS CSRQueue, TableLemmas

TablesGood ==
  /\ DOMAIN certs = Kind
  /\ \A kind \in Kind : GoodLeaves(certs[kind], CertId, Issuers(kind), CommonName)
  /\ DOMAIN certifiedKey = DOMAIN certs["public"] \cup DOMAIN certs["private"]
  /\ certifiedKey \in [DOMAIN certifiedKey -> RequestId \cup {NoId}]

RequestsTyped ==
  /\ DOMAIN requests \subseteq RequestId
  /\ requests \in [DOMAIN requests -> CSRRequest]

\* Certificate id may be linked to request r: it has the kind and the name asked
\* for, and the one over the key of r is stored, too, and is id or out of use.
Linkable(r, id) ==
  LET kind == requests[r].kind
  IN  /\ id \in DOMAIN certs[kind]
      /\ certs[kind][id].common_name = requests[r].common_name
      /\ \E i \in DOMAIN certs[kind] :
           /\ certifiedKey[i] = r
           /\ i = id \/ (kind = "public" /\ certs["public"][i].status # "active")

\* What an approval in state s has in hand.
Holds(s) ==
  /\ s.step # "idle" => s.request \in DOMAIN requests
  /\ s.step \in {"stored", "read back"} => Linkable(s.request, s.cert)
  /\ s.step = "stored" => certifiedKey[s.cert] = s.request

ApproversHold == \A a \in Approver : Holds(approver[a])

IInv ==
  /\ TablesGood
  /\ RequestsTyped
  /\ approver \in [Approver -> ApproverState]
  /\ ApproversHold
  /\ IssuedLinksHold
  /\ now \in Nat

\* No certificate disappears, changes its name or key, or comes back into use.
CertsKept ==
  /\ \A kind \in Kind : \A i \in DOMAIN certs[kind] :
       /\ i \in DOMAIN certs'[kind]
       /\ certs'[kind][i].common_name = certs[kind][i].common_name
       /\ certs'[kind][i].status = "active" => certs[kind][i].status = "active"
  /\ \A i \in DOMAIN certifiedKey : certifiedKey'[i] = certifiedKey[i]

\* No request disappears or changes what it asks for.
RequestsKept ==
  \A r \in DOMAIN requests :
    /\ r \in DOMAIN requests'
    /\ requests'[r].kind = requests[r].kind
    /\ requests'[r].common_name = requests[r].common_name

-----------------------------------------------------------------------------

LEMMA ApproverFields ==
  ASSUME NEW s \in ApproverState
  PROVE  /\ s = Idle \/ s.step \in {"loaded", "stored", "read back"}
         /\ s.step # "idle" => s.request \in RequestId
         /\ s.step \in {"stored", "read back"} => s.cert \in CertId
<1>1. CASE s = Idle
  <2>1. s.step = "idle"
    BY <1>1 DEF Idle
  <2>2. QED
    BY <1>1, <2>1
<1>2. CASE s \in [step : {"loaded"}, request : RequestId, cert : {NoId}]
  BY <1>2
<1>3. CASE s \in [step : {"stored", "read back"}, request : RequestId, cert : CertId]
  BY <1>3
<1>4. QED
  BY <1>1, <1>2, <1>3 DEF ApproverState

LEMMA InitIInv == Init => IInv
<1> SUFFICES ASSUME Init PROVE IInv
  OBVIOUS
<1>1. TablesGood
  <2>1. \A kind \in Kind : GoodLeaves(certs[kind], CertId, Issuers(kind), CommonName)
    BY EmptyLeavesGood DEF Init
  <2>2. QED
    BY <2>1 DEF Init, TablesGood, Kind, EmptyTable
<1>2. RequestsTyped /\ IssuedLinksHold
  BY DEF Init, RequestsTyped, IssuedLinksHold, EmptyTable
<1>3. approver \in [Approver -> ApproverState] /\ ApproversHold
  BY DEF Init, ApproverState, ApproversHold, Holds, Idle
<1>4. QED
  BY <1>1, <1>2, <1>3 DEF IInv, Init

\* A link that may be written may be written for ever.
LEMMA LinkableKept ==
  ASSUME TablesGood, RequestsTyped, CertsKept, RequestsKept,
         NEW r \in DOMAIN requests, NEW id, Linkable(r, id)
  PROVE  Linkable(r, id)'
<1> DEFINE kind == requests[r].kind
<1>1. kind \in Kind
  BY DEF RequestsTyped, CSRRequest
<1>2. PICK i \in DOMAIN certs[kind] :
        /\ certifiedKey[i] = r
        /\ i = id \/ (kind = "public" /\ certs["public"][i].status # "active")
  BY DEF Linkable
<1>3. i \in DOMAIN certifiedKey
  BY <1>1, <1>2 DEF TablesGood, Kind
<1>4. /\ certifiedKey'[i] = r
      /\ i \in DOMAIN certs'[kind]
      /\ kind = "public" /\ certs["public"][i].status # "active"
           => certs'["public"][i].status # "active"
  BY <1>1, <1>2, <1>3 DEF CertsKept
<1>5. id \in DOMAIN certs'[kind] /\ certs'[kind][id].common_name = requests[r].common_name
  BY <1>1 DEF Linkable, CertsKept
<1>6. requests'[r].kind = kind /\ requests'[r].common_name = requests[r].common_name
  BY DEF RequestsKept
<1>7. QED
  BY <1>2, <1>4, <1>5, <1>6 DEF Linkable

\* A step that leaves the links alone.
LEMMA LinksKept ==
  ASSUME TablesGood, RequestsTyped, IssuedLinksHold, CertsKept, requests' = requests
  PROVE  IssuedLinksHold'
<1>1. RequestsKept
  BY DEF RequestsKept
<1>2. \A r \in DOMAIN requests :
        requests[r].status = "issued" => Linkable(r, requests[r].issued_cert_id)'
  <2>1. \A r \in DOMAIN requests :
          requests[r].status = "issued" => Linkable(r, requests[r].issued_cert_id)
    BY DEF IssuedLinksHold, IssuedCert, Linkable
  <2>2. QED
    BY <1>1, <2>1, LinkableKept
<1>3. QED
  BY <1>2 DEF IssuedLinksHold, IssuedCert, Linkable

LEMMA HoldsKept ==
  ASSUME TablesGood, RequestsTyped, CertsKept, RequestsKept,
         NEW s \in ApproverState, Holds(s)
  PROVE  Holds(s)'
<1>1. s.step # "idle" => s.request \in DOMAIN requests /\ s.request \in DOMAIN requests'
  BY DEF Holds, RequestsKept
<1>2. s.step \in {"stored", "read back"} => Linkable(s.request, s.cert)'
  BY <1>1, LinkableKept DEF Holds
<1>3. s.step = "stored" => certifiedKey'[s.cert] = s.request
  <2> SUFFICES ASSUME s.step = "stored" PROVE certifiedKey'[s.cert] = s.request
    OBVIOUS
  <2>1. requests[s.request].kind \in Kind
    BY <1>1 DEF RequestsTyped, CSRRequest
  <2>2. s.cert \in DOMAIN certs[requests[s.request].kind]
    BY DEF Holds, Linkable
  <2>3. s.cert \in DOMAIN certifiedKey
    BY <2>1, <2>2 DEF TablesGood, Kind
  <2>4. QED
    BY <2>3 DEF CertsKept, Holds
<1>4. QED
  BY <1>1, <1>2, <1>3 DEF Holds

\* A step that gives approval a the state s, if s is right, or none a new state.
LEMMA ApproversKept ==
  ASSUME IInv, CertsKept, RequestsKept,
         \/ approver' = approver
         \/ \E a \in Approver, s \in ApproverState :
              Holds(s)' /\ approver' = [approver EXCEPT ![a] = s]
  PROVE  approver' \in [Approver -> ApproverState] /\ ApproversHold'
<1>1. \A b \in Approver : Holds(approver[b]) /\ approver[b] \in ApproverState
  BY DEF IInv, ApproversHold
<1>2. \A s \in ApproverState : Holds(s) => Holds(s)'
  BY HoldsKept DEF IInv
<1>3. CASE approver' = approver
  BY <1>1, <1>2, <1>3 DEF IInv, ApproversHold
<1>4. ASSUME NEW a \in Approver, NEW s \in ApproverState,
             Holds(s)', approver' = [approver EXCEPT ![a] = s]
      PROVE  approver' \in [Approver -> ApproverState] /\ ApproversHold'
  <2>1. approver' \in [Approver -> ApproverState]
    BY <1>4 DEF IInv
  <2>2. \A b \in Approver : approver'[b] = IF b = a THEN s ELSE approver[b]
    BY <1>4 DEF IInv
  <2>3. QED
    BY <1>1, <1>2, <1>4, <2>1, <2>2 DEF ApproversHold
<1>5. QED
  BY <1>3, <1>4

-----------------------------------------------------------------------------
(***************************************************************************)
(* What the steps do to the two tables of certificates.                    *)
(***************************************************************************)

\* A table after a sync.
LEMMA SyncedTable ==
  ASSUME TablesGood, NEW kind \in Kind
  PROVE  /\ GoodLeaves(Synced[kind], CertId, Issuers(kind), CommonName)
         /\ DOMAIN Synced[kind] = DOMAIN certs[kind]
         /\ \A i \in DOMAIN certs[kind] :
              /\ Synced[kind][i].common_name = certs[kind][i].common_name
              /\ Synced[kind][i].status = "active" => certs[kind][i].status = "active"
<1>1. Synced[kind] = SyncLeaves(certs[kind], now)
  BY DEF Synced
<1>2. GoodLeafUpdate(certs[kind], SyncLeaves(certs[kind], now), CertId, Issuers(kind), CommonName)
  BY SyncLeavesGood DEF TablesGood
<1>3. QED
  BY <1>1, <1>2 DEF GoodLeafUpdate, Demotes

LEMMA SameCerts ==
  ASSUME TablesGood, UNCHANGED <<certs, certifiedKey>>
  PROVE  TablesGood' /\ CertsKept
BY DEF TablesGood, CertsKept

LEMMA OpenCerts ==
  ASSUME TablesGood, certs' = Synced, certifiedKey' = certifiedKey
  PROVE  TablesGood' /\ CertsKept
<1>1. \A kind \in Kind :
        /\ GoodLeaves(certs'[kind], CertId, Issuers(kind), CommonName)
        /\ DOMAIN certs'[kind] = DOMAIN certs[kind]
        /\ \A i \in DOMAIN certs[kind] :
             /\ certs'[kind][i].common_name = certs[kind][i].common_name
             /\ certs'[kind][i].status = "active" => certs[kind][i].status = "active"
  BY SyncedTable
<1>2. DOMAIN certs' = Kind
  BY DEF Synced
<1>3. QED
  BY <1>1, <1>2 DEF TablesGood, CertsKept, Kind

LEMMA RevokeCerts ==
  ASSUME TablesGood, NEW kind \in Kind, NEW id \in DOMAIN certs[kind], Revoke(kind, id)
  PROVE  TablesGood' /\ CertsKept
<1>1. GoodLeafUpdate(certs[kind], RevokeLeaf(certs[kind], id), CertId, Issuers(kind), CommonName)
  BY RevokeGood DEF TablesGood
<1>2. /\ certs'[kind] = RevokeLeaf(certs[kind], id)
      /\ \A k \in Kind : k # kind => certs'[k] = certs[k]
      /\ DOMAIN certs' = Kind
      /\ certifiedKey' = certifiedKey
  BY DEF TablesGood, Revoke
<1>3. \A k \in Kind :
        /\ GoodLeaves(certs'[k], CertId, Issuers(k), CommonName)
        /\ DOMAIN certs'[k] = DOMAIN certs[k]
        /\ \A i \in DOMAIN certs[k] :
             /\ certs'[k][i].common_name = certs[k][i].common_name
             /\ certs'[k][i].status = "active" => certs[k][i].status = "active"
  BY <1>1, <1>2 DEF TablesGood, GoodLeafUpdate, Demotes
<1>4. QED
  BY <1>2, <1>3 DEF TablesGood, CertsKept, Kind

LEMMA NatSum == \A a, b \in Nat : a + b \in Nat
OBVIOUS

\* The certificate that is stored has the name and the key it is stored for.
LEMMA StoreCerts ==
  ASSUME TablesGood, now \in Nat,
         NEW kind \in Kind, NEW id \in CertId, NEW cn \in CommonName,
         NEW r \in RequestId \cup {NoId}, NEW issuer \in Issuers(kind), NEW days \in Lifetime,
         StoreCertificate(kind, id, cn, r, issuer, days)
  PROVE  /\ TablesGood' /\ CertsKept
         /\ id \in DOMAIN certs'[kind]
         /\ certs'[kind][id].common_name = cn
         /\ certifiedKey'[id] = r
<1> DEFINE t == Synced[kind]
           rec == [common_name |-> cn, issuer_id |-> issuer, not_after |-> now + days]
           u == UpsertLeaf(t, id, rec)
<1>1. /\ certs' = [Synced EXCEPT ![kind] = u]
      /\ certifiedKey' = [i \in DOMAIN certifiedKey \cup {id} |->
                            IF i = id THEN r ELSE certifiedKey[i]]
      /\ id \notin DOMAIN certifiedKey
  BY DEF StoreCertificate
<1>2. /\ GoodLeaves(t, CertId, Issuers(kind), CommonName)
      /\ DOMAIN t = DOMAIN certs[kind]
      /\ \A i \in DOMAIN certs[kind] :
           /\ t[i].common_name = certs[kind][i].common_name
           /\ t[i].status = "active" => certs[kind][i].status = "active"
  BY SyncedTable
<1>3. id \notin DOMAIN t
  BY <1>1, <1>2 DEF TablesGood, Kind
<1>4. /\ rec.common_name = cn
      /\ rec.common_name \in CommonName
      /\ rec.issuer_id \in Issuers(kind) \cup {NoId}
      /\ rec.not_after \in Nat
  BY NatSum, CSRQueueAssumption
<1>5. certs'[kind] = u /\ DOMAIN certs' = Kind
  BY <1>1 DEF Synced
<1> HIDE DEF t, rec
<1>6. GoodLeafInsert(t, u, id, rec, CertId, Issuers(kind), CommonName)
  BY <1>2, <1>3, <1>4, UpsertLeafGood, CSRQueueAssumption
<1>7. \A i \in DOMAIN t :
        /\ u[i].common_name = t[i].common_name
        /\ u[i].status = "active" => t[i].status = "active"
  BY <1>2, <1>3, UpsertedLeaf DEF GoodLeaves, SameLeaf
<1>8. u[id].common_name = cn
  BY <1>4 DEF UpsertLeaf
<1>9. /\ GoodLeaves(certs'[kind], CertId, Issuers(kind), CommonName)
      /\ DOMAIN certs'[kind] = DOMAIN certs[kind] \cup {id}
      /\ \A i \in DOMAIN certs[kind] :
           /\ certs'[kind][i].common_name = certs[kind][i].common_name
           /\ certs'[kind][i].status = "active" => certs[kind][i].status = "active"
  BY <1>2, <1>5, <1>6, <1>7 DEF GoodLeafInsert
<1> HIDE DEF u
<1>10. \A k \in Kind : k # kind =>
         /\ GoodLeaves(certs'[k], CertId, Issuers(k), CommonName)
         /\ DOMAIN certs'[k] = DOMAIN certs[k]
         /\ \A i \in DOMAIN certs[k] :
              /\ certs'[k][i].common_name = certs[k][i].common_name
              /\ certs'[k][i].status = "active" => certs[k][i].status = "active"
  <2>1. \A k \in Kind : k # kind => certs'[k] = Synced[k]
    BY <1>1 DEF Synced
  <2>2. QED
    BY <2>1, SyncedTable
<1>11. /\ DOMAIN certifiedKey' = DOMAIN certs'["public"] \cup DOMAIN certs'["private"]
       /\ certifiedKey' \in [DOMAIN certifiedKey' -> RequestId \cup {NoId}]
  <2>1. DOMAIN certifiedKey' = DOMAIN certs["public"] \cup DOMAIN certs["private"] \cup {id}
    BY <1>1 DEF TablesGood
  <2>2. certifiedKey' \in [DOMAIN certifiedKey' -> RequestId \cup {NoId}]
    BY <1>1 DEF TablesGood
  <2>3. CASE kind = "public"
    <3>1. "private" \in Kind /\ "private" # kind
      BY <2>3 DEF Kind
    <3>2. DOMAIN certs'["private"] = DOMAIN certs["private"]
      BY <1>10, <3>1
    <3>3. DOMAIN certs'["public"] = DOMAIN certs["public"] \cup {id}
      BY <1>9, <2>3
    <3>4. QED
      BY <2>1, <2>2, <3>2, <3>3
  <2>4. CASE kind = "private"
    <3>1. "public" \in Kind /\ "public" # kind
      BY <2>4 DEF Kind
    <3>2. DOMAIN certs'["public"] = DOMAIN certs["public"]
      BY <1>10, <3>1
    <3>3. DOMAIN certs'["private"] = DOMAIN certs["private"] \cup {id}
      BY <1>9, <2>4
    <3>4. QED
      BY <2>1, <2>2, <3>2, <3>3
  <2>5. QED
    BY <2>3, <2>4 DEF Kind
<1>12. TablesGood'
  BY <1>5, <1>9, <1>10, <1>11 DEF TablesGood
<1>13. CertsKept
  BY <1>1, <1>9, <1>10 DEF CertsKept
<1>14. QED
  BY <1>1, <1>5, <1>8, <1>9, <1>12, <1>13

-----------------------------------------------------------------------------
(***************************************************************************)
(* The steps                                                               *)
(***************************************************************************)

\* A step that leaves the requests alone.
LEMMA SameRequests ==
  ASSUME IInv, TablesGood', CertsKept, requests' = requests, now' \in Nat,
         \/ approver' = approver
         \/ \E a \in Approver, s \in ApproverState :
              Holds(s)' /\ approver' = [approver EXCEPT ![a] = s]
  PROVE  IInv'
<1>1. RequestsKept /\ RequestsTyped'
  BY DEF RequestsKept, IInv, RequestsTyped
<1>2. approver' \in [Approver -> ApproverState] /\ ApproversHold'
  BY <1>1, ApproversKept
<1>3. IssuedLinksHold'
  BY LinksKept DEF IInv
<1>4. QED
  BY <1>1, <1>2, <1>3 DEF IInv

\* An approval that ends is right whatever happens.
LEMMA IdleHolds == Idle \in ApproverState /\ Holds(Idle)'
BY DEF Idle, ApproverState, Holds

LEMMA CreateStep ==
  ASSUME IInv, NEW r \in RequestId, NEW kind \in Kind, NEW cn \in CommonName,
         CreateCSRRequest(r, kind, cn)
  PROVE  IInv' /\ CertsKept
<1> DEFINE new == [kind |-> kind, common_name |-> cn, status |-> "pending",
                   issued_cert_id |-> NoId]
<1>1. new \in CSRRequest /\ new.status = "pending" /\ new.issued_cert_id = NoId
  BY DEF CSRRequest
<1>2. /\ requests' = [q \in DOMAIN requests \cup {r} |-> IF q = r THEN new ELSE requests[q]]
      /\ r \notin DOMAIN requests
      /\ UNCHANGED <<certs, certifiedKey, approver, now>>
  BY DEF CreateCSRRequest
<1> HIDE DEF new
<1>3. RequestsKept /\ RequestsTyped'
  BY <1>1, <1>2 DEF RequestsKept, RequestsTyped, IInv
<1>4. TablesGood' /\ CertsKept
  BY <1>2, SameCerts DEF IInv
<1>5. approver' \in [Approver -> ApproverState] /\ ApproversHold'
  BY <1>2, <1>3, <1>4, ApproversKept
<1>6. IssuedLinksHold'
  <2>1. \A q \in DOMAIN requests : requests'[q] = requests[q]
    BY <1>2
  <2>2. requests'[r].status # "issued" /\ requests'[r].issued_cert_id = NoId
    BY <1>1, <1>2
  <2>3. DOMAIN requests' = DOMAIN requests \cup {r}
    BY <1>2
  <2>4. QED
    BY <1>2, <2>1, <2>2, <2>3 DEF IInv, IssuedLinksHold, IssuedCert
<1>7. QED
  BY <1>2, <1>3, <1>4, <1>5, <1>6 DEF IInv

LEMMA RejectStep ==
  ASSUME IInv, NEW r \in DOMAIN requests, RejectCSRRequest(r)
  PROVE  IInv' /\ CertsKept
<1>1. /\ requests[r].status = "pending"
      /\ requests' = [requests EXCEPT ![r].status = "rejected"]
      /\ UNCHANGED <<certs, certifiedKey, approver, now>>
  BY DEF RejectCSRRequest
<1>2. requests[r] \in CSRRequest
  BY DEF IInv, RequestsTyped
<1>3. /\ DOMAIN requests' = DOMAIN requests
      /\ \A q \in DOMAIN requests : q # r => requests'[q] = requests[q]
      /\ requests'[r] \in CSRRequest
      /\ requests'[r].kind = requests[r].kind
      /\ requests'[r].common_name = requests[r].common_name
      /\ requests'[r].status = "rejected"
      /\ requests'[r].issued_cert_id = requests[r].issued_cert_id
  BY <1>1, <1>2 DEF CSRRequest
<1>4. RequestsKept /\ RequestsTyped'
  <2>1. requests' = [q \in DOMAIN requests |-> requests'[q]]
    BY <1>1
  <2>2. QED
    BY <1>3, <2>1 DEF RequestsKept, RequestsTyped, IInv
<1>5. TablesGood' /\ CertsKept
  BY <1>1, SameCerts DEF IInv
<1>6. approver' \in [Approver -> ApproverState] /\ ApproversHold'
  BY <1>1, <1>4, <1>5, ApproversKept
<1>7. IssuedLinksHold'
  BY <1>1, <1>3 DEF IInv, IssuedLinksHold, IssuedCert
<1>8. QED
  BY <1>1, <1>4, <1>5, <1>6, <1>7 DEF IInv

LEMMA LoadStep ==
  ASSUME IInv, NEW a \in Approver, NEW r \in DOMAIN requests, LoadPendingRequest(a, r)
  PROVE  IInv' /\ CertsKept
<1> DEFINE s == At("loaded", r, NoId)
<1>1. s \in ApproverState /\ s.step = "loaded" /\ s.request = r
  BY DEF At, ApproverState, IInv, RequestsTyped
<1>2. approver' = [approver EXCEPT ![a] = s] /\ UNCHANGED <<requests, certs, certifiedKey, now>>
  BY DEF LoadPendingRequest
<1> HIDE DEF s
<1>3. Holds(s)'
  BY <1>1, <1>2 DEF Holds
<1>4. TablesGood' /\ CertsKept
  BY <1>2, SameCerts DEF IInv
<1>5. QED
  BY <1>1, <1>2, <1>3, <1>4, SameRequests DEF IInv

LEMMA IssueStep ==
  ASSUME IInv, NEW a \in Approver, NEW id \in CertId, NEW issuer \in IssuerId \cup {NoId},
         NEW days \in Lifetime, IssueForRequest(a, id, issuer, days)
  PROVE  IInv' /\ CertsKept
<1> PICK r : r = approver[a].request
  OBVIOUS
<1> DEFINE req == requests[r]
           s == At("stored", r, id)
<1>1. /\ approver[a].step = "loaded"
      /\ issuer \in Issuers(req.kind)
      /\ StoreCertificate(req.kind, id, req.common_name, r, issuer, days)
      /\ approver' = [approver EXCEPT ![a] = s]
      /\ UNCHANGED <<requests, now>>
  BY DEF IssueForRequest
<1>2. r \in DOMAIN requests
  BY <1>1 DEF IInv, ApproversHold, Holds
<1>3. r \in RequestId /\ req.kind \in Kind /\ req.common_name \in CommonName
  BY <1>2 DEF IInv, RequestsTyped, CSRRequest
<1>4. /\ TablesGood' /\ CertsKept
      /\ id \in DOMAIN certs'[req.kind]
      /\ certs'[req.kind][id].common_name = req.common_name
      /\ certifiedKey'[id] = r
  <2>1. r \in RequestId \cup {NoId}
    BY <1>3
  <2> HIDE DEF req
  <2>2. QED
    BY <1>1, <1>3, <2>1, StoreCerts DEF IInv
<1>5. s \in ApproverState /\ s.step = "stored" /\ s.request = r /\ s.cert = id
  BY <1>3 DEF At, ApproverState
<1> HIDE DEF s
<1>6. Holds(s)'
  BY <1>1, <1>2, <1>4, <1>5 DEF Holds, Linkable
<1>7. QED
  BY <1>1, <1>4, <1>5, <1>6, SameRequests DEF IInv

\* What is read back is the certificate over the key of the request, or that one
\* is out of use: the table has one active row for the name.
LEMMA ReadBackStep ==
  ASSUME IInv, NEW a \in Approver, ReadBack(a)
  PROVE  IInv' /\ CertsKept
<1> PICK r, id : r = approver[a].request /\ id = approver[a].cert
  OBVIOUS
<1> DEFINE req == requests[r]
<1> PICK read : read = IF req.kind = "private" THEN id
                       ELSE ActiveLeaf(certs["public"], req.common_name)
  OBVIOUS
<1> DEFINE s == At("read back", r, read)
<1>1. /\ approver[a].step = "stored"
      /\ read # NoId
      /\ approver' = [approver EXCEPT ![a] = s]
      /\ UNCHANGED <<requests, certs, certifiedKey, now>>
  BY DEF ReadBack
<1>2. r \in DOMAIN requests /\ Linkable(r, id) /\ certifiedKey[id] = r /\ id \in CertId
  BY <1>1, ApproverFields DEF IInv, ApproversHold, Holds
<1>3. r \in RequestId /\ req.kind \in Kind /\ req.common_name \in CommonName
  BY <1>2 DEF IInv, RequestsTyped, CSRRequest
<1>4. Linkable(r, read) /\ read \in CertId
  <2>1. CASE req.kind = "private"
    BY <1>2, <2>1
  <2>2. CASE req.kind = "public"
    <3>1. GoodLeaves(certs["public"], CertId, Issuers("public"), CommonName)
      BY DEF IInv, TablesGood, Kind
    <3>2. read = ActiveLeaf(certs["public"], req.common_name)
      BY <2>2
    <3>3. ActiveLeaves(certs["public"], req.common_name) = {read}
      <4>1. \/ ActiveLeaf(certs["public"], req.common_name) = NoId
            \/ ActiveLeaves(certs["public"], req.common_name)
                 = {ActiveLeaf(certs["public"], req.common_name)}
        BY <3>1, ActiveLeafValue
      <4>2. QED
        BY <1>1, <3>2, <4>1
    <3>4. /\ read \in DOMAIN certs["public"]
          /\ certs["public"][read].common_name = req.common_name
      BY <3>3 DEF ActiveLeaves
    <3>5. /\ id \in DOMAIN certs["public"]
          /\ certs["public"][id].common_name = req.common_name
      BY <1>2, <2>2 DEF Linkable
    <3>6. id = read \/ certs["public"][id].status # "active"
      BY <3>3, <3>5 DEF ActiveLeaves
    <3>7. Linkable(r, read)
      BY <1>2, <2>2, <3>4, <3>5, <3>6 DEF Linkable
    <3>8. read \in CertId
      BY <3>1, <3>4 DEF GoodLeaves, IsLeafTable
    <3>9. QED
      BY <3>7, <3>8
  <2>3. QED
    BY <1>3, <2>1, <2>2 DEF Kind
<1>5. s \in ApproverState /\ s.step = "read back" /\ s.request = r /\ s.cert = read
  BY <1>3, <1>4 DEF At, ApproverState
<1>6. Linkable(r, read)'
  <2>1. RequestsKept /\ CertsKept
    BY <1>1 DEF RequestsKept, CertsKept
  <2>2. QED
    BY <1>2, <1>4, <2>1, LinkableKept DEF IInv
<1> HIDE DEF s
<1>7. Holds(s)'
  BY <1>1, <1>2, <1>5, <1>6 DEF Holds
<1>8. TablesGood' /\ CertsKept
  BY <1>1, SameCerts DEF IInv
<1>9. QED
  BY <1>1, <1>5, <1>7, <1>8, SameRequests DEF IInv

LEMMA MarkStep ==
  ASSUME IInv, NEW a \in Approver, MarkCSRRequestIssued(a)
  PROVE  IInv' /\ CertsKept
<1> PICK r, id : r = approver[a].request /\ id = approver[a].cert
  OBVIOUS
<1>1. /\ approver[a].step = "read back"
      /\ requests' = [requests EXCEPT ![r].status = "issued", ![r].issued_cert_id = id]
      /\ approver' = [approver EXCEPT ![a] = Idle]
      /\ UNCHANGED <<certs, certifiedKey, now>>
  BY DEF MarkCSRRequestIssued
<1>2. r \in DOMAIN requests /\ Linkable(r, id) /\ id \in CertId
  BY <1>1, ApproverFields DEF IInv, ApproversHold, Holds
<1>3. requests[r] \in CSRRequest
  BY <1>2 DEF IInv, RequestsTyped
<1>4. /\ DOMAIN requests' = DOMAIN requests
      /\ \A q \in DOMAIN requests : q # r => requests'[q] = requests[q]
      /\ requests'[r] \in CSRRequest
      /\ requests'[r].kind = requests[r].kind
      /\ requests'[r].common_name = requests[r].common_name
      /\ requests'[r].status = "issued"
      /\ requests'[r].issued_cert_id = id
  BY <1>1, <1>2, <1>3 DEF CSRRequest
<1>5. RequestsKept /\ RequestsTyped'
  <2>1. requests' = [q \in DOMAIN requests |-> requests'[q]]
    BY <1>1
  <2>2. QED
    BY <1>4, <2>1 DEF RequestsKept, RequestsTyped, IInv
<1>6. TablesGood' /\ CertsKept
  BY <1>1, SameCerts DEF IInv
<1>7. approver' \in [Approver -> ApproverState] /\ ApproversHold'
  BY <1>1, <1>5, <1>6, IdleHolds, ApproversKept
<1>8. IssuedLinksHold'
  <2>1. \A q \in DOMAIN requests :
          requests'[q].status = "issued" => Linkable(q, requests'[q].issued_cert_id)
    BY <1>2, <1>4 DEF IInv, IssuedLinksHold, IssuedCert, Linkable
  <2>2. \A q \in DOMAIN requests :
          requests'[q].status # "issued" => requests'[q].issued_cert_id = NoId
    BY <1>4 DEF IInv, IssuedLinksHold
  <2>3. \A q \in DOMAIN requests : \A i : Linkable(q, i) => Linkable(q, i)'
    BY <1>5, <1>6, LinkableKept DEF IInv
  <2>4. \A q \in DOMAIN requests :
          requests'[q].status = "issued" => Linkable(q, requests[q].issued_cert_id)'
    BY <2>1, <2>3
  <2>5. DOMAIN requests' = DOMAIN requests
    BY <1>4
  <2>6. QED
    BY <2>2, <2>4, <2>5 DEF IssuedLinksHold, IssuedCert, Linkable
<1>9. QED
  BY <1>1, <1>5, <1>6, <1>7, <1>8 DEF IInv

LEMMA FailStep ==
  ASSUME IInv, NEW a \in Approver, Fail(a)
  PROVE  IInv' /\ CertsKept
<1>1. approver' = [approver EXCEPT ![a] = Idle] /\ UNCHANGED <<requests, certs, certifiedKey, now>>
  BY DEF Fail
<1>2. TablesGood' /\ CertsKept
  BY <1>1, SameCerts DEF IInv
<1>3. QED
  BY <1>1, <1>2, IdleHolds, SameRequests DEF IInv

LEMMA IssueDirectlyStep ==
  ASSUME IInv, NEW kind \in Kind, NEW id \in CertId, NEW cn \in CommonName, NEW issuer,
         NEW days \in Lifetime, IssueDirectly(kind, id, cn, issuer, days)
  PROVE  IInv' /\ CertsKept
<1>1. /\ issuer \in Issuers(kind)
      /\ StoreCertificate(kind, id, cn, NoId, issuer, days)
      /\ UNCHANGED <<requests, approver, now>>
  BY DEF IssueDirectly
<1>2. TablesGood' /\ CertsKept
  <2>1. NoId \in RequestId \cup {NoId}
    OBVIOUS
  <2>2. QED
    BY <1>1, <2>1, StoreCerts DEF IInv
<1>3. QED
  BY <1>1, <1>2, SameRequests DEF IInv

\* Ticks, opened databases, revocations and steps of other systems.
LEMMA OtherStep ==
  ASSUME IInv, UNCHANGED <<requests, approver>>,
         \/ Tick
         \/ Open
         \/ \E kind \in Kind : \E id \in DOMAIN certs[kind] : Revoke(kind, id)
         \/ UNCHANGED vars
  PROVE  IInv' /\ CertsKept
<1>1. now' \in Nat
  BY NatSum DEF IInv, Tick, Open, Revoke, vars
<1>2. TablesGood' /\ CertsKept
  <2>1. CASE Tick
    BY <2>1, SameCerts DEF IInv, Tick
  <2>2. CASE Open
    BY <2>2, OpenCerts DEF IInv, Open
  <2>3. CASE \E kind \in Kind : \E id \in DOMAIN certs[kind] : Revoke(kind, id)
    BY <2>3, RevokeCerts DEF IInv
  <2>4. CASE UNCHANGED vars
    BY <2>4, SameCerts DEF IInv, vars
  <2>5. QED
    BY <2>1, <2>2, <2>3, <2>4
<1>3. QED
  BY <1>1, <1>2, SameRequests

LEMMA NextIInv == IInv /\ [Next]_vars => IInv' /\ CertsKept
<1> SUFFICES ASSUME IInv, [Next]_vars PROVE IInv' /\ CertsKept
  OBVIOUS
<1>1. CASE Tick \/ Open \/ UNCHANGED vars
  BY <1>1, OtherStep DEF Tick, Open, vars
<1>2. ASSUME NEW r \in RequestId, NEW kind \in Kind, NEW cn \in CommonName,
             CreateCSRRequest(r, kind, cn)
      PROVE  IInv' /\ CertsKept
  BY <1>2, CreateStep
<1>3. ASSUME NEW r \in DOMAIN requests, RejectCSRRequest(r) PROVE IInv' /\ CertsKept
  BY <1>3, RejectStep
<1>4. ASSUME NEW a \in Approver, ApprovalStep(a) PROVE IInv' /\ CertsKept
  BY <1>4, LoadStep, IssueStep, ReadBackStep, MarkStep, FailStep DEF ApprovalStep
<1>5. ASSUME NEW kind \in Kind, NEW id \in CertId, NEW cn \in CommonName,
             NEW issuer \in IssuerId \cup {NoId}, NEW days \in Lifetime,
             IssueDirectly(kind, id, cn, issuer, days)
      PROVE  IInv' /\ CertsKept
  BY <1>5, IssueDirectlyStep
<1>6. ASSUME NEW kind \in Kind, NEW id \in DOMAIN certs[kind], Revoke(kind, id) PROVE IInv' /\ CertsKept
  BY <1>6, OtherStep DEF Revoke
<1>7. QED
  BY <1>1, <1>2, <1>3, <1>4, <1>5, <1>6 DEF Next

-----------------------------------------------------------------------------
(***************************************************************************)
(* The theorems                                                            *)
(***************************************************************************)

\* The inductive invariant holds in every reachable state.
THEOREM SpecIInv == Spec => []IInv
BY InitIInv, NextIInv, PTL DEF Spec

\* The two tables of certificates, the queue and the approvals keep their types,
\* and every stored certificate, and nothing else, has a key.
THEOREM SpecTypeOK == Spec => []TypeOK
<1>1. IInv => TypeOK
  BY DEF IInv, TypeOK, TablesGood, RequestsTyped, GoodLeaves
<1>2. QED
  BY <1>1, SpecIInv, PTL

\* However approvals, direct issuances, revocations and expiries interleave, no
\* name has two active certificates in a table, and the supersedes ids form one
\* chain for each name (Upsert, UpsertPrivateCert).
THEOREM SpecTablesSound == Spec => []TablesSound
<1>1. IInv => TablesSound
  BY DEF IInv, TablesSound, TablesGood, GoodLeaves
<1>2. QED
  BY <1>1, SpecIInv, PTL

\* The link that the last call of an approval writes names a stored certificate
\* of the kind and name asked for, made over the key of the request unless that
\* one was out of use before it could be read back.
THEOREM SpecIssuedLinksHold == Spec => []IssuedLinksHold
<1>1. IInv => IssuedLinksHold
  BY DEF IInv
<1>2. QED
  BY <1>1, SpecIInv, PTL

-----------------------------------------------------------------------------
(***************************************************************************)
(* The refinement                                                          *)
(***************************************************************************)

\* The poll of a request that no step decides gives the same answer after it.
LEMMA AnswerKept ==
  ASSUME IInv, CertsKept, NEW q \in DOMAIN requests, requests'[q] = requests[q]
  PROVE  Answer(q)' = Answer(q)
<1>1. requests[q].kind \in Kind
  BY DEF IInv, RequestsTyped, CSRRequest
<1>2. CASE requests[q].status = "issued"
  <2>1. requests[q].issued_cert_id \in DOMAIN certs[requests[q].kind]
    BY <1>2 DEF IInv, IssuedLinksHold
  <2>2. /\ requests[q].issued_cert_id \in DOMAIN certs'[requests[q].kind]
        /\ certs'[requests[q].kind][requests[q].issued_cert_id].common_name
             = certs[requests[q].kind][requests[q].issued_cert_id].common_name
    BY <1>1, <2>1 DEF CertsKept
  <2>3. QED
    BY <1>2, <2>1, <2>2 DEF Answer, IssuedCert
<1>3. CASE requests[q].status # "issued"
  BY <1>3 DEF Answer
<1>4. QED
  BY <1>2, <1>3

LEMMA SameAnswers ==
  ASSUME IInv, CertsKept, requests' = requests
  PROVE  UNCHANGED [r \in DOMAIN requests |-> Answer(r)]
<1>1. \A q \in DOMAIN requests : Answer(q)' = Answer(q)
  BY AnswerKept
<1>2. QED
  BY <1>1

LEMMA CreateSubmits ==
  ASSUME IInv, CertsKept, NEW r \in RequestId, NEW kind \in Kind, NEW cn \in CommonName,
         CreateCSRRequest(r, kind, cn)
  PROVE  Lifecycle!Submit(r, kind, cn)
<1> DEFINE new == [kind |-> kind, common_name |-> cn, status |-> "pending",
                   certificate |-> NoId]
<1>1. /\ DOMAIN requests' = DOMAIN requests \cup {r}
      /\ r \notin DOMAIN requests
      /\ \A q \in DOMAIN requests : requests'[q] = requests[q]
      /\ requests'[r] = [kind |-> kind, common_name |-> cn, status |-> "pending",
                         issued_cert_id |-> NoId]
  BY DEF CreateCSRRequest
<1>2. \A q \in DOMAIN requests : Answer(q)' = Answer(q)
  BY <1>1, AnswerKept
<1>3. Answer(r)' = new
  BY <1>1 DEF Answer
<1> HIDE DEF new
<1>4. [q \in DOMAIN requests |-> Answer(q)]'
        = [q \in DOMAIN requests \cup {r} |->
             IF q = r THEN new ELSE [x \in DOMAIN requests |-> Answer(x)][q]]
  BY <1>1, <1>2, <1>3
<1>5. QED
  BY <1>1, <1>4 DEF Lifecycle!Submit, new

LEMMA RejectRejects ==
  ASSUME IInv, CertsKept, NEW r \in DOMAIN requests, RejectCSRRequest(r)
  PROVE  Lifecycle!Reject(r)
<1>1. /\ DOMAIN requests' = DOMAIN requests
      /\ \A q \in DOMAIN requests : q # r => requests'[q] = requests[q]
      /\ requests[r].status = "pending"
      /\ requests'[r].kind = requests[r].kind
      /\ requests'[r].common_name = requests[r].common_name
      /\ requests'[r].status = "rejected"
  BY DEF RejectCSRRequest, IInv, RequestsTyped, CSRRequest
<1>2. \A q \in DOMAIN requests : q # r => Answer(q)' = Answer(q)
  BY <1>1, AnswerKept
<1>3. Answer(r).status = "pending" /\ Answer(r)' = [Answer(r) EXCEPT !.status = "rejected"]
  BY <1>1 DEF Answer
<1>4. QED
  BY <1>1, <1>2, <1>3 DEF Lifecycle!Reject

LEMMA MarkIssues ==
  ASSUME IInv, CertsKept, NEW a \in Approver, MarkCSRRequestIssued(a)
  PROVE  \E r \in DOMAIN requests : \E id \in CertId : Lifecycle!Issue(r, id)
<1> PICK r, id : r = approver[a].request /\ id = approver[a].cert
  OBVIOUS
<1> DEFINE cert == [id |-> id, kind |-> Answer(r).kind, common_name |-> Answer(r).common_name]
<1>1. /\ approver[a].step = "read back"
      /\ requests' = [requests EXCEPT ![r].status = "issued", ![r].issued_cert_id = id]
      /\ requests[r].status = "pending"
      /\ UNCHANGED <<certs, certifiedKey, now>>
  BY DEF MarkCSRRequestIssued
<1>2. r \in DOMAIN requests /\ Linkable(r, id) /\ id \in CertId
  BY <1>1, ApproverFields DEF IInv, ApproversHold, Holds
<1>3. requests[r] \in CSRRequest
  BY <1>2 DEF IInv, RequestsTyped
<1>4. /\ DOMAIN requests' = DOMAIN requests
      /\ \A q \in DOMAIN requests : q # r => requests'[q] = requests[q]
      /\ requests'[r].kind = requests[r].kind
      /\ requests'[r].common_name = requests[r].common_name
      /\ requests'[r].status = "issued"
      /\ requests'[r].issued_cert_id = id
  BY <1>1, <1>2, <1>3 DEF CSRRequest
<1>5. \A q \in DOMAIN requests : q # r => Answer(q)' = Answer(q)
  BY <1>4, AnswerKept
<1>6. Answer(r).status = "pending"
  BY <1>1 DEF Answer
<1>7. Answer(r)' = [Answer(r) EXCEPT !.status = "issued", !.certificate = cert]
  <2> PICK kind, cn : kind = requests[r].kind /\ cn = requests[r].common_name
    OBVIOUS
  <2> PICK c : c = [id |-> id, kind |-> kind, common_name |-> cn]
    OBVIOUS
  <2> DEFINE old == [kind |-> kind, common_name |-> cn, status |-> "pending",
                     certificate |-> NoId]
             mid == [kind |-> kind, common_name |-> cn, status |-> "issued",
                     certificate |-> NoId]
             new == [kind |-> kind, common_name |-> cn, status |-> "issued",
                     certificate |-> c]
  <2>1. certs'[kind][id].common_name = cn /\ id \in DOMAIN certs'[kind]
    BY <1>1, <1>2 DEF Linkable
  <2>2. Answer(r)' = new
    BY <1>4, <2>1 DEF Answer, IssuedCert
  <2>3. Answer(r) = old
    BY <1>1 DEF Answer
  <2>4. cert = c
    BY <2>3
  <2> HIDE DEF cert
  <2>5. [old EXCEPT !.status = "issued"] = mid
    OBVIOUS
  <2>6. [mid EXCEPT !.certificate = c] = new
    OBVIOUS
  <2> HIDE DEF old, mid, new
  <2>7. QED
    BY <2>2, <2>3, <2>4, <2>5, <2>6
<1> HIDE DEF cert
<1>8. Lifecycle!Issue(r, id)
  <2>1. PICK f : f = [q \in DOMAIN requests |-> Answer(q)]
    OBVIOUS
  <2>2. PICK g : g = [q \in DOMAIN requests |-> Answer(q)]'
    OBVIOUS
  <2>3. f[r] = Answer(r) /\ DOMAIN f = DOMAIN requests
    BY <1>2, <2>1
  <2>4. g = [q \in DOMAIN f |-> g[q]]
    BY <1>4, <2>1, <2>2
  <2>5. g[r] = [f[r] EXCEPT !.status = "issued", !.certificate = cert]
    BY <1>2, <1>4, <1>7, <2>2, <2>3
  <2>6. \A q \in DOMAIN f : q # r => g[q] = f[q]
    BY <1>4, <1>5, <2>1, <2>2
  <2>7. g = [f EXCEPT ![r].status = "issued", ![r].certificate = cert]
    BY <1>2, <2>3, <2>4, <2>5, <2>6
  <2>8. f[r].status = "pending" /\ cert = [id |-> id, kind |-> f[r].kind, common_name |-> f[r].common_name]
    BY <1>6, <2>3 DEF cert
  <2>9. QED
    BY <2>1, <2>2, <2>7, <2>8 DEF Lifecycle!Issue
<1>9. QED
  BY <1>2, <1>8

LEMMA NextLifecycle ==
  ASSUME IInv, CertsKept, [Next]_vars
  PROVE  [Lifecycle!Next]_([r \in DOMAIN requests |-> Answer(r)])
<1>1. ASSUME NEW r \in RequestId, NEW kind \in Kind, NEW cn \in CommonName,
             CreateCSRRequest(r, kind, cn)
      PROVE  Lifecycle!Next
  BY <1>1, CreateSubmits DEF Lifecycle!Next
<1>2. ASSUME NEW r \in DOMAIN requests, RejectCSRRequest(r) PROVE Lifecycle!Next
  BY <1>2, RejectRejects DEF Lifecycle!Next
<1>3. ASSUME NEW a \in Approver, MarkCSRRequestIssued(a) PROVE Lifecycle!Next
  BY <1>3, MarkIssues DEF Lifecycle!Next
<1>4. CASE requests' = requests
  BY <1>4, SameAnswers
<1>5. \/ requests' = requests
      \/ \E r \in RequestId, kind \in Kind, cn \in CommonName : CreateCSRRequest(r, kind, cn)
      \/ \E r \in DOMAIN requests : RejectCSRRequest(r)
      \/ \E a \in Approver : MarkCSRRequestIssued(a)
  BY DEF Next, vars, Tick, Open, ApprovalStep, LoadPendingRequest, IssueForRequest, ReadBack,
         Fail, IssueDirectly, Revoke
<1>6. QED
  BY <1>1, <1>2, <1>3, <1>4, <1>5

\* The queue, with its separate store calls, keeps the promise of CSRLifecycle:
\* creating, rejecting and marking a request are its three steps, and every other
\* call, by whomever, leaves the answer to every poll as it was.
THEOREM SpecKeepsLifecycle == Spec => KeepsLifecycle
<1>1. Init => Lifecycle!Init
  BY DEF Init, EmptyTable, Lifecycle!Init
<1>2. IInv /\ [Next]_vars => [Lifecycle!Next]_([r \in DOMAIN requests |-> Answer(r)])
  BY NextIInv, NextLifecycle
<1>3. QED
  BY <1>1, <1>2, SpecIInv, PTL DEF Spec, KeepsLifecycle, Lifecycle!Spec

=============================================================================
