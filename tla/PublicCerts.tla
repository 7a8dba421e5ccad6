----------------------------- MODULE PublicCerts ------------------------------
(***************************************************************************)
(* Certificates from a public ACME authority: get (ops.IssuePublicCert)    *)
(* and renew (cmd/renew.go) over the table public_certs.                   *)
(*                                                                         *)
(* Both open the database, read it, spend minutes on DNS and the ACME      *)
(* order, and only then store what they got, in one transaction.  Other    *)
(* commands run meanwhile: get and renew of the same name, a revocation,   *)
(* the approval of a request for the name (CSRQueue), the clock.           *)
(*                                                                         *)
(* The DNS provider and the authority are external: an order ends with a   *)
(* certificate or the command fails.  The ..._mutant operators are wrong   *)
(* versions that nothing uses.                                             *)
(***************************************************************************)
EXTENDS LeafTable

CONSTANTS
  CertId,              \* ids the table may use (uuid.NewString)
  CommonName,
  SANs,                \* the hashes of normalised sets of names
  Command,             \* commands that may run at once
  Lifetime,            \* how long a certificate lasts, in ticks of the clock
  SkipIfExpiresWithin, \* get --skip-if-expires-within
  Days,                \* renew --days
  MaxTime              \* bound on the clock

ASSUME PublicCertsAssumption ==
  /\ NoId \notin CertId \cup SANs
  /\ Lifetime \in Nat
  /\ SkipIfExpiresWithin \in Nat
  /\ Days \in Nat
  /\ MaxTime \in Nat

VARIABLES
  public_certs,
  sans_hash,    \* that column of public_certs
  command,      \* where each command is
  now

vars == <<public_certs, sans_hash, command, now>>

Idle == [step |-> "idle"]

\* id is the row renew read and will write, NoId for get and until then.
CommandState ==
  {Idle} \cup
    [ step : {"opened", "checked", "ordering", "ordered", "skipped", "not stored"},
      name : {"get", "renew"}, id : CertId \cup {NoId}, common_name : CommonName,
      sans : SANs \cup {NoId}, force : BOOLEAN, not_after : Nat ]

Init ==
  /\ public_certs = EmptyTable
  /\ sans_hash = EmptyTable
  /\ command = [c \in Command |-> Idle]
  /\ now = 0

Tick ==
  /\ now < MaxTime
  /\ now' = now + 1
  /\ UNCHANGED <<public_certs, sans_hash, command>>

Goto(c, step) ==
  /\ command' = [command EXCEPT ![c].step = step]
  /\ UNCHANGED <<public_certs, sans_hash, now>>

\* Every command begins by opening the database.  A renewal learns the SANs
\* from the row it reads.
Open(c, name, cn, sans, force) ==
  /\ command[c] = Idle
  /\ public_certs' = SyncLeaves(public_certs, now)
  /\ command' = [command EXCEPT ![c] =
                   [step |-> "opened", name |-> name, id |-> NoId, common_name |-> cn,
                    sans |-> sans, force |-> force, not_after |-> 0]]
  /\ UNCHANGED <<sans_hash, now>>

LastsBeyond(i, span) == public_certs[i].not_after - now > span

-----------------------------------------------------------------------------
(***************************************************************************)
(* get                                                                     *)
(***************************************************************************)

\* The active certificate of exactly these names.
FindByHash(cn, sans) ==
  {i \in ActiveLeaves(public_certs, cn) : sans_hash[i] = sans}

Identical(c) == FindByHash(command[c].common_name, command[c].sans)

\* Unless forced: an identical certificate that lasts long enough will do.
CheckLifetime(c) ==
  /\ command[c].step = "opened"
  /\ command[c].name = "get"
  /\ IF ~command[c].force /\ \E i \in Identical(c) : LastsBeyond(i, SkipIfExpiresWithin)
     THEN Goto(c, "skipped")
     ELSE Goto(c, "checked")

\* And then any identical certificate will do, forced or not.
CheckIdentical(c) ==
  /\ command[c].step = "checked"
  /\ Goto(c, IF Identical(c) # {} THEN "skipped" ELSE "ordering")

-----------------------------------------------------------------------------
(***************************************************************************)
(* renew                                                                   *)
(***************************************************************************)

ReadActive(c) ==
  /\ command[c].step = "opened"
  /\ command[c].name = "renew"
  /\ \E i \in ActiveLeaves(public_certs, command[c].common_name) :
       command' = [command EXCEPT
         ![c].step = IF ~command[c].force /\ LastsBeyond(i, Days) THEN "skipped" ELSE "ordering",
         ![c].id   = i,
         ![c].sans = sans_hash[i]]
  /\ UNCHANGED <<public_certs, sans_hash, now>>

-----------------------------------------------------------------------------
(***************************************************************************)
(* What both end with                                                      *)
(***************************************************************************)

\* acme.Issue returns a certificate.  renew passes it no credentials of the DNS
\* provider: unless lego finds some elsewhere, its order ends here, with an error (End).
Order(c) ==
  /\ command[c].step = "ordering"
  /\ command' = [command EXCEPT ![c].step = "ordered", ![c].not_after = now + Lifetime]
  /\ UNCHANGED <<public_certs, sans_hash, now>>

NewRow(c) ==
  [common_name |-> command[c].common_name, issuer_id |-> NoId,
   not_after |-> command[c].not_after]

Insert(id, row, sans) ==
  /\ public_certs' = UpsertLeaf(SyncLeaves(public_certs, now), id, row)
  /\ sans_hash' = [i \in DOMAIN sans_hash \cup {id} |->
                     IF i = id THEN sans ELSE sans_hash[i]]

Renewing(c) == command[c].name = "renew"

UpsertNew(c, id) ==
  /\ command[c].step = "ordered"
  /\ ~Renewing(c)
  /\ id \notin DOMAIN public_certs
  /\ Insert(id, NewRow(c), command[c].sans)
  /\ command' = [command EXCEPT ![c] = Idle]
  /\ UNCHANGED now

UpsertRenewed_mutant(c) ==   \* no transaction: what was superseded stays so
  /\ command[c].step = "ordered"
  /\ Renewing(c)
  /\ public_certs' = Supersede(SyncLeaves(public_certs, now), command[c].common_name)
  /\ command' = [command EXCEPT ![c].step = "not stored"]
  /\ UNCHANGED <<sans_hash, now>>

UpsertRenewed_mutant2(c) ==  \* INSERT OR REPLACE
  /\ command[c].step = "ordered"
  /\ Renewing(c)
  /\ Insert(command[c].id, NewRow(c), command[c].sans)
  /\ command' = [command EXCEPT ![c] = Idle]
  /\ UNCHANGED now

\* renew gives Upsert the id of the row it read, which is still there: the
\* primary key fails the INSERT and the whole transaction is rolled back.
UpsertRenewed(c) ==
  /\ command[c].step = "ordered"
  /\ Renewing(c)
  /\ Goto(c, "not stored")

\* The command ends: it has reported how, it failed, or it was killed.
End(c) ==
  /\ command[c] # Idle
  /\ command' = [command EXCEPT ![c] = Idle]
  /\ UNCHANGED <<public_certs, sans_hash, now>>

-----------------------------------------------------------------------------

\* Approving a request stores a certificate for its name, whatever is there.
ApprovePublicCSRRequest(id, cn, sans) ==
  /\ id \notin DOMAIN public_certs
  /\ Insert(id, [common_name |-> cn, issuer_id |-> NoId, not_after |-> now + Lifetime], sans)
  /\ UNCHANGED <<command, now>>

\* revoke --kind public, opened before.
RevokePublicCert(id) ==
  /\ public_certs' = RevokeLeaf(public_certs, id)
  /\ UNCHANGED <<sans_hash, command, now>>

Next ==
  \/ Tick
  \/ \E c \in Command :
       \/ \E cn \in CommonName, force \in BOOLEAN :
            \/ \E sans \in SANs : Open(c, "get", cn, sans, force)
            \/ Open(c, "renew", cn, NoId, force)
       \/ CheckLifetime(c)
       \/ CheckIdentical(c)
       \/ ReadActive(c)
       \/ Order(c)
       \/ \E id \in CertId : UpsertNew(c, id)
       \/ UpsertRenewed(c)
       \/ End(c)
  \/ \E id \in CertId, cn \in CommonName, sans \in SANs : ApprovePublicCSRRequest(id, cn, sans)
  \/ \E id \in DOMAIN public_certs : RevokePublicCert(id)

Spec == Init /\ [][Next]_vars

-----------------------------------------------------------------------------
(***************************************************************************)
(* Properties                                                              *)
(***************************************************************************)

TypeOK ==
  /\ IsLeafTable(public_certs, CertId, {}, CommonName)
  /\ sans_hash \in [DOMAIN public_certs -> SANs]
  /\ command \in [Command -> CommandState]
  /\ now \in Nat

TablesSound == AtMostOneActiveLeaf(public_certs) /\ LeafChain(public_certs)

\* No command, however it fails and whatever runs beside it, leaves a name
\* without an active certificate: only revocation and expiry of the very row
\* that was active do (Upsert makes both its writes in one transaction).
NameKeepsActive ==
  [][ \A i \in DOMAIN public_certs :
        public_certs[i].status = "active" =>
          \/ public_certs'[i].status = "revoked"
          \/ public_certs'[i].status = "expired" /\ public_certs[i].not_after < now
          \/ ActiveLeaves(public_certs', public_certs[i].common_name) # {}
    ]_vars

\* What was once issued stays on record as it was issued, renewals and retries
\* notwithstanding, and no certificate out of use comes back into use.
HistoryPreserved ==
  [][ \A i \in DOMAIN public_certs :
        /\ i \in DOMAIN public_certs'
        /\ [public_certs[i] EXCEPT !.status = "any"] = [public_certs'[i] EXCEPT !.status = "any"]
        /\ sans_hash'[i] = sans_hash[i]
        /\ public_certs'[i].status = "active" => public_certs[i].status = "active"
    ]_vars

\* renew is to "Renew a stored certificate" (cmd/renew.go): what the authority
\* has issued is stored.
RenewalsAreStored == \A c \in Command : command[c].step # "not stored"

=============================================================================
