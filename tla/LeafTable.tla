------------------------------ MODULE LeafTable ------------------------------
(***************************************************************************)
(* One table of leaf certificates (public_certs or private_certs): its     *)
(* rows, and what each statement of internal/storage/storage.go does to    *)
(* the whole table.  A table is a function from ids to rows.  As in        *)
(* CATable, the ..._mutant operators are wrong versions nothing uses.      *)
(***************************************************************************)
EXTENDS Tables

LeafStatus == {"active", "superseded", "expired", "revoked"}

\* A row.  issuer_id is private_certs.intermediate_ca_id; it is NoId in
\* public_certs, whose issuer is outside this database.
LeafRow(Id, Issuer, CommonName) ==
  [ common_name : CommonName,
    status      : LeafStatus,
    supersedes  : Id \cup {NoId},
    issuer_id   : Issuer \cup {NoId},
    not_after   : Nat ]

IsLeafTable(t, Id, Issuer, CommonName) ==
  /\ DOMAIN t \subseteq Id
  /\ t \in [DOMAIN t -> LeafRow(Id, Issuer, CommonName)]

-----------------------------------------------------------------------------

SyncLeaves_mutant(t, now) == t   \* forgets the table

\* UPDATE ... SET status = 'expired' WHERE status = 'active' AND not_after < now
SyncLeaves(t, now) ==
  [i \in DOMAIN t |->
     IF t[i].status = "active" /\ t[i].not_after < now
     THEN [t[i] EXCEPT !.status = "expired"]
     ELSE t[i]]

ActiveLeaves(t, cn) == {i \in DOMAIN t : t[i].common_name = cn /\ t[i].status = "active"}

\* SELECT ... WHERE common_name = ? AND status = 'active'
\* ORDER BY created_at DESC LIMIT 1: the unique index leaves at most one row
\* to choose from.
ActiveLeaf(t, cn) ==
  IF ActiveLeaves(t, cn) = {} THEN NoId ELSE CHOOSE i \in ActiveLeaves(t, cn) : TRUE

Supersede_mutant(t, cn) == t   \* leaves the active row active

\* UPDATE ... SET status = 'superseded' WHERE common_name = ? AND status = 'active'
Supersede(t, cn) ==
  [i \in DOMAIN t |->
     IF i \in ActiveLeaves(t, cn) THEN [t[i] EXCEPT !.status = "superseded"] ELSE t[i]]

\* Looks for the active row after superseding it.
UpsertLeaf_mutant(t, id, rec) ==
  [i \in DOMAIN t \cup {id} |->
     IF i = id
     THEN [ common_name |-> rec.common_name, status |-> "active",
            supersedes |-> ActiveLeaf(Supersede(t, rec.common_name), rec.common_name),
            issuer_id |-> rec.issuer_id, not_after |-> rec.not_after ]
     ELSE Supersede(t, rec.common_name)[i]]

\* Replaces the active row, as the schema without lineage did.
UpsertLeaf_mutant2(t, id, rec) ==
  [i \in (DOMAIN t \ ActiveLeaves(t, rec.common_name)) \cup {id} |->
     IF i = id
     THEN [ common_name |-> rec.common_name, status |-> "active", supersedes |-> NoId,
            issuer_id |-> rec.issuer_id, not_after |-> rec.not_after ]
     ELSE t[i]]

\* A new certificate for rec.common_name takes over from the active one.
UpsertLeaf(t, id, rec) ==
  [i \in DOMAIN t \cup {id} |->
     IF i = id
     THEN [ common_name |-> rec.common_name,
            status      |-> "active",
            supersedes  |-> ActiveLeaf(t, rec.common_name),
            issuer_id   |-> rec.issuer_id,
            not_after   |-> rec.not_after ]
     ELSE Supersede(t, rec.common_name)[i]]

\* UPDATE ... SET status = 'revoked' WHERE id = ? AND status <> 'revoked'
RevokeLeaf(t, id) == [t EXCEPT ![id].status = "revoked"]

-----------------------------------------------------------------------------
(***************************************************************************)
(* What a table of leaf certificates promises.                             *)
(***************************************************************************)

AtMostOneActiveLeaf(t) ==
  \A i, j \in DOMAIN t :
    /\ t[i].common_name = t[j].common_name
    /\ t[i].status = "active"
    /\ t[j].status = "active"
    => i = j

\* Following the links never goes in a circle: in every set of rows one
\* supersedes none of them.
LinksEnd(t) ==
  \A S \in (SUBSET DOMAIN t) \ {{}} : \E i \in S : t[i].supersedes \notin S

\* Each name's history is a chain: links stay inside the name and lead back to
\* a first certificate, nothing is superseded twice, the active row is the end
\* of the chain, and a row marked superseded has its successor in the table.
LeafChain(t) ==
  /\ LinksEnd(t)
  /\ \A i \in DOMAIN t :
       t[i].supersedes # NoId =>
         /\ t[i].supersedes \in DOMAIN t
         /\ t[t[i].supersedes].common_name = t[i].common_name
         /\ t[t[i].supersedes].status # "active"
  /\ \A i, j \in DOMAIN t :
       t[i].supersedes = t[j].supersedes /\ t[i].supersedes # NoId => i = j
  /\ \A i \in DOMAIN t :
       t[i].status = "superseded" => \E j \in DOMAIN t : t[j].supersedes = i

=============================================================================
