------------------------------- MODULE CATable -------------------------------
(***************************************************************************)
(* One table of certificate authorities (private_root_cas or               *)
(* private_intermediate_cas): its rows, and what each statement that       *)
(* internal/storage/storage.go runs on it does to the whole table.         *)
(*                                                                         *)
(* A table is a function from the ids of its rows to the rows.  The SQL    *)
(* text of the two tables is the same up to the table's name, so one set   *)
(* of operators serves both; a root row's parent_id is NoId, that of an    *)
(* intermediate is the id of the root that signed it (root_ca_id).         *)
(*                                                                         *)
(* An operator named ..._mutant is a wrong version of the operator after   *)
(* it; the model never uses it.  Each is a slip the properties must catch. *)
(***************************************************************************)
EXTENDS Tables, FiniteSetsExt

CAStatus == {"active", "retired", "expired", "revoked"}

\* A row: the columns that lifecycle decisions read.  is_trusted is always 1
\* in stored rows; names, keys and certificates are carried as opaque data.
CARow(Id, Parent, Name) ==
  [ name       : Name,
    generation : Nat \ {0},
    status     : CAStatus,
    is_issuing : BOOLEAN,
    supersedes : Id \cup {NoId},
    parent_id  : Parent \cup {NoId},
    not_after  : Nat ]

IsCATable(t, Id, Parent, Name) ==
  /\ DOMAIN t \subseteq Id
  /\ t \in [DOMAIN t -> CARow(Id, Parent, Name)]

-----------------------------------------------------------------------------

IsExpiredAt(row, now) == row.status = "active" /\ row.not_after < now

SyncCAs_mutant(t, now) ==   \* forgets is_issuing
  [i \in DOMAIN t |->
     IF IsExpiredAt(t[i], now) THEN [t[i] EXCEPT !.status = "expired"] ELSE t[i]]

\* UPDATE ... SET status = 'expired', is_issuing = 0
\* WHERE status = 'active' AND not_after < now
SyncCAs(t, now) ==
  [i \in DOMAIN t |->
     IF IsExpiredAt(t[i], now)
     THEN [t[i] EXCEPT !.status = "expired", !.is_issuing = FALSE]
     ELSE t[i]]

Generations(t, name) == {t[i].generation : i \in {j \in DOMAIN t : t[j].name = name}}

NextGeneration_mutant(t, name) ==   \* looks at the active generation only
  Max({0} \cup {t[i].generation : i \in {j \in DOMAIN t : t[j].name = name
                                             /\ t[j].status = "active"}}) + 1

\* SELECT COALESCE(MAX(generation), 0) + 1 FROM ... WHERE name = ?
NextGeneration(t, name) == Max({0} \cup Generations(t, name)) + 1

ActiveCAs(t, name) == {i \in DOMAIN t : t[i].name = name /\ t[i].status = "active"}

\* SELECT ... WHERE name = ? AND status = 'active' ORDER BY generation DESC LIMIT 1
ActiveCA(t, name) ==
  IF ActiveCAs(t, name) = {}
  THEN NoId
  ELSE CHOOSE i \in ActiveCAs(t, name) :
         \A j \in ActiveCAs(t, name) : t[i].generation >= t[j].generation

\* UPDATE ... SET status = 'retired', is_issuing = 0
\* WHERE name = ? AND status = 'active' AND id <> keep
RetireOthers(t, name, keep) ==
  [i \in DOMAIN t |->
     IF i \in ActiveCAs(t, name) \ {keep}
     THEN [t[i] EXCEPT !.status = "retired", !.is_issuing = FALSE]
     ELSE t[i]]

\* Inserts first and retires afterwards, so that the new row is retired too.
UpsertCA_mutant(t, id, rec) ==
  RetireOthers(
    [i \in DOMAIN t \cup {id} |->
       IF i = id
       THEN [ name |-> rec.name, generation |-> NextGeneration(t, rec.name),
              status |-> "active", is_issuing |-> TRUE,
              supersedes |-> ActiveCA(t, rec.name),
              parent_id |-> rec.parent_id, not_after |-> rec.not_after ]
       ELSE t[i]],
    rec.name, NoId)

\* Rotates in place: the generation that is replaced is deleted.
UpsertCA_mutant2(t, id, rec) ==
  [i \in (DOMAIN t \ ActiveCAs(t, rec.name)) \cup {id} |->
     IF i = id
     THEN [ name |-> rec.name, generation |-> NextGeneration(t, rec.name),
            status |-> "active", is_issuing |-> TRUE, supersedes |-> NoId,
            parent_id |-> rec.parent_id, not_after |-> rec.not_after ]
     ELSE t[i]]

\* A new generation of rec.name: the active row is retired and superseded, the
\* new row is active and issuing whatever the caller passed for is_issuing.
UpsertCA(t, id, rec) ==
  [i \in DOMAIN t \cup {id} |->
     IF i = id
     THEN [ name       |-> rec.name,
            generation |-> NextGeneration(t, rec.name),
            status     |-> "active",
            is_issuing |-> TRUE,
            supersedes |-> ActiveCA(t, rec.name),
            parent_id  |-> rec.parent_id,
            not_after  |-> rec.not_after ]
     ELSE RetireOthers(t, rec.name, NoId)[i]]

RetireCA_mutant(t, id) ==   \* no WHERE status NOT IN
  [t EXCEPT ![id] = [@ EXCEPT !.status = "retired", !.is_issuing = FALSE]]

RetireCA_mutant2(t, id) ==   \* the status constant of the leaves
  IF t[id].status \in {"revoked", "expired"}
  THEN t
  ELSE [t EXCEPT ![id] = [@ EXCEPT !.status = "superseded", !.is_issuing = FALSE]]

\* UPDATE ... SET status = 'retired', is_issuing = 0
\* WHERE id = ? AND status NOT IN ('revoked', 'expired')
RetireCA(t, id) ==
  IF t[id].status \in {"revoked", "expired"}
  THEN t
  ELSE [t EXCEPT ![id] = [@ EXCEPT !.status = "retired", !.is_issuing = FALSE]]

\* The status test of Promote: it looks at the stored status only.
MayPromote(t, id) == t[id].status \notin {"revoked", "expired"}

PromoteCA_mutant(t, id) ==   \* leaves the active generation active
  [t EXCEPT ![id] = [@ EXCEPT !.status = "active", !.is_issuing = TRUE]]

\* The other active rows of the name are retired, the target becomes active.
PromoteCA(t, id) ==
  [RetireOthers(t, t[id].name, id) EXCEPT
     ![id] = [@ EXCEPT !.status = "active", !.is_issuing = TRUE]]

-----------------------------------------------------------------------------
(***************************************************************************)
(* What a table of generations promises.                                   *)
(***************************************************************************)

AtMostOneActive(t) ==
  \A i, j \in DOMAIN t :
    t[i].name = t[j].name /\ t[i].status = "active" /\ t[j].status = "active" => i = j

IssuingIffActive(t) == \A i \in DOMAIN t : t[i].is_issuing <=> t[i].status = "active"

\* The generations of a name are numbered 1, 2, ..., k and never reused.
GenerationsNumbered(t) ==
  /\ \A i, j \in DOMAIN t :
       t[i].name = t[j].name /\ t[i].generation = t[j].generation => i = j
  /\ \A i \in DOMAIN t : \A g \in 1 .. t[i].generation :
       \E j \in DOMAIN t : t[j].name = t[i].name /\ t[j].generation = g

\* A generation supersedes an older generation of its own name, or nothing.
SupersedesOlder(t) ==
  \A i \in DOMAIN t :
    t[i].supersedes # NoId =>
      /\ t[i].supersedes \in DOMAIN t
      /\ t[t[i].supersedes].name = t[i].name
      /\ t[t[i].supersedes].generation < t[i].generation

-----------------------------------------------------------------------------
(***************************************************************************)
(* A table as the logical CAs of LogicalCA.                                *)
(***************************************************************************)

LatestGeneration(t, name) == Max({0} \cup Generations(t, name))

GenerationOf(t, name, g) == CHOOSE i \in DOMAIN t : t[i].name = name /\ t[i].generation = g

\* The generations of each name, by number.
HistoryOf(t, Name) ==
  [n \in Name |-> [g \in 1 .. LatestGeneration(t, n) |-> GenerationOf(t, n, g)]]

\* The number of the generation each name issues with.
IssuingOf(t, Name) ==
  [n \in Name |-> IF ActiveCAs(t, n) = {} THEN 0 ELSE t[ActiveCA(t, n)].generation]

=============================================================================
