----------------------------- MODULE PrivatePKI ------------------------------
(***************************************************************************)
(* The private certificate authority of uvoo-certctl: roots, intermediates *)
(* and the leaves they sign, kept in one SQLite database that any number   *)
(* of CLI commands and HTTP requests use at the same time.                 *)
(*                                                                         *)
(* A command opens the database (which first marks what has expired), then *)
(* makes a few separate store calls.  Each store call is one statement or  *)
(* one transaction that starts with an UPDATE, so SQLite's single writer   *)
(* makes it atomic; between two calls of one command every other command,  *)
(* and the clock, may move.  Creating a CA or a leaf is two such calls:    *)
(* read the issuer and sign with it, then insert the signed certificate.   *)
(***************************************************************************)
EXTENDS CATable, LeafTable

CONSTANTS
  RootId, IcaId, CertId,   \* ids the tables may use (uuid.NewString)
  CAName,                  \* logical CA names (--name)
  CommonName,              \* common names of leaves
  Command,                 \* commands and requests that may run at once
  Lifetime,                \* the values of --days, in ticks of the clock
  MaxTime                  \* bound on the clock

ASSUME PrivatePKIAssumption ==
  /\ NoId \notin RootId \cup IcaId \cup CertId
  /\ Lifetime \subseteq Nat
  /\ MaxTime \in Nat

VARIABLES
  rootCAs,           \* private_root_cas
  intermediateCAs,   \* private_intermediate_cas
  privateCerts,      \* private_certs
  command,           \* where each command is, and what it carries to its insert
  now                \* the clock every command reads

vars == <<rootCAs, intermediateCAs, privateCerts, command, now>>

-----------------------------------------------------------------------------

Idle   == [step |-> "idle"]
Opened == [step |-> "opened"]

Signed(kind, name, parent, notAfter) ==
  [step |-> kind, name |-> name, parent |-> parent, not_after |-> notAfter]

CommandState ==
  {Idle, Opened}
    \cup [step : {"root signed"}, name : CAName, parent : {NoId}, not_after : Nat]
    \cup [step : {"intermediate signed"}, name : CAName, parent : RootId, not_after : Nat]
    \cup [step : {"leaf signed"}, name : CommonName, parent : IcaId, not_after : Nat]

Init ==
  /\ rootCAs = EmptyTable
  /\ intermediateCAs = EmptyTable
  /\ privateCerts = EmptyTable
  /\ command = [c \in Command |-> Idle]
  /\ now = 0

Tick ==
  /\ now < MaxTime
  /\ now' = now + 1
  /\ UNCHANGED <<rootCAs, intermediateCAs, privateCerts, command>>

\* syncDerivedStatuses: run by every Open, and first in every transaction.
SyncDerivedStatuses ==
  /\ rootCAs' = SyncCAs(rootCAs, now)
  /\ intermediateCAs' = SyncCAs(intermediateCAs, now)
  /\ privateCerts' = SyncLeaves(privateCerts, now)

Open(c) ==
  /\ command[c] = Idle
  /\ SyncDerivedStatuses
  /\ command' = [command EXCEPT ![c] = Opened]
  /\ UNCHANGED now

\* list, history, doctor, a metrics scrape: Open, reads, Close.
ReadOnlyCommand ==
  /\ SyncDerivedStatuses
  /\ UNCHANGED <<command, now>>

\* A bad flag, a wrong password, a signing or SQL error, a killed process:
\* the command ends before its write, whose transaction is rolled back.
Abort(c) ==
  /\ command[c] # Idle
  /\ command' = [command EXCEPT ![c] = Idle]
  /\ UNCHANGED <<rootCAs, intermediateCAs, privateCerts, now>>

Finish(c) == command' = [command EXCEPT ![c] = Idle]

-----------------------------------------------------------------------------
(***************************************************************************)
(* First call: load the issuer, check it, sign.                            *)
(***************************************************************************)

Sign(c, kind, name, parent, days) ==
  /\ command[c] = Opened
  /\ command' = [command EXCEPT ![c] = Signed(kind, name, parent, now + days)]
  /\ UNCHANGED <<rootCAs, intermediateCAs, privateCerts, now>>

SignRootCA(c, name, days) == Sign(c, "root signed", name, NoId, days)

\* The root is named by id or is the issuing root of a name; both ways end in
\* the same test of its status and is_issuing columns.
SignIntermediateCA(c, r, name, days) ==
  /\ rootCAs[r].status = "active"
  /\ rootCAs[r].is_issuing
  /\ Sign(c, "intermediate signed", name, r, days)

SignLeaf(c, i, cn, days) ==
  /\ intermediateCAs[i].status = "active"
  /\ intermediateCAs[i].is_issuing
  /\ Sign(c, "leaf signed", cn, i, days)

-----------------------------------------------------------------------------
(***************************************************************************)
(* Second call: the transaction that stores what was signed.               *)
(***************************************************************************)

StoreRootCA(c, id) ==
  /\ command[c].step = "root signed"
  /\ id \notin DOMAIN rootCAs
  /\ rootCAs' = UpsertCA(SyncCAs(rootCAs, now), id,
                         [name      |-> command[c].name,
                          parent_id |-> NoId,
                          not_after |-> command[c].not_after])
  /\ intermediateCAs' = SyncCAs(intermediateCAs, now)
  /\ privateCerts' = SyncLeaves(privateCerts, now)
  /\ Finish(c)
  /\ UNCHANGED now

StoreIntermediateCA(c, id) ==
  /\ command[c].step = "intermediate signed"
  /\ id \notin DOMAIN intermediateCAs
  /\ intermediateCAs' = UpsertCA(SyncCAs(intermediateCAs, now), id,
                                 [name      |-> command[c].name,
                                  parent_id |-> command[c].parent,
                                  not_after |-> command[c].not_after])
  /\ rootCAs' = SyncCAs(rootCAs, now)
  /\ privateCerts' = SyncLeaves(privateCerts, now)
  /\ Finish(c)
  /\ UNCHANGED now

StoreLeaf(c, id) ==
  /\ command[c].step = "leaf signed"
  /\ id \notin DOMAIN privateCerts
  /\ privateCerts' = UpsertLeaf(SyncLeaves(privateCerts, now), id,
                                [common_name |-> command[c].name,
                                 issuer_id   |-> command[c].parent,
                                 not_after   |-> command[c].not_after])
  /\ rootCAs' = SyncCAs(rootCAs, now)
  /\ intermediateCAs' = SyncCAs(intermediateCAs, now)
  /\ Finish(c)
  /\ UNCHANGED now

-----------------------------------------------------------------------------
(***************************************************************************)
(* Operator commands on stored rows: retire, promote, revoke.              *)
(***************************************************************************)

RetireRootCA(c, id) ==
  /\ command[c] = Opened
  /\ rootCAs' = RetireCA(rootCAs, id)
  /\ Finish(c)
  /\ UNCHANGED <<intermediateCAs, privateCerts, now>>

RetireIntermediateCA(c, id) ==
  /\ command[c] = Opened
  /\ intermediateCAs' = RetireCA(intermediateCAs, id)
  /\ Finish(c)
  /\ UNCHANGED <<rootCAs, privateCerts, now>>

\* A refused promotion rolls its transaction back: that is Abort.
PromoteRootCA(c, id) ==
  /\ command[c] = Opened
  /\ MayPromote(SyncCAs(rootCAs, now), id)
  /\ rootCAs' = PromoteCA(SyncCAs(rootCAs, now), id)
  /\ intermediateCAs' = SyncCAs(intermediateCAs, now)
  /\ privateCerts' = SyncLeaves(privateCerts, now)
  /\ Finish(c)
  /\ UNCHANGED now

PromoteIntermediateCA(c, id) ==
  /\ command[c] = Opened
  /\ MayPromote(SyncCAs(intermediateCAs, now), id)
  /\ intermediateCAs' = PromoteCA(SyncCAs(intermediateCAs, now), id)
  /\ rootCAs' = SyncCAs(rootCAs, now)
  /\ privateCerts' = SyncLeaves(privateCerts, now)
  /\ Finish(c)
  /\ UNCHANGED now

RevokePrivateCert(c, id) ==
  /\ command[c] = Opened
  /\ privateCerts' = RevokeLeaf(privateCerts, id)
  /\ Finish(c)
  /\ UNCHANGED <<rootCAs, intermediateCAs, now>>

-----------------------------------------------------------------------------

RootStep(c) ==
  \/ \E n \in CAName, d \in Lifetime : SignRootCA(c, n, d)
  \/ \E id \in RootId : StoreRootCA(c, id)
  \/ \E id \in DOMAIN rootCAs : RetireRootCA(c, id) \/ PromoteRootCA(c, id)

IntermediateStep(c) ==
  \/ \E r \in DOMAIN rootCAs, n \in CAName, d \in Lifetime :
       SignIntermediateCA(c, r, n, d)
  \/ \E id \in IcaId : StoreIntermediateCA(c, id)
  \/ \E id \in DOMAIN intermediateCAs :
       RetireIntermediateCA(c, id) \/ PromoteIntermediateCA(c, id)

LeafStep(c) ==
  \/ \E i \in DOMAIN intermediateCAs, n \in CommonName, d \in Lifetime :
       SignLeaf(c, i, n, d)
  \/ \E id \in CertId : StoreLeaf(c, id)
  \/ \E id \in DOMAIN privateCerts : RevokePrivateCert(c, id)

Next ==
  \/ Tick
  \/ ReadOnlyCommand
  \/ \E c \in Command :
       Open(c) \/ Abort(c) \/ RootStep(c) \/ IntermediateStep(c) \/ LeafStep(c)

Spec == Init /\ [][Next]_vars

-----------------------------------------------------------------------------
(***************************************************************************)
(* Invariants                                                              *)
(***************************************************************************)

\* The tables hold rows and the commands are at known steps.
TypeOK ==
  /\ IsCATable(rootCAs, RootId, {}, CAName)
  /\ IsCATable(intermediateCAs, IcaId, RootId, CAName)
  /\ IsLeafTable(privateCerts, CertId, IcaId, CommonName)
  /\ command \in [Command -> CommandState]
  /\ now \in Nat

\* A logical CA name and a common name never have two active rows, whatever
\* commands run at once (README "Rotation model"; doctor's *_active_count):
\* "look up the active row" has one answer, and the unique indexes never fire.
OneActivePerName ==
  /\ AtMostOneActive(rootCAs)
  /\ AtMostOneActive(intermediateCAs)
  /\ AtMostOneActiveLeaf(privateCerts)

\* is_issuing and status never disagree: every statement that moves one of the
\* two columns moves the other (doctor's *_non_active_issuing).
IssuingMatchesStatus == IssuingIffActive(rootCAs) /\ IssuingIffActive(intermediateCAs)

\* The generations under a name are 1..k without gap or reuse, although two
\* rotations of one name may be in flight and the number is read back from the
\* table each time (nextGenerationTx).
GenerationsInOrder == GenerationsNumbered(rootCAs) /\ GenerationsNumbered(intermediateCAs)

\* History can be followed: a CA generation supersedes an older one of its
\* name, and the leaves of a name form a chain that ends in the active one
\* (doctor's *_lineage).
LineageSound ==
  /\ SupersedesOlder(rootCAs)
  /\ SupersedesOlder(intermediateCAs)
  /\ LeafChain(privateCerts)

\* Every certificate's issuer is stored, although it was read by an earlier
\* call than the one that inserts (doctor's intermediate_root_ref and
\* private_issuer_ref; the foreign keys), and so is the issuer of a
\* certificate that is signed and not yet stored.
IssuersStored ==
  /\ \A i \in DOMAIN intermediateCAs : intermediateCAs[i].parent_id \in DOMAIN rootCAs
  /\ \A i \in DOMAIN privateCerts : privateCerts[i].issuer_id \in DOMAIN intermediateCAs
  /\ \A c \in Command :
       /\ command[c].step = "intermediate signed" => command[c].parent \in DOMAIN rootCAs
       /\ command[c].step = "leaf signed" => command[c].parent \in DOMAIN intermediateCAs

-----------------------------------------------------------------------------
(***************************************************************************)
(* Action properties                                                       *)
(***************************************************************************)

CAIdentity(row)   == <<row.name, row.generation, row.supersedes, row.parent_id, row.not_after>>
LeafIdentity(row) == <<row.common_name, row.supersedes, row.issuer_id, row.not_after>>

\* Rotation adds rows and changes no certificate: a stored row is never lost
\* and keeps everything but its status, and a new row continues a row that was
\* already there (CHANGELOG "immutable rotation").
HistoryPreserved ==
  [][ /\ \A i \in DOMAIN rootCAs :
           i \in DOMAIN rootCAs' /\ CAIdentity(rootCAs'[i]) = CAIdentity(rootCAs[i])
      /\ \A i \in DOMAIN intermediateCAs :
           /\ i \in DOMAIN intermediateCAs'
           /\ CAIdentity(intermediateCAs'[i]) = CAIdentity(intermediateCAs[i])
      /\ \A i \in DOMAIN privateCerts :
           /\ i \in DOMAIN privateCerts'
           /\ LeafIdentity(privateCerts'[i]) = LeafIdentity(privateCerts[i])
      /\ \A i \in DOMAIN privateCerts' \ DOMAIN privateCerts :
           privateCerts'[i].supersedes \in DOMAIN privateCerts \cup {NoId}
    ]_<<rootCAs, intermediateCAs, privateCerts>>

CAMoves ==
  { <<"active", "retired">>, <<"active", "expired">>, <<"retired", "active">> }

LeafMoves ==
  { <<"active", "superseded">>, <<"active", "expired">>, <<"active", "revoked">>,
    <<"superseded", "revoked">>, <<"expired", "revoked">> }

Moves(t, u, moves) ==
  \A i \in DOMAIN t : t[i].status # u[i].status => <<t[i].status, u[i].status>> \in moves

\* An expired CA and a revoked leaf stay so; only a retired CA generation can
\* come back, and a leaf never does.
StatusMovesLegal ==
  [][ /\ Moves(rootCAs, rootCAs', CAMoves)
      /\ Moves(intermediateCAs, intermediateCAs', CAMoves)
      /\ Moves(privateCerts, privateCerts', LeafMoves)
    ]_<<rootCAs, intermediateCAs, privateCerts>>

\* Name n of table t loses its issuing generation in a step to u.
LosesIssuer(t, u, n) == ActiveCAs(t, n) # {} /\ ActiveCAs(u, n) = {}

ByExpiryOrRetire(t, u, n) ==
  \E i \in ActiveCAs(t, n) :
    \/ u[i].status = "expired"
    \/ u[i].status = "retired" /\ u = [t EXCEPT ![i] = u[i]]

\* Rotating or promoting never leaves a name without an issuing generation: it
\* loses one only to the clock or to a retire command for that very row.
RotationHasNoGap ==
  [][ \A n \in CAName :
        /\ LosesIssuer(rootCAs, rootCAs', n) => ByExpiryOrRetire(rootCAs, rootCAs', n)
        /\ LosesIssuer(intermediateCAs, intermediateCAs', n)
             => ByExpiryOrRetire(intermediateCAs, intermediateCAs', n)
    ]_<<rootCAs, intermediateCAs>>

-----------------------------------------------------------------------------
(***************************************************************************)
(* What the names of CAs promise                                           *)
(***************************************************************************)

Roots == INSTANCE LogicalCA
  WITH history <- HistoryOf(rootCAs, CAName), issuing <- IssuingOf(rootCAs, CAName),
       Id <- RootId, Name <- CAName

Intermediates == INSTANCE LogicalCA
  WITH history <- HistoryOf(intermediateCAs, CAName),
       issuing <- IssuingOf(intermediateCAs, CAName),
       Id <- IcaId, Name <- CAName

\* Both tables, under any number of commands of several calls, keep the promise of
\* LogicalCA: generations are only added, and issuing passes from one to the next
\* in one step.
KeepsGenerations == Roots!Spec /\ Intermediates!Spec

=============================================================================
