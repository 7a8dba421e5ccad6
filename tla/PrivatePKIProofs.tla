-------------------------- MODULE PrivatePKIProofs ---------------------------
(***************************************************************************)
(* PrivatePKI is correct for every set of ids, names and commands and      *)
(* every clock, and so is what Doctor reports of it.                       *)
(*                                                                         *)
(* Argument: each table is good (TableLemmas), and the issuer a command    *)
(* has read stays stored until the command inserts.  The inductive         *)
(* invariant needs two things the checked invariants do not say: the       *)
(* numbers of a name form an interval, so that MAX + 1 exists, and the     *)
(* links, numbers and statuses of a table are good together, because the   *)
(* next link and number are computed from the present ones.                *)
(*                                                                         *)
(* A report holds tables of different moments.  Each was good when it was  *)
(* read, rows are never lost, and a table is read before the one its rows  *)
(* refer to: that makes them fit each other.                               *)
(***************************************************************************)
EXTENDS Doctor, TableLemmas, FiniteSetTheorems, SequenceTheorems

GoodTables ==
  /\ GoodCAs(rootCAs, RootId, {}, CAName)
  /\ GoodCAs(intermediateCAs, IcaId, RootId, CAName)
  /\ GoodLeaves(privateCerts, CertId, IcaId, CommonName)

IInv ==
  /\ GoodTables
  /\ command \in [Command -> CommandState]
  /\ now \in Nat
  /\ IssuersStored

\* The tables change, but no row disappears and no row's issuer changes.
IssuersKept ==
  /\ DOMAIN rootCAs \subseteq DOMAIN rootCAs'
  /\ DOMAIN intermediateCAs' = DOMAIN intermediateCAs
  /\ DOMAIN privateCerts' = DOMAIN privateCerts
  /\ \A i \in DOMAIN intermediateCAs :
       intermediateCAs'[i].parent_id = intermediateCAs[i].parent_id
  /\ \A i \in DOMAIN privateCerts : privateCerts'[i].issuer_id = privateCerts[i].issuer_id

\* A command that ends, opens or stays where it is needs no issuer.
CommandsAdvance ==
  command' = command
    \/ \E c \in Command : \E s \in {Idle, Opened} : command' = [command EXCEPT ![c] = s]

\* What a command carries from its signing step to its insert.
LEMMA SignedFields ==
  ASSUME NEW s \in CommandState
  PROVE  /\ s.step = "root signed" =>
              s.name \in CAName /\ s.not_after \in Nat
         /\ s.step = "intermediate signed" =>
              s.name \in CAName /\ s.parent \in RootId /\ s.not_after \in Nat
         /\ s.step = "leaf signed" =>
              s.name \in CommonName /\ s.parent \in IcaId /\ s.not_after \in Nat
<1>1. CASE s \in {Idle, Opened}
  <2>1. s.step \in {"idle", "opened"}
    BY <1>1 DEF Idle, Opened
  <2>2. QED
    BY <2>1
<1>2. CASE s \in [step : {"root signed"}, name : CAName, parent : {NoId}, not_after : Nat]
  BY <1>2
<1>3. CASE s \in [step : {"intermediate signed"}, name : CAName, parent : RootId, not_after : Nat]
  BY <1>3
<1>4. CASE s \in [step : {"leaf signed"}, name : CommonName, parent : IcaId, not_after : Nat]
  BY <1>4
<1>5. QED
  BY <1>1, <1>2, <1>3, <1>4 DEF CommandState

LEMMA InitIInv == Init => IInv
<1> SUFFICES ASSUME Init PROVE IInv
  OBVIOUS
<1>1. GoodTables
  BY EmptyGood, EmptyLeavesGood DEF Init, GoodTables
<1>2. command \in [Command -> CommandState] /\ now \in Nat
  BY DEF Init, CommandState
<1>3. IssuersStored
  BY DEF Init, IssuersStored, EmptyTable, Idle
<1>4. QED
  BY <1>1, <1>2, <1>3 DEF IInv

LEMMA CommandTyped ==
  ASSUME command \in [Command -> CommandState], CommandsAdvance
  PROVE  /\ command' \in [Command -> CommandState]
         /\ \A c \in Command : command'[c] = command[c]
              \/ command'[c].step \notin {"intermediate signed", "leaf signed"}
<1>1. CASE command' = command
  BY <1>1
<1>2. ASSUME NEW c \in Command, NEW s \in {Idle, Opened}, command' = [command EXCEPT ![c] = s]
      PROVE  /\ command' \in [Command -> CommandState]
             /\ \A d \in Command : command'[d] = command[d]
                  \/ command'[d].step \notin {"intermediate signed", "leaf signed"}
  <2>1. s \in CommandState
    BY DEF CommandState
  <2>2. CASE s = Idle
    BY <1>2, <2>1, <2>2 DEF Idle
  <2>3. CASE s = Opened
    BY <1>2, <2>1, <2>3 DEF Opened
  <2>4. QED
    BY <2>2, <2>3
<1>3. QED
  BY <1>1, <1>2 DEF CommandsAdvance

LEMMA IssuersKeptStored ==
  ASSUME IssuersStored, IssuersKept, command \in [Command -> CommandState], CommandsAdvance
  PROVE  IssuersStored'
<1>1. \A c \in Command : command'[c] = command[c]
        \/ command'[c].step \notin {"intermediate signed", "leaf signed"}
  BY CommandTyped
<1>2. QED
  BY <1>1 DEF IssuersStored, IssuersKept

\* syncDerivedStatuses over the whole database.
LEMMA SyncTables ==
  ASSUME GoodTables
  PROVE  /\ GoodUpdate(rootCAs, SyncCAs(rootCAs, now), RootId, {}, CAName)
         /\ GoodUpdate(intermediateCAs, SyncCAs(intermediateCAs, now), IcaId, RootId, CAName)
         /\ GoodLeafUpdate(privateCerts, SyncLeaves(privateCerts, now),
                           CertId, IcaId, CommonName)
BY SyncGood, SyncLeavesGood DEF GoodTables

\* A step that updates rows in place, in good ways, keeps the invariant.
LEMMA UpdateStep ==
  ASSUME IInv,
         rootCAs' = rootCAs \/ GoodUpdate(rootCAs, rootCAs', RootId, {}, CAName),
         intermediateCAs' = intermediateCAs
           \/ GoodUpdate(intermediateCAs, intermediateCAs', IcaId, RootId, CAName),
         privateCerts' = privateCerts
           \/ GoodLeafUpdate(privateCerts, privateCerts', CertId, IcaId, CommonName),
         now' \in Nat,
         CommandsAdvance
  PROVE  IInv'
<1>1. GoodTables'
  BY DEF IInv, GoodTables, GoodUpdate, GoodLeafUpdate
<1>2. IssuersKept
  BY DEF IssuersKept, GoodUpdate, GoodLeafUpdate, SameHistory, Demotes
<1>3. IssuersStored'
  BY <1>2, IssuersKeptStored DEF IInv
<1>4. command' \in [Command -> CommandState]
  BY CommandTyped DEF IInv
<1>5. QED
  BY <1>1, <1>3, <1>4 DEF IInv

LEMMA NatSum == \A a, b \in Nat : a + b \in Nat
OBVIOUS

\* A step that signs reads the issuer from its table.
LEMMA SignStep ==
  ASSUME IInv, NEW c \in Command, NEW kind, NEW name, NEW parent, NEW days \in Lifetime,
         Sign(c, kind, name, parent, days),
         \/ kind = "root signed" /\ name \in CAName /\ parent = NoId
         \/ kind = "intermediate signed" /\ name \in CAName /\ parent \in DOMAIN rootCAs
         \/ kind = "leaf signed" /\ name \in CommonName /\ parent \in DOMAIN intermediateCAs
  PROVE  IInv'
<1> DEFINE s == Signed(kind, name, parent, now + days)
<1>1. now + days \in Nat
  <2>1. now \in Nat
    BY DEF IInv
  <2>2. days \in Nat
    <3>1. Lifetime \subseteq Nat
      BY PrivatePKIAssumption
    <3>2. QED
      BY <3>1
  <2>3. QED
    BY <2>1, <2>2, NatSum
<1>2. DOMAIN rootCAs \subseteq RootId /\ DOMAIN intermediateCAs \subseteq IcaId
  BY DEF IInv, GoodTables, GoodCAs, IsCATable
<1>3. s \in CommandState
  BY <1>1, <1>2 DEF Signed, CommandState
<1>4. command' = [command EXCEPT ![c] = s] /\ UNCHANGED <<rootCAs, intermediateCAs, privateCerts, now>>
  BY DEF Sign
<1>5. command' \in [Command -> CommandState]
  BY <1>3, <1>4 DEF IInv
<1>6. /\ s.step = "intermediate signed" => s.parent \in DOMAIN rootCAs
      /\ s.step = "leaf signed" => s.parent \in DOMAIN intermediateCAs
  BY DEF Signed
<1>7. IssuersStored'
  BY <1>4, <1>6 DEF IInv, IssuersStored
<1>8. GoodTables'
  BY <1>4 DEF IInv, GoodTables
<1>9. QED
  BY <1>4, <1>5, <1>7, <1>8 DEF IInv

LEMMA StoreRootStep ==
  ASSUME IInv, NEW c \in Command, NEW id \in RootId, StoreRootCA(c, id)
  PROVE  IInv'
<1> DEFINE rec == [name |-> command[c].name, parent_id |-> NoId,
                   not_after |-> command[c].not_after]
           t == SyncCAs(rootCAs, now)
<1>1. rec.name \in CAName /\ rec.parent_id = NoId /\ rec.not_after \in Nat
  BY SignedFields DEF IInv, StoreRootCA
<1>2. GoodCAs(t, RootId, {}, CAName) /\ DOMAIN t = DOMAIN rootCAs
  BY SyncTables DEF IInv, GoodUpdate, SameHistory
<1>3. id \notin DOMAIN t /\ NoId \notin RootId
  BY <1>2, PrivatePKIAssumption DEF StoreRootCA
<1>4. /\ GoodCAs(UpsertCA(t, id, rec), RootId, {}, CAName)
      /\ DOMAIN UpsertCA(t, id, rec) = DOMAIN t \cup {id}
  <2>1. rec.parent_id \in {} \cup {NoId}
    BY <1>1
  <2> HIDE DEF rec, t
  <2>2. GoodInsert(t, UpsertCA(t, id, rec), id, rec, RootId, {}, CAName)
    BY <1>1, <1>2, <1>3, <2>1, UpsertGood
  <2>3. QED
    BY <2>2 DEF GoodInsert
<1>5. rootCAs' = UpsertCA(t, id, rec)
  BY DEF StoreRootCA
<1>6. /\ GoodUpdate(intermediateCAs, intermediateCAs', IcaId, RootId, CAName)
      /\ GoodLeafUpdate(privateCerts, privateCerts', CertId, IcaId, CommonName)
  BY SyncTables DEF IInv, StoreRootCA
<1>7. GoodTables'
  BY <1>4, <1>5, <1>6 DEF GoodTables, GoodUpdate, GoodLeafUpdate
<1>8. IssuersKept
  BY <1>2, <1>4, <1>5, <1>6 DEF IssuersKept, GoodUpdate, GoodLeafUpdate, SameHistory, Demotes
<1>9. CommandsAdvance /\ now' = now
  BY DEF CommandsAdvance, StoreRootCA, Finish
<1>10. QED
  BY <1>7, <1>8, <1>9, IssuersKeptStored, CommandTyped DEF IInv

LEMMA StoreIntermediateStep ==
  ASSUME IInv, NEW c \in Command, NEW id \in IcaId, StoreIntermediateCA(c, id)
  PROVE  IInv'
<1> DEFINE rec == [name |-> command[c].name, parent_id |-> command[c].parent,
                   not_after |-> command[c].not_after]
           t == SyncCAs(intermediateCAs, now)
<1>1. rec.name \in CAName /\ rec.parent_id \in RootId /\ rec.not_after \in Nat
  BY SignedFields DEF IInv, StoreIntermediateCA
<1>2. rec.parent_id \in DOMAIN rootCAs
  BY DEF IInv, IssuersStored, StoreIntermediateCA
<1>3. /\ GoodCAs(t, IcaId, RootId, CAName)
      /\ DOMAIN t = DOMAIN intermediateCAs
      /\ \A i \in DOMAIN t : t[i].parent_id = intermediateCAs[i].parent_id
  BY SyncTables DEF IInv, GoodUpdate, SameHistory
<1>4. id \notin DOMAIN t /\ NoId \notin IcaId
  BY <1>3, PrivatePKIAssumption DEF StoreIntermediateCA
<1>5. /\ GoodCAs(UpsertCA(t, id, rec), IcaId, RootId, CAName)
      /\ DOMAIN UpsertCA(t, id, rec) = DOMAIN t \cup {id}
      /\ UpsertCA(t, id, rec)[id].parent_id = rec.parent_id
      /\ \A i \in DOMAIN t : UpsertCA(t, id, rec)[i].parent_id = t[i].parent_id
  <2>1. rec.parent_id \in RootId \cup {NoId}
    BY <1>1
  <2> HIDE DEF rec, t
  <2>2. GoodInsert(t, UpsertCA(t, id, rec), id, rec, IcaId, RootId, CAName)
    BY <1>1, <1>3, <1>4, <2>1, UpsertGood
  <2>3. QED
    BY <2>2 DEF GoodInsert
<1>6. intermediateCAs' = UpsertCA(t, id, rec)
  BY DEF StoreIntermediateCA
<1>7. /\ GoodUpdate(rootCAs, rootCAs', RootId, {}, CAName)
      /\ GoodLeafUpdate(privateCerts, privateCerts', CertId, IcaId, CommonName)
  BY SyncTables DEF IInv, StoreIntermediateCA
<1>8. GoodTables'
  BY <1>5, <1>6, <1>7 DEF GoodTables, GoodUpdate, GoodLeafUpdate
<1>9. CommandsAdvance /\ now' = now
  BY DEF CommandsAdvance, StoreIntermediateCA, Finish
<1>10. /\ DOMAIN rootCAs' = DOMAIN rootCAs
       /\ DOMAIN privateCerts' = DOMAIN privateCerts
       /\ \A i \in DOMAIN privateCerts : privateCerts'[i].issuer_id = privateCerts[i].issuer_id
  BY <1>7 DEF GoodUpdate, GoodLeafUpdate, SameHistory, Demotes
<1>11. \A d \in Command : command'[d] = command[d]
         \/ command'[d].step \notin {"intermediate signed", "leaf signed"}
  BY <1>9, CommandTyped DEF IInv
<1>12. \A i \in DOMAIN intermediateCAs' : intermediateCAs'[i].parent_id \in DOMAIN rootCAs
  BY <1>2, <1>3, <1>5, <1>6 DEF IInv, IssuersStored
<1>13. IssuersStored'
  BY <1>3, <1>5, <1>6, <1>10, <1>11, <1>12 DEF IInv, IssuersStored
<1>14. QED
  BY <1>8, <1>9, <1>13, CommandTyped DEF IInv

LEMMA StoreLeafStep ==
  ASSUME IInv, NEW c \in Command, NEW id \in CertId, StoreLeaf(c, id)
  PROVE  IInv'
<1> DEFINE rec == [common_name |-> command[c].name, issuer_id |-> command[c].parent,
                   not_after |-> command[c].not_after]
           t == SyncLeaves(privateCerts, now)
<1>1. rec.common_name \in CommonName /\ rec.issuer_id \in IcaId /\ rec.not_after \in Nat
  BY SignedFields DEF IInv, StoreLeaf
<1>2. rec.issuer_id \in DOMAIN intermediateCAs
  BY DEF IInv, IssuersStored, StoreLeaf
<1>3. /\ GoodLeaves(t, CertId, IcaId, CommonName)
      /\ DOMAIN t = DOMAIN privateCerts
      /\ \A i \in DOMAIN t : t[i].issuer_id = privateCerts[i].issuer_id
  BY SyncTables DEF IInv, GoodLeafUpdate, Demotes
<1>4. id \notin DOMAIN t /\ NoId \notin CertId
  BY <1>3, PrivatePKIAssumption DEF StoreLeaf
<1>5. /\ GoodLeaves(UpsertLeaf(t, id, rec), CertId, IcaId, CommonName)
      /\ DOMAIN UpsertLeaf(t, id, rec) = DOMAIN t \cup {id}
      /\ UpsertLeaf(t, id, rec)[id].issuer_id = rec.issuer_id
      /\ \A i \in DOMAIN t : UpsertLeaf(t, id, rec)[i].issuer_id = t[i].issuer_id
  <2>1. rec.issuer_id \in IcaId \cup {NoId}
    BY <1>1
  <2> HIDE DEF rec, t
  <2>2. GoodLeafInsert(t, UpsertLeaf(t, id, rec), id, rec, CertId, IcaId, CommonName)
    BY <1>1, <1>3, <1>4, <2>1, UpsertLeafGood
  <2>3. QED
    BY <2>2 DEF GoodLeafInsert
<1>6. privateCerts' = UpsertLeaf(t, id, rec)
  BY DEF StoreLeaf
<1>7. /\ GoodUpdate(rootCAs, rootCAs', RootId, {}, CAName)
      /\ GoodUpdate(intermediateCAs, intermediateCAs', IcaId, RootId, CAName)
  BY SyncTables DEF IInv, StoreLeaf
<1>8. GoodTables'
  BY <1>5, <1>6, <1>7 DEF GoodTables, GoodUpdate
<1>9. CommandsAdvance /\ now' = now
  BY DEF CommandsAdvance, StoreLeaf, Finish
<1>10. /\ DOMAIN rootCAs' = DOMAIN rootCAs
       /\ DOMAIN intermediateCAs' = DOMAIN intermediateCAs
       /\ \A i \in DOMAIN intermediateCAs :
            intermediateCAs'[i].parent_id = intermediateCAs[i].parent_id
  BY <1>7 DEF GoodUpdate, SameHistory
<1>11. \A d \in Command : command'[d] = command[d]
         \/ command'[d].step \notin {"intermediate signed", "leaf signed"}
  BY <1>9, CommandTyped DEF IInv
<1>12. \A i \in DOMAIN privateCerts' : privateCerts'[i].issuer_id \in DOMAIN intermediateCAs
  BY <1>2, <1>3, <1>5, <1>6 DEF IInv, IssuersStored
<1>13. IssuersStored'
  BY <1>10, <1>11, <1>12 DEF IInv, IssuersStored
<1>14. QED
  BY <1>8, <1>9, <1>13, CommandTyped DEF IInv

\* Promotion is a sync followed by the promotion itself.
LEMMA PromoteAfterSync ==
  ASSUME NEW Id, NEW Parent, NEW Name, NEW t, NEW id \in DOMAIN t,
         GoodCAs(t, Id, Parent, Name)
  PROVE  GoodUpdate(t, PromoteCA(SyncCAs(t, now), id), Id, Parent, Name)
<1> DEFINE v == SyncCAs(t, now)
           u == PromoteCA(v, id)
<1>1. GoodUpdate(t, v, Id, Parent, Name)
  BY SyncGood
<1>2. GoodCAs(v, Id, Parent, Name) /\ SameHistory(t, v)
  BY <1>1 DEF GoodUpdate
<1>3. id \in DOMAIN v
  BY <1>2 DEF SameHistory
<1> HIDE DEF v
<1>4. GoodUpdate(v, u, Id, Parent, Name)
  BY <1>2, <1>3, PromoteGood
<1> HIDE DEF u
<1>5. SameHistory(t, u)
  BY <1>2, <1>4 DEF GoodUpdate, SameHistory
<1>6. GoodUpdate(t, u, Id, Parent, Name)
  BY <1>4, <1>5 DEF GoodUpdate
<1>7. QED
  BY <1>6 DEF u, v

LEMMA NextIInv == IInv /\ [Next]_vars => IInv'
<1> SUFFICES ASSUME IInv, [Next]_vars PROVE IInv'
  OBVIOUS
<1>1. CASE UNCHANGED vars
  BY <1>1, UpdateStep DEF vars, IInv, CommandsAdvance
<1>2. CASE Tick
  BY <1>2, UpdateStep DEF Tick, IInv, CommandsAdvance
<1>3. CASE ReadOnlyCommand
  BY <1>3, UpdateStep, SyncTables
  DEF ReadOnlyCommand, SyncDerivedStatuses, IInv, CommandsAdvance
<1>4. ASSUME NEW c \in Command, Open(c) PROVE IInv'
  BY <1>4, UpdateStep, SyncTables DEF Open, SyncDerivedStatuses, IInv, CommandsAdvance
<1>5. ASSUME NEW c \in Command, Abort(c) PROVE IInv'
  BY <1>5, UpdateStep DEF Abort, IInv, CommandsAdvance
<1>6. ASSUME NEW c \in Command, RootStep(c) PROVE IInv'
  <2>1. ASSUME NEW n \in CAName, NEW d \in Lifetime, SignRootCA(c, n, d) PROVE IInv'
    BY <2>1, SignStep DEF SignRootCA
  <2>2. ASSUME NEW id \in RootId, StoreRootCA(c, id) PROVE IInv'
    BY <2>2, StoreRootStep
  <2>3. ASSUME NEW id \in DOMAIN rootCAs, RetireRootCA(c, id) PROVE IInv'
    <3>1. GoodUpdate(rootCAs, rootCAs', RootId, {}, CAName)
      BY <2>3, RetireGood DEF RetireRootCA, IInv, GoodTables
    <3>2. QED
      BY <2>3, <3>1, UpdateStep DEF RetireRootCA, Finish, CommandsAdvance, IInv
  <2>4. ASSUME NEW id \in DOMAIN rootCAs, PromoteRootCA(c, id) PROVE IInv'
    <3>1. GoodUpdate(rootCAs, rootCAs', RootId, {}, CAName)
      BY <2>4, PromoteAfterSync DEF PromoteRootCA, IInv, GoodTables
    <3>2. QED
      BY <2>4, <3>1, UpdateStep, SyncTables
      DEF PromoteRootCA, Finish, CommandsAdvance, IInv
  <2>5. QED
    BY <1>6, <2>1, <2>2, <2>3, <2>4 DEF RootStep
<1>7. ASSUME NEW c \in Command, IntermediateStep(c) PROVE IInv'
  <2>1. ASSUME NEW r \in DOMAIN rootCAs, NEW n \in CAName, NEW d \in Lifetime,
               SignIntermediateCA(c, r, n, d)
        PROVE  IInv'
    BY <2>1, SignStep DEF SignIntermediateCA
  <2>2. ASSUME NEW id \in IcaId, StoreIntermediateCA(c, id) PROVE IInv'
    BY <2>2, StoreIntermediateStep
  <2>3. ASSUME NEW id \in DOMAIN intermediateCAs, RetireIntermediateCA(c, id) PROVE IInv'
    <3>1. GoodUpdate(intermediateCAs, intermediateCAs', IcaId, RootId, CAName)
      BY <2>3, RetireGood DEF RetireIntermediateCA, IInv, GoodTables
    <3>2. QED
      BY <2>3, <3>1, UpdateStep DEF RetireIntermediateCA, Finish, CommandsAdvance, IInv
  <2>4. ASSUME NEW id \in DOMAIN intermediateCAs, PromoteIntermediateCA(c, id) PROVE IInv'
    <3>1. GoodUpdate(intermediateCAs, intermediateCAs', IcaId, RootId, CAName)
      BY <2>4, PromoteAfterSync DEF PromoteIntermediateCA, IInv, GoodTables
    <3>2. QED
      BY <2>4, <3>1, UpdateStep, SyncTables
      DEF PromoteIntermediateCA, Finish, CommandsAdvance, IInv
  <2>5. QED
    BY <1>7, <2>1, <2>2, <2>3, <2>4 DEF IntermediateStep
<1>8. ASSUME NEW c \in Command, LeafStep(c) PROVE IInv'
  <2>1. ASSUME NEW i \in DOMAIN intermediateCAs, NEW n \in CommonName, NEW d \in Lifetime,
               SignLeaf(c, i, n, d)
        PROVE  IInv'
    BY <2>1, SignStep DEF SignLeaf
  <2>2. ASSUME NEW id \in CertId, StoreLeaf(c, id) PROVE IInv'
    BY <2>2, StoreLeafStep
  <2>3. ASSUME NEW id \in DOMAIN privateCerts, RevokePrivateCert(c, id) PROVE IInv'
    <3>1. GoodLeafUpdate(privateCerts, privateCerts', CertId, IcaId, CommonName)
      BY <2>3, RevokeGood DEF RevokePrivateCert, IInv, GoodTables
    <3>2. QED
      BY <2>3, <3>1, UpdateStep DEF RevokePrivateCert, Finish, CommandsAdvance, IInv
  <2>4. QED
    BY <1>8, <2>1, <2>2, <2>3 DEF LeafStep
<1>9. QED
  BY <1>1, <1>2, <1>3, <1>4, <1>5, <1>6, <1>7, <1>8 DEF Next

-----------------------------------------------------------------------------

\* The inductive invariant holds in every reachable state.
THEOREM SpecIInv == Spec => []IInv
<1>1. Init => IInv
  BY InitIInv
<1>2. IInv /\ [Next]_vars => IInv'
  BY NextIInv
<1>3. QED
  BY <1>1, <1>2, PTL DEF Spec

\* Every reachable state is well typed.
THEOREM SpecTypeOK == Spec => []TypeOK
<1>1. IInv => TypeOK
  BY DEF IInv, GoodTables, GoodCAs, GoodLeaves, TypeOK
<1>2. QED
  BY <1>1, SpecIInv, PTL

\* No interleaving of any number of commands leaves two active generations of
\* a CA name or two active leaves of a common name.
THEOREM SpecOneActivePerName == Spec => []OneActivePerName
<1>1. IInv => OneActivePerName
  BY DEF IInv, GoodTables, GoodCAs, GoodLeaves, OneActivePerName
<1>2. QED
  BY <1>1, SpecIInv, PTL

\* A CA row is issuing exactly when it is active.
THEOREM SpecIssuingMatchesStatus == Spec => []IssuingMatchesStatus
<1>1. IInv => IssuingMatchesStatus
  BY DEF IInv, GoodTables, GoodCAs, IssuingMatchesStatus
<1>2. QED
  BY <1>1, SpecIInv, PTL

\* The generations of every CA name are numbered 1..k, each once.
THEOREM SpecGenerationsInOrder == Spec => []GenerationsInOrder
<1>1. IInv => GenerationsInOrder
  BY IntervalNumbered DEF IInv, GoodTables, GenerationsInOrder
<1>2. QED
  BY <1>1, SpecIInv, PTL

\* Lineage links stay inside a name and lead to older rows.
THEOREM SpecLineageSound == Spec => []LineageSound
<1>1. IInv => LineageSound
  BY DEF IInv, GoodTables, GoodCAs, GoodLeaves, LineageSound
<1>2. QED
  BY <1>1, SpecIInv, PTL

\* Every stored or signed certificate's issuer is stored.
THEOREM SpecIssuersStored == Spec => []IssuersStored
<1>1. IInv => IssuersStored
  BY DEF IInv
<1>2. QED
  BY <1>1, SpecIInv, PTL

-----------------------------------------------------------------------------
(***************************************************************************)
(* What a step may do to the rows that are already stored.  Each statement *)
(* on a CA table, and a sync before it, is shown to be a careful update;   *)
(* the three action properties follow.                                     *)
(***************************************************************************)

\* The rows of t are in u, with legal statuses, and no name loses its issuing
\* generation but to the clock or to a retire command.
CarefulCAs(t, u) ==
  /\ \A i \in DOMAIN t : i \in DOMAIN u /\ CAIdentity(u[i]) = CAIdentity(t[i])
  /\ Moves(t, u, CAMoves)
  /\ \A n \in CAName : LosesIssuer(t, u, n) => ByExpiryOrRetire(t, u, n)

CarefulLeaves(t, u) ==
  /\ \A i \in DOMAIN t : i \in DOMAIN u /\ LeafIdentity(u[i]) = LeafIdentity(t[i])
  /\ \A i \in DOMAIN u \ DOMAIN t : u[i].supersedes \in DOMAIN t \cup {NoId}
  /\ Moves(t, u, LeafMoves)

LEMMA SameCAsCareful == ASSUME NEW t PROVE CarefulCAs(t, t)
BY DEF CarefulCAs, CAIdentity, Moves, LosesIssuer

LEMMA SameLeavesCareful == ASSUME NEW t PROVE CarefulLeaves(t, t)
BY DEF CarefulLeaves, LeafIdentity, Moves

\* A row after a sync: expired, or what it was.
LEMMA SyncedRow ==
  ASSUME NEW Id, NEW Parent, NEW Name, NEW t, IsCATable(t, Id, Parent, Name),
         NEW i \in DOMAIN t
  PROVE  LET v == SyncCAs(t, now)
         IN  /\ v[i] \in CARow(Id, Parent, Name)
             /\ CAIdentity(v[i]) = CAIdentity(t[i])
             /\ v[i].name = t[i].name
             /\ \/ v[i].status = t[i].status
                \/ t[i].status = "active" /\ v[i].status = "expired"
<1>1. t[i] \in CARow(Id, Parent, Name)
  BY DEF IsCATable
<1>2. CASE IsExpiredAt(t[i], now)
  <2>1. SyncCAs(t, now)[i] = [t[i] EXCEPT !.status = "expired", !.is_issuing = FALSE]
    BY <1>2 DEF SyncCAs
  <2>2. t[i].status = "active"
    BY <1>2 DEF IsExpiredAt
  <2>3. QED
    BY <1>1, <2>1, <2>2 DEF CARow, CAStatus, CAIdentity
<1>3. CASE ~IsExpiredAt(t[i], now)
  BY <1>1, <1>3 DEF SyncCAs
<1>4. QED
  BY <1>2, <1>3

LEMMA SyncCareful ==
  ASSUME NEW Id, NEW Parent, NEW Name, NEW t, IsCATable(t, Id, Parent, Name)
  PROVE  CarefulCAs(t, SyncCAs(t, now))
<1> DEFINE v == SyncCAs(t, now)
<1>1. DOMAIN v = DOMAIN t
  BY DEF SyncCAs
<1>2. \A i \in DOMAIN t :
        /\ CAIdentity(v[i]) = CAIdentity(t[i])
        /\ v[i].name = t[i].name
        /\ \/ v[i].status = t[i].status
           \/ t[i].status = "active" /\ v[i].status = "expired"
  BY SyncedRow
<1> HIDE DEF v
<1>3. Moves(t, v, CAMoves)
  BY <1>2 DEF Moves, CAMoves
<1>4. \A n \in CAName : LosesIssuer(t, v, n) => ByExpiryOrRetire(t, v, n)
  BY <1>1, <1>2 DEF LosesIssuer, ByExpiryOrRetire, ActiveCAs
<1>5. QED
  BY <1>1, <1>2, <1>3, <1>4 DEF CarefulCAs, v

\* A row after the other active rows of a name are retired.
LEMMA RetiredRow ==
  ASSUME NEW Id, NEW Parent, NEW Name, NEW v, NEW name, NEW keep,
         NEW i \in DOMAIN v, v[i] \in CARow(Id, Parent, Name)
  PROVE  LET w == RetireOthers(v, name, keep)
         IN  /\ w[i] \in CARow(Id, Parent, Name)
             /\ CAIdentity(w[i]) = CAIdentity(v[i])
             /\ w[i].name = v[i].name
             /\ \/ w[i].status = v[i].status /\ (i \notin ActiveCAs(v, name) \/ i = keep)
                \/ v[i].status = "active" /\ w[i].status = "retired" /\ v[i].name = name
<1>1. CASE i \in ActiveCAs(v, name) \ {keep}
  <2>1. RetireOthers(v, name, keep)[i] =
          [v[i] EXCEPT !.status = "retired", !.is_issuing = FALSE]
    BY <1>1 DEF RetireOthers
  <2>2. v[i].status = "active" /\ v[i].name = name
    BY <1>1 DEF ActiveCAs
  <2>3. QED
    BY <2>1, <2>2 DEF CARow, CAStatus, CAIdentity
<1>2. CASE i \notin ActiveCAs(v, name) \ {keep}
  BY <1>2 DEF RetireOthers
<1>3. QED
  BY <1>1, <1>2

\* The new generation takes the name over in the statement that retires the
\* others, so the name is never without one.
LEMMA UpsertCareful ==
  ASSUME NEW Id, NEW Parent, NEW Name, NEW t, IsCATable(t, Id, Parent, Name),
         NEW id, id \notin DOMAIN t, NEW rec, NoId \notin Id
  PROVE  CarefulCAs(t, UpsertCA(SyncCAs(t, now), id, rec))
<1> DEFINE v == SyncCAs(t, now)
           u == UpsertCA(v, id, rec)
<1>1. DOMAIN v = DOMAIN t /\ DOMAIN u = DOMAIN t \cup {id}
  BY DEF SyncCAs, UpsertCA
<1>2. \A i \in DOMAIN t :
        /\ v[i] \in CARow(Id, Parent, Name)
        /\ CAIdentity(v[i]) = CAIdentity(t[i])
        /\ v[i].name = t[i].name
        /\ \/ v[i].status = t[i].status
           \/ t[i].status = "active" /\ v[i].status = "expired"
  BY SyncedRow
<1>3. u[id].name = rec.name /\ u[id].status = "active"
  BY DEF UpsertCA
<1>4. \A i \in DOMAIN t : u[i] = RetireOthers(v, rec.name, NoId)[i]
  BY <1>1 DEF UpsertCA
<1> HIDE DEF v, u
<1>5. \A i \in DOMAIN t :
        /\ CAIdentity(u[i]) = CAIdentity(v[i])
        /\ u[i].name = v[i].name
        /\ \/ u[i].status = v[i].status /\ v[i].name # rec.name
           \/ u[i].status = v[i].status /\ v[i].status # "active"
           \/ v[i].status = "active" /\ u[i].status = "retired" /\ v[i].name = rec.name
  <2> SUFFICES ASSUME NEW i \in DOMAIN t
               PROVE  /\ CAIdentity(u[i]) = CAIdentity(v[i])
                      /\ u[i].name = v[i].name
                      /\ \/ u[i].status = v[i].status /\ i \notin ActiveCAs(v, rec.name)
                         \/ /\ v[i].status = "active"
                            /\ u[i].status = "retired"
                            /\ v[i].name = rec.name
    BY <1>1 DEF ActiveCAs
  <2>1. i # NoId
    BY DEF IsCATable
  <2>2. QED
    BY <1>1, <1>2, <1>4, <2>1, RetiredRow
<1>6. Moves(t, u, CAMoves)
  BY <1>2, <1>5 DEF Moves, CAMoves
<1>7. \A n \in CAName : LosesIssuer(t, u, n) => ByExpiryOrRetire(t, u, n)
  <2> SUFFICES ASSUME NEW n \in CAName, LosesIssuer(t, u, n)
               PROVE  ByExpiryOrRetire(t, u, n)
    OBVIOUS
  <2>1. PICK i \in ActiveCAs(t, n) : TRUE
    BY DEF LosesIssuer
  <2>2. n # rec.name
    BY <1>1, <1>3 DEF LosesIssuer, ActiveCAs
  <2>3. u[i].status # "active"
    BY <1>1, <1>2, <1>5, <2>1 DEF LosesIssuer, ActiveCAs
  <2>4. u[i].status = "expired"
    BY <1>2, <1>5, <2>1, <2>2, <2>3 DEF ActiveCAs
  <2>5. QED
    BY <2>1, <2>4 DEF ByExpiryOrRetire
<1>8. QED
  BY <1>1, <1>2, <1>5, <1>6, <1>7 DEF CarefulCAs, u, v

LEMMA RetireCareful ==
  ASSUME NEW Id, NEW Parent, NEW Name, NEW t, IsCATable(t, Id, Parent, Name),
         NEW id \in DOMAIN t
  PROVE  CarefulCAs(t, RetireCA(t, id))
<1> DEFINE u == RetireCA(t, id)
<1>1. t[id] \in CARow(Id, Parent, Name)
  BY DEF IsCATable
<1>2. CASE t[id].status \in {"revoked", "expired"}
  BY <1>2, SameCAsCareful DEF RetireCA
<1>3. CASE t[id].status \notin {"revoked", "expired"}
  <2>1. u = [t EXCEPT ![id] = [t[id] EXCEPT !.status = "retired", !.is_issuing = FALSE]]
    BY <1>3 DEF RetireCA
  <2> PICK row : row = [t[id] EXCEPT !.status = "retired", !.is_issuing = FALSE]
    OBVIOUS
  <2>a. CAIdentity(row) = CAIdentity(t[id]) /\ row.name = t[id].name /\ row.status = "retired"
    BY <1>1 DEF CARow, CAIdentity
  <2>2. /\ DOMAIN u = DOMAIN t
        /\ \A i \in DOMAIN t : i # id => u[i] = t[i]
        /\ CAIdentity(u[id]) = CAIdentity(t[id])
        /\ u[id].name = t[id].name
        /\ u[id].status = "retired"
        /\ u = [t EXCEPT ![id] = u[id]]
    BY <2>1, <2>a
  <2> HIDE DEF u
  <2>3. t[id].status \in {"active", "retired"}
    BY <1>1, <1>3 DEF CARow, CAStatus
  <2>4. Moves(t, u, CAMoves)
    BY <2>2, <2>3 DEF Moves, CAMoves
  <2>5. \A n \in CAName : LosesIssuer(t, u, n) => ByExpiryOrRetire(t, u, n)
    <3> SUFFICES ASSUME NEW n \in CAName, LosesIssuer(t, u, n)
                 PROVE  ByExpiryOrRetire(t, u, n)
      OBVIOUS
    <3>1. PICK i \in ActiveCAs(t, n) : TRUE
      BY DEF LosesIssuer
    <3>2. i = id
      BY <2>2, <3>1 DEF LosesIssuer, ActiveCAs
    <3>3. QED
      BY <2>2, <3>1, <3>2 DEF ByExpiryOrRetire
  <2>6. QED
    BY <2>2, <2>4, <2>5 DEF CarefulCAs, CAIdentity, u
<1>4. QED
  BY <1>2, <1>3

LEMMA PromoteCareful ==
  ASSUME NEW Id, NEW Parent, NEW Name, NEW t, IsCATable(t, Id, Parent, Name),
         NEW id \in DOMAIN t, MayPromote(SyncCAs(t, now), id)
  PROVE  CarefulCAs(t, PromoteCA(SyncCAs(t, now), id))
<1> DEFINE v == SyncCAs(t, now)
           u == PromoteCA(v, id)
           w == RetireOthers(v, v[id].name, id)
<1>1. DOMAIN v = DOMAIN t /\ DOMAIN w = DOMAIN t /\ DOMAIN u = DOMAIN t
  BY DEF SyncCAs, PromoteCA, RetireOthers
<1>2. \A i \in DOMAIN t :
        /\ v[i] \in CARow(Id, Parent, Name)
        /\ CAIdentity(v[i]) = CAIdentity(t[i])
        /\ v[i].name = t[i].name
        /\ \/ v[i].status = t[i].status
           \/ t[i].status = "active" /\ v[i].status = "expired"
  BY SyncedRow
<1>3. \A i \in DOMAIN t :
        /\ w[i] \in CARow(Id, Parent, Name)
        /\ CAIdentity(w[i]) = CAIdentity(v[i])
        /\ w[i].name = v[i].name
        /\ \/ w[i].status = v[i].status /\ (i \notin ActiveCAs(v, v[id].name) \/ i = id)
           \/ v[i].status = "active" /\ w[i].status = "retired" /\ v[i].name = v[id].name
  BY <1>1, <1>2, RetiredRow
<1>4. u = [w EXCEPT ![id] = [w[id] EXCEPT !.status = "active", !.is_issuing = TRUE]]
  BY DEF PromoteCA
<1>5. v[id].status \notin {"revoked", "expired"}
  BY DEF MayPromote
<1> HIDE DEF v, u, w
<1>6. /\ CAIdentity(u[id]) = CAIdentity(v[id])
      /\ u[id].name = v[id].name
      /\ u[id].status = "active"
  BY <1>1, <1>3, <1>4 DEF CARow, CAIdentity
<1>7. \A i \in DOMAIN t \ {id} :
        /\ CAIdentity(u[i]) = CAIdentity(v[i])
        /\ u[i].name = v[i].name
        /\ \/ u[i].status = v[i].status /\ v[i].name # v[id].name
           \/ u[i].status = v[i].status /\ v[i].status # "active"
           \/ v[i].status = "active" /\ u[i].status = "retired" /\ v[i].name = v[id].name
  BY <1>1, <1>3, <1>4 DEF ActiveCAs
<1>8. v[id].status \in {"active", "retired"}
  BY <1>2, <1>5 DEF CARow, CAStatus
<1>9. Moves(t, u, CAMoves)
  BY <1>2, <1>6, <1>7, <1>8 DEF Moves, CAMoves
<1>10. \A n \in CAName : LosesIssuer(t, u, n) => ByExpiryOrRetire(t, u, n)
  <2> SUFFICES ASSUME NEW n \in CAName, LosesIssuer(t, u, n)
               PROVE  ByExpiryOrRetire(t, u, n)
    OBVIOUS
  <2>1. PICK i \in ActiveCAs(t, n) : TRUE
    BY DEF LosesIssuer
  <2>2. n # v[id].name /\ i # id
    BY <1>1, <1>2, <1>6, <2>1 DEF LosesIssuer, ActiveCAs
  <2>3. u[i].status # "active"
    BY <1>1, <1>2, <1>7, <2>1, <2>2 DEF LosesIssuer, ActiveCAs
  <2>4. u[i].status = "expired"
    BY <1>2, <1>7, <2>1, <2>2, <2>3 DEF ActiveCAs
  <2>5. QED
    BY <2>1, <2>4 DEF ByExpiryOrRetire
<1>11. QED
  BY <1>1, <1>2, <1>6, <1>7, <1>9, <1>10 DEF CarefulCAs, u, v

LEMMA SyncLeavesCareful ==
  ASSUME IsLeafTable(privateCerts, CertId, IcaId, CommonName)
  PROVE  CarefulLeaves(privateCerts, SyncLeaves(privateCerts, now))
<1> DEFINE t == privateCerts
           v == SyncLeaves(t, now)
<1>1. DOMAIN v = DOMAIN t
  BY DEF SyncLeaves
<1>2. \A i \in DOMAIN t :
        /\ SameLeaf(t[i], v[i])
        /\ \/ v[i].status = t[i].status
           \/ t[i].status = "active" /\ v[i].status = "expired"
  BY SyncedLeaf
<1> HIDE DEF t, v
<1>3. CarefulLeaves(t, v)
  BY <1>1, <1>2 DEF CarefulLeaves, LeafIdentity, SameLeaf, Moves, LeafMoves
<1>4. QED
  BY <1>3 DEF t, v

LEMMA UpsertLeafCareful ==
  ASSUME GoodLeaves(privateCerts, CertId, IcaId, CommonName),
         NEW id, id \notin DOMAIN privateCerts, NEW rec
  PROVE  CarefulLeaves(privateCerts, UpsertLeaf(SyncLeaves(privateCerts, now), id, rec))
<1> DEFINE t == privateCerts
           v == SyncLeaves(t, now)
           u == UpsertLeaf(v, id, rec)
<1>1. ASSUME NEW i \in DOMAIN t
      PROVE  /\ SameLeaf(t[i], u[i])
             /\ \/ u[i].status = t[i].status
                \/ t[i].status = "active" /\ u[i].status \in {"expired", "superseded"}
  <2>1. IsLeafTable(t, CertId, IcaId, CommonName)
    BY DEF GoodLeaves
  <2>2. /\ SameLeaf(t[i], u[i])
        /\ \/ u[i].status = t[i].status
           \/ t[i].status = "active" /\ u[i].status = "expired"
           \/ t[i].status = "active" /\ u[i].status = "superseded"
    BY <2>1, SyncedUpsertedLeaf
  <2>3. QED
    BY <2>2
<1>2. GoodLeaves(v, CertId, IcaId, CommonName) /\ DOMAIN v = DOMAIN t
  BY SyncLeavesGood DEF GoodLeafUpdate, Demotes
<1> HIDE DEF v
<1>3. DOMAIN u = DOMAIN t \cup {id} /\ u[id].supersedes \in DOMAIN t \cup {NoId}
  <2>1. DOMAIN u = DOMAIN v \cup {id} /\ u[id].supersedes \in DOMAIN v \cup {NoId}
    BY <1>2, InsertedLeaf
  <2>2. QED
    BY <1>2, <2>1
<1> HIDE DEF t, u
<1>4. CarefulLeaves(t, u)
  BY <1>1, <1>3 DEF CarefulLeaves, LeafIdentity, SameLeaf, Moves, LeafMoves
<1>5. QED
  BY <1>4 DEF t, u, v

LEMMA RevokeLeafCareful ==
  ASSUME IsLeafTable(privateCerts, CertId, IcaId, CommonName), NEW id \in DOMAIN privateCerts
  PROVE  CarefulLeaves(privateCerts, RevokeLeaf(privateCerts, id))
<1> DEFINE t == privateCerts
           u == RevokeLeaf(t, id)
<1>1. DOMAIN u = DOMAIN t
  BY DEF RevokeLeaf
<1>2. \A i \in DOMAIN t :
        /\ SameLeaf(t[i], u[i])
        /\ u[i].status = "revoked" \/ u[i].status = t[i].status
  BY RevokedLeaf
<1>3. \A i \in DOMAIN t : t[i].status \in LeafStatus
  BY DEF IsLeafTable, LeafRow
<1> HIDE DEF t, u
<1>4. CarefulLeaves(t, u)
  BY <1>1, <1>2, <1>3 DEF CarefulLeaves, LeafIdentity, SameLeaf, Moves, LeafMoves, LeafStatus
<1>5. QED
  BY <1>4 DEF t, u

\* Every step is careful with each of the three tables.
CarefulStep ==
  /\ CarefulCAs(rootCAs, rootCAs')
  /\ CarefulCAs(intermediateCAs, intermediateCAs')
  /\ CarefulLeaves(privateCerts, privateCerts')

LEMMA NextCareful == IInv /\ [Next]_vars => CarefulStep
<1> SUFFICES ASSUME IInv, [Next]_vars PROVE CarefulStep
  OBVIOUS
<1> USE SameCAsCareful, SameLeavesCareful DEF CarefulStep
<1>1. /\ IsCATable(rootCAs, RootId, {}, CAName)
      /\ IsCATable(intermediateCAs, IcaId, RootId, CAName)
      /\ GoodLeaves(privateCerts, CertId, IcaId, CommonName)
      /\ IsLeafTable(privateCerts, CertId, IcaId, CommonName)
  BY DEF IInv, GoodTables, GoodCAs, GoodLeaves
<1>2. /\ CarefulCAs(rootCAs, SyncCAs(rootCAs, now))
      /\ CarefulCAs(intermediateCAs, SyncCAs(intermediateCAs, now))
      /\ CarefulLeaves(privateCerts, SyncLeaves(privateCerts, now))
  BY <1>1, SyncCareful, SyncLeavesCareful
<1>3. NoId \notin RootId /\ NoId \notin IcaId
  BY PrivatePKIAssumption
<1>4. CASE UNCHANGED vars
  BY <1>4 DEF vars
<1>5. CASE Tick
  BY <1>5 DEF Tick
<1>6. CASE ReadOnlyCommand
  BY <1>2, <1>6 DEF ReadOnlyCommand, SyncDerivedStatuses
<1>7. ASSUME NEW c \in Command, Open(c) \/ Abort(c) PROVE CarefulStep
  BY <1>2, <1>7 DEF Open, Abort, SyncDerivedStatuses
<1>8. ASSUME NEW c \in Command, RootStep(c) PROVE CarefulStep
  <2>1. ASSUME NEW n \in CAName, NEW d \in Lifetime, SignRootCA(c, n, d) PROVE CarefulStep
    BY <2>1 DEF SignRootCA, Sign
  <2>2. ASSUME NEW id \in RootId, StoreRootCA(c, id) PROVE CarefulStep
    <3>1. CarefulCAs(rootCAs, rootCAs')
      BY <1>1, <1>3, <2>2, UpsertCareful DEF StoreRootCA
    <3>2. QED
      BY <1>2, <2>2, <3>1 DEF StoreRootCA
  <2>3. ASSUME NEW id \in DOMAIN rootCAs, RetireRootCA(c, id) PROVE CarefulStep
    BY <1>1, <2>3, RetireCareful DEF RetireRootCA
  <2>4. ASSUME NEW id \in DOMAIN rootCAs, PromoteRootCA(c, id) PROVE CarefulStep
    BY <1>1, <1>2, <2>4, PromoteCareful DEF PromoteRootCA
  <2>5. QED
    BY <1>8, <2>1, <2>2, <2>3, <2>4 DEF RootStep
<1>9. ASSUME NEW c \in Command, IntermediateStep(c) PROVE CarefulStep
  <2>1. ASSUME NEW r \in DOMAIN rootCAs, NEW n \in CAName, NEW d \in Lifetime,
               SignIntermediateCA(c, r, n, d)
        PROVE  CarefulStep
    BY <2>1 DEF SignIntermediateCA, Sign
  <2>2. ASSUME NEW id \in IcaId, StoreIntermediateCA(c, id) PROVE CarefulStep
    <3>1. CarefulCAs(intermediateCAs, intermediateCAs')
      BY <1>1, <1>3, <2>2, UpsertCareful DEF StoreIntermediateCA
    <3>2. QED
      BY <1>2, <2>2, <3>1 DEF StoreIntermediateCA
  <2>3. ASSUME NEW id \in DOMAIN intermediateCAs, RetireIntermediateCA(c, id)
        PROVE  CarefulStep
    BY <1>1, <2>3, RetireCareful DEF RetireIntermediateCA
  <2>4. ASSUME NEW id \in DOMAIN intermediateCAs, PromoteIntermediateCA(c, id)
        PROVE  CarefulStep
    BY <1>1, <1>2, <2>4, PromoteCareful DEF PromoteIntermediateCA
  <2>5. QED
    BY <1>9, <2>1, <2>2, <2>3, <2>4 DEF IntermediateStep
<1>10. ASSUME NEW c \in Command, LeafStep(c) PROVE CarefulStep
  <2>1. ASSUME NEW i \in DOMAIN intermediateCAs, NEW n \in CommonName, NEW d \in Lifetime,
               SignLeaf(c, i, n, d)
        PROVE  CarefulStep
    BY <2>1 DEF SignLeaf, Sign
  <2>2. ASSUME NEW id \in CertId, StoreLeaf(c, id) PROVE CarefulStep
    <3>1. CarefulLeaves(privateCerts, privateCerts')
      BY <1>1, <2>2, UpsertLeafCareful DEF StoreLeaf
    <3>2. QED
      BY <1>2, <2>2, <3>1 DEF StoreLeaf
  <2>3. ASSUME NEW id \in DOMAIN privateCerts, RevokePrivateCert(c, id) PROVE CarefulStep
    BY <1>1, <2>3, RevokeLeafCareful DEF RevokePrivateCert
  <2>4. QED
    BY <1>10, <2>1, <2>2, <2>3 DEF LeafStep
<1>11. QED
  BY <1>4, <1>5, <1>6, <1>7, <1>8, <1>9, <1>10 DEF Next

\* No stored certificate is ever lost or changed, and a new leaf continues a
\* row that was already there.
THEOREM SpecHistoryPreserved == Spec => HistoryPreserved
<1> DEFINE Preserved ==
      /\ \A i \in DOMAIN rootCAs :
           i \in DOMAIN rootCAs' /\ CAIdentity(rootCAs'[i]) = CAIdentity(rootCAs[i])
      /\ \A i \in DOMAIN intermediateCAs :
           /\ i \in DOMAIN intermediateCAs'
           /\ CAIdentity(intermediateCAs'[i]) = CAIdentity(intermediateCAs[i])
      /\ \A i \in DOMAIN privateCerts :
           /\ i \in DOMAIN privateCerts'
           /\ LeafIdentity(privateCerts'[i]) = LeafIdentity(privateCerts[i])
      /\ \A i \in DOMAIN privateCerts' \ DOMAIN privateCerts :
           privateCerts'[i].supersedes \in DOMAIN privateCerts \cup {NoId}
<1>1. CarefulStep => [Preserved]_<<rootCAs, intermediateCAs, privateCerts>>
  BY DEF CarefulStep, CarefulCAs, CarefulLeaves
<1>2. QED
  BY <1>1, SpecIInv, NextCareful, PTL DEF Spec, HistoryPreserved

\* Statuses move only as the lifecycle of a CA or a leaf allows.
THEOREM SpecStatusMovesLegal == Spec => StatusMovesLegal
<1> DEFINE Legal ==
      /\ Moves(rootCAs, rootCAs', CAMoves)
      /\ Moves(intermediateCAs, intermediateCAs', CAMoves)
      /\ Moves(privateCerts, privateCerts', LeafMoves)
<1>1. CarefulStep => [Legal]_<<rootCAs, intermediateCAs, privateCerts>>
  BY DEF CarefulStep, CarefulCAs, CarefulLeaves
<1>2. QED
  BY <1>1, SpecIInv, NextCareful, PTL DEF Spec, StatusMovesLegal

\* A name loses its issuing generation only to the clock or to a retire command
\* for that row, never to a rotation or a promotion.
THEOREM SpecRotationHasNoGap == Spec => RotationHasNoGap
<1> DEFINE NoGap ==
      \A n \in CAName :
        /\ LosesIssuer(rootCAs, rootCAs', n) => ByExpiryOrRetire(rootCAs, rootCAs', n)
        /\ LosesIssuer(intermediateCAs, intermediateCAs', n)
             => ByExpiryOrRetire(intermediateCAs, intermediateCAs', n)
<1>1. CarefulStep => [NoGap]_<<rootCAs, intermediateCAs>>
  BY DEF CarefulStep, CarefulCAs
<1>2. QED
  BY <1>1, SpecIInv, NextCareful, PTL DEF Spec, RotationHasNoGap

-----------------------------------------------------------------------------
(***************************************************************************)
(* The two tables of CAs as logical CAs.  Each statement is shown to be a  *)
(* step of LogicalCA on the table it changes, a sync before it included.   *)
(***************************************************************************)

History(t) == HistoryOf(t, CAName)
Issuer(t) == IssuingOf(t, CAName)

Lapsing(t, S) == [n \in CAName |-> IF n \in S THEN 0 ELSE Issuer(t)[n]]

Lapses(t, u) ==
  /\ History(u) = History(t)
  /\ \E S \in SUBSET CAName : Issuer(u) = Lapsing(t, S)

HandsOver(t, u, n, g) ==
  \E S \in SUBSET CAName : Issuer(u) = [Lapsing(t, S) EXCEPT ![n] = g]

Rotates(t, u, Id) ==
  \E n \in CAName, id \in Id :
    /\ \A m \in CAName : \A g \in 1 .. Len(History(t)[m]) : History(t)[m][g] # id
    /\ History(u) = [History(t) EXCEPT ![n] = Append(@, id)]
    /\ HandsOver(t, u, n, Len(History(t)[n]) + 1)

Promotes(t, u) ==
  /\ History(u) = History(t)
  /\ \E n \in CAName : \E g \in 1 .. Len(History(t)[n]) : HandsOver(t, u, n, g)

LogicalStep(t, u, Id) == Lapses(t, u) \/ Rotates(t, u, Id) \/ Promotes(t, u)

\* Row i of u was the active one of its name in t already.
WasActive(t, u, i) ==
  /\ i \in DOMAIN t
  /\ t[i].name = u[i].name
  /\ t[i].status = "active"
  /\ t[i].generation = u[i].generation

\* The active rows of u were active in t already, but for the names of A.
NoneActivated(t, u, A) ==
  \A i \in DOMAIN u : u[i].name \notin A /\ u[i].status = "active" => WasActive(t, u, i)

\* The names other than those of A lapse at most.
OthersLapse(t, u, A) ==
  \E S \in SUBSET CAName : \A m \in CAName \ A : Issuer(u)[m] = Lapsing(t, S)[m]

\* The history of a name is a sequence of ids.
LEMMA HistoryIsSeq ==
  ASSUME NEW Id, NEW Parent, NEW t, GoodCAs(t, Id, Parent, CAName), NEW n \in CAName
  PROVE  /\ History(t)[n] \in Seq(Id)
         /\ LatestGeneration(t, n) \in Nat
         /\ Len(History(t)[n]) = LatestGeneration(t, n)
         /\ \A g \in 1 .. LatestGeneration(t, n) :
              History(t)[n][g] = GenerationOf(t, n, g) /\ GenerationOf(t, n, g) \in DOMAIN t
<1>1. LatestGeneration(t, n) \in Nat
  BY GenerationRow
<1>2. \A g \in 1 .. LatestGeneration(t, n) : GenerationOf(t, n, g) \in DOMAIN t
  BY GenerationRow
<1>3. DOMAIN t \subseteq Id
  BY DEF GoodCAs, IsCATable
<1>4. History(t)[n] = [g \in 1 .. LatestGeneration(t, n) |-> GenerationOf(t, n, g)]
  BY DEF History, HistoryOf
<1>5. QED
  BY <1>1, <1>2, <1>3, <1>4

\* Where the active rows of a name were active before, it issues as before or no
\* more.
LEMMA IssuingLapsing ==
  ASSUME NEW Id, NEW Parent, NEW t, NEW u, NEW A,
         GoodCAs(t, Id, Parent, CAName), GoodCAs(u, Id, Parent, CAName),
         NoneActivated(t, u, A)
  PROVE  OthersLapse(t, u, A)
<1> DEFINE S == {m \in CAName : Issuer(u)[m] = 0}
<1>1. ASSUME NEW m \in CAName, m \notin A
      PROVE  Issuer(u)[m] = Lapsing(t, S)[m]
  <2>1. CASE ActiveCAs(u, m) = {}
    <3>1. Issuer(u)[m] = 0
      BY <2>1, IssuingValue DEF Issuer
    <3>2. QED
      BY <1>1, <3>1 DEF Lapsing
  <2>2. ASSUME NEW i \in ActiveCAs(u, m)
        PROVE  Issuer(u)[m] = Issuer(t)[m]
    <3>1. i \in DOMAIN u /\ u[i].name = m /\ u[i].status = "active"
      BY DEF ActiveCAs
    <3>2. /\ i \in DOMAIN t /\ t[i].name = m /\ t[i].status = "active"
          /\ t[i].generation = u[i].generation
      BY <1>1, <3>1 DEF NoneActivated, WasActive
    <3>3. Issuer(u)[m] = u[i].generation
      BY <3>1, IssuingValue DEF Issuer
    <3>4. Issuer(t)[m] = t[i].generation
      BY <3>2, IssuingValue DEF Issuer
    <3>5. QED
      BY <3>2, <3>3, <3>4
  <2>3. CASE ActiveCAs(u, m) # {}
    BY <1>1, <2>2, <2>3 DEF Lapsing
  <2>4. QED
    BY <2>1, <2>3
<1>2. S \in SUBSET CAName
  OBVIOUS
<1> HIDE DEF S
<1>3. QED
  BY <1>1, <1>2 DEF OthersLapse

\* Both are functions on the names.
LEMMA IssuingFunctions ==
  ASSUME NEW t, NEW S
  PROVE  /\ Issuer(t) = [m \in CAName |-> Issuer(t)[m]]
         /\ Lapsing(t, S) = [m \in CAName |-> Lapsing(t, S)[m]]
<1>1. Issuer(t) = [m \in CAName |-> Issuer(t)[m]]
  BY DEF Issuer, IssuingOf
<1>2. Lapsing(t, S) = [m \in CAName |-> Lapsing(t, S)[m]]
  BY DEF Lapsing
<1>3. QED
  BY <1>1, <1>2

LEMMA AllLapse ==
  ASSUME NEW Id, NEW Parent, NEW t, NEW u,
         GoodCAs(t, Id, Parent, CAName), GoodUpdate(t, u, Id, Parent, CAName),
         NoneActivated(t, u, {})
  PROVE  Lapses(t, u)
<1>1. GoodCAs(u, Id, Parent, CAName) /\ SameHistory(t, u)
  BY DEF GoodUpdate
<1>2. History(u) = History(t)
  BY <1>1, SameHistoryOf DEF History
<1>3. OthersLapse(t, u, {})
  BY <1>1, IssuingLapsing
<1> PICK S \in SUBSET CAName : \A m \in CAName : Issuer(u)[m] = Lapsing(t, S)[m]
  BY <1>3 DEF OthersLapse
<1> PICK f, g : f = Issuer(u) /\ g = Lapsing(t, S)
  OBVIOUS
<1>4. f = [m \in CAName |-> f[m]] /\ g = [m \in CAName |-> g[m]]
  BY IssuingFunctions
<1>5. f = g
  BY <1>4
<1>6. QED
  BY <1>2, <1>5 DEF Lapses

\* A step on name n hands it over; the other names lapse at most.
LEMMA OneHandedOver ==
  ASSUME NEW Id, NEW Parent, NEW t, NEW u, NEW n \in CAName,
         GoodCAs(t, Id, Parent, CAName), GoodCAs(u, Id, Parent, CAName),
         NEW id \in DOMAIN u, u[id].name = n, u[id].status = "active",
         NoneActivated(t, u, {n})
  PROVE  HandsOver(t, u, n, u[id].generation)
<1>1. OthersLapse(t, u, {n})
  BY IssuingLapsing
<1> PICK S \in SUBSET CAName : \A m \in CAName \ {n} : Issuer(u)[m] = Lapsing(t, S)[m]
  BY <1>1 DEF OthersLapse
<1>2. Issuer(u)[n] = u[id].generation
  BY IssuingValue DEF Issuer
<1> PICK f, g, k : f = Issuer(u) /\ g = Lapsing(t, S) /\ k = u[id].generation
  OBVIOUS
<1>3. f = [m \in CAName |-> f[m]] /\ g = [m \in CAName |-> g[m]]
  BY IssuingFunctions
<1>4. f = [g EXCEPT ![n] = k]
  BY <1>2, <1>3
<1>5. QED
  BY <1>4 DEF HandsOver

\* A table that stays as it is lapses for no name.
LEMMA SameLapses ==
  ASSUME NEW Id, NEW Parent, NEW t, GoodCAs(t, Id, Parent, CAName)
  PROVE  Lapses(t, t)
<1>1. GoodUpdate(t, t, Id, Parent, CAName)
  BY DEF GoodUpdate, SameHistory
<1>2. NoneActivated(t, t, {})
  BY DEF NoneActivated, WasActive
<1>3. QED
  BY <1>1, <1>2, AllLapse

LEMMA SyncLapses ==
  ASSUME NEW Id, NEW Parent, NEW t, GoodCAs(t, Id, Parent, CAName)
  PROVE  Lapses(t, SyncCAs(t, now))
<1> DEFINE v == SyncCAs(t, now)
<1>1. GoodUpdate(t, v, Id, Parent, CAName)
  BY SyncGood
<1>2. IsCATable(t, Id, Parent, CAName)
  BY DEF GoodCAs
<1>3. ASSUME NEW i \in DOMAIN t
      PROVE  /\ v[i] \in CARow(Id, Parent, CAName)
             /\ CAIdentity(v[i]) = CAIdentity(t[i])
             /\ v[i].name = t[i].name
             /\ \/ v[i].status = t[i].status
                \/ t[i].status = "active" /\ v[i].status = "expired"
  BY <1>2, SyncedRow
<1> HIDE DEF v
<1>4. NoneActivated(t, v, {})
  BY <1>1, <1>3 DEF GoodUpdate, SameHistory, NoneActivated, WasActive
<1>5. Lapses(t, v)
  BY <1>1, <1>4, AllLapse
<1>6. QED
  BY <1>5 DEF v

LEMMA RetireLapses ==
  ASSUME NEW Id, NEW Parent, NEW t, GoodCAs(t, Id, Parent, CAName), NEW id \in DOMAIN t
  PROVE  Lapses(t, RetireCA(t, id))
<1> DEFINE u == RetireCA(t, id)
<1>1. GoodUpdate(t, u, Id, Parent, CAName)
  BY RetireGood
<1>2. \A i \in DOMAIN t : u[i].status = "active" => t[i].status = "active"
  BY DEF GoodCAs, IsCATable, RetireCA, CARow
<1> HIDE DEF u
<1>3. NoneActivated(t, u, {})
  BY <1>1, <1>2 DEF GoodUpdate, SameHistory, NoneActivated, WasActive
<1>4. Lapses(t, u)
  BY <1>1, <1>3, AllLapse
<1>5. QED
  BY <1>4 DEF u

\* The generation that is promoted takes its name over in the same step.
LEMMA PromotePromotes ==
  ASSUME NEW Id, NEW Parent, NEW t, GoodCAs(t, Id, Parent, CAName), NEW id \in DOMAIN t
  PROVE  Promotes(t, PromoteCA(SyncCAs(t, now), id))
<1> DEFINE v == SyncCAs(t, now)
           w == RetireOthers(v, v[id].name, id)
           u == PromoteCA(v, id)
<1> PICK n, k : n = t[id].name /\ k = t[id].generation
  OBVIOUS
<1>1. GoodUpdate(t, u, Id, Parent, CAName)
  BY PromoteAfterSync
<1>2. GoodCAs(u, Id, Parent, CAName) /\ SameHistory(t, u)
  BY <1>1 DEF GoodUpdate
<1>3. /\ IsCATable(t, Id, Parent, CAName)
      /\ DOMAIN u = DOMAIN t /\ DOMAIN v = DOMAIN t /\ DOMAIN w = DOMAIN t
  BY <1>2 DEF GoodCAs, SameHistory, SyncCAs, RetireOthers
<1>4. ASSUME NEW i \in DOMAIN t
      PROVE  /\ v[i] \in CARow(Id, Parent, CAName)
             /\ CAIdentity(v[i]) = CAIdentity(t[i])
             /\ v[i].name = t[i].name
             /\ \/ v[i].status = t[i].status
                \/ t[i].status = "active" /\ v[i].status = "expired"
  BY <1>3, SyncedRow
<1>5. ASSUME NEW i \in DOMAIN t
      PROVE  /\ w[i] \in CARow(Id, Parent, CAName)
             /\ CAIdentity(w[i]) = CAIdentity(v[i])
             /\ w[i].name = v[i].name
             /\ \/ /\ w[i].status = v[i].status
                   /\ i \notin ActiveCAs(v, v[id].name) \/ i = id
                \/ /\ v[i].status = "active"
                   /\ w[i].status = "retired"
                   /\ v[i].name = v[id].name
  BY <1>3, <1>4, RetiredRow
<1>6. u = [w EXCEPT ![id] = [w[id] EXCEPT !.status = "active", !.is_issuing = TRUE]]
  BY DEF PromoteCA
<1> HIDE DEF u, v, w
<1>7. u[id].status = "active"
  BY <1>3, <1>5, <1>6 DEF CARow
<1>8. \A i \in DOMAIN t \ {id} : u[i].status = "active" => t[i].status = "active"
  BY <1>3, <1>4, <1>5, <1>6
<1>9. NoneActivated(t, u, {n})
  BY <1>2, <1>8 DEF SameHistory, NoneActivated, WasActive
<1>10. n \in CAName /\ id \in DOMAIN u /\ u[id].name = n /\ u[id].generation = k
  BY <1>2, <1>3 DEF SameHistory, IsCATable, CARow
<1>11. HandsOver(t, u, n, u[id].generation)
  BY <1>2, <1>7, <1>9, <1>10, OneHandedOver
<1>12. HandsOver(t, u, n, k)
  BY <1>10, <1>11
<1>13. k \in 1 .. Len(History(t)[n])
  <2>1. k \in 1 .. LatestGeneration(t, n)
    BY <1>10, GenerationRow
  <2>2. Len(History(t)[n]) = LatestGeneration(t, n)
    BY <1>10, HistoryIsSeq
  <2>3. QED
    BY <2>1, <2>2
<1>14. History(u) = History(t)
  BY <1>2, SameHistoryOf DEF History
<1>15. Promotes(t, u)
  BY <1>10, <1>12, <1>13, <1>14 DEF Promotes
<1>16. QED
  BY <1>15 DEF u, v

\* What is added to the history of a name is the new row, at the end.
LEMMA HistoryAppended ==
  ASSUME NEW Id, NEW Parent, NEW t, NEW u, NEW id \in Id, NEW n \in CAName,
         GoodCAs(t, Id, Parent, CAName), GoodCAs(u, Id, Parent, CAName),
         id \notin DOMAIN t, DOMAIN u = DOMAIN t \cup {id},
         \A i \in DOMAIN t : u[i].name = t[i].name /\ u[i].generation = t[i].generation,
         u[id].name = n, u[id].generation = LatestGeneration(t, n) + 1
  PROVE  History(u) = [History(t) EXCEPT ![n] = Append(@, id)]
<1> PICK f, g : f = History(t) /\ g = History(u)
  OBVIOUS
<1>1. f = [m \in CAName |-> f[m]] /\ g = [m \in CAName |-> g[m]]
  BY DEF History, HistoryOf
<1>2. /\ LatestGeneration(u, n) = LatestGeneration(t, n) + 1
      /\ \A m \in CAName \ {n} : LatestGeneration(u, m) = LatestGeneration(t, m)
      /\ \A m \in CAName : \A j \in 1 .. LatestGeneration(t, m) :
           GenerationOf(u, m, j) = GenerationOf(t, m, j)
      /\ GenerationOf(u, n, LatestGeneration(t, n) + 1) = id
  BY AddedGeneration
<1>3. ASSUME NEW m \in CAName, m # n PROVE g[m] = f[m]
  <2>1. f[m] = [j \in 1 .. LatestGeneration(t, m) |-> GenerationOf(t, m, j)]
    BY DEF History, HistoryOf
  <2>2. g[m] = [j \in 1 .. LatestGeneration(t, m) |-> GenerationOf(u, m, j)]
    BY <1>2, <1>3 DEF History, HistoryOf
  <2>3. QED
    BY <1>2, <2>1, <2>2
<1>4. g[n] = Append(f[n], id)
  <2> PICK k : k = LatestGeneration(t, n)
    OBVIOUS
  <2>1. /\ k \in Nat /\ f[n] \in Seq(Id) /\ Len(f[n]) = k
        /\ \A j \in 1 .. k : f[n][j] = GenerationOf(t, n, j)
    BY HistoryIsSeq
  <2>2. /\ g[n] \in Seq(Id) /\ Len(g[n]) = k + 1
        /\ \A j \in 1 .. k + 1 : g[n][j] = GenerationOf(u, n, j)
    BY <1>2, HistoryIsSeq
  <2>3. \A j \in 1 .. k : g[n][j] = f[n][j]
    BY <1>2, <2>1, <2>2
  <2>4. g[n][k + 1] = id
    BY <1>2, <2>1, <2>2
  <2> PICK s : s = Append(f[n], id)
    OBVIOUS
  <2>5. /\ s \in Seq(Id) /\ Len(s) = k + 1
        /\ \A j \in 1 .. k : s[j] = f[n][j]
        /\ s[k + 1] = id
    BY <2>1, AppendProperties
  <2>6. \A j \in 1 .. k + 1 : g[n][j] = s[j]
    BY <2>1, <2>3, <2>4, <2>5
  <2>7. g[n] = s
    BY <2>1, <2>2, <2>5, <2>6
  <2>8. QED
    BY <2>7
<1>5. g = [f EXCEPT ![n] = Append(@, id)]
  BY <1>1, <1>3, <1>4
<1>6. QED
  BY <1>5

\* The generation that is stored is the latest of its name and takes it over.
LEMMA UpsertRotates ==
  ASSUME NEW Id, NEW Parent, NEW t, GoodCAs(t, Id, Parent, CAName),
         NEW id \in Id, id \notin DOMAIN t, NoId \notin Id, NEW rec,
         rec.name \in CAName, rec.parent_id \in Parent \cup {NoId}, rec.not_after \in Nat
  PROVE  Rotates(t, UpsertCA(SyncCAs(t, now), id, rec), Id)
<1> DEFINE v == SyncCAs(t, now)
           u == UpsertCA(v, id, rec)
           w == RetireOthers(v, rec.name, NoId)
<1> PICK n, k : n = rec.name /\ k = LatestGeneration(t, rec.name)
  OBVIOUS
<1>1. GoodCAs(v, Id, Parent, CAName) /\ SameHistory(t, v)
  BY SyncGood DEF GoodUpdate
<1>2. IsCATable(t, Id, Parent, CAName) /\ DOMAIN v = DOMAIN t
  BY <1>1 DEF GoodCAs, SameHistory
<1>3. ASSUME NEW i \in DOMAIN t
      PROVE  /\ v[i] \in CARow(Id, Parent, CAName)
             /\ CAIdentity(v[i]) = CAIdentity(t[i])
             /\ v[i].name = t[i].name
             /\ \/ v[i].status = t[i].status
                \/ t[i].status = "active" /\ v[i].status = "expired"
  BY <1>2, SyncedRow
<1> HIDE DEF v
<1>4. /\ DOMAIN u = DOMAIN t \cup {id} /\ DOMAIN w = DOMAIN t
      /\ \A i \in DOMAIN t : u[i] = w[i]
      /\ u[id].name = n /\ u[id].status = "active"
      /\ u[id].generation = NextGeneration(v, n)
  BY <1>1, <1>2 DEF UpsertCA, RetireOthers
<1>5. GoodInsert(v, u, id, rec, Id, Parent, CAName)
  BY <1>1, <1>2, UpsertGood
<1>6. GoodCAs(u, Id, Parent, CAName)
  BY <1>5 DEF GoodInsert
<1>7. GoodUpdate(v, w, Id, Parent, CAName)
  BY <1>1, RetireOthersGood
<1>8. ASSUME NEW i \in DOMAIN t
      PROVE  /\ w[i] \in CARow(Id, Parent, CAName)
             /\ CAIdentity(w[i]) = CAIdentity(v[i])
             /\ w[i].name = v[i].name
             /\ \/ /\ w[i].status = v[i].status
                   /\ i \notin ActiveCAs(v, rec.name) \/ i = NoId
                \/ /\ v[i].status = "active"
                   /\ w[i].status = "retired"
                   /\ v[i].name = rec.name
  BY <1>2, <1>3, RetiredRow
<1> HIDE DEF u, w
<1>9. \A i \in DOMAIN t : u[i].name = t[i].name /\ u[i].generation = t[i].generation
  BY <1>1, <1>2, <1>4, <1>7 DEF GoodUpdate, SameHistory
<1>10. \A i \in DOMAIN t : u[i].status = "active" => t[i].status = "active"
  BY <1>3, <1>4, <1>8
<1>11. NoneActivated(t, u, {n})
  BY <1>4, <1>9, <1>10 DEF NoneActivated, WasActive
<1>12. u[id].generation = k + 1
  <2>1. Generations(v, n) = Generations(t, n)
    BY <1>1 DEF Generations, SameHistory
  <2>2. NextGeneration(v, n) = LatestGeneration(t, n) + 1
    BY <2>1 DEF NextGeneration, LatestGeneration
  <2>3. QED
    BY <1>4, <2>2
<1>13. n \in CAName /\ id \in DOMAIN u
  BY <1>4
<1>14. History(u) = [History(t) EXCEPT ![n] = Append(@, id)]
  BY <1>4, <1>6, <1>9, <1>12, <1>13, HistoryAppended
<1>15. Len(History(t)[n]) = k
  BY <1>13, HistoryIsSeq
<1>16. HandsOver(t, u, n, u[id].generation)
  BY <1>4, <1>6, <1>11, <1>13, OneHandedOver
<1>17. HandsOver(t, u, n, Len(History(t)[n]) + 1)
  BY <1>12, <1>15, <1>16
<1>18. ASSUME NEW m \in CAName, NEW g \in 1 .. Len(History(t)[m])
       PROVE  History(t)[m][g] # id
  <2>1. History(t)[m][g] \in DOMAIN t
    BY HistoryIsSeq
  <2>2. QED
    BY <2>1
<1>19. Rotates(t, u, Id)
  BY <1>13, <1>14, <1>17, <1>18 DEF Rotates
<1>20. QED
  BY <1>19 DEF u, v

LEMMA EmptyLogical ==
  /\ HistoryOf(EmptyTable, CAName) = [n \in CAName |-> << >>]
  /\ IssuingOf(EmptyTable, CAName) = [n \in CAName |-> 0]
<1> DEFINE t == EmptyTable
<1>1. \A n \in CAName : Generations(t, n) = 1 .. 0 /\ ActiveCAs(t, n) = {}
  BY DEF Generations, ActiveCAs, EmptyTable
<1>2. \A n \in CAName : LatestGeneration(t, n) = 0
  BY <1>1, LatestValue
<1> HIDE DEF t
<1>3. ASSUME NEW n \in CAName
      PROVE  [g \in 1 .. LatestGeneration(t, n) |-> GenerationOf(t, n, g)] = << >>
  BY <1>2
<1>4. HistoryOf(t, CAName) = [n \in CAName |-> << >>]
  BY <1>3 DEF HistoryOf
<1>5. IssuingOf(t, CAName) = [n \in CAName |-> 0]
  BY <1>1 DEF IssuingOf
<1>6. QED
  BY <1>4, <1>5 DEF t

\* Every step is one of LogicalCA for each of the two tables.
LEMMA NextLogical ==
  IInv /\ [Next]_vars =>
    LogicalStep(rootCAs, rootCAs', RootId)
      /\ LogicalStep(intermediateCAs, intermediateCAs', IcaId)
<1> DEFINE Kept == LogicalStep(rootCAs, rootCAs', RootId)
                     /\ LogicalStep(intermediateCAs, intermediateCAs', IcaId)
<1> SUFFICES ASSUME IInv, [Next]_vars PROVE Kept
  OBVIOUS
<1> USE DEF LogicalStep
<1>1. /\ GoodCAs(rootCAs, RootId, {}, CAName)
      /\ GoodCAs(intermediateCAs, IcaId, RootId, CAName)
  BY DEF IInv, GoodTables
<1>2. Lapses(rootCAs, rootCAs) /\ Lapses(intermediateCAs, intermediateCAs)
  BY <1>1, SameLapses
<1>3. Lapses(rootCAs, SyncCAs(rootCAs, now))
        /\ Lapses(intermediateCAs, SyncCAs(intermediateCAs, now))
  BY <1>1, SyncLapses
<1>4. NoId \notin RootId /\ NoId \notin IcaId
  BY PrivatePKIAssumption
<1>5. CASE UNCHANGED vars
  BY <1>2, <1>5 DEF vars
<1>6. CASE Tick
  BY <1>2, <1>6 DEF Tick
<1>7. CASE ReadOnlyCommand
  BY <1>3, <1>7 DEF ReadOnlyCommand, SyncDerivedStatuses
<1>8. ASSUME NEW c \in Command, Open(c) \/ Abort(c) PROVE Kept
  BY <1>2, <1>3, <1>8 DEF Open, Abort, SyncDerivedStatuses
<1>9. ASSUME NEW c \in Command, RootStep(c) PROVE Kept
  <2>1. ASSUME NEW n \in CAName, NEW d \in Lifetime, SignRootCA(c, n, d) PROVE Kept
    BY <1>2, <2>1 DEF SignRootCA, Sign
  <2>2. ASSUME NEW id \in RootId, StoreRootCA(c, id) PROVE Kept
    <3> DEFINE rec == [name      |-> command[c].name,
                       parent_id |-> NoId,
                       not_after |-> command[c].not_after]
    <3>1. rec.name \in CAName /\ rec.parent_id \in {} \cup {NoId} /\ rec.not_after \in Nat
      <4>1. command[c] \in CommandState /\ command[c].step = "root signed"
        BY <2>2 DEF IInv, StoreRootCA
      <4>2. QED
        BY <4>1, SignedFields
    <3>2. id \notin DOMAIN rootCAs /\ rootCAs' = UpsertCA(SyncCAs(rootCAs, now), id, rec)
      BY <2>2 DEF StoreRootCA
    <3> HIDE DEF rec
    <3>3. Rotates(rootCAs, rootCAs', RootId)
      BY <1>1, <1>4, <3>1, <3>2, UpsertRotates
    <3>4. QED
      BY <1>3, <2>2, <3>3 DEF StoreRootCA
  <2>3. ASSUME NEW id \in DOMAIN rootCAs, RetireRootCA(c, id) PROVE Kept
    BY <1>1, <1>2, <2>3, RetireLapses DEF RetireRootCA
  <2>4. ASSUME NEW id \in DOMAIN rootCAs, PromoteRootCA(c, id) PROVE Kept
    BY <1>1, <1>3, <2>4, PromotePromotes DEF PromoteRootCA
  <2>5. QED
    BY <1>9, <2>1, <2>2, <2>3, <2>4 DEF RootStep
<1>10. ASSUME NEW c \in Command, IntermediateStep(c) PROVE Kept
  <2>1. ASSUME NEW r \in DOMAIN rootCAs, NEW n \in CAName, NEW d \in Lifetime,
               SignIntermediateCA(c, r, n, d)
        PROVE  Kept
    BY <1>2, <2>1 DEF SignIntermediateCA, Sign
  <2>2. ASSUME NEW id \in IcaId, StoreIntermediateCA(c, id) PROVE Kept
    <3> DEFINE rec == [name      |-> command[c].name,
                       parent_id |-> command[c].parent,
                       not_after |-> command[c].not_after]
    <3>1. /\ rec.name \in CAName
          /\ rec.parent_id \in RootId \cup {NoId}
          /\ rec.not_after \in Nat
      <4>1. command[c] \in CommandState /\ command[c].step = "intermediate signed"
        BY <2>2 DEF IInv, StoreIntermediateCA
      <4>2. QED
        BY <4>1, SignedFields
    <3>2. /\ id \notin DOMAIN intermediateCAs
          /\ intermediateCAs' = UpsertCA(SyncCAs(intermediateCAs, now), id, rec)
      BY <2>2 DEF StoreIntermediateCA
    <3> HIDE DEF rec
    <3>3. Rotates(intermediateCAs, intermediateCAs', IcaId)
      BY <1>1, <1>4, <3>1, <3>2, UpsertRotates
    <3>4. QED
      BY <1>3, <2>2, <3>3 DEF StoreIntermediateCA
  <2>3. ASSUME NEW id \in DOMAIN intermediateCAs, RetireIntermediateCA(c, id) PROVE Kept
    BY <1>1, <1>2, <2>3, RetireLapses DEF RetireIntermediateCA
  <2>4. ASSUME NEW id \in DOMAIN intermediateCAs, PromoteIntermediateCA(c, id) PROVE Kept
    BY <1>1, <1>3, <2>4, PromotePromotes DEF PromoteIntermediateCA
  <2>5. QED
    BY <1>10, <2>1, <2>2, <2>3, <2>4 DEF IntermediateStep
<1>11. ASSUME NEW c \in Command, LeafStep(c) PROVE Kept
  BY <1>2, <1>3, <1>11
  DEF LeafStep, SignLeaf, Sign, StoreLeaf, RevokePrivateCert
<1>12. QED
  BY <1>5, <1>6, <1>7, <1>8, <1>9, <1>10, <1>11 DEF Next

\* The tables of root and of intermediate CAs keep the promise of LogicalCA.
THEOREM SpecKeepsGenerations == Spec => KeepsGenerations
<1>1. Init => Roots!Init /\ Intermediates!Init
  <2> SUFFICES ASSUME Init PROVE Roots!Init /\ Intermediates!Init
    OBVIOUS
  <2>1. rootCAs = EmptyTable /\ intermediateCAs = EmptyTable
    BY DEF Init
  <2>2. HistoryOf(EmptyTable, CAName) = [n \in CAName |-> << >>]
    BY EmptyLogical
  <2>3. IssuingOf(EmptyTable, CAName) = [n \in CAName |-> 0]
    BY EmptyLogical
  <2>4. QED
    BY <2>1, <2>2, <2>3 DEF Roots!Init, Intermediates!Init
<1>2. LogicalStep(rootCAs, rootCAs', RootId) => [Roots!Next]_(Roots!vars)
  <2> SUFFICES ASSUME LogicalStep(rootCAs, rootCAs', RootId) PROVE Roots!Next
    OBVIOUS
  <2>1. CASE Lapses(rootCAs, rootCAs')
    BY <2>1
    DEF Lapses, Lapsing, History, Issuer, Roots!Next, Roots!Lapse, Roots!Lapsed
  <2>2. CASE Rotates(rootCAs, rootCAs', RootId)
    BY <2>2
    DEF Rotates, HandsOver, Lapsing, History, Issuer,
        Roots!Next, Roots!Rotate, Roots!HandOver, Roots!Lapsed
  <2>3. CASE Promotes(rootCAs, rootCAs')
    BY <2>3
    DEF Promotes, HandsOver, Lapsing, History, Issuer,
        Roots!Next, Roots!Promote, Roots!HandOver, Roots!Lapsed
  <2>4. QED
    BY <2>1, <2>2, <2>3 DEF LogicalStep
<1>3. LogicalStep(intermediateCAs, intermediateCAs', IcaId)
        => [Intermediates!Next]_(Intermediates!vars)
  <2> SUFFICES ASSUME LogicalStep(intermediateCAs, intermediateCAs', IcaId)
               PROVE  Intermediates!Next
    OBVIOUS
  <2>1. CASE Lapses(intermediateCAs, intermediateCAs')
    BY <2>1
    DEF Lapses, Lapsing, History, Issuer,
        Intermediates!Next, Intermediates!Lapse, Intermediates!Lapsed
  <2>2. CASE Rotates(intermediateCAs, intermediateCAs', IcaId)
    BY <2>2
    DEF Rotates, HandsOver, Lapsing, History, Issuer,
        Intermediates!Next, Intermediates!Rotate, Intermediates!HandOver,
        Intermediates!Lapsed
  <2>3. CASE Promotes(intermediateCAs, intermediateCAs')
    BY <2>3
    DEF Promotes, HandsOver, Lapsing, History, Issuer,
        Intermediates!Next, Intermediates!Promote, Intermediates!HandOver,
        Intermediates!Lapsed
  <2>4. QED
    BY <2>1, <2>2, <2>3 DEF LogicalStep
<1>4. QED
  BY <1>1, <1>2, <1>3, SpecIInv, NextLogical, PTL
  DEF Spec, KeepsGenerations, Roots!Spec, Intermediates!Spec

-----------------------------------------------------------------------------
(***************************************************************************)
(* What doctor reports while commands run.                                 *)
(***************************************************************************)

\* A CA that was not past its not_after at the time given.
NotYetExpired(i, time) ==
  \/ i \in DOMAIN rootCAs /\ rootCAs[i].not_after >= time
  \/ i \in DOMAIN intermediateCAs /\ intermediateCAs[i].not_after >= time

Holds(names) == names \subseteq DOMAIN doctor

HasLeaves == At("leaves read") \/ At("roots read") \/ At("read")

HasRoots == At("roots read") \/ At("read")

\* The leaves a report has read were good, and their issuers are stored since.
LeavesRead ==
  /\ Holds({"certs"})
  /\ GoodLeaves(doctor.certs, CertId, IcaId, CommonName)
  /\ \A i \in DOMAIN doctor.certs : doctor.certs[i].issuer_id \in DOMAIN intermediateCAs

RootsRead == Holds({"roots"}) /\ GoodCAs(doctor.roots, RootId, {}, CAName)

IntermediatesRead ==
  /\ Holds({"icas"})
  /\ GoodCAs(doctor.icas, IcaId, RootId, CAName)
  /\ DOMAIN doctor.icas \subseteq DOMAIN intermediateCAs
  /\ \A i \in DOMAIN doctor.certs : doctor.certs[i].issuer_id \in DOMAIN doctor.icas

ReportInv ==
  doctor # Idle =>
    /\ Holds({"step", "at", "issuing"})
    /\ \A i \in doctor.issuing : NotYetExpired(i, doctor.at)
    /\ HasLeaves => LeavesRead
    /\ HasRoots => RootsRead
    /\ At("read") => IntermediatesRead

DoctorIInv == IInv /\ ReportInv

\* Rows are not lost and keep their not_after.
LEMMA RowsKept ==
  ASSUME CarefulStep
  PROVE  /\ \A i \in DOMAIN rootCAs :
              i \in DOMAIN rootCAs' /\ rootCAs'[i].not_after = rootCAs[i].not_after
         /\ \A i \in DOMAIN intermediateCAs :
              /\ i \in DOMAIN intermediateCAs'
              /\ intermediateCAs'[i].not_after = intermediateCAs[i].not_after
<1>1. ASSUME NEW r, NEW s, CAIdentity(r) = CAIdentity(s) PROVE r.not_after = s.not_after
  BY <1>1 DEF CAIdentity
<1>2. QED
  BY <1>1 DEF CarefulStep, CarefulCAs

\* What a report has read stays good while commands go on.
LEMMA ReportStands ==
  ASSUME ReportInv, CarefulStep, UNCHANGED doctor
  PROVE  ReportInv'
<1>1. /\ DOMAIN intermediateCAs \subseteq DOMAIN intermediateCAs'
      /\ \A i, time : NotYetExpired(i, time) => NotYetExpired(i, time)'
  BY RowsKept DEF NotYetExpired
<1>2. LeavesRead => LeavesRead'
  BY <1>1 DEF LeavesRead, Holds
<1>3. IntermediatesRead => IntermediatesRead'
  BY <1>1 DEF IntermediatesRead, Holds
<1>4. QED
  BY <1>1, <1>2, <1>3 DEF ReportInv, RootsRead, Holds, HasLeaves, HasRoots, At

\* A report begins with what the synchronisation leaves issuing.
LEMMA OpenStep ==
  ASSUME IInv, OpenForDoctor
  PROVE  ReportInv'
<1>1. doctor' = [step |-> "opened", at |-> now, issuing |-> Issuing(rootCAs') \cup Issuing(intermediateCAs')]
  BY DEF OpenForDoctor
<1>2. rootCAs' = SyncCAs(rootCAs, now) /\ intermediateCAs' = SyncCAs(intermediateCAs, now)
  BY DEF OpenForDoctor, ReadOnlyCommand, SyncDerivedStatuses
<1>3. ASSUME NEW Id, NEW Parent, NEW t, GoodCAs(t, Id, Parent, CAName),
             NEW i \in Issuing(SyncCAs(t, now))
      PROVE  i \in DOMAIN SyncCAs(t, now) /\ SyncCAs(t, now)[i].not_after >= now
  <2>1. i \in DOMAIN t /\ SyncCAs(t, now)[i].is_issuing /\ i \in DOMAIN SyncCAs(t, now)
    BY <1>3 DEF Issuing, SyncCAs
  <2>2. t[i] \in CARow(Id, Parent, CAName) /\ now \in Nat
    BY <1>3, <2>1 DEF GoodCAs, IsCATable, IInv
  <2>3. ~IsExpiredAt(t[i], now)
    BY <2>1, <2>2 DEF SyncCAs, CARow
  <2>4. SyncCAs(t, now)[i] = t[i]
    BY <2>1, <2>3 DEF SyncCAs
  <2>5. t[i].status = "active"
    BY <1>3, <2>1, <2>4 DEF GoodCAs, IssuingIffActive
  <2>6. QED
    BY <2>1, <2>2, <2>3, <2>4, <2>5 DEF IsExpiredAt, CARow
<1>4. \A i \in Issuing(rootCAs') \cup Issuing(intermediateCAs') : NotYetExpired(i, now)'
  <2>1. now' = now
    BY DEF OpenForDoctor, ReadOnlyCommand
  <2>2. \A i \in Issuing(rootCAs') : i \in DOMAIN rootCAs' /\ rootCAs'[i].not_after >= now
    BY <1>2, <1>3 DEF IInv, GoodTables
  <2>3. \A i \in Issuing(intermediateCAs') :
          i \in DOMAIN intermediateCAs' /\ intermediateCAs'[i].not_after >= now
    BY <1>2, <1>3 DEF IInv, GoodTables
  <2>4. QED
    BY <2>1, <2>2, <2>3 DEF NotYetExpired
<1>5. /\ ~HasLeaves' /\ ~HasRoots' /\ ~At("read")'
  BY <1>1 DEF HasLeaves, HasRoots, At
<1>6. Holds({"step", "at", "issuing"})' /\ doctor'.at = now
      /\ doctor'.issuing = Issuing(rootCAs') \cup Issuing(intermediateCAs')
  BY <1>1 DEF Holds
<1>7. (\A i \in doctor.issuing : NotYetExpired(i, doctor.at))'
  BY <1>4, <1>6 DEF NotYetExpired, OpenForDoctor, ReadOnlyCommand
<1>8. QED
  BY <1>5, <1>6, <1>7 DEF ReportInv

\* What With does to each field.
LEMMA WithFields ==
  ASSUME NEW step, NEW name, NEW value, With(step, name, value), name # "step",
         "step" \in DOMAIN doctor
  PROVE  /\ DOMAIN doctor' = DOMAIN doctor \cup {name}
         /\ doctor'.step = step
         /\ doctor'[name] = value
         /\ \A f \in DOMAIN doctor \ {"step", name} : doctor'[f] = doctor[f]
BY DEF With

\* A report takes the time, or reads one more table.
LEMMA ReadStep ==
  ASSUME IInv, ReportInv,
         TakeTime \/ ListPrivateCerts \/ ListPrivateRootCAs \/ ListPrivateIntermediateCAs
  PROVE  ReportInv'
<1>1. UNCHANGED <<rootCAs, intermediateCAs, privateCerts>>
  BY DEF TakeTime, ListPrivateCerts, ListPrivateRootCAs, ListPrivateIntermediateCAs, vars
<1>2. /\ Holds({"step", "at", "issuing"})
      /\ \A i \in doctor.issuing : NotYetExpired(i, doctor.at)
      /\ HasLeaves => LeavesRead
      /\ HasRoots => RootsRead
  <2>1. doctor # Idle
    <3>1. At("opened") \/ At("timed") \/ At("leaves read") \/ At("roots read")
      BY DEF TakeTime, ListPrivateCerts, ListPrivateRootCAs, ListPrivateIntermediateCAs
    <3>2. doctor.step # "idle"
      BY <3>1, Zenon DEF At
    <3>3. Idle.step = "idle"
      BY DEF Idle
    <3>4. QED
      BY <3>2, <3>3
  <2>2. QED
    BY <2>1 DEF ReportInv
<1>3. ASSUME NEW step, NEW name \in {"now", "certs", "roots", "icas"}, NEW value,
             With(step, name, value)
      PROVE  /\ DOMAIN doctor' = DOMAIN doctor \cup {name}
             /\ doctor'.step = step
             /\ doctor'[name] = value
             /\ \A f \in DOMAIN doctor \ {"step", name} : doctor'[f] = doctor[f]
             /\ Holds({"step", "at", "issuing"})'
             /\ (\A i \in doctor.issuing : NotYetExpired(i, doctor.at))'
  <2>1. name # "step" /\ "step" \in DOMAIN doctor
    BY <1>2, <1>3 DEF Holds
  <2>2. /\ DOMAIN doctor' = DOMAIN doctor \cup {name}
        /\ doctor'.step = step
        /\ doctor'[name] = value
        /\ \A f \in DOMAIN doctor \ {"step", name} : doctor'[f] = doctor[f]
    BY <1>3, <2>1, WithFields
  <2>3. doctor'.at = doctor.at /\ doctor'.issuing = doctor.issuing
    BY <1>2, <2>2 DEF Holds
  <2>4. (\A i \in doctor.issuing : NotYetExpired(i, doctor.at))'
    BY <1>1, <1>2, <2>3 DEF NotYetExpired
  <2>5. QED
    BY <1>2, <2>2, <2>4 DEF Holds
<1>4. /\ GoodLeaves(privateCerts, CertId, IcaId, CommonName)
      /\ \A i \in DOMAIN privateCerts : privateCerts[i].issuer_id \in DOMAIN intermediateCAs
      /\ GoodCAs(rootCAs, RootId, {}, CAName)
      /\ GoodCAs(intermediateCAs, IcaId, RootId, CAName)
  BY DEF IInv, GoodTables, IssuersStored
<1>5. CASE TakeTime
  <2>1. With("timed", "now", now)
    BY <1>5 DEF TakeTime
  <2>2. doctor'.step = "timed" /\ Holds({"step", "at", "issuing"})'
        /\ (\A i \in doctor.issuing : NotYetExpired(i, doctor.at))'
    BY <1>3, <2>1
  <2>3. QED
    BY <2>2 DEF ReportInv, HasLeaves, HasRoots, At
<1>6. CASE ListPrivateCerts
  <2>1. With("leaves read", "certs", privateCerts)
    BY <1>6 DEF ListPrivateCerts
  <2>2. /\ DOMAIN doctor' = DOMAIN doctor \cup {"certs"}
        /\ doctor'.step = "leaves read" /\ doctor'.certs = privateCerts
        /\ Holds({"step", "at", "issuing"})'
        /\ (\A i \in doctor.issuing : NotYetExpired(i, doctor.at))'
    BY <1>3, <2>1
  <2>3. LeavesRead'
    BY <1>1, <1>4, <2>2 DEF LeavesRead, Holds
  <2>4. QED
    BY <2>2, <2>3 DEF ReportInv, HasLeaves, HasRoots, At
<1>7. CASE ListPrivateRootCAs
  <2>1. With("roots read", "roots", rootCAs) /\ At("leaves read")
    BY <1>7 DEF ListPrivateRootCAs
  <2>2. /\ DOMAIN doctor' = DOMAIN doctor \cup {"roots"}
        /\ doctor'.step = "roots read" /\ doctor'.roots = rootCAs
        /\ \A f \in DOMAIN doctor \ {"step", "roots"} : doctor'[f] = doctor[f]
        /\ Holds({"step", "at", "issuing"})'
        /\ (\A i \in doctor.issuing : NotYetExpired(i, doctor.at))'
    BY <1>3, <2>1
  <2>3. LeavesRead
    BY <1>2, <2>1 DEF HasLeaves
  <2>4. doctor'.certs = doctor.certs
    BY <2>2, <2>3 DEF LeavesRead, Holds
  <2>5. LeavesRead'
    BY <1>1, <2>2, <2>3, <2>4 DEF LeavesRead, Holds
  <2>6. RootsRead'
    BY <1>4, <2>2 DEF RootsRead, Holds
  <2>7. QED
    BY <2>2, <2>5, <2>6 DEF ReportInv, HasLeaves, HasRoots, At
<1>8. CASE ListPrivateIntermediateCAs
  <2>1. With("read", "icas", intermediateCAs) /\ At("roots read")
    BY <1>8 DEF ListPrivateIntermediateCAs
  <2>2. /\ DOMAIN doctor' = DOMAIN doctor \cup {"icas"}
        /\ doctor'.step = "read" /\ doctor'.icas = intermediateCAs
        /\ \A f \in DOMAIN doctor \ {"step", "icas"} : doctor'[f] = doctor[f]
        /\ Holds({"step", "at", "issuing"})'
        /\ (\A i \in doctor.issuing : NotYetExpired(i, doctor.at))'
    BY <1>3, <2>1
  <2>3. LeavesRead /\ RootsRead
    BY <1>2, <2>1 DEF HasLeaves, HasRoots
  <2>4. doctor'.certs = doctor.certs /\ doctor'.roots = doctor.roots
    BY <2>2, <2>3 DEF LeavesRead, RootsRead, Holds
  <2>5. LeavesRead'
    BY <1>1, <2>2, <2>3, <2>4 DEF LeavesRead, Holds
  <2>6. RootsRead'
    BY <2>2, <2>3, <2>4 DEF RootsRead, Holds
  <2>7. IntermediatesRead'
    BY <1>1, <1>4, <2>2, <2>3, <2>4 DEF IntermediatesRead, LeavesRead, Holds
  <2>8. QED
    BY <2>2, <2>5, <2>6, <2>7 DEF ReportInv
<1>9. QED
  BY <1>5, <1>6, <1>7, <1>8

LEMMA DoctorInitIInv == DoctorInit => DoctorIInv
BY InitIInv DEF DoctorInit, DoctorIInv, ReportInv

LEMMA DoctorNextIInv == DoctorIInv /\ [DoctorNext]_allVars => DoctorIInv'
<1> SUFFICES ASSUME IInv, ReportInv, [DoctorNext]_allVars PROVE IInv' /\ ReportInv'
  BY DEF DoctorIInv
<1>1. [Next]_vars
  BY DEF DoctorNext, DoctorStep, OpenForDoctor, TakeTime, ListPrivateCerts, ListPrivateRootCAs,
         ListPrivateIntermediateCAs, Close, allVars, Next
<1>2. IInv' /\ CarefulStep
  BY <1>1, NextIInv, NextCareful
<1>3. CASE UNCHANGED doctor
  BY <1>2, <1>3, ReportStands
<1>4. CASE OpenForDoctor
  BY <1>2, <1>4, OpenStep
<1>5. CASE TakeTime \/ ListPrivateCerts \/ ListPrivateRootCAs \/ ListPrivateIntermediateCAs
  BY <1>2, <1>5, ReadStep
<1>6. CASE Close
  BY <1>2, <1>6 DEF Close, ReportInv
<1>7. QED
  BY <1>3, <1>4, <1>5, <1>6 DEF DoctorNext, DoctorStep, allVars

\* The tables stay good, and a report's copies of them stay fit for each other.
THEOREM DoctorSpecIInv == DoctorSpec => []DoctorIInv
BY DoctorInitIInv, DoctorNextIInv, PTL DEF DoctorSpec

\* One active row of a name at most is no count of more than one.
LEMMA OneOrNone ==
  ASSUME NEW S, \A i, j \in S : i = j
  PROVE  ~(Cardinality(S) > 1)
<1>1. CASE S = {}
  BY <1>1, FS_EmptySet
<1>2. CASE S # {}
  <2>1. PICK x \in S : TRUE
    BY <1>2
  <2>2. S = {x}
    BY <2>1
  <2>3. Cardinality(S) = 1
    BY <2>2, FS_Singleton
  <2>4. QED
    BY <2>3
<1>3. QED
  BY <1>1, <1>2

\* A good table of CAs gives no finding but of CAs that expired.
LEMMA GoodCAsNoDamage ==
  ASSUME NEW Id, NEW Parent, NEW t, GoodCAs(t, Id, Parent, CAName), NEW check, NEW time,
         NEW f \in CAFindings(t, check, time)
  PROVE  f.check = check.expired
<1>1. \A i \in DOMAIN t : ~(t[i].is_issuing /\ t[i].status # "active")
  BY DEF GoodCAs, IssuingIffActive
<1>2. \A n : ~(Cardinality(Named(t, n)) > 1)
  BY OneOrNone DEF GoodCAs, AtMostOneActive, Named
<1>3. QED
  BY <1>1, <1>2 DEF CAFindings, Finding

\* A finding is about damage only if a row refers to one that is not stored, or
\* the unique indexes have failed; neither is so.  An intermediate that seems
\* to lack its root was stored after the roots were read, and so was the root.
THEOREM DoctorNoFalseDamage == DoctorSpec => []NoFalseDamage
<1>1. DoctorIInv => NoFalseDamage
  <2> SUFFICES ASSUME DoctorIInv, At("read"), NEW f \in RunDoctorWithOptions(doctor)
               PROVE  /\ f.check \notin Damage
                      /\ f.check = "intermediate_root_ref" =>
                           intermediateCAs[f.about].parent_id \in DOMAIN rootCAs
    BY DEF NoFalseDamage, Reported
  <2>1. LeavesRead /\ RootsRead /\ IntermediatesRead
    BY DEF DoctorIInv, ReportInv, HasLeaves, HasRoots, At, Idle
  <2>2. f \notin checkActiveLeafCounts(doctor.certs)
    <3>1. \A n : ~(Cardinality(ActiveLeaves(doctor.certs, n)) > 1)
      BY <2>1, OneOrNone DEF LeavesRead, GoodLeaves, AtMostOneActiveLeaf, ActiveLeaves
    <3>2. QED
      BY <3>1 DEF checkActiveLeafCounts
  <2>3. f \notin checkLeafLineageLinks(doctor.certs)
    BY <2>1 DEF checkLeafLineageLinks, LeavesRead, GoodLeaves, LeafChain
  <2>4. f \in CAFindings(doctor.roots, RootChecks, doctor.now) => f.check = "root_expired_issuing"
    BY <2>1, GoodCAsNoDamage DEF RootsRead, RootChecks
  <2>5. f \in CAFindings(doctor.icas, IntermediateChecks, doctor.now)
          => f.check = "intermediate_expired_issuing"
    BY <2>1, GoodCAsNoDamage DEF IntermediatesRead, IntermediateChecks
  <2>6. f \in checkPrivateCertIssuers(doctor.certs, doctor.icas)
          => f.check = "private_inactive_issuer"
    BY <2>1 DEF checkPrivateCertIssuers, IntermediatesRead, Finding
  <2>7. f \in checkExpiringLeafs(doctor.certs, doctor.now) \cup checkExpiringCAs(doctor.roots, doctor.icas, doctor.now)
          => f.check \in {"private_expiring", "root_expiring", "intermediate_expiring"}
    BY DEF checkExpiringLeafs, checkExpiringCAs, ExpiringFindings, Finding
  <2>8. ASSUME f \in {Finding("error", "intermediate_root_ref", i) :
                        i \in {j \in DOMAIN doctor.icas :
                                 doctor.icas[j].parent_id \notin DOMAIN doctor.roots}}
        PROVE  /\ f.check = "intermediate_root_ref"
               /\ intermediateCAs[f.about].parent_id \in DOMAIN rootCAs
    <3>1. f.check = "intermediate_root_ref" /\ f.about \in DOMAIN doctor.icas
      BY <2>8 DEF Finding
    <3>2. f.about \in DOMAIN intermediateCAs
      BY <2>1, <3>1 DEF IntermediatesRead
    <3>3. QED
      BY <3>1, <3>2 DEF DoctorIInv, IInv, IssuersStored
  <2>9. \/ f.check \in {"root_expired_issuing", "intermediate_expired_issuing",
                        "private_inactive_issuer", "private_expiring", "root_expiring",
                        "intermediate_expiring"}
        \/ /\ f.check = "intermediate_root_ref"
           /\ intermediateCAs[f.about].parent_id \in DOMAIN rootCAs
    BY <2>2, <2>3, <2>4, <2>5, <2>6, <2>7, <2>8 DEF RunDoctorWithOptions, checkCAInvariants
  <2>10. QED
    BY <2>9 DEF Damage
<1>2. QED
  BY <1>1, DoctorSpecIInv, PTL

\* A CA that issues although it has expired did so, or expired, while doctor was
\* reading: what was issuing when the report began had been synchronised.
THEOREM DoctorExpiredIssuingIsNews == DoctorSpec => []ExpiredIssuingIsNews
<1>1. DoctorIInv => ExpiredIssuingIsNews
  BY DEF DoctorIInv, ReportInv, ExpiredIssuingIsNews, Reported, NotYetExpired, At, Idle
<1>2. QED
  BY <1>1, DoctorSpecIInv, PTL

=============================================================================
