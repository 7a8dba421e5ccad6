-------------------------- MODULE PublicCertsProofs ---------------------------
(***************************************************************************)
(* PublicCerts is correct for every set of ids, names and commands, every  *)
(* lifetime and every clock.                                               *)
(*                                                                         *)
(* Argument: a command decides what to do long before it stores anything,  *)
(* but what it stores is put in by one transaction that looks at the table *)
(* again, so nothing it decided on needs to hold any longer.  The table is *)
(* therefore sound on its own, and each step treats each row with care.    *)
(* The only thing a command must carry along is the names it asked for.    *)
(***************************************************************************)
EXTENDS PublicCerts, TableLemmas

Working ==
  [ step : {"opened", "checked", "ordering", "ordered", "skipped", "not stored"},
    name : {"get", "renew"}, id : CertId \cup {NoId}, common_name : CommonName,
    sans : SANs \cup {NoId}, force : BOOLEAN, not_after : Nat ]

\* A command that is under way, and one that will store what it was asked for.
Sensible(x) == x \in CommandState /\ (x # Idle /\ x.name = "get" => x.sans \in SANs)

RowsTyped ==
  /\ GoodLeaves(public_certs, CertId, {}, CommonName)
  /\ sans_hash \in [DOMAIN public_certs -> SANs]

CommandsTyped ==
  /\ command \in [Command -> CommandState]
  /\ \A c \in Command : Sensible(command[c])

IInv == RowsTyped /\ CommandsTyped /\ now \in Nat

\* What a step may do to a row: nothing but take it out of use, and that for one
\* of three reasons.
RowKept(i) ==
  /\ i \in DOMAIN public_certs'
  /\ public_certs'[i] \in LeafRow(CertId, {}, CommonName)
  /\ SameLeaf(public_certs[i], public_certs'[i])
  /\ sans_hash'[i] = sans_hash[i]
  /\ \/ public_certs'[i].status = public_certs[i].status
     \/ public_certs'[i].status = "revoked"
     \/ /\ public_certs[i].status = "active"
        /\ public_certs'[i].status = "expired"
        /\ public_certs[i].not_after < now
     \/ /\ public_certs[i].status = "active"
        /\ public_certs'[i].status = "superseded"
        /\ ActiveLeaves(public_certs', public_certs[i].common_name) # {}

RowsKept == \A i \in DOMAIN public_certs : RowKept(i)

-----------------------------------------------------------------------------
(***************************************************************************)
(* The table                                                               *)
(***************************************************************************)

LEMMA SameRows ==
  ASSUME RowsTyped, UNCHANGED <<public_certs, sans_hash>>
  PROVE  RowsTyped' /\ RowsKept
<1>1. \A i \in DOMAIN public_certs : public_certs[i] \in LeafRow(CertId, {}, CommonName)
  BY DEF RowsTyped, GoodLeaves, IsLeafTable
<1>2. RowsKept
  BY <1>1 DEF RowsKept, RowKept, SameLeaf
<1>3. QED
  BY <1>2 DEF RowsTyped

LEMMA SyncRows ==
  ASSUME RowsTyped, public_certs' = SyncLeaves(public_certs, now), sans_hash' = sans_hash
  PROVE  RowsTyped' /\ RowsKept
<1>1. GoodLeafUpdate(public_certs, public_certs', CertId, {}, CommonName)
  BY SyncLeavesGood DEF RowsTyped
<1>2. DOMAIN public_certs' = DOMAIN public_certs /\ RowsTyped'
  BY <1>1 DEF GoodLeafUpdate, Demotes, RowsTyped
<1>3. IsLeafTable(public_certs, CertId, {}, CommonName)
  BY DEF RowsTyped, GoodLeaves
<1>4. \A i \in DOMAIN public_certs :
        /\ public_certs'[i] \in LeafRow(CertId, {}, CommonName)
        /\ SameLeaf(public_certs[i], public_certs'[i])
        /\ \/ public_certs'[i].status = public_certs[i].status
           \/ /\ public_certs[i].status = "active"
              /\ public_certs'[i].status = "expired"
              /\ public_certs[i].not_after < now
  BY <1>3, SyncedLeaf
<1>5. RowsKept
  BY <1>2, <1>4 DEF RowsKept, RowKept
<1>6. QED
  BY <1>2, <1>5

LEMMA InsertRows ==
  ASSUME RowsTyped, NEW id \in CertId, id \notin DOMAIN public_certs,
         NEW row, NEW sans \in SANs, Insert(id, row, sans),
         row.common_name \in CommonName, row.issuer_id = NoId, row.not_after \in Nat
  PROVE  RowsTyped' /\ RowsKept
<1> DEFINE v == SyncLeaves(public_certs, now)
           u == UpsertLeaf(v, id, row)
<1>1. /\ public_certs' = u
      /\ sans_hash' = [i \in DOMAIN sans_hash \cup {id} |->
                         IF i = id THEN sans ELSE sans_hash[i]]
  BY DEF Insert
<1>2. GoodLeaves(v, CertId, {}, CommonName) /\ DOMAIN v = DOMAIN public_certs
  BY SyncLeavesGood DEF RowsTyped, GoodLeafUpdate, Demotes
<1>3. IsLeafTable(public_certs, CertId, {}, CommonName)
  BY DEF RowsTyped, GoodLeaves
<1>4. \A i \in DOMAIN public_certs :
        /\ u[i] \in LeafRow(CertId, {}, CommonName)
        /\ SameLeaf(public_certs[i], u[i])
        /\ \/ u[i].status = public_certs[i].status
           \/ /\ public_certs[i].status = "active"
              /\ u[i].status = "expired"
              /\ public_certs[i].not_after < now
           \/ /\ public_certs[i].status = "active"
              /\ u[i].status = "superseded"
              /\ public_certs[i].common_name = row.common_name
  BY <1>3, SyncedUpsertedLeaf
<1>5. id \in DOMAIN u /\ u[id].common_name = row.common_name /\ u[id].status = "active"
  BY DEF UpsertLeaf
<1> HIDE DEF v
<1>6. GoodLeafInsert(v, u, id, row, CertId, {}, CommonName)
  BY <1>2, UpsertLeafGood, PublicCertsAssumption
<1> HIDE DEF u
<1>7. DOMAIN u = DOMAIN public_certs \cup {id} /\ GoodLeaves(u, CertId, {}, CommonName)
  BY <1>2, <1>6 DEF GoodLeafInsert
<1>8. /\ sans_hash' \in [DOMAIN u -> SANs]
      /\ \A i \in DOMAIN public_certs : sans_hash'[i] = sans_hash[i]
  BY <1>1, <1>7 DEF RowsTyped
<1>9. ActiveLeaves(u, row.common_name) # {}
  BY <1>5 DEF ActiveLeaves
<1>10. RowsKept
  BY <1>1, <1>4, <1>7, <1>8, <1>9 DEF RowsKept, RowKept
<1>11. QED
  BY <1>1, <1>7, <1>8, <1>10 DEF RowsTyped

LEMMA RevokeRows ==
  ASSUME RowsTyped, NEW id \in DOMAIN public_certs, RevokePublicCert(id)
  PROVE  RowsTyped' /\ RowsKept
<1>1. public_certs' = RevokeLeaf(public_certs, id) /\ sans_hash' = sans_hash
  BY DEF RevokePublicCert
<1>2. GoodLeafUpdate(public_certs, public_certs', CertId, {}, CommonName)
  BY <1>1, RevokeGood DEF RowsTyped
<1>3. DOMAIN public_certs' = DOMAIN public_certs /\ RowsTyped'
  BY <1>1, <1>2 DEF GoodLeafUpdate, Demotes, RowsTyped
<1>4. IsLeafTable(public_certs, CertId, {}, CommonName)
  BY DEF RowsTyped, GoodLeaves
<1>5. \A i \in DOMAIN public_certs :
        /\ public_certs'[i] \in LeafRow(CertId, {}, CommonName)
        /\ SameLeaf(public_certs[i], public_certs'[i])
        /\ IF i = id THEN public_certs'[i].status = "revoked"
                     ELSE public_certs'[i] = public_certs[i]
  BY <1>1, <1>4, RevokedLeaf
<1>6. RowsKept
  BY <1>1, <1>3, <1>5 DEF RowsKept, RowKept
<1>7. QED
  BY <1>3, <1>6

-----------------------------------------------------------------------------
(***************************************************************************)
(* The commands                                                            *)
(***************************************************************************)

LEMMA WorkingFields ==
  ASSUME NEW x \in CommandState, x.step # "idle"
  PROVE  x \in Working /\ x # Idle
<1>1. Idle.step = "idle"
  BY DEF Idle
<1>2. QED
  BY <1>1 DEF CommandState, Working

LEMMA CommandSet ==
  ASSUME CommandsTyped, NEW c \in Command, NEW x, Sensible(x),
         command' = [command EXCEPT ![c] = x]
  PROVE  CommandsTyped'
BY DEF CommandsTyped, Sensible

LEMMA GotoSensible ==
  ASSUME CommandsTyped, NEW c \in Command, command[c].step # "idle",
         NEW step \in {"checked", "ordering", "skipped", "not stored"}, Goto(c, step)
  PROVE  CommandsTyped'
<1> DEFINE x == [command[c] EXCEPT !.step = step]
<1>1. command' = [command EXCEPT ![c] = x]
  BY DEF Goto
<1>2. command[c] \in Working /\ Sensible(command[c]) /\ command[c] # Idle
  BY WorkingFields DEF CommandsTyped
<1>3. x \in Working /\ x.name = command[c].name /\ x.sans = command[c].sans
  BY <1>2 DEF Working
<1> HIDE DEF x
<1>4. Sensible(x)
  BY <1>2, <1>3 DEF Sensible, CommandState, Working
<1>5. QED
  BY <1>1, <1>4, CommandSet

LEMMA OpenSensible ==
  ASSUME CommandsTyped, NEW c \in Command, NEW name \in {"get", "renew"}, NEW cn \in CommonName,
         NEW sans \in SANs \cup {NoId}, NEW force \in BOOLEAN, name = "get" => sans \in SANs,
         Open(c, name, cn, sans, force)
  PROVE  CommandsTyped'
<1> DEFINE x == [step |-> "opened", name |-> name, id |-> NoId, common_name |-> cn,
                 sans |-> sans, force |-> force, not_after |-> 0]
<1>1. command' = [command EXCEPT ![c] = x]
  BY DEF Open
<1>2. x \in Working /\ x.name = name /\ x.sans = sans
  BY DEF Working
<1> HIDE DEF x
<1>3. Sensible(x)
  BY <1>2 DEF Sensible, CommandState, Working
<1>4. QED
  BY <1>1, <1>3, CommandSet

LEMMA ReadActiveSensible ==
  ASSUME IInv, NEW c \in Command, ReadActive(c)
  PROVE  CommandsTyped'
<1>1. PICK i \in ActiveLeaves(public_certs, command[c].common_name) :
        command' = [command EXCEPT
          ![c].step = IF ~command[c].force /\ LastsBeyond(i, Days) THEN "skipped" ELSE "ordering",
          ![c].id   = i,
          ![c].sans = sans_hash[i]]
  BY DEF ReadActive
<1> PICK step : /\ step = IF ~command[c].force /\ LastsBeyond(i, Days)
                          THEN "skipped" ELSE "ordering"
                /\ step \in {"skipped", "ordering"}
  OBVIOUS
<1>2. command[c] \in Working /\ Sensible(command[c])
  BY WorkingFields DEF ReadActive, IInv, CommandsTyped
<1>3. i \in CertId /\ sans_hash[i] \in SANs
  BY DEF ActiveLeaves, IInv, RowsTyped, GoodLeaves, IsLeafTable
<1> DEFINE x == [[[command[c] EXCEPT !.step = step] EXCEPT !.id = i] EXCEPT !.sans = sans_hash[i]]
<1>4. command' = [command EXCEPT ![c] = x]
  BY <1>1 DEF IInv, CommandsTyped
<1>5. x \in Working /\ x.sans \in SANs
  BY <1>2, <1>3 DEF Working
<1> HIDE DEF x
<1>6. Sensible(x)
  BY <1>5 DEF Sensible, CommandState, Working
<1>7. QED
  BY <1>4, <1>6, CommandSet DEF IInv

LEMMA NatSum == \A a, b \in Nat : a + b \in Nat
OBVIOUS

LEMMA OrderSensible ==
  ASSUME IInv, NEW c \in Command, Order(c)
  PROVE  CommandsTyped'
<1> DEFINE x == [[command[c] EXCEPT !.step = "ordered"] EXCEPT !.not_after = now + Lifetime]
<1>1. command' = [command EXCEPT ![c] = x]
  BY DEF Order, IInv, CommandsTyped
<1>2. command[c] \in Working /\ Sensible(command[c]) /\ command[c] # Idle
  BY WorkingFields DEF Order, IInv, CommandsTyped
<1>3. now + Lifetime \in Nat
  BY NatSum, PublicCertsAssumption DEF IInv
<1>4. x \in Working /\ x.name = command[c].name /\ x.sans = command[c].sans
  BY <1>2, <1>3 DEF Working
<1> HIDE DEF x
<1>5. Sensible(x)
  BY <1>2, <1>4 DEF Sensible, CommandState, Working
<1>6. QED
  BY <1>1, <1>5, CommandSet DEF IInv

LEMMA IdleSensible ==
  ASSUME CommandsTyped, NEW c \in Command, command' = [command EXCEPT ![c] = Idle]
  PROVE  CommandsTyped'
<1>1. Sensible(Idle)
  BY DEF Sensible, CommandState
<1>2. QED
  BY <1>1, CommandSet

-----------------------------------------------------------------------------
(***************************************************************************)
(* The steps                                                               *)
(***************************************************************************)

LEMMA InitIInv == Init => IInv
<1> SUFFICES ASSUME Init PROVE IInv
  OBVIOUS
<1>1. RowsTyped
  BY EmptyLeavesGood DEF Init, RowsTyped, EmptyTable
<1>2. CommandsTyped
  BY DEF Init, CommandsTyped, CommandState, Sensible
<1>3. QED
  BY <1>1, <1>2 DEF IInv, Init

LEMMA UpsertNewStep ==
  ASSUME IInv, NEW c \in Command, NEW id \in CertId, UpsertNew(c, id)
  PROVE  IInv' /\ RowsKept
<1> PICK row : row = NewRow(c)
  OBVIOUS
<1>1. command[c] \in Working /\ Sensible(command[c]) /\ command[c] # Idle
  BY WorkingFields DEF UpsertNew, IInv, CommandsTyped
<1>2. command[c].sans \in SANs
  BY <1>1 DEF Sensible, UpsertNew, Renewing, Working
<1>3. row.common_name \in CommonName /\ row.issuer_id = NoId /\ row.not_after \in Nat
  BY <1>1 DEF NewRow, Working
<1>4. RowsTyped' /\ RowsKept
  BY <1>2, <1>3, InsertRows DEF UpsertNew, IInv
<1>5. QED
  BY <1>4, IdleSensible DEF UpsertNew, IInv

LEMMA ApproveStep ==
  ASSUME IInv, NEW id \in CertId, NEW cn \in CommonName, NEW sans \in SANs,
         ApprovePublicCSRRequest(id, cn, sans)
  PROVE  IInv' /\ RowsKept
<1> PICK row : row = [common_name |-> cn, issuer_id |-> NoId, not_after |-> now + Lifetime]
  OBVIOUS
<1>1. row.common_name \in CommonName /\ row.issuer_id = NoId /\ row.not_after \in Nat
  BY NatSum, PublicCertsAssumption DEF IInv
<1>2. RowsTyped' /\ RowsKept
  BY <1>1, InsertRows DEF ApprovePublicCSRRequest, IInv
<1>3. QED
  BY <1>2 DEF ApprovePublicCSRRequest, IInv, CommandsTyped, Sensible

\* The steps of a command between its beginning and what it stores.
LEMMA DecideStep ==
  ASSUME IInv, NEW c \in Command,
         CheckLifetime(c) \/ CheckIdentical(c) \/ ReadActive(c) \/ Order(c) \/ UpsertRenewed(c)
           \/ End(c)
  PROVE  IInv' /\ RowsKept
<1>1. UNCHANGED <<public_certs, sans_hash, now>>
  BY DEF CheckLifetime, CheckIdentical, ReadActive, Order, UpsertRenewed, End, Goto
<1>2. CommandsTyped'
  <2>1. CASE CheckLifetime(c)
    BY <2>1, GotoSensible DEF CheckLifetime, IInv
  <2>2. CASE CheckIdentical(c)
    BY <2>2, GotoSensible DEF CheckIdentical, IInv
  <2>3. CASE UpsertRenewed(c)
    BY <2>3, GotoSensible DEF UpsertRenewed, IInv
  <2>4. CASE End(c)
    BY <2>4, IdleSensible DEF End, IInv
  <2>5. QED
    BY <2>1, <2>2, <2>3, <2>4, ReadActiveSensible, OrderSensible
<1>3. QED
  BY <1>1, <1>2, SameRows DEF IInv

LEMMA NextIInv == IInv /\ [Next]_vars => IInv' /\ RowsKept
<1> SUFFICES ASSUME IInv, [Next]_vars PROVE IInv' /\ RowsKept
  OBVIOUS
<1>1. CASE Tick
  <2>1. now' \in Nat /\ CommandsTyped'
    BY <1>1, NatSum DEF Tick, IInv, CommandsTyped, Sensible
  <2>2. QED
    BY <1>1, <2>1, SameRows DEF Tick, IInv
<1>2. ASSUME NEW c \in Command, NEW cn \in CommonName, NEW force \in BOOLEAN,
             (\E sans \in SANs : Open(c, "get", cn, sans, force))
               \/ Open(c, "renew", cn, NoId, force)
      PROVE  IInv' /\ RowsKept
  <2>1. CommandsTyped'
    BY <1>2, OpenSensible DEF IInv
  <2>2. /\ public_certs' = SyncLeaves(public_certs, now)
        /\ sans_hash' = sans_hash
        /\ now' = now
    BY <1>2 DEF Open
  <2>3. QED
    BY <2>1, <2>2, SyncRows DEF IInv
<1>3. ASSUME NEW id \in DOMAIN public_certs, RevokePublicCert(id) PROVE IInv' /\ RowsKept
  BY <1>3, RevokeRows DEF RevokePublicCert, IInv, CommandsTyped, Sensible
<1>4. CASE UNCHANGED vars
  BY <1>4, SameRows DEF vars, IInv, CommandsTyped, Sensible
<1>5. QED
  BY <1>1, <1>2, <1>3, <1>4, DecideStep, UpsertNewStep, ApproveStep DEF Next

-----------------------------------------------------------------------------
(***************************************************************************)
(* The theorems                                                            *)
(***************************************************************************)

\* The inductive invariant holds in every reachable state.
THEOREM SpecIInv == Spec => []IInv
BY InitIInv, NextIInv, PTL DEF Spec

\* The rows, their hashes and the commands keep their types; above all, get never
\* stores a certificate without the hash of the names it was asked for.
THEOREM SpecTypeOK == Spec => []TypeOK
<1>1. IInv => TypeOK
  BY DEF IInv, RowsTyped, GoodLeaves, CommandsTyped, TypeOK
<1>2. QED
  BY <1>1, SpecIInv, PTL

\* Any number of get, renew and approve calls for a name, racing with revocation
\* and expiry, leave it one active certificate at most and one chain of them.
THEOREM SpecTablesSound == Spec => []TablesSound
<1>1. IInv => TablesSound
  BY DEF IInv, RowsTyped, GoodLeaves, TablesSound
<1>2. QED
  BY <1>1, SpecIInv, PTL

\* A name loses its active certificate only to a revocation or to the clock, never
\* to a command that supersedes it and then fails to store the next one.
THEOREM SpecNameKeepsActive == Spec => NameKeepsActive
<1> DEFINE Keeps ==
      \A i \in DOMAIN public_certs :
        public_certs[i].status = "active" =>
          \/ public_certs'[i].status = "revoked"
          \/ public_certs'[i].status = "expired" /\ public_certs[i].not_after < now
          \/ ActiveLeaves(public_certs', public_certs[i].common_name) # {}
<1>1. RowsKept => Keeps
  <2> SUFFICES ASSUME RowsKept, NEW i \in DOMAIN public_certs, public_certs[i].status = "active"
               PROVE  \/ public_certs'[i].status = "revoked"
                      \/ public_certs'[i].status = "expired" /\ public_certs[i].not_after < now
                      \/ ActiveLeaves(public_certs', public_certs[i].common_name) # {}
    OBVIOUS
  <2>1. public_certs'[i].status = "active"
          => i \in ActiveLeaves(public_certs', public_certs[i].common_name)
    BY DEF RowsKept, RowKept, ActiveLeaves, SameLeaf
  <2>2. QED
    BY <2>1 DEF RowsKept, RowKept
<1> HIDE DEF Keeps
<1>2. IInv /\ [Next]_vars => [Keeps]_vars
  BY <1>1, NextIInv
<1>3. QED
  BY <1>2, SpecIInv, PTL DEF Spec, NameKeepsActive, Keeps

\* Two rows that differ in their status at most.
LEMMA SameIdentity ==
  ASSUME NEW a \in LeafRow(CertId, {}, CommonName), NEW b \in LeafRow(CertId, {}, CommonName),
         SameLeaf(a, b)
  PROVE  [a EXCEPT !.status = "any"] = [b EXCEPT !.status = "any"]
BY DEF LeafRow, SameLeaf

\* No step of any command removes, rewrites or reactivates what was issued.
THEOREM SpecHistoryPreserved == Spec => HistoryPreserved
<1> DEFINE Preserved ==
      \A i \in DOMAIN public_certs :
        /\ i \in DOMAIN public_certs'
        /\ [public_certs[i] EXCEPT !.status = "any"] = [public_certs'[i] EXCEPT !.status = "any"]
        /\ sans_hash'[i] = sans_hash[i]
        /\ public_certs'[i].status = "active" => public_certs[i].status = "active"
<1>1. IInv /\ RowsKept => Preserved
  <2> SUFFICES ASSUME IInv, RowsKept, NEW i \in DOMAIN public_certs
               PROVE  /\ i \in DOMAIN public_certs'
                      /\ [public_certs[i] EXCEPT !.status = "any"]
                           = [public_certs'[i] EXCEPT !.status = "any"]
                      /\ sans_hash'[i] = sans_hash[i]
                      /\ public_certs'[i].status = "active" => public_certs[i].status = "active"
    OBVIOUS
  <2>1. public_certs[i] \in LeafRow(CertId, {}, CommonName)
    BY DEF IInv, RowsTyped, GoodLeaves, IsLeafTable
  <2>2. RowKept(i)
    BY DEF RowsKept
  <2>3. [public_certs[i] EXCEPT !.status = "any"] = [public_certs'[i] EXCEPT !.status = "any"]
    BY <2>1, <2>2, SameIdentity DEF RowKept
  <2>4. QED
    BY <2>2, <2>3 DEF RowKept
<1> HIDE DEF Preserved
<1>2. IInv /\ [Next]_vars => [Preserved]_vars
  BY <1>1, NextIInv
<1>3. QED
  BY <1>2, SpecIInv, PTL DEF Spec, HistoryPreserved, Preserved

=============================================================================
