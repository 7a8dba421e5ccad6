------------------------------- MODULE Doctor --------------------------------
(***************************************************************************)
(* doctor and the metrics scrape (internal/ops/doctor.go), looking at the  *)
(* private CA while commands run.                                          *)
(*                                                                         *)
(* A report opens the database, which already marks what has expired,      *)
(* takes the time, and then reads the tables one after the other: leaves,  *)
(* roots, intermediates.  Nothing holds the tables still in between, so it *)
(* compares tables of different moments.  Each read is one action.         *)
(*                                                                         *)
(* A finding is its severity, its check and the row or name it is about.   *)
(* The public certificates get the same checks as the private ones; what   *)
(* doctor says about issuers and bindings is in AuthDoctor.                *)
(***************************************************************************)
EXTENDS PrivatePKI

CONSTANT WarnDays   \* --warn-days, in ticks

ASSUME DoctorAssumption == WarnDays \in Nat

VARIABLE doctor     \* what the report under way has read so far

allVars == <<vars, doctor>>

Finding(severity, check, about) == [severity |-> severity, check |-> check, about |-> about]

Named(t, n) == {i \in DOMAIN t : t[i].name = n /\ t[i].status = "active"}

Remaining(row, time) == row.not_after - time

-----------------------------------------------------------------------------
(***************************************************************************)
(* The checks                                                              *)
(***************************************************************************)

checkActiveLeafCounts(certs) ==
  {Finding("error", "private_active_count", certs[i].common_name) :
     i \in {j \in DOMAIN certs : Cardinality(ActiveLeaves(certs, certs[j].common_name)) > 1}}

checkLeafLineageLinks(certs) ==
  {Finding("error", "private_lineage", i) :
     i \in {j \in DOMAIN certs : certs[j].supersedes \notin DOMAIN certs \cup {NoId}}}

RootChecks ==
  [ expired |-> "root_expired_issuing", inactive |-> "root_non_active_issuing",
    count |-> "root_active_count" ]

IntermediateChecks ==
  [ expired |-> "intermediate_expired_issuing", inactive |-> "intermediate_non_active_issuing",
    count |-> "intermediate_active_count" ]

\* The three checks the code makes on each of the two CA tables.
CAFindings(t, check, time) ==
  {Finding("error", check.expired, i) :
     i \in {j \in DOMAIN t : t[j].is_issuing /\ t[j].not_after < time}}
  \cup {Finding("warn", check.inactive, i) :
     i \in {j \in DOMAIN t : t[j].is_issuing /\ t[j].status # "active"}}
  \cup {Finding("error", check.count, t[i].name) :
     i \in {j \in DOMAIN t : Cardinality(Named(t, t[j].name)) > 1}}

checkCAInvariants(roots, icas, time) ==
  CAFindings(roots, RootChecks, time) \cup CAFindings(icas, IntermediateChecks, time)
    \cup {Finding("error", "intermediate_root_ref", i) :
            i \in {j \in DOMAIN icas : icas[j].parent_id \notin DOMAIN roots}}

checkPrivateCertIssuers_mutant(certs, icas) ==   \* looks among the active CAs
  {Finding("error", "private_issuer_ref", i) : i \in
     {j \in DOMAIN certs : /\ certs[j].status = "active"
                           /\ certs[j].issuer_id \notin {k \in DOMAIN icas : icas[k].status = "active"}}}

checkPrivateCertIssuers(certs, icas) ==
  LET active == {i \in DOMAIN certs : certs[i].status = "active"}
      stored == {i \in active : certs[i].issuer_id \in DOMAIN icas}
  IN  {Finding("error", "private_issuer_ref", i) : i \in active \ stored}
        \cup {Finding("warn", "private_inactive_issuer", i) :
                i \in {j \in stored : icas[certs[j].issuer_id].status # "active"}}

\* Expired exactly now is neither expiring nor, for a CA, expired yet.
ExpiringFindings(t, check, time) ==
  {Finding("warn", check, i) :
     i \in {j \in DOMAIN t : t[j].status = "active" /\ Remaining(t[j], time) \in 1 .. WarnDays}}

checkExpiringLeafs(certs, time) == ExpiringFindings(certs, "private_expiring", time)

checkExpiringCAs(roots, icas, time) ==
  ExpiringFindings(roots, "root_expiring", time)
    \cup ExpiringFindings(icas, "intermediate_expiring", time)

RunDoctorWithOptions(d) ==
       checkActiveLeafCounts(d.certs)
  \cup checkLeafLineageLinks(d.certs)
  \cup checkCAInvariants(d.roots, d.icas, d.now)
  \cup checkPrivateCertIssuers(d.certs, d.icas)
  \cup IF WarnDays > 0
       THEN checkExpiringLeafs(d.certs, d.now) \cup checkExpiringCAs(d.roots, d.icas, d.now)
       ELSE {}

DoctorStatus(findings) ==
  IF \E f \in findings : f.severity = "error" THEN "error"
  ELSE IF findings # {} THEN "warn" ELSE "ok"

-----------------------------------------------------------------------------
(***************************************************************************)
(* A report, read by read.                                                 *)
(***************************************************************************)

Issuing(t) == {i \in DOMAIN t : t[i].is_issuing}

OpenForDoctor_mutant ==   \* opens without synchronising
  /\ doctor = Idle
  /\ doctor' = [step |-> "opened", at |-> now,
                issuing |-> Issuing(rootCAs) \cup Issuing(intermediateCAs)]
  /\ UNCHANGED vars

\* "at" and "issuing" are remembered for the properties only.
OpenForDoctor ==
  /\ doctor = Idle
  /\ ReadOnlyCommand
  /\ doctor' = [step |-> "opened", at |-> now,
                issuing |-> Issuing(rootCAs') \cup Issuing(intermediateCAs')]

At(step) == doctor.step = step

With(step, name, value) ==
  doctor' = [f \in DOMAIN doctor \cup {name} |->
               IF f = "step" THEN step ELSE IF f = name THEN value ELSE doctor[f]]

TakeTime == At("opened") /\ With("timed", "now", now) /\ UNCHANGED vars

ListPrivateCerts == At("timed") /\ With("leaves read", "certs", privateCerts) /\ UNCHANGED vars

ListPrivateRootCAs == At("leaves read") /\ With("roots read", "roots", rootCAs) /\ UNCHANGED vars

ListPrivateIntermediateCAs ==
  At("roots read") /\ With("read", "icas", intermediateCAs) /\ UNCHANGED vars

\* The report is printed, or a read has failed, or the process was killed.
Close == doctor # Idle /\ doctor' = Idle /\ UNCHANGED vars

DoctorStep ==
  OpenForDoctor \/ TakeTime \/ ListPrivateCerts \/ ListPrivateRootCAs
    \/ ListPrivateIntermediateCAs \/ Close

DoctorInit == Init /\ doctor = Idle

DoctorNext == (Next /\ UNCHANGED doctor) \/ DoctorStep

\* /metrics runs a report at every scrape, and is scraped for ever; a report
\* always goes on to its next step or ends.  No command is assumed to finish.
DoctorSpec ==
  DoctorInit /\ [][DoctorNext]_allVars /\ WF_allVars(DoctorStep) /\ WF_allVars(Tick /\ UNCHANGED doctor)

-----------------------------------------------------------------------------
(***************************************************************************)
(* Properties                                                              *)
(***************************************************************************)

Reported == IF At("read") THEN RunDoctorWithOptions(doctor) ELSE {}

Damage ==
  {"private_active_count", "private_lineage", "private_issuer_ref",
   "root_active_count", "root_non_active_issuing",
   "intermediate_active_count", "intermediate_non_active_issuing"}

\* Although doctor compares tables read at different moments while commands
\* run, it never cries damage: leaves are read before the intermediates that
\* signed them.  Roots, too, are read before the intermediates, so that an
\* intermediate may seem to lack its root; the root is there by then.
NoFalseDamage ==
  \A f \in Reported :
    /\ f.check \notin Damage
    /\ f.check = "intermediate_root_ref" => intermediateCAs[f.about].parent_id \in DOMAIN rootCAs

\* An "is issuing but expired" is never old damage: opening the database repairs
\* that, so the row expired, or was promoted, while doctor was reading.
ExpiredIssuingIsNews ==
  \A f \in Reported :
    f.check \in {"root_expired_issuing", "intermediate_expired_issuing"} =>
      \/ f.about \notin doctor.issuing
      \/ f.about \in DOMAIN rootCAs /\ rootCAs[f.about].not_after >= doctor.at
      \/ f.about \in DOMAIN intermediateCAs /\ intermediateCAs[f.about].not_after >= doctor.at

ExpiredActive(t, i) == i \in DOMAIN t /\ IsExpiredAt(t[i], now)

\* A CA or leaf that is past its not_after does not stay active: some later
\* report marks it, even if promotions keep bringing it back.
ExpiryTakesEffect ==
  /\ \A i \in RootId : ExpiredActive(rootCAs, i) ~> ~ExpiredActive(rootCAs, i)
  /\ \A i \in IcaId : ExpiredActive(intermediateCAs, i) ~> ~ExpiredActive(intermediateCAs, i)
  /\ \A i \in CertId : ExpiredActive(privateCerts, i) ~> ~ExpiredActive(privateCerts, i)

=============================================================================
