----------------------------- MODULE AuthDoctor ------------------------------
(***************************************************************************)
(* What doctor says about issuers, bindings and auto-approval rules        *)
(* (internal/ops/doctor.go), and the counters that /metrics derives from   *)
(* the same tables with code of its own (internal/server/admin.go).        *)
(*                                                                         *)
(* A finding is the name of its check and the rows it is about; its        *)
(* severity is "warn" in every check of this module.  The probe of an      *)
(* issuer over the network is a set of unreachable issuers.  No binding    *)
(* has the principal "superuser", which neither can be checked further.    *)
(*                                                                         *)
(* Both read an issuer out of a principal, all of it up to the last colon. *)
(* Doctor also looks for known issuers whose URL and a colon the principal *)
(* begins with, and these may be several, or another than the one read: an *)
(* issuer and the same host with a port, or a user id with a colon in it.  *)
(***************************************************************************)
EXTENDS Authz

\* The pairs <<i, j>> of issuers where the URL j is the URL i, a colon and more,
\* as with a host and the same host with a port.
CONSTANT PrefixOf

Finding(check, about) == [check |-> check, about |-> about]

EnabledRows(t) == {i \in DOMAIN t : t[i].enabled}

\* The issuer of a "sub:", "role:" or "group:" principal, as a set of at most one.
bindingPrincipalIssuer(principal) ==
  IF principal.kind \in {"sub", "role"} THEN {principal.issuer} ELSE {}

\* The principal is compared with "sub:<issuer>:" as a prefix.
bindingReferencesIssuer(binding, issuer) ==
  \E i \in bindingPrincipalIssuer(binding.principal) : i = issuer \/ <<issuer, i>> \in PrefixOf

isScopedMutationPermission(permission) ==
  permission \in {"csr.approve", "csr.reject", "csr.submit"}

-----------------------------------------------------------------------------
(***************************************************************************)
(* doctor.  Its bindings are those ListAuthzBindings(true) returns.        *)
(***************************************************************************)

KnownReferences(binding, issuers) ==
  {i \in DOMAIN issuers : bindingReferencesIssuer(binding, i)}

\* An enabled binding is credited to the first known issuer it references, in the
\* order of a Go map, which is any: these are the ways that may turn out.
Credits(issuers, bindings) ==
  LET credited == {b \in EnabledRows(bindings) : KnownReferences(bindings[b], issuers) # {}}
  IN  {credit \in [credited -> DOMAIN issuers] :
         \A b \in credited : credit[b] \in KnownReferences(bindings[b], issuers)}

ReferencedBy(issuer, credit, rules) ==
  {b \in DOMAIN credit : credit[b] = issuer}
    \cup {n \in EnabledRows(rules) : rules[n].issuer = issuer}

checkAuthIssuerBindings(issuers, bindings, rules, credit) ==
  {Finding("auth_issuer_disabled_reference", i) : i \in
     {j \in DOMAIN issuers : ~issuers[j].enabled /\ ReferencedBy(j, credit, rules) # {}}}
  \cup {Finding("auth_issuer_unused", i) : i \in
     {j \in EnabledRows(issuers) : ReferencedBy(j, credit, rules) = {}}}
  \cup {Finding("authz_binding_unknown_issuer", b) : b \in
     {c \in DOMAIN bindings :
        \E i \in bindingPrincipalIssuer(bindings[c].principal) : i \notin DOMAIN issuers}}

checkAuthIssuerDiscovery(issuers, bindings, unreachable) ==
  {Finding("auth_issuer_discovery", i) : i \in EnabledRows(issuers) \cap unreachable}
  \cup {Finding("authz_binding_unreachable_issuer", i) : i \in
     {j \in EnabledRows(issuers) \cap unreachable :
        \E b \in EnabledRows(bindings) : bindingReferencesIssuer(bindings[b], j)}}

UnscopedMutation(binding) ==
  isScopedMutationPermission(binding.permission) /\ binding.resource_kind = ""

WildcardScope(binding) ==
  isScopedMutationPermission(binding.permission) /\ binding.resource_ref = "*"

checkBroadAuthzBindings(bindings) ==
  {Finding("authz_binding_wildcard_permission", b) : b \in
     {c \in EnabledRows(bindings) : bindings[c].permission = "*"}}
  \cup {Finding("authz_binding_unscoped_mutation", b) : b \in
     {c \in EnabledRows(bindings) : UnscopedMutation(bindings[c])}}
  \cup {Finding("authz_binding_wildcard_scope", b) : b \in
     {c \in EnabledRows(bindings) : WildcardScope(bindings[c])}}

checkSubjectAutoApprovalRules(issuers, rules) ==
  {Finding("subject_auto_approval_unknown_issuer", n) : n \in
     {m \in EnabledRows(rules) : rules[m].issuer \notin DOMAIN issuers}}
  \cup {Finding("subject_auto_approval_disabled_issuer", n) : n \in
     {m \in EnabledRows(rules) :
        rules[m].issuer \in DOMAIN issuers \ EnabledRows(issuers)}}
  \cup {Finding("subject_auto_approval_broad", n) : n \in
     {m \in EnabledRows(rules) :
        /\ rules[m].issuer \in DOMAIN issuers
        /\ rules[m].email_domain = NoId
        /\ rules[m].required_roles = {}}}

SameGrant(b, c) ==
  /\ b.principal = c.principal
  /\ b.permission = c.permission
  /\ b.resource_kind = c.resource_kind
  /\ b.resource_ref = c.resource_ref

\* One finding for each grant, about the enabled bindings that give it.
checkDuplicateAuthzBindings(bindings) ==
  LET same(b) == {c \in EnabledRows(bindings) : SameGrant(bindings[b], bindings[c])}
  IN  {Finding("authz_binding_duplicate_enabled", same(b)) : b \in
         {d \in EnabledRows(bindings) : same(d) # {d}}}
      \cup {Finding("authz_binding_conflicting_states", same(b)) : b \in
         {d \in EnabledRows(bindings) : \E e \in DOMAIN bindings \ EnabledRows(bindings) :
            SameGrant(bindings[d], bindings[e])}}

\* RunDoctorWithOptions lists the bindings that are enabled, then runs the checks.
AuthRelatedDoctorFindings(issuers, allBindings, rules, unreachable, credit) ==
  LET bindings == [b \in EnabledRows(allBindings) |-> allBindings[b]]
  IN       checkAuthIssuerBindings(issuers, bindings, rules, credit)
      \cup checkBroadAuthzBindings(bindings)
      \cup checkDuplicateAuthzBindings(bindings)
      \cup checkSubjectAutoApprovalRules(issuers, rules)
      \cup checkAuthIssuerDiscovery(issuers, bindings, unreachable)

-----------------------------------------------------------------------------
(***************************************************************************)
(* /metrics.  Its bindings are all of them; each counter is the set that   *)
(* it counts.                                                              *)
(***************************************************************************)

metricsScopedMutationPermission(permission) ==
  permission \in {"csr.approve", "csr.reject", "csr.submit",
                  "subject.approve", "subject.update", "subject_auto_approval.write"}

summarizeAuthIssuerCoverage_mutant(issuers, bindings) ==   \* counts disabled bindings
  LET references(i) ==
        {b \in DOMAIN bindings : i \in bindingPrincipalIssuer(bindings[b].principal)}
  IN  [ unknown_referenced |->
          {b \in DOMAIN bindings :
             \E i \in bindingPrincipalIssuer(bindings[b].principal) : i \notin DOMAIN issuers},
        disabled_referenced |->
          UNION {references(i) : i \in DOMAIN issuers \ EnabledRows(issuers)},
        enabled_without_bindings |-> {i \in EnabledRows(issuers) : references(i) = {}} ]

summarizeAuthIssuerCoverage(issuers, bindings) ==
  LET references(i) ==
        {b \in EnabledRows(bindings) : i \in bindingPrincipalIssuer(bindings[b].principal)}
  IN  [ unknown_referenced |->
          {b \in EnabledRows(bindings) :
             \E i \in bindingPrincipalIssuer(bindings[b].principal) : i \notin DOMAIN issuers},
        disabled_referenced |->
          UNION {references(i) : i \in DOMAIN issuers \ EnabledRows(issuers)},
        enabled_without_bindings |-> {i \in EnabledRows(issuers) : references(i) = {}} ]

summarizeRiskyAuthzBindings(bindings) ==
  [ wildcard_permission |-> {b \in EnabledRows(bindings) : bindings[b].permission = "*"},
    unscoped_mutation   |-> {b \in EnabledRows(bindings) :
                               /\ metricsScopedMutationPermission(bindings[b].permission)
                               /\ bindings[b].resource_kind = ""},
    wildcard_scope      |-> {b \in EnabledRows(bindings) :
                               /\ metricsScopedMutationPermission(bindings[b].permission)
                               /\ bindings[b].resource_ref = "*"} ]

summarizeRiskySubjectAutoApprovalRules(issuers, rules) ==
  LET known == {n \in EnabledRows(rules) : rules[n].issuer \in DOMAIN issuers}
  IN  [ unknown_issuer  |-> EnabledRows(rules) \ known,
        disabled_issuer |-> {n \in known : ~issuers[rules[n].issuer].enabled},
        broad           |-> {n \in known : /\ rules[n].email_domain = NoId
                                           /\ rules[n].required_roles = {}} ]

\* What effective-authz and explain-authz list as the caller's bindings: they
\* ask for each permission without naming a resource.
collectMatchingBindings(identity, bindings, permissions) ==
  UNION {MatchingBindings(identity, bindings, Ask(p, "", "")) : p \in permissions}

=============================================================================
