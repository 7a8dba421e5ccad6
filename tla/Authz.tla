-------------------------------- MODULE Authz --------------------------------
(***************************************************************************)
(* How uvoo-certctl decides what the bearer of a verified token may do     *)
(* (internal/auth/auth.go, subject_rules.go, and the permission resolvers  *)
(* of internal/server/authz.go).  Everything here is a function of rows    *)
(* that were read before; Access says when they are read.                  *)
(*                                                                         *)
(* Upstream groups and local groups are treated exactly as upstream roles  *)
(* and local roles are, so one of each pair stands for both.  A principal, *)
(* "sub:<issuer>:<subject>" in the code, is a record; the issuer of a      *)
(* local principal is NoId.                                                *)
(***************************************************************************)
EXTENDS Tables

Principal(kind, issuer, name) == [kind |-> kind, issuer |-> issuer, name |-> name]

principalsFor(issuer, subject, roles) ==
  {Principal("sub", issuer, subject)} \cup {Principal("role", issuer, r) : r \in roles}

localPrincipals(localRoles) == {Principal("local_role", NoId, r) : r \in localRoles}

\* The record keeps what the token says; local assignments come on top.
ApplySubjectRecord(identity, subject) ==
  [identity EXCEPT !.local_roles = subject.local_roles,
                   !.principals = @ \cup localPrincipals(subject.local_roles)]

-----------------------------------------------------------------------------
(***************************************************************************)
(* Bindings                                                                *)
(***************************************************************************)

matchesScope_mutant(bindingValue, requestValue) ==   \* "*" asked is "any"
  bindingValue \in {"", "*", requestValue} \/ requestValue = "*"

matchesScope(bindingValue, requestValue) == bindingValue \in {"", "*", requestValue}

MatchingBindings(identity, bindings, req) ==
  {b \in DOMAIN bindings :
     /\ bindings[b].enabled
     /\ bindings[b].principal \in identity.principals
     /\ bindings[b].permission \in {"*", req.permission}
     /\ matchesScope(bindings[b].resource_kind, req.resource_kind)
     /\ matchesScope(bindings[b].resource_ref, req.resource_ref)}

Allowed(identity, bindings, req) == MatchingBindings(identity, bindings, req) # {}

EffectivePermissions(identity, bindings) ==
  {bindings[b].permission : b \in {c \in DOMAIN bindings :
     bindings[c].enabled /\ bindings[c].principal \in identity.principals}}

-----------------------------------------------------------------------------
(***************************************************************************)
(* Subjects and auto-approval                                              *)
(***************************************************************************)

matchesEmailDomain(emailDomain, domain) == domain = NoId \/ emailDomain = domain

containsAll(values, required) == required \subseteq values

RuleMatches(identity, rule) ==
  /\ rule.enabled
  /\ rule.issuer = identity.issuer
  /\ matchesEmailDomain(identity.email_domain, rule.email_domain)
  /\ containsAll(identity.roles, rule.required_roles)

MatchSubjectAutoApprovalRules(identity, rules) ==
  LET matched == {n \in DOMAIN rules : RuleMatches(identity, rules[n])}
  IN  [names |-> matched, local_roles |-> UNION {rules[n].local_roles : n \in matched}]

NoSubject == [status |-> "pending", local_roles |-> {}]

\* What would become of the token's request.  A subject without a record
\* (NoSubject) is treated as one that is pending and has no local roles.
PreviewSubjectAccess(identity, subject, rules) ==
  LET match == MatchSubjectAutoApprovalRules(identity, rules)
  IN  IF subject.status = "pending" /\ match.names # {}
      THEN [ status |-> "active", reason |-> "auto_approved", names |-> match.names,
             identity |-> ApplySubjectRecord(identity,
               [subject EXCEPT !.local_roles = @ \cup match.local_roles]) ]
      ELSE [ status |-> subject.status, reason |-> subject.status, names |-> {},
             identity |-> ApplySubjectRecord(identity, subject) ]

-----------------------------------------------------------------------------
(***************************************************************************)
(* The permission a route asks for.  A resolver returns the set of it, or  *)
(* the empty set for a method the route does not have; id is NoId for the  *)
(* collection.                                                             *)
(***************************************************************************)

Ask(permission, kind, ref) ==
  [permission |-> permission, resource_kind |-> kind, resource_ref |-> ref]

When(condition, req) == IF condition THEN {req} ELSE {}

Ref(id) == IF id = NoId THEN "*" ELSE id

adminDoctorPermission(method) == When(method = "GET", Ask("doctor.read", "", ""))

metricsPermission(method) == When(method = "GET", Ask("metrics.read", "", ""))

\* /effective-authz, and /authz-bindings with or without an id.
adminEffectiveAuthzPermission(path, method, id) ==
  When(path = "effective-authz" /\ method = "GET", Ask("authz.read", "", ""))
    \cup When(path = "authz-bindings" /\ method = "GET",
              Ask("authz.read", "authz_binding", Ref(id)))
    \cup When(path = "authz-bindings"
                /\ method \in IF id = NoId THEN {"POST"} ELSE {"PUT", "DELETE"},
              Ask("authz.write", "authz_binding", Ref(id)))

adminAuthIssuerPermission(method, id) ==
  When(method = "GET", Ask("auth_issuer.read", "auth_issuer", Ref(id)))
    \cup When(method \in IF id = NoId THEN {"POST"} ELSE {"PUT", "DELETE"},
              Ask("auth_issuer.write", "auth_issuer", Ref(id)))

adminAuthProviderPresetPermission(method) ==
  When(method = "GET", Ask("auth_issuer.read", "auth_provider_preset", "*"))

adminCSRCollectionPermission(method) ==
  When(method = "GET", Ask("csr.read", "csr_request", "*"))
    \cup When(method = "POST", Ask("csr.submit", "csr_request", "*"))

adminCSRItemPermission(method, id, action) ==
  When(method = "GET" /\ action = "", Ask("csr.read", "csr_request", id))
    \cup When(method = "POST" /\ action = "approve", Ask("csr.approve", "csr_request", id))
    \cup When(method = "POST" /\ action = "reject", Ask("csr.reject", "csr_request", id))

adminSubjectCollectionPermission(method) ==
  When(method = "GET", Ask("subject.read", "subject", "*"))

\* approve and update name their subject in the body, so they need the scope "*".
adminSubjectItemPermission(method, id, action) ==
  When(method = "POST" /\ action = "approve", Ask("subject.approve", "subject", "*"))
    \cup When(method = "POST" /\ action = "update", Ask("subject.update", "subject", "*"))
    \cup When(method = "GET" /\ action = "", Ask("subject.read", "subject", id))
    \cup When(method \in {"PUT", "DELETE"} /\ action = "", Ask("subject.update", "subject", id))

adminSubjectAutoApprovalCollectionPermission(method) ==
  When(method = "GET",
       Ask("subject_auto_approval.read", "subject_auto_approval_rule", "*"))

adminSubjectAutoApprovalItemPermission(method, name) ==
  When(method = "GET",
       Ask("subject_auto_approval.read", "subject_auto_approval_rule", name))
    \cup When(method \in {"PUT", "DELETE"},
              Ask("subject_auto_approval.write", "subject_auto_approval_rule", name))

Method == {"GET", "POST", "PUT", "DELETE"}

\* What each route asks for, for one object of each resource and the collection.
CollectionRequests ==
  UNION {    adminDoctorPermission(m)
        \cup metricsPermission(m)
        \cup adminEffectiveAuthzPermission("effective-authz", m, NoId)
        \cup adminEffectiveAuthzPermission("authz-bindings", m, NoId)
        \cup adminAuthIssuerPermission(m, NoId)
        \cup adminAuthProviderPresetPermission(m)
        \cup adminCSRCollectionPermission(m)
        \cup adminSubjectCollectionPermission(m)
        \cup adminSubjectItemPermission(m, NoId, "approve")
        \cup adminSubjectItemPermission(m, NoId, "update")
        \cup adminSubjectAutoApprovalCollectionPermission(m) : m \in Method }

ItemRequests(id) ==
  UNION {    adminEffectiveAuthzPermission("authz-bindings", m, id)
        \cup adminAuthIssuerPermission(m, id)
        \cup (UNION {adminCSRItemPermission(m, id, a) : a \in {"", "approve", "reject"}})
        \cup adminSubjectItemPermission(m, id, "")
        \cup adminSubjectAutoApprovalItemPermission(m, id) : m \in Method }

=============================================================================
