------------------------------ MODULE MCAccess -------------------------------
(***************************************************************************)
(* Access for TLC: one user per issuer, who has one upstream role, and the *)
(* few rows that tell the cases apart.                                     *)
(***************************************************************************)
EXTENDS Access, TLC

CONSTANTS i1, i2, u1, u2, admins, staff, b1, b2

TokenOfBoth ==
  (u1 :> [issuer |-> i1, email_domain |-> NoId, roles |-> {staff}])
    @@ (u2 :> [issuer |-> i2, email_domain |-> NoId, roles |-> {staff}])

TokenOfOne == [u \in {u1} |-> TokenOfBoth[u]]

Row(enabled, principal, permission, kind, ref) ==
  [ enabled |-> enabled, principal |-> principal, permission |-> permission,
    resource_kind |-> kind, resource_ref |-> ref ]

\* To a local role, for every request; disabled; and for everything of one request.
FewBindings ==
  { Row(TRUE, Principal("local_role", NoId, admins), "csr.approve", "", "*"),
    Row(FALSE, Principal("sub", i1, u1), "subject.update", "", ""),
    Row(TRUE, Principal("role", i1, staff), "*", "csr_request", b1) }

Rule(required, roles) ==
  [ enabled |-> TRUE, issuer |-> i1, email_domain |-> NoId,
    required_roles |-> required, local_roles |-> roles ]

FewRules == {Rule({staff}, {admins}), Rule({}, {})}

WantApproval == adminCSRItemPermission("POST", b1, "approve")

TwoIssuersBindings == {Row(TRUE, Principal("sub", i, u1), "csr.read", "", "") : i \in {i1, i2}}

Port == {<<i1, i2>>}

\* i2 is the host of i1 without its port.
Host == {<<i2, i1>>}

\* The issuer i2 is there for what doctor and /metrics make of a binding that both
\* URLs begin: they look at the tables alone, so nobody is under way meanwhile.
HostIsQuiet ==
  i2 \in DOMAIN auth_issuers => subjects = EmptyTable /\ \A p \in Proc : proc[p] = Idle

\* A request lists the enabled bindings: a disabled one is to it as none.
DisabledIsQuiet ==
  DOMAIN authz_bindings # EnabledRows(authz_bindings) => \A c \in Client : proc[c] = Idle

=============================================================================
