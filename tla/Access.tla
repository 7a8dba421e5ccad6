------------------------------- MODULE Access --------------------------------
(***************************************************************************)
(* Who may use the HTTP API: trusted issuers, bindings, the subjects seen  *)
(* so far and the rules that approve them, while bearer requests are being *)
(* authenticated and operators change the tables.                          *)
(*                                                                         *)
(* A request and most operator commands are several store calls with       *)
(* nothing held in between: a request lists the issuers, verifies, records *)
(* the subject, reads it back, perhaps approves it, and only then reads    *)
(* the bindings; a command that changes a row reads it, changes a copy and *)
(* writes the copy back.  Each call is one action.  A process runs one     *)
(* request or command at a time; the commands of one call (disable-subject,*)
(* create-authz-binding, ...) are actions without a process.               *)
(*                                                                         *)
(* The CLI and the HTTP handlers have their own copies of most commands;   *)
(* where they do the same, one action stands for both.  Handlers run after *)
(* their permission was granted and never look at it again.                *)
(***************************************************************************)
EXTENDS AuthDoctor

CONSTANTS
  Issuer, User, LocalRole,
  TokenOf,        \* what the token of each user says: [issuer, email_domain, roles]
  BindingId, NewBinding,   \* ids, and the rows operators write
  RuleName, NewRule,
  Wanted,         \* the permission requests of the routes that are called
  Client, Operator   \* requests, and commands of several calls, that run at once

\* The local roles a rule gives are among those there are.
ASSUME AccessAssumption ==
  /\ Client \cap Operator = {}
  /\ \A row \in NewRule : row.local_roles \subseteq LocalRole

VARIABLES
  auth_issuers, authz_bindings, subjects, rules,   \* the tables; subjects by user
  proc,           \* where each request and command is
  late,           \* for what was switched off, who was under way at that moment
  foretold        \* what explain-authz said when a request began

Proc == Client \cup Operator

tables == <<auth_issuers, authz_bindings, subjects, rules>>
vars   == <<tables, proc, late, foretold>>

Status == {"pending", "active", "disabled"}

Idle == [step |-> "idle"]

\* What can be switched off: a subject, an issuer, a local role of a subject.
Switches ==
       {<<"subject", u>> : u \in User}
  \cup {<<"issuer", i>> : i \in Issuer}
  \cup {<<"role", u, r>> : u \in User, r \in LocalRole}

Init ==
  /\ auth_issuers = EmptyTable
  /\ authz_bindings = EmptyTable
  /\ subjects = EmptyTable
  /\ rules = EmptyTable
  /\ proc = [p \in Proc |-> Idle]
  /\ late = [x \in Switches |-> {}]
  /\ foretold = [c \in Client |-> {}]

Put(t, id, row) == [i \in DOMAIN t \cup {id} |-> IF i = id THEN row ELSE t[i]]

Remove(t, id) == [i \in DOMAIN t \ {id} |-> t[i]]

Token(u) ==
  [ issuer |-> TokenOf[u].issuer, email_domain |-> TokenOf[u].email_domain,
    roles |-> TokenOf[u].roles, local_roles |-> {},
    principals |-> principalsFor(TokenOf[u].issuer, u, TokenOf[u].roles) ]

Subject(u) == IF u \in DOMAIN subjects THEN subjects[u] ELSE NoSubject

Goto(p, rec) == proc' = [proc EXCEPT ![p] = rec]

\* A 401, 403 or 500, an error of the database, a killed process.
Fail(p) == proc[p] # Idle /\ Goto(p, Idle) /\ UNCHANGED tables

-----------------------------------------------------------------------------
(***************************************************************************)
(* A bearer request                                                        *)
(***************************************************************************)

At(p, step) == proc[p].step = step

Request(step, u, want, roles) == [step |-> step, user |-> u, want |-> want, roles |-> roles]

\* ListAuthIssuers(true), and the token verifies against the one that issued it.
authenticateAdminRequest(p, u, want) ==
  /\ proc[p] = Idle
  /\ TokenOf[u].issuer \in EnabledRows(auth_issuers)
  /\ Goto(p, Request("verified", u, want, {}))
  /\ UNCHANGED tables

UpsertSubjectSeen_mutant(p) ==   \* ON CONFLICT also resets the status
  /\ At(p, "verified")
  /\ subjects' = Put(subjects, proc[p].user, [Subject(proc[p].user) EXCEPT !.status = "pending"])
  /\ Goto(p, [proc[p] EXCEPT !.step = "seen"])
  /\ UNCHANGED <<auth_issuers, authz_bindings, rules>>

\* Inserts a pending row, or bumps what the row has seen and leaves the rest.
UpsertSubjectSeen(p) ==
  /\ At(p, "verified")
  /\ subjects' = Put(subjects, proc[p].user, Subject(proc[p].user))
  /\ Goto(p, [proc[p] EXCEPT !.step = "seen"])
  /\ UNCHANGED <<auth_issuers, authz_bindings, rules>>

ReadSubject_mutant(p) ==   \* tests for pending only
  /\ At(p, "seen")
  /\ proc[p].user \in DOMAIN subjects
  /\ Goto(p, [proc[p] EXCEPT !.step = IF Subject(proc[p].user).status = "pending"
                                     THEN "pending" ELSE "identified",
                             !.roles = Subject(proc[p].user).local_roles])
  /\ UNCHANGED tables

\* GetSubject.  A disabled subject gets 403, which is Fail.
ReadSubject(p) ==
  /\ At(p, "seen")
  /\ proc[p].user \in DOMAIN subjects
  /\ Subject(proc[p].user).status # "disabled"
  /\ Goto(p, [proc[p] EXCEPT !.step = IF Subject(proc[p].user).status = "active"
                                     THEN "identified" ELSE "pending",
                             !.roles = Subject(proc[p].user).local_roles])
  /\ UNCHANGED tables

\* What was asked for, among the things Off can say of.
Asked(u, roles) == {<<"role", u, r>> : r \in roles}

\* ListSubjectAutoApprovalRules(true) and PreviewSubjectAccess of the row read
\* before; no rule that matches is a 403.
MatchRules(p) ==
  /\ At(p, "pending")
  /\ LET u == proc[p].user
         preview == PreviewSubjectAccess(
           Token(u), [status |-> "pending", local_roles |-> proc[p].roles], rules)
     IN  /\ preview.reason = "auto_approved"
         /\ Goto(p, [ step |-> "matched", user |-> u, want |-> proc[p].want,
                      roles |-> preview.identity.local_roles,
                      asks |-> Asked(u, MatchSubjectAutoApprovalRules(Token(u), rules).local_roles) ])
  /\ UNCHANGED tables

resolveBearerSubject_mutant(p) ==   \* writes the roles of the rules only
  /\ At(p, "matched")
  /\ proc[p].user \in DOMAIN subjects
  /\ subjects' = [subjects EXCEPT ![proc[p].user] =
                    [status |-> "active", local_roles |-> {x[3] : x \in proc[p].asks}]]
  /\ Goto(p, Request("approved", proc[p].user, proc[p].want, {}))
  /\ UNCHANGED <<auth_issuers, authz_bindings, rules>>

\* UpdateSubjectApproval writes status and roles whatever the row has become.
resolveBearerSubject(p) ==
  /\ At(p, "matched")
  /\ proc[p].user \in DOMAIN subjects
  /\ subjects' = [subjects EXCEPT ![proc[p].user] =
                    [status |-> "active", local_roles |-> proc[p].roles]]
  /\ Goto(p, Request("approved", proc[p].user, proc[p].want, {}))
  /\ UNCHANGED <<auth_issuers, authz_bindings, rules>>

\* GetSubject again, previewed without rules.
ReReadSubject(p) ==
  /\ At(p, "approved")
  /\ proc[p].user \in DOMAIN subjects
  /\ subjects[proc[p].user].status = "active"
  /\ Goto(p, [proc[p] EXCEPT !.step = "identified", !.roles = subjects[proc[p].user].local_roles])
  /\ UNCHANGED tables

\* ListAuthzBindings(true) and Allowed.
Grant(p) ==
  /\ At(p, "identified")
  /\ Allowed(ApplySubjectRecord(Token(proc[p].user), [local_roles |-> proc[p].roles]),
             authz_bindings, proc[p].want)
  /\ Goto(p, [proc[p] EXCEPT !.step = "granted"])
  /\ UNCHANGED tables

-----------------------------------------------------------------------------
(***************************************************************************)
(* Subjects                                                                *)
(***************************************************************************)

SubjectChange(u, status, roles, asks) ==
  [step |-> "subject_read", user |-> u, status |-> status, roles |-> roles, asks |-> asks]

SetSubjectStatus(u, status) ==
  /\ u \in DOMAIN subjects
  /\ subjects' = [subjects EXCEPT ![u].status = status]
  /\ UNCHANGED <<auth_issuers, authz_bindings, rules, proc>>

\* approve-subject, with local roles or keeping those read.
ApproveSubject(p, u, replace, roles) ==
  /\ proc[p] = Idle
  /\ u \in DOMAIN subjects
  /\ Goto(p, SubjectChange(u, "active", IF replace THEN roles ELSE subjects[u].local_roles,
                           {<<"subject", u>>} \cup IF replace THEN Asked(u, roles) ELSE {}))
  /\ UNCHANGED tables

\* update-subject reads the row; what is not changed is written back as read.
UpdateSubject(p, u, change, status, replace, roles) ==
  /\ proc[p] = Idle
  /\ u \in DOMAIN subjects
  /\ Goto(p, SubjectChange(u, IF change THEN status ELSE subjects[u].status,
                           IF replace THEN roles ELSE subjects[u].local_roles,
                           (IF change THEN {<<"subject", u>>} ELSE {})
                             \cup IF replace THEN Asked(u, roles) ELSE {}))
  /\ UNCHANGED tables

UpdateSubjectApproval(p) ==
  /\ At(p, "subject_read")
  /\ proc[p].user \in DOMAIN subjects
  /\ subjects' = [subjects EXCEPT ![proc[p].user] =
                    [status |-> proc[p].status, local_roles |-> proc[p].roles]]
  /\ Goto(p, Idle)
  /\ UNCHANGED <<auth_issuers, authz_bindings, rules>>

DeleteSubject(u) ==
  /\ u \in DOMAIN subjects
  /\ subjects' = Remove(subjects, u)
  /\ UNCHANGED <<auth_issuers, authz_bindings, rules, proc>>

UpsertSubjectAutoApprovalRule(n, row) ==
  /\ rules' = Put(rules, n, row)
  /\ UNCHANGED <<auth_issuers, authz_bindings, subjects, proc>>

DeleteSubjectAutoApprovalRule(n) ==
  /\ n \in DOMAIN rules
  /\ rules' = Remove(rules, n)
  /\ UNCHANGED <<auth_issuers, authz_bindings, subjects, proc>>

-----------------------------------------------------------------------------
(***************************************************************************)
(* Issuers                                                                 *)
(***************************************************************************)

IssuerChange(i, enabled, asks) ==
  [step |-> "issuer_read", issuer |-> i, enabled |-> enabled, asks |-> asks]

SetAuthIssuerEnabled(i, enabled) ==
  /\ i \in DOMAIN auth_issuers
  /\ auth_issuers' = [auth_issuers EXCEPT ![i].enabled = enabled]
  /\ UNCHANGED <<authz_bindings, subjects, rules, proc>>

\* create-auth-issuer does not look whether the issuer exists.
CreateAuthIssuer(i, enabled) ==
  /\ auth_issuers' = Put(auth_issuers, i, [enabled |-> enabled])
  /\ UNCHANGED <<authz_bindings, subjects, rules, proc>>

\* The HTTP handler does; the upsert comes afterwards.
handleAdminAuthIssuerCreate(p, i, enabled) ==
  /\ proc[p] = Idle
  /\ i \notin DOMAIN auth_issuers
  /\ Goto(p, IssuerChange(i, enabled, {<<"issuer", i>>}))
  /\ UNCHANGED tables

\* Reads the row; a field the body does not name is written back as read.
handleAdminAuthIssuerUpdate(p, i, change, enabled) ==
  /\ proc[p] = Idle
  /\ i \in DOMAIN auth_issuers
  /\ Goto(p, IssuerChange(i, IF change THEN enabled ELSE auth_issuers[i].enabled,
                          IF change THEN {<<"issuer", i>>} ELSE {}))
  /\ UNCHANGED tables

\* INSERT ... ON CONFLICT DO UPDATE: brings a deleted row back.
UpsertAuthIssuer(p) ==
  /\ At(p, "issuer_read")
  /\ auth_issuers' = Put(auth_issuers, proc[p].issuer, [enabled |-> proc[p].enabled])
  /\ Goto(p, Idle)
  /\ UNCHANGED <<authz_bindings, subjects, rules>>

References_mutant(bindings, i) ==   \* lists the enabled bindings only
  {b \in EnabledRows(bindings) : bindingReferencesIssuer(bindings[b], i)}

References(bindings, i) ==
  {b \in DOMAIN bindings : bindingReferencesIssuer(bindings[b], i)}

\* The bindings are listed once; without --force there must be none.
handleAdminAuthIssuerDelete(p, i, force) ==
  /\ proc[p] = Idle
  /\ i \in DOMAIN auth_issuers
  /\ force \/ References(authz_bindings, i) = {}
  /\ Goto(p, [ step |-> "deleting", issuer |-> i, refs |-> References(authz_bindings, i),
               listed |-> {b \in DOMAIN authz_bindings :
                             i \in bindingPrincipalIssuer(authz_bindings[b].principal)} ])
  /\ UNCHANGED tables

\* One call each; a binding that is gone by then is an error, which is Fail.
DeleteReferencedBinding(p, b) ==
  /\ At(p, "deleting")
  /\ b \in proc[p].refs \cap DOMAIN authz_bindings
  /\ authz_bindings' = Remove(authz_bindings, b)
  /\ Goto(p, [proc[p] EXCEPT !.refs = @ \ {b}])
  /\ UNCHANGED <<auth_issuers, subjects, rules>>

DeleteAuthIssuer(p) ==
  /\ At(p, "deleting")
  /\ proc[p].refs = {}
  /\ proc[p].issuer \in DOMAIN auth_issuers
  /\ auth_issuers' = Remove(auth_issuers, proc[p].issuer)
  /\ Goto(p, Idle)
  /\ UNCHANGED <<authz_bindings, subjects, rules>>

-----------------------------------------------------------------------------
(***************************************************************************)
(* Bindings                                                                *)
(***************************************************************************)

\* Ids are never used twice, so not while a command still holds one.
Held(b) == \E p \in Proc : At(p, "deleting") /\ b \in proc[p].refs \cup proc[p].listed

CreateAuthzBinding(b, row) ==
  /\ b \notin DOMAIN authz_bindings
  /\ ~Held(b)
  /\ authz_bindings' = Put(authz_bindings, b, row)
  /\ UNCHANGED <<auth_issuers, subjects, rules, proc>>

\* update-authz-binding reads the row, changes some columns and writes all of
\* them; NewBinding holds every row that may come of that, stale or not.
UpdateAuthzBinding(b, row) ==
  /\ b \in DOMAIN authz_bindings
  /\ authz_bindings' = [authz_bindings EXCEPT ![b] = row]
  /\ UNCHANGED <<auth_issuers, subjects, rules, proc>>

DeleteAuthzBinding(b) ==
  /\ b \in DOMAIN authz_bindings
  /\ authz_bindings' = Remove(authz_bindings, b)
  /\ UNCHANGED <<auth_issuers, subjects, rules, proc>>

-----------------------------------------------------------------------------
(***************************************************************************)
(* What is switched off, and who was under way when it was; and what was   *)
(* said of a request beforehand.                                           *)
(***************************************************************************)

Off(x) ==
  CASE x[1] = "subject" -> x[2] \in DOMAIN subjects /\ subjects[x[2]].status = "disabled"
    [] x[1] = "issuer"  -> ~(x[2] \in DOMAIN auth_issuers /\ auth_issuers[x[2]].enabled)
    [] x[1] = "role"    -> x[2] \notin DOMAIN subjects \/ x[3] \notin subjects[x[2]].local_roles

Busy == {p \in Proc : proc[p] # Idle}

\* The preview of the token at the moment the request begins, forgotten when
\* anybody else changes a subject or a rule, or the request has ended.
Foretold(c) ==
  IF proc'[c] = Idle THEN {}
  ELSE IF proc[c] = Idle
  THEN LET u == proc'[c].user
       IN  {PreviewSubjectAccess(Token(u), Subject(u), rules)}
  ELSE IF proc'[c] = proc[c] /\ <<subjects, rules>>' # <<subjects, rules>> THEN {}
  ELSE foretold[c]

Observe ==
  /\ LET busy == Busy'
     IN  late' = [x \in Switches |-> IF Off(x)' /\ ~Off(x) THEN busy ELSE late[x] \cap busy]
  /\ foretold' = [c \in Client |-> Foretold(c)]

RequestStep(p) ==
  \/ \E u \in User, w \in Wanted : authenticateAdminRequest(p, u, w)
  \/ UpsertSubjectSeen(p)
  \/ ReadSubject(p)
  \/ MatchRules(p)
  \/ resolveBearerSubject(p)
  \/ ReReadSubject(p)
  \/ Grant(p)

CommandStep(p) ==
  \/ \E u \in User, roles \in SUBSET LocalRole :
       \/ \E replace \in BOOLEAN : ApproveSubject(p, u, replace, roles)
       \/ \E c, replace \in BOOLEAN, s \in Status : UpdateSubject(p, u, c, s, replace, roles)
  \/ UpdateSubjectApproval(p)
  \/ \E i \in Issuer :
       \/ \E e \in BOOLEAN : handleAdminAuthIssuerCreate(p, i, e)
       \/ \E c, e \in BOOLEAN : handleAdminAuthIssuerUpdate(p, i, c, e)
       \/ \E f \in BOOLEAN : handleAdminAuthIssuerDelete(p, i, f)
  \/ UpsertAuthIssuer(p)
  \/ \E b \in BindingId : DeleteReferencedBinding(p, b)
  \/ DeleteAuthIssuer(p)

OneCallCommand ==
  \/ \E u \in User :
       \/ \E s \in {"active", "disabled"} : SetSubjectStatus(u, s)
       \/ DeleteSubject(u)
  \/ \E n \in RuleName :
       \/ \E row \in NewRule : UpsertSubjectAutoApprovalRule(n, row)
       \/ DeleteSubjectAutoApprovalRule(n)
  \/ \E i \in Issuer, e \in BOOLEAN : SetAuthIssuerEnabled(i, e) \/ CreateAuthIssuer(i, e)
  \/ \E b \in BindingId :
       \/ \E row \in NewBinding : CreateAuthzBinding(b, row) \/ UpdateAuthzBinding(b, row)
       \/ DeleteAuthzBinding(b)

Step ==
  \/ OneCallCommand
  \/ \E c \in Client : RequestStep(c)
  \/ \E o \in Operator : CommandStep(o)
  \/ \E p \in Proc : Fail(p)

Next == Step /\ Observe

Spec == Init /\ [][Next]_vars

-----------------------------------------------------------------------------
(***************************************************************************)
(* Properties                                                              *)
(***************************************************************************)

TypeOK ==
  /\ DOMAIN auth_issuers \subseteq Issuer
  /\ auth_issuers \in [DOMAIN auth_issuers -> [enabled : BOOLEAN]]
  /\ DOMAIN authz_bindings \subseteq BindingId
  /\ \A b \in DOMAIN authz_bindings : authz_bindings[b] \in NewBinding
  /\ DOMAIN subjects \subseteq User
  /\ subjects \in [DOMAIN subjects -> [status : Status, local_roles : SUBSET LocalRole]]
  /\ DOMAIN rules \subseteq RuleName
  /\ \A n \in DOMAIN rules : rules[n] \in NewRule
  /\ \A x \in Switches : late[x] \subseteq Busy
  /\ DOMAIN foretold = Client

Moved(p) == proc'[p] # proc[p]

AsksFor(p, x) == "asks" \in DOMAIN proc[p] /\ x \in proc[p].asks

\* Disabling a subject or an issuer, deleting an issuer and taking a local role
\* away hold: whoever undoes one of these asked for exactly that, or was already
\* under way when it was done and writes back what it had read before.
OffUntilAskedOrOverlapped ==
  [][ \A p \in Proc : Moved(p) =>
        \A x \in Switches : Off(x) /\ ~Off(x)' => AsksFor(p, x) \/ p \in late[x]
    ]_vars

\* A request that begins after its subject or its issuer was disabled is not
\* granted while they stay disabled, nor on a local role taken away before it
\* began.
LateRequestsRefused ==
  [][ \A p \in Proc :
        At(p, "granted")' /\ ~At(p, "granted") =>
          \A x \in {<<"subject", proc[p].user>>, <<"issuer", TokenOf[proc[p].user].issuer>>}
                     \cup Asked(proc[p].user, proc[p].roles) :
            Off(x) => p \in late[x]
    ]_vars

\* Deleting an issuer leaves behind no binding to it that existed, enabled or
\* not, when its bindings were listed.
DeletionLeavesNoReference ==
  [][ \A p \in Proc :
        Moved(p) /\ At(p, "deleting") /\ proc[p].issuer \in DOMAIN auth_issuers \ DOMAIN auth_issuers'
          => proc[p].listed \cap DOMAIN authz_bindings = {}
    ]_vars

\* explain-authz and list-effective-authz, which change nothing, say what a
\* request will find that records the subject, matches the rules, writes the row
\* and reads it back: while nobody else touches subjects or rules, the request
\* goes on as the preview says, with its roles, and only if it says "active".
PreviewIsWhatHappens ==
  \A c \in Client : \A preview \in foretold[c] :
    proc[c].step \in {"identified", "granted"} =>
      /\ preview.status = "active"
      /\ preview.identity.local_roles = proc[c].roles

Identity(u) == ApplySubjectRecord(Token(u), Subject(u))

Object == BindingId \cup Issuer

RequestsFor == [id \in Object |-> ItemRequests(id)]

\* A binding for one object opens that object only: no other one, and no route
\* of the whole collection.
ScopedBindingsConfine ==
  \A u \in User, b \in DOMAIN authz_bindings :
    LET identity == Identity(u)
        opened(req) == b \in MatchingBindings(identity, authz_bindings, req)
        ref == authz_bindings[b].resource_ref
    IN  ref \notin {"", "*"} =>
          /\ \A req \in CollectionRequests : ~opened(req)
          /\ \A id \in Object : \A req \in RequestsFor[id] : opened(req) => id = ref

\* The URL of another known issuer and a colon begin the URL of this one.
Overshadowed(issuer) == \E i \in DOMAIN auth_issuers : <<i, issuer>> \in PrefixOf

\* Of what both look at, with doctor's bindings credited this way.
Agreed(credit) ==
  LET findings == AuthRelatedDoctorFindings(auth_issuers, authz_bindings, rules, {}, credit)
      found(check) == {f.about : f \in {g \in findings : g.check = check}}
      coverage == summarizeAuthIssuerCoverage(auth_issuers, authz_bindings)
      risky == summarizeRiskyAuthzBindings(authz_bindings)
      riskyRules == summarizeRiskySubjectAutoApprovalRules(auth_issuers, rules)
  IN  /\ coverage.unknown_referenced = found("authz_binding_unknown_issuer")
      /\ \A b \in coverage.disabled_referenced :
           \A i \in bindingPrincipalIssuer(authz_bindings[b].principal) :
             i \in found("auth_issuer_disabled_reference") \/ Overshadowed(i)
      /\ \A i \in found("auth_issuer_unused") :
           i \in coverage.enabled_without_bindings \/ Overshadowed(i)
      /\ found("authz_binding_wildcard_permission") = risky.wildcard_permission
      /\ found("authz_binding_unscoped_mutation") \subseteq risky.unscoped_mutation
      /\ found("authz_binding_wildcard_scope") \subseteq risky.wildcard_scope
      /\ found("subject_auto_approval_unknown_issuer") = riskyRules.unknown_issuer
      /\ found("subject_auto_approval_disabled_issuer") = riskyRules.disabled_issuer
      /\ found("subject_auto_approval_broad") = riskyRules.broad

\* /metrics and doctor each have their own code for the same questions, and
\* agree on what they both look at, whichever issuer doctor credits a binding to.
\* They may differ only over an issuer that another known one overshadows: doctor
\* may credit its bindings to that one, which /metrics never does.
MetricsAgreeWithDoctor ==
  \A credit \in Credits(auth_issuers, authz_bindings) : Agreed(credit)

\* --force is to "delete any authz bindings that reference this issuer before
\* deleting it" (cmd/delete_auth_issuer.go:81): no binding of another issuer.
ForcedDeletionSparesOthers ==
  [][ \A p \in Proc :
        Moved(p) /\ At(p, "deleting") =>
          \A b \in DOMAIN authz_bindings \ DOMAIN authz_bindings' :
            proc[p].issuer \in bindingPrincipalIssuer(authz_bindings[b].principal)
    ]_vars

=============================================================================
