# uvoo-certctl: a verification development

`uvoo-certctl` is a command-line tool and a small HTTP server that keep
certificates in one SQLite database: a private PKI (roots, intermediates,
leaves), certificates from a public ACME authority, a queue of signing requests
(CSRs), share links, and the users and rules of its admin API.

There is no daemon that owns the data. Every CLI command and every HTTP request
opens the database by itself (`storage.Open`), makes a handful of store calls and
closes it. Each store call is one SQL statement or one transaction, so SQLite's
single writer makes it atomic; **between two store calls of a command anything
else may happen**. That is where the difficult behaviour is, and it is the grain
of these models: an action is one store call, with everything the code does in it.

All modules are plain TLA+. `tlc -config X.cfg MCModule` runs a model,
`tlapm Module.tla` checks the proofs. The table under "Runs" says which
configuration belongs to which module.

## Inventory

| Part | State it keeps | Operations | What makes it correct |
|---|---|---|---|
| Private PKI (`ops/privateca.go`, `storage.go`) | `private_root_cas`, `private_intermediate_cas`, `private_certs` | create and rotate a CA, issue, retire, promote, revoke | one active generation per name; generations numbered in order; lineage and issuers can be followed; `is_issuing` agrees with `status`; history is immutable |
| Status synchronisation (`syncDerivedStatuses`) | `status`, `is_issuing` of active rows | at every open and first in every writing transaction | what is past `not_after` stops being active |
| Public certificates (`ops/publiccert.go`, `cmd/get.go`, `cmd/renew.go`) | `public_certs` | get, renew, revoke | a name keeps its active certificate; history is immutable; skipping and renewing do what the flags say |
| CSR queue (`ops/csr.go`, `server/csr.go`, `cmd/approve_csr.go`) | `csr_requests`, and rows in both leaf tables | submit, approve, reject, pick up | decided once; the link leads to a stored certificate of that kind and name |
| Share links (`server/server.go`, `cmd/share_cert.go`) | `cert_shares` | create, access, revoke | limits and closing; a share's certificate stays stored |
| Bearer tokens (`auth/verifier.go`) | in-memory cache of issuers' keys and addresses | verify, refresh, probe | a withdrawn key stops working in time, as the server's clock tells it; a token of a published key is not refused |
| Subjects (`ops/subjects.go`, `server/authz.go`) | `subjects`, auto-approval rules | first request, auto-approve, approve, update, disable, delete | what is switched off stays off until someone asks for it; a preview is what happens |
| Authorization objects (`server/admin.go`, `cmd/*_auth_*`) | `auth_issuers`, `authz_bindings` | CRUD, forced deletion of an issuer with its bindings, the decision itself | no request that begins after a switch-off is granted on it; a binding of one object opens that object; no binding is left of a deleted issuer |
| HTTP server (`server/server.go`) | per-address time of the last CSR, counters | route, rate limit, metrics | one submission per address and interval of the server's clock; a client that waits as told gets in |
| Doctor and metrics (`ops/doctor.go`) | none | read-only checks over all tables, read one after the other | no damage reported that is not there; both say the same of the tables, but where the URLs of two issuers begin alike |
| DNS providers (`dns/*.go`) | an external zone | list, create and delete a record | records of other names are left alone; a record is lost only to an overlapping change |
| ACME client (`acme/issue.go`) | none | order a certificate | external |
| Backup and restore (`cmd/backup_db.go`, `cmd/restore_db.go`) | database files | backup, restore | no certificate is lost to a crash |
| Schema migration (`ensureSchema`) | all tables | create, upgrade | whoever has opened the database finds current tables; no crash leaves a database that cannot be opened; no history is undone |
| Audit log | `audit_log` | append, list | best effort, nothing depends on it |
| Crypto, utilities, listing, export | none | pure functions and formatting | |

Interactions. The CSR queue and the two ways of issuing directly write to the
same leaf tables; shares name rows of those tables; intermediates name roots and
leaves name intermediates; every part's calls run the status synchronisation of
all tables; the admin API runs the same operations as the CLI after an
authorization decision.

Hard behaviours, each listed at its line in `PROJECT.json` under `hazards`:
checks made in one call and used in a later one (issuer status, view limit,
pending request, identical certificate, subject record); commands killed between
two calls (certificate stored, request still pending); derived state written
late (expiry); reads by name where another command may have rotated the name;
a transaction that fails after an external side effect (renew); rows read,
changed and written back whole (subjects, issuers, Namecheap zones); answers that
arrive late (key fetches) or not at all (DNS changes); a decision and a report that
combine tables read at different moments; and the migration and the replacement
of the database file, which are several steps that may be cut off.

## Modules

| Module | Models | Notes |
|---|---|---|
| `Tables` | the empty table, `NoId` for NULL | |
| `CATable` | one table of CAs: what each SQL statement does to it | the two CA tables run the same SQL, so one set of operators serves both |
| `LeafTable` | one table of leaf certificates, likewise | used for `private_certs` and `public_certs` |
| `LogicalCA` | abstract: what a CA name promises, a growing sequence of generations of which one issues or none | two variables, the history and the issuing generation of each name |
| `PrivatePKI` | the private PKI | EXTENDS the two tables; each table of CAs implements `LogicalCA` (`Roots`, `Intermediates == INSTANCE ...`) |
| `Doctor` | reports of doctor and /metrics over the private PKI, read by read | EXTENDS `PrivatePKI`, and composes with it |
| `CSRLifecycle` | abstract: what the holder of a pickup token is promised | one variable, the answer to a poll |
| `CSRQueue` | the queue and its approvals | implements `CSRLifecycle` (`Lifecycle == INSTANCE ...`) |
| `PublicCerts` | get and renew | |
| `ShareLink` | abstract: what the owner of a certificate is promised of a share link | one variable, the links |
| `Shares` | share links, and what metrics and doctor say of them | implements `ShareLink` (`Link == INSTANCE ...`) |
| `Authz` | the permission decision, subjects' previews, which route asks for what | operators only |
| `AuthDoctor` | what doctor and /metrics say about issuers, bindings and rules | operators only; EXTENDS `Authz` |
| `Access` | bearer requests beside operators who change issuers, bindings, subjects and rules | EXTENDS `AuthDoctor` |
| `Verifier` | the cache of an issuer's keys under concurrent requests | |
| `CSRLimiter` | the limit on CSR submissions and the clients it sends away | |
| `DNSZone` | a zone at GoDaddy or Namecheap under concurrent commands | |
| `Database` | the database file: opening and migrating, backup-db, restore-db | |
| `MC...` | rows, functions and symmetry sets for TLC | |
| `TableLemmas` | what the statements of `CATable` and `LeafTable` preserve | lemmas for the modules below |
| `PrivatePKIProofs` | theorems about `PrivatePKI` and `Doctor` | EXTENDS `Doctor` |
| `CSRQueueProofs`, `PublicCertsProofs`, `SharesProofs`, `AccessProofs` | theorems about the module of that name | EXTEND it |
| `ServerProofs` | theorems about `Verifier` and `CSRLimiter`, what the server keeps in memory | EXTENDS both |
| `ReplacementProofs` | theorems about `DNSZone` and `Database`, what is replaced as a whole | EXTENDS both |

### Correspondence with the code

A table is a function from row ids to records; a column that no decision reads
(keys, PEM, timestamps other than `not_after`) is left out. `SyncCAs`,
`SyncLeaves`, `UpsertCA`, `UpsertLeaf`, `RetireCA`, `PromoteCA` and `RevokeLeaf`
are the SQL of the store method of the same name as functions from table to
table; reading the clause beside its comment is the way to review them. The
component modules then say which process runs which statement when.

A command is a record with the `step` it is at and what it carries to the next
store call.

- `PrivatePKI`'s `Sign...` actions are the first half of `ops.CreatePrivate...`
  and `ops.IssuePrivateCert` (load the issuer, test it, sign) and the `Store...`
  actions the transaction.
- `CSRQueue` cuts an approval into `LoadPendingRequest`, `IssueForRequest`,
  `ReadBack` and `MarkCSRRequestIssued`; `Shares` an access into
  `GetShareByToken`, `LoadCertificate`, `IncrementShareView` and `WriteAnswer`;
  `PublicCerts` get into `Open`, `CheckLifetime`, `CheckIdentical`, `Order` and
  `UpsertNew` and renew into `Open`, `ReadActive`, `Order` and `UpsertRenewed`.
- `Access` cuts a bearer request into `authenticateAdminRequest` (list the issuers,
  verify), `UpsertSubjectSeen`, `ReadSubject`, and for a pending subject `MatchRules`,
  `resolveBearerSubject` (the write) and `ReReadSubject`, and ends with `Grant` (list the
  bindings, decide). The commands that read a row and write it back are two
  actions: `ApproveSubject` or `UpdateSubject` and `UpdateSubjectApproval`;
  `handleAdminAuthIssuerCreate` or `...Update` and `UpsertAuthIssuer`. Deleting an
  issuer is one action to list its bindings, one for each of them, and one for the issuer.
  CLI and HTTP handlers have copies of the same logic and share their actions.
- `Verifier` has one issuer; the issuers do not share anything. `Usable` and
  `UseCachedKeys` are the part of `keysForIssuer` under the lock, `resolveJWKSURL`,
  `Discover` and `FetchKeys` the part with the lock released, `StoreKeys` the write.
- `DNSZone` has one call per GoDaddy change, and `getHosts` and `setHosts` for
  Namecheap. `Write` lets the answer be lost.
- `Database` cuts `Open` into `LookAtTable`, `ChangeTable` and `IndexTable` for each
  table, which are the statements of `ensure...Schema`, and restore-db into its file
  operations: `RestoreDB` (open the backup, and with it migrate it), `CopyBackup` (whatever file has
  its name by then), `OpenReplaced`, `SaveLive`, `RemoveLive`, `RenameRestored`. The open of the
  backup is one step. At the removal and the renaming what other processes have open is closed.
- `AuthDoctor` tells to which issuer a binding belongs twice, as the code does. `summarizeAuthIssuerCoverage`
  (metrics) takes the issuer that the principal names. `checkAuthIssuerBindings` (doctor) looks through the known issuers,
  in the order of a Go map, and stops at the first whose prefix fits: `Credits` is the set of all ways in
  which that can turn out.
- `Doctor` has one action for each list a report reads, and applies the checks to
  what was read.

The refinement mappings say how the abstract states are read off the tables. `HistoryOf`
lists the row ids of a CA name by their generation numbers, and `IssuingOf` gives the number of its
active row, so that `LogicalCA` knows nothing of statuses, links or rows of other names.
`LinkOf` takes an access from its reading of the share until it is counted as a visitor
inside, so that the limit, which the code tests with one call and counts with another, is passed by less
than there is `Room`. In `LogicalCA` expiry is a set of names that stop issuing, in any step that opens
the database; a rotation or promotion is one step even where it finds other names expired.

In each module a command may also end early (`Abort`, `Fail`, `AbortAccess`, `End`),
which stands for every error return and for a killed process: stored rows stay,
nothing else does.

Time is a counter that `Tick` advances; `not_after` is compared with `<` exactly
as the SQL does. `Verifier` and `CSRLimiter` count the ticks since something happened
instead, up to the point where more makes no difference, so that they need no
bound on the clock. The times these two parts of the server keep are wall-clock times: `time.Now().UTC()` drops the
monotonic reading. So both models let the clock be set while time goes on: `TurnBack` and `TurnForward` change the age of
a cache entry, `SetClockBack` and `SetClockForward` the time since an address was last
admitted. What does not hang on the wall clock (the timeout of a fetch, a client's wait) they leave alone. A row id is taken from a finite set and is fresh, as
`uuid.NewString` is. No guard reads a history variable; they are `certifiedKey` in
`CSRQueue` (whose key a certificate holds), `answered` in `Shares` (answers given), `late` and
`foretold` in `Access` (who was under way when something was switched off; what a preview said),
`withdrawn`, `turned` (how far the clock was set back since the entry was stored; only the bound `EntrySetback` looks at it)
and the field `steady` in `Verifier`, `elapsed` (ticks since an address was last admitted, and those the clock was
set forward meanwhile) and the field `refusals` in `CSRLimiter`, and those marked so in `DNSZone` and `Database`.

The operators `..._mutant` are deliberately wrong versions of the operator that
follows them. Nothing uses them; each makes some property of a run fail when it
takes the place of the right one, which shows that the property depends on that
piece of code. `TypeOK` is an invariant of the run `pki`; in
the other modules it documents the variables, and `CSRQueueProofs` proves that of the queue.

## Runs

| Run | Configuration, module | What it shows | Bounds |
|---|---|---|---|
| pki | `PKI`, `MCPrivatePKI` | rotation, retirement, promotion, issuing, revocation and expiry keep one active and issuing generation per name, generation numbers in order, links that can be followed, only legal moves, no gap in issuing; the two tables of CAs implement `LogicalCA` | 1 root, 2 intermediates, 2 leaves, 2 CA names, 2 commands |
| doctor | `Doctor`, `MCDoctor` | a report over moving tables reports no damage that is not there; liveness: expiry takes effect | 1 root, 1 intermediate, 1 leaf, 1 command, 1 report at a time, 3 times |
| csr_queue | `CSRQueue`, `MCCSRQueue` | links hold, tables sound, `CSRLifecycle` implemented | 2 requests, 2 approvals, 3 certificates |
| public_certs | `PublicCerts`, `MCPublicCerts` | a name keeps its active certificate; nothing issued is rewritten | 2 commands, 3 certificates, 2 sets of SANs |
| shares | `Shares`, `MCShares` | counting, bounded overshoot, closing, certificate stays stored, reports agree with accesses; `ShareLink` implemented | 3 accesses, limits 1, 2 and none |
| access | `Access`, `MCAccess` | what is switched off stays off unless asked for or read before; late requests are refused; previews come true; scopes confine; metrics agree with doctor, whichever issuer it credits a binding to, but over an issuer whose URL another begins; forced deletion leaves nothing behind | 1 user, 1 issuer and, while nobody is under way (`HostIsQuiet`), a second one whose URL begins that of the first, 1 local role, 1 binding, 1 rule, 1 request, 1 command of several calls |
| verifier | `Verifier`, `MCVerifier` | withdrawn keys stop, later by what the clock is set back; published keys are not refused | 2 keys (tokens are of one), 2 addresses, 2 requests, lifetime 2, timeout 1, clock set back by 1 under an entry, forward at any time |
| csr_limiter | `CSRLimiter`, `MCCSRLimiter` | the interval holds but for what the clock is set forward; a patient client is refused at most twice | 4 clients, 3 addresses, quarter seconds, clock set back by 2 in all, forward by up to an interval at any time |
| database | `Database`, `MCDatabase` | current tables for whoever opened; certificates kept; always opens; history stands | 2 processes, 1 + 2 older rows, 1 new one |
| dns | `DNSZone`, `MCDNSZone` | other names untouched; loss only by overlap | 2 commands, 1 name, 2 values, 2 write tests |
| renew_fails | `RenewFails`, `MCPublicCerts` | **finding**: a renewal is never stored | |
| force_deletes_others | `ForceSpares`, `MCAccess` | **finding**: a forced deletion of an issuer takes bindings of another | 2 issuers |

Why the bounds are enough. The store's invariants relate at most two rows of one
name; two commands are what an interleaving between two calls of one
command needs, and three accesses distinguish "one too many" from "as many as
run at once" in `Shares`. One tick past the shortest lifetime makes rows expire
while others live; a third value of the clock, in `doctor` and `public_certs`, lets a
row be promoted, or looked at again, after that. Every statement selects
by one name; `pki` has two, because a step on one name finds rows of the other expired. It has one root, which is
retired, promoted and expires; that roots rotate as intermediates do is the same SQL, `CATable`, and
what the theorems say of both. For every safety property the proofs remove the bounds, those of the number of
processes and of the length of a history included; what the bounds still have to be enough for is the
liveness property, the two findings, and the check that nothing holds vacuously. In `access`, what is said of a subject, an issuer or
a role never relates two of them; the read-modify-write races need one process
between the two calls of another, which is what one request, one command and the
commands of a single call give. In `verifier`, what is said is said of one token and its key, so that tokens of one key are enough; two keys and two requests are a rotation and a late answer
over a newer one; a timeout of one tick, a lifetime of two and a clock set back by one make
the sum, the bound of `WithdrawnKeyStops`, different from each part. In `csr_limiter` four ticks to the second
make every way to round occur. In `database` one row before the migration and
one after it are what a second rebuild needs to damage; two private rows make a
chain. Symmetry is used only in safety runs. In `access`, the constraint `DisabledIsQuiet` lets a disabled binding be there only while no request is under way (a request
lists the enabled ones, and takes it for none), and `HostIsQuiet` keeps the second issuer out of every state in which a request or a command of several
calls is under way or a user has come: `MetricsAgreeWithDoctor` looks at the tables of a state alone, and needs two issuers
with bindings and rules, not their history. (`force_deletes_others` has two issuers without it.) `MaxTime`, `MaxAnswers`, `MaxId`, `Setback` and `EntrySetback` bound
counters; at the bound the model only stops ticking, admitting, issuing or setting the clock back, and
`Next` stays enabled.

## What the properties say where the code is not atomic

Some of the properties are the strongest that hold, and it is worth knowing what they leave open:

- `OffUntilAskedOrOverlapped`: a disable *is* undone by an approval, an update or an
  auto-approval that had read the row before; never by one that had not.
- `LateRequestsRefused`: a request under way when its subject is disabled may still
  be granted.
- `DeletionLeavesNoReference` says nothing of bindings created after the list was
  read: those are left dangling (doctor reports them).
- `WithdrawnKeyStops`: the bound is the lifetime of an entry *plus* the timeout of a fetch, because a
  late answer is stored with age zero, *plus* what the clock was set back since the entry was stored, because its age
  is by the wall clock (`verifier.go:286`): set back by an hour, the server goes by a withdrawn key for an hour more. `GoodTokenNotRefused` asks that the key was served all the time
  at the address the request's row names; a discovered `jwks_uri`
  is kept for the life of the process (`verifier.go:297`), whatever its age.
- `AdmittedApart` counts what the clock was set forward as time: two submissions are closer than the interval by that
  much at most (`server.go:474`). Setting it back only makes clients wait. The property excludes restarts,
  `PatientClientAdmitted` clients who share an address
  (everyone behind one proxy does). A wrong password takes the slot, too; the map of addresses never shrinks.
- `OffUntilAskedOrOverlapped` counts a create as asking for its issuer to be enabled. `handleAdminAuthIssuerCreate` looks
  first whether the issuer is there and then upserts (`admin.go:439`): one that was created and
  disabled in between is enabled again, and no property excludes that.
- `MetricsAgreeWithDoctor` excepts what is said of an issuer whose URL the URL of another known one and a colon begin; see
  Divergences.
- `LostOnlyToOverlap`: two changes of a Namecheap zone that overlap do lose records.
- `AlwaysOpens` and `HistoryStands` exclude a table rebuilt twice. Two processes that
  open an older database at once can both see a table old (`storage.go:1259`); the second rebuild of `public_certs`
  makes every row active again, the unique index then fails, and the
  database cannot be opened any more, nor replaced by restore-db, which opens it first. The two properties say that this is the
  only way to it; that it does not happen they do not say, and no property does.
- `CertificatesKept` excludes what is written while restore-db replaces the file, and
  what a process writes to a file that has been removed under it. A crash between
  the removal and the rename leaves no database, and the next command makes an empty
  one; the certificates are in the safety backup.
- `ReportsMatchAccess` compares doctor as it is with a positive number of days to warn; with none it does not look at shares.
- `OvershootBounded`: `--max-views` may be passed by as many as run at once less one.
- `IssuedLinksHold`: the link of a public request may lead to another key's certificate, but only when its own was
  stored and superseded.

## Fairness

Safety needs none. The one liveness property, `ExpiryTakesEffect`, is checked
under `DoctorSpec`: weak fairness of the clock and of the steps of a report, which
opens the database and so marks what has expired. That is what a Prometheus
scrape of `/metrics` does (`handleMetrics` opens the store and runs the doctor at each request). On a host where no
command or request ever runs, nothing marks expired rows, and the property does
not hold. No other command is assumed to proceed or finish: an operator may stop
half-way for ever.

## Proofs

Every invariant and action property of the passing runs, and the three refinements, of
`CSRLifecycle`, `ShareLink` and `LogicalCA`, are theorems that tlapm checks for every value of the constants that the
`ASSUME` of the module admits. The sets need not be finite (but for the accesses in
`Shares`, which are counted), the clocks and counters have any bound, and any
number of processes may be under way. `ClosedAdmitsNoMore`, which `ShareLink` implies, is proved and not run.

The proofs have one shape. An invariant `IInv` is shown to hold at first and to be kept by
every step: one lemma for each action, and a lemma `NextIInv` that splits `Next`. An
invariant property then follows from `IInv`; an action property is proved of a step
that begins in `IInv`, by the same lemmas. `IInv` is stronger than the properties, as
none of them is inductive. What it adds says why the code is right:

- **`TableLemmas`.** A *good* table (`GoodCAs`, `GoodLeaves`) has one active row for a name,
  links inside the name to older rows (those of leaves never in a circle, `LinksEnd`), generations that are exactly an interval `1..k`, and
  rows of the right type. Each statement of the code takes a good table to a good table
  and keeps all its rows. The parts need each other: the next number is `MAX + 1` of the present
  ones, which exists and is new only in an interval, and the next link is the active
  row's, which must be the only one.
- **`PrivatePKIProofs`.** `IInv`: the three tables are good, every issuer is stored, and what a
  command carries to its insert is tied to the tables, because the issuer it has signed with
  must still be stored then. `HistoryPreserved`, `StatusMovesLegal` and
  `RotationHasNoGap` follow by looking at one statement.
  The refinement, `SpecKeepsGenerations`, is by statement, too: from a good table, synchronising and
  retiring are a `Lapse`, `UpsertCA` after a synchronisation is a `Rotate`, `PromoteCA` a `Promote`. That
  a history is a sequence at all needs the interval of `GoodCAs`, and that one step hands a name over needs its one
  active row.
  A report of `Doctor` holds tables of different moments: `ReportInv` says that each was
  good when it was read, that its rows are still there, and that what its rows refer
  to is in a table it reads later. `NoFalseDamage` is that these fit each other, and depends on the order in
  which the tables are read.
- **`CSRQueueProofs`.** From storing a certificate to writing the link an approval must carry that the
  certificate is `Linkable`: of the request's kind and name, and the one over the request's key, or
  that one is stored and out of use. This stays true because no step removes a
  certificate, renames it or brings it back into use. The refinement, `SpecKeepsLifecycle`, shows that
  every step is a step of `CSRLifecycle` or leaves what a holder of a pickup token sees as it was.
- **`PublicCertsProofs`.** A command decides long before it stores, but the transaction that stores
  looks at the table again, so the table is good on its own. The lemmas say of each row why it may
  have gone out of use (`RowKept`), from which `NameKeepsActive` and `HistoryPreserved` follow.
- **`SharesProofs`.** `EveryAnswerCounted` and `OvershootBounded` count the accesses that have reached a
  step. They are inductive together with typing; the work is in the lemmas about how these
  cardinalities change when an access moves. With the same counts `SpecKeepsShareLink` shows every step to be a step
  of `ShareLink` on one link, the expiry of several at once, or a stutter.
- **`AccessProofs`.** What a process has read to be on and goes by later (`Relies`) is either still on, or
  the process was under way when it was switched off (`ReliesOnLate`): this is what makes
  `OffUntilAskedOrOverlapped` and `LateRequestsRefused` true of read-modify-write commands. A
  deletion has in hand every binding it listed that is left (`ListedInHand`). A request is where the preview made at
  its beginning says, as long as nobody else has written (`Foreseen`). That metrics and doctor agree is true of any tables and needs
  no invariant: a binding that doctor credits to another issuer than the one its principal names is one of an issuer that the other
  overshadows (`CreditedElsewhere`).
- **`ServerProofs`.** A key in the cache was withdrawn no longer ago than the age of the entry, what the clock was set back under
  it and one timeout, and a key in an answer under way no longer ago than the answer took; an answer holds every key that was
  served when it was made. For the limiter (`LimiterIInv`): the server's clock is never ahead of the
  time that has passed and what it was set forward, and a client that has waited as it was told to lacks less than
  half a second after the first refusal and nothing after the second.
- **`ReplacementProofs`.** The list under edit at Namecheap may be out of date only in the names that some
  change has named since (`Knows`). For the database file (`DBInv`): a process on its way through the
  tables has brought up to date those it has been at (`OnItsWay`); only rows of the old schema are
  rebuilt, and every file can be indexed, unless `twice`; and a restore about to remove the live file has saved what it held, but for
  what was written meanwhile (`Holds`).

Assumptions. Those of the modules, each justified by the code or by what the model's sets stand for:
`NoId` (NULL) is not an id; times, lifetimes and limits are naturals; the addresses a row may name are
those the model has; requests and operators are different processes, and the roles a rule gives are roles
there are (`AccessAssumption`); a write test's name is its own (`DNSZoneAssumption`); an older
`public_certs` has at most one row of a name (`DatabaseAssumption`). TLC evaluates all of them on the runs.

What stays with TLC. `ExpiryTakesEffect` is a liveness property under weak fairness; liveness and `ENABLED` are outside
the prover. The properties of the two runs
that are expected to fail are false, as TLC's counterexamples show. No module uses RECURSIVE
operators or needs induction over data. The bounds in the guards (`MaxTime`, `MaxId`, `Setback`, `EntrySetback`, `MaxAnswers`)
are constants of the theorems too, with any value, so that the theorems hold for as long a
history as one likes.

## Findings

1. `renew` inserts under the id it read (`cmd/renew.go:93`): the statement always
   fails, after the authority has issued (run `renew_fails`). The transaction saves the old
   certificate (`NameKeepsActive`). Most renewals do not come that far: `renew` passes the ACME client neither
   API user nor key nor client IP (`cmd/renew.go:57`), and `configureDNSProvider` (`acme/issue.go:188`) overwrites GoDaddy's variables
   with the empty values, and configures Namecheap with them. An order, and a certificate lost with it, needs
   provider credentials that lego finds elsewhere in its environment; `Order` stands for that case, and the failure before it
   is `End`.
2. A forced deletion of the issuer `https://idp.example` also deletes the bindings of
   `https://idp.example:8443`: bindings are matched by the prefix `role:<issuer>:`
   (`cmd/delete_auth_issuer.go:89`, `internal/server/admin.go:2287`; run
   `force_deletes_others`). Without `--force` the deletion is refused on their account.

Divergences met while modelling, which no run demonstrates by itself:

- Promotion refuses a CA whose stored status is `expired`, but expiry is only
  marked on active rows: a retired generation past its `not_after` is promoted
  (`storage.go:3425`), and issues until the next open marks it.
- The issuer is tested in one call and the certificate inserted in another
  (`ops/privateca.go:223`): a retirement in between is not seen, although the
  repository's README.md:33 speaks of rollover "without allowing new issuance from them".
- The approval of a public request reads its certificate back by common name
  (`ops/csr.go:153`) and may link the request to another one's, although the pickup token is to
  "fetch the issued certificate" (docs/CSR_REQUESTS.md:97).
- The second `FindByHash` in `ops/publiccert.go:72` skips whenever an identical certificate is there, and so overrides
  both `--force` ("force issuance even if an identical cert already exists", cmd/get.go:170) and
  `--skip-if-expires-within` (cmd/get.go:164), which the first look-up has obeyed.
- `--max-views`, the "maximum number of views" (cmd/share_cert.go:165), is checked and counted in different calls.
- `/admin/v1/effective-authz` "shows the caller's current effective permissions"
  (docs/RUNBOOK.md:293), of every binding of the caller, whatever its scope.
- doctor and /metrics may contradict each other about `https://idp.example:8443` when `https://idp.example` is known, too. doctor
  credits a binding to the first known issuer that fits by prefix, in the order of a map (`ops/doctor.go:464`); metrics takes the
  issuer that the principal names (`admin.go:1711`). So doctor may call the longer one unused, or miss that it is
  disabled and referenced, while metrics counts its bindings, and may do so in one report and not in the next.
  `MetricsAgreeWithDoctor` says that this is all they differ in; without its exception (`Overshadowed`) the run `access` finds
  it violated.
- doctor's check `authz_binding_conflicting_states` compares an enabled binding with a
  disabled one, but its bindings are listed enabled only: it can never fire.
- `delete-record` and the write test report success whether or not a record was there;
  the write test ignores an error of its deletion (`dns/types.go`), while check-precursors prints
  that create and delete worked (`cmd/check_precursors.go:46`).
- "Existing SQLite databases are migrated automatically on open"
  (docs/RELEASE_NOTES_v0.1.0.md:35): not when two processes do it at once, see above.

## Not modelled

X.509, key encryption and passwords (byte strings); parsing and SAN
normalisation (a set of SANs is a value); wildcard and SAN lookup for sharing (any
active certificate may be resolved); validation of input fields; formatting, listing and export; the audit
log (best effort, never read back); the ACME protocol and the DNS calls inside an
order (external, one step); signatures and claims of tokens (a token is the key
that verifies it); the network ACL beyond which addresses are let in; routing; the static admin token,
whose bearer may do everything; `busy_timeout` (a call that times out is an error
return, and so an `Abort`). In `DNSZone` two write tests that begin in the same second (their name is its Unix time), upper and lower case, TTLs, MX preferences and
the ids of records are left out. `Database` has the two tables whose rebuild touches rows that the unique indexes
constrain; the CA tables are rebuilt as `public_certs` is, and the others only created or given columns.
It has one common name; a restore's own overlap with a second restore is excluded.

## Plan

All the components that keep state are modelled, and every safety property and refinement the runs check
is proved. What could be added:

1. A second table of the CA kind in `Database`, whose rebuild is that of `public_certs`.
2. An abstract specification of the database file, as a set of certificates that only grows but for
   what was written during a replacement, and the refinement from `CertificatesKept` and `HistoryStands`.
