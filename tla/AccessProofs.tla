----------------------------- MODULE AccessProofs -----------------------------
(***************************************************************************)
(* Access is correct for every set of issuers, users, roles, bindings and  *)
(* rules, and any number of requests and commands at once.                 *)
(*                                                                         *)
(* Argument: a process that has read that something is switched on, and    *)
(* relies on it later, has either not been overtaken or was under way when *)
(* it was switched off.  What a request is about to find follows from the  *)
(* preview made when it began as long as nobody else writes.  And a        *)
(* deletion still has in hand every binding it listed that is left.        *)
(***************************************************************************)
EXTENDS Access, TLAPS

\* A token is only accepted from an issuer that was stored once.
KnownUser == {u \in User : TokenOf[u].issuer \in Issuer}

RequestState ==
  [ step : {"verified", "seen", "pending", "approved", "identified", "granted"},
    user : KnownUser, want : Wanted, roles : SUBSET LocalRole ]

MatchedState ==
  [ step : {"matched"}, user : KnownUser, want : Wanted, roles : SUBSET LocalRole,
    asks : SUBSET Switches ]

SubjectReadState ==
  [ step : {"subject_read"}, user : User, status : Status, roles : SUBSET LocalRole,
    asks : SUBSET Switches ]

IssuerReadState ==
  [step : {"issuer_read"}, issuer : Issuer, enabled : BOOLEAN, asks : SUBSET Switches]

DeletingState ==
  [step : {"deleting"}, issuer : Issuer, refs : SUBSET BindingId, listed : SUBSET BindingId]

ProcState ==
  {Idle} \cup RequestState \cup MatchedState \cup SubjectReadState \cup IssuerReadState
    \cup DeletingState

SubjectColumns == [status : Status, local_roles : SUBSET LocalRole]

TablesTyped ==
  /\ DOMAIN auth_issuers \subseteq Issuer
  /\ auth_issuers \in [DOMAIN auth_issuers -> [enabled : BOOLEAN]]
  /\ DOMAIN authz_bindings \subseteq BindingId
  /\ \A b \in DOMAIN authz_bindings : authz_bindings[b] \in NewBinding
  /\ DOMAIN subjects \subseteq User
  /\ subjects \in [DOMAIN subjects -> SubjectColumns]
  /\ DOMAIN rules \subseteq RuleName
  /\ \A n \in DOMAIN rules : rules[n] \in NewRule

Typed ==
  /\ TablesTyped
  /\ proc \in [Proc -> ProcState]
  /\ \A x \in Switches : late[x] \subseteq Busy
  /\ DOMAIN foretold = Client

\* What a process has read to be on and goes by, unless it was asked to switch it.
Relies(s) ==
  LET issuer  == {<<"issuer", TokenOf[s.user].issuer>>}
      subject == {<<"subject", s.user>>}
      roles   == Asked(s.user, s.roles)
  IN  CASE s.step \in {"verified", "seen"} -> issuer
        [] s.step \in {"pending", "approved", "identified", "granted"} ->
             issuer \cup subject \cup roles
        [] s.step = "matched" -> issuer \cup subject \cup (roles \ s.asks)
        [] s.step = "subject_read" ->
             ((IF s.status = "disabled" THEN {} ELSE subject) \cup roles) \ s.asks
        [] s.step = "issuer_read" ->
             (IF s.enabled THEN {<<"issuer", s.issuer>>} ELSE {}) \ s.asks
        [] OTHER -> {}

\* Where that is off by now, the process was under way when it was switched off.
ReliesOnLate == \A p \in Proc : \A x \in Relies(proc[p]) : Off(x) => p \in late[x]

\* A deletion has still to delete what is left of the bindings it listed.
ListedInHand ==
  \A p \in Proc : At(p, "deleting") => proc[p].listed \cap DOMAIN authz_bindings \subseteq proc[p].refs

\* What the preview has to do with a request in state s, while it is not forgotten.
OnTrack(s, preview) ==
  /\ s.step \in {"verified", "seen"} =>
       preview = PreviewSubjectAccess(Token(s.user), Subject(s.user), rules)
  /\ s.step = "pending" =>
       preview = PreviewSubjectAccess(Token(s.user), [status |-> "pending", local_roles |-> s.roles], rules)
  /\ s.step \in {"matched", "identified", "granted"} =>
       preview.status = "active" /\ preview.identity.local_roles = s.roles
  /\ s.step = "approved" /\ s.user \in DOMAIN subjects =>
       preview.status = "active" /\ preview.identity.local_roles = subjects[s.user].local_roles

Foreseen == \A c \in Client : \A preview \in foretold[c] : OnTrack(proc[c], preview)

IInv == Typed /\ ReliesOnLate /\ ListedInHand /\ Foreseen

-----------------------------------------------------------------------------
(***************************************************************************)
(* What the three action properties say of one step.                       *)
(***************************************************************************)

UndoneWithCause ==
  \A x \in Switches, p \in Proc :
    Off(x) /\ ~Off(x)' /\ Moved(p) => AsksFor(p, x) \/ p \in late[x]

GrantedInTime ==
  \A p \in Proc :
    At(p, "granted")' /\ ~At(p, "granted") =>
      \A x \in {<<"subject", proc[p].user>>, <<"issuer", TokenOf[proc[p].user].issuer>>}
                 \cup Asked(proc[p].user, proc[p].roles) :
        Off(x) => p \in late[x]

NothingListedLeft ==
  \A p \in Proc :
    Moved(p) /\ At(p, "deleting") /\ proc[p].issuer \in DOMAIN auth_issuers \ DOMAIN auth_issuers'
      => proc[p].listed \cap DOMAIN authz_bindings = {}

Good == IInv' /\ UndoneWithCause /\ GrantedInTime /\ NothingListedLeft

\* The states by their step.
LEMMA ByStep ==
  ASSUME NEW s \in ProcState
  PROVE  /\ s.step = "idle" <=> s = Idle
         /\ s.step \in {"verified", "seen", "pending", "approved", "identified", "granted"}
              => s \in RequestState
         /\ s.step = "matched" => s \in MatchedState
         /\ s.step = "subject_read" => s \in SubjectReadState
         /\ s.step = "issuer_read" => s \in IssuerReadState
         /\ s.step = "deleting" => s \in DeletingState
<1>1. Idle.step = "idle"
  BY DEF Idle
<1>2. QED
  BY <1>1 DEF ProcState, RequestState, MatchedState, SubjectReadState, IssuerReadState, DeletingState

\* What it means to be off, for each kind of switch.
LEMMA OffMeans ==
  /\ \A u : Off(<<"subject", u>>) <=> u \in DOMAIN subjects /\ subjects[u].status = "disabled"
  /\ \A i : Off(<<"issuer", i>>) <=> i \notin EnabledRows(auth_issuers)
  /\ \A u, r : Off(<<"role", u, r>>) <=> u \notin DOMAIN subjects \/ r \notin subjects[u].local_roles
<1>1. \A i : i \in EnabledRows(auth_issuers) <=> i \in DOMAIN auth_issuers /\ auth_issuers[i].enabled
  BY DEF EnabledRows
<1>2. QED
  BY <1>1 DEF Off

\* What each state relies on.
LEMMA ReliesMeans ==
  ASSUME NEW s
  PROVE  /\ s.step \in {"verified", "seen"} =>
              Relies(s) = {<<"issuer", TokenOf[s.user].issuer>>}
         /\ s.step \in {"pending", "approved", "identified", "granted"} =>
              Relies(s) = {<<"subject", s.user>>, <<"issuer", TokenOf[s.user].issuer>>}
                            \cup Asked(s.user, s.roles)
         /\ s.step = "matched" =>
              Relies(s) = {<<"subject", s.user>>, <<"issuer", TokenOf[s.user].issuer>>}
                            \cup (Asked(s.user, s.roles) \ s.asks)
         /\ s.step = "subject_read" =>
              Relies(s) = ((IF s.status = "disabled" THEN {} ELSE {<<"subject", s.user>>})
                             \cup Asked(s.user, s.roles)) \ s.asks
         /\ s.step = "issuer_read" =>
              Relies(s) = (IF s.enabled THEN {<<"issuer", s.issuer>>} ELSE {}) \ s.asks
         /\ s.step \in {"idle", "deleting"} => Relies(s) = {}
<1> HIDE DEF Asked
<1>1. s.step \in {"verified", "seen"} => Relies(s) = {<<"issuer", TokenOf[s.user].issuer>>}
  BY DEF Relies
<1>2. s.step \in {"pending", "approved", "identified", "granted"} =>
        Relies(s) = {<<"subject", s.user>>, <<"issuer", TokenOf[s.user].issuer>>}
                      \cup Asked(s.user, s.roles)
  BY DEF Relies
<1>3. s.step = "matched" =>
        Relies(s) = {<<"subject", s.user>>, <<"issuer", TokenOf[s.user].issuer>>}
                      \cup (Asked(s.user, s.roles) \ s.asks)
  BY DEF Relies
<1>4. s.step = "subject_read" =>
        Relies(s) = ((IF s.status = "disabled" THEN {} ELSE {<<"subject", s.user>>})
                       \cup Asked(s.user, s.roles)) \ s.asks
  BY DEF Relies
<1>5. s.step = "issuer_read" =>
        Relies(s) = (IF s.enabled THEN {<<"issuer", s.issuer>>} ELSE {}) \ s.asks
  BY DEF Relies
<1>6. s.step \in {"idle", "deleting"} => Relies(s) = {}
  BY DEF Relies
<1>7. QED
  BY <1>1, <1>2, <1>3, <1>4, <1>5, <1>6

LEMMA ReliesOnSwitches ==
  ASSUME NEW s \in ProcState
  PROVE  Relies(s) \subseteq Switches
<1>1. CASE s \in RequestState
  <2>1. /\ s.step \in {"verified", "seen", "pending", "approved", "identified", "granted"}
        /\ s.user \in User /\ TokenOf[s.user].issuer \in Issuer /\ s.roles \subseteq LocalRole
    BY <1>1 DEF RequestState, KnownUser
  <2>2. Relies(s) \subseteq {<<"subject", s.user>>, <<"issuer", TokenOf[s.user].issuer>>}
                              \cup Asked(s.user, s.roles)
    BY <2>1, ReliesMeans
  <2>3. QED
    BY <2>1, <2>2 DEF Asked, Switches
<1>2. CASE s \in MatchedState
  <2>1. /\ s.step = "matched"
        /\ s.user \in User /\ TokenOf[s.user].issuer \in Issuer /\ s.roles \subseteq LocalRole
    BY <1>2 DEF MatchedState, KnownUser
  <2>2. Relies(s) \subseteq {<<"subject", s.user>>, <<"issuer", TokenOf[s.user].issuer>>}
                              \cup Asked(s.user, s.roles)
    BY <2>1, ReliesMeans
  <2>3. QED
    BY <2>1, <2>2 DEF Asked, Switches
<1>3. CASE s \in SubjectReadState
  <2>1. s.step = "subject_read" /\ s.user \in User /\ s.roles \subseteq LocalRole
    BY <1>3 DEF SubjectReadState
  <2>2. Relies(s) \subseteq {<<"subject", s.user>>} \cup Asked(s.user, s.roles)
    BY <2>1, ReliesMeans
  <2>3. QED
    BY <2>1, <2>2 DEF Asked, Switches
<1>4. CASE s \in IssuerReadState
  <2>1. s.step = "issuer_read" /\ s.issuer \in Issuer
    BY <1>4 DEF IssuerReadState
  <2>2. Relies(s) \subseteq {<<"issuer", s.issuer>>}
    BY <2>1, ReliesMeans
  <2>3. QED
    BY <2>1, <2>2 DEF Switches
<1>5. CASE s \in {Idle} \cup DeletingState
  <2>1. s.step \in {"idle", "deleting"}
    BY <1>5 DEF Idle, DeletingState
  <2>2. QED
    BY <2>1, ReliesMeans
<1>6. QED
  BY <1>1, <1>2, <1>3, <1>4, <1>5 DEF ProcState

-----------------------------------------------------------------------------
(***************************************************************************)
(* What has to be shown of a step, for a command of one call and for a     *)
(* process that goes to a state s.                                         *)
(***************************************************************************)

LEMMA ObservedTyped ==
  ASSUME IInv, Observe, proc' \in [Proc -> ProcState], TablesTyped'
  PROVE  Typed'
BY DEF IInv, Typed, Observe

\* A process that goes on relying on what it did, or on what was on just now.
LEMMA RelianceKept ==
  ASSUME IInv, Observe, NEW p \in Proc, proc'[p] \in ProcState,
         \A x \in Relies(proc'[p]) : x \in Relies(proc[p]) \/ ~Off(x)
  PROVE  \A x \in Relies(proc'[p]) : Off(x)' => p \in late'[x]
<1> SUFFICES ASSUME NEW x \in Relies(proc'[p]), Off(x)' PROVE p \in late'[x]
  OBVIOUS
<1>1. x \in Switches
  BY ReliesOnSwitches
<1>2. proc'[p] # Idle
  BY ByStep, ReliesMeans
<1>3. late'[x] = IF Off(x)' /\ ~Off(x) THEN Busy' ELSE late[x] \cap Busy'
  BY <1>1 DEF Observe
<1>4. p \in Busy'
  BY <1>2 DEF Busy
<1>5. Off(x) => p \in late[x]
  BY DEF IInv, ReliesOnLate
<1>6. QED
  BY <1>3, <1>4, <1>5

\* What a request is about to find, while it does not move.
LEMMA TrackUnmoved ==
  ASSUME IInv, NEW c \in Client, proc'[c] = proc[c], NEW preview \in Foretold(c)
  PROVE  OnTrack(proc[c], preview)'
<1>1. UNCHANGED <<subjects, rules>> /\ preview \in foretold[c]
  BY DEF Foretold
<1>2. OnTrack(proc[c], preview)
  BY <1>1 DEF IInv, Foreseen
<1>3. QED
  BY <1>1, <1>2 DEF OnTrack, Subject

LEMMA OneCallStep ==
  ASSUME IInv, Observe, UNCHANGED proc, TablesTyped',
         \A p \in Proc : At(p, "deleting") =>
           proc[p].listed \cap DOMAIN authz_bindings' \subseteq DOMAIN authz_bindings
  PROVE  Good
<1>1. Typed'
  BY ObservedTyped DEF IInv, Typed
<1>2. ReliesOnLate'
  <2> SUFFICES ASSUME NEW p \in Proc PROVE \A x \in Relies(proc'[p]) : Off(x)' => p \in late'[x]
    BY DEF ReliesOnLate
  <2>1. proc'[p] \in ProcState
    BY DEF IInv, Typed
  <2>2. QED
    BY <2>1, RelianceKept
<1>3. ListedInHand'
  BY DEF IInv, ListedInHand, At
<1>4. Foreseen'
  <2> SUFFICES ASSUME NEW c \in Client, NEW preview \in foretold'[c] PROVE OnTrack(proc[c], preview)'
    BY DEF Foreseen
  <2>1. preview \in Foretold(c)
    BY DEF Observe
  <2>2. QED
    BY <2>1, TrackUnmoved
<1>5. UndoneWithCause /\ GrantedInTime /\ NothingListedLeft
  BY DEF UndoneWithCause, GrantedInTime, NothingListedLeft, Moved, At
<1>6. QED
  BY <1>1, <1>2, <1>3, <1>4, <1>5 DEF Good, IInv

LEMMA ProcessStep ==
  ASSUME IInv, Observe, NEW p \in Proc, NEW s \in ProcState, Goto(p, s), TablesTyped',
         DOMAIN authz_bindings' \subseteq DOMAIN authz_bindings,
         \A x \in Relies(s) : x \in Relies(proc[p]) \/ ~Off(x),
         s.step = "deleting" => s.listed \cap DOMAIN authz_bindings' \subseteq s.refs,
         p \in Client => \A preview \in Foretold(p) : OnTrack(s, preview)',
         \A x \in Switches : Off(x) /\ ~Off(x)' => AsksFor(p, x) \/ x \in Relies(proc[p]),
         s.step = "granted" => At(p, "identified"),
         At(p, "deleting") => proc[p].refs = {} \/ UNCHANGED auth_issuers
  PROVE  Good
<1>1. /\ proc' \in [Proc -> ProcState]
      /\ \A q \in Proc : proc'[q] = IF q = p THEN s ELSE proc[q]
  BY DEF Goto, IInv, Typed
<1>2. Typed'
  BY <1>1, ObservedTyped
<1>3. ReliesOnLate'
  <2> SUFFICES ASSUME NEW q \in Proc PROVE \A x \in Relies(proc'[q]) : Off(x)' => q \in late'[x]
    BY DEF ReliesOnLate
  <2>1. proc'[q] \in ProcState
    BY <1>1
  <2>2. \A x \in Relies(proc'[q]) : x \in Relies(proc[q]) \/ ~Off(x)
    BY <1>1
  <2>3. QED
    BY <2>1, <2>2, RelianceKept
<1>4. ListedInHand'
  BY <1>1 DEF IInv, ListedInHand, At
<1>5. Foreseen'
  <2> SUFFICES ASSUME NEW c \in Client, NEW preview \in foretold'[c] PROVE OnTrack(proc[c], preview)'
    BY DEF Foreseen
  <2>1. preview \in Foretold(c) /\ c \in Proc
    BY DEF Observe, Proc
  <2>2. CASE c = p
    <3>1. OnTrack(s, preview)'
      BY <2>1, <2>2
    <3>2. proc'[c] = s
      BY <1>1, <2>1, <2>2
    <3>3. QED
      BY <3>1, <3>2 DEF OnTrack
  <2>3. CASE c # p
    BY <1>1, <2>1, <2>3, TrackUnmoved
  <2>4. QED
    BY <2>2, <2>3
<1>6. \A x \in Relies(proc[p]) : Off(x) => p \in late[x]
  BY DEF IInv, ReliesOnLate
<1>7. UndoneWithCause
  BY <1>1, <1>6 DEF UndoneWithCause, Moved
<1>8. GrantedInTime
  <2> SUFFICES ASSUME NEW q \in Proc, At(q, "granted")', ~At(q, "granted"),
                      NEW x \in {<<"subject", proc[q].user>>, <<"issuer", TokenOf[proc[q].user].issuer>>}
                                  \cup Asked(proc[q].user, proc[q].roles),
                      Off(x)
               PROVE  q \in late[x]
    BY DEF GrantedInTime
  <2>1. q = p /\ s.step = "granted"
    BY <1>1 DEF At
  <2>2. proc[p].step = "identified"
    BY <2>1 DEF At
  <2>3. x \in Relies(proc[p])
    BY <2>1, <2>2, ReliesMeans
  <2>4. QED
    BY <1>6, <2>1, <2>3
<1>9. NothingListedLeft
  <2> SUFFICES ASSUME NEW q \in Proc, Moved(q), At(q, "deleting"), DOMAIN auth_issuers' # DOMAIN auth_issuers
               PROVE  proc[q].listed \cap DOMAIN authz_bindings = {}
    BY DEF NothingListedLeft
  <2>1. q = p
    BY <1>1 DEF Moved
  <2>2. QED
    BY <2>1 DEF IInv, ListedInHand
<1>10. QED
  BY <1>2, <1>3, <1>4, <1>5, <1>7, <1>8, <1>9 DEF Good, IInv

\* The same for a step that only reads the tables.
LEMMA ReadingStep ==
  ASSUME IInv, Observe, NEW p \in Proc, NEW s \in ProcState, Goto(p, s), UNCHANGED tables,
         \A x \in Relies(s) : x \in Relies(proc[p]) \/ ~Off(x),
         s.step = "deleting" => s.listed \cap DOMAIN authz_bindings \subseteq s.refs,
         p \in Client => \A preview \in Foretold(p) : OnTrack(s, preview),
         s.step = "granted" => At(p, "identified")
  PROVE  Good
<1>1. UNCHANGED <<auth_issuers, authz_bindings, subjects, rules>>
  BY DEF tables
<1>2. TablesTyped'
  BY <1>1 DEF IInv, Typed, TablesTyped
<1>3. \A x : Off(x)' <=> Off(x)
  BY <1>1 DEF Off, EnabledRows
<1>4. \A preview : OnTrack(s, preview)' <=> OnTrack(s, preview)
  BY <1>1 DEF OnTrack, Subject
<1> QED
  BY <1>1, <1>2, <1>3, <1>4, ProcessStep

\* A process that ends.
LEMMA EndingStep ==
  ASSUME IInv, Observe, NEW p \in Proc, Goto(p, Idle), UNCHANGED tables
  PROVE  Good
<1>1. Idle \in ProcState /\ Idle.step = "idle"
  BY DEF ProcState, Idle
<1>2. Relies(Idle) = {}
  BY <1>1, ReliesMeans
<1>3. Foretold(p) = {}
  <2>1. proc'[p] = Idle
    BY DEF Goto, IInv, Typed
  <2>2. QED
    BY <2>1 DEF Foretold
<1>4. QED
  BY <1>1, <1>2, <1>3, ReadingStep

\* What a request that moves is held to.
LEMMA TrackMoved ==
  ASSUME IInv, NEW c \in Client, proc[c] # Idle, NEW preview \in Foretold(c)
  PROVE  OnTrack(proc[c], preview)
<1>1. preview \in foretold[c]
  BY DEF Foretold
<1>2. QED
  BY <1>1 DEF IInv, Foreseen

-----------------------------------------------------------------------------
(***************************************************************************)
(* A bearer request                                                        *)
(***************************************************************************)

LEMMA SubjectRow ==
  ASSUME IInv, NEW u \in User
  PROVE  Subject(u) \in SubjectColumns
<1>1. subjects \in [DOMAIN subjects -> SubjectColumns]
  BY DEF IInv, Typed, TablesTyped
<1>2. NoSubject \in SubjectColumns
  BY DEF NoSubject, Status, SubjectColumns
<1>3. QED
  BY <1>1, <1>2 DEF Subject

LEMMA AuthenticateStep ==
  ASSUME IInv, Observe, NEW p \in Client, NEW u \in User, NEW w \in Wanted,
         authenticateAdminRequest(p, u, w)
  PROVE  Good
<1> DEFINE s == Request("verified", u, w, {})
<1>1. proc[p] = Idle /\ Goto(p, s) /\ UNCHANGED tables /\ p \in Proc
  BY DEF authenticateAdminRequest, Proc
<1>2. TokenOf[u].issuer \in EnabledRows(auth_issuers) /\ u \in KnownUser
  BY DEF authenticateAdminRequest, EnabledRows, KnownUser, IInv, Typed, TablesTyped
<1>3. s \in ProcState /\ s.step = "verified" /\ s.user = u
  BY <1>2 DEF Request, RequestState, ProcState
<1> HIDE DEF s
<1>4. \A x \in Relies(s) : ~Off(x)
  BY <1>2, <1>3, ReliesMeans, OffMeans
<1>5. ASSUME NEW preview \in Foretold(p) PROVE OnTrack(s, preview)
  <2>1. proc'[p] = s /\ s # Idle
    BY <1>1, <1>3 DEF Goto, IInv, Typed, Idle
  <2>2. preview = PreviewSubjectAccess(Token(u), Subject(u), rules)
    BY <1>1, <1>3, <2>1 DEF Foretold
  <2>3. QED
    BY <1>3, <2>2 DEF OnTrack
<1>6. QED
  BY <1>1, <1>3, <1>4, <1>5, ReadingStep

\* Recording that a subject was seen changes nothing that is switched on or off.
LEMMA UpsertSeenStep ==
  ASSUME IInv, Observe, NEW p \in Client, UpsertSubjectSeen(p)
  PROVE  Good
<1>0. PICK u, s : u = proc[p].user /\ s = [proc[p] EXCEPT !.step = "seen"]
  OBVIOUS
<1>1. /\ proc[p].step = "verified" /\ p \in Proc /\ Goto(p, s)
      /\ subjects' = Put(subjects, u, Subject(u))
      /\ UNCHANGED <<auth_issuers, authz_bindings, rules>>
  BY <1>0 DEF UpsertSubjectSeen, At, Proc
<1>2. proc[p] \in RequestState
  BY <1>1, ByStep DEF IInv, Typed
<1>3. s \in ProcState /\ s.step = "seen" /\ s.user = u /\ u \in User
  BY <1>0, <1>2 DEF RequestState, ProcState, KnownUser
<1>4. Subject(u) \in SubjectColumns /\ subjects \in [DOMAIN subjects -> SubjectColumns]
  BY <1>3, SubjectRow DEF IInv, Typed, TablesTyped
<1>5. /\ DOMAIN subjects' = DOMAIN subjects \cup {u}
      /\ subjects' \in [DOMAIN subjects \cup {u} -> SubjectColumns]
      /\ \A i \in DOMAIN subjects \cup {u} :
           subjects'[i] = IF i = u THEN Subject(u) ELSE subjects[i]
  <2>1. PICK row : row = Subject(u)
    OBVIOUS
  <2>2. subjects' = Put(subjects, u, row) /\ row \in SubjectColumns
    BY <1>1, <1>4, <2>1
  <2>3. /\ DOMAIN Put(subjects, u, row) = DOMAIN subjects \cup {u}
        /\ Put(subjects, u, row) \in [DOMAIN subjects \cup {u} -> SubjectColumns]
        /\ \A i \in DOMAIN subjects \cup {u} :
             Put(subjects, u, row)[i] = IF i = u THEN row ELSE subjects[i]
    BY <1>4, <2>2 DEF Put
  <2>4. QED
    BY <2>1, <2>2, <2>3
<1>6. TablesTyped'
  BY <1>1, <1>3, <1>5 DEF IInv, Typed, TablesTyped
<1>7. \A i \in DOMAIN subjects : subjects'[i] = subjects[i]
  <2>1. u \in DOMAIN subjects => Subject(u) = subjects[u]
    BY DEF Subject
  <2>2. QED
    BY <1>5, <2>1
<1>8. ASSUME NEW x \in Switches, Off(x) PROVE Off(x)'
  <2>1. CASE \E v \in User : x = <<"subject", v>>
    BY <1>5, <1>7, <1>8, <2>1 DEF Off
  <2>2. CASE \E i \in Issuer : x = <<"issuer", i>>
    BY <1>1, <1>8, <2>2 DEF Off, EnabledRows
  <2>3. CASE \E v \in User, r \in LocalRole : x = <<"role", v, r>>
    <3>1. PICK v \in User, r \in LocalRole : x = <<"role", v, r>>
      BY <2>3
    <3>2. v \notin DOMAIN subjects \/ r \notin subjects[v].local_roles
      BY <1>8, <3>1, OffMeans
    <3>3. v \notin DOMAIN subjects' \/ r \notin subjects'[v].local_roles
      BY <1>5, <1>7, <3>2 DEF Subject, NoSubject
    <3>4. QED
      BY <3>1, <3>3 DEF Off
  <2>4. QED
    BY <2>1, <2>2, <2>3 DEF Switches
<1>9. Relies(s) = Relies(proc[p])
  <2>1. Relies(s) = {<<"issuer", TokenOf[u].issuer>>}
    BY <1>3, ReliesMeans
  <2>2. Relies(proc[p]) = {<<"issuer", TokenOf[u].issuer>>}
    BY <1>0, <1>1, ReliesMeans
  <2>3. QED
    BY <2>1, <2>2
<1>10. ASSUME NEW preview \in Foretold(p) PROVE OnTrack(s, preview)'
  <2>1. OnTrack(proc[p], preview)
    BY <1>1, TrackMoved DEF Idle
  <2>2. preview = PreviewSubjectAccess(Token(u), Subject(u), rules)
    BY <1>0, <1>1, <2>1 DEF OnTrack
  <2>3. subjects'[u] = Subject(u) /\ u \in DOMAIN subjects'
    BY <1>5
  <2>4. OnTrack(s, preview)' <=> preview = PreviewSubjectAccess(Token(u), subjects'[u], rules)
    BY <1>1, <1>3, <2>3 DEF OnTrack, Subject
  <2>5. QED
    BY <2>2, <2>3, <2>4
<1>11. QED
  BY <1>1, <1>3, <1>6, <1>8, <1>9, <1>10, ProcessStep DEF At

LEMMA PreviewOfActive ==
  ASSUME NEW u, NEW row \in SubjectColumns, row.status = "active"
  PROVE  /\ PreviewSubjectAccess(Token(u), row, rules).status = "active"
         /\ PreviewSubjectAccess(Token(u), row, rules).identity.local_roles = row.local_roles
<1>1. ApplySubjectRecord(Token(u), row).local_roles = row.local_roles
  BY DEF ApplySubjectRecord, Token
<1>2. QED
  BY <1>1 DEF PreviewSubjectAccess

\* What the rules that match add.
LEMMA PreviewOfApproved ==
  ASSUME IInv, NEW u, NEW row \in SubjectColumns,
         PreviewSubjectAccess(Token(u), row, rules).reason = "auto_approved"
  PROVE  /\ PreviewSubjectAccess(Token(u), row, rules).status = "active"
         /\ PreviewSubjectAccess(Token(u), row, rules).identity.local_roles
              = row.local_roles \cup MatchSubjectAutoApprovalRules(Token(u), rules).local_roles
         /\ MatchSubjectAutoApprovalRules(Token(u), rules).local_roles \subseteq LocalRole
<1>1. PICK m : m = MatchSubjectAutoApprovalRules(Token(u), rules)
  OBVIOUS
<1>2. m.local_roles \subseteq LocalRole
  <2>1. \A n \in DOMAIN rules : rules[n].local_roles \subseteq LocalRole
    BY AccessAssumption DEF IInv, Typed, TablesTyped
  <2>2. QED
    BY <1>1, <2>1 DEF MatchSubjectAutoApprovalRules
<1>3. row.status # "auto_approved"
  BY DEF SubjectColumns, Status
<1>4. PICK more : more = [row EXCEPT !.local_roles = @ \cup m.local_roles]
  OBVIOUS
<1>5. more.local_roles = row.local_roles \cup m.local_roles
  BY <1>4 DEF SubjectColumns
<1>6. ApplySubjectRecord(Token(u), more).local_roles = more.local_roles
  BY DEF ApplySubjectRecord, Token
<1>7. row.status = "pending" /\ m.names # {}
  BY <1>1, <1>3 DEF PreviewSubjectAccess
<1>8. /\ PreviewSubjectAccess(Token(u), row, rules).status = "active"
      /\ PreviewSubjectAccess(Token(u), row, rules).identity = ApplySubjectRecord(Token(u), more)
  BY <1>1, <1>4, <1>7 DEF PreviewSubjectAccess
<1>9. QED
  BY <1>1, <1>2, <1>5, <1>6, <1>8

LEMMA ReadSubjectStep ==
  ASSUME IInv, Observe, NEW p \in Client, ReadSubject(p)
  PROVE  Good
<1>1. PICK u, row : u = proc[p].user /\ row = Subject(u)
  OBVIOUS
<1>2. PICK s : s = [proc[p] EXCEPT !.step = IF row.status = "active" THEN "identified" ELSE "pending",
                                   !.roles = row.local_roles]
  OBVIOUS
<1>3. /\ proc[p].step = "seen" /\ p \in Proc /\ Goto(p, s) /\ UNCHANGED tables
      /\ u \in DOMAIN subjects /\ row.status # "disabled"
  BY <1>1, <1>2 DEF ReadSubject, At, Proc
<1>4. proc[p] \in RequestState
  BY <1>3, ByStep DEF IInv, Typed
<1>5. row \in SubjectColumns /\ row = subjects[u]
  BY <1>1, <1>3, <1>4, SubjectRow DEF RequestState, KnownUser, Subject
<1>6. /\ s \in RequestState /\ s.user = u /\ s.roles = row.local_roles
      /\ s.step = IF row.status = "active" THEN "identified" ELSE "pending"
  BY <1>1, <1>2, <1>4, <1>5 DEF RequestState, SubjectColumns
<1>7. ASSUME NEW x \in Relies(s) PROVE x \in Relies(proc[p]) \/ ~Off(x)
  <2>1. x \in {<<"subject", u>>, <<"issuer", TokenOf[u].issuer>>} \cup Asked(u, row.local_roles)
    BY <1>6, <1>7, ReliesMeans
  <2>2. <<"issuer", TokenOf[u].issuer>> \in Relies(proc[p])
    BY <1>1, <1>3, ReliesMeans
  <2>3. ~Off(<<"subject", u>>)
    BY <1>3, <1>5, OffMeans
  <2>4. \A r \in row.local_roles : ~Off(<<"role", u, r>>)
    BY <1>3, <1>5, OffMeans
  <2>5. QED
    BY <2>1, <2>2, <2>3, <2>4 DEF Asked
<1>8. ASSUME NEW preview \in Foretold(p) PROVE OnTrack(s, preview)
  <2>1. OnTrack(proc[p], preview)
    BY <1>3, TrackMoved DEF Idle
  <2>2. preview = PreviewSubjectAccess(Token(u), row, rules)
    BY <1>1, <1>3, <2>1 DEF OnTrack
  <2>3. CASE row.status = "active"
    BY <1>5, <1>6, <2>2, <2>3, PreviewOfActive DEF OnTrack
  <2>4. CASE row.status # "active"
    <3>1. row = [status |-> "pending", local_roles |-> row.local_roles]
      BY <1>3, <1>5, <2>4 DEF SubjectColumns, Status
    <3>2. QED
      BY <1>6, <2>2, <2>4, <3>1 DEF OnTrack
  <2>5. QED
    BY <2>3, <2>4
<1>9. s \in ProcState /\ s.step \in {"identified", "pending"}
  BY <1>6 DEF ProcState
<1>10. QED
  BY <1>3, <1>7, <1>8, <1>9, ReadingStep

LEMMA MatchRulesStep ==
  ASSUME IInv, Observe, NEW p \in Client, MatchRules(p)
  PROVE  Good
<1>1. PICK u, row, more, preview :
        /\ u = proc[p].user
        /\ row = [status |-> "pending", local_roles |-> proc[p].roles]
        /\ more = MatchSubjectAutoApprovalRules(Token(u), rules).local_roles
        /\ preview = PreviewSubjectAccess(Token(u), row, rules)
  OBVIOUS
<1>2. PICK s : s = [ step |-> "matched", user |-> u, want |-> proc[p].want,
                     roles |-> preview.identity.local_roles, asks |-> Asked(u, more) ]
  OBVIOUS
<1>3. /\ proc[p].step = "pending" /\ p \in Proc /\ Goto(p, s) /\ UNCHANGED tables
      /\ preview.reason = "auto_approved"
  BY <1>1, <1>2 DEF MatchRules, At, Proc
<1>4. proc[p] \in RequestState
  BY <1>3, ByStep DEF IInv, Typed
<1>5. row \in SubjectColumns /\ row.local_roles = proc[p].roles
  BY <1>1, <1>4 DEF RequestState, SubjectColumns, Status
<1>6. /\ preview.status = "active"
      /\ preview.identity.local_roles = proc[p].roles \cup more
      /\ more \subseteq LocalRole
  BY <1>1, <1>3, <1>5, PreviewOfApproved
<1>7. /\ s.step = "matched" /\ s.user = u /\ s.roles = proc[p].roles \cup more
      /\ s.asks = Asked(u, more) /\ s \in MatchedState
  BY <1>1, <1>2, <1>4, <1>6 DEF RequestState, MatchedState, KnownUser, Asked, Switches
<1>8. Relies(s) \subseteq Relies(proc[p])
  <2>1. Relies(s) = {<<"subject", u>>, <<"issuer", TokenOf[u].issuer>>}
                      \cup (Asked(u, proc[p].roles \cup more) \ Asked(u, more))
    BY <1>7, ReliesMeans
  <2>2. Relies(proc[p]) = {<<"subject", u>>, <<"issuer", TokenOf[u].issuer>>}
                            \cup Asked(u, proc[p].roles)
    BY <1>1, <1>3, ReliesMeans
  <2>3. Asked(u, proc[p].roles \cup more) = Asked(u, proc[p].roles) \cup Asked(u, more)
    BY DEF Asked
  <2>4. QED
    BY <2>1, <2>2, <2>3
<1>9. ASSUME NEW said \in Foretold(p) PROVE OnTrack(s, said)
  <2>1. OnTrack(proc[p], said)
    BY <1>3, TrackMoved DEF Idle
  <2>2. said = preview
    BY <1>1, <1>3, <2>1 DEF OnTrack
  <2>3. QED
    BY <1>6, <1>7, <2>2 DEF OnTrack
<1>10. s \in ProcState
  BY <1>7 DEF ProcState
<1>11. QED
  BY <1>3, <1>7, <1>8, <1>9, <1>10, ReadingStep

\* Writing a row can only switch on its subject, and the roles it has.
LEMMA SubjectRewritten ==
  ASSUME IInv, NEW u \in DOMAIN subjects, NEW row \in SubjectColumns,
         subjects' = [subjects EXCEPT ![u] = row],
         UNCHANGED <<auth_issuers, authz_bindings, rules>>
  PROVE  /\ TablesTyped'
         /\ DOMAIN subjects' = DOMAIN subjects /\ subjects'[u] = row
         /\ \A x \in Switches : Off(x) /\ ~Off(x)' =>
              \/ x = <<"subject", u>> /\ row.status # "disabled"
              \/ x \in Asked(u, row.local_roles)
<1>1. subjects \in [DOMAIN subjects -> SubjectColumns]
  BY DEF IInv, Typed, TablesTyped
<1>2. /\ DOMAIN subjects' = DOMAIN subjects
      /\ subjects' \in [DOMAIN subjects -> SubjectColumns]
      /\ subjects'[u] = row
      /\ \A v \in DOMAIN subjects \ {u} : subjects'[v] = subjects[v]
  BY <1>1
<1>3. TablesTyped'
  BY <1>2 DEF IInv, Typed, TablesTyped
<1>4. ASSUME NEW x \in Switches, Off(x), ~Off(x)'
      PROVE  \/ x = <<"subject", u>> /\ row.status # "disabled"
             \/ x \in Asked(u, row.local_roles)
  <2>1. CASE \E v \in User : x = <<"subject", v>>
    BY <1>2, <1>4, <2>1 DEF Off
  <2>2. CASE \E i \in Issuer : x = <<"issuer", i>>
    BY <1>4, <2>2 DEF Off, EnabledRows
  <2>3. CASE \E v \in User, r \in LocalRole : x = <<"role", v, r>>
    <3>1. PICK v \in User, r \in LocalRole : x = <<"role", v, r>>
      BY <2>3
    <3>2. v \notin DOMAIN subjects \/ r \notin subjects[v].local_roles
      BY <1>4, <3>1, OffMeans
    <3>3. v \in DOMAIN subjects' /\ r \in subjects'[v].local_roles
      BY <1>4, <3>1 DEF Off
    <3>4. v = u /\ r \in row.local_roles
      BY <1>2, <3>2, <3>3
    <3>5. QED
      BY <3>1, <3>4 DEF Asked
  <2>4. QED
    BY <2>1, <2>2, <2>3 DEF Switches
<1>5. QED
  BY <1>2, <1>3, <1>4

LEMMA ResolveStep ==
  ASSUME IInv, Observe, NEW p \in Client, resolveBearerSubject(p)
  PROVE  Good
<1>1. PICK u, row, s :
        /\ u = proc[p].user
        /\ row = [status |-> "active", local_roles |-> proc[p].roles]
        /\ s = Request("approved", u, proc[p].want, {})
  OBVIOUS
<1>2. /\ proc[p].step = "matched" /\ p \in Proc /\ Goto(p, s)
      /\ u \in DOMAIN subjects /\ subjects' = [subjects EXCEPT ![u] = row]
      /\ UNCHANGED <<auth_issuers, authz_bindings, rules>>
  BY <1>1 DEF resolveBearerSubject, At, Proc
<1>3. proc[p] \in MatchedState
  BY <1>2, ByStep DEF IInv, Typed
<1>4. /\ s \in RequestState /\ s.step = "approved" /\ s.user = u /\ s.roles = {}
      /\ row \in SubjectColumns /\ row.local_roles = proc[p].roles
  BY <1>1, <1>3 DEF Request, RequestState, MatchedState, SubjectColumns, Status
<1>5. Relies(proc[p]) = {<<"subject", u>>, <<"issuer", TokenOf[u].issuer>>}
                          \cup (Asked(u, proc[p].roles) \ proc[p].asks)
  BY <1>1, <1>2, ReliesMeans
<1>6. Relies(s) \subseteq Relies(proc[p])
  <2>1. Relies(s) = {<<"subject", u>>, <<"issuer", TokenOf[u].issuer>>} \cup Asked(u, {})
    BY <1>4, ReliesMeans
  <2>2. Asked(u, {}) = {}
    BY DEF Asked
  <2>3. QED
    BY <1>5, <2>1, <2>2
<1>7. /\ TablesTyped'
      /\ DOMAIN subjects' = DOMAIN subjects /\ subjects'[u] = row
      /\ \A x \in Switches : Off(x) /\ ~Off(x)' =>
           x = <<"subject", u>> \/ x \in Asked(u, row.local_roles)
  BY <1>2, <1>4, SubjectRewritten
<1>8. \A x \in Switches : Off(x) /\ ~Off(x)' => AsksFor(p, x) \/ x \in Relies(proc[p])
  <2>1. "asks" \in DOMAIN proc[p]
    BY <1>3 DEF MatchedState
  <2>2. QED
    BY <1>4, <1>5, <1>7, <2>1 DEF AsksFor
<1>9. ASSUME NEW preview \in Foretold(p) PROVE OnTrack(s, preview)'
  <2>1. OnTrack(proc[p], preview)
    BY <1>2, TrackMoved DEF Idle
  <2>2. preview.status = "active" /\ preview.identity.local_roles = row.local_roles
    BY <1>2, <1>4, <2>1 DEF OnTrack
  <2>3. QED
    BY <1>4, <1>7, <2>2 DEF OnTrack
<1>10. s \in ProcState
  BY <1>4 DEF ProcState
<1>11. QED
  BY <1>2, <1>4, <1>6, <1>7, <1>8, <1>9, <1>10, ProcessStep DEF At

LEMMA ReReadSubjectStep ==
  ASSUME IInv, Observe, NEW p \in Client, ReReadSubject(p)
  PROVE  Good
<1>1. PICK u, row : u = proc[p].user /\ row = subjects[u]
  OBVIOUS
<1>2. PICK s : s = [proc[p] EXCEPT !.step = "identified", !.roles = row.local_roles]
  OBVIOUS
<1>3. /\ proc[p].step = "approved" /\ p \in Proc /\ Goto(p, s) /\ UNCHANGED tables
      /\ u \in DOMAIN subjects /\ row.status = "active"
  BY <1>1, <1>2 DEF ReReadSubject, At, Proc
<1>4. proc[p] \in RequestState
  BY <1>3, ByStep DEF IInv, Typed
<1>5. row \in SubjectColumns
  BY <1>1, <1>3 DEF IInv, Typed, TablesTyped
<1>6. /\ s \in RequestState /\ s.step = "identified" /\ s.user = u /\ s.roles = row.local_roles
  BY <1>1, <1>2, <1>4, <1>5 DEF RequestState, SubjectColumns
<1>7. ASSUME NEW x \in Relies(s) PROVE x \in Relies(proc[p]) \/ ~Off(x)
  <2>1. x \in {<<"subject", u>>, <<"issuer", TokenOf[u].issuer>>} \cup Asked(u, row.local_roles)
    BY <1>6, <1>7, ReliesMeans
  <2>2. {<<"subject", u>>, <<"issuer", TokenOf[u].issuer>>} \subseteq Relies(proc[p])
    BY <1>1, <1>3, ReliesMeans
  <2>3. \A r \in row.local_roles : ~Off(<<"role", u, r>>)
    BY <1>1, <1>3, OffMeans
  <2>4. QED
    BY <2>1, <2>2, <2>3 DEF Asked
<1>8. ASSUME NEW preview \in Foretold(p) PROVE OnTrack(s, preview)
  <2>1. OnTrack(proc[p], preview)
    BY <1>3, TrackMoved DEF Idle
  <2>2. QED
    BY <1>1, <1>3, <1>6, <2>1 DEF OnTrack
<1>9. s \in ProcState
  BY <1>6 DEF ProcState
<1>10. QED
  BY <1>3, <1>6, <1>7, <1>8, <1>9, ReadingStep

LEMMA GrantStep ==
  ASSUME IInv, Observe, NEW p \in Client, Grant(p)
  PROVE  Good
<1>1. PICK s : s = [proc[p] EXCEPT !.step = "granted"]
  OBVIOUS
<1>2. proc[p].step = "identified" /\ p \in Proc /\ Goto(p, s) /\ UNCHANGED tables
  BY <1>1 DEF Grant, At, Proc
<1>3. proc[p] \in RequestState
  BY <1>2, ByStep DEF IInv, Typed
<1>4. /\ s \in RequestState /\ s.step = "granted"
      /\ s.user = proc[p].user /\ s.roles = proc[p].roles
  BY <1>1, <1>3 DEF RequestState
<1>5. Relies(s) = Relies(proc[p])
  <2>1. PICK u, roles : u = proc[p].user /\ roles = proc[p].roles
    OBVIOUS
  <2>2. Relies(s) = {<<"subject", u>>, <<"issuer", TokenOf[u].issuer>>} \cup Asked(u, roles)
    BY <1>4, <2>1, ReliesMeans
  <2>3. Relies(proc[p]) = {<<"subject", u>>, <<"issuer", TokenOf[u].issuer>>} \cup Asked(u, roles)
    BY <1>2, <2>1, ReliesMeans
  <2>4. QED
    BY <2>2, <2>3
<1>6. ASSUME NEW preview \in Foretold(p) PROVE OnTrack(s, preview)
  <2>1. OnTrack(proc[p], preview)
    BY <1>2, TrackMoved DEF Idle
  <2>2. QED
    BY <1>2, <1>4, <2>1 DEF OnTrack
<1>7. s \in ProcState
  BY <1>4 DEF ProcState
<1>8. QED
  BY <1>2, <1>4, <1>5, <1>6, <1>7, ReadingStep DEF At

-----------------------------------------------------------------------------
(***************************************************************************)
(* Commands of several calls                                               *)
(***************************************************************************)

\* An operator is no request, so nothing is foretold of it.
LEMMA OperatorIsNoClient ==
  ASSUME NEW p \in Operator
  PROVE  p \in Proc /\ p \notin Client
BY AccessAssumption DEF Proc

\* Reading a subject's row to change it.  What is not asked for is as it was read.
LEMMA SubjectReadStep ==
  ASSUME IInv, Observe, NEW p \in Operator, NEW u \in DOMAIN subjects,
         NEW status \in Status, NEW roles \in SUBSET LocalRole, NEW asks \in SUBSET Switches,
         Goto(p, SubjectChange(u, status, roles, asks)), UNCHANGED tables,
         status = subjects[u].status \/ <<"subject", u>> \in asks,
         roles = subjects[u].local_roles \/ Asked(u, roles) \subseteq asks
  PROVE  Good
<1>1. PICK s : s = SubjectChange(u, status, roles, asks)
  OBVIOUS
<1>2. u \in User
  BY DEF IInv, Typed, TablesTyped
<1>3. /\ s \in SubjectReadState /\ s.step = "subject_read" /\ s.user = u
      /\ s.status = status /\ s.roles = roles /\ s.asks = asks
  BY <1>1, <1>2 DEF SubjectChange, SubjectReadState
<1>4. ASSUME NEW x \in Relies(s) PROVE ~Off(x)
  <2>1. Relies(s) = ((IF status = "disabled" THEN {} ELSE {<<"subject", u>>})
                       \cup Asked(u, roles)) \ asks
    BY <1>3, ReliesMeans
  <2>2. CASE x = <<"subject", u>> /\ status = subjects[u].status /\ status # "disabled"
    BY <2>2, OffMeans
  <2>3. CASE x \in Asked(u, roles) /\ roles = subjects[u].local_roles
    <3>1. \A r \in roles : ~Off(<<"role", u, r>>)
      BY <2>3, OffMeans
    <3>2. QED
      BY <2>3, <3>1 DEF Asked
  <2>4. QED
    BY <1>4, <2>1, <2>2, <2>3
<1>5. s \in ProcState
  BY <1>3 DEF ProcState
<1>6. QED
  BY <1>1, <1>3, <1>4, <1>5, OperatorIsNoClient, ReadingStep

LEMMA ApproveSubjectStep ==
  ASSUME IInv, Observe, NEW p \in Operator, NEW u \in User, NEW replace \in BOOLEAN,
         NEW roles \in SUBSET LocalRole, ApproveSubject(p, u, replace, roles)
  PROVE  Good
<1>1. PICK kept, asks :
        /\ kept = IF replace THEN roles ELSE subjects[u].local_roles
        /\ asks = {<<"subject", u>>} \cup IF replace THEN Asked(u, roles) ELSE {}
  OBVIOUS
<1>2. u \in DOMAIN subjects /\ Goto(p, SubjectChange(u, "active", kept, asks)) /\ UNCHANGED tables
  BY <1>1 DEF ApproveSubject
<1>3. kept \in SUBSET LocalRole
  BY <1>1, <1>2 DEF IInv, Typed, TablesTyped, SubjectColumns
<1>4. asks \in SUBSET Switches
  BY <1>1 DEF Asked, Switches
<1>5. kept = subjects[u].local_roles \/ Asked(u, kept) \subseteq asks
  BY <1>1
<1>6. "active" \in Status /\ <<"subject", u>> \in asks
  BY <1>1 DEF Status
<1>7. QED
  BY <1>2, <1>3, <1>4, <1>5, <1>6, SubjectReadStep

LEMMA UpdateSubjectStep ==
  ASSUME IInv, Observe, NEW p \in Operator, NEW u \in User, NEW change \in BOOLEAN,
         NEW status \in Status, NEW replace \in BOOLEAN, NEW roles \in SUBSET LocalRole,
         UpdateSubject(p, u, change, status, replace, roles)
  PROVE  Good
<1>1. PICK next, kept, asks :
        /\ next = IF change THEN status ELSE subjects[u].status
        /\ kept = IF replace THEN roles ELSE subjects[u].local_roles
        /\ asks = (IF change THEN {<<"subject", u>>} ELSE {})
                    \cup IF replace THEN Asked(u, roles) ELSE {}
  OBVIOUS
<1>2. u \in DOMAIN subjects /\ Goto(p, SubjectChange(u, next, kept, asks)) /\ UNCHANGED tables
  BY <1>1 DEF UpdateSubject
<1>3. subjects[u].status \in Status /\ subjects[u].local_roles \subseteq LocalRole
  BY <1>2 DEF IInv, Typed, TablesTyped, SubjectColumns
<1>4. next \in Status /\ kept \in SUBSET LocalRole
  BY <1>1, <1>3
<1>5. asks \in SUBSET Switches
  BY <1>1 DEF Asked, Switches
<1>6. kept = subjects[u].local_roles \/ Asked(u, kept) \subseteq asks
  BY <1>1
<1>7. next = subjects[u].status \/ <<"subject", u>> \in asks
  BY <1>1
<1>8. QED
  BY <1>2, <1>4, <1>5, <1>6, <1>7, SubjectReadStep

\* What nobody relies on any more, and nothing is foretold of: an ended command.
LEMMA CommandEnds ==
  ASSUME IInv, Observe, NEW p \in Operator, Goto(p, Idle), TablesTyped',
         DOMAIN authz_bindings' \subseteq DOMAIN authz_bindings,
         \A x \in Switches : Off(x) /\ ~Off(x)' => AsksFor(p, x) \/ x \in Relies(proc[p]),
         At(p, "deleting") => proc[p].refs = {} \/ UNCHANGED auth_issuers
  PROVE  Good
<1>1. Idle \in ProcState /\ Idle.step = "idle"
  BY DEF ProcState, Idle
<1>2. Relies(Idle) = {}
  BY <1>1, ReliesMeans
<1>3. QED
  BY <1>1, <1>2, OperatorIsNoClient, ProcessStep

LEMMA UpdateSubjectApprovalStep ==
  ASSUME IInv, Observe, NEW p \in Operator, UpdateSubjectApproval(p)
  PROVE  Good
<1>1. PICK u, row : u = proc[p].user /\ row = [status |-> proc[p].status, local_roles |-> proc[p].roles]
  OBVIOUS
<1>2. /\ proc[p].step = "subject_read" /\ p \in Proc /\ Goto(p, Idle)
      /\ u \in DOMAIN subjects /\ subjects' = [subjects EXCEPT ![u] = row]
      /\ UNCHANGED <<auth_issuers, authz_bindings, rules>>
  BY <1>1 DEF UpdateSubjectApproval, At, Proc
<1>3. proc[p] \in SubjectReadState
  BY <1>2, ByStep DEF IInv, Typed
<1>4. /\ row \in SubjectColumns
      /\ row.status = proc[p].status /\ row.local_roles = proc[p].roles
  BY <1>1, <1>3 DEF SubjectReadState, SubjectColumns
<1>5. Relies(proc[p]) = ((IF row.status = "disabled" THEN {} ELSE {<<"subject", u>>})
                           \cup Asked(u, row.local_roles)) \ proc[p].asks
  BY <1>1, <1>2, <1>4, ReliesMeans
<1>6. /\ TablesTyped'
      /\ \A x \in Switches : Off(x) /\ ~Off(x)' =>
           \/ x = <<"subject", u>> /\ row.status # "disabled"
           \/ x \in Asked(u, row.local_roles)
  BY <1>2, <1>4, SubjectRewritten
<1>7. \A x \in Switches : Off(x) /\ ~Off(x)' => AsksFor(p, x) \/ x \in Relies(proc[p])
  <2>1. "asks" \in DOMAIN proc[p]
    BY <1>3 DEF SubjectReadState
  <2>2. QED
    BY <1>5, <1>6, <2>1 DEF AsksFor
<1>8. QED
  BY <1>2, <1>6, <1>7, CommandEnds DEF At

\* Reading an issuer to change it, or finding that there is none.
LEMMA IssuerReadStep ==
  ASSUME IInv, Observe, NEW p \in Operator, NEW i \in Issuer, NEW enabled \in BOOLEAN,
         NEW asks \in SUBSET Switches,
         Goto(p, IssuerChange(i, enabled, asks)), UNCHANGED tables,
         ~enabled \/ i \in EnabledRows(auth_issuers) \/ <<"issuer", i>> \in asks
  PROVE  Good
<1>1. PICK s : s = IssuerChange(i, enabled, asks)
  OBVIOUS
<1>2. /\ s \in IssuerReadState /\ s.step = "issuer_read" /\ s.issuer = i
      /\ s.enabled = enabled /\ s.asks = asks
  BY <1>1 DEF IssuerChange, IssuerReadState
<1>3. ASSUME NEW x \in Relies(s) PROVE ~Off(x)
  <2>1. Relies(s) = (IF enabled THEN {<<"issuer", i>>} ELSE {}) \ asks
    BY <1>2, ReliesMeans
  <2>2. x = <<"issuer", i>> /\ i \in EnabledRows(auth_issuers)
    BY <1>3, <2>1
  <2>3. QED
    BY <2>2, OffMeans
<1>4. s \in ProcState
  BY <1>2 DEF ProcState
<1>5. QED
  BY <1>1, <1>2, <1>3, <1>4, OperatorIsNoClient, ReadingStep

LEMMA IssuerCommandStep ==
  ASSUME IInv, Observe, NEW p \in Operator, NEW i \in Issuer, NEW change \in BOOLEAN,
         NEW enabled \in BOOLEAN,
         \/ handleAdminAuthIssuerCreate(p, i, enabled)
         \/ handleAdminAuthIssuerUpdate(p, i, change, enabled)
  PROVE  Good
<1>1. <<"issuer", i>> \in Switches
  BY DEF Switches
<1>2. CASE handleAdminAuthIssuerCreate(p, i, enabled)
  <2>1. PICK asks : asks = {<<"issuer", i>>}
    OBVIOUS
  <2>2. QED
    BY <1>1, <1>2, <2>1, IssuerReadStep DEF handleAdminAuthIssuerCreate
<1>3. CASE handleAdminAuthIssuerUpdate(p, i, change, enabled)
  <2>1. PICK next, asks : /\ next = IF change THEN enabled ELSE auth_issuers[i].enabled
                          /\ asks = IF change THEN {<<"issuer", i>>} ELSE {}
    OBVIOUS
  <2>2. i \in DOMAIN auth_issuers /\ Goto(p, IssuerChange(i, next, asks)) /\ UNCHANGED tables
    BY <1>3, <2>1 DEF handleAdminAuthIssuerUpdate
  <2>3. next \in BOOLEAN /\ asks \in SUBSET Switches
    BY <1>1, <2>1, <2>2 DEF IInv, Typed, TablesTyped
  <2>4. ~next \/ i \in EnabledRows(auth_issuers) \/ <<"issuer", i>> \in asks
    BY <2>1, <2>2 DEF EnabledRows
  <2>5. QED
    BY <2>2, <2>3, <2>4, IssuerReadStep
<1>4. QED
  BY <1>2, <1>3

\* Writing an issuer's row can only switch on that issuer, if it is enabled there.
LEMMA IssuerWritten ==
  ASSUME IInv, NEW i \in Issuer, NEW enabled \in BOOLEAN,
         auth_issuers' = Put(auth_issuers, i, [enabled |-> enabled]),
         UNCHANGED <<authz_bindings, subjects, rules>>
  PROVE  /\ TablesTyped'
         /\ \A x \in Switches : Off(x) /\ ~Off(x)' => x = <<"issuer", i>> /\ enabled
<1>1. auth_issuers \in [DOMAIN auth_issuers -> [enabled : BOOLEAN]]
  BY DEF IInv, Typed, TablesTyped
<1>2. /\ DOMAIN auth_issuers' = DOMAIN auth_issuers \cup {i}
      /\ auth_issuers' \in [DOMAIN auth_issuers \cup {i} -> [enabled : BOOLEAN]]
      /\ auth_issuers'[i] = [enabled |-> enabled]
      /\ \A j \in DOMAIN auth_issuers \ {i} : auth_issuers'[j] = auth_issuers[j]
  BY <1>1 DEF Put
<1>3. TablesTyped'
  BY <1>2 DEF IInv, Typed, TablesTyped
<1>4. ASSUME NEW x \in Switches, Off(x), ~Off(x)'
      PROVE  x = <<"issuer", i>> /\ enabled
  <2>1. CASE \E v \in User : x = <<"subject", v>>
    BY <1>4, <2>1 DEF Off
  <2>2. CASE \E j \in Issuer : x = <<"issuer", j>>
    <3>1. PICK j \in Issuer : x = <<"issuer", j>>
      BY <2>2
    <3>2. j \notin EnabledRows(auth_issuers)
      BY <1>4, <3>1, OffMeans
    <3>3. j \in DOMAIN auth_issuers' /\ auth_issuers'[j].enabled
      BY <1>4, <3>1 DEF Off, EnabledRows
    <3>4. j = i /\ enabled
      BY <1>2, <3>2, <3>3 DEF EnabledRows
    <3>5. QED
      BY <3>1, <3>4
  <2>3. CASE \E v \in User, r \in LocalRole : x = <<"role", v, r>>
    BY <1>4, <2>3 DEF Off
  <2>4. QED
    BY <2>1, <2>2, <2>3 DEF Switches
<1>5. QED
  BY <1>3, <1>4

LEMMA UpsertAuthIssuerStep ==
  ASSUME IInv, Observe, NEW p \in Operator, UpsertAuthIssuer(p)
  PROVE  Good
<1>1. PICK i, enabled : i = proc[p].issuer /\ enabled = proc[p].enabled
  OBVIOUS
<1>2. /\ proc[p].step = "issuer_read" /\ p \in Proc /\ Goto(p, Idle)
      /\ auth_issuers' = Put(auth_issuers, i, [enabled |-> enabled])
      /\ UNCHANGED <<authz_bindings, subjects, rules>>
  BY <1>1 DEF UpsertAuthIssuer, At, Proc
<1>3. proc[p] \in IssuerReadState
  BY <1>2, ByStep DEF IInv, Typed
<1>4. i \in Issuer /\ enabled \in BOOLEAN /\ "asks" \in DOMAIN proc[p]
  BY <1>1, <1>3 DEF IssuerReadState
<1>5. Relies(proc[p]) = (IF enabled THEN {<<"issuer", i>>} ELSE {}) \ proc[p].asks
  BY <1>1, <1>2, ReliesMeans
<1>6. /\ TablesTyped'
      /\ \A x \in Switches : Off(x) /\ ~Off(x)' => x = <<"issuer", i>> /\ enabled
  BY <1>2, <1>4, IssuerWritten
<1>7. \A x \in Switches : Off(x) /\ ~Off(x)' => AsksFor(p, x) \/ x \in Relies(proc[p])
  BY <1>4, <1>5, <1>6 DEF AsksFor
<1>8. QED
  BY <1>2, <1>6, <1>7, CommandEnds DEF At

\* Every binding that names the issuer is among those that refer to it.
LEMMA IssuerDeleteStep ==
  ASSUME IInv, Observe, NEW p \in Operator, NEW i \in Issuer, NEW force \in BOOLEAN,
         handleAdminAuthIssuerDelete(p, i, force)
  PROVE  Good
<1>1. PICK refs, listed :
        /\ refs = References(authz_bindings, i)
        /\ listed = {b \in DOMAIN authz_bindings :
                       i \in bindingPrincipalIssuer(authz_bindings[b].principal)}
  OBVIOUS
<1>2. PICK s : s = [step |-> "deleting", issuer |-> i, refs |-> refs, listed |-> listed]
  OBVIOUS
<1>3. Goto(p, s) /\ UNCHANGED tables
  BY <1>1, <1>2 DEF handleAdminAuthIssuerDelete
<1>4. listed \subseteq refs /\ refs \subseteq BindingId
  BY <1>1 DEF References, bindingReferencesIssuer, IInv, Typed, TablesTyped
<1>5. s \in ProcState /\ s.step = "deleting" /\ s.listed = listed /\ s.refs = refs
  BY <1>2, <1>4 DEF DeletingState, ProcState
<1>6. Relies(s) = {}
  BY <1>5, ReliesMeans
<1>7. QED
  BY <1>3, <1>4, <1>5, <1>6, OperatorIsNoClient, ReadingStep

\* Removing bindings switches nothing on.
LEMMA BindingRemoved ==
  ASSUME IInv, NEW b, authz_bindings' = Remove(authz_bindings, b),
         UNCHANGED <<auth_issuers, subjects, rules>>
  PROVE  /\ TablesTyped'
         /\ DOMAIN authz_bindings' = DOMAIN authz_bindings \ {b}
         /\ \A x : Off(x)' <=> Off(x)
<1>1. /\ DOMAIN authz_bindings' = DOMAIN authz_bindings \ {b}
      /\ \A c \in DOMAIN authz_bindings \ {b} : authz_bindings'[c] = authz_bindings[c]
  BY DEF Remove
<1>2. TablesTyped'
  BY <1>1 DEF IInv, Typed, TablesTyped
<1>3. QED
  BY <1>1, <1>2 DEF Off, EnabledRows

LEMMA DeleteReferencedStep ==
  ASSUME IInv, Observe, NEW p \in Operator, NEW b \in BindingId, DeleteReferencedBinding(p, b)
  PROVE  Good
<1>1. PICK s : s = [proc[p] EXCEPT !.refs = @ \ {b}]
  OBVIOUS
<1>2. /\ proc[p].step = "deleting" /\ p \in Proc /\ Goto(p, s)
      /\ authz_bindings' = Remove(authz_bindings, b)
      /\ UNCHANGED <<auth_issuers, subjects, rules>>
  BY <1>1 DEF DeleteReferencedBinding, At, Proc
<1>3. proc[p] \in DeletingState
  BY <1>2, ByStep DEF IInv, Typed
<1>4. /\ s \in DeletingState /\ s.step = "deleting"
      /\ s.refs = proc[p].refs \ {b} /\ s.listed = proc[p].listed
  BY <1>1, <1>3 DEF DeletingState
<1>5. /\ TablesTyped'
      /\ DOMAIN authz_bindings' = DOMAIN authz_bindings \ {b}
      /\ \A x : Off(x)' <=> Off(x)
  BY <1>2, BindingRemoved
<1>6. proc[p].listed \cap DOMAIN authz_bindings \subseteq proc[p].refs
  BY <1>2 DEF IInv, ListedInHand, At
<1>7. s.listed \cap DOMAIN authz_bindings' \subseteq s.refs
  BY <1>4, <1>5, <1>6
<1>8. s \in ProcState /\ Relies(s) = {}
  BY <1>4, ReliesMeans DEF ProcState
<1>9. QED
  BY <1>2, <1>4, <1>5, <1>7, <1>8, OperatorIsNoClient, ProcessStep

LEMMA DeleteAuthIssuerStep ==
  ASSUME IInv, Observe, NEW p \in Operator, DeleteAuthIssuer(p)
  PROVE  Good
<1>1. PICK i : i = proc[p].issuer
  OBVIOUS
<1>2. /\ Goto(p, Idle) /\ proc[p].refs = {}
      /\ auth_issuers' = Remove(auth_issuers, i)
      /\ UNCHANGED <<authz_bindings, subjects, rules>>
  BY <1>1 DEF DeleteAuthIssuer
<1>3. /\ DOMAIN auth_issuers' = DOMAIN auth_issuers \ {i}
      /\ auth_issuers' \in [DOMAIN auth_issuers \ {i} -> [enabled : BOOLEAN]]
      /\ \A j \in DOMAIN auth_issuers \ {i} : auth_issuers'[j] = auth_issuers[j]
  BY <1>2 DEF Remove, IInv, Typed, TablesTyped
<1>4. TablesTyped'
  BY <1>2, <1>3 DEF IInv, Typed, TablesTyped
<1>5. ASSUME NEW x \in Switches, Off(x) PROVE Off(x)'
  <2>1. CASE \E v \in User : x = <<"subject", v>>
    BY <1>2, <1>5, <2>1 DEF Off
  <2>2. CASE \E j \in Issuer : x = <<"issuer", j>>
    BY <1>3, <1>5, <2>2 DEF Off
  <2>3. CASE \E v \in User, r \in LocalRole : x = <<"role", v, r>>
    BY <1>2, <1>5, <2>3 DEF Off
  <2>4. QED
    BY <2>1, <2>2, <2>3 DEF Switches
<1>6. QED
  BY <1>2, <1>4, <1>5, CommandEnds

LEMMA RequestSteps ==
  ASSUME IInv, Observe, NEW p \in Client, RequestStep(p)
  PROVE  Good
<1>1. CASE \E u \in User, w \in Wanted : authenticateAdminRequest(p, u, w)
  BY <1>1, AuthenticateStep
<1>2. QED
  BY <1>1, UpsertSeenStep, ReadSubjectStep, MatchRulesStep, ResolveStep, ReReadSubjectStep,
     GrantStep DEF RequestStep

LEMMA CommandSteps ==
  ASSUME IInv, Observe, NEW p \in Operator, CommandStep(p)
  PROVE  Good
<1>1. CASE \E u \in User, roles \in SUBSET LocalRole, replace \in BOOLEAN :
             ApproveSubject(p, u, replace, roles)
  BY <1>1, ApproveSubjectStep
<1>2. CASE \E u \in User, roles \in SUBSET LocalRole, c, replace \in BOOLEAN, s \in Status :
             UpdateSubject(p, u, c, s, replace, roles)
  BY <1>2, UpdateSubjectStep
<1>3. CASE \E i \in Issuer, c, e \in BOOLEAN :
             handleAdminAuthIssuerCreate(p, i, e) \/ handleAdminAuthIssuerUpdate(p, i, c, e)
  BY <1>3, IssuerCommandStep
<1>4. CASE \E i \in Issuer, f \in BOOLEAN : handleAdminAuthIssuerDelete(p, i, f)
  BY <1>4, IssuerDeleteStep
<1>5. CASE \E b \in BindingId : DeleteReferencedBinding(p, b)
  BY <1>5, DeleteReferencedStep
<1>6. CASE UpdateSubjectApproval(p) \/ UpsertAuthIssuer(p) \/ DeleteAuthIssuer(p)
  BY <1>6, UpdateSubjectApprovalStep, UpsertAuthIssuerStep, DeleteAuthIssuerStep
<1>7. QED
  BY <1>1, <1>2, <1>3, <1>4, <1>5, <1>6 DEF CommandStep

LEMMA FailStep ==
  ASSUME IInv, Observe, NEW p \in Proc, Fail(p)
  PROVE  Good
BY EndingStep DEF Fail

-----------------------------------------------------------------------------
(***************************************************************************)
(* Commands of one call                                                    *)
(***************************************************************************)

LEMMA SubjectCommandStep ==
  ASSUME IInv, Observe, NEW u \in User, NEW status \in Status,
         SetSubjectStatus(u, status) \/ DeleteSubject(u)
  PROVE  Good
<1>1. subjects \in [DOMAIN subjects -> SubjectColumns] /\ DOMAIN subjects \subseteq User
  BY DEF IInv, Typed, TablesTyped
<1>2. UNCHANGED <<auth_issuers, authz_bindings, rules, proc>>
  BY DEF SetSubjectStatus, DeleteSubject
<1>3. DOMAIN subjects' \subseteq User /\ subjects' \in [DOMAIN subjects' -> SubjectColumns]
  <2>1. CASE SetSubjectStatus(u, status)
    <3>1. PICK row : row = [subjects[u] EXCEPT !.status = status]
      OBVIOUS
    <3>2. u \in DOMAIN subjects /\ subjects' = [subjects EXCEPT ![u] = row]
      BY <2>1, <3>1 DEF SetSubjectStatus
    <3>3. row \in SubjectColumns
      BY <1>1, <3>1, <3>2 DEF SubjectColumns
    <3>4. QED
      BY <1>1, <3>2, <3>3
  <2>2. CASE DeleteSubject(u)
    BY <1>1, <2>2 DEF DeleteSubject, Remove
  <2>3. QED
    BY <2>1, <2>2
<1>4. TablesTyped'
  BY <1>2, <1>3 DEF IInv, Typed, TablesTyped
<1>5. QED
  BY <1>2, <1>4, OneCallStep

LEMMA RuleCommandStep ==
  ASSUME IInv, Observe, NEW n \in RuleName, NEW row \in NewRule,
         UpsertSubjectAutoApprovalRule(n, row) \/ DeleteSubjectAutoApprovalRule(n)
  PROVE  Good
<1>1. UNCHANGED <<auth_issuers, authz_bindings, subjects, proc>>
  BY DEF UpsertSubjectAutoApprovalRule, DeleteSubjectAutoApprovalRule
<1>2. DOMAIN rules \subseteq RuleName /\ \A m \in DOMAIN rules : rules[m] \in NewRule
  BY DEF IInv, Typed, TablesTyped
<1>3. DOMAIN rules' \subseteq RuleName /\ \A m \in DOMAIN rules' : rules'[m] \in NewRule
  BY <1>2 DEF UpsertSubjectAutoApprovalRule, DeleteSubjectAutoApprovalRule, Put, Remove
<1>4. TablesTyped'
  BY <1>1, <1>3 DEF IInv, Typed, TablesTyped
<1>5. QED
  BY <1>1, <1>4, OneCallStep

LEMMA IssuerOneCallStep ==
  ASSUME IInv, Observe, NEW i \in Issuer, NEW enabled \in BOOLEAN,
         SetAuthIssuerEnabled(i, enabled) \/ CreateAuthIssuer(i, enabled)
  PROVE  Good
<1>1. UNCHANGED <<authz_bindings, subjects, rules, proc>>
  BY DEF SetAuthIssuerEnabled, CreateAuthIssuer
<1>2. TablesTyped'
  <2>1. CASE SetAuthIssuerEnabled(i, enabled)
    <3>1. auth_issuers \in [DOMAIN auth_issuers -> [enabled : BOOLEAN]]
      BY DEF IInv, Typed, TablesTyped
    <3>2. PICK row : row = [auth_issuers[i] EXCEPT !.enabled = enabled]
      OBVIOUS
    <3>3. i \in DOMAIN auth_issuers /\ auth_issuers' = [auth_issuers EXCEPT ![i] = row]
      BY <2>1, <3>2 DEF SetAuthIssuerEnabled
    <3>4. row \in [enabled : BOOLEAN]
      <4>1. auth_issuers[i] \in [enabled : BOOLEAN]
        BY <3>1, <3>3
      <4>2. QED
        BY Zenon, <3>2, <4>1
    <3>5. /\ DOMAIN auth_issuers' = DOMAIN auth_issuers
          /\ auth_issuers' \in [DOMAIN auth_issuers -> [enabled : BOOLEAN]]
      BY <3>1, <3>3, <3>4
    <3>6. QED
      BY <1>1, <3>5 DEF IInv, Typed, TablesTyped
  <2>2. CASE CreateAuthIssuer(i, enabled)
    BY <2>2, IssuerWritten DEF CreateAuthIssuer
  <2>3. QED
    BY <2>1, <2>2
<1>3. QED
  BY <1>1, <1>2, OneCallStep

\* An id is never used twice, so a new binding is none that a deletion listed.
LEMMA BindingCommandStep ==
  ASSUME IInv, Observe, NEW b \in BindingId, NEW row \in NewBinding,
         \/ CreateAuthzBinding(b, row)
         \/ UpdateAuthzBinding(b, row)
         \/ DeleteAuthzBinding(b)
  PROVE  Good
<1>1. UNCHANGED <<auth_issuers, subjects, rules, proc>>
  BY DEF CreateAuthzBinding, UpdateAuthzBinding, DeleteAuthzBinding
<1>2. DOMAIN authz_bindings \subseteq BindingId
      /\ \A c \in DOMAIN authz_bindings : authz_bindings[c] \in NewBinding
  BY DEF IInv, Typed, TablesTyped
<1>3. /\ DOMAIN authz_bindings' \subseteq BindingId
      /\ \A c \in DOMAIN authz_bindings' : authz_bindings'[c] \in NewBinding
      /\ DOMAIN authz_bindings' \subseteq DOMAIN authz_bindings \cup {b}
      /\ b \in DOMAIN authz_bindings' \ DOMAIN authz_bindings => ~Held(b)
  <2>1. CASE CreateAuthzBinding(b, row)
    BY <1>2, <2>1 DEF CreateAuthzBinding, Put
  <2>2. CASE UpdateAuthzBinding(b, row)
    <3>1. /\ DOMAIN authz_bindings' = DOMAIN authz_bindings
          /\ \A c \in DOMAIN authz_bindings :
               authz_bindings'[c] = IF c = b THEN row ELSE authz_bindings[c]
      BY <2>2 DEF UpdateAuthzBinding
    <3>2. \A c \in DOMAIN authz_bindings' : authz_bindings'[c] \in NewBinding
      BY <1>2, <3>1
    <3>3. DOMAIN authz_bindings' \subseteq DOMAIN authz_bindings
      BY <3>1
    <3>4. QED
      BY <1>2, <3>2, <3>3
  <2>3. CASE DeleteAuthzBinding(b)
    <3>1. /\ DOMAIN authz_bindings' = DOMAIN authz_bindings \ {b}
          /\ \A c \in DOMAIN authz_bindings \ {b} : authz_bindings'[c] = authz_bindings[c]
      BY <2>3 DEF DeleteAuthzBinding, Remove
    <3>2. \A c \in DOMAIN authz_bindings' : authz_bindings'[c] \in NewBinding
      BY <1>2, <3>1
    <3>3. DOMAIN authz_bindings' \subseteq DOMAIN authz_bindings
      BY <3>1
    <3>4. QED
      BY <1>2, <3>2, <3>3
  <2>4. QED
    BY <2>1, <2>2, <2>3
<1>4. TablesTyped'
  BY <1>1, <1>3 DEF IInv, Typed, TablesTyped
<1>5. ASSUME NEW p \in Proc, At(p, "deleting")
      PROVE  proc[p].listed \cap DOMAIN authz_bindings' \subseteq DOMAIN authz_bindings
  <2>1. ~Held(b) => b \notin proc[p].listed
    BY <1>5 DEF Held
  <2>2. QED
    BY <1>3, <2>1
<1>6. QED
  BY <1>1, <1>4, <1>5, OneCallStep

LEMMA OneCallCommands ==
  ASSUME IInv, Observe, OneCallCommand
  PROVE  Good
<1>1. CASE \E u \in User :
             \/ \E s \in {"active", "disabled"} : SetSubjectStatus(u, s)
             \/ DeleteSubject(u)
  <2>1. "active" \in Status /\ "disabled" \in Status
    BY DEF Status
  <2>2. QED
    BY <1>1, <2>1, SubjectCommandStep
<1>2. CASE \E n \in RuleName, row \in NewRule : UpsertSubjectAutoApprovalRule(n, row)
  BY <1>2, RuleCommandStep
<1>3. ASSUME NEW n \in RuleName, DeleteSubjectAutoApprovalRule(n) PROVE Good
  <2>1. rules[n] \in NewRule
    BY <1>3 DEF DeleteSubjectAutoApprovalRule, IInv, Typed, TablesTyped
  <2>2. QED
    BY <1>3, <2>1, RuleCommandStep
<1>4. CASE \E i \in Issuer, e \in BOOLEAN : SetAuthIssuerEnabled(i, e) \/ CreateAuthIssuer(i, e)
  BY <1>4, IssuerOneCallStep
<1>5. CASE \E b \in BindingId, row \in NewBinding :
             CreateAuthzBinding(b, row) \/ UpdateAuthzBinding(b, row)
  BY <1>5, BindingCommandStep
<1>6. ASSUME NEW b \in BindingId, DeleteAuthzBinding(b) PROVE Good
  <2>1. authz_bindings[b] \in NewBinding
    BY <1>6 DEF DeleteAuthzBinding, IInv, Typed, TablesTyped
  <2>2. QED
    BY <1>6, <2>1, BindingCommandStep
<1>7. QED
  BY <1>1, <1>2, <1>3, <1>4, <1>5, <1>6 DEF OneCallCommand

-----------------------------------------------------------------------------
(***************************************************************************)
(* Every step                                                              *)
(***************************************************************************)

LEMMA InitIInv == Init => IInv
<1> SUFFICES ASSUME Init PROVE IInv
  OBVIOUS
<1>1. \A p \in Proc : proc[p] = Idle /\ Idle.step = "idle"
  BY DEF Init, Idle
<1>2. TablesTyped
  BY DEF Init, TablesTyped, EmptyTable
<1>3. Typed
  BY <1>2 DEF Init, Typed, ProcState
<1>4. ReliesOnLate
  BY <1>1, ReliesMeans DEF ReliesOnLate
<1>5. ListedInHand
  BY <1>1 DEF ListedInHand, At
<1>6. Foreseen
  BY DEF Init, Foreseen
<1>7. QED
  BY <1>3, <1>4, <1>5, <1>6 DEF IInv

LEMMA NextGood == IInv /\ [Next]_vars => Good
<1> SUFFICES ASSUME IInv, [Next]_vars PROVE Good
  OBVIOUS
<1>1. CASE UNCHANGED vars
  <2>1. UNCHANGED <<auth_issuers, authz_bindings, subjects, rules, proc, late, foretold>>
    BY <1>1 DEF vars, tables
  <2>2. IInv'
    <3>1. TablesTyped'
      BY <2>1 DEF IInv, Typed, TablesTyped
    <3>2. Typed'
      BY <2>1, <3>1 DEF IInv, Typed, Busy
    <3>3. \A x : Off(x)' <=> Off(x)
      BY <2>1 DEF Off, EnabledRows
    <3>4. ReliesOnLate' /\ ListedInHand'
      BY <2>1, <3>3 DEF IInv, ReliesOnLate, ListedInHand, At
    <3>5. ASSUME NEW c \in Client, NEW preview \in foretold'[c] PROVE OnTrack(proc[c], preview)'
      <4>1. OnTrack(proc[c], preview)
        BY <2>1 DEF IInv, Foreseen
      <4>2. QED
        BY <2>1, <4>1 DEF OnTrack, Subject
    <3>6. QED
      BY <3>2, <3>4, <3>5 DEF IInv, Foreseen
  <2>3. QED
    BY <2>1, <2>2 DEF Good, UndoneWithCause, GrantedInTime, NothingListedLeft, Moved, At
<1>2. CASE Next
  BY <1>2, OneCallCommands, RequestSteps, CommandSteps, FailStep DEF Next, Step
<1>3. QED
  BY <1>1, <1>2

\* The inductive invariant holds in every reachable state.
THEOREM SpecIInv == Spec => []IInv
<1>1. Init => IInv
  BY InitIInv
<1>2. IInv /\ [Next]_vars => IInv'
  BY NextGood DEF Good
<1>3. QED
  BY <1>1, <1>2, PTL DEF Spec

\* The tables hold rows of the kinds the commands write, and what is remembered
\* of switches is about requests and commands under way.
THEOREM SpecTypeOK == Spec => []TypeOK
<1>1. IInv => TypeOK
  BY DEF IInv, Typed, TablesTyped, TypeOK, SubjectColumns
<1>2. QED
  BY <1>1, SpecIInv, PTL

\* What explain-authz says beforehand is what a request finds, step by step,
\* unless somebody else writes a subject or a rule in between.
THEOREM SpecPreviewIsWhatHappens == Spec => []PreviewIsWhatHappens
<1>1. IInv => PreviewIsWhatHappens
  BY DEF IInv, Foreseen, OnTrack, PreviewIsWhatHappens
<1>2. QED
  BY <1>1, SpecIInv, PTL

\* Whatever the interleaving, something switched off is only switched on again by
\* who was asked to, or by a command that had begun before.
THEOREM SpecOffUntilAskedOrOverlapped == Spec => OffUntilAskedOrOverlapped
<1>1. IInv /\ [Next]_vars => UndoneWithCause
  BY NextGood DEF Good
<1> HIDE DEF UndoneWithCause
<1>2. IInv /\ [Next]_vars => [UndoneWithCause]_vars
  BY <1>1
<1>3. Spec => [][UndoneWithCause]_vars
  BY <1>2, SpecIInv, PTL DEF Spec
<1>4. UndoneWithCause <=>
        \A p \in Proc : Moved(p) =>
          \A x \in Switches : Off(x) /\ ~Off(x)' => AsksFor(p, x) \/ p \in late[x]
  BY DEF UndoneWithCause
<1>5. QED
  BY <1>3, <1>4, PTL DEF OffUntilAskedOrOverlapped

\* No request that begins after its subject, its issuer or the role it goes by was
\* switched off is granted, however many commands run meanwhile.
THEOREM SpecLateRequestsRefused == Spec => LateRequestsRefused
<1>1. IInv /\ [Next]_vars => GrantedInTime
  BY NextGood DEF Good
<1> HIDE DEF GrantedInTime
<1>2. IInv /\ [Next]_vars => [GrantedInTime]_vars
  BY <1>1
<1>3. Spec => [][GrantedInTime]_vars
  BY <1>2, SpecIInv, PTL DEF Spec
<1>4. QED
  BY <1>3 DEF LateRequestsRefused, GrantedInTime

\* When a deletion removes its issuer, no binding it had listed is left.
THEOREM SpecDeletionLeavesNoReference == Spec => DeletionLeavesNoReference
<1>1. IInv /\ [Next]_vars => NothingListedLeft
  BY NextGood DEF Good
<1> HIDE DEF NothingListedLeft
<1>2. IInv /\ [Next]_vars => [NothingListedLeft]_vars
  BY <1>1
<1>3. Spec => [][NothingListedLeft]_vars
  BY <1>2, SpecIInv, PTL DEF Spec
<1>4. QED
  BY <1>3 DEF DeletionLeavesNoReference, NothingListedLeft

-----------------------------------------------------------------------------
(***************************************************************************)
(* What holds of the rows in the tables, whatever they are                 *)
(***************************************************************************)

Asks(req, ref) == \E permission, kind : req = Ask(permission, kind, ref)

LEMMA AskedRef ==
  ASSUME NEW req, NEW ref, Asks(req, ref)
  PROVE  req.resource_ref = ref
BY DEF Ask, Asks

\* A route of a collection asks for no object in particular.
LEMMA CollectionAsksForNone ==
  ASSUME NEW req \in CollectionRequests
  PROVE  req.resource_ref \in {"", "*"}
<1>1. PICK m \in Method :
        \/ req \in adminDoctorPermission(m) \cup metricsPermission(m)
        \/ req \in adminEffectiveAuthzPermission("effective-authz", m, NoId)
        \/ req \in adminEffectiveAuthzPermission("authz-bindings", m, NoId)
        \/ req \in adminAuthIssuerPermission(m, NoId)
        \/ req \in adminAuthProviderPresetPermission(m)
        \/ req \in adminCSRCollectionPermission(m)
        \/ req \in adminSubjectCollectionPermission(m)
        \/ req \in adminSubjectItemPermission(m, NoId, "approve")
        \/ req \in adminSubjectItemPermission(m, NoId, "update")
        \/ req \in adminSubjectAutoApprovalCollectionPermission(m)
  BY Zenon DEF CollectionRequests
<1>2. Ref(NoId) = "*"
  BY Zenon DEF Ref
<1>3. req \in adminDoctorPermission(m) \cup metricsPermission(m) => Asks(req, "")
  BY Zenon DEF adminDoctorPermission, metricsPermission, When, Asks
<1>4. \A path : req \in adminEffectiveAuthzPermission(path, m, NoId) =>
        Asks(req, "") \/ Asks(req, Ref(NoId))
  BY Zenon DEF adminEffectiveAuthzPermission, When, Asks
<1>5. req \in adminAuthIssuerPermission(m, NoId) => Asks(req, Ref(NoId))
  BY Zenon DEF adminAuthIssuerPermission, When, Asks
<1>6. req \in adminAuthProviderPresetPermission(m) => Asks(req, "*")
  BY Zenon DEF adminAuthProviderPresetPermission, When, Asks
<1>7. req \in adminCSRCollectionPermission(m) => Asks(req, "*")
  BY Zenon DEF adminCSRCollectionPermission, When, Asks
<1>8. req \in adminSubjectCollectionPermission(m) => Asks(req, "*")
  BY Zenon DEF adminSubjectCollectionPermission, When, Asks
<1>9. \A action : action # "" /\ req \in adminSubjectItemPermission(m, NoId, action) =>
        Asks(req, "*")
  BY Zenon DEF adminSubjectItemPermission, When, Asks
<1>10. req \in adminSubjectAutoApprovalCollectionPermission(m) => Asks(req, "*")
  BY Zenon DEF adminSubjectAutoApprovalCollectionPermission, When, Asks
<1>11. "approve" # "" /\ "update" # ""
  OBVIOUS
<1>12. Asks(req, "") \/ Asks(req, "*")
  BY Zenon, <1>1, <1>2, <1>3, <1>4, <1>5, <1>6, <1>7, <1>8, <1>9, <1>10, <1>11
<1>13. QED
  BY <1>12, AskedRef

\* A route of an object asks for that object, or for any.
LEMMA ItemAsksForItself ==
  ASSUME NEW id, NEW req \in ItemRequests(id)
  PROVE  req.resource_ref \in {"", "*", id}
<1>1. PICK m \in Method :
        \/ req \in adminEffectiveAuthzPermission("authz-bindings", m, id)
        \/ req \in adminAuthIssuerPermission(m, id)
        \/ \E a \in {"", "approve", "reject"} : req \in adminCSRItemPermission(m, id, a)
        \/ req \in adminSubjectItemPermission(m, id, "")
        \/ req \in adminSubjectAutoApprovalItemPermission(m, id)
  BY Zenon DEF ItemRequests
<1>2. Ref(id) = "*" \/ Ref(id) = id
  BY Zenon DEF Ref
<1>3. \A path : req \in adminEffectiveAuthzPermission(path, m, id) =>
        Asks(req, "") \/ Asks(req, Ref(id))
  BY Zenon DEF adminEffectiveAuthzPermission, When, Asks
<1>4. req \in adminAuthIssuerPermission(m, id) => Asks(req, Ref(id))
  BY Zenon DEF adminAuthIssuerPermission, When, Asks
<1>5. \A a : req \in adminCSRItemPermission(m, id, a) => Asks(req, id)
  BY Zenon DEF adminCSRItemPermission, When, Asks
<1>6. \A a : req \in adminSubjectItemPermission(m, id, a) =>
        Asks(req, "*") \/ Asks(req, id)
  BY Zenon DEF adminSubjectItemPermission, When, Asks
<1>7. req \in adminSubjectAutoApprovalItemPermission(m, id) => Asks(req, id)
  BY Zenon DEF adminSubjectAutoApprovalItemPermission, When, Asks
<1>8. Asks(req, "") \/ Asks(req, "*") \/ Asks(req, id)
  BY <1>1, <1>2, <1>3, <1>4, <1>5, <1>6, <1>7
<1>9. QED
  BY <1>8, AskedRef

\* Whatever bindings there are and whoever asks, a binding for one object opens
\* the routes of that object only.
THEOREM SpecScopedBindingsConfine == Spec => []ScopedBindingsConfine
<1>1. ASSUME NEW u \in User, NEW b \in DOMAIN authz_bindings, NEW req,
             authz_bindings[b].resource_ref \notin {"", "*"},
             b \in MatchingBindings(Identity(u), authz_bindings, req)
      PROVE  req.resource_ref = authz_bindings[b].resource_ref
  <2>1. matchesScope(authz_bindings[b].resource_ref, req.resource_ref)
    BY Zenon, <1>1 DEF MatchingBindings
  <2>2. QED
    BY <1>1, <2>1 DEF matchesScope
<1>2. ASSUME NEW u \in User, NEW b \in DOMAIN authz_bindings,
             authz_bindings[b].resource_ref \notin {"", "*"}
      PROVE  /\ \A req \in CollectionRequests :
                  b \notin MatchingBindings(Identity(u), authz_bindings, req)
             /\ \A id \in Object : \A req \in RequestsFor[id] :
                  b \in MatchingBindings(Identity(u), authz_bindings, req)
                    => id = authz_bindings[b].resource_ref
  <2>1. ASSUME NEW req \in CollectionRequests,
               b \in MatchingBindings(Identity(u), authz_bindings, req)
        PROVE  FALSE
    BY <1>1, <1>2, <2>1, CollectionAsksForNone
  <2>2. ASSUME NEW id \in Object, NEW req \in RequestsFor[id],
               b \in MatchingBindings(Identity(u), authz_bindings, req)
        PROVE  id = authz_bindings[b].resource_ref
    <3>1. req.resource_ref \in {"", "*", id}
      <4>1. req \in ItemRequests(id)
        BY Zenon, <2>2 DEF RequestsFor
      <4>2. QED
        BY <4>1, ItemAsksForItself
    <3>2. req.resource_ref = authz_bindings[b].resource_ref
      BY <1>1, <1>2, <2>2
    <3>3. QED
      BY <1>2, <3>1, <3>2
  <2>3. QED
    BY <2>1, <2>2
<1>3. ScopedBindingsConfine
  BY Zenon, <1>2 DEF ScopedBindingsConfine
<1>4. QED
  BY <1>3, PTL

-----------------------------------------------------------------------------
(***************************************************************************)
(* doctor and /metrics, over any tables                                    *)
(***************************************************************************)

\* The rows that the findings of one check are about.
Found(findings, check) == {f.about : f \in {g \in findings : g.check = check}}

LEMMA FindingMeans ==
  ASSUME NEW check, NEW about
  PROVE  Finding(check, about).check = check /\ Finding(check, about).about = about
BY DEF Finding

\* The findings of a check are about S when they are there for all of S, and
\* for nothing else.
LEMMA FoundAre ==
  ASSUME NEW findings, NEW check, NEW S,
         \A about \in S : Finding(check, about) \in findings,
         \A f \in findings : f.check = check => f.about \in S
  PROVE  Found(findings, check) = S
<1>1. ASSUME NEW about \in S PROVE about \in Found(findings, check)
  BY FindingMeans DEF Found
<1>2. ASSUME NEW about \in Found(findings, check) PROVE about \in S
  BY DEF Found
<1>3. QED
  BY <1>1, <1>2

\* Which checks there are, and what each is about.
LEMMA BindingFindings ==
  ASSUME NEW issuers, NEW bindings, NEW rls,
         NEW credit, NEW f \in checkAuthIssuerBindings(issuers, bindings, rls, credit)
  PROVE  \/ /\ f.check = "auth_issuer_disabled_reference"
            /\ f.about \in {i \in DOMAIN issuers :
                             ~issuers[i].enabled /\ ReferencedBy(i, credit, rls) # {}}
         \/ /\ f.check = "auth_issuer_unused"
            /\ f.about \in {i \in EnabledRows(issuers) : ReferencedBy(i, credit, rls) = {}}
         \/ /\ f.check = "authz_binding_unknown_issuer"
            /\ f.about \in {b \in DOMAIN bindings :
                 \E i \in bindingPrincipalIssuer(bindings[b].principal) : i \notin DOMAIN issuers}
BY FindingMeans DEF checkAuthIssuerBindings

LEMMA BroadFindings ==
  ASSUME NEW bindings, NEW f \in checkBroadAuthzBindings(bindings)
  PROVE  \/ /\ f.check = "authz_binding_wildcard_permission"
            /\ f.about \in {b \in EnabledRows(bindings) : bindings[b].permission = "*"}
         \/ /\ f.check = "authz_binding_unscoped_mutation"
            /\ f.about \in {b \in EnabledRows(bindings) : UnscopedMutation(bindings[b])}
         \/ /\ f.check = "authz_binding_wildcard_scope"
            /\ f.about \in {b \in EnabledRows(bindings) : WildcardScope(bindings[b])}
BY FindingMeans DEF checkBroadAuthzBindings

LEMMA RuleFindings ==
  ASSUME NEW issuers, NEW rls, NEW f \in checkSubjectAutoApprovalRules(issuers, rls)
  PROVE  \/ /\ f.check = "subject_auto_approval_unknown_issuer"
            /\ f.about \in {n \in EnabledRows(rls) : rls[n].issuer \notin DOMAIN issuers}
         \/ /\ f.check = "subject_auto_approval_disabled_issuer"
            /\ f.about \in {n \in EnabledRows(rls) :
                             rls[n].issuer \in DOMAIN issuers \ EnabledRows(issuers)}
         \/ /\ f.check = "subject_auto_approval_broad"
            /\ f.about \in {n \in EnabledRows(rls) : /\ rls[n].issuer \in DOMAIN issuers
                                                     /\ rls[n].email_domain = NoId
                                                     /\ rls[n].required_roles = {}}
BY FindingMeans DEF checkSubjectAutoApprovalRules

LEMMA OtherFindings ==
  ASSUME NEW issuers, NEW bindings,
         NEW f \in checkDuplicateAuthzBindings(bindings)
                     \cup checkAuthIssuerDiscovery(issuers, bindings, {})
  PROVE  f.check \in {"authz_binding_duplicate_enabled", "authz_binding_conflicting_states"}
<1>1. checkAuthIssuerDiscovery(issuers, bindings, {}) = {}
  BY DEF checkAuthIssuerDiscovery
<1>2. \/ \E about : f = Finding("authz_binding_duplicate_enabled", about)
      \/ \E about : f = Finding("authz_binding_conflicting_states", about)
  BY Zenon, <1>1 DEF checkDuplicateAuthzBindings
<1>3. QED
  BY <1>2, FindingMeans

\* The findings of each check are about the rows they should be.
FindsRows(findings, issuers, bindings, rls, credit) ==
  /\ Found(findings, "auth_issuer_disabled_reference")
       = {i \in DOMAIN issuers : ~issuers[i].enabled /\ ReferencedBy(i, credit, rls) # {}}
  /\ Found(findings, "auth_issuer_unused")
       = {i \in EnabledRows(issuers) : ReferencedBy(i, credit, rls) = {}}
  /\ Found(findings, "authz_binding_unknown_issuer")
       = {b \in DOMAIN bindings :
            \E i \in bindingPrincipalIssuer(bindings[b].principal) : i \notin DOMAIN issuers}
  /\ Found(findings, "authz_binding_wildcard_permission")
       = {b \in EnabledRows(bindings) : bindings[b].permission = "*"}
  /\ Found(findings, "authz_binding_unscoped_mutation")
       = {b \in EnabledRows(bindings) : UnscopedMutation(bindings[b])}
  /\ Found(findings, "authz_binding_wildcard_scope")
       = {b \in EnabledRows(bindings) : WildcardScope(bindings[b])}
  /\ Found(findings, "subject_auto_approval_unknown_issuer")
       = {n \in EnabledRows(rls) : rls[n].issuer \notin DOMAIN issuers}
  /\ Found(findings, "subject_auto_approval_disabled_issuer")
       = {n \in EnabledRows(rls) : rls[n].issuer \in DOMAIN issuers \ EnabledRows(issuers)}
  /\ Found(findings, "subject_auto_approval_broad")
       = {n \in EnabledRows(rls) : /\ rls[n].issuer \in DOMAIN issuers
                                   /\ rls[n].email_domain = NoId
                                   /\ rls[n].required_roles = {}}

\* Of the bindings, doctor is given those that are enabled.
LEMMA DoctorFinds ==
  ASSUME NEW issuers, NEW all, NEW rls, NEW bindings, NEW credit, NEW findings,
         bindings = [b \in EnabledRows(all) |-> all[b]],
         findings = AuthRelatedDoctorFindings(issuers, all, rls, {}, credit)
  PROVE  FindsRows(findings, issuers, bindings, rls, credit)
<1> DEFINE Disabled == {i \in DOMAIN issuers :
                          ~issuers[i].enabled /\ ReferencedBy(i, credit, rls) # {}}
           Unused   == {i \in EnabledRows(issuers) : ReferencedBy(i, credit, rls) = {}}
           Unknown  == {b \in DOMAIN bindings :
                          \E i \in bindingPrincipalIssuer(bindings[b].principal) : i \notin DOMAIN issuers}
           Wild     == {b \in EnabledRows(bindings) : bindings[b].permission = "*"}
           Unscoped == {b \in EnabledRows(bindings) : UnscopedMutation(bindings[b])}
           Scope    == {b \in EnabledRows(bindings) : WildcardScope(bindings[b])}
           NoIssuer == {n \in EnabledRows(rls) : rls[n].issuer \notin DOMAIN issuers}
           OffIssuer == {n \in EnabledRows(rls) :
                           rls[n].issuer \in DOMAIN issuers \ EnabledRows(issuers)}
           Broad    == {n \in EnabledRows(rls) : /\ rls[n].issuer \in DOMAIN issuers
                                                 /\ rls[n].email_domain = NoId
                                                 /\ rls[n].required_roles = {}}
<1>1. findings =      checkAuthIssuerBindings(issuers, bindings, rls, credit)
                 \cup checkBroadAuthzBindings(bindings)
                 \cup checkDuplicateAuthzBindings(bindings)
                 \cup checkSubjectAutoApprovalRules(issuers, rls)
                 \cup checkAuthIssuerDiscovery(issuers, bindings, {})
  BY Zenon DEF AuthRelatedDoctorFindings
<1>2. /\ \A i \in Disabled : Finding("auth_issuer_disabled_reference", i) \in findings
      /\ \A i \in Unused : Finding("auth_issuer_unused", i) \in findings
      /\ \A b \in Unknown : Finding("authz_binding_unknown_issuer", b) \in findings
  BY Zenon, <1>1 DEF checkAuthIssuerBindings
<1>3. /\ \A b \in Wild : Finding("authz_binding_wildcard_permission", b) \in findings
      /\ \A b \in Unscoped : Finding("authz_binding_unscoped_mutation", b) \in findings
      /\ \A b \in Scope : Finding("authz_binding_wildcard_scope", b) \in findings
  BY Zenon, <1>1 DEF checkBroadAuthzBindings
<1>4. /\ \A n \in NoIssuer : Finding("subject_auto_approval_unknown_issuer", n) \in findings
      /\ \A n \in OffIssuer : Finding("subject_auto_approval_disabled_issuer", n) \in findings
      /\ \A n \in Broad : Finding("subject_auto_approval_broad", n) \in findings
  BY Zenon, <1>1 DEF checkSubjectAutoApprovalRules
<1>5. ASSUME NEW f \in findings
      PROVE  \/ f.check = "auth_issuer_disabled_reference" /\ f.about \in Disabled
             \/ f.check = "auth_issuer_unused" /\ f.about \in Unused
             \/ f.check = "authz_binding_unknown_issuer" /\ f.about \in Unknown
             \/ f.check = "authz_binding_wildcard_permission" /\ f.about \in Wild
             \/ f.check = "authz_binding_unscoped_mutation" /\ f.about \in Unscoped
             \/ f.check = "authz_binding_wildcard_scope" /\ f.about \in Scope
             \/ f.check = "subject_auto_approval_unknown_issuer" /\ f.about \in NoIssuer
             \/ f.check = "subject_auto_approval_disabled_issuer" /\ f.about \in OffIssuer
             \/ f.check = "subject_auto_approval_broad" /\ f.about \in Broad
             \/ f.check = "authz_binding_duplicate_enabled"
             \/ f.check = "authz_binding_conflicting_states"
  <2>1. CASE f \in checkAuthIssuerBindings(issuers, bindings, rls, credit)
    BY Zenon, <2>1, BindingFindings
  <2>2. CASE f \in checkBroadAuthzBindings(bindings)
    BY Zenon, <2>2, BroadFindings
  <2>3. CASE f \in checkSubjectAutoApprovalRules(issuers, rls)
    BY Zenon, <2>3, RuleFindings
  <2>4. CASE f \in checkDuplicateAuthzBindings(bindings)
                     \cup checkAuthIssuerDiscovery(issuers, bindings, {})
    <3>1. f.check \in {"authz_binding_duplicate_enabled", "authz_binding_conflicting_states"}
      BY Zenon, <2>4, OtherFindings
    <3>2. QED
      BY Zenon, <3>1
  <2>5. QED
    BY Zenon, <1>1, <2>1, <2>2, <2>3, <2>4
<1> HIDE DEF Disabled, Unused, Unknown, Wild, Unscoped, Scope, NoIssuer, OffIssuer, Broad
<1>6. /\ Found(findings, "auth_issuer_disabled_reference") = Disabled
      /\ Found(findings, "auth_issuer_unused") = Unused
      /\ Found(findings, "authz_binding_unknown_issuer") = Unknown
  BY <1>2, <1>5, FoundAre
<1>7. /\ Found(findings, "authz_binding_wildcard_permission") = Wild
      /\ Found(findings, "authz_binding_unscoped_mutation") = Unscoped
      /\ Found(findings, "authz_binding_wildcard_scope") = Scope
  BY <1>3, <1>5, FoundAre
<1>8. /\ Found(findings, "subject_auto_approval_unknown_issuer") = NoIssuer
      /\ Found(findings, "subject_auto_approval_disabled_issuer") = OffIssuer
      /\ Found(findings, "subject_auto_approval_broad") = Broad
  BY <1>4, <1>5, FoundAre
<1>9. QED
  BY Zenon, <1>6, <1>7, <1>8
     DEF FindsRows, Disabled, Unused, Unknown, Wild, Unscoped, Scope, NoIssuer, OffIssuer, Broad

\* A permission that doctor takes for a mutation is one for /metrics, which has more.
LEMMA MetricsKnowsMutations ==
  ASSUME NEW permission, isScopedMutationPermission(permission)
  PROVE  metricsScopedMutationPermission(permission)
BY Zenon DEF isScopedMutationPermission, metricsScopedMutationPermission

\* A binding that doctor credits to another issuer than the one its principal
\* names, both known, shows that the other overshadows it.
LEMMA CreditedElsewhere ==
  ASSUME NEW issuers, NEW all, NEW credit \in Credits(issuers, all), NEW b \in EnabledRows(all),
         NEW i \in DOMAIN issuers, i \in bindingPrincipalIssuer(all[b].principal)
  PROVE  /\ b \in DOMAIN credit
         /\ credit[b] = i \/ \E j \in DOMAIN issuers : <<j, i>> \in PrefixOf
<1>1. \A j \in bindingPrincipalIssuer(all[b].principal) : j = i
  BY DEF bindingPrincipalIssuer
<1>2. i \in KnownReferences(all[b], issuers)
  BY DEF KnownReferences, bindingReferencesIssuer
<1>3. b \in DOMAIN credit /\ credit[b] \in KnownReferences(all[b], issuers)
  BY <1>2 DEF Credits
<1>4. /\ credit[b] \in DOMAIN issuers
      /\ \E k \in bindingPrincipalIssuer(all[b].principal) :
           credit[b] = k \/ <<credit[b], k>> \in PrefixOf
  BY <1>3 DEF KnownReferences, bindingReferencesIssuer
<1>5. QED
  BY <1>1, <1>3, <1>4

\* Whatever the tables hold and whichever issuers doctor credits the bindings to,
\* it and /metrics agree where they look at the same, but for an issuer that
\* another known one overshadows.
THEOREM SpecMetricsAgreeWithDoctor == Spec => []MetricsAgreeWithDoctor
<1>1. MetricsAgreeWithDoctor
  <2> SUFFICES ASSUME NEW credit \in Credits(auth_issuers, authz_bindings)
               PROVE  Agreed(credit)
    BY Zenon DEF MetricsAgreeWithDoctor, Agreed
  <2>1. PICK issuers, all, rls, bindings, findings :
          /\ issuers = auth_issuers /\ all = authz_bindings /\ rls = rules
          /\ bindings = [b \in EnabledRows(all) |-> all[b]]
          /\ findings = AuthRelatedDoctorFindings(issuers, all, rls, {}, credit)
    OBVIOUS
  <2> DEFINE coverage == summarizeAuthIssuerCoverage(issuers, all)
             risky == summarizeRiskyAuthzBindings(all)
             riskyRules == summarizeRiskySubjectAutoApprovalRules(issuers, rls)
  <2>2. /\ DOMAIN bindings = EnabledRows(all)
        /\ \A b \in EnabledRows(all) : bindings[b] = all[b]
        /\ EnabledRows(bindings) = EnabledRows(all)
    BY <2>1 DEF EnabledRows
  <2>3. FindsRows(findings, issuers, bindings, rls, credit)
    BY <2>1, DoctorFinds
  <2>4. coverage.unknown_referenced = Found(findings, "authz_binding_unknown_issuer")
    <3>1. Found(findings, "authz_binding_unknown_issuer")
            = {b \in DOMAIN bindings :
                 \E i \in bindingPrincipalIssuer(bindings[b].principal) : i \notin DOMAIN issuers}
      BY <2>3 DEF FindsRows
    <3>2. coverage.unknown_referenced
            = {b \in EnabledRows(all) :
                 \E i \in bindingPrincipalIssuer(all[b].principal) : i \notin DOMAIN issuers}
      BY DEF summarizeAuthIssuerCoverage
    <3>3. QED
      BY <2>2, <3>1, <3>2
  <2>5. ASSUME NEW b \in coverage.disabled_referenced,
               NEW i \in bindingPrincipalIssuer(all[b].principal)
        PROVE  i \in Found(findings, "auth_issuer_disabled_reference") \/ Overshadowed(i)
    <3>1. Found(findings, "auth_issuer_disabled_reference")
            = {j \in DOMAIN issuers : ~issuers[j].enabled /\ ReferencedBy(j, credit, rls) # {}}
      BY <2>3 DEF FindsRows
    <3>2. coverage.disabled_referenced
            = UNION {{c \in EnabledRows(all) : j \in bindingPrincipalIssuer(all[c].principal)} :
                       j \in DOMAIN issuers \ EnabledRows(issuers)}
      BY DEF summarizeAuthIssuerCoverage
    <3>3. b \in EnabledRows(all) /\ i \in DOMAIN issuers \ EnabledRows(issuers)
      BY <2>5, <3>2 DEF bindingPrincipalIssuer
    <3>4. b \in DOMAIN credit /\ (credit[b] = i \/ \E j \in DOMAIN issuers : <<j, i>> \in PrefixOf)
      BY <2>1, <3>3, CreditedElsewhere
    <3>5. CASE credit[b] = i
      <4>1. ReferencedBy(i, credit, rls) # {}
        BY <3>4, <3>5 DEF ReferencedBy
      <4>2. QED
        BY <3>1, <3>3, <4>1 DEF EnabledRows
    <3>6. QED
      BY <2>1, <3>4, <3>5 DEF Overshadowed
  <2>6. ASSUME NEW i \in Found(findings, "auth_issuer_unused")
        PROVE  i \in coverage.enabled_without_bindings \/ Overshadowed(i)
    <3>1. i \in EnabledRows(issuers) /\ ReferencedBy(i, credit, rls) = {}
      BY <2>3 DEF FindsRows
    <3>2. coverage.enabled_without_bindings
            = {j \in EnabledRows(issuers) :
                 {b \in EnabledRows(all) : j \in bindingPrincipalIssuer(all[b].principal)} = {}}
      BY DEF summarizeAuthIssuerCoverage
    <3>3. ASSUME NEW b \in EnabledRows(all), i \in bindingPrincipalIssuer(all[b].principal)
          PROVE  Overshadowed(i)
      <4>1. b \in DOMAIN credit /\ (credit[b] = i \/ \E j \in DOMAIN issuers : <<j, i>> \in PrefixOf)
        BY <2>1, <3>1, <3>3, CreditedElsewhere DEF EnabledRows
      <4>2. credit[b] # i
        BY <3>1, <4>1 DEF ReferencedBy
      <4>3. QED
        BY <2>1, <4>1, <4>2 DEF Overshadowed
    <3>4. QED
      BY <3>1, <3>2, <3>3
  <2>7. Found(findings, "authz_binding_wildcard_permission") = risky.wildcard_permission
    <3>1. Found(findings, "authz_binding_wildcard_permission")
            = {b \in EnabledRows(bindings) : bindings[b].permission = "*"}
      BY <2>3 DEF FindsRows
    <3>2. risky.wildcard_permission = {b \in EnabledRows(all) : all[b].permission = "*"}
      BY DEF summarizeRiskyAuthzBindings
    <3>3. QED
      BY <2>2, <3>1, <3>2
  <2>8. /\ Found(findings, "authz_binding_unscoped_mutation") \subseteq risky.unscoped_mutation
        /\ Found(findings, "authz_binding_wildcard_scope") \subseteq risky.wildcard_scope
    <3>1. /\ Found(findings, "authz_binding_unscoped_mutation")
               = {b \in EnabledRows(bindings) : UnscopedMutation(bindings[b])}
          /\ Found(findings, "authz_binding_wildcard_scope")
               = {b \in EnabledRows(bindings) : WildcardScope(bindings[b])}
      BY <2>3 DEF FindsRows
    <3>2. risky.unscoped_mutation
            = {b \in EnabledRows(all) : /\ metricsScopedMutationPermission(all[b].permission)
                                        /\ all[b].resource_kind = ""}
      BY DEF summarizeRiskyAuthzBindings
    <3>3. risky.wildcard_scope
            = {b \in EnabledRows(all) : /\ metricsScopedMutationPermission(all[b].permission)
                                        /\ all[b].resource_ref = "*"}
      BY DEF summarizeRiskyAuthzBindings
    <3>4. QED
      BY <2>2, <3>1, <3>2, <3>3, MetricsKnowsMutations DEF UnscopedMutation, WildcardScope
  <2>9. /\ Found(findings, "subject_auto_approval_unknown_issuer") = riskyRules.unknown_issuer
        /\ Found(findings, "subject_auto_approval_disabled_issuer") = riskyRules.disabled_issuer
        /\ Found(findings, "subject_auto_approval_broad") = riskyRules.broad
    <3>1. Found(findings, "subject_auto_approval_unknown_issuer")
            = {n \in EnabledRows(rls) : rls[n].issuer \notin DOMAIN issuers}
      BY <2>3 DEF FindsRows
    <3>2. Found(findings, "subject_auto_approval_disabled_issuer")
            = {n \in EnabledRows(rls) : rls[n].issuer \in DOMAIN issuers \ EnabledRows(issuers)}
      BY <2>3 DEF FindsRows
    <3>3. Found(findings, "subject_auto_approval_broad")
            = {n \in EnabledRows(rls) : /\ rls[n].issuer \in DOMAIN issuers
                                        /\ rls[n].email_domain = NoId
                                        /\ rls[n].required_roles = {}}
      BY <2>3 DEF FindsRows
    <3>4. riskyRules.unknown_issuer = {n \in EnabledRows(rls) : rls[n].issuer \notin DOMAIN issuers}
      BY DEF summarizeRiskySubjectAutoApprovalRules
    <3>5. riskyRules.disabled_issuer
            = {n \in EnabledRows(rls) :
                 rls[n].issuer \in DOMAIN issuers /\ ~issuers[rls[n].issuer].enabled}
      BY DEF summarizeRiskySubjectAutoApprovalRules
    <3>6. riskyRules.broad
            = {n \in EnabledRows(rls) : /\ rls[n].issuer \in DOMAIN issuers
                                        /\ rls[n].email_domain = NoId
                                        /\ rls[n].required_roles = {}}
      BY DEF summarizeRiskySubjectAutoApprovalRules
    <3>7. EnabledRows(issuers) = {i \in DOMAIN issuers : issuers[i].enabled}
      BY DEF EnabledRows
    <3>8. QED
      BY <3>1, <3>2, <3>3, <3>4, <3>5, <3>6, <3>7
  <2> HIDE DEF coverage, risky, riskyRules
  <2>10. QED
    BY <2>1, <2>4, <2>5, <2>6, <2>7, <2>8, <2>9
       DEF Agreed, Found, coverage, risky, riskyRules
<1>2. QED
  BY <1>1, PTL

=============================================================================
