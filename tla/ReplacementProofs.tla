------------------------- MODULE ReplacementProofs --------------------------
(***************************************************************************)
(* What certctl replaces as a whole while others may be at it: a zone at   *)
(* Namecheap (DNSZone) and the database file (Database). Both are correct  *)
(* for every set of commands and processes, every zone and every database  *)
(* to begin with.                                                          *)
(*                                                                         *)
(* The zone: a command that has read a Namecheap zone may hold a list that *)
(* is out of date, but only in the names that some change has named since: *)
(* in the others the list it holds still agrees with the zone. And every   *)
(* list that is written agrees with the list it was made from but for the  *)
(* records the change is about, so what else differs from the zone is what *)
(* the change had not seen.                                                *)
(*                                                                         *)
(* The database file: a process on its way through the tables has brought  *)
(* up to date those it has been at, and nobody takes a table back. A table *)
(* is rebuilt from rows of the old schema, of which the newest is left     *)
(* active, unless another process has rebuilt it in between. And a restore *)
(* that is about to take the live file away has saved all it held but what *)
(* was written since.                                                      *)
(***************************************************************************)
EXTENDS DNSZone, Database, TLAPS

AnyName == Name \cup {TestName[c] : c \in Command}

AnyValue == Value \cup {NoId} \cup {TestName[c] : c \in Command}

\* A change, and what CreateRecord asks for is a record.
Change ==
  {ch \in [op : {"create", "delete"}, name : AnyName, data : AnyValue, test : BOOLEAN] :
     ch.op = "create" => The(ch) \in Record /\ ch.data # NoId}

ProcState ==
  {Idle}
    \cup [step : {"asking"}, change : Change]
    \cup [step : {"editing"}, change : Change, hosts : SUBSET Record]

\* What a command in state s knows of the zone.
Knows(s) ==
  /\ s.step # "idle" => s.change.name \in named
  /\ s.step = "editing" =>
       provider = "namecheap" /\ {r \in s.hosts : r.name \notin named} = others

Typed == zone \subseteq Record /\ proc \in [Command -> ProcState]

AllKnow == \A c \in Command : Knows(proc[c])

IInv == Typed /\ AllKnow /\ OthersUntouched /\ LostOnlyToOverlap

-----------------------------------------------------------------------------
(***************************************************************************)
(* The lists that are written                                              *)
(***************************************************************************)

\* `records' are what the change makes of `seen'.
MadeFrom(change, seen, records) ==
  /\ records \subseteq Record
  /\ \A r \in Record : ~Touched(r, change) => (r \in records <=> r \in seen)
  /\ \A r \in Record : Touched(r, change) =>
       /\ r.name = change.name
       /\ r \in records <=> change.op = "create" /\ r = The(change)
  /\ change.op = "create" => The(change) \in Record /\ Touched(The(change), change)

LEMMA RecordFields == \A r \in Record : r = [name |-> r.name, data |-> r.data]
BY DEF Record, TestRecord

LEMMA ChangeFields ==
  ASSUME NEW change \in Change
  PROVE  /\ change.op \in {"create", "delete"}
         /\ change.op = "create" => The(change) \in Record /\ change.data # NoId
BY DEF Change

LEMMA AppendedMade ==
  ASSUME NEW change \in Change, change.op = "create", NEW seen \in SUBSET Record,
         provider = "namecheap"
  PROVE  MadeFrom(change, seen, Appended(seen, change))
<1>1. The(change) \in Record /\ change.data # NoId
  BY ChangeFields
<1>2. \A r \in Record : Touched(r, change) <=> r = The(change)
  BY <1>1, RecordFields DEF Touched, Matches, The
<1>3. The(change).name = change.name
  BY DEF The
<1>4. QED
  BY <1>1, <1>2, <1>3 DEF MadeFrom, Appended

LEMMA FilteredMade ==
  ASSUME NEW change \in Change, change.op = "delete", NEW seen \in SUBSET Record
  PROVE  MadeFrom(change, seen, Filtered(seen, change))
BY DEF MadeFrom, Filtered, Touched, Matches

LEMMA ReplacedMade ==
  ASSUME NEW change \in Change, change.op = "create", NEW seen \in SUBSET Record,
         provider = "godaddy"
  PROVE  MadeFrom(change, seen, Replaced(seen, change))
<1>1. The(change) \in Record /\ The(change).name = change.name
  BY ChangeFields DEF The
<1>2. QED
  BY <1>1 DEF MadeFrom, Replaced, Touched

-----------------------------------------------------------------------------
(***************************************************************************)
(* The commands                                                            *)
(***************************************************************************)

LEMMA ProcFields ==
  ASSUME NEW s \in ProcState
  PROVE  \/ s = Idle /\ s.step = "idle"
         \/ s \in [step : {"asking"}, change : Change] /\ s.step = "asking" /\ s.change \in Change
         \/ /\ s \in [step : {"editing"}, change : Change, hosts : SUBSET Record]
            /\ s.step = "editing"
            /\ s.change \in Change
            /\ s.hosts \in SUBSET Record
BY DEF ProcState, Idle

\* One command takes the state s, and nothing is named.
LEMMA CommandMoves ==
  ASSUME Typed, AllKnow, NEW c \in Command, NEW s \in ProcState, Knows(s),
         Goto(c, s), UNCHANGED <<provider, named, others>>
  PROVE  proc' \in [Command -> ProcState] /\ AllKnow'
<1>1. proc' \in [Command -> ProcState] /\ \A d \in Command : proc'[d] = IF d = c THEN s ELSE proc[d]
  BY DEF Typed, Goto
<1>2. \A x : Knows(x) => Knows(x)'
  BY DEF Knows
<1>3. \A d \in Command : Knows(proc[d])'
  BY <1>1, <1>2 DEF AllKnow
<1>4. QED
  BY <1>1, <1>3 DEF AllKnow

\* What a command does after an answer.
LEMMA AfterAnswerKnows ==
  ASSUME Typed, AllKnow, NEW c \in Command, ~At(c, "idle")
  PROVE  AfterAnswer(c) \in ProcState /\ Knows(AfterAnswer(c))
<1> PICK change : change = proc[c].change
  OBVIOUS
<1>1. change \in Change /\ change.name \in named
  BY ProcFields DEF Typed, AllKnow, Knows, At
<1>2. CASE change.test /\ change.op = "create"
  <2> DEFINE deletion == [change EXCEPT !.op = "delete"]
             s == [step |-> "asking", change |-> deletion]
  <2>1. deletion \in Change /\ deletion.name = change.name
    BY <1>1 DEF Change
  <2> HIDE DEF deletion
  <2>2. s \in ProcState /\ s.step = "asking" /\ s.change = deletion
    BY <2>1 DEF ProcState
  <2>3. AfterAnswer(c) = s
    BY <1>2 DEF AfterAnswer, deletion
  <2> HIDE DEF s
  <2>4. QED
    BY <1>1, <2>1, <2>2, <2>3 DEF Knows
<1>3. CASE ~(change.test /\ change.op = "create")
  BY <1>3 DEF AfterAnswer, ProcState, Knows, Idle
<1>4. QED
  BY <1>2, <1>3

LEMMA IdleKnows == Idle \in ProcState /\ Knows(Idle)
BY DEF Idle, ProcState, Knows

\* A change begins: its name is another one no more.
LEMMA BeginStep ==
  ASSUME IInv, NEW c \in Command, NEW change \in Change, Begin(c, change)
  PROVE  IInv'
<1> DEFINE s == [step |-> "asking", change |-> change]
<1>1. /\ Goto(c, s)
      /\ named' = named \cup {change.name}
      /\ others' = {r \in others : r.name # change.name}
      /\ UNCHANGED <<provider, zone, put, overlapped>>
  BY DEF Begin
<1>2. s \in ProcState /\ s.step = "asking" /\ s.change = change
  BY DEF ProcState
<1> HIDE DEF s
<1>3. proc' \in [Command -> ProcState] /\ \A d \in Command : proc'[d] = IF d = c THEN s ELSE proc[d]
  BY <1>1, <1>2 DEF Goto, IInv, Typed
<1>4. \A x : Knows(x) => Knows(x)'
  BY <1>1 DEF Knows
<1>5. Knows(s)'
  BY <1>1, <1>2 DEF Knows
<1>6. AllKnow'
  BY <1>3, <1>4, <1>5 DEF IInv, AllKnow
<1>7. OthersUntouched'
  BY <1>1 DEF IInv, OthersUntouched
<1>8. QED
  BY <1>1, <1>3, <1>6, <1>7 DEF IInv, Typed, LostOnlyToOverlap

\* The provider carries out a change that was made from what was seen.
LEMMA WriteStep ==
  ASSUME IInv, NEW c \in Command, ~At(c, "idle"), NEW seen \in SUBSET Record,
         {r \in seen : r.name \notin named} = others,
         NEW records, MadeFrom(proc[c].change, seen, records), Write(c, seen, records)
  PROVE  IInv'
<1> PICK change : change = proc[c].change
  OBVIOUS
<1> DEFINE touched == {r \in Record : Touched(r, change)}
           missed == ((seen \ zone) \cup (zone \ seen)) \ touched
<1>1. /\ zone' = records
      /\ put' = (put \ (touched \cup missed)) \cup
                  (IF change.op = "create" THEN {The(change)} ELSE {})
      /\ overlapped' = (overlapped \ touched) \cup missed
      /\ Goto(c, AfterAnswer(c)) \/ Goto(c, Idle)
      /\ UNCHANGED <<provider, named, others>>
  BY DEF Write
<1>2. change.name \in named
  BY DEF IInv, AllKnow, Knows, At
<1>3. proc' \in [Command -> ProcState] /\ AllKnow'
  BY <1>1, CommandMoves, AfterAnswerKnows, IdleKnows DEF IInv
<1>4. zone' \subseteq Record
  BY <1>1 DEF MadeFrom
<1>5. OthersUntouched'
  <2>1. \A r \in Record : r.name \notin named => (r \in records <=> r \in seen)
    BY <1>2 DEF MadeFrom
  <2>2. QED
    BY <1>1, <1>4, <2>1 DEF OthersUntouched
<1>6. LostOnlyToOverlap'
  <2>1. \A r \in Record : r \in touched =>
          (r \in records \ overlapped' <=> r \in put')
    BY <1>1 DEF MadeFrom
  <2>2. \A r \in Record : r \notin touched =>
          (r \in records \ overlapped' <=> r \in put')
    <3>1. zone \ overlapped = put
      BY DEF IInv, LostOnlyToOverlap
    <3>2. \A r \in Record : r \notin touched => (r \in records <=> r \in seen)
      BY DEF MadeFrom
    <3>3. change.op = "create" => The(change) \in touched
      BY DEF MadeFrom
    <3>4. QED
      BY <1>1, <3>1, <3>2, <3>3
  <2>3. put' \subseteq Record
    BY <1>1 DEF IInv, Typed, LostOnlyToOverlap, MadeFrom
  <2>4. QED
    BY <1>1, <1>4, <2>1, <2>2, <2>3 DEF LostOnlyToOverlap
<1>7. QED
  BY <1>3, <1>4, <1>5, <1>6 DEF IInv, Typed

LEMMA CallGoDaddyStep ==
  ASSUME IInv, NEW c \in Command, CallGoDaddy(c)
  PROVE  IInv'
<1> PICK change : change = proc[c].change
  OBVIOUS
<1>1. ~At(c, "idle") /\ change \in Change
  BY ProcFields DEF CallGoDaddy, At, IInv, Typed
<1>2. zone \in SUBSET Record /\ {r \in zone : r.name \notin named} = others
  BY DEF IInv, Typed, OthersUntouched
<1>3. CASE change.op = "create"
  <2>1. MadeFrom(change, zone, Replaced(zone, change))
    BY <1>1, <1>2, <1>3, ReplacedMade DEF CallGoDaddy
  <2>2. Write(c, zone, Replaced(zone, change))
    BY <1>3 DEF CallGoDaddy
  <2>3. QED
    BY <1>1, <1>2, <2>1, <2>2, WriteStep
<1>4. CASE change.op = "delete"
  <2>1. MadeFrom(change, zone, Filtered(zone, change))
    BY <1>1, <1>2, <1>4, FilteredMade
  <2>2. Write(c, zone, Filtered(zone, change))
    BY <1>4 DEF CallGoDaddy
  <2>3. QED
    BY <1>1, <1>2, <2>1, <2>2, WriteStep
<1>5. QED
  BY <1>1, <1>3, <1>4, ChangeFields

LEMMA getHostsStep ==
  ASSUME IInv, NEW c \in Command, getHosts(c)
  PROVE  IInv'
<1> PICK change : change = proc[c].change
  OBVIOUS
<1> DEFINE s == [step |-> "editing", change |-> change, hosts |-> zone]
<1>1. ~At(c, "idle") /\ change \in Change /\ change.name \in named
  BY ProcFields DEF getHosts, At, IInv, Typed, AllKnow, Knows
<1>2. Goto(c, AfterAnswer(c)) \/ Goto(c, s)
  BY DEF getHosts
<1>3. /\ s \in ProcState /\ s.step = "editing" /\ s.change = change /\ s.hosts = zone
  BY <1>1 DEF ProcState, IInv, Typed
<1> HIDE DEF s
<1>4. Knows(s)
  BY <1>1, <1>3 DEF Knows, IInv, OthersUntouched, getHosts
<1>5. UNCHANGED <<provider, zone, named, others, put, overlapped>>
  BY DEF getHosts, history
<1>6. proc' \in [Command -> ProcState] /\ AllKnow'
  BY <1>1, <1>2, <1>3, <1>4, <1>5, CommandMoves, AfterAnswerKnows DEF IInv
<1>7. QED
  BY <1>5, <1>6 DEF IInv, Typed, OthersUntouched, LostOnlyToOverlap

LEMMA setHostsStep ==
  ASSUME IInv, NEW c \in Command, setHosts(c)
  PROVE  IInv'
<1> PICK change, hosts : change = proc[c].change /\ hosts = proc[c].hosts
  OBVIOUS
<1>1. ~At(c, "idle") /\ change \in Change /\ hosts \in SUBSET Record
  BY ProcFields DEF setHosts, At, IInv, Typed
<1>2. provider = "namecheap" /\ {r \in hosts : r.name \notin named} = others
  BY DEF IInv, AllKnow, Knows, setHosts, At
<1>3. CASE change.op = "create"
  <2>1. MadeFrom(change, hosts, Appended(hosts, change))
    BY <1>1, <1>2, <1>3, AppendedMade
  <2>2. Write(c, hosts, Appended(hosts, change))
    BY <1>3 DEF setHosts
  <2>3. QED
    BY <1>1, <1>2, <2>1, <2>2, WriteStep
<1>4. CASE change.op = "delete"
  <2>1. MadeFrom(change, hosts, Filtered(hosts, change))
    BY <1>1, <1>4, FilteredMade
  <2>2. Write(c, hosts, Filtered(hosts, change))
    BY <1>4 DEF setHosts
  <2>3. QED
    BY <1>1, <1>2, <2>1, <2>2, WriteStep
<1>5. QED
  BY <1>1, <1>3, <1>4, ChangeFields

\* Each of the three ways to begin asks for a change of a record.
LEMMA ChangesAsked ==
  ASSUME NEW c \in Command, CreateRecord(c) \/ DeleteRecord(c) \/ CheckPrecursors(c)
  PROVE  \E change \in Change : Begin(c, change)
<1>1. ASSUME NEW n \in Name, NEW v \in Value
      PROVE  [op |-> "create", name |-> n, data |-> v, test |-> FALSE] \in Change
  BY DNSZoneAssumption DEF Change, AnyName, AnyValue, The, Record
<1>2. ASSUME NEW n \in Name, NEW v \in Value \cup {NoId}
      PROVE  [op |-> "delete", name |-> n, data |-> v, test |-> FALSE] \in Change
  BY DEF Change, AnyName, AnyValue
<1>3. [op |-> "create", name |-> TestName[c], data |-> TestName[c], test |-> TRUE] \in Change
  BY DNSZoneAssumption DEF Change, AnyName, AnyValue, The, Record, TestRecord
<1>4. QED
  BY <1>1, <1>2, <1>3 DEF CreateRecord, DeleteRecord, CheckPrecursors

LEMMA FailStep ==
  ASSUME IInv, NEW c \in Command, Fail(c)
  PROVE  IInv'
<1>1. Goto(c, Idle) /\ UNCHANGED <<provider, zone, named, others, put, overlapped>>
  BY DEF Fail, history
<1>2. proc' \in [Command -> ProcState] /\ AllKnow'
  BY <1>1, CommandMoves, IdleKnows DEF IInv
<1>3. QED
  BY <1>1, <1>2 DEF IInv, Typed, OthersUntouched, LostOnlyToOverlap

LEMMA InitIInv == Init => IInv
<1> SUFFICES ASSUME Init PROVE IInv
  OBVIOUS
<1>1. Typed
  BY DEF Init, Typed, Record, ProcState
<1>2. AllKnow
  BY DEF Init, AllKnow, Knows, Idle
<1>3. QED
  BY <1>1, <1>2 DEF Init, IInv, OthersUntouched, LostOnlyToOverlap

LEMMA NextIInv == IInv /\ [Next]_vars => IInv'
<1> SUFFICES ASSUME IInv, [Next]_vars PROVE IInv'
  OBVIOUS
<1>1. CASE UNCHANGED vars
  BY <1>1 DEF vars, IInv, Typed, AllKnow, Knows, OthersUntouched, LostOnlyToOverlap
<1>2. ASSUME NEW c \in Command, CreateRecord(c) \/ DeleteRecord(c) \/ CheckPrecursors(c)
      PROVE  IInv'
  BY <1>2, ChangesAsked, BeginStep
<1>3. QED
  BY <1>1, <1>2, CallGoDaddyStep, getHostsStep, setHostsStep, FailStep DEF Next

-----------------------------------------------------------------------------
(***************************************************************************)
(* The theorems                                                            *)
(***************************************************************************)

\* The inductive invariant holds in every reachable state.
THEOREM SpecIInv == Spec => []IInv
BY InitIInv, NextIInv, PTL DEF Spec

\* Every change of a Namecheap zone writes all of its records back, and yet those
\* of names that no command has named are the ones there were at first, for any
\* number of commands that overlap, fail or are cut off (setHosts).
THEOREM SpecOthersUntouched == Spec => []OthersUntouched
<1>1. IInv => OthersUntouched
  BY DEF IInv
<1>2. QED
  BY <1>1, SpecIInv, PTL

\* A record is missing, or there again, against the last change to it only if
\* another command read the zone before that change and wrote after it.
THEOREM SpecLostOnlyToOverlap == Spec => []LostOnlyToOverlap
<1>1. IInv => LostOnlyToOverlap
  BY DEF IInv
<1>2. QED
  BY <1>1, SpecIInv, PTL

-----------------------------------------------------------------------------
(***************************************************************************)
(* The database file                                                       *)
(***************************************************************************)

IsRow(r) ==
  /\ r = [status |-> r.status, supersedes |-> r.supersedes]
  /\ r.status \in {"active", "superseded", "revoked"}

IsRows(rows, top) ==
  /\ rows = [i \in DOMAIN rows |-> rows[i]]
  /\ \A i \in DOMAIN rows : i \in Int /\ i <= top /\ IsRow(rows[i])

Schema == {"missing", "old", "rebuilt", "current"}

\* A database whose rows are not newer than top.
IsFile(db, top) ==
  /\ db = [schema |-> db.schema, rows |-> db.rows]
  /\ db.schema \in [Table -> Schema]
  /\ db.rows = [t \in Table |-> db.rows[t]]
  /\ \A t \in Table :
       /\ IsRows(db.rows[t], top)
       /\ db.schema[t] = "missing" => DOMAIN db.rows[t] = {}
       /\ db.schema[t] = "old" => DOMAIN db.rows[t] \subseteq LegacyId[t]

\* Its unique indexes can be made.
Indexable(db) == \A t \in Table : Migrated(db, t) => OneActive(db.rows[t])

After == {"work", "backup", "save", "done"}

OpenerState ==
  [step : {"idle", "work", "backup", "save", "done", "validated", "copied", "remove", "rename"}]
    \cup [step : {"look", "index"}, table : DOMAIN Order, then : After]
    \cup [step : {"change"}, table : DOMAIN Order, then : After, seen : Schema]

OfRestore(s) ==
  \/ s.step \in {"validated", "copied", "save", "remove", "rename", "done"}
  \/ s.step \in {"look", "change", "index"} /\ s.then \in {"save", "done"}

LiveIds == IF live = NoFile THEN {} ELSE Ids(live)

\* A process on its way through the tables has brought those up to date that it
\* has been at, and sees a table as old if it is.
OnItsWay(s) ==
  /\ s.step \in {"look", "change", "index", "work", "backup", "save", "remove"} => live # NoFile
  /\ s.step \in {"look", "change", "index"} =>
       \A k \in DOMAIN Order : k < s.table => Migrated(live, Order[k])
  /\ s.step = "change" /\ live.schema[Order[s.table]] = "old" => s.seen = "old"
  /\ s.step = "index" => Migrated(live, Order[s.table])
  /\ s.step \in {"work", "backup", "save"} => \A t \in Table : Migrated(live, t)

\* A restore has its copy until it has renamed it, and has saved what it replaces.
HasCopy(s) ==
  \/ s.step \in {"copied", "save", "remove", "rename"}
  \/ s.step \in {"look", "change", "index"} /\ s.then = "save"

Holds(s) ==
  /\ OnItsWay(s)
  /\ HasCopy(s) => tmp # NoFile
  /\ s.step \in {"remove", "rename"} => LiveIds \subseteq saved \cup meanwhile

FilesSound ==
  /\ newest \in Nat
  /\ \A db \in {live, backup, tmp} : db = NoFile \/ IsFile(db, newest)
  /\ \A db \in {live, backup, tmp} : db # NoFile /\ ~twice => Indexable(db)

OpenersHold ==
  /\ opener \in [Process -> OpenerState]
  /\ \A p \in Process : Holds(opener[p])
  /\ \A p, q \in Process : OfRestore(opener[p]) /\ OfRestore(opener[q]) => p = q

DBInv == FilesSound /\ OpenersHold /\ CertificatesKept

\* What HistoryStands says of one step.
HistoryKept ==
  live # NoFile /\ live' # NoFile /\ ~twice' /\ ~(tmp # NoFile /\ tmp' = NoFile) =>
    \A t \in Table : Migrated(live, t) =>
      /\ Migrated(live', t)
      /\ \A i \in DOMAIN live.rows[t] :
           i \in DOMAIN live'.rows[t] /\ Becomes(live.rows[t][i], live'.rows[t][i])

-----------------------------------------------------------------------------
(***************************************************************************)
(* Files                                                                   *)
(***************************************************************************)

LEMMA FileIsThere ==
  ASSUME NEW db, NEW top, IsFile(db, top)
  PROVE  db # NoFile
<1>1. db = [schema |-> db.schema, rows |-> db.rows]
  BY DEF IsFile
<1>2. SUFFICES ASSUME db = NoFile PROVE FALSE
  OBVIOUS
<1>3. DOMAIN db = {"schema", "rows"} /\ DOMAIN db = {"absent"}
  BY <1>1, <1>2 DEF NoFile
<1>4. QED
  BY <1>3

LEMMA RowsLater ==
  ASSUME NEW rows, NEW top \in Nat, NEW later \in Nat, top <= later, IsRows(rows, top)
  PROVE  IsRows(rows, later)
BY DEF IsRows

LEMMA FileLater ==
  ASSUME NEW db, NEW top \in Nat, NEW later \in Nat, top <= later, IsFile(db, top)
  PROVE  IsFile(db, later)
<1>1. \A t \in Table : IsRows(db.rows[t], later)
  BY RowsLater DEF IsFile
<1>2. QED
  BY <1>1 DEF IsFile

LEMMA FileFields ==
  ASSUME NEW f, NEW g, NEW db, db = [schema |-> f, rows |-> g]
  PROVE  db.schema = f /\ db.rows = g /\ db = [schema |-> db.schema, rows |-> db.rows]
OBVIOUS

\* A rebuild keeps the rows, and leaves one of them active.
LEMMA RebuiltRows ==
  ASSUME NEW t \in Table, NEW rows, NEW top, IsRows(rows, top)
  PROVE  /\ IsRows(Rebuilt(t, rows), top)
         /\ DOMAIN Rebuilt(t, rows) = DOMAIN rows
         /\ DOMAIN rows \subseteq LegacyId[t] => OneActive(Rebuilt(t, rows))
<1>1. t \in {"public_certs", "private_certs"}
  BY DatabaseAssumption DEF Table
<1>2. CASE t = "public_certs"
  <2>1. Rebuilt(t, rows) = [i \in DOMAIN rows |-> [status |-> "active", supersedes |-> NoId]]
    BY <1>2 DEF Rebuilt, RebuiltPublicCerts
  <2>2. \A i, j \in LegacyId[t] : i = j
    BY DatabaseAssumption, <1>2 DEF Table
  <2>3. QED
    BY <2>1, <2>2 DEF IsRows, IsRow, OneActive
<1>3. CASE t = "private_certs"
  <2>1. Rebuilt(t, rows) =
          [i \in DOMAIN rows |->
             [ status |-> IF i = Latest(DOMAIN rows) THEN "active" ELSE "superseded",
               supersedes |-> Latest(Before(DOMAIN rows, i)) ]]
    BY <1>3 DEF Rebuilt, RebuiltPrivateCerts
  <2>2. PICK last : last = Latest(DOMAIN rows)
    OBVIOUS
  <2>3. /\ DOMAIN Rebuilt(t, rows) = DOMAIN rows
        /\ \A i \in DOMAIN rows :
             /\ IsRow(Rebuilt(t, rows)[i])
             /\ Rebuilt(t, rows)[i].status = "active" => i = last
    BY <2>1, <2>2 DEF IsRow
  <2>4. OneActive(Rebuilt(t, rows))
    BY <2>3 DEF OneActive
  <2>5. Rebuilt(t, rows) = [i \in DOMAIN rows |-> Rebuilt(t, rows)[i]]
    BY <2>1
  <2>6. QED
    BY <2>3, <2>4, <2>5 DEF IsRows
<1>4. QED
  BY <1>1, <1>2, <1>3

LEMMA EmptyIsFile ==
  ASSUME NEW top
  PROVE  /\ IsFile(EmptyFile, top)
         /\ \A t \in Table : DOMAIN EmptyFile.rows[t] = {} /\ EmptyFile.schema[t] = "missing"
         /\ Indexable(EmptyFile)
<1>1. PICK f, g : /\ f = [t \in Table |-> "missing"] /\ g = [t \in Table |-> EmptyTable]
                  /\ EmptyFile = [schema |-> f, rows |-> g]
  BY DEF EmptyFile, EmptyTable, EmptyTable
<1>2. /\ EmptyFile.schema = f /\ EmptyFile.rows = g
      /\ EmptyFile = [schema |-> EmptyFile.schema, rows |-> EmptyFile.rows]
  BY <1>1, FileFields
<1>3. /\ f \in [Table -> Schema]
      /\ \A t \in Table : g[t] = EmptyTable /\ f[t] = "missing"
      /\ g = [t \in Table |-> g[t]]
  BY <1>1 DEF Schema
<1>4. EmptyTable = [i \in DOMAIN EmptyTable |-> EmptyTable[i]] /\ DOMAIN EmptyTable = {}
  BY DEF EmptyTable
<1>5. IsRows(EmptyTable, top) /\ OneActive(EmptyTable)
  BY <1>4 DEF IsRows, OneActive
<1>6. IsFile(EmptyFile, top)
  BY <1>2, <1>3, <1>4, <1>5 DEF IsFile
<1>7. QED
  BY <1>2, <1>3, <1>4, <1>5, <1>6 DEF Indexable

\* A whole Open of a file.
LEMMA OpenedIsFile ==
  ASSUME NEW db, NEW top, IsFile(db, top)
  PROVE  IsFile(Opened(db), top)
<1>1. PICK f, g : /\ f = [t \in Table |-> "current"]
                  /\ g = [t \in Table |-> IF NeedsRebuild(db.schema[t])
                                             THEN Rebuilt(t, db.rows[t]) ELSE db.rows[t]]
                  /\ Opened(db) = [schema |-> f, rows |-> g]
  BY DEF Opened
<1>2. /\ Opened(db).schema = f /\ Opened(db).rows = g
      /\ Opened(db) = [schema |-> Opened(db).schema, rows |-> Opened(db).rows]
  BY <1>1, FileFields
<1>3. \A t \in Table : IsRows(g[t], top)
  <2> TAKE t \in Table
  <2>1. IsRows(db.rows[t], top)
    BY DEF IsFile
  <2>2. g[t] = Rebuilt(t, db.rows[t]) \/ g[t] = db.rows[t]
    BY <1>1
  <2>3. QED
    BY <2>1, <2>2, RebuiltRows
<1>4. /\ f \in [Table -> Schema]
      /\ \A t \in Table : f[t] = "current"
      /\ g = [t \in Table |-> g[t]]
  BY <1>1 DEF Schema
<1>5. QED
  BY <1>2, <1>3, <1>4 DEF IsFile

-----------------------------------------------------------------------------
(***************************************************************************)
(* Processes                                                               *)
(***************************************************************************)

LEMMA StateFields ==
  ASSUME NEW s \in OpenerState
  PROVE  /\ s.step \in {"idle", "work", "backup", "save", "done", "validated", "copied", "remove",
                        "rename", "look", "change", "index"}
         /\ s.step \in {"look", "change", "index"} => s.table \in DOMAIN Order /\ s.then \in After
         /\ s.step = "change" => s.seen \in Schema
BY DEF OpenerState

LEMMA RestoringIs ==
  ASSUME NEW p \in Process, opener[p] \in OpenerState
  PROVE  Restoring(p) <=> OfRestore(opener[p])
<1>1. PICK s \in OpenerState : s = opener[p]
  OBVIOUS
<1>2. "then" \in DOMAIN s <=> s.step \in {"look", "change", "index"}
  BY DEF OpenerState
<1>3. QED
  BY <1>1, <1>2 DEF Restoring, OfRestore

LEMMA TablesInOrder ==
  /\ Len(Order) \in Nat /\ Len(Order) >= 1 /\ DOMAIN Order = 1 .. Len(Order)
  /\ \A k \in DOMAIN Order : Order[k] \in Table
  /\ \A t \in Table : \E k \in DOMAIN Order : t = Order[k]
  /\ Issued \subseteq Table /\ Revoked \subseteq Table
BY DatabaseAssumption DEF Table

\* The tables that are up to date stay so, and none becomes old.
LiveKept ==
  live # NoFile =>
    /\ live' # NoFile
    /\ \A t \in Table :
         /\ Migrated(live, t) => Migrated(live', t)
         /\ live'.schema[t] = "old" => live.schema[t] = "old"

LEMMA StillHolds ==
  ASSUME NEW s \in OpenerState, Holds(s), LiveKept,
         HasCopy(s) => tmp' = tmp,
         s.step \in {"remove", "rename"} => LiveIds' \subseteq LiveIds \cup meanwhile',
         saved \subseteq saved', meanwhile \subseteq meanwhile'
  PROVE  Holds(s)'
<1>1. OnItsWay(s)'
  <2>1. s.step \in {"look", "change", "index"} =>
          \A k \in DOMAIN Order : k < s.table => Migrated(live', Order[k])
    BY TablesInOrder DEF Holds, OnItsWay, LiveKept
  <2>2. s.step = "change" /\ live'.schema[Order[s.table]] = "old" => s.seen = "old"
    BY TablesInOrder, StateFields DEF Holds, OnItsWay, LiveKept
  <2>3. s.step = "index" => Migrated(live', Order[s.table])
    BY TablesInOrder, StateFields DEF Holds, OnItsWay, LiveKept
  <2>4. s.step \in {"work", "backup", "save"} => \A t \in Table : Migrated(live', t)
    BY DEF Holds, OnItsWay, LiveKept
  <2>5. s.step \in {"look", "change", "index", "work", "backup", "save", "remove"} =>
          live' # NoFile
    BY DEF Holds, OnItsWay, LiveKept
  <2>6. QED
    BY <2>1, <2>2, <2>3, <2>4, <2>5 DEF OnItsWay, Migrated
<1>2. HasCopy(s) => tmp' # NoFile
  BY DEF Holds
<1>3. s.step \in {"remove", "rename"} => LiveIds' \subseteq saved' \cup meanwhile'
  BY DEF Holds
<1>4. QED
  BY <1>1, <1>2, <1>3 DEF Holds, NoFile

\* A step of one process that keeps the live file in place.
LEMMA OrdinaryStep ==
  ASSUME DBInv, NEW p \in Process, NEW s \in OpenerState,
         opener' = [opener EXCEPT ![p] = s], FilesSound', LiveKept, Holds(s)',
         \A q \in Process \ {p} : OfRestore(opener[q]) => tmp' = tmp /\ ~OfRestore(s),
         LiveIds \subseteq LiveIds', Replacing => LiveIds' \subseteq LiveIds \cup meanwhile',
         saved \subseteq saved', meanwhile \subseteq meanwhile', made' \subseteq made \cup LiveIds'
  PROVE  DBInv'
<1>1. \A q \in Process : opener[q] \in OpenerState /\ opener'[q] = IF q = p THEN s ELSE opener[q]
  BY DEF DBInv, OpenersHold
<1>2. \A q \in Process : Holds(opener[q])'
  <2> TAKE q \in Process
  <2>1. CASE q = p
    <3>1. opener'[q] = s
      BY <1>1, <2>1
    <3>2. QED
      BY <3>1 DEF Holds, OnItsWay, HasCopy
  <2>2. CASE q # p
    <3>1. PICK u \in OpenerState : u = opener[q]
      BY <1>1
    <3>2. Holds(u)
      BY <3>1 DEF DBInv, OpenersHold
    <3>3. HasCopy(u) => OfRestore(opener[q])
      BY <3>1 DEF HasCopy, OfRestore
    <3>4. u.step \in {"remove", "rename"} => Replacing
      BY <3>1 DEF Replacing
    <3>5. Holds(u)'
      BY <2>2, <3>2, <3>3, <3>4, StillHolds
    <3>6. opener'[q] = u
      BY <1>1, <2>2, <3>1
    <3>7. QED
      BY <3>5, <3>6 DEF Holds, OnItsWay, HasCopy
  <2>3. QED
    BY <2>1, <2>2
<1>3. \A q, r \in Process : OfRestore(opener'[q]) /\ OfRestore(opener'[r]) => q = r
  BY <1>1 DEF DBInv, OpenersHold
<1>4. OpenersHold'
  BY <1>1, <1>2, <1>3 DEF DBInv, OpenersHold, OfRestore
<1>5. CertificatesKept'
  BY DEF DBInv, CertificatesKept, LiveIds
<1>6. QED
  BY <1>4, <1>5 DEF DBInv

\* A step that replaces the live file: what others have open is lost with it.
LEMMA ReplacingStep ==
  ASSUME DBInv, NEW p \in Process, NEW s \in OpenerState, OnlyProceeds(p, s),
         FilesSound', Holds(s)', CertificatesKept'
  PROVE  DBInv'
<1>1. \A q \in Process : opener'[q] = IF q = p THEN s ELSE Closed
  BY DEF OnlyProceeds
<1>2. Closed \in OpenerState /\ Closed.step = "idle"
  BY DEF Closed, OpenerState
<1>3. opener' \in [Process -> OpenerState]
  BY <1>2 DEF OnlyProceeds
<1>4. \A q \in Process : Holds(opener[q])'
  <2> TAKE q \in Process
  <2>1. CASE q = p
    <3>1. opener'[q] = s
      BY <1>1, <2>1
    <3>2. QED
      BY <3>1 DEF Holds, OnItsWay, HasCopy
  <2>2. CASE q # p
    <3>1. opener'[q].step = "idle"
      BY <1>1, <1>2, <2>2
    <3>2. QED
      BY <3>1 DEF Holds, OnItsWay, HasCopy
  <2>3. QED
    BY <2>1, <2>2
<1>5. \A q, r \in Process : OfRestore(opener'[q]) /\ OfRestore(opener'[r]) => q = r
  BY <1>1, <1>2 DEF OfRestore
<1>6. QED
  BY <1>3, <1>4, <1>5 DEF DBInv, OpenersHold, OfRestore

-----------------------------------------------------------------------------
(***************************************************************************)
(* The steps                                                               *)
(***************************************************************************)

LEMMA InitDBInv ==
  ASSUME DatabaseInit
  PROVE  DBInv
<1>1. newest \in Nat /\ \A t \in Table : \A i \in LegacyId[t] : i \in Nat /\ i <= newest
  <2>1. \A t \in Table : LegacyId[t] \subseteq Nat /\ LegacyId[t] \subseteq LegacyIds
    BY DatabaseAssumption, TablesInOrder DEF LegacyIds
  <2>2. LegacyIds \subseteq Nat
    BY <2>1 DEF LegacyIds
  <2>3. QED
    BY <2>1, <2>2 DEF DatabaseInit
<1>2. ASSUME NEW db \in OlderDatabases PROVE IsFile(db, newest) /\ Indexable(db)
  <2>1. PICK ids \in [Table -> SUBSET (1 .. MaxId)] :
          (\A t \in Table : ids[t] \subseteq LegacyId[t]) /\ db = Legacy(ids)
    BY <1>2 DEF OlderDatabases
  <2>2. PICK f, g : /\ f = [t \in Table |-> "old"]
                    /\ g = [t \in Table |->
                              [i \in ids[t] |-> [status |-> "active", supersedes |-> NoId]]]
                    /\ db = [schema |-> f, rows |-> g]
    BY <2>1 DEF Legacy
  <2>3. db.schema = f /\ db.rows = g /\ db = [schema |-> db.schema, rows |-> db.rows]
    BY <2>2, FileFields
  <2>4. f \in [Table -> Schema] /\ \A t \in Table : f[t] = "old"
    BY <2>2 DEF Schema
  <2>5. \A t \in Table : IsRows(g[t], newest) /\ DOMAIN g[t] \subseteq LegacyId[t]
    BY <1>1, <2>1, <2>2 DEF IsRows, IsRow
  <2>6. g = [t \in Table |-> g[t]]
    BY <2>2
  <2>7. QED
    BY <2>3, <2>4, <2>5, <2>6 DEF IsFile, Indexable, Migrated
<1>3. FilesSound
  BY <1>1, <1>2 DEF DatabaseInit, FilesSound
<1>4. \A p \in Process : opener[p] = Closed /\ opener[p].step = "idle" /\ opener[p] \in OpenerState
  BY DEF DatabaseInit, Closed, OpenerState
<1>5. OpenersHold
  BY <1>4 DEF OpenersHold, Holds, OnItsWay, HasCopy, OfRestore, DatabaseInit
<1>6. CertificatesKept
  BY DEF DatabaseInit, CertificatesKept
<1>7. QED
  BY <1>3, <1>5, <1>6 DEF DBInv

\* What a process does without touching the live file or the copy.
LEMMA NothingLive ==
  ASSUME DBInv, NEW p \in Process, NEW s \in OpenerState, Proceed(p, s),
         live' = live, tmp' = tmp, newest' = newest, made' = made, meanwhile' = meanwhile,
         twice' <=> twice, backup' \in {backup, live, NoFile}, saved \subseteq saved',
         OfRestore(s) => OfRestore(opener[p]), Holds(s)'
  PROVE  DBInv' /\ HistoryKept
<1>1. FilesSound'
  BY DEF DBInv, FilesSound, Indexable, Migrated, NoFile
<1>2. LiveKept /\ LiveIds' = LiveIds
  BY DEF LiveKept, LiveIds, NoFile, Ids, Migrated
<1>3. \A q \in Process \ {p} : OfRestore(opener[q]) => ~OfRestore(s)
  BY DEF DBInv, OpenersHold
<1>4. DBInv'
  BY <1>1, <1>2, <1>3, OrdinaryStep DEF Proceed
<1>5. HistoryKept
  BY DEF HistoryKept, Becomes, Migrated
<1>6. QED
  BY <1>4, <1>5

\* The live file is opened, and made if it is not there.
LEMMA OpenLiveStep ==
  ASSUME DBInv, NEW p \in Process, NEW then \in After,
         OpenLive(p, then), then \in {"work", "backup"}, tmp' = tmp, newest' = newest,
         made' = made, meanwhile' = meanwhile, twice' = twice, saved' = saved,
         backup' \in {backup, NoFile}
  PROVE  DBInv' /\ HistoryKept
<1>1. PICK s : s = Opening(then)
  OBVIOUS
<1>2. /\ s \in OpenerState /\ s.step = "look" /\ s.table = 1 /\ s.then = then
      /\ 1 \in DOMAIN Order
  BY <1>1, TablesInOrder DEF Opening, OpenerState
<1>3. /\ live' # NoFile
      /\ IsFile(live', newest) /\ (~twice => Indexable(live'))
      /\ live # NoFile => live' = live
      /\ live = NoFile => live' = EmptyFile
  BY EmptyIsFile, FileIsThere DEF OpenLive, DBInv, FilesSound
<1>4. FilesSound'
  BY <1>3 DEF DBInv, FilesSound, Indexable, Migrated, NoFile
<1>5. LiveKept /\ LiveIds' = LiveIds
  <2>1. CASE live = NoFile
    <3>1. LiveIds = {} /\ LiveIds' = Ids(live')
      BY <1>3, <2>1 DEF LiveIds, NoFile, Ids
    <3>2. \A t \in Table : DOMAIN live'.rows[t] = {}
      BY <1>3, <2>1, EmptyIsFile
    <3>3. QED
      BY <2>1, <3>1, <3>2 DEF LiveKept, Ids
  <2>2. CASE live # NoFile
    BY <1>3, <2>2 DEF LiveKept, LiveIds, NoFile, Ids, Migrated
  <2>3. QED
    BY <2>1, <2>2
<1>6. Holds(s)'
  BY <1>2, <1>3, TablesInOrder DEF Holds, OnItsWay, HasCopy, NoFile
<1>7. ~OfRestore(s)
  BY <1>2 DEF OfRestore
<1>8. DBInv'
  BY <1>1, <1>2, <1>4, <1>5, <1>6, <1>7, OrdinaryStep DEF OpenLive, Proceed
<1>9. HistoryKept
  BY <1>3 DEF HistoryKept, Becomes, Migrated
<1>10. QED
  BY <1>8, <1>9

LEMMA Lookers ==
  ASSUME DBInv, NEW p \in Process, NEW s, s = opener[p],
         s.step \in {"look", "change", "index"}
  PROVE  /\ s \in OpenerState /\ Holds(s) /\ OnItsWay(s)
         /\ s.table \in DOMAIN Order /\ s.table \in Nat /\ s.then \in After
         /\ Order[s.table] \in Table
         /\ live # NoFile /\ IsFile(live, newest)
         /\ HasCopy(s) => tmp # NoFile
<1>1. s \in OpenerState /\ Holds(s)
  BY DEF DBInv, OpenersHold
<1>2. s.table \in DOMAIN Order /\ s.table \in Nat /\ s.then \in After /\ Order[s.table] \in Table
  BY <1>1, StateFields, TablesInOrder
<1>3. QED
  BY <1>1, <1>2 DEF Holds, OnItsWay, DBInv, FilesSound

LEMMA LookStep ==
  ASSUME DBInv, NEW p \in Process, LookAtTable(p)
  PROVE  DBInv' /\ HistoryKept
<1>1. PICK s, seen : s = opener[p] /\ seen = live.schema[Order[s.table]]
  OBVIOUS
<1>2. s.step = "look"
  BY <1>1 DEF LookAtTable, Doing
<1>3. /\ s \in OpenerState /\ Holds(s) /\ OnItsWay(s) /\ s.table \in DOMAIN Order /\ s.then \in After
      /\ Order[s.table] \in Table /\ IsFile(live, newest)
  BY <1>1, <1>2, Lookers
<1>4. seen \in Schema
  BY <1>1, <1>3 DEF IsFile
<1>5. PICK u : u = [step |-> "change", table |-> s.table, then |-> s.then, seen |-> seen]
  OBVIOUS
<1>6. /\ u \in OpenerState /\ u.step = "change" /\ u.table = s.table /\ u.then = s.then
      /\ u.seen = seen
  BY <1>3, <1>4, <1>5 DEF OpenerState
<1>7. Proceed(p, u)
  BY <1>1, <1>5 DEF LookAtTable, This
<1>8. UNCHANGED <<live, backup, tmp, saved, newest, made, meanwhile, twice>>
  BY DEF LookAtTable, files, databaseHistory
<1>9. OnItsWay(u)
  BY <1>1, <1>2, <1>3, <1>6 DEF OnItsWay
<1>10. Holds(u)
  BY <1>2, <1>3, <1>6, <1>9 DEF Holds, HasCopy
<1>11. Holds(u)'
  BY <1>8, <1>10 DEF Holds, OnItsWay, HasCopy, LiveIds, NoFile, Ids, Migrated
<1>12. OfRestore(u) => OfRestore(opener[p])
  BY <1>1, <1>2, <1>6 DEF OfRestore
<1>13. QED
  BY <1>6, <1>7, <1>8, <1>11, <1>12, NothingLive

\* One table of the live file changes, and the file is sound.
LEMMA LiveTableChanges ==
  ASSUME IsFile(live, newest), newest \in Nat, newest' \in Nat, newest <= newest',
         NEW t \in Table, NEW state \in {"rebuilt", "current"} \cup {live.schema[t]},
         state \notin {"missing", "old"},
         NEW rows, IsRows(rows, newest'), live' = WithTable(live, t, state, rows)
  PROVE  /\ IsFile(live', newest')
         /\ \A u \in Table : live'.schema[u] = IF u = t THEN state ELSE live.schema[u]
         /\ \A u \in Table : live'.rows[u] = IF u = t THEN rows ELSE live.rows[u]
<1>1. PICK db, new, top, later : db = live /\ new = live' /\ top = newest /\ later = newest'
  OBVIOUS
<1>2. /\ top \in Nat /\ later \in Nat /\ top <= later /\ IsFile(db, top)
      /\ state \in {"rebuilt", "current"} \cup {db.schema[t]}
      /\ IsRows(rows, later)
      /\ new = WithTable(db, t, state, rows)
  BY <1>1
<1>3. /\ db.schema \in [Table -> Schema]
      /\ db.rows = [u \in Table |-> db.rows[u]]
  BY <1>2 DEF IsFile
<1>4. PICK states, tables : states = db.schema /\ tables = db.rows
  OBVIOUS
<1>5. PICK f, g : f = [states EXCEPT ![t] = state] /\ g = [tables EXCEPT ![t] = rows]
  OBVIOUS
<1>6. /\ new.schema = f /\ new.rows = g
      /\ new = [schema |-> new.schema, rows |-> new.rows]
  BY <1>2, <1>4, <1>5, FileFields DEF WithTable
<1>7. /\ new.schema \in [Table -> Schema]
      /\ \A u \in Table : new.schema[u] = (IF u = t THEN state ELSE db.schema[u])
  BY <1>2, <1>3, <1>4, <1>5, <1>6 DEF Schema
<1>8. /\ new.rows = [u \in Table |-> new.rows[u]]
      /\ \A u \in Table : new.rows[u] = (IF u = t THEN rows ELSE db.rows[u])
  BY <1>3, <1>4, <1>5, <1>6
<1>9. \A u \in Table : IsRows(db.rows[u], later)
  BY <1>2, RowsLater DEF IsFile
<1>10. \A u \in Table :
         /\ IsRows(new.rows[u], later)
         /\ new.schema[u] = "missing" => DOMAIN new.rows[u] = {}
         /\ new.schema[u] = "old" => DOMAIN new.rows[u] \subseteq LegacyId[u]
  BY <1>2, <1>7, <1>8, <1>9 DEF IsFile
<1>11. IsFile(new, later)
  BY <1>6, <1>7, <1>8, <1>10 DEF IsFile
<1>12. QED
  BY <1>1, <1>7, <1>8, <1>11

\* The live file changes in one table, which is up to date now or was before.
LEMMA LiveTableStep ==
  ASSUME DBInv, live # NoFile, NEW p \in Process, NEW s \in OpenerState,
         Proceed(p, s),
         NEW t \in Table, NEW state \in {"rebuilt", "current"} \cup {live.schema[t]},
         Migrated(live, t) \/ state \in {"rebuilt", "current"},
         NEW rows, live' = WithTable(live, t, state, rows),
         newest' \in Nat, newest <= newest', IsRows(rows, newest'),
         DOMAIN live.rows[t] \subseteq DOMAIN rows,
         Replacing => DOMAIN rows \subseteq DOMAIN live.rows[t] \cup meanwhile',
         meanwhile \subseteq meanwhile', made' \subseteq made \cup DOMAIN rows,
         backup' = backup, tmp' = tmp, saved' = saved, twice => twice',
         ~twice' => OneActive(rows),
         ~twice' /\ Migrated(live, t) =>
           \A i \in DOMAIN live.rows[t] : Becomes(live.rows[t][i], rows[i]),
         OfRestore(s) => OfRestore(opener[p]),
         Migrated(live', t) /\ LiveKept => Holds(s)'
  PROVE  DBInv' /\ HistoryKept
<1>1. IsFile(live, newest) /\ newest \in Nat
  BY DEF DBInv, FilesSound
<1>2. state \notin {"missing", "old"}
  BY DEF Migrated
<1>3. /\ IsFile(live', newest')
      /\ \A u \in Table : live'.schema[u] = IF u = t THEN state ELSE live.schema[u]
      /\ \A u \in Table : live'.rows[u] = IF u = t THEN rows ELSE live.rows[u]
  BY <1>1, <1>2, LiveTableChanges
<1>4. live' # NoFile
  BY <1>3, FileIsThere
<1>5. Migrated(live', t) /\ LiveKept
  BY <1>2, <1>3, <1>4 DEF LiveKept, Migrated
<1>6. FilesSound'
  <2>1. ~twice' => Indexable(live')
    BY <1>2, <1>3 DEF DBInv, FilesSound, Indexable, Migrated
  <2>2. \A db \in {backup, tmp} : db = NoFile \/ IsFile(db, newest')
    BY <1>1, FileLater DEF DBInv, FilesSound
  <2>3. QED
    BY <1>3, <2>1, <2>2 DEF DBInv, FilesSound, Indexable, Migrated, NoFile
<1>7. /\ LiveIds \subseteq LiveIds'
      /\ LiveIds' \subseteq LiveIds \cup DOMAIN rows
      /\ DOMAIN rows \subseteq LiveIds'
      /\ DOMAIN live.rows[t] \subseteq LiveIds
  <2>1. \A i : i \in LiveIds <=> \E u \in Table : i \in DOMAIN live.rows[u]
    BY DEF LiveIds, Ids
  <2>2. \A i : i \in LiveIds' <=> \E u \in Table : i \in DOMAIN live'.rows[u]
    BY <1>4 DEF LiveIds, Ids, NoFile
  <2>3. QED
    BY <1>3, <2>1, <2>2
<1>8. \A q \in Process \ {p} : OfRestore(opener[q]) => ~OfRestore(s)
  BY DEF DBInv, OpenersHold
<1>9. DBInv'
  <2>1. made' \subseteq made \cup LiveIds'
    BY <1>7
  <2>2. Replacing => LiveIds' \subseteq LiveIds \cup meanwhile'
    BY <1>7
  <2>3. QED
    BY <1>5, <1>6, <1>7, <1>8, <2>1, <2>2, OrdinaryStep DEF Proceed
<1>10. HistoryKept
  BY <1>2, <1>3 DEF HistoryKept, Becomes, Migrated
<1>11. QED
  BY <1>9, <1>10

LEMMA ChangeStep ==
  ASSUME DBInv, NEW p \in Process, ChangeTable(p)
  PROVE  DBInv' /\ HistoryKept
<1>1. PICK s, t, rows, top : s = opener[p] /\ t = Order[s.table] /\ rows = live.rows[t] /\ top = newest
  OBVIOUS
<1>2. s.step = "change"
  BY <1>1 DEF ChangeTable, Doing
<1>3. /\ s \in OpenerState /\ Holds(s) /\ OnItsWay(s) /\ s.table \in DOMAIN Order /\ s.then \in After
      /\ s.table \in Nat /\ t \in Table /\ live # NoFile /\ IsFile(live, newest)
  BY <1>1, <1>2, Lookers
<1>4. PICK u : u = [step |-> "index", table |-> s.table, then |-> s.then]
  OBVIOUS
<1>5. u \in OpenerState /\ u.step = "index" /\ u.table = s.table /\ u.then = s.then
  BY <1>3, <1>4 DEF OpenerState
<1>6. /\ Proceed(p, u)
      /\ UNCHANGED <<backup, tmp, saved, newest, made, meanwhile>>
      /\ twice' = (twice \/ (s.seen = "old" /\ live.schema[t] # "old"))
      /\ live' = IF live.schema[t] = "missing" THEN WithTable(live, t, "rebuilt", rows)
                 ELSE IF NeedsRebuild(s.seen)
                 THEN WithTable(live, t, "rebuilt", Rebuilt(t, rows))
                 ELSE live
  BY <1>1, <1>4 DEF ChangeTable, This
<1>7. /\ IsRows(rows, newest) /\ newest \in Nat
      /\ live.schema[t] \in Schema
      /\ live.schema[t] = "missing" => DOMAIN rows = {}
      /\ live.schema[t] = "old" => DOMAIN rows \subseteq LegacyId[t]
  BY <1>1, <1>3 DEF IsFile, DBInv, FilesSound
<1>8. ASSUME Migrated(live', t), LiveKept PROVE Holds(u)'
  <2>1. LiveIds' \subseteq saved' \cup meanwhile' \/ u.step \notin {"remove", "rename"}
    BY <1>5
  <2>2. OnItsWay(u)'
    BY <1>1, <1>2, <1>3, <1>5, <1>8, TablesInOrder DEF OnItsWay, LiveKept, Migrated, NoFile
  <2>3. HasCopy(u) => HasCopy(s)
    BY <1>2, <1>5 DEF HasCopy
  <2>4. QED
    BY <1>3, <1>5, <1>6, <2>2, <2>3 DEF Holds, HasCopy, NoFile
<1>9. OfRestore(u) => OfRestore(opener[p])
  BY <1>1, <1>2, <1>5 DEF OfRestore
<1>10. CASE live.schema[t] = "missing"
  <2>1. live' = WithTable(live, t, "rebuilt", rows)
    BY <1>6, <1>10
  <2>2. OneActive(rows)
    BY <1>7, <1>10 DEF OneActive
  <2>3. ~Migrated(live, t)
    BY <1>10 DEF Migrated
  <2>4. IsRows(rows, newest') /\ newest' \in Nat /\ newest <= newest'
    BY <1>6, <1>7
  <2>5. twice => twice'
    BY <1>6
  <2>6. DOMAIN live.rows[t] = DOMAIN rows
    BY <1>1
  <2>7. DOMAIN rows = {}
    BY <1>7, <1>10
  <2>8. QED
    BY <1>3, <1>5, <1>6, <1>8, <1>9, <2>1, <2>2, <2>3, <2>4, <2>5, <2>6, <2>7, LiveTableStep
<1>11. CASE live.schema[t] # "missing" /\ NeedsRebuild(s.seen)
  <2>1. PICK new : new = Rebuilt(t, rows)
    OBVIOUS
  <2>2. live' = WithTable(live, t, "rebuilt", new)
    BY <1>6, <1>11, <2>1
  <2>3. s.seen = "old"
    BY <1>11 DEF NeedsRebuild
  <2>4. ~twice' => live.schema[t] = "old"
    BY <1>6, <2>3
  <2>5. IsRows(rows, top)
    BY <1>1, <1>7
  <2>6. /\ IsRows(new, top) /\ DOMAIN new = DOMAIN rows
        /\ DOMAIN rows \subseteq LegacyId[t] => OneActive(new)
    <3>1. t \in Table
      BY <1>3
    <3>2. QED
      BY <2>1, <2>5, <3>1, RebuiltRows, Zenon
  <2>7. IsRows(new, newest') /\ newest' \in Nat /\ newest <= newest'
    BY <1>1, <1>6, <1>7, <2>6
  <2>8. /\ ~twice' => OneActive(new)
        /\ ~twice' => ~Migrated(live, t)
    BY <1>7, <2>4, <2>6 DEF Migrated
  <2>9. DOMAIN live.rows[t] = DOMAIN new
    BY <1>1, <2>6
  <2>10. twice => twice'
    BY <1>6
  <2>11. QED
    BY <1>3, <1>5, <1>6, <1>8, <1>9, <2>2, <2>7, <2>8, <2>9, <2>10, LiveTableStep
<1>12. CASE live.schema[t] # "missing" /\ ~NeedsRebuild(s.seen)
  <2>1. live' = live
    BY <1>6, <1>12
  <2>2. s.seen # "old" /\ live.schema[t] # "old"
    BY <1>1, <1>2, <1>3, <1>12 DEF NeedsRebuild, OnItsWay
  <2>3. twice' <=> twice
    BY <1>6, <2>2
  <2>4. Migrated(live', t) /\ LiveKept
    BY <1>7, <1>12, <2>1, <2>2 DEF Migrated, Schema, LiveKept
  <2>5. QED
    BY <1>5, <1>6, <1>8, <1>9, <2>1, <2>3, <2>4, NothingLive
<1>13. QED
  BY <1>10, <1>11, <1>12

LEMMA IndexStep ==
  ASSUME DBInv, NEW p \in Process, IndexTable(p)
  PROVE  DBInv' /\ HistoryKept
<1>1. PICK s, t, rows : s = opener[p] /\ t = Order[s.table] /\ rows = live.rows[t]
  OBVIOUS
<1>2. s.step = "index"
  BY <1>1 DEF IndexTable, Doing
<1>3. /\ s \in OpenerState /\ Holds(s) /\ OnItsWay(s) /\ s.table \in DOMAIN Order /\ s.then \in After
      /\ s.table \in Nat /\ t \in Table /\ live # NoFile /\ IsFile(live, newest)
  BY <1>1, <1>2, Lookers
<1>4. PICK u : u = IF s.table < Len(Order)
                   THEN [step |-> "look", table |-> s.table + 1, then |-> s.then]
                   ELSE [step |-> s.then]
  OBVIOUS
<1>5. /\ u \in OpenerState
      /\ \/ u.step = "look" /\ u.table = s.table + 1 /\ u.then = s.then
         \/ u.step = s.then /\ s.table = Len(Order)
  BY <1>3, <1>4, TablesInOrder DEF OpenerState, After
<1>6. /\ Proceed(p, u)
      /\ UNCHANGED <<backup, tmp, saved, newest, made, meanwhile, twice>>
      /\ live' = WithTable(live, t, "current", rows)
      /\ OneActive(rows)
  BY <1>1, <1>4 DEF IndexTable, This, databaseHistory
<1>7. IsRows(rows, newest) /\ newest \in Nat
  BY <1>1, <1>3 DEF IsFile, DBInv, FilesSound
<1>8. ASSUME Migrated(live', t), LiveKept PROVE Holds(u)'
  <2>1. \A k \in DOMAIN Order : k <= s.table => Migrated(live', Order[k])
    BY <1>1, <1>2, <1>3, <1>8, TablesInOrder DEF OnItsWay, LiveKept
  <2>2. live' # NoFile
    BY <1>3, <1>8 DEF LiveKept
  <2>3. OnItsWay(u)'
    <3>1. CASE u.step = "look" /\ u.table = s.table + 1
      BY <1>3, <2>1, <2>2, <3>1, TablesInOrder DEF OnItsWay, Migrated, NoFile
    <3>2. CASE u.step \in After /\ s.table = Len(Order)
      BY <2>1, <2>2, <3>2, TablesInOrder DEF OnItsWay, Migrated, NoFile, After
    <3>3. QED
      BY <1>3, <1>5, <3>1, <3>2
  <2>4. HasCopy(u) => HasCopy(s)
    BY <1>2, <1>3, <1>5 DEF HasCopy, After
  <2>5. u.step \notin {"remove", "rename"}
    BY <1>3, <1>5 DEF After
  <2>6. QED
    BY <1>3, <1>6, <2>3, <2>4, <2>5 DEF Holds, HasCopy, NoFile
<1>9. OfRestore(u) => OfRestore(opener[p])
  BY <1>1, <1>2, <1>3, <1>5 DEF OfRestore, After
<1>10. IsRows(rows, newest') /\ newest' \in Nat /\ newest <= newest'
  BY <1>6, <1>7
<1>11. \A i \in DOMAIN live.rows[t] : Becomes(live.rows[t][i], rows[i])
  BY <1>1 DEF Becomes
<1>12. DOMAIN live.rows[t] = DOMAIN rows
  BY <1>1
<1>13. made' \subseteq made \cup DOMAIN rows /\ (twice => twice')
  BY <1>6
<1>14. QED
  BY <1>3, <1>5, <1>6, <1>8, <1>9, <1>10, <1>11, <1>12, <1>13, LiveTableStep

\* A process that works on the database finds all of it up to date.
LEMMA AtWork ==
  ASSUME DBInv, NEW p \in Process, opener[p].step = "work", NEW t \in Table
  PROVE  /\ live # NoFile /\ IsFile(live, newest) /\ newest \in Nat
         /\ Migrated(live, t) /\ IsRows(live.rows[t], newest)
         /\ ~twice => OneActive(live.rows[t])
<1>1. Holds(opener[p])
  BY DEF DBInv, OpenersHold
<1>2. live # NoFile /\ Migrated(live, t)
  BY <1>1 DEF Holds, OnItsWay
<1>3. QED
  BY <1>2 DEF DBInv, FilesSound, Indexable, IsFile

LEMMA IdleHolds ==
  /\ Closed \in OpenerState
  /\ ~OfRestore(Closed)
  /\ Holds(Closed)
  /\ Holds(Closed)'
<1>1. Closed.step = "idle" /\ Closed \in OpenerState
  BY DEF Closed, OpenerState
<1>2. PICK s : s = Closed
  OBVIOUS
<1>3. Holds(s) /\ Holds(s)' /\ ~OfRestore(s)
  BY <1>1, <1>2 DEF Holds, OnItsWay, HasCopy, OfRestore
<1>4. QED
  BY <1>1, <1>2, <1>3

LEMMA IssueStep ==
  ASSUME DBInv, NEW p \in Process, NEW t \in Issued, Issue(p, t)
  PROVE  DBInv' /\ HistoryKept
<1>1. t \in Table /\ opener[p].step = "work"
  BY TablesInOrder DEF Issue, Doing
<1>2. PICK rows, i, old : /\ rows = live.rows[t] /\ i = newest + 1
                          /\ old = {j \in DOMAIN rows : rows[j].status = "active"}
  OBVIOUS
<1>3. /\ live # NoFile /\ IsFile(live, newest) /\ newest \in Nat
      /\ Migrated(live, t) /\ IsRows(rows, newest)
  BY <1>1, <1>2, AtWork
<1>4. PICK latest : latest = Latest(old)
  OBVIOUS
<1>5. PICK new : new = [j \in DOMAIN rows \cup {i} |->
                          IF j = i THEN [status |-> "active", supersedes |-> latest]
                          ELSE IF j \in old THEN [rows[j] EXCEPT !.status = "superseded"]
                          ELSE rows[j]]
  OBVIOUS
<1>6. /\ live' = WithTable(live, t, live.schema[t], new)
      /\ newest' = i /\ made' = made \cup {i}
      /\ meanwhile' = IF Replacing THEN meanwhile \cup {i} ELSE meanwhile
      /\ Proceed(p, Closed)
      /\ UNCHANGED <<backup, tmp, saved, twice>>
  BY <1>2, <1>4, <1>5 DEF Issue
<1>7. \A j \in DOMAIN rows : j # i /\ j \in Int /\ j <= newest /\ IsRow(rows[j])
  BY <1>2, <1>3 DEF IsRows
<1>8. \A j \in DOMAIN rows :
        /\ new[j].supersedes = rows[j].supersedes
        /\ new[j].status = IF j \in old THEN "superseded" ELSE rows[j].status
        /\ IsRow(new[j])
  BY <1>5, <1>7 DEF IsRow
<1>9. new[i].status = "active" /\ IsRow(new[i]) /\ DOMAIN new = DOMAIN rows \cup {i}
  BY <1>5 DEF IsRow
<1>10. IsRows(new, newest')
  <2>1. new = [j \in DOMAIN new |-> new[j]]
    BY <1>5
  <2>2. QED
    BY <1>2, <1>3, <1>6, <1>7, <1>8, <1>9, <2>1 DEF IsRows
<1>11. OneActive(new)
  BY <1>2, <1>8, <1>9 DEF OneActive
<1>12. \A j \in DOMAIN live.rows[t] : Becomes(live.rows[t][j], new[j])
  BY <1>2, <1>8 DEF Becomes
<1>13. /\ DOMAIN live.rows[t] \subseteq DOMAIN new
       /\ Replacing => DOMAIN new \subseteq DOMAIN live.rows[t] \cup meanwhile'
       /\ meanwhile \subseteq meanwhile' /\ made' \subseteq made \cup DOMAIN new
  BY <1>2, <1>6, <1>9
<1>14. newest' \in Nat /\ newest <= newest' /\ (twice => twice')
  BY <1>2, <1>3, <1>6
<1>15. live.schema[t] \in {"rebuilt", "current"} \cup {live.schema[t]}
  OBVIOUS
<1>16. QED
  BY <1>1, <1>3, <1>6, <1>10, <1>11, <1>12, <1>13, <1>14, <1>15, IdleHolds, LiveTableStep

LEMMA RevokeStep ==
  ASSUME DBInv, NEW p \in Process, NEW t \in Revoked, Revoke(p, t)
  PROVE  DBInv' /\ HistoryKept
<1>1. t \in Table /\ opener[p].step = "work"
  BY TablesInOrder DEF Revoke, Doing
<1>2. PICK rows : rows = live.rows[t]
  OBVIOUS
<1>3. /\ live # NoFile /\ IsFile(live, newest) /\ newest \in Nat
      /\ Migrated(live, t) /\ IsRows(rows, newest)
      /\ ~twice => OneActive(rows)
  BY <1>1, <1>2, AtWork
<1>4. PICK i \in DOMAIN rows :
        /\ rows[i].status # "revoked"
        /\ live' = WithTable(live, t, live.schema[t], [rows EXCEPT ![i].status = "revoked"])
  BY <1>2 DEF Revoke
<1>5. PICK new : new = [rows EXCEPT ![i].status = "revoked"]
  OBVIOUS
<1>6. /\ live' = WithTable(live, t, live.schema[t], new)
      /\ Proceed(p, Closed)
      /\ UNCHANGED <<backup, tmp, saved, newest, made, meanwhile, twice>>
  BY <1>4, <1>5 DEF Revoke, databaseHistory
<1>7. /\ rows = [j \in DOMAIN rows |-> rows[j]]
      /\ \A j \in DOMAIN rows : j \in Int /\ j <= newest /\ IsRow(rows[j])
  BY <1>3 DEF IsRows
<1>8. PICK row : row = [rows[i] EXCEPT !.status = "revoked"]
  OBVIOUS
<1>9. row.status = "revoked" /\ row.supersedes = rows[i].supersedes /\ IsRow(row)
  BY <1>7, <1>8 DEF IsRow
<1>10. /\ DOMAIN new = DOMAIN rows /\ new = [j \in DOMAIN new |-> new[j]]
       /\ \A j \in DOMAIN rows : new[j] = IF j = i THEN row ELSE rows[j]
  BY <1>5, <1>7, <1>8
<1>11. IsRows(new, newest')
  BY <1>6, <1>7, <1>9, <1>10 DEF IsRows
<1>12. ~twice => OneActive(new)
  BY <1>3, <1>9, <1>10 DEF OneActive
<1>13. \A j \in DOMAIN live.rows[t] : Becomes(live.rows[t][j], new[j])
  <2>1. \A j \in DOMAIN rows : Becomes(rows[j], new[j])
    BY <1>4, <1>7, <1>9, <1>10 DEF Becomes, IsRow
  <2>2. QED
    BY <1>2, <2>1
<1>14. DOMAIN live.rows[t] = DOMAIN new
  BY <1>2, <1>10
<1>15. /\ newest' \in Nat /\ newest <= newest' /\ (twice => twice') /\ (~twice' => OneActive(new))
       /\ meanwhile \subseteq meanwhile' /\ made' \subseteq made \cup DOMAIN new
  BY <1>3, <1>6, <1>12
<1>16. live.schema[t] \in {"rebuilt", "current"} \cup {live.schema[t]}
  OBVIOUS
<1>17. QED
  BY <1>1, <1>3, <1>6, <1>11, <1>13, <1>14, <1>15, <1>16, IdleHolds, LiveTableStep

LEMMA OpenStep ==
  ASSUME DBInv, NEW p \in Process, Open(p) \/ BackupDB(p)
  PROVE  DBInv' /\ HistoryKept
<1>1. CASE Open(p)
  BY <1>1, OpenLiveStep DEF Open, databaseHistory, After
<1>2. CASE BackupDB(p)
  BY <1>2, OpenLiveStep DEF BackupDB, databaseHistory, After
<1>3. QED
  BY <1>1, <1>2

LEMMA BackupStep ==
  ASSUME DBInv, NEW p \in Process, BackupTo(p)
  PROVE  DBInv' /\ HistoryKept
BY IdleHolds, NothingLive DEF BackupTo, databaseHistory

\* Only one restore has a copy.
LEMMA NoOtherRestore ==
  ASSUME DBInv, NEW p \in Process, OfRestore(opener[p]), NEW q \in Process, q # p
  PROVE  ~OfRestore(opener[q])
BY DEF DBInv, OpenersHold

LEMMA RestoreStep ==
  ASSUME DBInv, NEW p \in Process, RestoreDB(p)
  PROVE  DBInv' /\ HistoryKept
<1>1. \A q \in Process : opener[q] \in OpenerState /\ ~OfRestore(opener[q])
  BY RestoringIs DEF RestoreDB, DBInv, OpenersHold
<1>2. PICK s : s = [step |-> "validated"]
  OBVIOUS
<1>3. s \in OpenerState /\ s.step = "validated"
  BY <1>2 DEF OpenerState
<1>4. PICK db, top, new : db = backup /\ top = newest /\ new = Opened(backup)
  OBVIOUS
<1>5. IsFile(new, top) /\ new # NoFile
  <2>1. IsFile(db, top)
    BY <1>4 DEF RestoreDB, DBInv, FilesSound
  <2>2. IsFile(Opened(db), top)
    BY <2>1, OpenedIsFile
  <2>3. QED
    BY <1>4, <2>2, FileIsThere
<1>6. /\ backup' = new /\ Proceed(p, s)
      /\ UNCHANGED <<live, tmp, saved, newest, made, meanwhile, twice>>
      /\ Indexable(new)
  BY <1>2, <1>4 DEF RestoreDB, databaseHistory, Indexable
<1>7. FilesSound'
  BY <1>4, <1>5, <1>6 DEF DBInv, FilesSound, Indexable, NoFile, Migrated
<1>8. LiveKept /\ LiveIds' = LiveIds
  BY <1>6 DEF LiveKept, LiveIds, NoFile, Ids, Migrated
<1>9. Holds(s)'
  BY <1>3 DEF Holds, OnItsWay, HasCopy
<1>10. DBInv'
  BY <1>1, <1>3, <1>6, <1>7, <1>8, <1>9, OrdinaryStep DEF Proceed
<1>11. HistoryKept
  BY <1>6 DEF HistoryKept, Becomes, Migrated
<1>12. QED
  BY <1>10, <1>11

LEMMA CopyStep ==
  ASSUME DBInv, NEW p \in Process, CopyBackup(p)
  PROVE  DBInv' /\ HistoryKept
<1>1. OfRestore(opener[p])
  BY DEF CopyBackup, Doing, OfRestore
<1>2. PICK s : s = [step |-> "copied"]
  OBVIOUS
<1>3. s \in OpenerState /\ s.step = "copied"
  BY <1>2 DEF OpenerState
<1>4. /\ tmp' = backup /\ backup # NoFile /\ Proceed(p, s)
      /\ UNCHANGED <<live, backup, saved, newest, made, meanwhile, twice>>
  BY <1>2 DEF CopyBackup, databaseHistory
<1>5. FilesSound'
  BY <1>4 DEF DBInv, FilesSound, Indexable, NoFile, Migrated
<1>6. LiveKept /\ LiveIds' = LiveIds
  BY <1>4 DEF LiveKept, LiveIds, NoFile, Ids, Migrated
<1>7. Holds(s)'
  BY <1>3, <1>4 DEF Holds, OnItsWay, HasCopy, NoFile
<1>8. \A q \in Process \ {p} : ~OfRestore(opener[q])
  BY <1>1, NoOtherRestore
<1>9. DBInv'
  BY <1>3, <1>4, <1>5, <1>6, <1>7, <1>8, OrdinaryStep DEF Proceed
<1>10. HistoryKept
  BY <1>4 DEF HistoryKept, Becomes, Migrated
<1>11. QED
  BY <1>9, <1>10

LEMMA OpenReplacedStep ==
  ASSUME DBInv, NEW p \in Process, OpenReplaced(p)
  PROVE  DBInv' /\ HistoryKept
<1>1. OfRestore(opener[p]) /\ tmp # NoFile
  BY DEF OpenReplaced, Doing, OfRestore, DBInv, OpenersHold, Holds, HasCopy
<1>2. UNCHANGED <<live, backup, tmp, saved, newest, made, meanwhile, twice>>
  BY DEF OpenReplaced, files, databaseHistory
<1>3. CASE live = NoFile
  <2>1. PICK s : s = [step |-> "rename"]
    OBVIOUS
  <2>2. s \in OpenerState /\ s.step = "rename" /\ Proceed(p, s)
    BY <1>3, <2>1 DEF OpenReplaced, OpenerState
  <2>3. Holds(s)'
    BY <1>1, <1>2, <1>3, <2>2 DEF Holds, OnItsWay, HasCopy, LiveIds, NoFile
  <2>4. QED
    BY <1>1, <1>2, <2>2, <2>3, NothingLive
<1>4. CASE live # NoFile
  <2>1. PICK s : s = Opening("save")
    OBVIOUS
  <2>2. /\ s \in OpenerState /\ s.step = "look" /\ s.table = 1 /\ s.then = "save"
        /\ Proceed(p, s)
    BY <1>4, <2>1, TablesInOrder DEF OpenReplaced, Opening, OpenerState, After
  <2>3. Holds(s)'
    BY <1>1, <1>2, <1>4, <2>2, TablesInOrder DEF Holds, OnItsWay, HasCopy, NoFile
  <2>4. QED
    BY <1>1, <1>2, <2>2, <2>3, NothingLive
<1>5. QED
  BY <1>3, <1>4

LEMMA SaveStep ==
  ASSUME DBInv, NEW p \in Process, SaveLive(p)
  PROVE  DBInv' /\ HistoryKept
<1>1. OfRestore(opener[p]) /\ tmp # NoFile /\ live # NoFile
  BY DEF SaveLive, Doing, OfRestore, DBInv, OpenersHold, Holds, HasCopy, OnItsWay
<1>2. /\ UNCHANGED <<live, backup, tmp, newest, made, meanwhile, twice>>
      /\ saved' = saved \cup LiveIds
  BY <1>1 DEF SaveLive, databaseHistory, LiveIds
<1>3. PICK s : s = [step |-> "remove"]
  OBVIOUS
<1>4. s \in OpenerState /\ s.step = "remove" /\ Proceed(p, s)
  BY <1>3 DEF SaveLive, OpenerState
<1>5. LiveIds' = LiveIds
  BY <1>2 DEF LiveIds, NoFile, Ids
<1>6. Holds(s)'
  BY <1>1, <1>2, <1>4, <1>5 DEF Holds, OnItsWay, HasCopy, NoFile
<1>7. QED
  BY <1>1, <1>2, <1>4, <1>6, NothingLive

LEMMA RemoveStep ==
  ASSUME DBInv, NEW p \in Process, RemoveLive(p)
  PROVE  DBInv' /\ HistoryKept
<1>1. tmp # NoFile /\ LiveIds \subseteq saved \cup meanwhile
  BY DEF RemoveLive, Doing, DBInv, OpenersHold, Holds, HasCopy
<1>2. UNCHANGED <<backup, tmp, saved, newest, made, meanwhile, twice>> /\ live' = NoFile
  BY DEF RemoveLive, databaseHistory
<1>3. PICK s : s = [step |-> "rename"]
  OBVIOUS
<1>4. s \in OpenerState /\ s.step = "rename" /\ OnlyProceeds(p, s)
  BY <1>3 DEF RemoveLive, OpenerState
<1>5. LiveIds' = {}
  BY <1>2 DEF LiveIds, NoFile
<1>6. Holds(s)'
  BY <1>1, <1>2, <1>4, <1>5 DEF Holds, OnItsWay, HasCopy, NoFile
<1>7. FilesSound'
  BY <1>2 DEF DBInv, FilesSound, Indexable, NoFile, Migrated
<1>8. CertificatesKept'
  BY <1>1, <1>2 DEF DBInv, CertificatesKept, LiveIds
<1>9. DBInv'
  BY <1>4, <1>6, <1>7, <1>8, ReplacingStep
<1>10. HistoryKept
  BY <1>2 DEF HistoryKept, NoFile
<1>11. QED
  BY <1>9, <1>10

LEMMA RenameStep ==
  ASSUME DBInv, NEW p \in Process, RenameRestored(p)
  PROVE  DBInv' /\ HistoryKept
<1>1. tmp # NoFile /\ LiveIds \subseteq saved \cup meanwhile
  BY DEF RenameRestored, Doing, DBInv, OpenersHold, Holds, HasCopy
<1>2. /\ UNCHANGED <<backup, saved, newest, meanwhile, twice>>
      /\ live' = tmp /\ tmp' = NoFile /\ made' = made \cup Ids(tmp)
  BY DEF RenameRestored
<1>3. PICK s : s = Opening("done")
  OBVIOUS
<1>4. /\ s \in OpenerState /\ s.step = "look" /\ s.table = 1 /\ s.then = "done"
      /\ OnlyProceeds(p, s)
  BY <1>3, TablesInOrder DEF RenameRestored, Opening, OpenerState, After
<1>5. Holds(s)'
  BY <1>1, <1>2, <1>4, TablesInOrder DEF Holds, OnItsWay, HasCopy, NoFile
<1>6. FilesSound'
  BY <1>1, <1>2 DEF DBInv, FilesSound, Indexable, NoFile, Migrated
<1>7. live' # NoFile /\ Ids(live') = Ids(tmp)
  BY <1>1, <1>2
<1>8. CertificatesKept'
  BY <1>1, <1>2, <1>7 DEF DBInv, CertificatesKept, LiveIds, NoFile, Ids
<1>9. DBInv'
  BY <1>4, <1>5, <1>6, <1>8, ReplacingStep
<1>10. HistoryKept
  BY <1>1, <1>2 DEF HistoryKept, NoFile
<1>11. QED
  BY <1>9, <1>10

LEMMA EndStep ==
  ASSUME DBInv, NEW p \in Process, End(p)
  PROVE  DBInv' /\ HistoryKept
<1>1. opener[p] \in OpenerState
  BY DEF DBInv, OpenersHold
<1>2. /\ UNCHANGED <<live, backup, saved, newest, made, meanwhile, twice>>
      /\ tmp' = IF OfRestore(opener[p]) THEN NoFile ELSE tmp
      /\ Proceed(p, Closed)
  BY <1>1, RestoringIs DEF End, databaseHistory
<1>3. FilesSound'
  BY <1>2 DEF DBInv, FilesSound, Indexable, NoFile, Migrated
<1>4. LiveKept /\ LiveIds' = LiveIds
  BY <1>2 DEF LiveKept, LiveIds, NoFile, Ids, Migrated
<1>5. \A q \in Process \ {p} : OfRestore(opener[q]) => tmp' = tmp
  BY <1>2, NoOtherRestore
<1>6. DBInv'
  BY <1>2, <1>3, <1>4, <1>5, IdleHolds, OrdinaryStep DEF Proceed
<1>7. HistoryKept
  BY <1>2 DEF HistoryKept, Becomes, Migrated
<1>8. QED
  BY <1>6, <1>7

LEMMA NextDBInv ==
  ASSUME DBInv, [DatabaseNext]_databaseVars
  PROVE  DBInv' /\ HistoryKept
<1>1. CASE UNCHANGED databaseVars
  <2>1. UNCHANGED <<live, backup, tmp, saved, opener, newest, made, meanwhile, twice>>
    BY <1>1 DEF databaseVars
  <2>2. FilesSound'
    BY <2>1 DEF DBInv, FilesSound, Indexable, NoFile, Migrated
  <2>3. OpenersHold'
    BY <2>1 DEF DBInv, OpenersHold, Holds, OnItsWay, HasCopy, OfRestore, LiveIds, NoFile,
         Ids, Migrated
  <2>4. CertificatesKept'
    BY <2>1 DEF DBInv, CertificatesKept, NoFile, Ids
  <2>5. HistoryKept
    BY <2>1 DEF HistoryKept, Becomes, Migrated
  <2>6. QED
    BY <2>2, <2>3, <2>4, <2>5 DEF DBInv
<1>2. CASE DatabaseNext
  <2>1. PICK p \in Process :
          \/ Open(p) \/ LookAtTable(p) \/ ChangeTable(p) \/ IndexTable(p)
          \/ (\E t \in Issued : Issue(p, t)) \/ (\E t \in Revoked : Revoke(p, t))
          \/ BackupDB(p) \/ BackupTo(p)
          \/ RestoreDB(p) \/ CopyBackup(p) \/ OpenReplaced(p) \/ SaveLive(p)
          \/ RemoveLive(p) \/ RenameRestored(p) \/ End(p)
    BY <1>2 DEF DatabaseNext
  <2>2. QED
    BY <2>1, OpenStep, LookStep, ChangeStep, IndexStep, IssueStep, RevokeStep, BackupStep,
       RestoreStep, CopyStep, OpenReplacedStep, SaveStep, RemoveStep, RenameStep, EndStep
<1>3. QED
  BY <1>1, <1>2

\* The files are sound, and every process is where the state of the files lets it
\* be: the invariant of the database file.
THEOREM DatabaseSpecInv == DatabaseSpec => []DBInv
<1>1. DatabaseInit => DBInv
  BY InitDBInv
<1>2. DBInv /\ [DatabaseNext]_databaseVars => DBInv'
  BY NextDBInv
<1>3. QED
  BY <1>1, <1>2, PTL DEF DatabaseSpec

\* Whoever has opened the database finds all its tables of this release, however
\* many processes open, back up and restore it, or are killed at it.
THEOREM DatabaseOpenedIsCurrent == DatabaseSpec => []OpenedIsCurrent
<1>1. DBInv => OpenedIsCurrent
  BY DEF DBInv, OpenersHold, Holds, OnItsWay, OpenedIsCurrent
<1>2. QED
  BY <1>1, DatabaseSpecInv, PTL

\* No certificate is lost to backups and restores that are cut off at any point.
THEOREM DatabaseCertificatesKept == DatabaseSpec => []CertificatesKept
<1>1. DBInv => CertificatesKept
  BY DEF DBInv
<1>2. QED
  BY <1>1, DatabaseSpecInv, PTL

\* A database stays one whose unique indexes can be made, unless two processes
\* have rebuilt the same table.
THEOREM DatabaseAlwaysOpens == DatabaseSpec => []AlwaysOpens
<1>1. DBInv => AlwaysOpens
  BY DEF DBInv, FilesSound, Indexable, AlwaysOpens
<1>2. QED
  BY <1>1, DatabaseSpecInv, PTL

\* Opening the database again forgets no revocation and no supersession.
THEOREM DatabaseHistoryStands == DatabaseSpec => HistoryStands
<1>1. DBInv /\ [DatabaseNext]_databaseVars => HistoryKept
  BY NextDBInv
<1> HIDE DEF HistoryKept
<1>2. DBInv /\ [DatabaseNext]_databaseVars => [HistoryKept]_databaseVars
  BY <1>1
<1>3. DatabaseSpec => [][HistoryKept]_databaseVars
  BY <1>2, DatabaseSpecInv, PTL DEF DatabaseSpec
<1>4. QED
  BY <1>3 DEF HistoryStands, HistoryKept

=============================================================================
