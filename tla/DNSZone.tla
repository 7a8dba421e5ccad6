------------------------------ MODULE DNSZone -------------------------------
(***************************************************************************)
(* Changes to a DNS zone: create-record, delete-record and the write test  *)
(* of check-precursors, over the two providers of internal/dns.            *)
(*                                                                         *)
(* GoDaddy takes a change of one name and type in one call.  Namecheap     *)
(* knows only the whole zone: a change reads it, edits the list and writes *)
(* it back, and nothing keeps two of them apart, nor one of them and the   *)
(* operator's browser.  Any call may fail, may be cut off by the timeout   *)
(* after the provider has done it, or may be the last one of its process.  *)
(*                                                                         *)
(* The name of a record stands for its name and type together.             *)
(***************************************************************************)
EXTENDS Tables, FiniteSets

CONSTANTS
  Name,          \* names in the zone that records may have
  Value,         \* what a record of one of them may hold
  Command,       \* commands that may run at once
  TestName       \* the name, and the value, that a write test of each makes up

TestRecord(c) == [name |-> TestName[c], data |-> TestName[c]]

Record == [name : Name, data : Value] \cup {TestRecord(c) : c \in Command}

ASSUME DNSZoneAssumption ==
  /\ NoId \notin Name \cup Value
  /\ \A c, d \in Command :
       TestName[c] \notin Name \cup {NoId} /\ (TestName[c] = TestName[d] => c = d)

VARIABLES
  provider,     \* who serves the zone
  zone,         \* its records
  proc,         \* where each command is
  named,        \* history: the names that a change has named
  others,       \* history: the records of other names that there were at first
  put,          \* history: the records that the last change to them put there
  overlapped    \* history: those that a change saw otherwise than it found them

vars == <<provider, zone, proc, named, others, put, overlapped>>

history == <<named, others, put, overlapped>>

Idle == [step |-> "idle"]

Init ==
  /\ provider \in {"namecheap", "godaddy"}
  /\ zone \in SUBSET [name : Name, data : Value]
  /\ proc = [c \in Command |-> Idle]
  /\ named = {}
  /\ others = zone
  /\ put = zone
  /\ overlapped = {}

-----------------------------------------------------------------------------
(***************************************************************************)
(* The lists that are written back                                         *)
(***************************************************************************)

\* data = NoId is delete-record with no --value: every record of the name.
Matches(r, change) == r.name = change.name /\ change.data \in {NoId, r.data}

The(change) == [name |-> change.name, data |-> change.data]

\* At GoDaddy a record replaces the others of its name.
Touched(r, change) ==
  IF provider = "godaddy" /\ change.op = "create" THEN r.name = change.name ELSE Matches(r, change)

Appended_mutant(records, change) == {The(change)}   \* takes setHosts to add

\* CreateRecord: the list it sends.
Appended(records, change) == records \cup {The(change)}

Filtered_mutant(records, change) ==   \* compares the names, not the values
  {r \in records : r.name # change.name}

\* DeleteRecord: the list it sends, also when that is the list it got.
Filtered(records, change) == {r \in records : ~Matches(r, change)}

\* PUT /domains/{zone}/records/{type}/{name} with a list of one record, and
\* DELETE of the same, with ?value= if there is one.
Replaced(records, change) == {r \in records : r.name # change.name} \cup {The(change)}

-----------------------------------------------------------------------------
(***************************************************************************)
(* The commands                                                            *)
(***************************************************************************)

Goto(c, rec) == proc' = [proc EXCEPT ![c] = rec]

At(c, step) == proc[c].step = step

Begin(c, change) ==
  /\ Goto(c, [step |-> "asking", change |-> change])
  /\ named' = named \cup {change.name}
  /\ others' = {r \in others : r.name # change.name}
  /\ UNCHANGED <<provider, zone, put, overlapped>>

CreateRecord(c) ==
  /\ At(c, "idle")
  /\ \E n \in Name, v \in Value :
       Begin(c, [op |-> "create", name |-> n, data |-> v, test |-> FALSE])

DeleteRecord(c) ==
  /\ At(c, "idle")
  /\ \E n \in Name, v \in Value \cup {NoId} :
       Begin(c, [op |-> "delete", name |-> n, data |-> v, test |-> FALSE])

\* check-precursors --write-test creates a record of a name made up for it, ...
CheckPrecursors(c) ==
  /\ At(c, "idle")
  /\ TestName[c] \notin named
  /\ Begin(c, [op |-> "create", name |-> TestName[c], data |-> TestName[c], test |-> TRUE])

\* ... and once that is done deletes it.
AfterAnswer(c) ==
  LET change == proc[c].change
  IN  IF change.test /\ change.op = "create"
      THEN [step |-> "asking", change |-> [change EXCEPT !.op = "delete"]]
      ELSE Idle

\* The zone becomes `records' by a change that saw `seen'.  The command goes on
\* if the provider's answer reaches it.
Write(c, seen, records) ==
  /\ zone' = records
  /\ LET change == proc[c].change
         touched == {r \in Record : Touched(r, change)}
         missed == ((seen \ zone) \cup (zone \ seen)) \ touched
     IN  /\ put' = (put \ (touched \cup missed)) \cup
                    (IF change.op = "create" THEN {The(change)} ELSE {})
         /\ overlapped' = (overlapped \ touched) \cup missed
  /\ \/ Goto(c, AfterAnswer(c))
     \/ Goto(c, Idle)
  /\ UNCHANGED <<provider, named, others>>

\* GoDaddy: one call.
CallGoDaddy(c) ==
  /\ provider = "godaddy"
  /\ At(c, "asking")
  /\ LET change == proc[c].change
     IN  Write(c, zone, IF change.op = "create" THEN Replaced(zone, change)
                                               ELSE Filtered(zone, change))

\* Namecheap: getHosts.  A record that is there already is not created again.
getHosts(c) ==
  /\ provider = "namecheap"
  /\ At(c, "asking")
  /\ LET change == proc[c].change
     IN  IF change.op = "create" /\ The(change) \in zone
         THEN Goto(c, AfterAnswer(c))
         ELSE Goto(c, [step |-> "editing", change |-> change, hosts |-> zone])
  /\ UNCHANGED <<provider, zone, history>>

\* setHosts of the edited list.
setHosts(c) ==
  /\ At(c, "editing")
  /\ LET change == proc[c].change
         hosts  == proc[c].hosts
     IN  Write(c, hosts, IF change.op = "create" THEN Appended(hosts, change)
                                                ELSE Filtered(hosts, change))

\* An error before the provider has done anything, or the end of the process.
\* The write test ignores an error of its deletion.
Fail(c) ==
  /\ ~At(c, "idle")
  /\ Goto(c, Idle)
  /\ UNCHANGED <<provider, zone, history>>

Next ==
  \E c \in Command :
    \/ CreateRecord(c)
    \/ DeleteRecord(c)
    \/ CheckPrecursors(c)
    \/ CallGoDaddy(c)
    \/ getHosts(c)
    \/ setHosts(c)
    \/ Fail(c)

Spec == Init /\ [][Next]_vars

-----------------------------------------------------------------------------
(***************************************************************************)
(* Properties                                                              *)
(***************************************************************************)

\* Whatever changes overlap, fail or are cut off, a record of a name that no
\* change has named is never lost from the zone and none ever appears in it,
\* although every change of a Namecheap zone rewrites all of its records.
OthersUntouched == {r \in zone : r.name \notin named} = others

\* A record is in the zone exactly when the last change to it put it there,
\* unless some other change read the zone before that change and wrote after
\* it: overlap is the only way to lose one, and the only way to bring one back.
LostOnlyToOverlap == zone \ overlapped = put

=============================================================================
