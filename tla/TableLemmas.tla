----------------------------- MODULE TableLemmas ------------------------------
(***************************************************************************)
(* What the statements of CATable and LeafTable preserve, for every table, *)
(* every set of ids and every clock.  GoodCAs and GoodLeaves are the       *)
(* invariants of one table; each lemma takes a good table and shows that   *)
(* one statement leaves it good.                                           *)
(***************************************************************************)
EXTENDS CATable, LeafTable, TLAPS

-----------------------------------------------------------------------------
(***************************************************************************)
(* Tables of CAs                                                           *)
(***************************************************************************)

\* The generation numbers of a name are exactly 1..k: what makes MAX + 1 exist
\* and be new.
GenerationsAreInterval(t, Name) ==
  \A n \in Name : \E k \in Nat : Generations(t, n) = 1 .. k

GenerationsDistinct(t) ==
  \A i, j \in DOMAIN t :
    t[i].name = t[j].name /\ t[i].generation = t[j].generation => i = j

GoodCAs(t, Id, Parent, Name) ==
  /\ IsCATable(t, Id, Parent, Name)
  /\ AtMostOneActive(t)
  /\ IssuingIffActive(t)
  /\ GenerationsAreInterval(t, Name)
  /\ GenerationsDistinct(t)
  /\ SupersedesOlder(t)

\* u has the rows of t, with the same names, numbers and links; the statuses
\* may differ.  Every statement but INSERT is of this kind.
SameHistory(t, u) ==
  /\ DOMAIN u = DOMAIN t
  /\ \A i \in DOMAIN t :
       /\ u[i].name = t[i].name
       /\ u[i].generation = t[i].generation
       /\ u[i].supersedes = t[i].supersedes
       /\ u[i].parent_id = t[i].parent_id

\* A statement that changes statuses and keeps a good table good.
GoodUpdate(t, u, Id, Parent, Name) == GoodCAs(u, Id, Parent, Name) /\ SameHistory(t, u)

\* An insert that keeps a good table good and the issuers of its rows.
GoodInsert(t, u, id, rec, Id, Parent, Name) ==
  /\ GoodCAs(u, Id, Parent, Name)
  /\ DOMAIN u = DOMAIN t \cup {id}
  /\ u[id].parent_id = rec.parent_id
  /\ \A i \in DOMAIN t : u[i].parent_id = t[i].parent_id

\* The invariants about numbers and links depend on the history alone.
LEMMA HistoryKept ==
  ASSUME NEW Id, NEW Parent, NEW Name, NEW t, NEW u,
         GoodCAs(t, Id, Parent, Name), SameHistory(t, u)
  PROVE  /\ GenerationsAreInterval(u, Name)
         /\ GenerationsDistinct(u)
         /\ SupersedesOlder(u)
<1>1. \A n \in Name : Generations(u, n) = Generations(t, n)
  BY DEF Generations, SameHistory
<1>2. GenerationsAreInterval(u, Name)
  BY <1>1 DEF GoodCAs, GenerationsAreInterval
<1>3. GenerationsDistinct(u)
  BY DEF GoodCAs, GenerationsDistinct, SameHistory
<1>4. SupersedesOlder(u)
  BY DEF GoodCAs, SupersedesOlder, SameHistory
<1>5. QED
  BY <1>2, <1>3, <1>4

\* What a statement that changes statuses has to keep.
LEMMA UpdateGood ==
  ASSUME NEW Id, NEW Parent, NEW Name, NEW t, NEW u,
         GoodCAs(t, Id, Parent, Name), SameHistory(t, u),
         IsCATable(u, Id, Parent, Name), AtMostOneActive(u), IssuingIffActive(u)
  PROVE  GoodUpdate(t, u, Id, Parent, Name)
<1>1. GenerationsAreInterval(u, Name) /\ GenerationsDistinct(u) /\ SupersedesOlder(u)
  BY HistoryKept
<1>2. QED
  BY <1>1 DEF GoodCAs, GoodUpdate

\* A table of functions i |-> a row is a table.
LEMMA SyncGood ==
  ASSUME NEW Id, NEW Parent, NEW Name, NEW t, NEW now,
         GoodCAs(t, Id, Parent, Name)
  PROVE  GoodUpdate(t, SyncCAs(t, now), Id, Parent, Name)
<1> DEFINE u == SyncCAs(t, now)
<1>1. IsCATable(u, Id, Parent, Name)
  <2>1. t \in [DOMAIN t -> CARow(Id, Parent, Name)] /\ DOMAIN t \subseteq Id
    BY DEF GoodCAs, IsCATable
  <2>2. ASSUME NEW row \in CARow(Id, Parent, Name)
        PROVE  [row EXCEPT !.status = "expired", !.is_issuing = FALSE] \in CARow(Id, Parent, Name)
    BY DEF CARow, CAStatus
  <2>3. QED
    BY <2>1, <2>2 DEF IsCATable, SyncCAs
<1>2. SameHistory(t, u)
  BY DEF GoodCAs, IsCATable, SyncCAs, CARow, SameHistory
<1>3. \A i \in DOMAIN t : u[i].status = "active" => t[i].status = "active"
  BY DEF GoodCAs, IsCATable, SyncCAs, CARow
<1>4. AtMostOneActive(u)
  BY <1>2, <1>3 DEF GoodCAs, AtMostOneActive, SameHistory
<1>5. IssuingIffActive(u)
  BY DEF GoodCAs, IsCATable, SyncCAs, CARow, IssuingIffActive
<1>6. QED
  BY <1>1, <1>2, <1>4, <1>5, UpdateGood

LEMMA RetireGood ==
  ASSUME NEW Id, NEW Parent, NEW Name, NEW t, NEW id \in DOMAIN t,
         GoodCAs(t, Id, Parent, Name)
  PROVE  GoodUpdate(t, RetireCA(t, id), Id, Parent, Name)
<1> DEFINE u == RetireCA(t, id)
<1>1. IsCATable(u, Id, Parent, Name)
  <2>1. t[id] \in CARow(Id, Parent, Name)
    BY DEF GoodCAs, IsCATable
  <2>2. [t[id] EXCEPT !.status = "retired", !.is_issuing = FALSE] \in CARow(Id, Parent, Name)
    BY <2>1 DEF CARow, CAStatus
  <2>3. QED
    BY <2>1, <2>2 DEF GoodCAs, IsCATable, RetireCA
<1>2. SameHistory(t, u)
  BY DEF GoodCAs, IsCATable, RetireCA, CARow, SameHistory
<1>3. \A i \in DOMAIN t : u[i].status = "active" => t[i].status = "active"
  BY DEF GoodCAs, IsCATable, RetireCA, CARow
<1>4. AtMostOneActive(u)
  BY <1>2, <1>3 DEF GoodCAs, AtMostOneActive, SameHistory
<1>5. IssuingIffActive(u)
  BY DEF GoodCAs, IsCATable, RetireCA, CARow, IssuingIffActive
<1>6. QED
  BY <1>1, <1>2, <1>4, <1>5, UpdateGood

LEMMA RetireOthersGood ==
  ASSUME NEW Id, NEW Parent, NEW Name, NEW t, NEW name, NEW keep,
         GoodCAs(t, Id, Parent, Name)
  PROVE  GoodUpdate(t, RetireOthers(t, name, keep), Id, Parent, Name)
<1> DEFINE u == RetireOthers(t, name, keep)
<1>1. IsCATable(u, Id, Parent, Name)
  <2>1. t \in [DOMAIN t -> CARow(Id, Parent, Name)] /\ DOMAIN t \subseteq Id
    BY DEF GoodCAs, IsCATable
  <2>2. ASSUME NEW row \in CARow(Id, Parent, Name)
        PROVE  [row EXCEPT !.status = "retired", !.is_issuing = FALSE] \in CARow(Id, Parent, Name)
    BY DEF CARow, CAStatus
  <2>3. QED
    BY <2>1, <2>2 DEF IsCATable, RetireOthers
<1>2. SameHistory(t, u)
  BY DEF GoodCAs, IsCATable, RetireOthers, CARow, SameHistory
<1>3. \A i \in DOMAIN t : u[i].status = "active" => t[i].status = "active"
  BY DEF GoodCAs, IsCATable, RetireOthers, CARow
<1>4. AtMostOneActive(u)
  BY <1>2, <1>3 DEF GoodCAs, AtMostOneActive, SameHistory
<1>5. IssuingIffActive(u)
  BY DEF GoodCAs, IsCATable, RetireOthers, CARow, IssuingIffActive
<1>6. QED
  BY <1>1, <1>2, <1>4, <1>5, UpdateGood

\* Retiring the active rows of a name but one leaves no other active row of it.
LEMMA RetireOthersLeavesOne ==
  ASSUME NEW Id, NEW Parent, NEW Name, NEW t, NEW name, NEW keep,
         IsCATable(t, Id, Parent, Name)
  PROVE  \A i \in DOMAIN t :
           RetireOthers(t, name, keep)[i].name = name
             /\ RetireOthers(t, name, keep)[i].status = "active" => i = keep
BY DEF IsCATable, RetireOthers, ActiveCAs, CARow

LEMMA PromoteGood ==
  ASSUME NEW Id, NEW Parent, NEW Name, NEW t, NEW id \in DOMAIN t,
         GoodCAs(t, Id, Parent, Name)
  PROVE  GoodUpdate(t, PromoteCA(t, id), Id, Parent, Name)
<1> DEFINE v == RetireOthers(t, t[id].name, id)
           u == PromoteCA(t, id)
<1>1. /\ GoodCAs(v, Id, Parent, Name)
      /\ SameHistory(t, v)
  BY RetireOthersGood DEF GoodUpdate
<1>a. \A i \in DOMAIN t : v[i].name = t[id].name /\ v[i].status = "active" => i = id
  BY RetireOthersLeavesOne DEF GoodCAs
<1>2. /\ DOMAIN u = DOMAIN t
      /\ \A i \in DOMAIN t : i # id => u[i] = v[i]
      /\ u[id] = [v[id] EXCEPT !.status = "active", !.is_issuing = TRUE]
  BY <1>1 DEF PromoteCA, SameHistory, GoodCAs, IsCATable
<1>3. u[id] \in CARow(Id, Parent, Name) /\ v[id] \in CARow(Id, Parent, Name)
  <2> HIDE DEF u, v
  <2>1. v[id] \in CARow(Id, Parent, Name)
    BY <1>1 DEF SameHistory, GoodCAs, IsCATable
  <2>2. QED
    BY <1>2, <2>1 DEF CARow, CAStatus
<1>4. IsCATable(u, Id, Parent, Name)
  <2>1. u = [i \in DOMAIN t |-> u[i]]
    BY <1>1 DEF PromoteCA, SameHistory, GoodCAs, IsCATable
  <2>2. \A i \in DOMAIN t : u[i] \in CARow(Id, Parent, Name)
    BY <1>1, <1>2, <1>3 DEF SameHistory, GoodCAs, IsCATable
  <2>3. QED
    BY <1>1, <1>2, <2>1, <2>2 DEF SameHistory, GoodCAs, IsCATable
<1>5. /\ u[id].name = v[id].name /\ u[id].generation = v[id].generation
      /\ u[id].supersedes = v[id].supersedes /\ u[id].parent_id = v[id].parent_id
      /\ u[id].status = "active" /\ u[id].is_issuing = TRUE
  BY <1>2, <1>3 DEF CARow
<1>6. SameHistory(t, u)
  <2> SUFFICES ASSUME NEW i \in DOMAIN t
               PROVE  /\ u[i].name = v[i].name
                      /\ u[i].generation = v[i].generation
                      /\ u[i].supersedes = v[i].supersedes
                      /\ u[i].parent_id = v[i].parent_id
    BY <1>1, <1>2 DEF SameHistory
  <2>1. CASE i = id
    BY <1>5, <2>1
  <2>2. CASE i # id
    BY <1>2, <2>2
  <2>3. QED
    BY <2>1, <2>2
<1>7. AtMostOneActive(u)
  <2>1. \A i \in DOMAIN t : u[i].name = v[i].name
    BY <1>1, <1>6 DEF SameHistory
  <2>2. \A i \in DOMAIN t : u[i].status = "active" => i = id \/ v[i].status = "active"
    BY <1>2
  <2>3. v[id].name = t[id].name
    BY <1>1 DEF SameHistory
  <2>4. QED
    BY <1>1, <1>2, <1>a, <2>1, <2>2, <2>3 DEF SameHistory, AtMostOneActive, GoodCAs
<1>8. IssuingIffActive(u)
  <2> HIDE DEF u, v
  <2>1. IssuingIffActive(v) /\ DOMAIN v = DOMAIN t
    BY <1>1 DEF GoodCAs, SameHistory
  <2>2. \A i \in DOMAIN t : u[i].is_issuing <=> u[i].status = "active"
    BY <1>2, <1>5, <2>1 DEF IssuingIffActive
  <2>3. QED
    BY <1>2, <2>2 DEF IssuingIffActive
<1>9. QED
  BY <1>4, <1>6, <1>7, <1>8, UpdateGood


\* MAX(generation) + 1 is one more than the number of generations so far.
LEMMA NextGenerationValue ==
  ASSUME NEW t, NEW n, NEW k \in Nat, Generations(t, n) = 1 .. k
  PROVE  NextGeneration(t, n) = k + 1
<1> DEFINE S == {0} \cup Generations(t, n)
<1>1. k \in S /\ \A y \in S : k >= y
  OBVIOUS
<1>2. \A x \in S : (\A y \in S : x >= y) => x = k
  BY <1>1
<1>3. Max(S) = k
  BY <1>1, <1>2 DEF Max
<1>4. QED
  BY <1>3 DEF NextGeneration

LEMMA ActiveCAValue ==
  ASSUME NEW Id, NEW Parent, NEW Name, NEW t, NEW n,
         GoodCAs(t, Id, Parent, Name)
  PROVE  \/ ActiveCA(t, n) = NoId /\ ActiveCAs(t, n) = {}
         \/ ActiveCA(t, n) \in ActiveCAs(t, n)
<1>1. CASE ActiveCAs(t, n) = {}
  BY <1>1 DEF ActiveCA
<1>2. CASE ActiveCAs(t, n) # {}
  <2>1. PICK i \in ActiveCAs(t, n) : TRUE
    BY <1>2
  <2>2. \A j \in ActiveCAs(t, n) : i = j /\ t[i].generation >= t[j].generation
    BY <2>1 DEF ActiveCAs, GoodCAs, AtMostOneActive, IsCATable, CARow
  <2>3. QED
    BY <1>2, <2>1, <2>2 DEF ActiveCA
<1>3. QED
  BY <1>1, <1>2

\* Storing a new generation: the number is new, the link goes to an older row,
\* and the new row is the only active one of its name.
LEMMA UpsertGood ==
  ASSUME NEW Id, NEW Parent, NEW Name, NEW t, NEW id \in Id, NEW rec,
         GoodCAs(t, Id, Parent, Name),
         id \notin DOMAIN t,
         NoId \notin Id,
         rec.name \in Name, rec.parent_id \in Parent \cup {NoId}, rec.not_after \in Nat
  PROVE  GoodInsert(t, UpsertCA(t, id, rec), id, rec, Id, Parent, Name)
<1> DEFINE n == rec.name
           v == RetireOthers(t, n, NoId)
           u == UpsertCA(t, id, rec)
           a == ActiveCA(t, n)
<1>1. GoodCAs(v, Id, Parent, Name) /\ SameHistory(t, v)
  BY RetireOthersGood DEF GoodUpdate
<1>2. \A i \in DOMAIN t : v[i].name = n => v[i].status # "active"
  BY RetireOthersLeavesOne DEF GoodCAs, IsCATable
<1>3. PICK k \in Nat : Generations(t, n) = 1 .. k
  BY DEF GoodCAs, GenerationsAreInterval
<1>4. NextGeneration(t, n) = k + 1
  BY <1>3, NextGenerationValue
<1>5. /\ DOMAIN u = DOMAIN t \cup {id}
      /\ \A i \in DOMAIN t : u[i] = v[i]
      /\ u = [i \in DOMAIN t \cup {id} |-> u[i]]
  BY DEF UpsertCA
<1>6. /\ u[id].name = n
      /\ u[id].generation = k + 1
      /\ u[id].status = "active"
      /\ u[id].is_issuing = TRUE
      /\ u[id].supersedes = a
      /\ u[id].parent_id = rec.parent_id
  BY <1>4 DEF UpsertCA
<1>7. \/ a = NoId
      \/ a \in DOMAIN t /\ t[a].name = n /\ t[a].generation \in 1 .. k
  <2>1. \A i \in DOMAIN t : t[i].name = n => t[i].generation \in 1 .. k
    BY <1>3 DEF Generations
  <2>2. QED
    BY <2>1, ActiveCAValue DEF ActiveCAs
<1>8. IsCATable(u, Id, Parent, Name)
  <2>1. a \in Id \cup {NoId}
    BY <1>7 DEF GoodCAs, IsCATable
  <2>2. u[id] \in CARow(Id, Parent, Name)
    BY <1>4, <2>1 DEF UpsertCA, CARow, CAStatus
  <2>3. \A i \in DOMAIN t : u[i] \in CARow(Id, Parent, Name)
    BY <1>1, <1>5 DEF GoodCAs, IsCATable, SameHistory
  <2>4. QED
    BY <1>5, <2>2, <2>3 DEF GoodCAs, IsCATable
<1>9. AtMostOneActive(u)
  BY <1>1, <1>2, <1>5, <1>6 DEF GoodCAs, AtMostOneActive, SameHistory
<1>10. IssuingIffActive(u)
  BY <1>1, <1>5, <1>6 DEF GoodCAs, IssuingIffActive, SameHistory
<1>11. \A i \in DOMAIN t : /\ u[i].name = t[i].name
                           /\ u[i].generation = t[i].generation
                           /\ u[i].supersedes = t[i].supersedes
                           /\ u[i].parent_id = t[i].parent_id
  BY <1>1, <1>5 DEF SameHistory
<1>12. GenerationsDistinct(u)
  <2>1. \A i \in DOMAIN t : t[i].name = n => t[i].generation # k + 1
    BY <1>3 DEF Generations
  <2>2. QED
    BY <1>5, <1>6, <1>11, <2>1 DEF GenerationsDistinct, GoodCAs
<1>13. GenerationsAreInterval(u, Name)
  <2> SUFFICES ASSUME NEW m \in Name
               PROVE  \E l \in Nat : Generations(u, m) = 1 .. l
    BY DEF GenerationsAreInterval
  <2>1. CASE m = n
    <3>1. Generations(u, n) = Generations(t, n) \cup {k + 1}
      <4>1. ASSUME NEW g \in Generations(u, n) PROVE g \in Generations(t, n) \cup {k + 1}
        <5>1. PICK i \in DOMAIN u : u[i].name = n /\ g = u[i].generation
          BY <4>1 DEF Generations
        <5>2. CASE i = id
          BY <1>6, <5>1, <5>2
        <5>3. CASE i # id
          BY <1>5, <1>11, <5>1, <5>3 DEF Generations
        <5>4. QED
          BY <5>2, <5>3
      <4>2. ASSUME NEW g \in Generations(t, n) PROVE g \in Generations(u, n)
        <5>1. PICK i \in DOMAIN t : t[i].name = n /\ g = t[i].generation
          BY <4>2 DEF Generations
        <5>2. i \in DOMAIN u /\ u[i].name = n /\ u[i].generation = g
          BY <1>5, <1>11, <5>1
        <5>3. QED
          BY <5>2 DEF Generations
      <4>3. k + 1 \in Generations(u, n)
        BY <1>5, <1>6 DEF Generations
      <4>4. QED
        BY <4>1, <4>2, <4>3
    <3>2. Generations(u, n) = 1 .. (k + 1)
      BY <1>3, <3>1
    <3>3. QED
      BY <2>1, <3>2
  <2>2. CASE m # n
    <3>1. Generations(u, m) = Generations(t, m)
      BY <1>5, <1>6, <1>11, <2>2 DEF Generations
    <3>2. QED
      BY <3>1 DEF GoodCAs, GenerationsAreInterval
  <2>3. QED
    BY <2>1, <2>2
<1>14. SupersedesOlder(u)
  BY <1>5, <1>6, <1>7, <1>11 DEF SupersedesOlder, GoodCAs
<1>15. GoodCAs(u, Id, Parent, Name)
  BY <1>8, <1>9, <1>10, <1>12, <1>13, <1>14 DEF GoodCAs
<1>16. QED
  BY <1>5, <1>6, <1>11, <1>15 DEF GoodInsert

\* The checked form of the numbering follows from the proved one.
LEMMA IntervalNumbered ==
  ASSUME NEW Id, NEW Parent, NEW Name, NEW t, GoodCAs(t, Id, Parent, Name)
  PROVE  GenerationsNumbered(t)
<1> SUFFICES ASSUME NEW i \in DOMAIN t, NEW g \in 1 .. t[i].generation
             PROVE  \E j \in DOMAIN t : t[j].name = t[i].name /\ t[j].generation = g
  BY DEF GenerationsNumbered, GoodCAs, GenerationsDistinct
<1>1. t[i].name \in Name /\ t[i].generation \in Nat
  BY DEF GoodCAs, IsCATable, CARow
<1>2. PICK k \in Nat : Generations(t, t[i].name) = 1 .. k
  BY <1>1 DEF GoodCAs, GenerationsAreInterval
<1>3. g \in Generations(t, t[i].name)
  BY <1>1, <1>2 DEF Generations
<1>4. QED
  BY <1>3 DEF Generations

LEMMA EmptyGood ==
  ASSUME NEW Id, NEW Parent, NEW Name
  PROVE  GoodCAs(EmptyTable, Id, Parent, Name)
<1>1. \A n \in Name : Generations(EmptyTable, n) = 1 .. 0
  BY DEF Generations, EmptyTable
<1>2. GenerationsAreInterval(EmptyTable, Name)
  BY <1>1 DEF GenerationsAreInterval
<1>3. IsCATable(EmptyTable, Id, Parent, Name)
  BY DEF IsCATable, EmptyTable
<1>4. QED
  BY <1>2, <1>3
  DEF GoodCAs, EmptyTable, AtMostOneActive, IssuingIffActive, GenerationsDistinct,
      SupersedesOlder

-----------------------------------------------------------------------------
(***************************************************************************)
(* A table of CAs as logical CAs                                           *)
(***************************************************************************)

\* A generation is found by its name and number.
LEMMA GenerationFound ==
  ASSUME NEW Id, NEW Parent, NEW Name, NEW t, GoodCAs(t, Id, Parent, Name), NEW i \in DOMAIN t
  PROVE  GenerationOf(t, t[i].name, t[i].generation) = i
<1>1. \A j \in DOMAIN t :
        t[j].name = t[i].name /\ t[j].generation = t[i].generation <=> j = i
  BY DEF GoodCAs, GenerationsDistinct
<1>2. QED
  BY <1>1 DEF GenerationOf

LEMMA LatestValue ==
  ASSUME NEW t, NEW n, NEW k \in Nat, Generations(t, n) = 1 .. k
  PROVE  LatestGeneration(t, n) = k
<1> DEFINE S == {0} \cup Generations(t, n)
<1>1. k \in S /\ \A y \in S : k >= y
  OBVIOUS
<1>2. \A x \in S : (\A y \in S : x >= y) => x = k
  BY <1>1
<1>3. Max(S) = k
  BY <1>1, <1>2 DEF Max
<1>4. QED
  BY <1>3 DEF LatestGeneration

\* Each number up to the latest is that of a row.
LEMMA GenerationRow ==
  ASSUME NEW Id, NEW Parent, NEW Name, NEW t, GoodCAs(t, Id, Parent, Name), NEW n \in Name
  PROVE  /\ LatestGeneration(t, n) \in Nat
         /\ \A g \in 1 .. LatestGeneration(t, n) :
              /\ GenerationOf(t, n, g) \in DOMAIN t
              /\ t[GenerationOf(t, n, g)].name = n
              /\ t[GenerationOf(t, n, g)].generation = g
         /\ \A i \in DOMAIN t :
              t[i].name = n => t[i].generation \in 1 .. LatestGeneration(t, n)
<1>1. PICK k \in Nat : Generations(t, n) = 1 .. k
  BY DEF GoodCAs, GenerationsAreInterval
<1>2. LatestGeneration(t, n) = k
  BY <1>1, LatestValue
<1>3. ASSUME NEW g \in 1 .. k
      PROVE  /\ GenerationOf(t, n, g) \in DOMAIN t
             /\ t[GenerationOf(t, n, g)].name = n
             /\ t[GenerationOf(t, n, g)].generation = g
  <2>1. \E i \in DOMAIN t : t[i].name = n /\ t[i].generation = g
    BY <1>1 DEF Generations
  <2>2. QED
    BY <2>1 DEF GenerationOf
<1>4. \A i \in DOMAIN t : t[i].name = n => t[i].generation \in 1 .. k
  BY <1>1 DEF Generations
<1>5. QED
  BY <1>2, <1>3, <1>4

\* What becomes of the statuses, the history stays.
LEMMA SameHistoryOf ==
  ASSUME NEW Id, NEW Parent, NEW Name, NEW t, NEW u,
         GoodCAs(t, Id, Parent, Name), GoodCAs(u, Id, Parent, Name), SameHistory(t, u)
  PROVE  HistoryOf(u, Name) = HistoryOf(t, Name)
<1>1. ASSUME NEW n \in Name
      PROVE  [g \in 1 .. LatestGeneration(u, n) |-> GenerationOf(u, n, g)]
               = [g \in 1 .. LatestGeneration(t, n) |-> GenerationOf(t, n, g)]
  <2>1. Generations(u, n) = Generations(t, n)
    BY DEF Generations, SameHistory
  <2>2. LatestGeneration(u, n) = LatestGeneration(t, n)
    BY <2>1 DEF LatestGeneration
  <2>3. ASSUME NEW g \in 1 .. LatestGeneration(t, n)
        PROVE  GenerationOf(u, n, g) = GenerationOf(t, n, g)
    <3> PICK i : i = GenerationOf(t, n, g)
      OBVIOUS
    <3>1. i \in DOMAIN t /\ t[i].name = n /\ t[i].generation = g
      BY GenerationRow
    <3>2. i \in DOMAIN u /\ u[i].name = n /\ u[i].generation = g
      BY <3>1 DEF SameHistory
    <3>3. GenerationOf(u, n, g) = i
      BY <3>2, GenerationFound
    <3>4. QED
      BY <3>3
  <2>4. QED
    BY <2>2, <2>3
<1>2. QED
  BY <1>1 DEF HistoryOf

\* A new generation is added to the history of its name.
LEMMA AddedGeneration ==
  ASSUME NEW Id, NEW Parent, NEW Name, NEW t, NEW u, NEW id, NEW n \in Name,
         GoodCAs(t, Id, Parent, Name), GoodCAs(u, Id, Parent, Name),
         id \notin DOMAIN t, DOMAIN u = DOMAIN t \cup {id},
         \A i \in DOMAIN t : u[i].name = t[i].name /\ u[i].generation = t[i].generation,
         u[id].name = n, u[id].generation = LatestGeneration(t, n) + 1
  PROVE  /\ LatestGeneration(u, n) = LatestGeneration(t, n) + 1
         /\ \A m \in Name \ {n} : LatestGeneration(u, m) = LatestGeneration(t, m)
         /\ \A m \in Name : \A g \in 1 .. LatestGeneration(t, m) :
              GenerationOf(u, m, g) = GenerationOf(t, m, g)
         /\ GenerationOf(u, n, LatestGeneration(t, n) + 1) = id
<1>1. ASSUME NEW m \in Name, NEW g \in 1 .. LatestGeneration(t, m)
      PROVE  GenerationOf(u, m, g) = GenerationOf(t, m, g)
  <2> PICK i : i = GenerationOf(t, m, g)
    OBVIOUS
  <2>1. i \in DOMAIN t /\ t[i].name = m /\ t[i].generation = g
    BY GenerationRow
  <2>2. i \in DOMAIN u /\ u[i].name = m /\ u[i].generation = g
    BY <2>1
  <2>3. GenerationOf(u, m, g) = i
    BY <2>2, GenerationFound
  <2>4. QED
    BY <2>3
<1>2. GenerationOf(u, n, LatestGeneration(t, n) + 1) = id
  <2>1. id \in DOMAIN u
    OBVIOUS
  <2>2. GenerationOf(u, u[id].name, u[id].generation) = id
    BY <2>1, GenerationFound
  <2>3. QED
    BY <2>2
<1>3. ASSUME NEW m \in Name, m # n
      PROVE  LatestGeneration(u, m) = LatestGeneration(t, m)
  <2>1. Generations(u, m) = Generations(t, m)
    BY <1>3 DEF Generations
  <2>2. QED
    BY <2>1 DEF LatestGeneration
<1>4. LatestGeneration(u, n) = LatestGeneration(t, n) + 1
  <2> PICK k, l : k = LatestGeneration(t, n) /\ l = LatestGeneration(u, n)
    OBVIOUS
  <2>1. k \in Nat /\ l \in Nat
    BY GenerationRow
  <2>2. k + 1 \in 1 .. l
    BY GenerationRow
  <2>3. ASSUME l > k + 1 PROVE FALSE
    <3>1. k + 2 \in 1 .. l
      BY <2>1, <2>3
    <3> PICK i : i = GenerationOf(u, n, k + 2)
      OBVIOUS
    <3>2. i \in DOMAIN u /\ u[i].name = n /\ u[i].generation = k + 2
      BY <3>1, GenerationRow
    <3>3. i # id
      BY <2>1, <3>2
    <3>4. i \in DOMAIN t /\ t[i].name = n /\ t[i].generation = k + 2
      BY <3>2, <3>3
    <3>5. k + 2 \in 1 .. k
      BY <3>4, GenerationRow
    <3>6. QED
      BY <2>1, <3>5
  <2>4. QED
    BY <2>1, <2>2, <2>3
<1>5. QED
  BY <1>1, <1>2, <1>3, <1>4

\* What a name issues with is its active row.
LEMMA IssuingValue ==
  ASSUME NEW Id, NEW Parent, NEW Name, NEW t, GoodCAs(t, Id, Parent, Name), NEW n \in Name
  PROVE  /\ \A i \in DOMAIN t :
              t[i].name = n /\ t[i].status = "active" =>
                IssuingOf(t, Name)[n] = t[i].generation
         /\ ActiveCAs(t, n) = {} => IssuingOf(t, Name)[n] = 0
<1>1. ASSUME NEW i \in DOMAIN t, t[i].name = n, t[i].status = "active"
      PROVE  IssuingOf(t, Name)[n] = t[i].generation
  <2>1. i \in ActiveCAs(t, n)
    BY <1>1 DEF ActiveCAs
  <2>2. ActiveCA(t, n) \in ActiveCAs(t, n)
    BY <2>1, ActiveCAValue
  <2>3. ActiveCA(t, n) = i
    BY <2>1, <2>2 DEF ActiveCAs, GoodCAs, AtMostOneActive
  <2>4. QED
    BY <2>1, <2>3 DEF IssuingOf
<1>2. ASSUME ActiveCAs(t, n) = {} PROVE IssuingOf(t, Name)[n] = 0
  BY <1>2 DEF IssuingOf
<1>3. QED
  BY <1>1, <1>2

-----------------------------------------------------------------------------
(***************************************************************************)
(* Tables of leaf certificates                                             *)
(***************************************************************************)

GoodLeaves(t, Id, Issuer, CommonName) ==
  /\ IsLeafTable(t, Id, Issuer, CommonName)
  /\ AtMostOneActiveLeaf(t)
  /\ LeafChain(t)

\* u has the rows of t with other statuses, none of them newly active and none
\* newly superseded.
Demotes(t, u) ==
  /\ DOMAIN u = DOMAIN t
  /\ \A i \in DOMAIN t :
       /\ u[i].common_name = t[i].common_name
       /\ u[i].supersedes = t[i].supersedes
       /\ u[i].issuer_id = t[i].issuer_id
       /\ u[i].status = "active" => t[i].status = "active"
       /\ u[i].status = "superseded" => t[i].status = "superseded"

LEMMA DemotesGood ==
  ASSUME NEW Id, NEW Issuer, NEW CommonName, NEW t, NEW u,
         GoodLeaves(t, Id, Issuer, CommonName),
         IsLeafTable(u, Id, Issuer, CommonName),
         Demotes(t, u)
  PROVE  GoodLeaves(u, Id, Issuer, CommonName)
<1>1. AtMostOneActiveLeaf(u)
  BY DEF GoodLeaves, AtMostOneActiveLeaf, Demotes
<1>2. \A i \in DOMAIN u :
        u[i].supersedes # NoId =>
          /\ u[i].supersedes \in DOMAIN u
          /\ u[u[i].supersedes].common_name = u[i].common_name
          /\ u[u[i].supersedes].status # "active"
  BY DEF GoodLeaves, LeafChain, Demotes
<1>3. \A i, j \in DOMAIN u :
        u[i].supersedes = u[j].supersedes /\ u[i].supersedes # NoId => i = j
  BY DEF GoodLeaves, LeafChain, Demotes
<1>4. \A i \in DOMAIN u :
        u[i].status = "superseded" => \E j \in DOMAIN u : u[j].supersedes = i
  BY DEF GoodLeaves, LeafChain, Demotes
<1>5. LinksEnd(u)
  BY DEF GoodLeaves, LeafChain, LinksEnd, Demotes
<1>6. LeafChain(u)
  BY <1>2, <1>3, <1>4, <1>5 DEF LeafChain
<1>7. QED
  BY <1>1, <1>6 DEF GoodLeaves

\* An update that keeps the table good and its rows' issuers.
GoodLeafUpdate(t, u, Id, Issuer, CommonName) ==
  GoodLeaves(u, Id, Issuer, CommonName) /\ Demotes(t, u)

\* An insert that keeps the table good and the issuers of its rows.
GoodLeafInsert(t, u, id, rec, Id, Issuer, CommonName) ==
  /\ GoodLeaves(u, Id, Issuer, CommonName)
  /\ DOMAIN u = DOMAIN t \cup {id}
  /\ u[id].issuer_id = rec.issuer_id
  /\ \A i \in DOMAIN t : u[i].issuer_id = t[i].issuer_id

LEMMA SyncLeavesGood ==
  ASSUME NEW Id, NEW Issuer, NEW CommonName, NEW t, NEW now,
         GoodLeaves(t, Id, Issuer, CommonName)
  PROVE  GoodLeafUpdate(t, SyncLeaves(t, now), Id, Issuer, CommonName)
<1> DEFINE u == SyncLeaves(t, now)
<1>1. IsLeafTable(u, Id, Issuer, CommonName)
  BY DEF GoodLeaves, IsLeafTable, SyncLeaves, LeafRow, LeafStatus
<1>2. Demotes(t, u)
  BY DEF GoodLeaves, IsLeafTable, SyncLeaves, LeafRow, Demotes
<1>3. QED
  BY <1>1, <1>2, DemotesGood DEF GoodLeafUpdate

LEMMA RevokeGood ==
  ASSUME NEW Id, NEW Issuer, NEW CommonName, NEW t, NEW id \in DOMAIN t,
         GoodLeaves(t, Id, Issuer, CommonName)
  PROVE  GoodLeafUpdate(t, RevokeLeaf(t, id), Id, Issuer, CommonName)
<1> DEFINE u == RevokeLeaf(t, id)
<1>1. IsLeafTable(u, Id, Issuer, CommonName)
  BY DEF GoodLeaves, IsLeafTable, RevokeLeaf, LeafRow, LeafStatus
<1>2. Demotes(t, u)
  BY DEF GoodLeaves, IsLeafTable, RevokeLeaf, LeafRow, Demotes
<1>3. QED
  BY <1>1, <1>2, DemotesGood DEF GoodLeafUpdate

LEMMA ActiveLeafValue ==
  ASSUME NEW Id, NEW Issuer, NEW CommonName, NEW t, NEW cn,
         GoodLeaves(t, Id, Issuer, CommonName)
  PROVE  \/ ActiveLeaf(t, cn) = NoId /\ ActiveLeaves(t, cn) = {}
         \/ ActiveLeaves(t, cn) = {ActiveLeaf(t, cn)}
<1>1. CASE ActiveLeaves(t, cn) = {}
  BY <1>1 DEF ActiveLeaf
<1>2. CASE ActiveLeaves(t, cn) # {}
  <2>1. ActiveLeaf(t, cn) \in ActiveLeaves(t, cn)
    BY <1>2 DEF ActiveLeaf
  <2>2. \A i, j \in ActiveLeaves(t, cn) : i = j
    BY DEF ActiveLeaves, GoodLeaves, AtMostOneActiveLeaf
  <2>3. QED
    BY <2>1, <2>2
<1>3. QED
  BY <1>1, <1>2

\* A new certificate becomes the end of its name's chain.
LEMMA UpsertLeafGood ==
  ASSUME NEW Id, NEW Issuer, NEW CommonName, NEW t, NEW id \in Id, NEW rec,
         GoodLeaves(t, Id, Issuer, CommonName),
         id \notin DOMAIN t,
         NoId \notin Id,
         rec.common_name \in CommonName,
         rec.issuer_id \in Issuer \cup {NoId},
         rec.not_after \in Nat
  PROVE  GoodLeafInsert(t, UpsertLeaf(t, id, rec), id, rec, Id, Issuer, CommonName)
<1> DEFINE cn == rec.common_name
           v == Supersede(t, cn)
           u == UpsertLeaf(t, id, rec)
           a == ActiveLeaf(t, cn)
<1>1. \A i \in DOMAIN t :
        /\ v[i] \in LeafRow(Id, Issuer, CommonName)
        /\ v[i].common_name = t[i].common_name
        /\ v[i].supersedes = t[i].supersedes
        /\ v[i].issuer_id = t[i].issuer_id
        /\ v[i].status = IF i \in ActiveLeaves(t, cn) THEN "superseded" ELSE t[i].status
  BY DEF GoodLeaves, IsLeafTable, Supersede, LeafRow, LeafStatus
<1>2. /\ DOMAIN u = DOMAIN t \cup {id}
      /\ \A i \in DOMAIN t : u[i] = v[i]
      /\ u = [i \in DOMAIN t \cup {id} |-> u[i]]
  BY DEF UpsertLeaf
<1>3. /\ u[id].common_name = cn
      /\ u[id].status = "active"
      /\ u[id].supersedes = a
      /\ u[id].issuer_id = rec.issuer_id
  BY DEF UpsertLeaf
<1>4. \/ a = NoId /\ ActiveLeaves(t, cn) = {}
      \/ a \in DOMAIN t /\ ActiveLeaves(t, cn) = {a}
  BY ActiveLeafValue DEF ActiveLeaves
<1>5. a # NoId => t[a].common_name = cn /\ t[a].status = "active"
  BY <1>4 DEF ActiveLeaves
<1>6. IsLeafTable(u, Id, Issuer, CommonName)
  <2>1. u[id] \in LeafRow(Id, Issuer, CommonName)
    BY <1>4 DEF UpsertLeaf, LeafRow, LeafStatus, GoodLeaves, IsLeafTable
  <2>2. QED
    BY <1>1, <1>2, <2>1 DEF GoodLeaves, IsLeafTable
<1>7. AtMostOneActiveLeaf(u)
  BY <1>1, <1>2, <1>3 DEF GoodLeaves, AtMostOneActiveLeaf, ActiveLeaves
<1>8. \A i \in DOMAIN t : t[i].supersedes # NoId =>
        /\ t[i].supersedes \in DOMAIN t
        /\ t[t[i].supersedes].common_name = t[i].common_name
        /\ t[t[i].supersedes].status # "active"
  BY DEF GoodLeaves, LeafChain
<1>9. \A i \in DOMAIN u :
        u[i].supersedes # NoId =>
          /\ u[i].supersedes \in DOMAIN u
          /\ u[u[i].supersedes].common_name = u[i].common_name
          /\ u[u[i].supersedes].status # "active"
  <2> SUFFICES ASSUME NEW i \in DOMAIN u, u[i].supersedes # NoId
               PROVE  /\ u[i].supersedes \in DOMAIN u
                      /\ u[u[i].supersedes].common_name = u[i].common_name
                      /\ u[u[i].supersedes].status # "active"
    OBVIOUS
  <2>1. CASE i = id
    BY <1>1, <1>2, <1>3, <1>4, <1>5, <2>1
  <2>2. CASE i # id
    BY <1>1, <1>2, <1>8, <2>2
  <2>3. QED
    BY <2>1, <2>2
<1>10. \A i, j \in DOMAIN u :
         u[i].supersedes = u[j].supersedes /\ u[i].supersedes # NoId => i = j
  <2>1. \A i \in DOMAIN t : t[i].supersedes # NoId => t[i].supersedes # a
    BY <1>5, <1>8
  <2>2. \A i, j \in DOMAIN t :
          t[i].supersedes = t[j].supersedes /\ t[i].supersedes # NoId => i = j
    BY DEF GoodLeaves, LeafChain
  <2>3. \A i \in DOMAIN t : u[i].supersedes = t[i].supersedes
    BY <1>1, <1>2
  <2>4. QED
    BY <1>2, <1>3, <2>1, <2>2, <2>3
<1>11. \A i \in DOMAIN u :
         u[i].status = "superseded" => \E j \in DOMAIN u : u[j].supersedes = i
  <2> SUFFICES ASSUME NEW i \in DOMAIN u, u[i].status = "superseded"
               PROVE  \E j \in DOMAIN u : u[j].supersedes = i
    OBVIOUS
  <2>1. i \in DOMAIN t
    BY <1>2, <1>3
  <2>2. CASE i \in ActiveLeaves(t, cn)
    BY <1>2, <1>3, <1>4, <2>2
  <2>3. CASE i \notin ActiveLeaves(t, cn)
    <3>1. t[i].status = "superseded"
      BY <1>1, <1>2, <2>1, <2>3
    <3>2. PICK j \in DOMAIN t : t[j].supersedes = i
      BY <2>1, <3>1 DEF GoodLeaves, LeafChain
    <3>3. QED
      BY <1>1, <1>2, <3>2
  <2>4. QED
    BY <2>2, <2>3
<1>12. LinksEnd(u)
  <2> HIDE DEF u, v, a
  <2> SUFFICES ASSUME NEW S \in (SUBSET DOMAIN u) \ {{}}
               PROVE  \E i \in S : u[i].supersedes \notin S
    BY DEF LinksEnd
  <2>1. CASE S \subseteq {id}
    <3>1. S = {id}
      BY <2>1
    <3>2. a # id
      BY <1>4
    <3>3. QED
      BY <1>3, <2>1, <3>1, <3>2
  <2>2. CASE ~(S \subseteq {id})
    <3>1. S \ {id} \in (SUBSET DOMAIN t) \ {{}}
      BY <1>2, <2>2
    <3>2. PICK i \in S \ {id} : t[i].supersedes \notin S \ {id}
      BY <3>1 DEF GoodLeaves, LeafChain, LinksEnd
    <3>3. i \in DOMAIN t /\ u[i].supersedes = t[i].supersedes
      BY <1>1, <1>2, <3>1
    <3>4. t[i].supersedes # id
      BY <1>8, <3>3
    <3>5. QED
      BY <3>2, <3>3, <3>4
  <2>3. QED
    BY <2>1, <2>2
<1>13. LeafChain(u)
  BY <1>9, <1>10, <1>11, <1>12 DEF LeafChain
<1>14. GoodLeaves(u, Id, Issuer, CommonName)
  BY <1>6, <1>7, <1>13 DEF GoodLeaves
<1>15. QED
  BY <1>1, <1>2, <1>3, <1>14 DEF GoodLeafInsert

LEMMA EmptyLeavesGood ==
  ASSUME NEW Id, NEW Issuer, NEW CommonName
  PROVE  GoodLeaves(EmptyTable, Id, Issuer, CommonName)
<1>1. DOMAIN EmptyTable = {}
  BY DEF EmptyTable
<1>2. LinksEnd(EmptyTable)
  BY <1>1 DEF LinksEnd
<1>3. IsLeafTable(EmptyTable, Id, Issuer, CommonName)
  BY DEF EmptyTable, IsLeafTable
<1>4. QED
  BY <1>1, <1>2, <1>3 DEF GoodLeaves, AtMostOneActiveLeaf, LeafChain

-----------------------------------------------------------------------------
(***************************************************************************)
(* What each statement does to one row, for the properties that compare a  *)
(* table with what it was before.                                          *)
(***************************************************************************)

\* A certificate is the same, whatever its status.
SameLeaf(a, b) ==
  /\ b.common_name = a.common_name
  /\ b.supersedes = a.supersedes
  /\ b.issuer_id = a.issuer_id
  /\ b.not_after = a.not_after

LEMMA SyncedLeaf ==
  ASSUME NEW Id, NEW Issuer, NEW CommonName, NEW t, NEW now,
         IsLeafTable(t, Id, Issuer, CommonName),
         NEW i \in DOMAIN t
  PROVE  LET v == SyncLeaves(t, now)
         IN  /\ v[i] \in LeafRow(Id, Issuer, CommonName)
             /\ SameLeaf(t[i], v[i])
             /\ \/ v[i].status = t[i].status
                \/ t[i].status = "active" /\ v[i].status = "expired" /\ t[i].not_after < now
<1>1. t[i] \in LeafRow(Id, Issuer, CommonName)
  BY DEF IsLeafTable
<1>2. CASE t[i].status = "active" /\ t[i].not_after < now
  <2>1. SyncLeaves(t, now)[i] = [t[i] EXCEPT !.status = "expired"]
    BY <1>2 DEF SyncLeaves
  <2>2. QED
    BY <1>1, <1>2, <2>1 DEF LeafRow, LeafStatus, SameLeaf
<1>3. CASE ~(t[i].status = "active" /\ t[i].not_after < now)
  BY <1>1, <1>3 DEF SyncLeaves, SameLeaf
<1>4. QED
  BY <1>2, <1>3

LEMMA UpsertedLeaf ==
  ASSUME NEW Id, NEW Issuer, NEW CommonName, NEW t, NEW id, NEW rec,
         IsLeafTable(t, Id, Issuer, CommonName),
         id \notin DOMAIN t,
         NEW i \in DOMAIN t
  PROVE  LET u == UpsertLeaf(t, id, rec)
         IN  /\ u[i] \in LeafRow(Id, Issuer, CommonName)
             /\ SameLeaf(t[i], u[i])
             /\ \/ u[i].status = t[i].status /\ i \notin ActiveLeaves(t, rec.common_name)
                \/ /\ t[i].status = "active"
                   /\ u[i].status = "superseded"
                   /\ t[i].common_name = rec.common_name
<1>1. t[i] \in LeafRow(Id, Issuer, CommonName)
  BY DEF IsLeafTable
<1>2. UpsertLeaf(t, id, rec)[i] = Supersede(t, rec.common_name)[i]
  BY DEF UpsertLeaf
<1>3. CASE i \in ActiveLeaves(t, rec.common_name)
  <2>1. UpsertLeaf(t, id, rec)[i] = [t[i] EXCEPT !.status = "superseded"]
    BY <1>2, <1>3 DEF Supersede
  <2>2. t[i].status = "active" /\ t[i].common_name = rec.common_name
    BY <1>3 DEF ActiveLeaves
  <2>3. QED
    BY <1>1, <2>1, <2>2 DEF LeafRow, LeafStatus, SameLeaf
<1>4. CASE i \notin ActiveLeaves(t, rec.common_name)
  BY <1>1, <1>2, <1>4 DEF Supersede, SameLeaf
<1>5. QED
  BY <1>3, <1>4

\* The row that is inserted: it continues an old row, if there is one to continue.
LEMMA InsertedLeaf ==
  ASSUME NEW Id, NEW Issuer, NEW CommonName, NEW t, NEW id, NEW rec,
         GoodLeaves(t, Id, Issuer, CommonName)
  PROVE  /\ DOMAIN UpsertLeaf(t, id, rec) = DOMAIN t \cup {id}
         /\ UpsertLeaf(t, id, rec)[id].supersedes \in DOMAIN t \cup {NoId}
<1>1. ActiveLeaf(t, rec.common_name) \in DOMAIN t \cup {NoId}
  BY ActiveLeafValue DEF ActiveLeaves
<1>2. QED
  BY <1>1 DEF UpsertLeaf

LEMMA RevokedLeaf ==
  ASSUME NEW Id, NEW Issuer, NEW CommonName, NEW t, NEW id \in DOMAIN t,
         IsLeafTable(t, Id, Issuer, CommonName),
         NEW i \in DOMAIN t
  PROVE  LET u == RevokeLeaf(t, id)
         IN  /\ u[i] \in LeafRow(Id, Issuer, CommonName)
             /\ SameLeaf(t[i], u[i])
             /\ IF i = id THEN u[i].status = "revoked" ELSE u[i] = t[i]
<1>1. t[i] \in LeafRow(Id, Issuer, CommonName)
  BY DEF IsLeafTable
<1>2. CASE i = id
  <2>1. RevokeLeaf(t, id)[i] = [t[i] EXCEPT !.status = "revoked"]
    BY <1>2 DEF RevokeLeaf, IsLeafTable
  <2>2. QED
    BY <1>1, <1>2, <2>1 DEF LeafRow, LeafStatus, SameLeaf
<1>3. CASE i # id
  BY <1>1, <1>3 DEF RevokeLeaf, SameLeaf
<1>4. QED
  BY <1>2, <1>3

\* Only the clock and a new certificate of the name take an active row out of
\* use when a table is synchronised and inserted into.
LEMMA SyncedUpsertedLeaf ==
  ASSUME NEW Id, NEW Issuer, NEW CommonName, NEW t, NEW now, NEW id, NEW rec,
         IsLeafTable(t, Id, Issuer, CommonName),
         id \notin DOMAIN t,
         NEW i \in DOMAIN t
  PROVE  LET u == UpsertLeaf(SyncLeaves(t, now), id, rec)
         IN  /\ u[i] \in LeafRow(Id, Issuer, CommonName)
             /\ SameLeaf(t[i], u[i])
             /\ \/ u[i].status = t[i].status
                \/ t[i].status = "active" /\ u[i].status = "expired" /\ t[i].not_after < now
                \/ /\ t[i].status = "active"
                   /\ u[i].status = "superseded"
                   /\ t[i].common_name = rec.common_name
<1> DEFINE v == SyncLeaves(t, now)
           u == UpsertLeaf(v, id, rec)
<1>1. DOMAIN v = DOMAIN t /\ v = [j \in DOMAIN v |-> v[j]]
  BY DEF SyncLeaves
<1>2. \A j \in DOMAIN t :
        /\ v[j] \in LeafRow(Id, Issuer, CommonName)
        /\ SameLeaf(t[j], v[j])
        /\ \/ v[j].status = t[j].status
           \/ t[j].status = "active" /\ v[j].status = "expired" /\ t[j].not_after < now
  BY SyncedLeaf
<1> HIDE DEF v
<1>3. IsLeafTable(v, Id, Issuer, CommonName)
  BY <1>1, <1>2 DEF IsLeafTable
<1>4. /\ u[i] \in LeafRow(Id, Issuer, CommonName)
      /\ SameLeaf(v[i], u[i])
      /\ \/ u[i].status = v[i].status
         \/ /\ v[i].status = "active"
            /\ u[i].status = "superseded"
            /\ v[i].common_name = rec.common_name
  BY <1>1, <1>3, UpsertedLeaf
<1> HIDE DEF u
<1>5. SameLeaf(t[i], u[i])
  BY <1>2, <1>4 DEF SameLeaf
<1>6. QED
  BY <1>2, <1>4, <1>5 DEF SameLeaf, u, v

=============================================================================
