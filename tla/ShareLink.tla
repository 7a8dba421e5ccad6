------------------------------ MODULE ShareLink ------------------------------
(***************************************************************************)
(* What the owner of a certificate is promised of a share link, whoever    *)
(* has it: it opens until it is closed, which is final, or its views are   *)
(* used up; only so many visitors are inside at once, so that the views    *)
(* pass the limit by less than that; each visitor is counted before the    *)
(* certificate is given away.                                              *)
(*                                                                         *)
(* Shares, with its accesses of several calls each, its clock and its      *)
(* certificates, is shown to implement this.                               *)
(***************************************************************************)
EXTENDS Naturals

CONSTANTS
  ShareId,
  Limit,     \* the limits a link may have; 0 is none
  Room       \* how many visitors may be inside at once

VARIABLE link   \* for each link: limit, state, inside, views, served

Create(sh, limit) ==
  /\ sh \notin DOMAIN link
  /\ link' = [s \in DOMAIN link \cup {sh} |->
                IF s = sh
                THEN [limit |-> limit, state |-> "open", inside |-> 0, views |-> 0, served |-> 0]
                ELSE link[s]]

Closed(l)  == [l EXCEPT !.state = "closed"]
Entered(l) == [l EXCEPT !.inside = @ + 1]
Left(l)    == [l EXCEPT !.inside = @ - 1]
Viewed(l)  == [Left(l) EXCEPT !.views = @ + 1]
Served(l)  == [l EXCEPT !.served = @ + 1]

UsedUp(l) == l.limit # 0 /\ l.views >= l.limit

\* The owner closes one link; time may close several at once.
Close(S) == link' = [sh \in DOMAIN link |-> IF sh \in S THEN Closed(link[sh]) ELSE link[sh]]

\* The limit is looked at on the way in.
Enter(sh) ==
  /\ link[sh].state = "open"
  /\ ~UsedUp(link[sh])
  /\ link[sh].inside < Room
  /\ link' = [link EXCEPT ![sh] = Entered(@)]

Leave(sh) ==
  /\ link[sh].inside > 0
  /\ link' = [link EXCEPT ![sh] = Left(@)]

\* A visitor is counted, and is no longer one that may still be.
View(sh) ==
  /\ link[sh].inside > 0
  /\ link' = [link EXCEPT ![sh] = Viewed(@)]

\* A visitor that was counted gets the certificate.
Serve(sh) ==
  /\ link[sh].served < link[sh].views
  /\ link' = [link EXCEPT ![sh] = Served(@)]

Init == link = [sh \in {} |-> 0]

Next ==
  \/ \E sh \in ShareId, limit \in Limit : Create(sh, limit)
  \/ \E S \in SUBSET DOMAIN link : Close(S)
  \/ \E sh \in DOMAIN link : Enter(sh) \/ View(sh) \/ Leave(sh) \/ Serve(sh)

Spec == Init /\ [][Next]_link

=============================================================================
