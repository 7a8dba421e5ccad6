---------------------------- MODULE CSRLifecycle -----------------------------
(***************************************************************************)
(* What a requester who holds a pickup token is promised                   *)
(* (docs/CSR_REQUESTS.md): a submitted request is pending until it is      *)
(* decided once and for all; an issued request gives one certificate of    *)
(* the kind and the name asked for, the same one at every poll; any other  *)
(* request gives none.                                                     *)
(*                                                                         *)
(* CSRQueue, with its separate store calls, is shown to implement this.    *)
(***************************************************************************)
CONSTANTS
  RequestId,     \* requests that may be submitted
  Kind,          \* public or private
  CommonName,
  CertId,
  NoCert         \* what a poll returns in place of a certificate

VARIABLE answer   \* the answer to a poll for each submitted request

Submit(r, kind, cn) ==
  /\ r \notin DOMAIN answer
  /\ answer' = [q \in DOMAIN answer \cup {r} |->
                  IF q = r
                  THEN [kind |-> kind, common_name |-> cn,
                        status |-> "pending", certificate |-> NoCert]
                  ELSE answer[q]]

Issue(r, id) ==
  /\ answer[r].status = "pending"
  /\ answer' = [answer EXCEPT
       ![r].status = "issued",
       ![r].certificate = [id |-> id, kind |-> answer[r].kind,
                           common_name |-> answer[r].common_name]]

Reject(r) ==
  /\ answer[r].status = "pending"
  /\ answer' = [answer EXCEPT ![r].status = "rejected"]

Init == answer = [r \in {} |-> NoCert]

Next ==
  \/ \E r \in RequestId, kind \in Kind, cn \in CommonName : Submit(r, kind, cn)
  \/ \E r \in DOMAIN answer : Reject(r) \/ \E id \in CertId : Issue(r, id)

Spec == Init /\ [][Next]_answer

=============================================================================
