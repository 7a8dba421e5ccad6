---------------------------- MODULE CSRLimiter -----------------------------
(***************************************************************************)
(* POST /csr-requests: the limit on how often one address may submit, and  *)
(* what it does to a client that comes back when it is told to.            *)
(*                                                                         *)
(* The server keeps, for each address, when it last admitted a submission. *)
(* A submission that comes sooner than Interval after that is refused with *)
(* a Retry-After of whole seconds; an admitted one takes the slot of its   *)
(* address before anything of it is read, and keeps it when the body, the  *)
(* password or the request turns out to be wrong.  The map is in memory,   *)
(* and its times are wall-clock times: time.Now().UTC() drops the          *)
(* monotonic reading, so a clock set back makes an address wait longer,    *)
(* and one set forward admits it sooner.                                   *)
(*                                                                         *)
(* Time is counted in ticks.                                               *)
(***************************************************************************)
EXTENDS Integers

CONSTANTS
  Client,
  Address, AddressOf,   \* addresses, and the one each client comes from
  Allowed,              \* those that --nacl lets in
  Second,               \* ticks to the second
  Interval,             \* --csr-min-interval; one that is not positive is two seconds
  Setback               \* bound: how far, in all, the clock is set back

ASSUME CSRLimiterAssumption ==
  /\ AddressOf \in [Client -> Address]
  /\ Allowed \subseteq Address
  /\ Second \in Nat \ {0}
  /\ Interval \in Nat \ {0}
  /\ Setback \in Nat

VARIABLES
  since,      \* ticks by the server's clock since csrLastSubmit of an address
  setback,    \* how far the clock may still be set back
  client,     \* where each client is
  elapsed     \* history: ticks since the address was last admitted, and those the
              \* clock was set forward since; a clock set back takes nothing off

limiterVars == <<since, setback, client, elapsed>>

\* No entry, or one so old that no setting of the clock brings it back.
Never == Interval + Setback

\* Ticks are counted up to where more makes no difference.
UpTo(top, ticks) == IF ticks < top THEN ticks ELSE top

Most(a, b) == IF a >= b THEN a ELSE b

Away == [step |-> "idle"]

LimiterInit ==
  /\ since = [a \in Address |-> Never]
  /\ setback = Setback
  /\ client = [c \in Client |-> Away]
  /\ elapsed = [a \in Address |-> Interval]

-----------------------------------------------------------------------------
(***************************************************************************)
(* Time                                                                    *)
(***************************************************************************)

Waited(rec) == IF rec.step = "told" THEN [rec EXCEPT !.left = Most(@ - 1, 0)] ELSE rec

LimiterTick ==
  /\ since' = [a \in Address |-> UpTo(Never, since[a] + 1)]
  /\ elapsed' = [a \in Address |-> UpTo(Interval, elapsed[a] + 1)]
  /\ client' = [c \in Client |-> Waited(client[c])]
  /\ UNCHANGED setback

\* A client that something else has kept out is no longer counted on.
Disturbed(rec) == IF rec.step = "told" THEN [rec EXCEPT !.refusals = 0] ELSE rec

SetClockBack(k) ==
  /\ k <= setback
  /\ setback' = setback - k
  /\ since' = [a \in Address |-> since[a] - k]
  /\ client' = [c \in Client |-> Disturbed(client[c])]
  /\ UNCHANGED elapsed

\* Clients that wait are not kept out by that: what is left to them gets less.
SetClockForward(k) ==
  /\ since' = [a \in Address |-> UpTo(Never, since[a] + k)]
  /\ elapsed' = [a \in Address |-> UpTo(Interval, elapsed[a] + k)]
  /\ UNCHANGED <<setback, client>>

\* The map is gone, and with it every limit.
LimiterRestart ==
  /\ since' = [a \in Address |-> Never]
  /\ elapsed' = [a \in Address |-> Interval]
  /\ UNCHANGED <<setback, client>>

-----------------------------------------------------------------------------
(***************************************************************************)
(* handleCSRSubmit                                                         *)
(***************************************************************************)

Wait(a) == Interval - since[a]

\* Round(time.Second), which takes a half up.
Rounded(ticks) == (2 * ticks + Second) \div (2 * Second)

RetryAfter_mutant(ticks) == Rounded(ticks)   \* may be no wait at all

\* The header: whole seconds, at least one.
RetryAfter(ticks) == Most(1, Rounded(ticks))

Taken_mutant(a) ==   \* keeps the entry that is there
  [since EXCEPT ![a] = IF @ = Never THEN 0 ELSE @]

\* csrLastSubmit after an admission.
Taken(a) == [since EXCEPT ![a] = 0]

\* A client comes at any time; one that was told when to come back is counted on
\* only while it waits that long.
Comes(c) ==
  /\ client[c].step \in {"idle", "told"}
  /\ AddressOf[c] \in Allowed

Patient(rec) == rec.step = "told" /\ rec.refusals > 0 /\ rec.left = 0

TooSoon(c) ==
  /\ Comes(c)
  /\ LET wait == Wait(AddressOf[c])
         counted == client[c] = Away \/ Patient(client[c])
     IN  /\ wait > 0
         /\ client' = [client EXCEPT ![c] =
              [ step |-> "told", left |-> RetryAfter(wait) * Second,
                refusals |-> IF client[c] = Away THEN 1
                             ELSE IF counted THEN client[c].refusals + 1 ELSE 0 ]]
  /\ UNCHANGED <<since, setback, elapsed>>

\* The slot is taken; the others of the address are kept out by it.
Admit(c) ==
  /\ Comes(c)
  /\ LET a == AddressOf[c]
     IN  /\ Wait(a) <= 0
         /\ since' = Taken(a)
         /\ elapsed' = [elapsed EXCEPT ![a] = 0]
         /\ client' = [d \in Client |-> IF d = c THEN [step |-> "reading"]
                                        ELSE IF AddressOf[d] = a THEN Disturbed(client[d])
                                        ELSE client[d]]
  /\ UNCHANGED setback

\* The body is read, the password compared, the request prepared and stored; an
\* error of any of them gives no slot back.  A client may also give up.
Finish(c) ==
  /\ client[c].step # "idle"
  /\ client' = [client EXCEPT ![c] = Away]
  /\ UNCHANGED <<since, setback, elapsed>>

LimiterNext ==
  \/ LimiterTick
  \/ \E k \in 1 .. Setback : SetClockBack(k)
  \/ \E k \in 1 .. Interval : SetClockForward(k)
  \/ LimiterRestart
  \/ \E c \in Client : TooSoon(c) \/ Admit(c) \/ Finish(c)

LimiterSpec == LimiterInit /\ [][LimiterNext]_limiterVars

-----------------------------------------------------------------------------
(***************************************************************************)
(* Properties                                                              *)
(***************************************************************************)

LimiterTypeOK ==
  /\ since \in [Address -> -Setback .. Never]
  /\ setback \in 0 .. Setback
  /\ elapsed \in [Address -> 0 .. Interval]
  /\ \A c \in Client :
       \/ client[c].step \in {"idle", "reading"}
       \/ /\ client[c].step = "told"
          /\ client[c].left \in 0 .. RetryAfter(Interval + Setback) * Second
          /\ client[c].refusals \in Nat

\* A client that comes back when it is told to, and whose address nobody else
\* uses meanwhile, is refused twice at most: the seconds of Retry-After may be
\* rounded down, but what is left of the interval then is less than a second.
PatientClientAdmitted ==
  \A c \in Client : client[c].step = "told" => client[c].refusals <= 2

\* However many clients of one address come at once and however the clock is set
\* back, two submissions of the address are admitted no closer than Interval less
\* what the clock was set forward between them.  Nothing else lifts the limit but
\* the end of the server process.
AdmittedApart ==
  [][ \A c \in Client : client[c].step # "reading" /\ client'[c].step = "reading"
                          => elapsed[AddressOf[c]] = Interval ]_limiterVars

=============================================================================
