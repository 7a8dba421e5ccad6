------------------------------ MODULE Verifier -------------------------------
(***************************************************************************)
(* The verifier of bearer tokens (internal/auth/verifier.go) and its cache *)
(* of one issuer's signing keys, while the identity provider rotates its   *)
(* keys and moves them to another address.                                 *)
(*                                                                         *)
(* The cache is locked only to read or to write it.  A request that finds  *)
(* no fresh keys, or whose token the cached keys do not verify, fetches    *)
(* them with the lock released, and stores what it got when the answer is  *)
(* there, whatever others have stored since.                               *)
(*                                                                         *)
(* The age of an entry is by the wall clock: time.Now().UTC(), which is    *)
(* what is stored, has no monotonic reading.  A clock set back makes an    *)
(* entry younger, below nothing too, and one set forward makes it older.   *)
(* The timeout of a fetch is a timer, which no setting of the clock moves. *)
(*                                                                         *)
(* Time is counted in ticks since something happened, up to the point from *)
(* which more makes no difference.  A token is the key that verifies it,   *)
(* or NoId: one that no key verifies, or whose audience, lifetime or       *)
(* required claims do not hold; such a one goes the way of a token whose   *)
(* key is not published.                                                   *)
(***************************************************************************)
EXTENDS Tables, Integers

CONSTANTS
  Key,            \* the provider's keys
  KidOf,          \* the key id of a key, and of the token it verifies
  Url,            \* addresses keys may be served at
  JWKSURL,        \* what jwks_url of the auth_issuers row may be; NoId is empty
  Token,          \* what tokens are: the key that verifies one, or NoId
  Request,        \* bearer requests and probes that may run at once
  TTL,            \* 15 minutes
  Timeout,        \* of the HTTP client, --http-timeout
  EntrySetback    \* bound: how far, in all, the clock is set back under one entry

ASSUME VerifierAssumption ==
  /\ NoId \notin Key \cup Url
  /\ Token \subseteq Key \cup {NoId}
  /\ JWKSURL \subseteq Url \cup {NoId}
  /\ TTL \in Nat \ {0}
  /\ Timeout \in Nat
  /\ EntrySetback \in Nat

VARIABLES
  published,   \* the keys the provider serves now
  home,        \* the address it serves them at, named in its discovery document
  jwks_url,    \* column of auth_issuers
  cache,       \* Verifier.cache[issuer], or NoEntry
  proc,        \* where each request is
  withdrawn,   \* history: for each key, ticks since it was last published
  turned       \* history: ticks the clock was set back since the entry was stored

vars == <<published, home, jwks_url, cache, proc, withdrawn, turned>>

external == <<published, home, jwks_url, withdrawn>>

\* The age from which more makes no difference to an entry, however the clock
\* is set back from now on.
Stale == TTL + EntrySetback - turned

NoEntry == [url |-> NoId, keys |-> {}, age |-> TTL + EntrySetback]

Idle == [step |-> "idle"]

\* A key withdrawn that long ago cannot be in use any more.
LongAgo == TTL + EntrySetback + Timeout

Init ==
  /\ published \in SUBSET Key
  /\ home \in Url
  /\ jwks_url \in JWKSURL
  /\ cache = NoEntry
  /\ withdrawn = [k \in Key |-> IF k \in published THEN 0 ELSE LongAgo]
  /\ turned = 0
  /\ proc = [p \in Request |-> Idle]

-----------------------------------------------------------------------------
(***************************************************************************)
(* Time, the provider, and the operator                                    *)
(***************************************************************************)

Least(a, b) == IF a <= b THEN a ELSE b

\* The client gives up an answer that is not complete in time.
Slower(rec) ==
  IF rec.step # "fetched" THEN rec
  ELSE IF rec.slow = Timeout THEN Idle
  ELSE [rec EXCEPT !.slow = @ + 1]

Tick ==
  /\ cache' = [cache EXCEPT !.age = Least(@ + 1, Stale)]
  /\ withdrawn' = [k \in Key |-> IF k \in published THEN 0 ELSE Least(withdrawn[k] + 1, LongAgo)]
  /\ proc' = [p \in Request |-> Slower(proc[p])]
  /\ UNCHANGED <<published, home, jwks_url, turned>>

\* The clock of the server is set back, or forward: only an entry notices.
TurnBack(d) ==
  /\ cache # NoEntry
  /\ turned + d <= EntrySetback
  /\ turned' = turned + d
  /\ cache' = [cache EXCEPT !.age = @ - d]
  /\ UNCHANGED <<external, proc>>

TurnForward(d) ==
  /\ cache # NoEntry
  /\ cache' = [cache EXCEPT !.age = Least(@ + d, Stale)]
  /\ UNCHANGED <<external, turned, proc>>

\* What a request may count on: its key has been served all the time, at the
\* address its row of auth_issuers names.
Named(row, at) == IF row = NoId THEN at ELSE row

Steady(rec, keys, at) ==
  IF "steady" \in DOMAIN rec
  THEN [rec EXCEPT !.steady = @ /\ rec.key \in keys /\ Named(rec.row, at) = at]
  ELSE rec

\* The provider rotates its keys.
RotateKeys(keys) ==
  /\ published' = keys
  /\ withdrawn' = [k \in Key |-> IF k \in published \cup keys THEN 0 ELSE withdrawn[k]]
  /\ proc' = [p \in Request |-> Steady(proc[p], keys, home)]
  /\ UNCHANGED <<home, jwks_url, cache, turned>>

\* It moves them to another address, and its discovery document says so.
MoveKeys(at) ==
  /\ home' = at
  /\ proc' = [p \in Request |-> Steady(proc[p], published, at)]
  /\ UNCHANGED <<published, jwks_url, cache, withdrawn, turned>>

\* update-auth-issuer.  The cache is kept by issuer and knows nothing of it.
UpdateAuthIssuer(url) ==
  /\ jwks_url' = url
  /\ UNCHANGED <<published, home, cache, withdrawn, turned, proc>>

\* Nothing of the cache is stored.
Restart ==
  /\ cache' = NoEntry
  /\ turned' = 0
  /\ proc' = [p \in Request |-> Idle]
  /\ UNCHANGED external

-----------------------------------------------------------------------------
(***************************************************************************)
(* Verify                                                                  *)
(***************************************************************************)

Goto(p, rec) == proc' = [proc EXCEPT ![p] = rec]

At(p, step) == proc[p].step = step

\* The kid of a token selects keys; without a match every key is tried.
selectKeys(keys, kid) ==
  LET matching == {k \in keys : KidOf[k] = kid}
  IN  IF matching # {} THEN matching ELSE keys

verifyWithKeys(key, keys) == key \in selectKeys(keys, KidOf[key])

\* The request has read the enabled issuers, jwks_url among their columns.
Verify(p, key) ==
  /\ At(p, "idle")
  /\ Goto(p, [ step |-> "verifying", key |-> key, row |-> jwks_url, forced |-> FALSE,
               steady |-> key \in published /\ Named(jwks_url, home) = home ])
  /\ UNCHANGED <<external, cache, turned>>

\* doctor, the issuer list and the metrics probe an issuer: a forced fetch.
CheckIssuerConnectivity(p) ==
  /\ At(p, "idle")
  /\ Goto(p, [step |-> "refreshing", row |-> jwks_url, forced |-> TRUE])
  /\ UNCHANGED <<external, cache, turned>>

Probing(p) == "key" \notin DOMAIN proc[p]

Accept(p) == Goto(p, [step |-> "accepted"])

Refuse(p) == Goto(p, [step |-> "refused", wrongly |-> proc[p].steady])

Usable_mutant(entry) == entry.keys # {}   \* the age is not looked at

Usable(entry) == entry.keys # {} /\ entry.age < TTL

UseCachedKeys_mutant(p) ==   \* does not fetch again after a failed verification
  /\ At(p, "verifying")
  /\ Usable(cache)
  /\ IF verifyWithKeys(proc[p].key, cache.keys) THEN Accept(p) ELSE Refuse(p)
  /\ UNCHANGED <<external, cache, turned>>

\* keysForIssuer(FALSE) with a fresh entry, and the keys are tried at once.
UseCachedKeys(p) ==
  /\ At(p, "verifying")
  /\ Usable(cache)
  /\ IF verifyWithKeys(proc[p].key, cache.keys)
     THEN Accept(p)
     ELSE Goto(p, [proc[p] EXCEPT !.step = "refreshing", !.forced = TRUE])
  /\ UNCHANGED <<external, cache, turned>>

Fetching(rec, url) ==
  [f \in DOMAIN rec \cup {"url"} |->
     CASE f = "step" -> "fetching" [] f = "url" -> url [] OTHER -> rec[f]]

\* keysForIssuer without a fresh entry, or forced: the column, else the address
\* in the entry, however old, else the discovery document.
resolveJWKSURL(p) ==
  /\ At(p, "refreshing") \/ (At(p, "verifying") /\ ~Usable(cache))
  /\ Goto(p, IF proc[p].row # NoId THEN Fetching(proc[p], proc[p].row)
             ELSE IF cache.url # NoId THEN Fetching(proc[p], cache.url)
             ELSE [proc[p] EXCEPT !.step = "discovering"])
  /\ UNCHANGED <<external, cache, turned>>

Discover(p) ==
  /\ At(p, "discovering")
  /\ Goto(p, Fetching(proc[p], home))
  /\ UNCHANGED <<external, cache, turned>>

\* The provider answers; no keys, or another address, is an error, which is Fail.
FetchKeys(p) ==
  /\ At(p, "fetching")
  /\ proc[p].url = home
  /\ published # {}
  /\ Goto(p, [f \in DOMAIN proc[p] \cup {"keys", "slow"} |->
                CASE f = "step" -> "fetched" [] f = "keys" -> published
                  [] f = "slow" -> 0 [] OTHER -> proc[p][f]])
  /\ UNCHANGED <<external, cache, turned>>

\* The answer is complete in time: it replaces the entry and the keys are tried.
\* Unless this fetch was the forced one, a failed verification fetches again.
StoreKeys(p) ==
  /\ At(p, "fetched")
  /\ cache' = [url |-> proc[p].url, keys |-> proc[p].keys, age |-> 0]
  /\ turned' = 0
  /\ IF Probing(p) THEN Goto(p, Idle)
     ELSE IF verifyWithKeys(proc[p].key, proc[p].keys) THEN Accept(p)
     ELSE IF proc[p].forced THEN Refuse(p)
     ELSE Goto(p, [ step |-> "refreshing", key |-> proc[p].key, row |-> proc[p].row,
                    forced |-> TRUE, steady |-> proc[p].steady ])
  /\ UNCHANGED external

\* A request that has its answer ends; an HTTP error or a timeout ends any.
Fail(p) ==
  /\ ~At(p, "idle")
  /\ Goto(p, Idle)
  /\ UNCHANGED <<external, cache, turned>>

RequestStep(p) ==
  \/ \E k \in Token : Verify(p, k)
  \/ CheckIssuerConnectivity(p)
  \/ UseCachedKeys(p)
  \/ resolveJWKSURL(p)
  \/ Discover(p)
  \/ FetchKeys(p)
  \/ StoreKeys(p)
  \/ Fail(p)

Next ==
  \/ Tick
  \/ \E d \in 1 .. EntrySetback : TurnBack(d)
  \/ \E d \in 1 .. TTL + EntrySetback : TurnForward(d)
  \/ \E keys \in SUBSET Key : RotateKeys(keys)
  \/ \E at \in Url : MoveKeys(at)
  \/ \E url \in JWKSURL : UpdateAuthIssuer(url)
  \/ Restart
  \/ \E p \in Request : RequestStep(p)

Spec == Init /\ [][Next]_vars

-----------------------------------------------------------------------------
(***************************************************************************)
(* Properties                                                              *)
(***************************************************************************)

TypeOK ==
  /\ published \subseteq Key
  /\ home \in Url
  /\ jwks_url \in JWKSURL
  /\ cache \in [url : Url \cup {NoId}, keys : SUBSET Key, age : -EntrySetback .. TTL + EntrySetback]
  /\ withdrawn \in [Key -> 0 .. LongAgo]
  /\ turned \in 0 .. EntrySetback
  /\ \A p \in Request :
       proc[p].step \in {"idle", "verifying", "refreshing", "discovering", "fetching",
                         "fetched", "accepted", "refused"}
  /\ \A p \in Request : At(p, "fetching") => proc[p].url \in Url

Accepts(p) == At(p, "accepted")' /\ ~At(p, "accepted")

\* A key the provider has withdrawn stops working, although it is in the cache,
\* although an answer that still had it may arrive late and be stored over a
\* newer one, and although that makes it look fresh: within the lifetime of an
\* entry, the timeout of one fetch, and what the clock was set back since the
\* entry was stored.
WithdrawnKeyStops ==
  [][ \A p \in Request : Accepts(p) => withdrawn[proc[p].key] < TTL + Timeout + turned ]_vars

\* Whatever is in the cache, a good token whose key was published all the time
\* is not refused for its signature: a fetch may fail, but if it succeeds it
\* brings the key.
GoodTokenNotRefused ==
  \A p \in Request : At(p, "refused") => ~proc[p].wrongly

=============================================================================
