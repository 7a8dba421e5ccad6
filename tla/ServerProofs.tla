---------------------------- MODULE ServerProofs ----------------------------
(***************************************************************************)
(* What the server keeps in memory between requests: the key sets it has   *)
(* fetched (Verifier) and the time each address last submitted             *)
(* (CSRLimiter). Both are correct for every set of keys, requests, clients *)
(* and addresses and for every lifetime, timeout and interval.             *)
(*                                                                         *)
(* The key sets: a key is as old, as a signing key, as the answer it came  *)
(* in was slow, plus the time that answer has been in the cache. The       *)
(* timeout bounds the first and the lifetime of an entry, together with    *)
(* what the clock was set back since it was stored, the second. And        *)
(* an answer holds every key that was served when it was made, so a token  *)
(* whose key was served all the time finds its key in any of them.         *)
(*                                                                         *)
(* The limiter: the server's clock may fall behind the time that has       *)
(* really passed, and runs ahead of it by no more than it was set forward. *)
(* The wait it tells a client is rounded to whole seconds, so less than    *)
(* half a second is left to one that has waited it, and the second wait,   *)
(* of at least a second, covers that.                                      *)
(***************************************************************************)
EXTENDS Verifier, CSRLimiter, TLAPS

AnyKey == Key \cup {NoId}

-----------------------------------------------------------------------------
(***************************************************************************)
(* What a request knows, in each of its states: a verification with the    *)
(* prefix V, a probe with the prefix P.                                    *)
(***************************************************************************)

VAsking ==
  {s \in [step : {"verifying", "refreshing", "discovering"}, key : AnyKey, row : JWKSURL,
          forced : BOOLEAN, steady : BOOLEAN] :
     s.steady => s.key \in published}

VFetching ==
  {s \in [step : {"fetching"}, key : AnyKey, row : JWKSURL, forced : BOOLEAN, steady : BOOLEAN,
          url : Url] :
     s.steady => s.key \in published}

VFetched ==
  {s \in [step : {"fetched"}, key : AnyKey, row : JWKSURL, forced : BOOLEAN, steady : BOOLEAN,
          url : Url, keys : SUBSET Key, slow : 0 .. Timeout] :
     /\ s.steady => s.key \in published /\ s.key \in s.keys
     /\ \A k \in s.keys : withdrawn[k] <= s.slow}

PAsking == [step : {"refreshing", "discovering"}, row : JWKSURL, forced : BOOLEAN]

PFetching == [step : {"fetching"}, row : JWKSURL, forced : BOOLEAN, url : Url]

PFetched ==
  {s \in [step : {"fetched"}, row : JWKSURL, forced : BOOLEAN, url : Url, keys : SUBSET Key,
          slow : 0 .. Timeout] :
     \A k \in s.keys : withdrawn[k] <= s.slow}

Refused == {s \in [step : {"refused"}, wrongly : BOOLEAN] : ~s.wrongly}

ProcState ==
  {Idle} \cup [step : {"accepted"}] \cup Refused
    \cup VAsking \cup VFetching \cup VFetched \cup PAsking \cup PFetching \cup PFetched

Entry == [url : Url \cup {NoId}, keys : SUBSET Key, age : Int]

\* The age an entry would have, had the clock not been set back; set forward it
\* only makes the entry older.
RealAge == cache.age + turned

Typed ==
  /\ published \subseteq Key
  /\ home \in Url
  /\ jwks_url \in JWKSURL
  /\ cache \in Entry
  /\ turned \in 0 .. EntrySetback
  /\ RealAge \in 0 .. TTL + EntrySetback
  /\ withdrawn \in [Key -> 0 .. LongAgo]

KeysYoung ==
  /\ \A k \in published : withdrawn[k] = 0
  /\ \A k \in cache.keys : withdrawn[k] <= RealAge + Timeout

IInv == Typed /\ KeysYoung /\ proc \in [Request -> ProcState]

\* Nobody is accepted in a step but those whose key is young enough.
AcceptsYoung == \A p \in Request : Accepts(p) => withdrawn[proc[p].key] < TTL + Timeout + turned

-----------------------------------------------------------------------------
(***************************************************************************)
(* Steps of one request                                                    *)
(***************************************************************************)

\* The states by their step.
LEMMA ByStep ==
  ASSUME NEW s \in ProcState
  PROVE  /\ s.step = "idle" => s = Idle
         /\ s.step = "verifying" => s \in VAsking
         /\ s.step \in {"refreshing", "discovering"} => s \in VAsking \cup PAsking
         /\ s.step = "fetching" => s \in VFetching \cup PFetching
         /\ s.step = "fetched" => s \in VFetched \cup PFetched
         /\ s.step = "refused" => s \in Refused
<1>1. Idle.step = "idle"
  BY DEF Idle
<1>2. QED
  BY <1>1 DEF ProcState, Refused, VAsking, VFetching, VFetched, PAsking, PFetching, PFetched

\* A request takes the state s.
LEMMA RequestMoves ==
  ASSUME IInv, NEW p \in Request, NEW s \in ProcState, Goto(p, s), UNCHANGED <<external, cache, turned>>,
         s.step = "accepted" => withdrawn[proc[p].key] < TTL + Timeout + turned
  PROVE  IInv' /\ AcceptsYoung
<1>1. /\ UNCHANGED <<published, home, jwks_url, withdrawn, cache, turned>>
      /\ proc' = [proc EXCEPT ![p] = s]
  BY DEF Goto, external
<1>2. ProcState' = ProcState
  BY <1>1 DEF ProcState, VAsking, VFetching, VFetched, PAsking, PFetching, PFetched, Refused
<1>3. proc' \in [Request -> ProcState]
  BY <1>1 DEF IInv
<1>4. IInv'
  BY <1>1, <1>2, <1>3 DEF IInv, Typed, KeysYoung, RealAge
<1>5. AcceptsYoung
  <2>1. \A q \in Request : proc'[q] = IF q = p THEN s ELSE proc[q]
    BY <1>1 DEF IInv
  <2>2. QED
    BY <2>1 DEF AcceptsYoung, Accepts, At
<1>6. QED
  BY <1>4, <1>5

LEMMA FetchingState ==
  ASSUME NEW s \in VAsking \cup PAsking, NEW url \in Url
  PROVE  Fetching(s, url) \in ProcState /\ Fetching(s, url).step = "fetching"
<1>1. CASE s \in VAsking
  <2>1. Fetching(s, url) = [step |-> "fetching", key |-> s.key, row |-> s.row, forced |-> s.forced,
                            steady |-> s.steady, url |-> url]
    BY <1>1 DEF VAsking, Fetching
  <2>2. Fetching(s, url) \in VFetching
    BY <1>1, <2>1 DEF VAsking, VFetching
  <2>3. QED
    BY <2>2 DEF ProcState, VFetching
<1>2. CASE s \in PAsking
  <2>1. Fetching(s, url) = [step |-> "fetching", row |-> s.row, forced |-> s.forced, url |-> url]
    BY <1>2 DEF PAsking, Fetching
  <2>2. Fetching(s, url) \in PFetching
    BY <1>2, <2>1 DEF PAsking, PFetching
  <2>3. QED
    BY <2>2 DEF ProcState, PFetching
<1>3. QED
  BY <1>1, <1>2

LEMMA VerifyStep ==
  ASSUME IInv, NEW p \in Request, NEW k \in AnyKey, Verify(p, k)
  PROVE  IInv' /\ AcceptsYoung
<1> DEFINE s == [ step |-> "verifying", key |-> k, row |-> jwks_url, forced |-> FALSE,
                  steady |-> k \in published /\ Named(jwks_url, home) = home ]
<1>1. s \in VAsking /\ s.step = "verifying"
  BY DEF VAsking, IInv, Typed
<1>2. Goto(p, s) /\ UNCHANGED <<external, cache, turned>>
  BY DEF Verify
<1> HIDE DEF s
<1>3. QED
  BY <1>1, <1>2, RequestMoves DEF ProcState

LEMMA ProbeStep ==
  ASSUME IInv, NEW p \in Request, CheckIssuerConnectivity(p)
  PROVE  IInv' /\ AcceptsYoung
<1> DEFINE s == [step |-> "refreshing", row |-> jwks_url, forced |-> TRUE]
<1>1. s \in PAsking /\ s.step = "refreshing"
  BY DEF PAsking, IInv, Typed
<1>2. Goto(p, s) /\ UNCHANGED <<external, cache, turned>>
  BY DEF CheckIssuerConnectivity
<1> HIDE DEF s
<1>3. QED
  BY <1>1, <1>2, RequestMoves DEF ProcState

\* A key that verifies a token is one of those it was tried with, and one of them
\* that has to be found is found.
LEMMA VerifyWithKeys ==
  ASSUME NEW key, NEW keys
  PROVE  /\ verifyWithKeys(key, keys) => key \in keys
         /\ key \in keys => verifyWithKeys(key, keys)
BY DEF verifyWithKeys, selectKeys

LEMMA UseCachedStep ==
  ASSUME IInv, NEW p \in Request, UseCachedKeys(p)
  PROVE  IInv' /\ AcceptsYoung
<1>1. proc[p] \in VAsking /\ Usable(cache) /\ UNCHANGED <<external, cache, turned>>
  BY ByStep DEF UseCachedKeys, At, IInv
<1>2. CASE verifyWithKeys(proc[p].key, cache.keys)
  <2> DEFINE s == [step |-> "accepted"]
  <2>1. Goto(p, s)
    BY <1>2 DEF UseCachedKeys, Accept
  <2>2. s \in ProcState
    BY DEF ProcState
  <2>3. withdrawn[proc[p].key] < TTL + Timeout + turned
    <3>1. proc[p].key \in cache.keys /\ cache.keys \subseteq Key
      BY <1>2, VerifyWithKeys DEF IInv, Typed, Entry
    <3>2. withdrawn[proc[p].key] <= cache.age + turned + Timeout
      BY <3>1 DEF IInv, KeysYoung, RealAge
    <3>3. withdrawn[proc[p].key] \in 0 .. LongAgo /\ cache.age \in Int /\ turned \in Nat
          /\ cache.age < TTL
      BY <1>1, <3>1, VerifierAssumption DEF IInv, Typed, Entry, Usable
    <3>4. QED
      BY <3>2, <3>3, VerifierAssumption DEF LongAgo
  <2>4. QED
    BY <1>1, <2>1, <2>2, <2>3, RequestMoves
<1>3. CASE ~verifyWithKeys(proc[p].key, cache.keys)
  <2> DEFINE s == [proc[p] EXCEPT !.step = "refreshing", !.forced = TRUE]
  <2>1. Goto(p, s)
    BY <1>3 DEF UseCachedKeys
  <2>2. s \in VAsking /\ s.step = "refreshing"
    BY <1>1 DEF VAsking
  <2> HIDE DEF s
  <2>3. QED
    BY <1>1, <2>1, <2>2, RequestMoves DEF ProcState
<1>4. QED
  BY <1>2, <1>3

LEMMA ResolveStep ==
  ASSUME IInv, NEW p \in Request, resolveJWKSURL(p)
  PROVE  IInv' /\ AcceptsYoung
<1>1. proc[p] \in VAsking \cup PAsking
  BY ByStep DEF resolveJWKSURL, At, IInv
<1>2. UNCHANGED <<external, cache, turned>>
  BY DEF resolveJWKSURL
<1>3. CASE Goto(p, [proc[p] EXCEPT !.step = "discovering"])
  <2> DEFINE s == [proc[p] EXCEPT !.step = "discovering"]
  <2>1. s \in VAsking \cup PAsking /\ s.step = "discovering"
    BY <1>1 DEF VAsking, PAsking
  <2> HIDE DEF s
  <2>2. Goto(p, s)
    BY <1>3 DEF s
  <2>3. QED
    BY <1>2, <2>1, <2>2, RequestMoves DEF ProcState
<1>4. ASSUME NEW url \in Url, Goto(p, Fetching(proc[p], url)) PROVE IInv' /\ AcceptsYoung
  BY <1>1, <1>2, <1>4, FetchingState, RequestMoves
<1>5. proc[p].row \in Url \cup {NoId} /\ cache.url \in Url \cup {NoId}
  BY <1>1, VerifierAssumption DEF VAsking, PAsking, IInv, Typed, Entry
<1>6. QED
  BY <1>3, <1>4, <1>5 DEF resolveJWKSURL

LEMMA DiscoverStep ==
  ASSUME IInv, NEW p \in Request, Discover(p)
  PROVE  IInv' /\ AcceptsYoung
<1>1. proc[p] \in VAsking \cup PAsking
  BY ByStep DEF Discover, At, IInv
<1>2. home \in Url
  BY DEF IInv, Typed
<1>3. Goto(p, Fetching(proc[p], home)) /\ UNCHANGED <<external, cache, turned>>
  BY DEF Discover
<1>4. Fetching(proc[p], home) \in ProcState /\ Fetching(proc[p], home).step = "fetching"
  BY <1>1, <1>2, FetchingState
<1>5. QED
  BY <1>3, <1>4, RequestMoves

\* The answer holds the keys that are served at this moment.
LEMMA FetchStep ==
  ASSUME IInv, NEW p \in Request, FetchKeys(p)
  PROVE  IInv' /\ AcceptsYoung
<1> DEFINE old == proc[p]
           s == [f \in DOMAIN old \cup {"keys", "slow"} |->
                   CASE f = "step" -> "fetched" [] f = "keys" -> published
                     [] f = "slow" -> 0 [] OTHER -> old[f]]
<1>1. old \in VFetching \cup PFetching
  BY ByStep DEF FetchKeys, At, IInv
<1>2. Goto(p, s) /\ UNCHANGED <<external, cache, turned>>
  BY DEF FetchKeys
<1>3. published \subseteq Key /\ (\A k \in published : withdrawn[k] <= 0) /\ 0 \in 0 .. Timeout
  BY VerifierAssumption DEF IInv, Typed, KeysYoung, RealAge
<1> HIDE DEF old
<1>4. CASE old \in VFetching
  <2>1. s = [step |-> "fetched", key |-> old.key, row |-> old.row, forced |-> old.forced,
             steady |-> old.steady, url |-> old.url, keys |-> published, slow |-> 0]
    BY <1>4 DEF VFetching
  <2> HIDE DEF s
  <2>2. s \in VFetched /\ s.step = "fetched"
    BY <1>3, <1>4, <2>1 DEF VFetching, VFetched
  <2>3. QED
    BY <1>2, <2>2, RequestMoves DEF ProcState
<1>5. CASE old \in PFetching
  <2>1. s = [step |-> "fetched", row |-> old.row, forced |-> old.forced, url |-> old.url,
             keys |-> published, slow |-> 0]
    BY <1>5 DEF PFetching
  <2> HIDE DEF s
  <2>2. s \in PFetched /\ s.step = "fetched"
    BY <1>3, <1>5, <2>1 DEF PFetching, PFetched
  <2>3. QED
    BY <1>2, <2>2, RequestMoves DEF ProcState
<1>6. QED
  BY <1>1, <1>4, <1>5

LEMMA FailStep ==
  ASSUME IInv, NEW p \in Request, Fail(p)
  PROVE  IInv' /\ AcceptsYoung
BY RequestMoves DEF Fail, Idle, ProcState

\* The answer replaces the entry, and its keys are no older than it was slow.
LEMMA StoreStep ==
  ASSUME IInv, NEW p \in Request, StoreKeys(p)
  PROVE  IInv' /\ AcceptsYoung
<1> DEFINE old == proc[p]
<1>1. old \in VFetched \cup PFetched
  BY ByStep DEF StoreKeys, At, IInv
<1>2. UNCHANGED <<published, home, jwks_url, withdrawn>>
  BY DEF StoreKeys, external
<1>3. cache' = [url |-> old.url, keys |-> old.keys, age |-> 0] /\ turned' = 0
  BY DEF StoreKeys
<1>4. /\ old.url \in Url /\ old.keys \subseteq Key /\ old.slow \in 0 .. Timeout
      /\ \A k \in old.keys : withdrawn[k] <= old.slow
  BY <1>1 DEF VFetched, PFetched
<1>5. \A k \in old.keys : withdrawn[k] <= Timeout
  <2>1. \A k \in old.keys : withdrawn[k] \in 0 .. LongAgo
    BY <1>4 DEF IInv, Typed
  <2>2. QED
    BY <1>4, <2>1, VerifierAssumption DEF LongAgo
<1>6. Typed' /\ KeysYoung'
  <2>1. cache'.keys = old.keys /\ RealAge' = 0
    BY <1>3 DEF RealAge
  <2>2. \A k \in cache'.keys : withdrawn[k] <= RealAge' + Timeout
    BY <1>5, <2>1, VerifierAssumption
  <2>3. cache' \in Entry
    BY <1>3, <1>4 DEF Entry
  <2>4. QED
    BY <1>2, <1>3, <2>1, <2>2, <2>3, VerifierAssumption DEF IInv, Typed, KeysYoung
<1>7. ASSUME NEW s \in ProcState, Goto(p, s),
             s.step = "accepted" => withdrawn[old.key] < TTL + Timeout + turned
      PROVE  IInv' /\ AcceptsYoung
  <2>1. proc' = [proc EXCEPT ![p] = s]
    BY <1>7 DEF Goto
  <2>2. ProcState' = ProcState
    BY <1>2 DEF ProcState, VAsking, VFetching, VFetched, PAsking, PFetching, PFetched, Refused
  <2>3. proc' \in [Request -> ProcState]
    BY <2>1 DEF IInv
  <2>4. \A q \in Request : proc'[q] = IF q = p THEN s ELSE proc[q]
    BY <2>1 DEF IInv
  <2>5. AcceptsYoung
    BY <1>7, <2>4 DEF AcceptsYoung, Accepts, At
  <2>6. QED
    BY <1>6, <2>2, <2>3, <2>5 DEF IInv
<1>8. CASE Goto(p, Idle)
  BY <1>7, <1>8 DEF Idle, ProcState
<1>9. CASE Goto(p, [step |-> "accepted"]) /\ verifyWithKeys(old.key, old.keys)
  <2>1. old.key \in old.keys
    BY <1>9, VerifyWithKeys
  <2>2. withdrawn[old.key] <= Timeout /\ withdrawn[old.key] \in 0 .. LongAgo /\ turned \in Nat
    BY <1>4, <1>5, <2>1, VerifierAssumption DEF IInv, Typed
  <2>3. withdrawn[old.key] < TTL + Timeout + turned
    BY <2>2, VerifierAssumption DEF LongAgo
  <2>4. [step |-> "accepted"] \in ProcState
    BY DEF ProcState
  <2>5. QED
    BY <1>7, <1>9, <2>3, <2>4
<1>10. CASE old \in VFetched /\ Refuse(p) /\ ~verifyWithKeys(old.key, old.keys)
  <2> DEFINE s == [step |-> "refused", wrongly |-> old.steady]
  <2>1. ~old.steady
    BY <1>10, VerifyWithKeys DEF VFetched
  <2>2. old.steady \in BOOLEAN
    BY <1>10 DEF VFetched
  <2>3. s \in Refused /\ s.step = "refused"
    BY <2>1, <2>2 DEF Refused
  <2>4. Goto(p, s)
    BY <1>10 DEF Refuse
  <2> HIDE DEF s
  <2>5. QED
    BY <1>7, <2>3, <2>4 DEF ProcState
<1>11. CASE old \in VFetched
            /\ Goto(p, [ step |-> "refreshing", key |-> old.key, row |-> old.row,
                         forced |-> TRUE, steady |-> old.steady ])
  <2> DEFINE s == [ step |-> "refreshing", key |-> old.key, row |-> old.row,
                    forced |-> TRUE, steady |-> old.steady ]
  <2>1. s \in VAsking /\ s.step = "refreshing"
    BY <1>11 DEF VFetched, VAsking
  <2> HIDE DEF s
  <2>2. Goto(p, s)
    BY <1>11 DEF s
  <2>3. QED
    BY <1>7, <2>1, <2>2 DEF ProcState
<1>12. ~Probing(p) => old \in VFetched
  BY <1>1 DEF Probing, PFetched
<1>13. QED
  BY <1>8, <1>9, <1>10, <1>11, <1>12 DEF StoreKeys, Accept

-----------------------------------------------------------------------------
(***************************************************************************)
(* Steps of the provider, the operator and the clock                       *)
(***************************************************************************)

\* Nobody is accepted in a step that leaves every request its step or resets it.
LEMMA NoneAccepted ==
  ASSUME \A p \in Request : At(p, "accepted")' => At(p, "accepted")
  PROVE  AcceptsYoung
BY DEF AcceptsYoung, Accepts

\* One tick ages a withdrawn key, an entry and an answer alike.
LEMMA TickStep ==
  ASSUME IInv, Tick
  PROVE  IInv' /\ AcceptsYoung
<1>1. /\ UNCHANGED <<published, home, jwks_url, turned>>
      /\ cache' = [cache EXCEPT !.age = Least(@ + 1, Stale)]
      /\ withdrawn' = [k \in Key |-> IF k \in published THEN 0 ELSE Least(withdrawn[k] + 1, LongAgo)]
      /\ proc' = [p \in Request |-> Slower(proc[p])]
  BY DEF Tick
<1>2. /\ cache \in Entry
      /\ withdrawn \in [Key -> 0 .. LongAgo] /\ published \subseteq Key
      /\ TTL \in Nat /\ Timeout \in Nat /\ EntrySetback \in Nat /\ turned \in 0 .. EntrySetback
      /\ LongAgo \in Nat /\ LongAgo = TTL + EntrySetback + Timeout
      /\ RealAge \in 0 .. TTL + EntrySetback
  BY VerifierAssumption DEF IInv, Typed, LongAgo
<1>3. /\ cache'.keys = cache.keys /\ cache' \in Entry
      /\ RealAge' = Least(RealAge + 1, TTL + EntrySetback)
      /\ RealAge' \in 0 .. TTL + EntrySetback
  <2>1. /\ cache'.keys = cache.keys /\ cache'.url = cache.url
        /\ cache'.age = Least(cache.age + 1, TTL + EntrySetback - turned)
    BY <1>1, <1>2 DEF Entry, Stale
  <2>2. cache.age \in Int
    BY <1>2 DEF Entry
  <2>3. RealAge' = Least(RealAge + 1, TTL + EntrySetback) /\ RealAge' \in 0 .. TTL + EntrySetback
    BY <1>1, <1>2, <2>1, <2>2 DEF Least, RealAge
  <2>4. cache' \in Entry
    BY <1>1, <1>2, <2>2 DEF Entry, Least, Stale
  <2>5. QED
    BY <2>1, <2>3, <2>4
<1>4. withdrawn' \in [Key -> 0 .. LongAgo]
  BY <1>1, <1>2 DEF Least
<1>5. \A k \in Key : withdrawn'[k] = IF k \in published THEN 0 ELSE Least(withdrawn[k] + 1, LongAgo)
  BY <1>1
<1>6. Typed' /\ KeysYoung'
  <2>1. ASSUME NEW k \in cache.keys PROVE withdrawn'[k] <= RealAge' + Timeout
    <3>1. k \in Key /\ withdrawn[k] \in 0 .. LongAgo /\ withdrawn[k] <= RealAge + Timeout
      BY <1>2, <2>1 DEF IInv, KeysYoung, Entry
    <3>2. withdrawn'[k] = IF k \in published THEN 0 ELSE Least(withdrawn[k] + 1, LongAgo)
      BY <1>5, <3>1
    <3>3. QED
      BY <1>2, <1>3, <3>1, <3>2 DEF Least
  <2>2. \A k \in published : withdrawn'[k] = 0
    BY <1>2, <1>5
  <2>3. KeysYoung'
    BY <1>1, <1>3, <2>1, <2>2 DEF KeysYoung
  <2>4. Typed'
    BY <1>1, <1>3, <1>4 DEF IInv, Typed
  <2>5. QED
    BY <2>3, <2>4
<1>7. ASSUME NEW s \in ProcState
      PROVE  Slower(s) \in ProcState' /\ (Slower(s).step = "accepted" => s.step = "accepted")
  <2>1. CASE s.step # "fetched"
    <3>1. Slower(s) = s
      BY <2>1 DEF Slower
    <3>2. s \in ProcState'
      BY <1>1, <2>1 DEF ProcState, Refused, VAsking, VFetching, PAsking, PFetching, VFetched, PFetched
    <3>3. QED
      BY <3>1, <3>2
  <2>2. CASE s.step = "fetched" /\ s.slow = Timeout
    BY <2>2 DEF Slower, Idle, ProcState
  <2>3. CASE s.step = "fetched" /\ s.slow # Timeout
    <3> DEFINE t == [s EXCEPT !.slow = @ + 1]
    <3>1. Slower(s) = t
      BY <2>3 DEF Slower
    <3>2. s \in VFetched \cup PFetched
      BY <2>3, ByStep
    <3>3. s.keys \subseteq Key /\ s.slow \in 0 .. Timeout /\ \A k \in s.keys : withdrawn[k] <= s.slow
      BY <3>2 DEF VFetched, PFetched
    <3>4. s.slow + 1 \in 0 .. Timeout
      BY <1>2, <2>3, <3>3
    <3>5. \A k \in s.keys : withdrawn'[k] <= s.slow + 1
      <4> SUFFICES ASSUME NEW k \in s.keys PROVE withdrawn'[k] <= s.slow + 1
        OBVIOUS
      <4>1. k \in Key /\ withdrawn[k] \in 0 .. LongAgo /\ withdrawn[k] <= s.slow
        BY <1>2, <3>3
      <4>2. withdrawn'[k] = IF k \in published THEN 0 ELSE Least(withdrawn[k] + 1, LongAgo)
        BY <1>5, <4>1
      <4>3. QED
        BY <1>2, <3>3, <4>1, <4>2 DEF Least
    <3>6. CASE s \in VFetched
      <4>1. t \in VFetched' /\ t.step = "fetched"
        BY <1>1, <3>4, <3>5, <3>6 DEF VFetched
      <4>2. QED
        BY <3>1, <4>1 DEF ProcState
    <3>7. CASE s \in PFetched
      <4>1. t \in PFetched' /\ t.step = "fetched"
        BY <1>1, <3>4, <3>5, <3>7 DEF PFetched
      <4>2. QED
        BY <3>1, <4>1 DEF ProcState
    <3>8. QED
      BY <3>2, <3>6, <3>7
  <2>4. QED
    BY <2>1, <2>2, <2>3
<1>8. proc' \in [Request -> ProcState']
  BY <1>1, <1>7 DEF IInv
<1>9. \A p \in Request : At(p, "accepted")' => At(p, "accepted")
  BY <1>1, <1>7 DEF IInv, At
<1>10. QED
  BY <1>6, <1>8, <1>9, NoneAccepted DEF IInv

\* What a request may count on is looked at again when the provider changes: the
\* rest of its state is not touched.  keys are those it serves from now on.
LEMMA SteadyState ==
  ASSUME NEW s \in ProcState, NEW keys, NEW at, published' = keys,
         withdrawn \in [Key -> 0 .. LongAgo], withdrawn' \in [Key -> 0 .. LongAgo],
         \A k \in Key : withdrawn'[k] <= withdrawn[k]
  PROVE  Steady(s, keys, at) \in ProcState' /\ Steady(s, keys, at).step = s.step
<1> DEFINE holds == s.steady /\ s.key \in keys /\ Named(s.row, at) = at
           t == [s EXCEPT !.steady = holds]
<1>1. CASE "steady" \notin DOMAIN s
  <2>1. Steady(s, keys, at) = s
    BY <1>1 DEF Steady
  <2>2. CASE s \in PFetched
    <3>1. ASSUME NEW k \in s.keys PROVE withdrawn'[k] <= s.slow
      <4>1. k \in Key /\ s.slow \in 0 .. Timeout /\ withdrawn[k] <= s.slow
        BY <2>2, <3>1 DEF PFetched
      <4>2. withdrawn[k] \in 0 .. LongAgo /\ withdrawn'[k] \in 0 .. LongAgo
            /\ withdrawn'[k] <= withdrawn[k]
        BY <4>1
      <4>3. QED
        BY <4>1, <4>2, VerifierAssumption
    <3>2. s \in PFetched'
      BY <2>2, <3>1 DEF PFetched
    <3>3. QED
      BY <2>1, <3>2 DEF ProcState
  <2>3. CASE s \in {Idle} \cup [step : {"accepted"}] \cup Refused \cup PAsking \cup PFetching
    BY <2>1, <2>3 DEF ProcState, Refused, PAsking, PFetching
  <2>4. QED
    BY <1>1, <2>2, <2>3 DEF ProcState, VAsking, VFetching, VFetched
<1>2. CASE "steady" \in DOMAIN s
  <2>1. Steady(s, keys, at) = t
    BY <1>2 DEF Steady
  <2>2. s \in VAsking \cup VFetching \cup VFetched
    BY <1>2 DEF ProcState, Idle, Refused, PAsking, PFetching, PFetched
  <2>3. holds \in BOOLEAN /\ (holds => s.steady /\ s.key \in keys)
    <3>1. s.steady \in BOOLEAN
      BY <2>2 DEF VAsking, VFetching, VFetched
    <3>2. QED
      BY <3>1
  <2> HIDE DEF holds
  <2>4. CASE s \in VAsking
    <3>1. t \in VAsking' /\ t.step = s.step
      BY <2>3, <2>4 DEF VAsking
    <3>2. QED
      BY <2>1, <3>1 DEF ProcState
  <2>5. CASE s \in VFetching
    <3>1. t \in VFetching' /\ t.step = s.step
      BY <2>3, <2>5 DEF VFetching
    <3>2. QED
      BY <2>1, <3>1 DEF ProcState
  <2>6. CASE s \in VFetched
    <3>1. ASSUME NEW k \in s.keys PROVE withdrawn'[k] <= s.slow
      <4>1. k \in Key /\ s.slow \in 0 .. Timeout /\ withdrawn[k] <= s.slow
        BY <2>6, <3>1 DEF VFetched
      <4>2. withdrawn[k] \in 0 .. LongAgo /\ withdrawn'[k] \in 0 .. LongAgo
            /\ withdrawn'[k] <= withdrawn[k]
        BY <4>1
      <4>3. QED
        BY <4>1, <4>2, VerifierAssumption
    <3>2. t \in VFetched' /\ t.step = s.step
      BY <2>3, <2>6, <3>1 DEF VFetched
    <3>3. QED
      BY <2>1, <3>2 DEF ProcState
  <2>7. QED
    BY <2>2, <2>4, <2>5, <2>6
<1>3. QED
  BY <1>1, <1>2

LEMMA RotateStep ==
  ASSUME IInv, NEW keys \in SUBSET Key, RotateKeys(keys)
  PROVE  IInv' /\ AcceptsYoung
<1>1. /\ published' = keys
      /\ withdrawn' = [k \in Key |-> IF k \in published \cup keys THEN 0 ELSE withdrawn[k]]
      /\ proc' = [p \in Request |-> Steady(proc[p], keys, home)]
      /\ UNCHANGED <<home, jwks_url, cache, turned>>
  BY DEF RotateKeys
<1>2. withdrawn \in [Key -> 0 .. LongAgo] /\ LongAgo \in Nat /\ cache.keys \subseteq Key
      /\ RealAge \in 0 .. TTL + EntrySetback /\ RealAge' = RealAge
  BY <1>1, VerifierAssumption DEF IInv, Typed, Entry, RealAge, LongAgo
<1>3. withdrawn' \in [Key -> 0 .. LongAgo] /\ \A k \in Key : withdrawn'[k] <= withdrawn[k]
  BY <1>1, <1>2
<1>4. Typed'
  BY <1>1, <1>2, <1>3 DEF IInv, Typed
<1>5. KeysYoung'
  <2>1. ASSUME NEW k \in cache.keys PROVE withdrawn'[k] <= RealAge + Timeout
    <3>1. k \in Key /\ withdrawn[k] <= RealAge + Timeout
      BY <1>2, <2>1 DEF IInv, KeysYoung
    <3>2. withdrawn[k] \in 0 .. LongAgo /\ withdrawn'[k] \in 0 .. LongAgo
          /\ withdrawn'[k] <= withdrawn[k]
      BY <1>2, <1>3, <3>1
    <3>3. QED
      BY <1>2, <3>1, <3>2, VerifierAssumption
  <2>2. \A k \in keys : withdrawn'[k] = 0
    BY <1>1
  <2>3. QED
    BY <1>1, <1>2, <2>1, <2>2 DEF KeysYoung
<1>6. \A s \in ProcState : /\ Steady(s, keys, home) \in ProcState'
                           /\ Steady(s, keys, home).step = s.step
  BY <1>1, <1>2, <1>3, SteadyState
<1>7. proc' \in [Request -> ProcState']
  BY <1>1, <1>6 DEF IInv
<1>8. \A p \in Request : At(p, "accepted")' => At(p, "accepted")
  BY <1>1, <1>6 DEF IInv, At
<1>9. QED
  BY <1>4, <1>5, <1>7, <1>8, NoneAccepted DEF IInv

LEMMA MoveStep ==
  ASSUME IInv, NEW at \in Url, MoveKeys(at)
  PROVE  IInv' /\ AcceptsYoung
<1>1. /\ home' = at
      /\ proc' = [p \in Request |-> Steady(proc[p], published, at)]
      /\ UNCHANGED <<published, jwks_url, cache, withdrawn, turned>>
  BY DEF MoveKeys
<1>2. withdrawn \in [Key -> 0 .. LongAgo] /\ LongAgo \in Nat
  BY VerifierAssumption DEF IInv, Typed, LongAgo
<1>3. withdrawn' \in [Key -> 0 .. LongAgo] /\ \A k \in Key : withdrawn'[k] <= withdrawn[k]
  BY <1>1, <1>2
<1>4. Typed' /\ KeysYoung'
  BY <1>1 DEF IInv, Typed, KeysYoung, RealAge
<1>5. \A s \in ProcState : /\ Steady(s, published, at) \in ProcState'
                           /\ Steady(s, published, at).step = s.step
  BY <1>1, <1>2, <1>3, SteadyState
<1>6. proc' \in [Request -> ProcState']
  BY <1>1, <1>5 DEF IInv
<1>7. \A p \in Request : At(p, "accepted")' => At(p, "accepted")
  BY <1>1, <1>5 DEF IInv, At
<1>8. QED
  BY <1>4, <1>6, <1>7, NoneAccepted DEF IInv

LEMMA UpdateStep ==
  ASSUME IInv, NEW url \in JWKSURL, UpdateAuthIssuer(url)
  PROVE  IInv' /\ AcceptsYoung
<1>1. jwks_url' = url /\ UNCHANGED <<published, home, cache, withdrawn, turned, proc>>
  BY DEF UpdateAuthIssuer
<1>2. ProcState' = ProcState
  BY <1>1 DEF ProcState, VAsking, VFetching, VFetched, PAsking, PFetching, PFetched, Refused
<1>3. IInv'
  BY <1>1, <1>2 DEF IInv, Typed, KeysYoung, RealAge
<1>4. AcceptsYoung
  BY <1>1, NoneAccepted DEF At
<1>5. QED
  BY <1>3, <1>4

\* What an entry loses in age when the clock is set back, it has been set back by.
LEMMA TurnBackStep ==
  ASSUME IInv, NEW d \in 1 .. EntrySetback, TurnBack(d)
  PROVE  IInv' /\ AcceptsYoung
<1>1. /\ cache' = [cache EXCEPT !.age = @ - d] /\ turned' = turned + d
      /\ turned + d <= EntrySetback
      /\ UNCHANGED <<published, home, jwks_url, withdrawn, proc>>
  BY DEF TurnBack, external
<1>2. /\ cache \in Entry /\ turned \in 0 .. EntrySetback /\ cache.age \in Int
      /\ EntrySetback \in Nat
  BY VerifierAssumption DEF IInv, Typed, Entry
<1>3. cache' \in Entry /\ cache'.keys = cache.keys /\ cache'.age = cache.age - d
  BY <1>1, <1>2 DEF Entry
<1>4. turned' \in 0 .. EntrySetback /\ RealAge' = RealAge
  BY <1>1, <1>2, <1>3 DEF RealAge
<1>5. Typed' /\ KeysYoung'
  BY <1>1, <1>3, <1>4 DEF IInv, Typed, KeysYoung
<1>6. ProcState' = ProcState
  BY <1>1 DEF ProcState, VAsking, VFetching, VFetched, PAsking, PFetching, PFetched, Refused
<1>7. AcceptsYoung
  BY <1>1, NoneAccepted DEF At
<1>8. QED
  BY <1>1, <1>5, <1>6, <1>7 DEF IInv

LEMMA TurnForwardStep ==
  ASSUME IInv, NEW d \in 1 .. TTL + EntrySetback, TurnForward(d)
  PROVE  IInv' /\ AcceptsYoung
<1>1. /\ cache' = [cache EXCEPT !.age = Least(@ + d, Stale)]
      /\ UNCHANGED <<published, home, jwks_url, withdrawn, turned, proc>>
  BY DEF TurnForward, external
<1>2. /\ cache \in Entry /\ turned \in 0 .. EntrySetback /\ cache.age \in Int
      /\ TTL \in Nat /\ EntrySetback \in Nat /\ Timeout \in Nat
      /\ RealAge \in 0 .. TTL + EntrySetback
  BY VerifierAssumption DEF IInv, Typed, Entry
<1>3. /\ cache' \in Entry /\ cache'.keys = cache.keys
      /\ cache'.age = Least(cache.age + d, TTL + EntrySetback - turned)
  BY <1>1, <1>2 DEF Entry, Least, Stale
<1>4. RealAge' \in 0 .. TTL + EntrySetback /\ RealAge <= RealAge'
  BY <1>1, <1>2, <1>3 DEF RealAge, Least
<1>5. \A k \in cache.keys : withdrawn[k] <= RealAge' + Timeout
  <2> SUFFICES ASSUME NEW k \in cache.keys PROVE withdrawn[k] <= RealAge' + Timeout
    OBVIOUS
  <2>1. withdrawn[k] \in 0 .. LongAgo /\ withdrawn[k] <= RealAge + Timeout
    BY <1>2 DEF IInv, Typed, KeysYoung, Entry
  <2>2. QED
    BY <1>2, <1>4, <2>1
<1>6. Typed' /\ KeysYoung'
  BY <1>1, <1>3, <1>4, <1>5 DEF IInv, Typed, KeysYoung
<1>7. ProcState' = ProcState
  BY <1>1 DEF ProcState, VAsking, VFetching, VFetched, PAsking, PFetching, PFetched, Refused
<1>8. AcceptsYoung
  BY <1>1, NoneAccepted DEF At
<1>9. QED
  BY <1>1, <1>6, <1>7, <1>8 DEF IInv

LEMMA RestartStep ==
  ASSUME IInv, Restart
  PROVE  IInv' /\ AcceptsYoung
<1>1. /\ cache' = NoEntry /\ turned' = 0 /\ proc' = [p \in Request |-> Idle]
      /\ UNCHANGED <<published, home, jwks_url, withdrawn>>
  BY DEF Restart, external
<1>2. cache'.keys = {} /\ cache' \in Entry /\ RealAge' = TTL + EntrySetback
  BY <1>1, VerifierAssumption DEF NoEntry, Entry, RealAge
<1>3. Typed' /\ KeysYoung'
  BY <1>1, <1>2, VerifierAssumption DEF IInv, Typed, KeysYoung
<1>4. proc' \in [Request -> ProcState']
  BY <1>1 DEF ProcState
<1>5. \A p \in Request : ~At(p, "accepted")'
  BY <1>1 DEF At, Idle
<1>6. QED
  BY <1>3, <1>4, <1>5, NoneAccepted DEF IInv

-----------------------------------------------------------------------------
(***************************************************************************)
(* Theorems                                                                *)
(***************************************************************************)

LEMMA InitIInv == Init => IInv
<1> SUFFICES ASSUME Init PROVE IInv
  OBVIOUS
<1>1. published \subseteq Key /\ home \in Url /\ jwks_url \in JWKSURL
  BY DEF Init
<1>2. cache.keys = {} /\ cache \in Entry /\ turned = 0 /\ RealAge = TTL + EntrySetback
  BY VerifierAssumption DEF Init, NoEntry, Entry, RealAge
<1>3. withdrawn \in [Key -> 0 .. LongAgo] /\ \A k \in published : withdrawn[k] = 0
  BY <1>1, VerifierAssumption DEF Init, LongAgo
<1>4. proc \in [Request -> ProcState]
  BY DEF Init, ProcState
<1>5. QED
  BY <1>1, <1>2, <1>3, <1>4, VerifierAssumption DEF IInv, Typed, KeysYoung

LEMMA NextIInv == IInv /\ [Next]_vars => IInv' /\ AcceptsYoung
<1> SUFFICES ASSUME IInv, [Next]_vars PROVE IInv' /\ AcceptsYoung
  OBVIOUS
<1>1. CASE Tick
  BY <1>1, TickStep
<1>2. ASSUME NEW keys \in SUBSET Key, RotateKeys(keys) PROVE IInv' /\ AcceptsYoung
  BY <1>2, RotateStep
<1>3. ASSUME NEW at \in Url, MoveKeys(at) PROVE IInv' /\ AcceptsYoung
  BY <1>3, MoveStep
<1>4. ASSUME NEW url \in JWKSURL, UpdateAuthIssuer(url) PROVE IInv' /\ AcceptsYoung
  BY <1>4, UpdateStep
<1>5. CASE Restart
  BY <1>5, RestartStep
<1>6. ASSUME NEW p \in Request, RequestStep(p) PROVE IInv' /\ AcceptsYoung
  <2>1. ASSUME NEW k \in AnyKey, Verify(p, k) PROVE IInv' /\ AcceptsYoung
    BY <2>1, VerifyStep
  <2>2. CASE CheckIssuerConnectivity(p)
    BY <2>2, ProbeStep
  <2>3. CASE UseCachedKeys(p)
    BY <2>3, UseCachedStep
  <2>4. CASE resolveJWKSURL(p)
    BY <2>4, ResolveStep
  <2>5. CASE Discover(p)
    BY <2>5, DiscoverStep
  <2>6. CASE FetchKeys(p)
    BY <2>6, FetchStep
  <2>7. CASE StoreKeys(p)
    BY <2>7, StoreStep
  <2>8. CASE Fail(p)
    BY <2>8, FailStep
  <2>9. QED
    BY <1>6, <2>1, <2>2, <2>3, <2>4, <2>5, <2>6, <2>7, <2>8, VerifierAssumption
      DEF RequestStep, AnyKey
<1>7. CASE UNCHANGED vars
  <2>1. UNCHANGED <<published, home, jwks_url, cache, withdrawn, turned, proc>>
    BY <1>7 DEF vars
  <2>2. ProcState' = ProcState
    BY <2>1 DEF ProcState, VAsking, VFetching, VFetched, PAsking, PFetching, PFetched, Refused
  <2>3. IInv'
    BY <2>1, <2>2 DEF IInv, Typed, KeysYoung, RealAge
  <2>4. AcceptsYoung
    BY <2>1, NoneAccepted DEF At
  <2>5. QED
    BY <2>3, <2>4
<1>8. ASSUME NEW d \in 1 .. EntrySetback, TurnBack(d) PROVE IInv' /\ AcceptsYoung
  BY <1>8, TurnBackStep
<1>9. ASSUME NEW d \in 1 .. TTL + EntrySetback, TurnForward(d) PROVE IInv' /\ AcceptsYoung
  BY <1>9, TurnForwardStep
<1>10. QED
  BY <1>1, <1>2, <1>3, <1>4, <1>5, <1>6, <1>7, <1>8, <1>9 DEF Next

\* The keys of every entry and of every answer under way are no older than the
\* entry's age and one timeout, and every request is where its fetches put it.
THEOREM SpecIInv == Spec => []IInv
BY InitIInv, NextIInv, PTL DEF Spec

\* Every variable keeps its type.
THEOREM SpecTypeOK == Spec => []TypeOK
<1>1. IInv => TypeOK
  <2> SUFFICES ASSUME IInv PROVE TypeOK
    OBVIOUS
  <2>1. ASSUME NEW p \in Request
        PROVE  /\ proc[p].step \in {"idle", "verifying", "refreshing", "discovering", "fetching",
                                    "fetched", "accepted", "refused"}
               /\ At(p, "fetching") => proc[p].url \in Url
    <3>1. proc[p] \in ProcState
      BY DEF IInv
    <3>2. At(p, "fetching") => proc[p].url \in Url
      BY <3>1, ByStep DEF At, VFetching, PFetching
    <3>3. QED
      BY <3>1, <3>2 DEF ProcState, Idle, Refused, VAsking, VFetching, VFetched, PAsking,
                        PFetching, PFetched
  <2>2. cache \in [url : Url \cup {NoId}, keys : SUBSET Key, age : -EntrySetback .. TTL + EntrySetback]
    <3>1. cache.age \in Int /\ cache.age + turned \in 0 .. TTL + EntrySetback
          /\ turned \in 0 .. EntrySetback
      BY DEF IInv, Typed, Entry, RealAge
    <3>2. cache.age \in -EntrySetback .. TTL + EntrySetback
      BY <3>1, VerifierAssumption
    <3>3. QED
      BY <3>2 DEF IInv, Typed, Entry
  <2>3. QED
    BY <2>1, <2>2 DEF TypeOK, IInv, Typed
<1>2. QED
  BY <1>1, SpecIInv, PTL

\* A good token whose key was published all the time is not refused for its
\* signature, whatever the cache held and whoever wrote it in the meantime.
THEOREM SpecGoodTokenNotRefused == Spec => []GoodTokenNotRefused
<1>1. IInv => GoodTokenNotRefused
  BY ByStep DEF IInv, GoodTokenNotRefused, At, Refused
<1>2. QED
  BY <1>1, SpecIInv, PTL

\* A withdrawn key stops within the lifetime of an entry, the timeout of one fetch
\* and what the clock was set back since the entry was stored: no step accepts a
\* token by a key withdrawn longer ago.
THEOREM SpecWithdrawnKeyStops == Spec => WithdrawnKeyStops
<1> DEFINE Body == \A p \in Request : Accepts(p) => withdrawn[proc[p].key] < TTL + Timeout + turned
<1>1. IInv /\ [Next]_vars => Body
  BY NextIInv DEF AcceptsYoung
<1> HIDE DEF Body
<1>2. IInv /\ [Next]_vars => [Body]_vars
  BY <1>1
<1>3. Spec => [][Body]_vars
  BY <1>2, SpecIInv, PTL DEF Spec
<1>4. QED
  BY <1>3 DEF WithdrawnKeyStops, Body

-----------------------------------------------------------------------------
(***************************************************************************)
(* The other thing the server keeps in memory: when each address last      *)
(* submitted.                                                              *)
(***************************************************************************)

Told == [step : {"told"}, left : Nat, refusals : Nat]

ClientState == {Away, [step |-> "reading"]} \cup Told

ClocksTyped ==
  /\ DOMAIN since = Address
  /\ \A a \in Address : since[a] \in Int /\ since[a] <= Never
  /\ DOMAIN elapsed = Address
  /\ \A a \in Address : elapsed[a] \in 0 .. Interval
  /\ client \in [Client -> ClientState]

\* The clock may be slow, but it never runs ahead of what has really passed and
\* what it was set forward.
NeverAhead == \A a \in Address : since[a] <= elapsed[a] \/ elapsed[a] = Interval

\* When a client has waited as it was told to, less than half a second of the
\* interval is left after the first refusal, and nothing after the second.
Shortfall(rec, a) ==
  /\ rec.refusals <= 2
  /\ rec.refusals = 1 => 2 * (Wait(a) - rec.left) < Second
  /\ rec.refusals = 2 => Wait(a) <= rec.left

Promised == \A c \in Client : client[c].step = "told" => Shortfall(client[c], AddressOf[c])

LimiterIInv == ClocksTyped /\ NeverAhead /\ Promised

\* One step of the limiter keeps the invariant and admits nobody too early.
Apart ==
  \A c \in Client : client[c].step # "reading" /\ client'[c].step = "reading"
                      => elapsed[AddressOf[c]] = Interval

\* Rounded to whole seconds, a wait loses less than half a second.
LEMMA RoundedEnough ==
  ASSUME NEW w \in Nat, Second \in Nat \ {0}
  PROVE  /\ Rounded(w) \in Nat
         /\ 2 * (w - Rounded(w) * Second) < Second
<1>1. \A x \in Nat, y \in Nat \ {0} : x \div y \in Nat /\ x < (x \div y) * y + y
  BY SMT
<1>2. PICK q : q = (2 * w + Second) \div (2 * Second)
  OBVIOUS
<1>3. PICK x \in Nat, y \in Nat \ {0} : x = 2 * w + Second /\ y = 2 * Second
  OBVIOUS
<1>4. q \in Nat /\ x < q * y + y
  BY <1>1, <1>2, <1>3
<1>5. q * y = 2 * (q * Second) /\ q * Second \in Nat
  BY <1>3, <1>4
<1>6. 2 * (w - q * Second) < Second
  BY <1>3, <1>4, <1>5
<1>7. QED
  BY <1>2, <1>4, <1>6 DEF Rounded

LEMMA RetryEnough ==
  ASSUME NEW w \in Nat, Second \in Nat \ {0}
  PROVE  /\ RetryAfter(w) * Second \in Nat
         /\ RetryAfter(w) * Second >= Second
         /\ 2 * (w - RetryAfter(w) * Second) < Second
<1>1. PICK q : q = Rounded(w)
  OBVIOUS
<1>2. q \in Nat /\ 2 * (w - q * Second) < Second
  BY <1>1, RoundedEnough
<1>3. PICK r : r = RetryAfter(w)
  OBVIOUS
<1>4. r \in Nat /\ r >= 1 /\ r >= q
  BY <1>1, <1>2, <1>3 DEF RetryAfter, Most
<1>5. r * Second >= Second /\ r * Second >= q * Second /\ r * Second \in Nat
  BY <1>2, <1>4
<1>6. QED
  BY <1>2, <1>3, <1>5

LEMMA LimiterInitIInv ==
  ASSUME LimiterInit
  PROVE  LimiterIInv
<1>1. \A c \in Client : client[c] = Away /\ client[c].step = "idle"
  BY DEF LimiterInit, Away
<1>2. ClocksTyped
  BY CSRLimiterAssumption DEF LimiterInit, ClocksTyped, Never, ClientState
<1>3. NeverAhead
  BY CSRLimiterAssumption DEF LimiterInit, NeverAhead
<1>4. QED
  BY <1>1, <1>2, <1>3 DEF LimiterIInv, Promised

LEMMA ClientFields ==
  ASSUME NEW rec \in ClientState
  PROVE  /\ rec.step \in {"idle", "reading", "told"}
         /\ rec.step = "told" => rec \in Told
BY DEF ClientState, Told, Away

LEMMA TickKeeps ==
  ASSUME LimiterIInv, LimiterTick
  PROVE  LimiterIInv' /\ Apart
<1>1. \A c \in Client :
        /\ client'[c] \in ClientState
        /\ client'[c].step = client[c].step
        /\ client[c].step = "told" =>
             /\ client[c].refusals = client'[c].refusals
             /\ client[c].left \in Nat /\ client'[c].left \in Nat
             /\ client'[c].left = IF client[c].left = 0 THEN 0 ELSE client[c].left - 1
  BY ClientFields DEF LimiterIInv, ClocksTyped, LimiterTick, Waited, Told,
       ClientState, Most
<1>2. \A a \in Address :
        /\ since[a] \in Int /\ since'[a] \in Int /\ since'[a] <= Never
        /\ since'[a] = since[a] + 1 \/ since'[a] = Never
        /\ elapsed[a] \in 0 .. Interval /\ elapsed'[a] \in 0 .. Interval
        /\ elapsed'[a] = elapsed[a] + 1 \/ elapsed'[a] = Interval
  BY CSRLimiterAssumption DEF LimiterIInv, ClocksTyped, LimiterTick, Never, UpTo
<1>3. ClocksTyped'
  BY CSRLimiterAssumption, <1>1, <1>2 DEF LimiterIInv, ClocksTyped, LimiterTick, Never
<1>4. NeverAhead'
  <2> SUFFICES ASSUME NEW a \in Address PROVE since'[a] <= elapsed'[a] \/ elapsed'[a] = Interval
    BY DEF NeverAhead
  <2>1. since[a] <= Never /\ (since[a] <= elapsed[a] \/ elapsed[a] = Interval)
    BY DEF LimiterIInv, ClocksTyped, NeverAhead
  <2>2. since'[a] <= since[a] + 1 /\ elapsed[a] + 1 \in Nat
        /\ elapsed'[a] = IF elapsed[a] = Interval THEN Interval ELSE elapsed[a] + 1
    BY CSRLimiterAssumption, <1>2, <2>1 DEF LimiterTick, UpTo, Never
  <2>3. QED
    BY <1>2, <2>1, <2>2
<1>5. Promised'
  <2> SUFFICES ASSUME NEW c \in Client, client'[c].step = "told"
               PROVE  Shortfall(client[c], AddressOf[c])'
    BY DEF Promised
  <2>1. PICK a \in Address : a = AddressOf[c]
    BY CSRLimiterAssumption
  <2>2. Shortfall(client[c], a)
    BY <1>1, <2>1 DEF LimiterIInv, Promised
  <2>3. since[a] <= Never
    BY DEF LimiterIInv, ClocksTyped
  <2>4. Shortfall(client[c], a)'
    BY CSRLimiterAssumption, <1>1, <1>2, <2>2, <2>3 DEF Shortfall, Wait, Never, ClientState, Told
  <2>5. QED
    BY <2>1, <2>4
<1>6. QED
  BY <1>1, <1>3, <1>4, <1>5 DEF LimiterIInv, Apart

LEMMA SetBackKeeps ==
  ASSUME LimiterIInv, NEW k \in 1 .. Setback, SetClockBack(k)
  PROVE  LimiterIInv' /\ Apart
<1>1. \A c \in Client :
        /\ client'[c] \in ClientState
        /\ client'[c].step = client[c].step
        /\ client[c].step = "told" => client'[c].refusals = 0
  BY ClientFields DEF LimiterIInv, ClocksTyped, SetClockBack, Disturbed, Told,
       ClientState
<1>2. \A a \in Address : since'[a] = since[a] - k
  BY DEF SetClockBack
<1>3. ClocksTyped' /\ NeverAhead'
  BY CSRLimiterAssumption, <1>1, <1>2
    DEF LimiterIInv, ClocksTyped, NeverAhead, SetClockBack, Never
<1>4. Promised'
  BY <1>1 DEF Promised, Shortfall
<1>5. QED
  BY <1>1, <1>3, <1>4 DEF LimiterIInv, Apart

LEMMA SetForwardKeeps ==
  ASSUME LimiterIInv, NEW k \in 1 .. Interval, SetClockForward(k)
  PROVE  LimiterIInv' /\ Apart
<1>1. UNCHANGED client
  BY DEF SetClockForward
<1>2. ASSUME NEW a \in Address
      PROVE  /\ since[a] \in Int /\ since'[a] \in Int
             /\ since'[a] <= Never /\ since[a] <= since'[a] /\ since'[a] <= since[a] + k
             /\ elapsed'[a] \in 0 .. Interval
             /\ elapsed'[a] = elapsed[a] + k \/ elapsed'[a] = Interval
  BY CSRLimiterAssumption DEF LimiterIInv, ClocksTyped, SetClockForward, UpTo, Never
<1>3. ClocksTyped'
  BY <1>1, <1>2 DEF LimiterIInv, ClocksTyped, SetClockForward, Never
<1>4. NeverAhead'
  <2> SUFFICES ASSUME NEW a \in Address PROVE since'[a] <= elapsed'[a] \/ elapsed'[a] = Interval
    BY DEF NeverAhead
  <2>1. since[a] <= elapsed[a] \/ elapsed[a] = Interval
    BY DEF LimiterIInv, NeverAhead
  <2>2. elapsed[a] \in 0 .. Interval /\ elapsed'[a] = UpTo(Interval, elapsed[a] + k)
    BY DEF LimiterIInv, ClocksTyped, SetClockForward
  <2>3. QED
    BY CSRLimiterAssumption, <1>2, <2>1, <2>2 DEF UpTo
<1>5. Promised'
  <2> SUFFICES ASSUME NEW c \in Client, client'[c].step = "told"
               PROVE  Shortfall(client[c], AddressOf[c])'
    BY DEF Promised
  <2>1. PICK a \in Address : a = AddressOf[c]
    BY CSRLimiterAssumption
  <2>2. Shortfall(client[c], a) /\ client[c] \in Told
    BY <1>1, <2>1, ClientFields DEF LimiterIInv, Promised, ClocksTyped
  <2>3. Shortfall(client[c], a)'
    BY CSRLimiterAssumption, <1>1, <1>2, <2>2 DEF Shortfall, Wait, Told
  <2>4. QED
    BY <2>1, <2>3
<1>6. QED
  BY <1>1, <1>3, <1>4, <1>5 DEF LimiterIInv, Apart

LEMMA RestartKeeps ==
  ASSUME LimiterIInv, LimiterRestart
  PROVE  LimiterIInv' /\ Apart
<1>1. ClocksTyped' /\ NeverAhead'
  BY CSRLimiterAssumption DEF LimiterIInv, ClocksTyped, NeverAhead, LimiterRestart, Never
<1>2. Promised'
  <2> SUFFICES ASSUME NEW c \in Client, client[c].step = "told"
               PROVE  Shortfall(client[c], AddressOf[c])'
    BY DEF Promised, LimiterRestart
  <2>1. PICK a \in Address : a = AddressOf[c]
    BY CSRLimiterAssumption
  <2>2. Shortfall(client[c], a) /\ client[c] \in Told
    BY <2>1, ClientFields DEF LimiterIInv, Promised, ClocksTyped
  <2>3. Wait(a)' <= 0 /\ Wait(a)' \in Int
    BY CSRLimiterAssumption DEF Wait, LimiterRestart, Never
  <2>4. Shortfall(client[c], a)'
    BY CSRLimiterAssumption, <2>2, <2>3 DEF Shortfall, LimiterRestart, Told
  <2>5. QED
    BY <2>1, <2>4
<1>3. QED
  BY <1>1, <1>2 DEF LimiterIInv, Apart, LimiterRestart

LEMMA RefuseKeeps ==
  ASSUME LimiterIInv, NEW c \in Client, TooSoon(c)
  PROVE  LimiterIInv' /\ Apart
<1>1. PICK a \in Address : a = AddressOf[c]
  BY CSRLimiterAssumption
<1>2. PICK w : w = Wait(a)
  OBVIOUS
<1>3. w \in Nat /\ w > 0
  BY CSRLimiterAssumption, <1>1, <1>2 DEF TooSoon, Wait, LimiterIInv, ClocksTyped
<1>4. PICK left : left = RetryAfter(w) * Second
  OBVIOUS
<1>5. left \in Nat /\ left >= Second /\ 2 * (w - left) < Second
  BY CSRLimiterAssumption, <1>3, <1>4, RetryEnough
<1>6. client[c] \in ClientState
  BY DEF LimiterIInv, ClocksTyped
<1>7. PICK n : n = IF client[c] = Away THEN 1
                   ELSE IF Patient(client[c]) THEN client[c].refusals + 1 ELSE 0
  OBVIOUS
<1>8. client' = [client EXCEPT ![c] = [step |-> "told", left |-> left, refusals |-> n]]
  BY <1>1, <1>2, <1>4, <1>7 DEF TooSoon
<1>9. n \in 0 .. 2 /\ (n = 2 => w <= left)
  <2>1. CASE client[c] = Away
    BY <1>7, <2>1
  <2>2. CASE client[c] # Away /\ Patient(client[c])
    <3>1. client[c] \in Told /\ client[c].left = 0 /\ client[c].refusals > 0
      BY <1>6, <2>2, ClientFields DEF Patient
    <3>2. Shortfall(client[c], a)
      BY <1>1, <3>1 DEF LimiterIInv, Promised, Told
    <3>3. client[c].refusals = 1 /\ 2 * w < Second
      BY <1>2, <1>3, <3>1, <3>2 DEF Shortfall, Told
    <3>4. QED
      BY CSRLimiterAssumption, <1>3, <1>5, <1>7, <2>2, <3>3
  <2>3. CASE client[c] # Away /\ ~Patient(client[c])
    BY <1>7, <2>3
  <2>4. QED
    BY <2>1, <2>2, <2>3
<1>10. \A d \in Client : d # c => client'[d] = client[d]
  BY <1>8
<1>11. /\ client'[c] = [step |-> "told", left |-> left, refusals |-> n]
       /\ client' \in [Client -> ClientState]
  BY <1>5, <1>8, <1>9 DEF LimiterIInv, ClocksTyped, ClientState, Told
<1>12. ClocksTyped' /\ NeverAhead'
  BY <1>11 DEF LimiterIInv, ClocksTyped, NeverAhead, TooSoon
<1>13. Shortfall(client[c], a)'
  BY <1>2, <1>5, <1>9, <1>11 DEF Shortfall, Wait, TooSoon
<1>14. Promised'
  BY <1>1, <1>10, <1>13 DEF LimiterIInv, Promised, TooSoon, Shortfall, Wait
<1>15. QED
  BY <1>10, <1>11, <1>12, <1>14 DEF LimiterIInv, Apart

LEMMA AdmitKeeps ==
  ASSUME LimiterIInv, NEW c \in Client, Admit(c)
  PROVE  LimiterIInv' /\ Apart
<1>1. PICK a \in Address : a = AddressOf[c]
  BY CSRLimiterAssumption
<1>2. elapsed[a] = Interval
  <2>1. since[a] >= Interval
    BY CSRLimiterAssumption, <1>1 DEF Admit, Wait, LimiterIInv, ClocksTyped
  <2>2. QED
    BY CSRLimiterAssumption, <2>1 DEF LimiterIInv, NeverAhead, ClocksTyped
<1>3. \A d \in Client :
        /\ client'[d] \in ClientState
        /\ client'[d].step = "told" =>
             \/ client'[d].refusals = 0
             \/ client'[d] = client[d] /\ AddressOf[d] # a
        /\ d # c => client'[d].step = client[d].step
  BY <1>1, ClientFields DEF LimiterIInv, ClocksTyped, Admit, Disturbed, Told,
       ClientState
<1>4. /\ since' = [since EXCEPT ![a] = 0]
      /\ elapsed' = [elapsed EXCEPT ![a] = 0]
  BY <1>1 DEF Admit, Taken
<1>5. ClocksTyped'
  BY CSRLimiterAssumption, <1>3, <1>4 DEF LimiterIInv, ClocksTyped, Admit, Never
<1>6. NeverAhead'
  BY CSRLimiterAssumption, <1>4 DEF LimiterIInv, ClocksTyped, NeverAhead
<1>7. Promised'
  <2> SUFFICES ASSUME NEW d \in Client, client'[d].step = "told"
               PROVE  Shortfall(client[d], AddressOf[d])'
    BY DEF Promised
  <2>1. CASE client'[d].refusals = 0
    BY <2>1 DEF Shortfall
  <2>2. CASE client'[d] = client[d] /\ AddressOf[d] # a
    <3>1. Shortfall(client[d], AddressOf[d])
      BY <2>2 DEF LimiterIInv, Promised
    <3>2. since'[AddressOf[d]] = since[AddressOf[d]]
      BY CSRLimiterAssumption, <1>4, <2>2 DEF LimiterIInv, ClocksTyped
    <3>3. QED
      BY <2>2, <3>1, <3>2 DEF Shortfall, Wait
  <2>3. QED
    BY <1>3, <2>1, <2>2
<1>8. Apart
  BY <1>1, <1>2, <1>3 DEF Apart
<1>9. QED
  BY <1>5, <1>6, <1>7, <1>8 DEF LimiterIInv

LEMMA FinishKeeps ==
  ASSUME LimiterIInv, NEW c \in Client, Finish(c)
  PROVE  LimiterIInv' /\ Apart
<1>1. \A d \in Client : client'[d] \in ClientState /\
        (client'[d] = client[d] \/ (client'[d] = Away /\ client'[d].step = "idle"))
  BY DEF LimiterIInv, ClocksTyped, Finish, ClientState, Away
<1>2. ClocksTyped' /\ NeverAhead'
  BY <1>1 DEF LimiterIInv, ClocksTyped, NeverAhead, Finish
<1>3. Promised'
  BY <1>1 DEF LimiterIInv, Promised, Finish, Shortfall, Wait
<1>4. QED
  BY <1>1, <1>2, <1>3 DEF LimiterIInv, Apart

LEMMA LimiterNextIInv ==
  ASSUME LimiterIInv, [LimiterNext]_limiterVars
  PROVE  LimiterIInv' /\ Apart
<1>1. CASE UNCHANGED limiterVars
  <2>1. UNCHANGED <<since, setback, client, elapsed>>
    BY <1>1 DEF limiterVars
  <2>2. QED
    BY <2>1 DEF LimiterIInv, ClocksTyped, NeverAhead, Promised, Shortfall, Wait, Apart
<1>2. CASE LimiterNext
  BY <1>2, TickKeeps, SetBackKeeps, SetForwardKeeps, RestartKeeps, RefuseKeeps, AdmitKeeps, FinishKeeps
    DEF LimiterNext
<1>3. QED
  BY <1>1, <1>2

\* Clocks never run ahead, and what is left to a client that waits is bounded.
THEOREM LimiterSpecIInv == LimiterSpec => []LimiterIInv
<1>1. LimiterInit => LimiterIInv
  BY LimiterInitIInv
<1>2. LimiterIInv /\ [LimiterNext]_limiterVars => LimiterIInv'
  BY LimiterNextIInv
<1>3. QED
  BY <1>1, <1>2, PTL DEF LimiterSpec

\* A client that waits as it is told to is refused twice at most.
THEOREM LimiterPatientClientAdmitted == LimiterSpec => []PatientClientAdmitted
<1>1. LimiterIInv => PatientClientAdmitted
  BY DEF LimiterIInv, Promised, Shortfall, PatientClientAdmitted
<1>2. QED
  BY <1>1, LimiterSpecIInv, PTL

\* Two submissions of one address are admitted an interval apart at least, less
\* what the clock was set forward between them, and however it is set back.
THEOREM LimiterAdmittedApart == LimiterSpec => AdmittedApart
<1>1. LimiterIInv /\ [LimiterNext]_limiterVars => Apart
  BY LimiterNextIInv
<1> HIDE DEF Apart
<1>2. LimiterIInv /\ [LimiterNext]_limiterVars => [Apart]_limiterVars
  BY <1>1
<1>3. LimiterSpec => [][Apart]_limiterVars
  BY <1>2, LimiterSpecIInv, PTL DEF LimiterSpec
<1>4. QED
  BY <1>3 DEF AdmittedApart, Apart

=============================================================================
