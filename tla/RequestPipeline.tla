-------------------------- MODULE RequestPipeline --------------------------
(* A request on its way to a capability: the gate of src/auth/gate.ts with  *)
(* the introspection verifier of src/auth/verifiers.ts and its cache, and   *)
(* the token bucket of src/authoring/middleware.ts, which every request     *)
(* shares.  The authorization server may revoke a token at any time, and    *)
(* its answers arrive in any order.                                         *)
EXTENDS Naturals, Sequences, FiniteSets

CONSTANTS
    Requests,
    Tokens,
    CacheTtl,     \* cacheTtlSeconds, in ticks of the clock
    NegativeTtl,  \* negativeCacheSeconds
    MaxEntries,   \* maxEntries
    Capacity,     \* capacity of a bucket, in shares
    Share,        \* what a call costs: the bucket refills one share per tick
    MaxLatency,   \* bound: ticks an answer of the authorization server is under way
    MaxClock,     \* bound: the clock
    Expiries,     \* when a token may expire
    Unset

ASSUME PipelineAssumption ==
    /\ {CacheTtl, NegativeTtl, MaxEntries, MaxLatency, MaxClock} \subseteq Nat
    /\ {Capacity, Share} \subseteq Nat \ {0}
    /\ Expiries \subseteq Nat
    /\ Unset \notin Tokens /\ Unset \notin 0 .. MaxClock
    /\ \A b \in [shares : 0 .. Capacity, at : 0 .. MaxClock] : b # Unset

VARIABLES
    clock,
    grant,   \* per token, at the authorization server: [exp, revoked]
    cache,   \* the entries, oldest first: [token, ok, until]
    req,     \* per request: [phase, token, answer, at]
    bucket,  \* per principal: [shares, at] or Unset
    served   \* the calls let through, in order: [token, at]

pipelineVars == <<clock, grant, cache, req, bucket, served>>

Time == 0 .. MaxClock
PipelineTypeOK ==
    /\ clock \in Time
    /\ grant \in [Tokens -> [exp : Nat, revoked : Time \cup {Unset}]]
    /\ cache \in Seq([token : Tokens, ok : BOOLEAN, until : Nat])
    /\ req \in [Requests -> [phase : {"idle", "asking", "answered", "admitted", "refused",
                                      "served", "limited"},
                             token : Tokens \cup {Unset}, answer : BOOLEAN, at : Time]]
    /\ bucket \in [Tokens -> {Unset} \cup [shares : 0 .. Capacity, at : Time]]
    /\ served \in Seq([token : Tokens, at : Time])

PipelineInit ==
    /\ clock = 0
    /\ grant \in [Tokens -> [exp : Expiries, revoked : {Unset}]]
    /\ cache = <<>>
    /\ req = [r \in Requests |-> [phase |-> "idle", token |-> Unset, answer |-> FALSE, at |-> 0]]
    /\ bucket = [t \in Tokens |-> Unset]
    /\ served = <<>>

Active(t) == grant[t].revoked = Unset /\ grant[t].exp > clock

-----------------------------------------------------------------------------
Tick ==
    /\ clock < MaxClock /\ clock' = clock + 1
    /\ \A r \in Requests : req[r].phase = "answered" => clock - req[r].at < MaxLatency
    /\ \A r \in Requests : req[r].phase # "admitted"
    /\ UNCHANGED <<grant, cache, req, bucket, served>>
Revoke(t) ==
    /\ grant[t].revoked = Unset
    /\ grant' = [grant EXCEPT ![t].revoked = clock]
    /\ UNCHANGED <<clock, cache, req, bucket, served>>

-----------------------------------------------------------------------------
(* verifyAccessToken: an entry that has not expired answers, an expired one *)
(* is dropped, and without one the authorization server is asked.           *)
At(t) == {n \in DOMAIN cache : cache[n].token = t}
StillFresh_Always(entry) == TRUE
StillFresh(entry) == entry.until > clock
Evicted(n) == SubSeq(cache, 1, n - 1) \o SubSeq(cache, n + 1, Len(cache))
Dropped(t) == IF At(t) = {} THEN cache ELSE Evicted(CHOOSE n \in At(t) : TRUE)
(* The bearer check behind the verifier refuses what has expired.           *)
Verdict(r, t, ok) ==
    req' = [req EXCEPT ![r].token = t, ![r].at = clock,
                       ![r].phase = IF ok /\ grant[t].exp > clock THEN "admitted" ELSE "refused"]
Arrive(r, t) ==
    /\ req[r].phase = "idle"
    /\ IF \E n \in At(t) : StillFresh(cache[n])
       THEN Verdict(r, t, \E n \in At(t) : cache[n].ok) /\ UNCHANGED cache
       ELSE /\ req' = [req EXCEPT ![r].phase = "asking", ![r].token = t]
            /\ cache' = Dropped(t)
    /\ UNCHANGED <<clock, grant, bucket, served>>
Introspect(r) ==
    /\ req[r].phase = "asking"
    /\ req' = [req EXCEPT ![r].phase = "answered", ![r].answer = Active(req[r].token),
                          ![r].at = clock]
    /\ UNCHANGED <<clock, grant, cache, bucket, served>>

(* remember: nothing that has expired already; at the limit the oldest      *)
(* entry goes, also when the token has one; a second write keeps its place. *)
Least(a, b) == IF a < b THEN a ELSE b
MadeRoom_TooLate(t) == IF Len(cache) > MaxEntries THEN Tail(cache) ELSE cache
MadeRoom(t) == IF Len(cache) >= MaxEntries /\ cache # <<>> THEN Tail(cache) ELSE cache
Remembered(entry) ==
    IF entry.until <= clock THEN cache
    ELSE LET kept == MadeRoom(entry.token)
             old == {n \in DOMAIN kept : kept[n].token = entry.token}
         IN  IF old = {} THEN Append(kept, entry)
             ELSE [n \in DOMAIN kept |-> IF n \in old THEN entry ELSE kept[n]]
Until_FromToken(t) == grant[t].exp
Until(t) == Least(clock + CacheTtl, grant[t].exp)
Answered(r) ==
    /\ req[r].phase = "answered"
    /\ LET t == req[r].token IN
       /\ cache' = IF req[r].answer
                   THEN IF CacheTtl = 0 THEN cache
                        ELSE Remembered([token |-> t, ok |-> TRUE, until |-> Until(t)])
                   ELSE Remembered([token |-> t, ok |-> FALSE, until |-> clock + NegativeTtl])
       /\ Verdict(r, t, req[r].answer)
    /\ UNCHANGED <<clock, grant, bucket, served>>
(* The endpoint fails or answers nonsense: refused, nothing is remembered.  *)
Unavailable(r) ==
    /\ req[r].phase \in {"asking", "answered"}
    /\ Verdict(r, req[r].token, FALSE)
    /\ UNCHANGED <<clock, grant, cache, bucket, served>>

(* The bucket of the principal, refilled for the time since it was last     *)
(* looked at, never above its capacity.                                     *)
Refilled_Uncapped(b) == [shares |-> b.shares + (clock - b.at), at |-> clock]
Refilled(b) == [shares |-> Least(Capacity, b.shares + (clock - b.at)), at |-> clock]
Bucket(t) == IF bucket[t] = Unset THEN [shares |-> Capacity, at |-> clock] ELSE Refilled(bucket[t])
Invoke(r) ==
    /\ req[r].phase = "admitted"
    /\ LET t == req[r].token
           b == Bucket(t)
           through == b.shares >= Share
       IN  /\ bucket' = [bucket EXCEPT ![t] = IF through THEN [b EXCEPT !.shares = @ - Share] ELSE b]
           /\ served' = IF through THEN Append(served, [token |-> t, at |-> clock]) ELSE served
           /\ req' = [req EXCEPT ![r].phase = IF through THEN "served" ELSE "limited"]
    /\ UNCHANGED <<clock, grant, cache>>

PipelineNext ==
    \/ Tick \/ (\E t \in Tokens : Revoke(t))
    \/ \E r \in Requests :
         \/ Introspect(r) \/ Answered(r) \/ Unavailable(r) \/ Invoke(r)
         \/ \E t \in Tokens : Arrive(r, t)

PipelineSpec == PipelineInit /\ [][PipelineNext]_pipelineVars

-----------------------------------------------------------------------------
(* A token is never honoured longer after its revocation than the positive  *)
(* cache and the latency of an answer explain, whatever order concurrent    *)
(* answers for it arrive in and whatever they overwrite.                    *)
RevocationBites ==
    \A r \in Requests :
        req[r].phase = "admitted" /\ grant[req[r].token].revoked # Unset
            => req[r].at <= grant[req[r].token].revoked + CacheTtl + MaxLatency

(* The cache never holds two entries of a token, nor more than its limit    *)
(* ("the cache is bounded"); a limit of 0 still keeps the last one.         *)
CacheBounded ==
    /\ Len(cache) <= IF MaxEntries = 0 THEN 1 ELSE MaxEntries
    /\ \A m, n \in DOMAIN cache : cache[m].token = cache[n].token => m = n

(* In no stretch of time does a principal get more calls than a full bucket *)
(* and the refill of that time pay for ("bursts are bounded by capacity     *)
(* even across window edges").                                              *)
BurstBounded ==
    \A i, j \in DOMAIN served :
        i <= j /\ served[i].token = served[j].token =>
            Cardinality({k \in i .. j : served[k].token = served[i].token}) * Share
                <= Capacity + (served[j].at - served[i].at)

(* All three, typed.                                                        *)
AdmissionBounded == PipelineTypeOK /\ RevocationBites /\ CacheBounded /\ BurstBounded
=============================================================================
